---------------------------- MODULE DriverProofs ----------------------------
(***************************************************************************)
(* Proofs about Driver and ProcessMonitor, for any number of processors,   *)
(* processes, lives and reports.                                           *)
(*                                                                         *)
(* The inductive invariants.  LockInv is about spinlock.c: who holds which *)
(* lock, on which processor, at which IRQL, and what the lock will         *)
(* restore.  StageInv is about process.c and driver.c: what there is of    *)
(* the tree in each stage of DriverEntry and DriverUnload, and who may be  *)
(* using it; LeftInv: what is left of it, and of the resources, at the     *)
(* end.  ListInv is about idxlist.c and the exclusion lists: how the nodes *)
(* of every table are linked, and where every block is.  ExemptInv is      *)
(* about hvm_root.c: whom CR4.TSD is clear for, and on the strength of     *)
(* which list.                                                             *)
(***************************************************************************)
EXTENDS Driver, FiniteSetTheorems, SequenceTheorems, WellFoundedInduction, NaturalsInduction, TLAPS

(* The failure path of PmInitializeProcessMonitor works without the lock   *)
(* of the tree, and is the only one in which the routine is registered     *)
(* while entries are cleared.                                              *)
Lockless(x) == x = Entry /\ hooked

(* What context x does about the locks: it waits for the first lock with   *)
(* none, holds the tree's, waits for a list's while it holds the tree's,   *)
(* holds both, or holds a list's alone.                                    *)
Mode(x) ==
    IF \/ pc[x] \in {"c_take", "d_take", "f_take", "w_take", "r_take"}
       \/ pc[x] = "d_list" /\ Lockless(x) THEN "wait1"
    ELSE IF pc[x] \in {"d_list", "r_list"} THEN "wait2"
    ELSE IF \/ pc[x] \in {"c_release", "d_release", "f_release", "f_clear", "r_release"}
            \/ pc[x] = "d_delete" /\ ~Lockless(x) THEN "tree"
    ELSE IF pc[x] \in {"d_unlist", "r_unlist"} /\ ~Lockless(x) THEN "both"
    ELSE IF pc[x] \in {"w_release", "d_unlist"} THEN "list"
    ELSE "low"

Current(c) == IF pc[c] = "guest" THEN run[c] ELSE c

(* The places of each kind of context.                                     *)
DeleteStages == {"d_list", "d_unlist", "d_delete"}
CreateStages == {"c_name", "c_take", "c_release"}
ProcStages == {"none", "user", "d_take", "d_release"} \cup CreateStages \cup DeleteStages
WorkerStages == {"idle", "w_alloc", "w_take", "w_release", "w_check"}
CpuStages == {"guest", "r_take", "r_list", "r_unlist", "r_release"}
EntryStages ==
    {"load", "procmon", "query", "enum", "monitored", "up", "stopped", "f_unhook", "f_take",
     "f_clear", "f_release", "down", "gone", "failed", "returned", "undo", "undo_null", "undo_hook"}
       \cup CreateStages \cup DeleteStages

Types ==
    /\ pc \in [Contexts -> ProcStages \cup WorkerStages \cup CpuStages \cup EntryStages]
    /\ \A p \in Procs : pc[p] \in ProcStages
    /\ \A c \in Cpus : pc[c] \in CpuStages
    /\ pc[Worker] \in WorkerStages /\ pc[Entry] \in EntryStages
    /\ run \in [Cpus -> Threads \cup {Null}]
    /\ irql \in [Cpus -> {PASSIVE, HIGH}] /\ OldIrql \in [Cpus -> {PASSIVE, HIGH}]
    /\ lock \in [Locks -> [held : BOOLEAN, OldIrql : {PASSIVE, HIGH}, Owner : Contexts \cup {Null}]]
    /\ entries \subseteq Procs
    /\ todo \in Seq(Procs)
    /\ pc[Entry] \in CreateStages \cup DeleteStages => target \in Procs
    /\ found = [p |-> found.p, gen |-> found.gen, id |-> found.id]
    /\ pc[Worker] # "idle" => found.p \in Procs
    /\ \A c \in Cpus : pc[c] # "guest" => run[c] # Null
    /\ hooked \in BOOLEAN /\ shielded \in BOOLEAN

(* A thread is on one processor, and is on one whenever it is at HIGH.     *)
Placed ==
    /\ \A c, d \in Cpus : run[c] = run[d] /\ run[c] # Null => c = d
    /\ \A x \in Threads : Mode(x) # "low" => \E c \in Cpus : run[c] = x /\ pc[c] = "guest"

(* The IRQL of a processor is that of what it executes, and the local      *)
(* variable of the lock routine has the IRQL to go back to.                *)
LevelOf(c) ==
    /\ Current(c) = Null => irql[c] = PASSIVE
    /\ Current(c) # Null =>
          /\ irql[c] = IF Mode(Current(c)) = "low" THEN PASSIVE ELSE HIGH
          /\ Mode(Current(c)) = "wait1" => OldIrql[c] = PASSIVE
          /\ Mode(Current(c)) = "wait2" => OldIrql[c] = HIGH

Levels == \A c \in Cpus : LevelOf(c)

(* A lock is held by the context whose place says so, and has the IRQL     *)
(* that context is to go back to.                                          *)
Owned ==
    /\ \A x \in Contexts :
          lock[Tree].held /\ lock[Tree].Owner = x <=> Mode(x) \in {"tree", "wait2", "both"}
    /\ \A x \in Contexts, p \in Procs :
          lock[p].held /\ lock[p].Owner = x <=> Mode(x) \in {"list", "both"} /\ Of(x) = p
    /\ \A x \in Contexts : Mode(x) \in {"list", "both"} => Of(x) \in Procs
    /\ \A l \in Locks : lock[l].held => lock[l].Owner \in Contexts
    /\ lock[Tree].held => lock[Tree].OldIrql = PASSIVE
    /\ \A x \in Contexts : Mode(x) \in {"list", "both"} =>
          lock[Of(x)].OldIrql = IF Mode(x) = "both" THEN HIGH ELSE PASSIVE

LockInv == Types /\ Placed /\ Levels /\ Owned

(* What there is of the tree in each stage of DriverEntry.                 *)
Undoing == {"undo", "undo_null", "undo_hook"} \cup DeleteStages

TreeStages ==
    /\ pc[Entry] \in {"load", "procmon"} => ~hooked /\ entries = {} /\ gProcessTree = "null"
    /\ pc[Entry] \in {"query", "enum", "monitored", "up", "stopped", "f_unhook"} \cup CreateStages
          => hooked /\ gProcessTree = "live"
    /\ pc[Entry] \in {"undo", "f_take", "f_clear"} \cup DeleteStages => gProcessTree = "live"
    /\ pc[Entry] = "undo" /\ ~hooked => entries = {}
    /\ pc[Entry] \in {"f_take", "f_clear", "f_release", "down", "gone", "failed", "returned"}
          => ~hooked
    /\ pc[Entry] \in DeleteStages /\ ~hooked => target \in entries
    /\ pc[Entry] \in {"up", "stopped"} => "procmon" \in noted

(* The shield has been up, or may have been.                               *)
PastAt(stage, registered) ==
    \/ stage \in {"up", "stopped", "f_unhook", "f_take", "f_clear", "f_release", "down", "gone"}
    \/ stage \in DeleteStages /\ ~registered

(* Who may be using it.                                                    *)
Users ==
    /\ ~hooked => \A p \in Procs : ~Notifying(p)
    /\ shielded \/ suspended => PastAt(pc[Entry], hooked)
    /\ shielded => pc[Entry] = "up" \/ late
    /\ \A c \in Cpus : pc[c] # "guest" => shielded
    /\ \A c \in Cpus : pc[c] \in {"r_list", "r_unlist"} => run[c] \in entries
    /\ \A p \in Procs : pc[p] \in DeleteStages => p \in entries \/ (hooked /\ pc[Entry] \in Undoing)

StageInv == TreeStages /\ Users /\ LockedUsersAreSafe

DriverInv == LockInv /\ StageInv

-----------------------------------------------------------------------------
(* The locks, one kind of step at a time.  Everything but context x on     *)
(* processor c stays as it is.                                             *)
Apart(c, x) ==
    /\ \A y \in Contexts : y # x =>
          Mode(y)' = Mode(y) /\ (Mode(y) \in {"list", "both"} => Of(y)' = Of(y))
    /\ \A d \in Cpus : d # c =>
          irql'[d] = irql[d] /\ OldIrql'[d] = OldIrql[d] /\ Current(d)' = Current(d)

(* A processor executes one context at a time, and no other processor      *)
(* executes the same.                                                      *)
LEMMA CurrentIsOne ==
    ASSUME LockInv, NEW c \in Cpus, NEW d \in Cpus, Current(c) = Current(d), Current(c) # Null
    PROVE  c = d
BY ActorsAssumption DEF LockInv, Types, Placed, Current, Threads, Contexts

(* The context that a step is of is at the IRQL its place says.            *)
LEMMA CurrentLevel ==
    ASSUME LockInv, NEW c \in Cpus, NEW x \in Contexts, On(c, x)
    PROVE  /\ Current(c) = x /\ x # Null
           /\ irql[c] = IF Mode(x) = "low" THEN PASSIVE ELSE HIGH
           /\ Mode(x) = "wait1" => OldIrql[c] = PASSIVE
           /\ Mode(x) = "wait2" => OldIrql[c] = HIGH
<1>1. x # Null
  BY ActorsAssumption DEF Contexts, Threads
<1>2. Current(c) = x
  BY DEF On, Current
<1> QED BY <1>1, <1>2 DEF LockInv, Levels, LevelOf

(* The other processors keep their level.                                  *)
LEMMA OtherLevels ==
    ASSUME LockInv, NEW c \in Cpus, NEW x \in Contexts, On(c, x), Apart(c, x),
           NEW d \in Cpus, d # c
    PROVE  LevelOf(d)'
<1>1. Current(c) = x /\ x # Null
  BY CurrentLevel
<1>2. Current(d) # x
  BY <1>1, CurrentIsOne
<1>3. Current(d) # Null => Current(d) \in Contexts
  BY DEF LockInv, Types, Current, Contexts
<1>4. Current(d)' = Current(d) /\ irql'[d] = irql[d] /\ OldIrql'[d] = OldIrql[d]
  BY DEF Apart
<1>5. Current(d) # Null => Mode(Current(d))' = Mode(Current(d))
  BY <1>2, <1>3, <1>4 DEF Apart
<1> QED BY <1>4, <1>5 DEF LockInv, Levels, LevelOf

(* Nothing happens to the locks.                                           *)
LEMMA KeepStep ==
    ASSUME LockInv, Types', UNCHANGED <<run, irql, OldIrql, lock>>,
           \A y \in Contexts : Mode(y)' = Mode(y),
           \A y \in Contexts : Mode(y) \in {"list", "both"} => Of(y)' = Of(y),
           \A c \in Cpus : pc'[c] = "guest" <=> pc[c] = "guest"
    PROVE  LockInv'
<1>1. \A c \in Cpus : Current(c)' = Current(c)
  BY DEF Current
<1>2. \A c \in Cpus : Current(c) # Null => Current(c) \in Contexts
  BY DEF LockInv, Types, Current, Contexts
<1>3. Placed'
  BY DEF LockInv, Placed, Contexts
<1>4. Levels'
  BY <1>1, <1>2 DEF LockInv, Levels, LevelOf
<1>5. Owned'
  BY DEF LockInv, Owned, Locks
<1> QED BY <1>3, <1>4, <1>5 DEF LockInv

(* A step of x on c that leaves the processors where they are keeps every  *)
(* thread at HIGH on its processor.                                        *)
LEMMA PlacedStep ==
    ASSUME LockInv, NEW c \in Cpus, NEW x \in Contexts, On(c, x), Apart(c, x),
           run' = run, \A d \in Cpus : pc'[d] = "guest" <=> pc[d] = "guest"
    PROVE  Placed' /\ Current(c)' = Current(c)
<1>1. x \in Threads => run[c] = x /\ pc[c] = "guest"
  BY ActorsAssumption DEF On, Threads
<1> QED BY <1>1 DEF LockInv, Placed, Contexts, Apart, Current

(* DsAcquireSpinLock raises the IRQL before it spins, for the first lock   *)
(* or for a list's under the tree's.                                       *)
LEMMA RaiseStep ==
    ASSUME LockInv, Types', NEW c \in Cpus, NEW x \in Contexts, On(c, x), Apart(c, x),
           \/ Mode(x) = "low" /\ Mode(x)' = "wait1"
           \/ Mode(x) = "tree" /\ Mode(x)' = "wait2",
           Raise(c), UNCHANGED <<run, lock>>, \A d \in Cpus : pc'[d] = "guest" <=> pc[d] = "guest"
    PROVE  LockInv'
<1>1. /\ Current(c) = x /\ x # Null
      /\ irql[c] = IF Mode(x) = "low" THEN PASSIVE ELSE HIGH
  BY CurrentLevel
<1>2. Placed' /\ Current(c)' = x
  BY <1>1, PlacedStep
<1>3. irql'[c] = HIGH /\ OldIrql'[c] = irql[c]
  BY DEF Raise, LockInv, Types
<1>4. Levels'
  BY <1>1, <1>2, <1>3, OtherLevels DEF Levels, LevelOf
<1>5. Owned'
  BY DEF LockInv, Owned, Locks, Apart
<1> QED BY <1>2, <1>4, <1>5 DEF LockInv

(* It obtains the lock of the tree, and goes on to one of a list, or not.  *)
LEMMA TakeTreeStep ==
    ASSUME LockInv, Types', NEW c \in Cpus, NEW x \in Contexts, On(c, x), Apart(c, x),
           Mode(x) = "wait1", Take(c, x, Tree),
           \/ Mode(x)' = "tree" /\ UNCHANGED <<irql, OldIrql>>
           \/ Mode(x)' = "wait2" /\ Raise(c),
           run' = run, \A d \in Cpus : pc'[d] = "guest" <=> pc[d] = "guest"
    PROVE  LockInv'
<1>1. Current(c) = x /\ x # Null /\ irql[c] = HIGH /\ OldIrql[c] = PASSIVE
  BY CurrentLevel
<1>2. Placed' /\ Current(c)' = x
  BY <1>1, PlacedStep
<1>3. irql'[c] = HIGH /\ (Mode(x)' = "wait2" => OldIrql'[c] = HIGH)
  BY <1>1 DEF Raise, LockInv, Types
<1>4. Levels'
  BY <1>1, <1>2, <1>3, OtherLevels DEF Levels, LevelOf
<1>5. /\ ~lock[Tree].held /\ Tree \in Locks
      /\ lock' = [lock EXCEPT ![Tree] = [held |-> TRUE, OldIrql |-> PASSIVE, Owner |-> x]]
  BY <1>1 DEF Take, Locks
<1>6. /\ lock'[Tree] = [held |-> TRUE, OldIrql |-> PASSIVE, Owner |-> x]
      /\ \A p \in Procs : lock'[p] = lock[p]
  BY <1>5, TreeAssumption DEF LockInv, Types, Locks
<1>7. Owned'
  <2>1. \A y \in Contexts :
           lock'[Tree].held /\ lock'[Tree].Owner = y <=> Mode(y)' \in {"tree", "wait2", "both"}
    BY <1>5, <1>6 DEF LockInv, Owned, Apart
  <2>2. \A y \in Contexts, p \in Procs :
           lock'[p].held /\ lock'[p].Owner = y <=> Mode(y)' \in {"list", "both"} /\ Of(y)' = p
    BY <1>6 DEF LockInv, Owned, Apart
  <2>3. \A y \in Contexts : Mode(y)' \in {"list", "both"} =>
           Of(y)' \in Procs /\ lock'[Of(y)'].OldIrql = IF Mode(y)' = "both" THEN HIGH ELSE PASSIVE
    BY <1>6 DEF LockInv, Owned, Apart
  <2>4. \A l \in Locks : lock'[l].held => lock'[l].Owner \in Contexts
    BY <1>6 DEF LockInv, Owned, Locks
  <2> QED BY <1>6, <2>1, <2>2, <2>3, <2>4 DEF Owned
<1> QED BY <1>2, <1>4, <1>7 DEF LockInv

(* It obtains the lock of a list, with or without the tree's.              *)
LEMMA TakeListStep ==
    ASSUME LockInv, Types', NEW c \in Cpus, NEW x \in Contexts, On(c, x), Apart(c, x),
           NEW p \in Procs, Take(c, x, p), Of(x)' = p,
           \/ Mode(x) = "wait1" /\ Mode(x)' = "list"
           \/ Mode(x) = "wait2" /\ Mode(x)' = "both",
           UNCHANGED <<run, irql, OldIrql>>,
           \A d \in Cpus : pc'[d] = "guest" <=> pc[d] = "guest"
    PROVE  LockInv'
<1>1. /\ Current(c) = x /\ x # Null /\ irql[c] = HIGH
      /\ OldIrql[c] = IF Mode(x)' = "both" THEN HIGH ELSE PASSIVE
  BY CurrentLevel
<1>2. Placed' /\ Current(c)' = x
  BY <1>1, PlacedStep
<1>3. Levels'
  BY <1>1, <1>2, OtherLevels DEF Levels, LevelOf
<1>4. ~lock[p].held /\ p \in Locks /\ Tree \in Locks /\ p # Tree
  BY TreeAssumption DEF Take, Locks
<1>5. /\ lock'[p] = [held |-> TRUE, OldIrql |-> OldIrql[c], Owner |-> x]
      /\ \A l \in Locks : l # p => lock'[l] = lock[l]
  BY <1>4 DEF Take, LockInv, Types
<1>6. Owned'
  <2>1. \A y \in Contexts :
           lock'[Tree].held /\ lock'[Tree].Owner = y <=> Mode(y)' \in {"tree", "wait2", "both"}
    BY <1>4, <1>5 DEF LockInv, Owned, Apart
  <2>2. ASSUME NEW y \in Contexts, NEW q \in Procs
        PROVE  lock'[q].held /\ lock'[q].Owner = y <=> Mode(y)' \in {"list", "both"} /\ Of(y)' = q
    <3>1. q \in Locks
      BY DEF Locks
    <3>2. CASE q = p
      BY <1>4, <1>5, <3>2 DEF LockInv, Owned, Apart
    <3>3. CASE q # p
      BY <1>5, <3>1, <3>3 DEF LockInv, Owned, Apart
    <3> QED BY <3>2, <3>3
  <2>3. ASSUME NEW y \in Contexts, Mode(y)' \in {"list", "both"}
        PROVE  Of(y)' \in Procs /\ lock'[Of(y)'].OldIrql = IF Mode(y)' = "both" THEN HIGH ELSE PASSIVE
    <3>1. CASE y = x
      BY <1>1, <1>5, <3>1
    <3>2. CASE y # x
      <4>1. Mode(y)' = Mode(y) /\ Of(y)' = Of(y) /\ Of(y) \in Procs
        BY <2>3, <3>2 DEF Apart, LockInv, Owned
      <4>2. Of(y) # p /\ Of(y) \in Locks
        BY <1>4, <2>3, <4>1 DEF LockInv, Owned, Locks
      <4> QED BY <1>5, <2>3, <4>1, <4>2 DEF LockInv, Owned
    <3> QED BY <3>1, <3>2
  <2>5. \A l \in Locks : lock'[l].held => lock'[l].Owner \in Contexts
    BY <1>5 DEF LockInv, Owned
  <2>6. lock'[Tree].held => lock'[Tree].OldIrql = PASSIVE
    BY <1>4, <1>5 DEF LockInv, Owned
  <2> QED BY <2>1, <2>2, <2>3, <2>5, <2>6 DEF Owned
<1> QED BY <1>2, <1>3, <1>6 DEF LockInv

(* DsReleaseSpinLock of a list's lock restores the IRQL found there: HIGH  *)
(* for the nested lock, PASSIVE otherwise.                                 *)
LEMMA ReleaseListStep ==
    ASSUME LockInv, Types', NEW c \in Cpus, NEW x \in Contexts, On(c, x), Apart(c, x),
           Release(c, Of(x)),
           \/ Mode(x) = "list" /\ Mode(x)' = "low"
           \/ Mode(x) = "both" /\ Mode(x)' = "tree",
           run' = run, \A d \in Cpus : pc'[d] = "guest" <=> pc[d] = "guest"
    PROVE  LockInv'
<1>1. Current(c) = x /\ x # Null
  BY CurrentLevel
<1>2. Placed' /\ Current(c)' = x
  BY <1>1, PlacedStep
<1> DEFINE p == Of(x)
<1>3. p \in Procs /\ p \in Locks /\ Tree \in Locks /\ p # Tree
  BY TreeAssumption DEF LockInv, Owned, Locks
<1>4. lock[p].held /\ lock[p].Owner = x
      /\ lock[p].OldIrql = IF Mode(x) = "both" THEN HIGH ELSE PASSIVE
  BY <1>3 DEF LockInv, Owned
<1>5. /\ lock'[p] = FreeLock
      /\ \A l \in Locks : l # p => lock'[l] = lock[l]
      /\ irql'[c] = lock[p].OldIrql
  BY <1>3 DEF Release, LockInv, Types
<1> HIDE DEF p
<1>6. Levels'
  BY <1>1, <1>2, <1>4, <1>5, OtherLevels DEF Levels, LevelOf
<1>7. ~lock'[p].held
  BY <1>5 DEF FreeLock
<1>8. Owned'
  <2>1. \A y \in Contexts :
           lock'[Tree].held /\ lock'[Tree].Owner = y <=> Mode(y)' \in {"tree", "wait2", "both"}
    BY <1>3, <1>5 DEF LockInv, Owned, Apart
  <2>2. ASSUME NEW y \in Contexts, NEW q \in Procs
        PROVE  lock'[q].held /\ lock'[q].Owner = y <=> Mode(y)' \in {"list", "both"} /\ Of(y)' = q
    <3>1. q \in Locks
      BY DEF Locks
    <3>2. CASE q = p
      BY <1>3, <1>4, <1>7, <3>2 DEF LockInv, Owned, Apart
    <3>3. CASE q # p
      BY <1>5, <3>1, <3>3 DEF LockInv, Owned, Apart, p
    <3> QED BY <3>2, <3>3
  <2>3. ASSUME NEW y \in Contexts, Mode(y)' \in {"list", "both"}
        PROVE  Of(y)' \in Procs /\ lock'[Of(y)'].OldIrql = IF Mode(y)' = "both" THEN HIGH ELSE PASSIVE
    <3>1. y # x
      BY <2>3
    <3>2. Mode(y)' = Mode(y) /\ Of(y)' = Of(y) /\ Of(y) \in Procs
      BY <2>3, <3>1 DEF Apart, LockInv, Owned
    <3>3. Of(y) # p /\ Of(y) \in Locks
      BY <1>4, <2>3, <3>1, <3>2 DEF LockInv, Owned, Locks
    <3> QED BY <1>5, <2>3, <3>2, <3>3 DEF LockInv, Owned
  <2>4. \A l \in Locks : lock'[l].held => lock'[l].Owner \in Contexts
    BY <1>5, <1>7 DEF LockInv, Owned
  <2>5. lock'[Tree].held => lock'[Tree].OldIrql = PASSIVE
    BY <1>3, <1>5 DEF LockInv, Owned
  <2> QED BY <2>1, <2>2, <2>3, <2>4, <2>5 DEF Owned
<1> QED BY <1>2, <1>6, <1>8 DEF LockInv

(* DsReleaseSpinLock of the tree's lock restores PASSIVE_LEVEL, whether    *)
(* the context goes on, its process ends or root mode is left for a thread *)
(* that was interrupted outside the locks.                                 *)
LEMMA ReleaseTreeStep ==
    ASSUME LockInv, Types', NEW c \in Cpus, NEW x \in Contexts, On(c, x), Apart(c, x),
           Release(c, Tree), Mode(x) = "tree", Mode(x)' = "low",
           \/ run' = run
           \/ x \in Threads /\ run' = [run EXCEPT ![c] = Null],
           \A d \in Cpus : d # c => (pc'[d] = "guest" <=> pc[d] = "guest"),
           pc'[c] = "guest"
    PROVE  LockInv'
<1>1. Current(c) = x /\ x # Null
  BY CurrentLevel
<1>2. x \in Threads => run[c] = x /\ pc[c] = "guest"
  BY ActorsAssumption DEF On, Threads
<1>3. x \notin Threads => x = c /\ pc[c] # "guest"
  BY ActorsAssumption DEF On, Contexts, Threads, LockInv, Types
<1>4. \A y \in Threads : Mode(y)' # "low" => y # x /\ Mode(y) # "low"
  BY DEF Apart, Contexts
<1>5. Placed'
  <2>1. \A d, e \in Cpus : run'[d] = run'[e] /\ run'[d] # Null => d = e
    BY DEF LockInv, Placed, Types
  <2>2. ASSUME NEW y \in Threads, Mode(y)' # "low"
        PROVE  \E d \in Cpus : run'[d] = y /\ pc'[d] = "guest"
    <3>1. PICK d \in Cpus : run[d] = y /\ pc[d] = "guest"
      BY <1>4, <2>2 DEF LockInv, Placed
    <3>2. y # x
      BY <1>4, <2>2
    <3>3. d # c
      BY <1>2, <1>3, <3>1, <3>2
    <3>4. run'[d] = run[d] /\ pc'[d] = "guest"
      BY <3>1, <3>3 DEF LockInv, Types
    <3> QED BY <3>1, <3>4
  <2> QED BY <2>1, <2>2 DEF Placed
<1>6. Current(c)' # Null => Current(c)' \in Contexts /\ Mode(Current(c))' = "low"
  <2> SUFFICES ASSUME Current(c)' # Null
               PROVE  Current(c)' \in Contexts /\ Mode(Current(c))' = "low"
    OBVIOUS
  <2>1. CASE x \in Threads
    BY <1>2, <2>1 DEF Current, LockInv, Types, Contexts
  <2>2. CASE x \notin Threads
    <3>1. x = c /\ pc[c] # "guest" /\ run' = run
      BY <1>3, <2>2
    <3>2. Current(c)' = run[c]
      BY <3>1 DEF Current
    <3>3. run[c] \in Threads
      BY <3>2 DEF LockInv, Types
    <3>4. Mode(run[c]) = "low"
      <4> SUFFICES ASSUME Mode(run[c]) # "low"
                   PROVE  FALSE
        OBVIOUS
      <4>1. PICK d \in Cpus : run[d] = run[c] /\ pc[d] = "guest"
        BY <3>3 DEF LockInv, Placed
      <4> QED BY <3>1, <3>2, <4>1 DEF LockInv, Placed
    <3>5. run[c] # x /\ run[c] \in Contexts
      BY <2>2, <3>3 DEF Contexts
    <3>6. Mode(run[c])' = "low"
      BY <3>1, <3>4, <3>5 DEF Apart
    <3> QED BY <3>1, <3>2, <3>5, <3>6 DEF Current
  <2> QED BY <2>1, <2>2
<1>7. lock[Tree].held /\ lock[Tree].Owner = x /\ lock[Tree].OldIrql = PASSIVE
  BY DEF LockInv, Owned
<1>8. /\ lock'[Tree] = FreeLock /\ Tree \in Locks
      /\ \A p \in Procs : lock'[p] = lock[p]
      /\ irql'[c] = PASSIVE
  BY <1>7, TreeAssumption DEF Release, LockInv, Types, Locks
<1>9. Levels'
  BY <1>6, <1>8, OtherLevels DEF Levels, LevelOf
<1>10. ~lock'[Tree].held
  BY <1>8 DEF FreeLock
<1>11. Owned'
  <2>1. \A y \in Contexts :
           lock'[Tree].held /\ lock'[Tree].Owner = y <=> Mode(y)' \in {"tree", "wait2", "both"}
    BY <1>7, <1>10 DEF LockInv, Owned, Apart
  <2>2. \A y \in Contexts, p \in Procs :
           lock'[p].held /\ lock'[p].Owner = y <=> Mode(y)' \in {"list", "both"} /\ Of(y)' = p
    BY <1>8 DEF LockInv, Owned, Apart
  <2>3. \A y \in Contexts : Mode(y)' \in {"list", "both"} =>
           Of(y)' \in Procs /\ lock'[Of(y)'].OldIrql = IF Mode(y)' = "both" THEN HIGH ELSE PASSIVE
    BY <1>8 DEF LockInv, Owned, Apart
  <2>4. \A l \in Locks : lock'[l].held => lock'[l].Owner \in Contexts
    BY <1>8, <1>10 DEF LockInv, Owned, Locks
  <2> QED BY <1>10, <2>1, <2>2, <2>3, <2>4 DEF Owned
<1> QED BY <1>5, <1>9, <1>11 DEF LockInv

(* A process ends outside the locks and leaves its processor.              *)
LEMMA LeaveStep ==
    ASSUME LockInv, Types', NEW c \in Cpus, NEW x \in Threads, On(c, x), Apart(c, x),
           Mode(x) = "low", Mode(x)' = "low", run' = [run EXCEPT ![c] = Null],
           UNCHANGED <<irql, OldIrql, lock>>,
           \A d \in Cpus : pc'[d] = "guest" <=> pc[d] = "guest"
    PROVE  LockInv'
<1>1. run[c] = x /\ pc[c] = "guest" /\ x \in Contexts
  BY ActorsAssumption DEF On, Threads, Contexts
<1>2. irql[c] = PASSIVE
  BY <1>1, CurrentLevel
<1>3. Placed'
  <2>1. \A d, e \in Cpus : run'[d] = run'[e] /\ run'[d] # Null => d = e
    BY DEF LockInv, Placed, Types
  <2>2. ASSUME NEW y \in Threads, Mode(y)' # "low"
        PROVE  \E d \in Cpus : run'[d] = y /\ pc'[d] = "guest"
    <3>1. y # x /\ Mode(y) # "low"
      BY <2>2 DEF Apart, Contexts
    <3>2. PICK d \in Cpus : run[d] = y /\ pc[d] = "guest"
      BY <3>1 DEF LockInv, Placed
    <3> QED BY <1>1, <3>1, <3>2 DEF LockInv, Types
  <2> QED BY <2>1, <2>2 DEF Placed
<1>4. Current(c)' = Null
  BY <1>1 DEF Current, LockInv, Types
<1>5. Levels'
  BY <1>1, <1>2, <1>4, OtherLevels DEF Levels, LevelOf
<1>6. Owned'
  BY <1>1 DEF LockInv, Owned, Locks, Apart
<1> QED BY <1>3, <1>5, <1>6 DEF LockInv

(* Only a processor at PASSIVE_LEVEL is switched to another thread, so the *)
(* one it leaves is outside the locks.  The exit the switch takes under    *)
(* the hypervisor raises the IRQL to look the new thread up.               *)
LEMMA SwitchStep ==
    ASSUME LockInv, Types', NEW c \in Cpus, NEW x \in Threads, Switch(c, x)
    PROVE  LockInv'
<1>1. pc[c] = "guest" /\ irql[c] = PASSIVE /\ (\A d \in Cpus : run[d] # x)
  BY DEF Switch
<1>2. x # Null /\ c # Null /\ x \in Contexts /\ c \in Contexts /\ c \notin Threads
  BY ActorsAssumption DEF Threads, Contexts
<1>3. Mode(x) = "low" /\ Mode(c) = "low"
  BY <1>1 DEF LockInv, Placed, Mode
<1>4. Current(c) = run[c] /\ (run[c] # Null => run[c] \in Contexts)
  BY <1>1 DEF Current, LockInv, Types, Contexts
<1>5. run[c] # Null => Mode(run[c]) = "low"
  BY <1>1, <1>4 DEF LockInv, Levels, LevelOf, PASSIVE, HIGH
<1>6. /\ run' = [run EXCEPT ![c] = x]
      /\ UNCHANGED <<target, lock, treeVars, otherVars, fault>>
  BY DEF Switch
<1>7. \/ UNCHANGED <<irql, OldIrql, pc>>
      \/ Raise(c) /\ Goto(c, "r_take")
  BY DEF Switch
<1>8. \A d \in Cpus : d # c => run'[d] = run[d] /\ irql'[d] = irql[d] /\ OldIrql'[d] = OldIrql[d]
  BY <1>6, <1>7 DEF Raise, LockInv, Types
<1>9. \A y \in Contexts : y # c => pc'[y] = pc[y]
  BY <1>7 DEF Goto, LockInv, Types
<1>10. \A y \in Contexts : y # c => Mode(y)' = Mode(y)
  BY <1>6, <1>9 DEF Mode, Lockless, otherVars
<1>11. pc'[c] = pc[c] \/ pc'[c] = "r_take"
  BY <1>2, <1>7 DEF Goto, LockInv, Types
<1>12. Mode(c)' \in {"low", "wait1"} /\ (pc'[c] = "guest" => Mode(c)' = "low")
       /\ (pc'[c] # "guest" => Mode(c)' = "wait1")
  BY <1>1, <1>11 DEF Mode
<1>13. \A y \in Contexts : y # c => Of(y)' = Of(y)
  BY <1>6, <1>8 DEF Of, Contexts, Threads, otherVars
<1>14. Placed'
  <2>1. \A d, e \in Cpus : run'[d] = run'[e] /\ run'[d] # Null => d = e
    BY <1>1, <1>6 DEF LockInv, Placed, Types
  <2>2. ASSUME NEW y \in Threads, Mode(y)' # "low"
        PROVE  \E d \in Cpus : run'[d] = y /\ pc'[d] = "guest"
    <3>1. y \in Contexts /\ y # c /\ Mode(y) # "low"
      BY <1>2, <1>10, <2>2 DEF Contexts
    <3>2. PICK d \in Cpus : run[d] = y /\ pc[d] = "guest"
      BY <3>1 DEF LockInv, Placed
    <3>3. y # Null
      BY ActorsAssumption DEF Threads
    <3>4. d # c
      BY <1>5, <3>1, <3>2, <3>3
    <3> QED BY <1>8, <1>9, <3>2, <3>4 DEF Contexts
  <2> QED BY <2>1, <2>2 DEF Placed
<1>15. LevelOf(c)'
  <2>1. CASE UNCHANGED <<irql, OldIrql, pc>>
    <3>1. Current(c)' = x
      BY <1>1, <1>6, <2>1 DEF Current, LockInv, Types
    <3> QED BY <1>1, <1>2, <1>3, <1>10, <2>1, <3>1 DEF LevelOf
  <2>2. CASE Raise(c) /\ Goto(c, "r_take")
    <3>1. Current(c)' = c /\ irql'[c] = HIGH /\ OldIrql'[c] = PASSIVE
      BY <1>1, <1>2, <2>2 DEF Current, LockInv, Types, Goto, Raise
    <3>2. Mode(c)' = "wait1"
      BY <1>2, <2>2 DEF Mode, Goto, LockInv, Types
    <3> QED BY <1>2, <3>1, <3>2 DEF LevelOf
  <2> QED BY <1>7, <2>1, <2>2
<1>16. ASSUME NEW d \in Cpus, d # c
       PROVE  LevelOf(d)'
  <2>1. Current(d)' = Current(d)
    BY <1>8, <1>9, <1>16 DEF Current, Contexts
  <2>2. Current(d) # Null => Current(d) \in Contexts /\ Current(d) # c
    BY <1>2, <1>16 DEF Current, LockInv, Types, Contexts
  <2>3. Current(d) # Null => Mode(Current(d))' = Mode(Current(d))
    BY <1>10, <2>1, <2>2
  <2> QED BY <1>8, <1>16, <2>1, <2>3 DEF LockInv, Levels, LevelOf
<1>17. Levels'
  BY <1>15, <1>16 DEF Levels
<1>18. Owned'
  BY <1>2, <1>3, <1>6, <1>10, <1>12, <1>13 DEF LockInv, Owned, Locks
<1> QED BY <1>14, <1>17, <1>18 DEF LockInv

-----------------------------------------------------------------------------
(* A step of context x on processor c changes nobody's place but its own,  *)
(* and no variable another context is using.                               *)
LEMMA ApartStep ==
    ASSUME LockInv, NEW c \in Cpus, NEW x \in Contexts, On(c, x),
           \A y \in Contexts : y # x => pc'[y] = pc[y],
           hooked' = hooked \/ x = Entry,
           target' = target \/ x = Entry, found' = found \/ x = Worker,
           \A d \in Cpus : d # c =>
              run'[d] = run[d] /\ irql'[d] = irql[d] /\ OldIrql'[d] = OldIrql[d]
    PROVE  /\ Apart(c, x)
           /\ x # c => pc[c] = "guest" /\ pc'[c] = "guest"
           /\ \A d \in Cpus : d # c => (pc'[d] = "guest" <=> pc[d] = "guest")
<1>1. \A d \in Cpus : d # c => d # x /\ d \in Contexts
  BY ActorsAssumption DEF On, LockInv, Types, Contexts, Threads
<1>2. x # c => pc[c] = "guest" /\ pc'[c] = "guest"
  BY DEF On, Contexts
<1>3. \A y \in Contexts : y # x => Mode(y)' = Mode(y)
  BY DEF Mode, Lockless
<1>4. ASSUME NEW y \in Contexts, y # x, Mode(y) \in {"list", "both"}
      PROVE  Of(y)' = Of(y)
  <2>1. y # c
    BY <1>2, <1>4 DEF Mode
  <2> QED BY <1>4, <2>1, ActorsAssumption DEF Of, Contexts, Threads
<1>5. \A d \in Cpus : d # c => Current(d)' = Current(d)
  BY <1>1 DEF Current
<1> QED BY <1>1, <1>2, <1>3, <1>4, <1>5 DEF Apart

(* The stages a context may be sent to.                                    *)
StageOf(x, s) ==
    /\ x \in Procs => s \in ProcStages
    /\ x \in Cpus => s \in CpuStages
    /\ x = Worker => s \in WorkerStages
    /\ x = Entry => s \in EntryStages

(* A context goes to a stage of its own.                                   *)
LEMMA PcStep ==
    ASSUME Types, NEW x \in Contexts, NEW s, Goto(x, s), StageOf(x, s)
    PROVE  /\ pc' \in [Contexts -> ProcStages \cup WorkerStages \cup CpuStages \cup EntryStages]
           /\ \A p \in Procs : pc'[p] \in ProcStages
           /\ \A c \in Cpus : pc'[c] \in CpuStages
           /\ pc'[Worker] \in WorkerStages /\ pc'[Entry] \in EntryStages
           /\ pc'[x] = s /\ \A y \in Contexts : y # x => pc'[y] = pc[y]
<1>1. s \in ProcStages \cup WorkerStages \cup CpuStages \cup EntryStages
  BY DEF StageOf, Contexts, Threads
<1>2. pc'[x] = s /\ \A y \in Contexts : y # x => pc'[y] = pc[y]
  BY DEF Goto, Types
<1>3. pc' \in [Contexts -> ProcStages \cup WorkerStages \cup CpuStages \cup EntryStages]
  BY <1>1 DEF Goto, Types
<1>4. /\ \A p \in Procs : pc'[p] \in ProcStages
      /\ \A c \in Cpus : pc'[c] \in CpuStages
      /\ pc'[Worker] \in WorkerStages /\ pc'[Entry] \in EntryStages
  BY <1>2 DEF Types, StageOf, Contexts, Threads
<1> QED BY <1>2, <1>3, <1>4

(* The stages of a kind of context are of that kind only.                  *)
LEMMA KindOfStage ==
    ASSUME Types, NEW x \in Contexts
    PROVE  /\ pc[x] \in CreateStages \cup DeleteStages => x \in Procs \cup {Entry}
           /\ pc[x] \in {"d_take", "d_release"} => x \in Procs
           /\ pc[x] \in {"f_unhook", "f_take", "f_clear", "f_release"} => x = Entry
           /\ pc[x] \in {"w_alloc", "w_take", "w_release", "w_check"} => x = Worker
           /\ pc[x] \in {"r_take", "r_list", "r_unlist", "r_release"} => x \in Cpus
           /\ x \in Cpus => x \notin Threads
BY ActorsAssumption DEF Types, Contexts, Threads, ProcStages, WorkerStages, CpuStages, EntryStages,
   CreateStages, DeleteStages

(* Releasing a lock.                                                       *)
LEMMA ReleaseKeepsLocks ==
    ASSUME LockInv, NEW c \in Cpus, NEW x \in Contexts, On(c, x), ReleaseStep(c, x)
    PROVE  LockInv'
<1> DEFINE s == CASE pc[x] = "c_release" -> IF x = Entry THEN "enum" ELSE "user"
                  [] pc[x] = "d_release" -> "none"
                  [] pc[x] = "f_release" -> "down"
                  [] pc[x] = "w_release" -> "w_check"
                  [] pc[x] = "r_release" -> "guest"
                  [] pc[x] = "d_unlist" -> "d_delete"
                  [] pc[x] = "r_unlist" -> "r_release"
<1>1. /\ pc[x] \in ReleaseStages /\ Goto(x, s) /\ Release(c, LockOf(x))
      /\ run' = [run EXCEPT ![c] = IF pc[x] = "d_release" THEN Null ELSE @]
      /\ UNCHANGED <<target, treeVars, otherVars, fault>>
  BY DEF ReleaseStep
<1>2. UNCHANGED <<target, entries, todo, hooked, shielded, found>>
  BY <1>1 DEF treeVars, otherVars
<1>3. Types
  BY DEF LockInv
<1>4. /\ pc[x] = "c_release" => x \in Procs \cup {Entry}
      /\ pc[x] = "d_release" => x \in Procs
      /\ pc[x] = "f_release" => x = Entry
      /\ pc[x] = "w_release" => x = Worker
      /\ pc[x] = "r_release" => x \in Cpus
      /\ pc[x] = "d_unlist" => x \in Procs \cup {Entry}
      /\ pc[x] = "r_unlist" => x \in Cpus
  BY <1>3, KindOfStage DEF CreateStages, DeleteStages
<1>5. StageOf(x, s)
  BY <1>1, <1>4, ActorsAssumption DEF ReleaseStages, StageOf, ProcStages, WorkerStages, CpuStages,
     EntryStages, CreateStages, DeleteStages
<1>6. /\ pc[x] = "c_release" => s \in {"enum", "user"}
      /\ pc[x] = "d_release" => s = "none"
      /\ pc[x] = "f_release" => s = "down"
      /\ pc[x] = "w_release" => s = "w_check"
      /\ pc[x] = "r_release" => s = "guest"
      /\ pc[x] = "d_unlist" => s = "d_delete"
      /\ pc[x] = "r_unlist" => s = "r_release"
  OBVIOUS
<1> HIDE DEF s
<1>7. pc'[x] = s /\ \A y \in Contexts : y # x => pc'[y] = pc[y]
  BY <1>1, <1>3, <1>5, PcStep
<1>8. pc[x] # "d_release" => run' = run
  BY <1>1, <1>3 DEF Types
<1>9. \A d \in Cpus : d # c => run'[d] = run[d] /\ irql'[d] = irql[d] /\ OldIrql'[d] = OldIrql[d]
  BY <1>1, <1>3 DEF Types, Release
<1>10. /\ Apart(c, x)
       /\ x # c => pc[c] = "guest" /\ pc'[c] = "guest"
       /\ \A d \in Cpus : d # c => (pc'[d] = "guest" <=> pc[d] = "guest")
  BY <1>2, <1>7, <1>9, ApartStep
<1>11. LockOf(x) \in Locks
  <2>1. pc[x] \in {"w_release", "d_unlist", "r_unlist"} => Mode(x) \in {"list", "both"}
    BY <1>4, ActorsAssumption DEF Mode, Lockless
  <2> QED BY <2>1 DEF LockOf, Locks, LockInv, Owned
<1>12. Types'
  <2>1. lock' \in [Locks -> [held : BOOLEAN, OldIrql : {PASSIVE, HIGH}, Owner : Contexts \cup {Null}]]
    BY <1>1, <1>3, <1>11 DEF Types, Release, FreeLock
  <2>2. lock[LockOf(x)].OldIrql \in {PASSIVE, HIGH}
    BY <1>3, <1>11 DEF Types
  <2>3. irql' \in [Cpus -> {PASSIVE, HIGH}] /\ OldIrql' \in [Cpus -> {PASSIVE, HIGH}]
    BY <1>1, <1>3, <2>2 DEF Types, Release
  <2>4. run' \in [Cpus -> Threads \cup {Null}]
    BY <1>1, <1>3 DEF Types
  <2>5. pc'[Entry] \in CreateStages \cup DeleteStages => pc[Entry] \in CreateStages \cup DeleteStages
    BY <1>1, <1>6, <1>7 DEF Contexts, Threads, ReleaseStages, CreateStages, DeleteStages
  <2>6. pc'[Worker] # "idle" => pc[Worker] # "idle"
    BY <1>1, <1>7 DEF Contexts, Threads, ReleaseStages
  <2>7. ASSUME NEW d \in Cpus, pc'[d] # "guest"
        PROVE  run'[d] # Null
    <3>1. CASE d = c
      <4>1. x = c /\ pc[c] # "guest"
        BY <1>3, <1>10, <2>7, <3>1, ActorsAssumption DEF On, Types, Threads
      <4>2. run' = run
        BY <1>3, <1>4, <1>8, <4>1, ActorsAssumption
      <4> QED BY <1>3, <3>1, <4>1, <4>2 DEF Types
    <3>2. CASE d # c
      BY <1>3, <1>9, <1>10, <2>7, <3>2 DEF Types
    <3> QED BY <3>1, <3>2
  <2>8. /\ pc' \in [Contexts -> ProcStages \cup WorkerStages \cup CpuStages \cup EntryStages]
        /\ \A p \in Procs : pc'[p] \in ProcStages
        /\ \A d \in Cpus : pc'[d] \in CpuStages
        /\ pc'[Worker] \in WorkerStages /\ pc'[Entry] \in EntryStages
    BY <1>1, <1>3, <1>5, PcStep
  <2> QED BY <1>2, <1>3, <2>1, <2>3, <2>4, <2>5, <2>6, <2>7, <2>8 DEF Types
<1>13. CASE pc[x] \in {"c_release", "d_release", "f_release", "r_release"}
  <2>1. Mode(x) = "tree" /\ Mode(x)' = "low"
    BY <1>6, <1>7, <1>13 DEF Mode
  <2>2. Release(c, Tree)
    BY <1>1, <1>13 DEF LockOf
  <2>3. pc'[c] = "guest"
    BY <1>4, <1>6, <1>7, <1>10, <1>13, ActorsAssumption
  <2>4. run' = run \/ (x \in Threads /\ run' = [run EXCEPT ![c] = Null])
    BY <1>1, <1>4, <1>8 DEF Threads
  <2> QED BY <1>10, <1>12, <2>1, <2>2, <2>3, <2>4, ReleaseTreeStep
<1>14. CASE pc[x] \in {"w_release", "d_unlist", "r_unlist"}
  <2>1. \/ Mode(x) = "list" /\ Mode(x)' = "low"
        \/ Mode(x) = "both" /\ Mode(x)' = "tree"
    BY <1>2, <1>4, <1>6, <1>7, <1>14, ActorsAssumption DEF Mode, Lockless
  <2>2. Release(c, Of(x)) /\ run' = run
    BY <1>1, <1>8, <1>14 DEF LockOf
  <2>3. \A d \in Cpus : pc'[d] = "guest" <=> pc[d] = "guest"
    BY <1>4, <1>6, <1>7, <1>10, <1>14, ActorsAssumption
  <2> QED BY <1>10, <1>12, <2>1, <2>2, <2>3, ReleaseListStep
<1> QED BY <1>1, <1>13, <1>14 DEF ReleaseStages

(* What every other step of a context has in common: it goes to a stage of *)
(* its own, on the processor it is on, and takes a lock, raises the IRQL   *)
(* for one, both, or neither.                                              *)
Moves(c, x, s) ==
    /\ Goto(x, s) /\ StageOf(x, s) /\ (x = c => s # "guest")
    /\ run' = run
    /\ UNCHANGED <<irql, OldIrql>> \/ Raise(c)
    /\ lock' = lock \/ (\E l \in Locks : Take(c, x, l))
    /\ entries' \subseteq Procs /\ todo' \in Seq(Procs) /\ shielded' \in BOOLEAN
    /\ hooked' = hooked \/ (x = Entry /\ hooked' \in BOOLEAN)
    /\ target' = target \/ x = Entry
    /\ x = Entry /\ s \in CreateStages \cup DeleteStages => target' \in Procs
    /\ found' = found \/ (x = Worker /\ found' = [p |-> found'.p, gen |-> found'.gen, id |-> found'.id])
    /\ x = Worker /\ s # "idle" => found'.p \in Procs

(* Such a step keeps the locks.                                            *)
LEMMA MovesStep ==
    ASSUME LockInv, NEW c \in Cpus, NEW x \in Contexts, On(c, x), NEW s, Moves(c, x, s)
    PROVE  /\ Types' /\ Apart(c, x) /\ pc'[x] = s
           /\ \A y \in Contexts : y # x => pc'[y] = pc[y]
           /\ \A d \in Cpus : pc'[d] = "guest" <=> pc[d] = "guest"
<1>1. Types
  BY DEF LockInv
<1>2. /\ pc' \in [Contexts -> ProcStages \cup WorkerStages \cup CpuStages \cup EntryStages]
      /\ \A p \in Procs : pc'[p] \in ProcStages
      /\ \A d \in Cpus : pc'[d] \in CpuStages
      /\ pc'[Worker] \in WorkerStages /\ pc'[Entry] \in EntryStages
      /\ pc'[x] = s /\ \A y \in Contexts : y # x => pc'[y] = pc[y]
  BY <1>1, PcStep DEF Moves
<1>3. \A d \in Cpus : d # c => run'[d] = run[d] /\ irql'[d] = irql[d] /\ OldIrql'[d] = OldIrql[d]
  BY <1>1 DEF Moves, Raise, Types
<1>4. /\ Apart(c, x)
      /\ x # c => pc[c] = "guest" /\ pc'[c] = "guest"
      /\ \A d \in Cpus : d # c => (pc'[d] = "guest" <=> pc[d] = "guest")
  <2>1. /\ hooked' = hooked \/ x = Entry
        /\ target' = target \/ x = Entry
        /\ found' = found \/ x = Worker
    BY DEF Moves
  <2> QED BY <1>2, <1>3, <2>1, ApartStep
<1>5. x = c => pc[c] # "guest" /\ pc'[c] # "guest"
  BY <1>1, <1>2, ActorsAssumption DEF On, Types, Threads, Moves
<1>6. \A d \in Cpus : pc'[d] = "guest" <=> pc[d] = "guest"
  BY <1>4, <1>5
<1>7. irql' \in [Cpus -> {PASSIVE, HIGH}] /\ OldIrql' \in [Cpus -> {PASSIVE, HIGH}]
  BY <1>1 DEF Types, Moves, Raise
<1>8. lock' \in [Locks -> [held : BOOLEAN, OldIrql : {PASSIVE, HIGH}, Owner : Contexts \cup {Null}]]
  <2>1. OldIrql[c] \in {PASSIVE, HIGH}
    BY <1>1 DEF Types
  <2>2. CASE lock' = lock
    BY <1>1, <2>2 DEF Types
  <2>3. ASSUME NEW l \in Locks, Take(c, x, l)
        PROVE  lock' \in [Locks -> [held : BOOLEAN, OldIrql : {PASSIVE, HIGH},
                                     Owner : Contexts \cup {Null}]]
    <3>1. [held |-> TRUE, OldIrql |-> OldIrql[c], Owner |-> x]
             \in [held : BOOLEAN, OldIrql : {PASSIVE, HIGH}, Owner : Contexts \cup {Null}]
      BY <2>1
    <3> QED BY <1>1, <2>3, <3>1 DEF Types, Take
  <2> QED BY <2>2, <2>3 DEF Moves
<1>9. pc'[Entry] \in CreateStages \cup DeleteStages => target' \in Procs
  BY <1>1, <1>2 DEF Types, Moves, Contexts, Threads
<1>10. /\ found' = [p |-> found'.p, gen |-> found'.gen, id |-> found'.id]
       /\ pc'[Worker] # "idle" => found'.p \in Procs
  BY <1>1, <1>2 DEF Types, Moves, Contexts, Threads
<1>11. /\ run' \in [Cpus -> Threads \cup {Null}]
       /\ \A d \in Cpus : pc'[d] # "guest" => run'[d] # Null
  BY <1>1, <1>6 DEF Types, Moves
<1>12. /\ entries' \subseteq Procs /\ todo' \in Seq(Procs)
       /\ hooked' \in BOOLEAN /\ shielded' \in BOOLEAN
  BY <1>1 DEF Types, Moves
<1>13. Types'
  BY <1>2, <1>7, <1>8, <1>9, <1>10, <1>11, <1>12 DEF Types
<1> QED BY <1>2, <1>4, <1>6, <1>13

(* A step that leaves the locks and the IRQL alone, in a place of the same *)
(* kind.                                                                   *)
LEMMA QuietStep ==
    ASSUME LockInv, NEW c \in Cpus, NEW x \in Contexts, On(c, x), NEW s, Moves(c, x, s),
           UNCHANGED <<irql, OldIrql, lock>>, Mode(x)' = Mode(x),
           Mode(x) \in {"low", "tree"}
    PROVE  LockInv'
<1>1. /\ Types' /\ Apart(c, x) /\ \A d \in Cpus : pc'[d] = "guest" <=> pc[d] = "guest"
  BY MovesStep
<1>2. /\ \A y \in Contexts : Mode(y)' = Mode(y)
      /\ \A y \in Contexts : Mode(y) \in {"list", "both"} => Of(y)' = Of(y)
  BY <1>1 DEF Apart
<1> QED BY <1>1, <1>2, KeepStep DEF Moves

(* A step that moves no context.                                           *)
LEMMA StillStep ==
    ASSUME LockInv, UNCHANGED <<cpuVars, pc, lock, entries, hooked, todo, target>>,
           shielded' \in BOOLEAN,
           \/ found' = found
           \/ pc[Worker] = "idle" /\ found' = [p |-> found'.p, gen |-> found'.gen, id |-> found'.id]
    PROVE  LockInv'
<1>1. Types'
  BY DEF LockInv, Types, cpuVars
<1>2. \A y \in Contexts : Mode(y)' = Mode(y)
  BY DEF Mode, Lockless
<1>3. \A y \in Contexts : Mode(y) \in {"list", "both"} => Of(y)' = Of(y)
  BY ActorsAssumption DEF Of, cpuVars, Mode, Contexts, Threads
<1> QED BY <1>1, <1>2, <1>3, KeepStep DEF cpuVars

(* The notify routine and PmClearProcessTable.                             *)
LEMMA CallbackKeepsLocks ==
    ASSUME LockInv, NEW c \in Cpus, NEW x \in Contexts, On(c, x), CallbackStep(c, x)
    PROVE  LockInv'
<1>1. Types
  BY DEF LockInv
<1>2. /\ pc[x] \in CreateStages \cup DeleteStages => x \in Procs \cup {Entry}
      /\ pc[x] = "d_take" => x \in Procs
  BY <1>1, KindOfStage
<1>3. pc[x] \in {"d_take"} \cup CreateStages \cup DeleteStages => Of(x) \in Procs
  BY <1>1, <1>2, ActorsAssumption DEF Of, Types
<1>4. pc[x] \in {"d_take"} \cup CreateStages \cup DeleteStages => x # c /\ x # Worker /\ x \notin Cpus
  BY <1>2, ActorsAssumption
<1>5. /\ entries \subseteq Procs /\ todo \in Seq(Procs) /\ shielded \in BOOLEAN
      /\ hooked \in BOOLEAN
      /\ pc[Entry] \in CreateStages \cup DeleteStages => target \in Procs
  BY <1>1 DEF Types
<1>6. Tree \in Locks /\ (\A p \in Procs : p \in Locks /\ p # Tree)
  BY TreeAssumption DEF Locks
<1>7. CASE CreateDescribe(c, x)
  <2>1. PICK s \in {"c_take", "enum", "user"} :
           /\ Goto(x, s) /\ (s = "enum" <=> x = Entry /\ s # "c_take")
           /\ \/ s = "c_take" /\ Raise(c)
              \/ s # "c_take" /\ UNCHANGED <<irql, OldIrql>>
    BY <1>7 DEF CreateDescribe
  <2>2. pc[x] = "c_name" /\ UNCHANGED <<run, target, lock, entries, todo, hooked, shielded, found>>
    BY <1>7 DEF CreateDescribe, treeVars, otherVars
  <2>3. x \in Procs \cup {Entry} /\ x # c /\ x # Worker /\ x \notin Cpus
    BY <1>2, <1>4, <2>2 DEF CreateStages
  <2>4. StageOf(x, s)
    BY <2>1, <2>3, ActorsAssumption DEF StageOf, ProcStages, EntryStages, CreateStages
  <2>5. Moves(c, x, s)
    BY <1>5, <2>1, <2>2, <2>3, <2>4 DEF Moves, CreateStages
  <2>6. /\ Types' /\ Apart(c, x) /\ pc'[x] = s
        /\ \A d \in Cpus : pc'[d] = "guest" <=> pc[d] = "guest"
    BY <2>5, MovesStep
  <2>7. Mode(x) = "low" /\ Mode(x)' = IF s = "c_take" THEN "wait1" ELSE "low"
    BY <2>1, <2>2, <2>6 DEF Mode
  <2>8. CASE s = "c_take"
    BY <2>1, <2>2, <2>6, <2>7, <2>8, RaiseStep
  <2>9. CASE s # "c_take"
    BY <2>1, <2>2, <2>5, <2>7, <2>9, QuietStep
  <2> QED BY <2>8, <2>9
<1>8. CASE CreateInsert(c, x) \/ CreateNoNode(c, x)
  <2>1. /\ pc[x] = "c_take" /\ Take(c, x, Tree) /\ Goto(x, "c_release")
        /\ UNCHANGED <<run, irql, OldIrql, target, todo, hooked, shielded, found>>
    BY <1>8 DEF CreateInsert, CreateNoNode, cpuVars, otherVars
  <2>2. entries' = entries \/ entries' = entries \cup {Of(x)}
    BY <1>8 DEF CreateInsert, CreateNoNode, treeVars
  <2>3. x \in Procs \cup {Entry} /\ x # c /\ x # Worker /\ x \notin Cpus /\ Of(x) \in Procs
    BY <1>2, <1>3, <1>4, <2>1 DEF CreateStages
  <2>4. StageOf(x, "c_release")
    BY <2>3 DEF StageOf, ProcStages, EntryStages, CreateStages
  <2>5. Moves(c, x, "c_release")
    BY <1>5, <1>6, <2>1, <2>2, <2>3, <2>4 DEF Moves, CreateStages
  <2>6. /\ Types' /\ Apart(c, x) /\ pc'[x] = "c_release"
        /\ \A d \in Cpus : pc'[d] = "guest" <=> pc[d] = "guest"
    BY <2>5, MovesStep
  <2>7. Mode(x) = "wait1" /\ Mode(x)' = "tree"
    BY <2>1, <2>6 DEF Mode
  <2> QED BY <2>1, <2>6, <2>7, TakeTreeStep
<1>9. CASE DeleteLookup(c, x)
  <2>1. PICK s \in {"d_list", "d_release"} :
           /\ Goto(x, s)
           /\ \/ s = "d_list" /\ Raise(c)
              \/ s = "d_release" /\ UNCHANGED <<irql, OldIrql>>
    BY <1>9 DEF DeleteLookup
  <2>2. /\ pc[x] = "d_take" /\ Take(c, x, Tree)
        /\ UNCHANGED <<run, target, entries, todo, hooked, shielded, found>>
    BY <1>9 DEF DeleteLookup, treeVars, otherVars
  <2>3. x \in Procs /\ x # c /\ x # Worker /\ x \notin Cpus /\ x # Entry
    BY <1>2, <1>4, <2>2, ActorsAssumption
  <2>4. StageOf(x, s)
    BY <2>1, <2>3 DEF StageOf, ProcStages, DeleteStages
  <2>5. Moves(c, x, s)
    BY <1>5, <1>6, <2>1, <2>2, <2>3, <2>4 DEF Moves
  <2>6. /\ Types' /\ Apart(c, x) /\ pc'[x] = s
        /\ \A d \in Cpus : pc'[d] = "guest" <=> pc[d] = "guest"
    BY <2>5, MovesStep
  <2>7. Mode(x) = "wait1" /\ Mode(x)' = IF s = "d_list" THEN "wait2" ELSE "tree"
    BY <2>1, <2>2, <2>3, <2>6 DEF Mode, Lockless
  <2> QED BY <2>1, <2>2, <2>6, <2>7, TakeTreeStep
<1>10. CASE DeleteCleanup(c, x)
  <2>1. /\ pc[x] = "d_list" /\ Take(c, x, Of(x)) /\ Goto(x, "d_unlist")
        /\ UNCHANGED <<run, irql, OldIrql, target, entries, todo, hooked, shielded, found>>
    BY <1>10 DEF DeleteCleanup, cpuVars, treeVars, otherVars
  <2>2. x \in Procs \cup {Entry} /\ x # c /\ x # Worker /\ x \notin Cpus /\ Of(x) \in Procs
    BY <1>2, <1>3, <1>4, <2>1 DEF DeleteStages
  <2>3. StageOf(x, "d_unlist")
    BY <2>2 DEF StageOf, ProcStages, EntryStages, DeleteStages
  <2>4. Moves(c, x, "d_unlist")
    BY <1>5, <1>6, <2>1, <2>2, <2>3 DEF Moves, DeleteStages
  <2>5. /\ Types' /\ Apart(c, x) /\ pc'[x] = "d_unlist"
        /\ \A d \in Cpus : pc'[d] = "guest" <=> pc[d] = "guest"
    BY <2>4, MovesStep
  <2>6. \/ Mode(x) = "wait1" /\ Mode(x)' = "list"
        \/ Mode(x) = "wait2" /\ Mode(x)' = "both"
    BY <2>1, <2>5 DEF Mode, Lockless
  <2>7. Of(x)' = Of(x)
    BY <2>1, <2>2, ActorsAssumption DEF Of
  <2> DEFINE p == Of(x)
  <2>8. p \in Procs /\ Take(c, x, p) /\ Of(x)' = p /\ UNCHANGED <<run, irql, OldIrql>>
    BY <2>1, <2>2, <2>7
  <2> HIDE DEF p
  <2> QED BY <2>5, <2>6, <2>8, TakeListStep
<1>11. CASE DeleteEntry(c, x)
  <2>1. /\ pc[x] = "d_delete" /\ entries' = entries \ {Of(x)}
        /\ UNCHANGED <<run, irql, OldIrql, lock, target, todo, hooked, shielded, found>>
    BY <1>11 DEF DeleteEntry, cpuVars, otherVars
  <2>2. x \in Procs \cup {Entry} /\ x # c /\ x # Worker /\ x \notin Cpus
    BY <1>2, <1>4, <2>1 DEF DeleteStages
  <2>3. PICK s : Goto(x, s) /\ s = (CASE x \in Procs -> "d_release"
                                      [] x = Entry /\ hooked -> "undo"
                                      [] x = Entry /\ ~hooked -> "f_clear")
    BY <1>11 DEF DeleteEntry
  <2>4. \/ x \in Procs /\ x # Entry /\ s = "d_release"
        \/ x = Entry /\ hooked /\ s = "undo"
        \/ x = Entry /\ ~hooked /\ s = "f_clear"
    BY <1>5, <2>2, <2>3, ActorsAssumption
  <2>5. StageOf(x, s)
    BY <2>2, <2>4, ActorsAssumption DEF StageOf, ProcStages, EntryStages
  <2>6. Moves(c, x, s)
    BY <1>5, <2>1, <2>2, <2>3, <2>4, <2>5 DEF Moves, CreateStages, DeleteStages
  <2>7. pc'[x] = s
    BY <2>6, MovesStep
  <2>8. Mode(x)' = Mode(x) /\ Mode(x) \in {"low", "tree"}
    BY <2>1, <2>4, <2>7 DEF Mode, Lockless
  <2> QED BY <2>1, <2>6, <2>8, QuietStep
<1>12. CASE CreateFault(c, x) \/ DeleteFault(c, x)
  BY <1>5, <1>12, StillStep DEF CreateFault, DeleteFault, Fault, treeVars, otherVars
<1>13. CASE DeleteBlock(c, x)
  BY <1>5, <1>13, StillStep DEF DeleteBlock, otherVars
<1> QED BY <1>7, <1>8, <1>9, <1>10, <1>11, <1>12, <1>13 DEF CallbackStep

(* PmInitializeProcessMonitor and PmFinalizeProcessMonitor.                *)
LEMMA MonitorKeepsLocks ==
    ASSUME LockInv, TreeStages, NEW c \in Cpus, On(c, Entry), MonitorStep(c)
    PROVE  LockInv'
<1>1. /\ Entry \in Contexts /\ Entry # c /\ Entry # Worker /\ Entry \notin Cpus
      /\ Entry \notin Procs
  BY ActorsAssumption DEF Contexts, Threads
<1>2. /\ entries \subseteq Procs /\ todo \in Seq(Procs) /\ shielded \in BOOLEAN
      /\ hooked \in BOOLEAN
  BY DEF LockInv, Types
<1>3. ASSUME NEW s \in EntryStages
      PROVE  StageOf(Entry, s)
  BY <1>1, <1>3 DEF StageOf
<1>4. Tree \in Locks
  BY DEF Locks
<1>5. CASE PmInitialize(c)
  <2>1. PICK s \in {"query", "undo", "failed"} : Goto(Entry, s)
    BY <1>5 DEF PmInitialize
  <2>2. /\ pc[Entry] = "procmon" /\ hooked' \in BOOLEAN
        /\ UNCHANGED <<run, irql, OldIrql, lock, target, entries, todo, shielded, found>>
    BY <1>2, <1>5 DEF PmInitialize, cpuVars
  <2>3. Moves(c, Entry, s)
    BY <1>1, <1>2, <1>3, <2>1, <2>2 DEF Moves, EntryStages, CreateStages, DeleteStages
  <2>4. Mode(Entry) = "low" /\ Mode(Entry)' = "low"
    BY <1>1, <2>1, <2>2, <2>3, MovesStep DEF Mode
  <2> QED BY <1>1, <2>2, <2>3, <2>4, QuietStep
<1>6. CASE Query(c)
  <2>1. PICK s \in {"enum", "undo"} : Goto(Entry, s)
    BY <1>6 DEF Query
  <2>2. /\ pc[Entry] = "query"
        /\ UNCHANGED <<run, irql, OldIrql, lock, target, entries, hooked, shielded, found>>
    BY <1>6 DEF Query, cpuVars, treeVars
  <2>3. todo' \in Seq(Procs)
    <3>1. CASE UNCHANGED todo
      BY <1>2, <3>1
    <3>2. ASSUME NEW t \in Orders({p \in Procs : pc[p] # "none"}),
                 todo' = IF t = <<>> THEN t ELSE SubSeq(t, 1, Len(t) - 1)
          PROVE  todo' \in Seq(Procs)
      <4> DEFINE S == {p \in Procs : pc[p] # "none"}
      <4>1. IsFiniteSet(S) /\ S \subseteq Procs
        BY FS_Subset, ActorsAssumption
      <4>2. Cardinality(S) \in Nat
        BY <4>1, FS_CardinalityType
      <4>3. t \in [1 .. Cardinality(S) -> S]
        BY <3>2 DEF Orders
      <4> HIDE DEF S
      <4>4. t \in Seq(Procs)
        BY <4>1, <4>2, <4>3
      <4>5. CASE t = <<>>
        BY <3>2, <4>4, <4>5
      <4>6. CASE t # <<>>
        <5>1. Len(t) \in Nat /\ Len(t) > 0
          BY <4>4, <4>6
        <5>2. SubSeq(t, 1, Len(t) - 1) \in Seq(Procs)
          BY <4>4, <5>1
        <5> QED BY <3>2, <4>6, <5>2
      <4> QED BY <4>5, <4>6
    <3> QED BY <1>6, <3>1, <3>2 DEF Query
  <2>4. Moves(c, Entry, s)
    BY <1>1, <1>2, <1>3, <2>1, <2>2, <2>3 DEF Moves, EntryStages, CreateStages, DeleteStages
  <2>5. Mode(Entry) = "low" /\ Mode(Entry)' = "low"
    BY <1>1, <2>1, <2>2, <2>4, MovesStep DEF Mode
  <2> QED BY <1>1, <2>2, <2>4, <2>5, QuietStep
<1>7. CASE Enumerate(c)
  <2>1. /\ pc[Entry] = "enum"
        /\ UNCHANGED <<run, irql, OldIrql, lock, entries, hooked, shielded, found>>
    BY <1>7 DEF Enumerate, cpuVars, treeVars
  <2>2. PICK s \in {"monitored", "c_name"} :
           /\ Goto(Entry, s) /\ todo' \in Seq(Procs) /\ (s = "c_name" => target' \in Procs)
    <3>1. CASE todo = <<>>
      BY <1>2, <1>7, <3>1 DEF Enumerate
    <3>2. CASE todo # <<>>
      <4>1. Head(todo) \in Procs /\ Tail(todo) \in Seq(Procs)
        BY <1>2, <3>2
      <4> QED BY <1>7, <3>2, <4>1 DEF Enumerate
    <3> QED BY <3>1, <3>2
  <2>3. Moves(c, Entry, s)
    BY <1>1, <1>2, <1>3, <2>1, <2>2 DEF Moves, EntryStages, CreateStages, DeleteStages
  <2>4. Mode(Entry) = "low" /\ Mode(Entry)' = "low"
    BY <1>1, <2>1, <2>2, <2>3, MovesStep DEF Mode
  <2> QED BY <1>1, <2>1, <2>3, <2>4, QuietStep
<1>8. CASE ClearNext(c)
  <2>1. /\ pc[Entry] \in {"undo", "f_clear"} /\ target' \in Procs /\ Raise(c)
        /\ Goto(Entry, "d_list")
        /\ UNCHANGED <<run, lock, entries, todo, hooked, shielded, found>>
    BY <1>2, <1>8 DEF ClearNext, treeVars, otherVars
  <2>2. Moves(c, Entry, "d_list")
    BY <1>1, <1>2, <1>3, <2>1 DEF Moves, EntryStages, DeleteStages
  <2>3. /\ Types' /\ Apart(c, Entry) /\ pc'[Entry] = "d_list"
        /\ \A d \in Cpus : pc'[d] = "guest" <=> pc[d] = "guest"
    BY <1>1, <2>2, MovesStep
  <2>4. \/ Mode(Entry) = "low" /\ Mode(Entry)' = "wait1"
        \/ Mode(Entry) = "tree" /\ Mode(Entry)' = "wait2"
    <3>1. hooked <=> pc[Entry] = "undo"
      BY <1>2, <1>8 DEF ClearNext, TreeStages
    <3> QED BY <2>1, <2>3, <3>1 DEF Mode, Lockless
  <2> QED BY <1>1, <2>1, <2>3, <2>4, RaiseStep
<1>9. CASE UndoFree(c) \/ UndoNull(c) \/ FinalizeFree(c)
  <2>1. PICK s \in {"undo_null", "undo_hook", "f_release"} :
           /\ Goto(Entry, s) /\ pc[Entry] \in {"undo", "undo_null", "f_clear"}
           /\ (s = "f_release" <=> pc[Entry] = "f_clear")
    BY <1>9 DEF UndoFree, UndoNull, FinalizeFree
  <2>2. UNCHANGED <<run, irql, OldIrql, lock, entries, todo, hooked, shielded, found>>
    BY <1>9 DEF UndoFree, UndoNull, FinalizeFree, cpuVars, otherVars
  <2>3. Moves(c, Entry, s)
    BY <1>1, <1>2, <1>3, <2>1, <2>2 DEF Moves, EntryStages, CreateStages, DeleteStages
  <2>4. pc'[Entry] = s
    BY <1>1, <2>3, MovesStep
  <2>5. Mode(Entry) \in {"low", "tree"} /\ Mode(Entry)' = Mode(Entry)
    BY <2>1, <2>4 DEF Mode
  <2> QED BY <1>1, <2>2, <2>3, <2>5, QuietStep
<1>10. CASE Unhook(c)
  <2>1. /\ pc[Entry] \in {"undo_hook", "f_unhook"} /\ hooked' \in BOOLEAN
        /\ UNCHANGED <<run, target, lock, entries, todo, shielded, found>>
    BY <1>10 DEF Unhook, treeVars
  <2>2. \/ Raise(c) /\ Goto(Entry, "f_take")
        \/ UNCHANGED <<irql, OldIrql>> /\ Goto(Entry, "failed")
    BY <1>10 DEF Unhook
  <2>3. CASE Raise(c) /\ Goto(Entry, "f_take")
    <3>1. Moves(c, Entry, "f_take")
      BY <1>1, <1>2, <1>3, <2>1, <2>3 DEF Moves, EntryStages, CreateStages, DeleteStages
    <3>2. /\ Types' /\ Apart(c, Entry) /\ pc'[Entry] = "f_take"
          /\ \A d \in Cpus : pc'[d] = "guest" <=> pc[d] = "guest"
      BY <1>1, <3>1, MovesStep
    <3>3. Mode(Entry) = "low" /\ Mode(Entry)' = "wait1"
      BY <2>1, <3>2 DEF Mode
    <3> QED BY <1>1, <2>1, <2>3, <3>2, <3>3, RaiseStep
  <2>4. CASE UNCHANGED <<irql, OldIrql>> /\ Goto(Entry, "failed")
    <3>1. Moves(c, Entry, "failed")
      BY <1>1, <1>2, <1>3, <2>1, <2>4 DEF Moves, EntryStages, CreateStages, DeleteStages
    <3>2. Mode(Entry) = "low" /\ Mode(Entry)' = "low"
      BY <1>1, <2>1, <3>1, MovesStep DEF Mode
    <3> QED BY <1>1, <2>1, <2>4, <3>1, <3>2, QuietStep
  <2> QED BY <2>2, <2>3, <2>4
<1>11. CASE FinalizeTake(c)
  <2>1. /\ pc[Entry] = "f_take" /\ Take(c, Entry, Tree) /\ Goto(Entry, "f_clear")
        /\ UNCHANGED <<run, irql, OldIrql, target, entries, todo, hooked, shielded, found>>
    BY <1>11 DEF FinalizeTake, cpuVars, treeVars, otherVars
  <2>2. Moves(c, Entry, "f_clear")
    BY <1>1, <1>2, <1>3, <1>4, <2>1 DEF Moves, EntryStages, CreateStages, DeleteStages
  <2>3. /\ Types' /\ Apart(c, Entry) /\ pc'[Entry] = "f_clear"
        /\ \A d \in Cpus : pc'[d] = "guest" <=> pc[d] = "guest"
    BY <1>1, <2>2, MovesStep
  <2>4. Mode(Entry) = "wait1" /\ Mode(Entry)' = "tree"
    BY <2>1, <2>3 DEF Mode
  <2> QED BY <1>1, <2>1, <2>3, <2>4, TakeTreeStep
<1> QED BY <1>5, <1>6, <1>7, <1>8, <1>9, <1>10, <1>11 DEF MonitorStep

(* The mailbox worker.                                                     *)
LEMMA WorkerKeepsLocks ==
    ASSUME LockInv, NEW c \in Cpus, On(c, Worker), WorkerStep(c)
    PROVE  LockInv'
<1>1. /\ Worker \in Contexts /\ Worker # c /\ Worker # Entry /\ Worker \notin Cpus
      /\ Worker \notin Procs
  BY ActorsAssumption DEF Contexts, Threads
<1>2. /\ entries \subseteq Procs /\ todo \in Seq(Procs) /\ shielded \in BOOLEAN
      /\ hooked \in BOOLEAN
      /\ pc[Worker] # "idle" => found.p \in Procs
      /\ found = [p |-> found.p, gen |-> found.gen, id |-> found.id]
  BY DEF LockInv, Types
<1>3. ASSUME NEW s \in WorkerStages
      PROVE  StageOf(Worker, s)
  BY <1>1, <1>3 DEF StageOf
<1>4. \A p \in Procs : p \in Locks
  BY DEF Locks
<1>5. CASE WorkerLookup(c)
  <2>1. /\ pc[Worker] = "idle"
        /\ UNCHANGED <<run, irql, OldIrql, lock, target, entries, todo, hooked, shielded>>
    BY <1>5 DEF WorkerLookup, cpuVars, treeVars
  <2>2. CASE msg \in entries
    <3>1. Goto(Worker, "w_alloc") /\ found' = [p |-> msg, gen |-> gen[msg], id |-> 0] /\ msg \in Procs
      BY <1>2, <1>5, <2>2 DEF WorkerLookup
    <3>2. found' = [p |-> found'.p, gen |-> found'.gen, id |-> found'.id] /\ found'.p \in Procs
      BY <3>1
    <3>3. Moves(c, Worker, "w_alloc")
      BY <1>1, <1>2, <1>3, <2>1, <3>1, <3>2 DEF Moves, WorkerStages
    <3>4. Mode(Worker) = "low" /\ Mode(Worker)' = "low"
      BY <1>1, <2>1, <3>3, MovesStep DEF Mode
    <3> QED BY <1>1, <2>1, <3>3, <3>4, QuietStep
  <2>3. CASE msg \notin entries
    <3>1. UNCHANGED <<found, pc>>
      BY <1>5, <2>3 DEF WorkerLookup
    <3> QED BY <1>2, <2>1, <3>1, StillStep DEF cpuVars
  <2> QED BY <2>2, <2>3
<1>6. CASE WorkerGiveUp(c) \/ WorkerCheck(c)
  <2>1. /\ pc[Worker] \in {"w_alloc", "w_check"} /\ Goto(Worker, "idle") /\ found' = Nothing
        /\ UNCHANGED <<run, irql, OldIrql, lock, target, entries, todo, hooked, shielded>>
    BY <1>6 DEF WorkerGiveUp, WorkerCheck, cpuVars, treeVars
  <2>2. found' = [p |-> found'.p, gen |-> found'.gen, id |-> found'.id]
    BY <2>1 DEF Nothing
  <2>3. Moves(c, Worker, "idle")
    BY <1>1, <1>2, <1>3, <2>1, <2>2 DEF Moves, WorkerStages
  <2>4. Mode(Worker) = "low" /\ Mode(Worker)' = "low"
    BY <1>1, <2>1, <2>3, MovesStep DEF Mode
  <2> QED BY <1>1, <2>1, <2>3, <2>4, QuietStep
<1>7. CASE WorkerAllocate(c)
  <2>1. /\ pc[Worker] = "w_alloc" /\ Goto(Worker, "w_take") /\ Raise(c)
        /\ UNCHANGED <<run, lock, target, entries, todo, hooked, shielded, found>>
    BY <1>7 DEF WorkerAllocate, otherVars
  <2>2. Moves(c, Worker, "w_take")
    BY <1>1, <1>2, <1>3, <2>1 DEF Moves, WorkerStages
  <2>3. /\ Types' /\ Apart(c, Worker) /\ pc'[Worker] = "w_take"
        /\ \A d \in Cpus : pc'[d] = "guest" <=> pc[d] = "guest"
    BY <1>1, <2>2, MovesStep
  <2>4. Mode(Worker) = "low" /\ Mode(Worker)' = "wait1"
    BY <2>1, <2>3 DEF Mode
  <2> QED BY <1>1, <2>1, <2>3, <2>4, RaiseStep
<1>8. CASE WorkerInsert(c) \/ WorkerNoRoom(c)
  <2>1. /\ pc[Worker] = "w_take" /\ Goto(Worker, "w_release") /\ Take(c, Worker, found.p)
        /\ UNCHANGED <<run, irql, OldIrql, target, entries, todo, hooked, shielded>>
    BY <1>8 DEF WorkerInsert, WorkerNoRoom, cpuVars, treeVars, otherVars
  <2>2. found' = found \/ found' = [found EXCEPT !.id = InsertIdx(table[found.p])]
    BY <1>8 DEF WorkerInsert, WorkerNoRoom, otherVars
  <2>3. /\ found'.p = found.p
        /\ found' = [p |-> found'.p, gen |-> found'.gen, id |-> found'.id]
    BY <1>2, <2>2
  <2>4. found.p \in Procs
    BY <1>2, <2>1
  <2>5. Moves(c, Worker, "w_release")
    BY <1>1, <1>2, <1>3, <1>4, <2>1, <2>3, <2>4 DEF Moves, WorkerStages
  <2>6. /\ Types' /\ Apart(c, Worker) /\ pc'[Worker] = "w_release"
        /\ \A d \in Cpus : pc'[d] = "guest" <=> pc[d] = "guest"
    BY <1>1, <2>5, MovesStep
  <2>7. Mode(Worker) = "wait1" /\ Mode(Worker)' = "list"
    BY <2>1, <2>6 DEF Mode, Lockless
  <2>8. Of(Worker)' = found.p
    BY <1>1, <2>3 DEF Of
  <2> QED BY <1>1, <2>1, <2>4, <2>6, <2>7, <2>8, TakeListStep
<1>9. CASE WorkerFault(c)
  BY <1>2, <1>9, StillStep DEF WorkerFault, Fault, treeVars, otherVars
<1> QED BY <1>5, <1>6, <1>7, <1>8, <1>9 DEF WorkerStep

(* The exit handler in root mode.                                          *)
LEMMA RootKeepsLocks ==
    ASSUME LockInv, NEW c \in Cpus, On(c, c), RootStep(c)
    PROVE  LockInv'
<1>1. /\ c \in Contexts /\ Worker # c /\ Entry # c /\ c \notin Procs
  BY ActorsAssumption DEF Contexts, Threads
<1>2. /\ entries \subseteq Procs /\ todo \in Seq(Procs) /\ shielded \in BOOLEAN
      /\ hooked \in BOOLEAN
  BY DEF LockInv, Types
<1>3. ASSUME NEW s \in CpuStages
      PROVE  StageOf(c, s)
  BY <1>1, <1>3 DEF StageOf
<1>4. Tree \in Locks /\ \A p \in Procs : p \in Locks
  BY DEF Locks
<1>5. CASE RootLookup(c)
  <2>1. PICK s \in {"r_list", "r_release"} :
           /\ Goto(c, s)
           /\ \/ s = "r_list" /\ Raise(c)
              \/ s = "r_release" /\ UNCHANGED <<irql, OldIrql>>
    BY <1>5 DEF RootLookup
  <2>2. /\ pc[c] = "r_take" /\ Take(c, c, Tree)
        /\ UNCHANGED <<run, target, entries, todo, hooked, shielded, found>>
    BY <1>5 DEF RootLookup, treeVars
  <2>3. Moves(c, c, s)
    BY <1>1, <1>2, <1>3, <1>4, <2>1, <2>2 DEF Moves, CpuStages
  <2>4. /\ Types' /\ Apart(c, c) /\ pc'[c] = s
        /\ \A d \in Cpus : pc'[d] = "guest" <=> pc[d] = "guest"
    BY <1>1, <2>3, MovesStep
  <2>5. Mode(c) = "wait1" /\ Mode(c)' = IF s = "r_list" THEN "wait2" ELSE "tree"
    BY <2>1, <2>2, <2>4 DEF Mode
  <2> QED BY <1>1, <2>1, <2>2, <2>4, <2>5, TakeTreeStep
<1>6. CASE RootWalk(c)
  <2>1. /\ pc[c] = "r_list" /\ Take(c, c, Of(c)) /\ Goto(c, "r_unlist") /\ Of(c) \in Procs
        /\ UNCHANGED <<run, irql, OldIrql, target, entries, todo, hooked, shielded, found>>
    BY <1>2, <1>6 DEF RootWalk, cpuVars, treeVars
  <2>2. Moves(c, c, "r_unlist")
    BY <1>1, <1>2, <1>3, <1>4, <2>1 DEF Moves, CpuStages
  <2>3. /\ Types' /\ Apart(c, c) /\ pc'[c] = "r_unlist"
        /\ \A d \in Cpus : pc'[d] = "guest" <=> pc[d] = "guest"
    BY <1>1, <2>2, MovesStep
  <2>4. Mode(c) = "wait2" /\ Mode(c)' = "both"
    BY <1>1, <2>1, <2>3 DEF Mode, Lockless
  <2>5. Of(c)' = Of(c)
    BY <1>1, <2>1 DEF Of
  <2> DEFINE p == Of(c)
  <2>6. p \in Procs /\ Take(c, c, p) /\ Of(c)' = p /\ UNCHANGED <<run, irql, OldIrql>>
    BY <2>1, <2>5
  <2> HIDE DEF p
  <2> QED BY <1>1, <2>3, <2>4, <2>6, TakeListStep
<1>7. CASE RootFault(c)
  BY <1>2, <1>7, StillStep DEF RootFault, Fault, treeVars, otherVars
<1> QED BY <1>5, <1>6, <1>7 DEF RootStep

(* The system around the driver.                                           *)
LEMMA EnvironmentKeepsLocks ==
    ASSUME LockInv, Environment
    PROVE  LockInv'
<1>1. Types
  BY DEF LockInv
<1>2. ASSUME NEW c \in Cpus, NEW x \in Threads, Switch(c, x)
      PROVE  LockInv'
  <2>1. /\ run' = [run EXCEPT ![c] = x] /\ pc[c] = "guest"
        /\ UNCHANGED <<target, lock, entries, todo, hooked, shielded, found>>
        /\ \/ Raise(c) /\ Goto(c, "r_take")
           \/ UNCHANGED <<irql, OldIrql, pc>>
    BY <1>2 DEF Switch, treeVars, otherVars
  <2>2. c \in Contexts /\ c \notin Threads /\ x # Null
    BY ActorsAssumption DEF Contexts, Threads
  <2>3. StageOf(c, "r_take")
    BY <2>2 DEF StageOf, CpuStages, Threads
  <2>4. /\ pc' \in [Contexts -> ProcStages \cup WorkerStages \cup CpuStages \cup EntryStages]
        /\ \A p \in Procs : pc'[p] \in ProcStages
        /\ \A d \in Cpus : pc'[d] \in CpuStages
        /\ pc'[Worker] \in WorkerStages /\ pc'[Entry] \in EntryStages
        /\ \A y \in Contexts : y # c => pc'[y] = pc[y]
    <3>1. CASE Goto(c, "r_take")
      BY <1>1, <2>2, <2>3, <3>1, PcStep
    <3>2. CASE UNCHANGED pc
      BY <1>1, <3>2 DEF Types
    <3> QED BY <2>1, <3>1, <3>2
  <2>5. /\ run' \in [Cpus -> Threads \cup {Null}]
        /\ \A d \in Cpus : pc'[d] # "guest" => run'[d] # Null
    BY <1>1, <2>1, <2>2, <2>4 DEF Types, Contexts
  <2>6. irql' \in [Cpus -> {PASSIVE, HIGH}] /\ OldIrql' \in [Cpus -> {PASSIVE, HIGH}]
    BY <1>1, <2>1 DEF Types, Raise
  <2>7. pc'[Entry] = pc[Entry] /\ pc'[Worker] = pc[Worker]
    BY <2>2, <2>4 DEF Contexts, Threads
  <2>8. Types'
    BY <1>1, <2>1, <2>4, <2>5, <2>6, <2>7 DEF Types
  <2> QED BY <1>2, <2>8, SwitchStep
<1>3. ASSUME NEW p \in Procs, ProcessStart(p)
      PROVE  LockInv'
  <2>1. PICK s \in {"c_name", "user"} : Goto(p, s)
    BY <1>3 DEF ProcessStart
  <2>2. /\ pc[p] = "none"
        /\ UNCHANGED <<run, irql, OldIrql, target, lock, entries, todo, hooked, shielded, found>>
    BY <1>3 DEF ProcessStart, cpuVars, treeVars
  <2>3. p \in Contexts /\ p \notin Cpus /\ p # Entry /\ p # Worker
    BY ActorsAssumption DEF Contexts, Threads
  <2>4. StageOf(p, s)
    BY <2>1, <2>3 DEF StageOf, ProcStages, CreateStages
  <2>5. /\ pc' \in [Contexts -> ProcStages \cup WorkerStages \cup CpuStages \cup EntryStages]
        /\ \A q \in Procs : pc'[q] \in ProcStages
        /\ \A d \in Cpus : pc'[d] \in CpuStages
        /\ pc'[Worker] \in WorkerStages /\ pc'[Entry] \in EntryStages
        /\ pc'[p] = s /\ \A y \in Contexts : y # p => pc'[y] = pc[y]
    BY <1>1, <2>1, <2>3, <2>4, PcStep
  <2>6. /\ pc'[Entry] = pc[Entry] /\ pc'[Worker] = pc[Worker]
        /\ \A d \in Cpus : pc'[d] = pc[d]
    BY <2>3, <2>5 DEF Contexts, Threads
  <2>7. Types'
    BY <1>1, <2>2, <2>5, <2>6 DEF Types
  <2>8. \A y \in Contexts : Mode(y)' = Mode(y)
    BY <2>1, <2>2, <2>5 DEF Mode, Lockless
  <2>9. \A y \in Contexts : Of(y)' = Of(y)
    BY <2>2 DEF Of
  <2> QED BY <2>2, <2>6, <2>7, <2>8, <2>9, KeepStep
<1>4. ASSUME NEW c \in Cpus, NEW p \in Procs, ProcessExit(c, p)
      PROVE  LockInv'
  <2>1. /\ run[c] = p /\ pc[p] = "user" /\ pc[c] = "guest"
        /\ UNCHANGED <<target, lock, entries, todo, hooked, shielded, found>>
    BY <1>4 DEF ProcessExit, treeVars, otherVars
  <2>2. On(c, p) /\ p \in Contexts /\ p \in Threads /\ p \notin Cpus /\ p # Entry /\ p # Worker /\ p # c
    BY <2>1, ActorsAssumption DEF On, Contexts, Threads
  <2>3. CASE hooked
    <3>1. Raise(c) /\ Goto(p, "d_take") /\ UNCHANGED run
      BY <1>4, <2>3 DEF ProcessExit
    <3>2. StageOf(p, "d_take")
      BY <2>2 DEF StageOf, ProcStages
    <3>3. Moves(c, p, "d_take")
      BY <1>1, <2>1, <2>2, <3>1, <3>2 DEF Moves, Types
    <3>4. /\ Types' /\ Apart(c, p) /\ pc'[p] = "d_take"
          /\ \A d \in Cpus : pc'[d] = "guest" <=> pc[d] = "guest"
      BY <2>2, <3>3, MovesStep
    <3>5. Mode(p) = "low" /\ Mode(p)' = "wait1"
      BY <2>1, <3>4 DEF Mode
    <3> QED BY <2>1, <2>2, <3>1, <3>4, <3>5, RaiseStep
  <2>4. CASE ~hooked
    <3>1. Goto(p, "none") /\ run' = [run EXCEPT ![c] = Null] /\ UNCHANGED <<irql, OldIrql>>
      BY <1>4, <2>4 DEF ProcessExit
    <3>2. StageOf(p, "none")
      BY <2>2 DEF StageOf, ProcStages
    <3>3. /\ pc' \in [Contexts -> ProcStages \cup WorkerStages \cup CpuStages \cup EntryStages]
          /\ \A q \in Procs : pc'[q] \in ProcStages
          /\ \A d \in Cpus : pc'[d] \in CpuStages
          /\ pc'[Worker] \in WorkerStages /\ pc'[Entry] \in EntryStages
          /\ pc'[p] = "none" /\ \A y \in Contexts : y # p => pc'[y] = pc[y]
      BY <1>1, <2>2, <3>1, <3>2, PcStep
    <3>4. /\ pc'[Entry] = pc[Entry] /\ pc'[Worker] = pc[Worker]
          /\ \A d \in Cpus : pc'[d] = pc[d]
      BY <2>2, <3>3 DEF Contexts, Threads
    <3>5. /\ run' \in [Cpus -> Threads \cup {Null}]
          /\ \A d \in Cpus : pc'[d] # "guest" => run'[d] # Null
      BY <1>1, <2>1, <3>1, <3>4 DEF Types
    <3>6. Types'
      BY <1>1, <2>1, <3>1, <3>3, <3>4, <3>5 DEF Types
    <3>7. \A d \in Cpus : d # c =>
             run'[d] = run[d] /\ irql'[d] = irql[d] /\ OldIrql'[d] = OldIrql[d]
      BY <1>1, <3>1 DEF Types
    <3>8. Apart(c, p)
      BY <2>1, <2>2, <3>3, <3>7, ApartStep
    <3>9. Mode(p) = "low" /\ Mode(p)' = "low"
      BY <2>1, <3>3 DEF Mode
    <3> QED BY <2>1, <2>2, <3>1, <3>4, <3>6, <3>8, <3>9, LeaveStep
  <2> QED BY <2>3, <2>4
<1>5. ASSUME NEW c \in Cpus, NEW p \in Procs, Trim(c, p)
      PROVE  LockInv'
  BY <1>1, <1>5, StillStep DEF Trim, treeVars, Types
<1> QED BY <1>2, <1>3, <1>4, <1>5 DEF Environment

(* DriverEntry, the service and DriverUnload.                              *)
LEMMA LifeKeepsLocks ==
    ASSUME LockInv, NEW c \in Cpus, LifeStep(c)
    PROVE  LockInv'
<1>1. /\ On(c, Entry) /\ Entry \in Contexts /\ Entry # c /\ Entry # Worker /\ Entry \notin Cpus
      /\ Entry \notin Procs
  BY ActorsAssumption DEF Contexts, Threads, LifeStep
<1>2. Types
  BY DEF LockInv
<1>3. ASSUME NEW s \in {"failed", "returned", "procmon", "up", "gone", "stopped", "f_unhook", "down"},
             Goto(Entry, s),
             pc[Entry] \in {"load", "monitored", "failed", "up", "stopped", "down"},
             UNCHANGED <<run, irql, OldIrql, target, lock, entries, todo, hooked, found>>,
             shielded' \in BOOLEAN
      PROVE  LockInv'
  <2>1. StageOf(Entry, s)
    BY <1>1 DEF StageOf, EntryStages
  <2>2. Moves(c, Entry, s)
    BY <1>1, <1>2, <1>3, <2>1 DEF Moves, Types, CreateStages, DeleteStages
  <2>3. pc'[Entry] = s
    BY <1>1, <2>2, MovesStep
  <2>4. Mode(Entry) = "low" /\ Mode(Entry)' = "low"
    BY <1>3, <2>3 DEF Mode
  <2> QED BY <1>1, <1>3, <2>2, <2>4, QuietStep
<1>4. CASE Detect \/ Acquire
  BY <1>2, <1>4, StillStep DEF Detect, Acquire, vars, treeVars, otherVars, Types
<1>5. CASE StartShield \/ StopShield
  BY <1>5, StillStep DEF StartShield, StopShield, Shield, treeVars
<1>6. CASE Refused \/ RegisterPower \/ Started \/ FinalizeShield
  <2>1. PICK s \in {"failed", "returned", "procmon", "up", "f_unhook", "down"} : EntryGoto(s)
    BY <1>6 DEF Refused, RegisterPower, Started, FinalizeShield
  <2>2. pc[Entry] \in {"load", "monitored", "stopped"}
    BY <1>6 DEF Refused, RegisterPower, Started, FinalizeShield
  <2> QED BY <1>2, <1>3, <2>1, <2>2 DEF EntryGoto, cpuVars, treeVars, otherVars, Types
<1>7. CASE Unload
  BY <1>3, <1>7 DEF Unload, Shield, cpuVars, treeVars
<1>8. CASE GiveBack
  <2>1. PICK s \in {"failed", "down", "returned", "gone"} : Goto(Entry, s)
    BY <1>8 DEF GiveBack, Releasing
  <2>2. pc[Entry] \in {"failed", "down"}
    BY <1>8 DEF GiveBack, Releasing
  <2> QED BY <1>2, <1>3, <1>8, <2>1, <2>2 DEF GiveBack, cpuVars, treeVars, Types
<1>9. CASE UnloadFault
  BY <1>2, <1>9, StillStep DEF UnloadFault, Fault, treeVars, otherVars, Types
<1> QED BY <1>4, <1>5, <1>6, <1>7, <1>8, <1>9 DEF LifeStep

(* The power callback.                                                     *)
LEMMA PowerKeepsLocks ==
    ASSUME LockInv, PowerStep
    PROVE  LockInv'
<1>1. /\ UNCHANGED <<cpuVars, pc, lock, entries, hooked, todo, target, found>>
      /\ shielded' \in {TRUE, FALSE, shielded}
  BY DEF PowerStep, SuspendShield, ResumeShield, Shield, treeVars
<1> QED BY <1>1, StillStep DEF LockInv, Types

(* Nothing that happens breaks the discipline of the locks.                *)
LEMMA NextKeepsLocks ==
    ASSUME LockInv, TreeStages, [DNext]_allVars
    PROVE  LockInv'
<1>1. CASE UNCHANGED allVars
  BY <1>1, StillStep DEF allVars, vars, treeVars, otherVars, LockInv, Types
<1>2. ASSUME NEW c \in Cpus, Step(c)
      PROVE  LockInv'
  <2>1. PICK x \in Contexts : /\ On(c, x)
                              /\ \/ ReleaseStep(c, x)
                                 \/ CallbackStep(c, x)
                                 \/ x = Entry /\ MonitorStep(c)
                                 \/ x = Worker /\ WorkerStep(c)
                                 \/ x = c /\ RootStep(c)
    BY <1>2 DEF Step
  <2> QED BY <2>1, ReleaseKeepsLocks, CallbackKeepsLocks, MonitorKeepsLocks, WorkerKeepsLocks,
             RootKeepsLocks
<1> QED BY <1>1, <1>2, EnvironmentKeepsLocks, LifeKeepsLocks, PowerKeepsLocks DEF DNext, CpuStep

(* No lock is held when the driver is loaded.                              *)
LEMMA InitLocks == DInit => LockInv
<1> SUFFICES ASSUME Init PROVE LockInv
  BY DEF DInit
<1>1. /\ \A p \in Procs : pc[p] = "none"
      /\ \A c \in Cpus : pc[c] = "guest"
      /\ pc[Entry] = "load" /\ pc[Worker] = "idle"
  BY ActorsAssumption DEF Init, Contexts, Threads
<1>2. pc \in [Contexts -> {"none", "load", "idle", "guest"}]
  BY DEF Init
<1>3. \A x \in Contexts : Mode(x) = "low"
  BY <1>2 DEF Mode
<1>4. Types
  <2>1. lock \in [Locks -> [held : BOOLEAN, OldIrql : {PASSIVE, HIGH}, Owner : Contexts \cup {Null}]]
    BY DEF Init, FreeLock
  <2>2. pc \in [Contexts -> ProcStages \cup WorkerStages \cup CpuStages \cup EntryStages]
    BY <1>2 DEF ProcStages, WorkerStages, CpuStages, EntryStages
  <2>3. /\ \A p \in Procs : pc[p] \in ProcStages
        /\ \A c \in Cpus : pc[c] \in CpuStages
        /\ pc[Worker] \in WorkerStages /\ pc[Entry] \in EntryStages
    BY <1>1 DEF ProcStages, WorkerStages, CpuStages, EntryStages
  <2>4. found = [p |-> found.p, gen |-> found.gen, id |-> found.id]
    BY DEF Init, Nothing
  <2>5. pc[Entry] \notin CreateStages \cup DeleteStages
    BY <1>1 DEF CreateStages, DeleteStages
  <2>6. todo \in Seq(Procs) /\ entries \subseteq Procs /\ hooked \in BOOLEAN /\ shielded \in BOOLEAN
    <3>1. todo = <<>> /\ entries = {} /\ hooked = FALSE /\ shielded = FALSE
      BY DEF Init
    <3>2. todo \in Seq(Procs)
      BY <3>1
    <3> QED BY <3>1, <3>2
  <2>7. /\ run \in [Cpus -> Threads \cup {Null}]
        /\ irql \in [Cpus -> {PASSIVE, HIGH}] /\ OldIrql \in [Cpus -> {PASSIVE, HIGH}]
    BY DEF Init
  <2> QED BY <1>1, <2>1, <2>2, <2>3, <2>4, <2>5, <2>6, <2>7 DEF Types
<1>5. Placed
  BY <1>3 DEF Placed, Init, Contexts
<1>6. Levels
  BY <1>1 DEF Levels, LevelOf, Current, Init
<1>7. \A l \in Locks : ~lock[l].held
  BY DEF Init, FreeLock
<1>8. Owned
  BY <1>3, <1>7 DEF Owned, Locks
<1> QED BY <1>4, <1>5, <1>6, <1>8 DEF LockInv


-----------------------------------------------------------------------------
(* The tree and its users.  A step of anyone but DriverEntry and           *)
(* DriverUnload changes the tree only while the routine is registered.     *)
LEMMA OthersStep ==
    ASSUME DriverInv, UNCHANGED <<hooked, shielded, gProcessTree, target>>, pc'[Entry] = pc[Entry],
           UNCHANGED <<noted, suspended, late>>,
           entries' = entries \/ hooked,
           ~hooked => \A p \in Procs : pc'[p] \in {"none", "user"},
           \A c \in Cpus : pc'[c] # "guest" => shielded,
           \A c \in Cpus : pc'[c] \in {"r_list", "r_unlist"} => run'[c] \in entries',
           \A p \in Procs : pc'[p] \in DeleteStages =>
              p \in entries' \/ (hooked /\ pc[Entry] \in Undoing),
           LockedUsersAreSafe'
    PROVE  StageInv'
<1>1. TreeStages'
  BY DEF DriverInv, StageInv, TreeStages, DeleteStages
<1>2. Users'
  BY DEF DriverInv, StageInv, Users, Notifying
<1> QED BY <1>1, <1>2 DEF StageInv

(* No fault: nothing is to be shown about it.                              *)
LEMMA NoFault ==
    ASSUME fault' = "none"
    PROVE  LockedUsersAreSafe'
BY DEF LockedUsersAreSafe

(* A context moves, the others stay.                                       *)
LEMMA GotoStep ==
    ASSUME LockInv, NEW x \in Contexts, NEW s, Goto(x, s)
    PROVE  pc'[x] = s /\ \A y \in Contexts : y # x => pc'[y] = pc[y]
BY DEF LockInv, Types, Goto

(* Releasing a lock.                                                       *)
LEMMA ReleaseKeepsStages ==
    ASSUME DriverInv, NEW c \in Cpus, NEW x \in Contexts, On(c, x), ReleaseStep(c, x),
           fault = "none", UNCHANGED <<noted, suspended, late>>
    PROVE  StageInv'
<1>1. LockInv /\ Types
  BY DEF DriverInv, LockInv
<1>2. PICK s : Goto(x, s) /\ s = (CASE pc[x] = "c_release" -> IF x = Entry THEN "enum" ELSE "user"
                 [] pc[x] = "d_release" -> "none"
                 [] pc[x] = "f_release" -> "down"
                 [] pc[x] = "w_release" -> "w_check"
                 [] pc[x] = "r_release" -> "guest"
                 [] pc[x] = "d_unlist" -> "d_delete"
                 [] pc[x] = "r_unlist" -> "r_release")
  BY DEF ReleaseStep
<1>3. /\ pc[x] = "c_release" => s = IF x = Entry THEN "enum" ELSE "user"
      /\ pc[x] = "d_release" => s = "none"
      /\ pc[x] = "f_release" => s = "down"
      /\ pc[x] = "w_release" => s = "w_check"
      /\ pc[x] = "r_release" => s = "guest"
      /\ pc[x] = "d_unlist" => s = "d_delete"
      /\ pc[x] = "r_unlist" => s = "r_release"
  BY <1>2
<1>4. pc'[x] = s /\ \A y \in Contexts : y # x => pc'[y] = pc[y]
  BY <1>1, <1>2, GotoStep
<1>5. /\ UNCHANGED <<target, gProcessTree, entries, hooked, shielded, fault>>
      /\ pc[x] \in ReleaseStages
      /\ run' = [run EXCEPT ![c] = IF pc[x] = "d_release" THEN Null ELSE @]
  BY DEF ReleaseStep, treeVars, otherVars
<1>6. /\ pc[x] \in CreateStages \cup DeleteStages => x \in Procs \cup {Entry}
      /\ pc[x] = "d_release" => x \in Procs
      /\ pc[x] = "f_release" => x = Entry
      /\ pc[x] = "w_release" => x = Worker
      /\ pc[x] \in {"r_unlist", "r_release"} => x \in Cpus
      /\ x \in Cpus => x \notin Threads
  BY <1>1, KindOfStage
<1>7. LockedUsersAreSafe'
  BY <1>5, NoFault
<1>8. \A d \in Cpus : d # c => run'[d] = run[d]
  BY <1>1, <1>5 DEF Types
<1>9. \A d \in Cpus : d \in Contexts
  BY DEF Contexts
<1>10. \A p \in Procs : p \in Contexts
  BY DEF Contexts, Threads
<1>11. ASSUME NEW d \in Cpus, pc'[d] \in {"r_list", "r_unlist"}
       PROVE  run'[d] \in entries'
  <2>1. pc[d] = pc'[d] /\ d # x
    BY <1>3, <1>4, <1>5, <1>9, <1>11 DEF ReleaseStages
  <2>2. d # c
    BY <1>11, <2>1 DEF On
  <2> QED BY <1>5, <1>8, <1>11, <2>1, <2>2 DEF DriverInv, StageInv, Users
<1>12. \A d \in Cpus : pc'[d] # "guest" => shielded'
  <2>1. \A d \in Cpus : pc'[d] # "guest" => pc[d] # "guest"
    BY <1>4, <1>5, <1>9 DEF ReleaseStages
  <2> QED BY <1>5, <2>1 DEF DriverInv, StageInv, Users
<1>13. CASE x = Entry
  <2>1. pc[Entry] \in {"c_release", "f_release", "d_unlist"}
    BY <1>5, <1>6, <1>13, ActorsAssumption DEF ReleaseStages, Threads
  <2>2. \A p \in Procs : pc'[p] = pc[p]
    BY <1>4, <1>10, <1>13, ActorsAssumption
  <2>3. pc'[Entry] = s
    BY <1>4, <1>13
  <2>4. TreeStages'
    BY <1>3, <1>5, <1>13, <2>1, <2>3 DEF DriverInv, StageInv, TreeStages, CreateStages, DeleteStages
  <2>5. Users'
    <3>1. ~hooked' => \A p \in Procs : ~Notifying(p)'
      BY <1>5, <2>2 DEF DriverInv, StageInv, Users, Notifying
    <3>2. /\ shielded' \/ suspended' => PastAt(pc'[Entry], hooked')
          /\ shielded' => late'
      BY <1>3, <1>5, <1>13, <2>1, <2>3 DEF DriverInv, StageInv, Users, PastAt, DeleteStages
    <3>3. \A p \in Procs : pc'[p] \in DeleteStages => p \in entries' \/ (hooked' /\ pc'[Entry] \in Undoing)
      BY <1>3, <1>5, <1>13, <2>1, <2>2, <2>3 DEF DriverInv, StageInv, Users, Undoing, DeleteStages,
         TreeStages, Notifying
    <3> QED BY <1>5, <1>11, <1>12, <3>1, <3>2, <3>3 DEF Users
  <2> QED BY <1>7, <2>4, <2>5 DEF StageInv
<1>14. CASE x # Entry
  <2>1. pc'[Entry] = pc[Entry]
    BY <1>4, <1>14 DEF Contexts, Threads
  <2>2. ~hooked => \A p \in Procs : pc'[p] \in {"none", "user"}
    BY <1>3, <1>4, <1>5, <1>10, <1>14 DEF DriverInv, StageInv, Users, Notifying, ReleaseStages
  <2>3. \A p \in Procs : pc'[p] \in DeleteStages => pc[p] \in DeleteStages
    BY <1>3, <1>4, <1>5, <1>10, <1>14 DEF DeleteStages, ReleaseStages
  <2>4. \A p \in Procs : pc'[p] \in DeleteStages => p \in entries' \/ (hooked /\ pc[Entry] \in Undoing)
    BY <1>5, <2>3 DEF DriverInv, StageInv, Users
  <2> QED BY <1>5, <1>7, <1>11, <1>12, <2>1, <2>2, <2>4, OthersStep
<1> QED BY <1>13, <1>14

(* A lock of the tree has one holder.                                      *)
LEMMA OneHolder ==
    ASSUME LockInv, NEW x \in Contexts, NEW y \in Contexts,
           Mode(x) \in {"tree", "wait2", "both"}, Mode(y) \in {"tree", "wait2", "both"}
    PROVE  x = y
BY DEF LockInv, Owned

(* A step of a notify routine in the context of a process: it is           *)
(* registered, and the processors stay where they are.                     *)
LEMMA CallerStep ==
    ASSUME DriverInv, NEW x \in Procs, NEW s \in ProcStages, Goto(x, s), hooked, run' = run,
           UNCHANGED <<noted, suspended, late>>,
           UNCHANGED <<hooked, shielded, gProcessTree, target>>, fault' = "none",
           \/ entries \subseteq entries'
           \/ entries \ {x} \subseteq entries' /\ Mode(x) = "tree",
           s \in DeleteStages => x \in entries' \/ pc[Entry] \in Undoing
    PROVE  StageInv'
<1>1. x \in Contexts /\ x # Entry /\ x \notin Cpus
  BY ActorsAssumption DEF Contexts, Threads
<1>2. LockInv /\ StageInv
  BY DEF DriverInv
<1>3. pc'[x] = s /\ \A y \in Contexts : y # x => pc'[y] = pc[y]
  BY <1>1, <1>2, GotoStep
<1>4. /\ pc'[Entry] = pc[Entry] /\ \A d \in Cpus : pc'[d] = pc[d]
      /\ \A p \in Procs : p # x => pc'[p] = pc[p]
  BY <1>1, <1>3 DEF Contexts, Threads
<1>5. ASSUME NEW d \in Cpus, pc'[d] \in {"r_list", "r_unlist"}
      PROVE  run'[d] \in entries'
  <2>1. run[d] \in entries /\ pc[d] \in {"r_list", "r_unlist"}
    BY <1>2, <1>4, <1>5 DEF StageInv, Users
  <2>2. Mode(x) # "tree"
    <3>1. d \in Contexts /\ d # Entry /\ d # x
      BY <1>1, ActorsAssumption DEF Contexts
    <3>2. Mode(d) \in {"wait2", "both"}
      BY <2>1, <3>1 DEF Mode, Lockless
    <3> QED BY <1>1, <1>2, <3>1, <3>2, OneHolder
  <2> QED BY <2>1, <2>2
<1>6. \A p \in Procs : pc'[p] \in DeleteStages => p \in entries' \/ (hooked /\ pc[Entry] \in Undoing)
  BY <1>2, <1>3, <1>4 DEF StageInv, Users
<1>7. \A d \in Cpus : pc'[d] # "guest" => shielded
  BY <1>2, <1>4 DEF StageInv, Users
<1> QED BY <1>4, <1>5, <1>6, <1>7, NoFault, OthersStep

(* A step of DriverEntry or DriverUnload.                                  *)
LEMMA EntryStep ==
    ASSUME DriverInv, NEW s, Goto(Entry, s), run' = run, fault' = "none", TreeStages',
           ~hooked' => \A p \in Procs : ~Notifying(p),
           UNCHANGED <<suspended, late>>,
           PastAt(pc[Entry], hooked) => PastAt(s, hooked'),
           shielded' => pc[Entry] # "up",
           shielded' # shielded => InGuest /\ ~shielded',
           entries \subseteq entries' \/ Mode(Entry) = "tree" \/ ~shielded,
           \A p \in Procs : pc[p] \in DeleteStages => p \in entries' \/ (hooked' /\ s \in Undoing)
    PROVE  StageInv'
<1>1. Entry \in Contexts /\ Entry \notin Cpus /\ Entry \notin Procs
  BY ActorsAssumption DEF Contexts, Threads
<1>2. LockInv /\ StageInv
  BY DEF DriverInv
<1>3. pc'[Entry] = s /\ \A y \in Contexts : y # Entry => pc'[y] = pc[y]
  BY <1>1, <1>2, GotoStep
<1>4. (\A d \in Cpus : pc'[d] = pc[d]) /\ (\A p \in Procs : pc'[p] = pc[p])
  BY <1>1, <1>3 DEF Contexts, Threads
<1>5. \A d \in Cpus : pc'[d] # "guest" => shielded' /\ shielded
  BY <1>2, <1>4 DEF StageInv, Users, InGuest
<1>6. ASSUME NEW d \in Cpus, pc'[d] \in {"r_list", "r_unlist"}
      PROVE  run'[d] \in entries'
  <2>1. run[d] \in entries /\ pc[d] \in {"r_list", "r_unlist"}
    BY <1>2, <1>4, <1>6 DEF StageInv, Users
  <2>2. Mode(Entry) # "tree"
    <3>1. d \in Contexts /\ d # Entry
      BY <1>1 DEF Contexts
    <3>2. Mode(d) \in {"wait2", "both"}
      BY <2>1, <3>1 DEF Mode, Lockless
    <3> QED BY <1>1, <1>2, <3>1, <3>2, OneHolder
  <2>3. shielded
    BY <1>5, <1>6
  <2> QED BY <2>1, <2>2, <2>3
<1>7. ~hooked' => \A p \in Procs : ~Notifying(p)'
  BY <1>4 DEF Notifying
<1>8. /\ shielded' \/ suspended' => PastAt(pc'[Entry], hooked')
      /\ shielded' => late'
  BY <1>2, <1>3 DEF StageInv, Users
<1>9. Users'
  BY <1>3, <1>4, <1>5, <1>6, <1>7, <1>8 DEF Users
<1> QED BY <1>9, NoFault DEF StageInv

(* DsProcessCreationCallback, DsProcessDeletionCallback and the deletions  *)
(* of PmClearProcessTable.                                                 *)
LEMMA CallbackKeepsStages ==
    ASSUME DriverInv, NEW c \in Cpus, NEW x \in Contexts, On(c, x), CallbackStep(c, x),
           fault = "none", UNCHANGED <<noted, suspended, late>>
    PROVE  StageInv'
<1>1. LockInv /\ Types /\ StageInv
  BY DEF DriverInv, LockInv
<1>2. /\ pc[x] \in CreateStages \cup DeleteStages => x \in Procs \cup {Entry}
      /\ pc[x] = "d_take" => x \in Procs
  BY <1>1, KindOfStage
<1>3. pc[x] \in {"d_take"} \cup CreateStages \cup DeleteStages => x \in Procs \cup {Entry}
  BY <1>2
<1>4. x \in Procs => x # Entry /\ Of(x) = x
  BY ActorsAssumption DEF Of
<1>5. pc[x] \in {"d_take"} \cup CreateStages \cup DeleteStages /\ x \in Procs => hooked
  BY <1>1 DEF StageInv, Users, Notifying, CreateStages, DeleteStages
<1>6. x = Entry => Of(x) = target /\ (pc[x] \in CreateStages => hooked /\ gProcessTree = "live")
  BY <1>1, ActorsAssumption DEF Of, StageInv, TreeStages
<1>7. /\ x = Entry /\ pc[x] \in CreateStages \cup DeleteStages /\ hooked => ~PastAt(pc[Entry], hooked)
      /\ x = Entry /\ pc[x] \in CreateStages \cup DeleteStages => pc[Entry] # "up"
  BY <1>1 DEF PastAt, CreateStages, DeleteStages
<1>8. CASE CreateDescribe(c, x)
  <2>1. PICK s \in {"c_take", "enum", "user"} : Goto(x, s) /\ (s = "enum" => x = Entry)
                                                          /\ (s = "user" => x # Entry)
    BY <1>8 DEF CreateDescribe
  <2>2. /\ pc[x] = "c_name" /\ fault' = "none"
        /\ UNCHANGED <<run, target, gProcessTree, entries, hooked, shielded>>
    BY <1>8 DEF CreateDescribe, treeVars, otherVars
  <2>3. CASE x \in Procs
    BY <1>4, <1>5, <2>1, <2>2, <2>3, CallerStep DEF CreateStages, DeleteStages, ProcStages
  <2>4. CASE x = Entry
    <3>1. pc'[Entry] = s /\ s \in {"c_take", "enum"}
      BY <1>1, <2>1, <2>4, GotoStep
    <3>2. TreeStages'
      BY <1>1, <2>2, <2>4, <3>1 DEF StageInv, TreeStages, CreateStages, DeleteStages
    <3>3. \A p \in Procs : pc[p] \in DeleteStages => p \in entries'
      BY <1>1, <2>2, <2>4 DEF StageInv, Users, Undoing, DeleteStages
    <3>4. PastAt(pc[Entry], hooked) => PastAt(pc'[Entry], hooked')
      BY <2>1, <2>2, <2>4 DEF PastAt, DeleteStages
    <3> QED BY <1>6, <1>7, <2>1, <2>2, <2>4, <3>1, <3>2, <3>3, <3>4, EntryStep DEF CreateStages
  <2> QED BY <1>2, <2>2, <2>3, <2>4 DEF CreateStages
<1>9. CASE CreateInsert(c, x) \/ CreateNoNode(c, x)
  <2>1. /\ pc[x] = "c_take" /\ Goto(x, "c_release") /\ fault' = "none"
        /\ UNCHANGED <<run, target, gProcessTree, hooked, shielded>>
    BY <1>9 DEF CreateInsert, CreateNoNode, treeVars, cpuVars, otherVars
  <2>2. entries \subseteq entries'
    BY <1>9 DEF CreateInsert, CreateNoNode, treeVars
  <2>3. CASE x \in Procs
    BY <1>4, <1>5, <2>1, <2>2, <2>3, CallerStep DEF CreateStages, DeleteStages, ProcStages
  <2>4. CASE x = Entry
    <3>1. pc'[Entry] = "c_release"
      BY <1>1, <2>1, <2>4, GotoStep
    <3>2. TreeStages'
      BY <1>1, <2>1, <2>4, <3>1 DEF StageInv, TreeStages, CreateStages, DeleteStages
    <3>3. \A p \in Procs : pc[p] \in DeleteStages => p \in entries'
      BY <1>1, <2>1, <2>2, <2>4 DEF StageInv, Users, Undoing, DeleteStages
    <3>4. PastAt(pc[Entry], hooked) => PastAt(pc'[Entry], hooked')
      BY <2>1, <2>2, <2>4 DEF PastAt, DeleteStages
    <3> QED BY <1>6, <1>7, <2>1, <2>2, <2>4, <3>1, <3>2, <3>3, <3>4, EntryStep DEF CreateStages
  <2> QED BY <1>2, <2>1, <2>3, <2>4 DEF CreateStages
<1>10. CASE DeleteLookup(c, x)
  <2>1. PICK s \in {"d_list", "d_release"} : Goto(x, s) /\ (s = "d_list" => Of(x) \in entries)
    BY <1>10 DEF DeleteLookup
  <2>2. /\ pc[x] = "d_take" /\ fault' = "none"
        /\ UNCHANGED <<run, target, gProcessTree, entries, hooked, shielded>>
    BY <1>10 DEF DeleteLookup, treeVars, otherVars
  <2> QED BY <1>2, <1>4, <1>5, <2>1, <2>2, CallerStep DEF DeleteStages, ProcStages
<1>11. CASE DeleteCleanup(c, x)
  <2>1. /\ pc[x] = "d_list" /\ Goto(x, "d_unlist") /\ Of(x) \in entries /\ fault' = "none"
        /\ UNCHANGED <<run, target, gProcessTree, entries, hooked, shielded>>
    BY <1>11 DEF DeleteCleanup, cpuVars, treeVars, otherVars
  <2>2. CASE x \in Procs
    BY <1>4, <1>5, <2>1, <2>2, CallerStep DEF DeleteStages, ProcStages
  <2>3. CASE x = Entry
    <3>1. pc'[Entry] = "d_unlist"
      BY <1>1, <2>1, <2>3, GotoStep
    <3>2. TreeStages'
      BY <1>1, <2>1, <2>3, <3>1 DEF StageInv, TreeStages, CreateStages, DeleteStages
    <3>3. \A p \in Procs : pc[p] \in DeleteStages => p \in entries' \/ (hooked' /\ "d_unlist" \in Undoing)
      BY <1>1, <2>1, <2>3 DEF StageInv, Users, Undoing, DeleteStages
    <3>4. ~hooked' => \A p \in Procs : ~Notifying(p)
      BY <1>1, <2>1 DEF StageInv, Users
    <3>5. PastAt(pc[Entry], hooked) => PastAt("d_unlist", hooked')
      BY <2>1, <2>3 DEF PastAt, DeleteStages
    <3> QED BY <1>7, <2>1, <2>3, <3>2, <3>3, <3>4, <3>5, EntryStep DEF DeleteStages
  <2> QED BY <1>2, <2>1, <2>2, <2>3 DEF DeleteStages
<1>12. CASE DeleteEntry(c, x)
  <2>1. /\ pc[x] = "d_delete" /\ gProcessTree = "live" /\ fault' = "none"
        /\ entries' = entries \ {Of(x)}
        /\ UNCHANGED <<run, target, gProcessTree, hooked, shielded>>
    BY <1>12 DEF DeleteEntry, cpuVars, otherVars
  <2>2. PICK s : Goto(x, s) /\ s = (CASE x \in Procs -> "d_release"
                                      [] x = Entry /\ hooked -> "undo"
                                      [] x = Entry /\ ~hooked -> "f_clear")
    BY <1>12 DEF DeleteEntry
  <2>3. CASE x \in Procs
    <3>1. s = "d_release" /\ Mode(x) = "tree"
      BY <1>4, <2>1, <2>2, <2>3 DEF Mode, Lockless
    <3> QED BY <1>4, <1>5, <2>1, <2>2, <2>3, <3>1, CallerStep DEF DeleteStages, ProcStages
  <2>4. CASE x = Entry
    <3>1. s = IF hooked THEN "undo" ELSE "f_clear"
      BY <1>1, <2>2, <2>4, ActorsAssumption DEF Types
    <3>2. pc'[Entry] = s
      BY <1>1, <2>2, <2>4, GotoStep
    <3>3. TreeStages'
      BY <1>1, <2>1, <2>4, <3>1, <3>2 DEF StageInv, TreeStages, CreateStages, DeleteStages
    <3>4. ~hooked' => \A p \in Procs : ~Notifying(p)
      BY <1>1, <2>1 DEF StageInv, Users
    <3>5. \A p \in Procs : pc[p] \in DeleteStages => hooked' /\ s \in Undoing
      BY <1>1, <2>1, <3>1 DEF StageInv, Users, Notifying, Undoing, DeleteStages
    <3>6. PastAt(pc[Entry], hooked) => PastAt(s, hooked')
      BY <2>1, <2>4, <3>1 DEF PastAt, DeleteStages
    <3>7. Mode(Entry) = "tree" \/ ~shielded
      BY <1>1, <2>1, <2>4 DEF Mode, Lockless, StageInv, Users, PastAt, DeleteStages
    <3> QED BY <1>7, <2>1, <2>2, <2>4, <3>3, <3>4, <3>5, <3>6, <3>7, EntryStep DEF DeleteStages
  <2> QED BY <1>2, <2>1, <2>3, <2>4 DEF DeleteStages
<1>13. CASE CreateFault(c, x) \/ DeleteFault(c, x)
  <2>1. /\ fault' \in {"assert_table", "tree"}
        /\ UNCHANGED <<pc, run, target, gProcessTree, entries, hooked, shielded>>
    BY <1>13 DEF CreateFault, DeleteFault, Fault, cpuVars, treeVars, otherVars
  <2>2. /\ pc[x] \in {"c_take", "d_take", "d_list", "d_delete"}
        /\ gProcessTree # "live" \/ (pc[x] \in {"d_list", "d_delete"} /\ Of(x) \notin entries)
    BY <1>13 DEF CreateFault, DeleteFault
  <2>3. pc[Entry] \in Undoing /\ hooked
    <3>1. CASE x \in Procs
      <4>1. hooked
        BY <1>5, <2>2, <3>1 DEF CreateStages, DeleteStages
      <4>2. CASE gProcessTree # "live"
        BY <1>1, <4>1, <4>2 DEF StageInv, TreeStages, Types, EntryStages, Undoing
      <4>3. CASE pc[x] \in {"d_list", "d_delete"} /\ Of(x) \notin entries
        BY <1>1, <1>4, <3>1, <4>3 DEF StageInv, Users, DeleteStages
      <4> QED BY <2>2, <4>1, <4>2, <4>3
    <3>2. CASE x = Entry
      BY <1>1, <1>2, <1>6, <2>2, <3>2, ActorsAssumption DEF StageInv, TreeStages, DeleteStages,
         CreateStages, Undoing
    <3> QED BY <1>3, <2>2, <3>1, <3>2 DEF CreateStages, DeleteStages
  <2>4. LockedUsersAreSafe'
    BY <2>1, <2>3 DEF LockedUsersAreSafe, Undoing, DeleteStages
  <2> QED BY <1>1, <2>1, <2>4 DEF StageInv, TreeStages, Users, Notifying
<1>14. CASE DeleteBlock(c, x)
  <2>1. UNCHANGED <<pc, run, target, gProcessTree, entries, hooked, shielded>> /\ fault' = "none"
    BY <1>14 DEF DeleteBlock, cpuVars, otherVars
  <2> QED BY <1>1, <2>1, NoFault DEF StageInv, TreeStages, Users, Notifying
<1> QED BY <1>8, <1>9, <1>10, <1>11, <1>12, <1>13, <1>14 DEF CallbackStep

(* PmInitializeProcessMonitor and PmFinalizeProcessMonitor.                *)
LEMMA MonitorKeepsStages ==
    ASSUME DriverInv, NEW c \in Cpus, On(c, Entry), MonitorStep(c), fault = "none",
           UNCHANGED <<noted, suspended, late>>
    PROVE  StageInv'
<1>1. LockInv /\ Types /\ StageInv
  BY DEF DriverInv, LockInv
<1>2. Entry \in Contexts
  BY DEF Contexts, Threads
<1>3. pc[Entry] # "up"
  BY DEF MonitorStep, PmInitialize, Query, Enumerate, ClearNext, UndoFree, UndoNull, Unhook,
     FinalizeTake, FinalizeFree
<1>4. ~hooked => \A p \in Procs : ~Notifying(p)
  BY <1>1 DEF StageInv, Users
<1>5. /\ \A p \in Procs : pc[p] \in DeleteStages => p \in entries \/ (hooked /\ pc[Entry] \in Undoing)
      /\ \A p \in Procs : ~Notifying(p) => pc[p] \notin DeleteStages
  BY <1>1 DEF StageInv, Users, Notifying, DeleteStages
<1>6. CASE PmInitialize(c)
  <2>1. PICK s \in {"query", "undo", "failed"} :
           /\ Goto(Entry, s)
           /\ s \in {"query", "undo"} => gProcessTree' = "live"
           /\ s = "query" => hooked'
           /\ s # "query" => hooked' = hooked
    BY <1>6 DEF PmInitialize
  <2>2. pc[Entry] = "procmon" /\ fault' = "none" /\ UNCHANGED <<run, target, entries, shielded>>
    BY <1>6 DEF PmInitialize, cpuVars
  <2>3. pc'[Entry] = s
    BY <1>1, <1>2, <2>1, GotoStep
  <2>4. TreeStages'
    BY <1>1, <2>1, <2>2, <2>3 DEF StageInv, TreeStages, CreateStages, DeleteStages
  <2>5. \A p \in Procs : ~Notifying(p)
    BY <1>1, <1>4, <2>2 DEF StageInv, TreeStages
  <2>6. PastAt(pc[Entry], hooked) => PastAt(pc'[Entry], hooked')
    BY <2>1, <2>2, <2>3 DEF PastAt, DeleteStages
  <2> QED BY <1>3, <1>5, <2>1, <2>2, <2>3, <2>4, <2>5, <2>6, EntryStep
<1>7. CASE Query(c)
  <2>1. PICK s \in {"enum", "undo"} : Goto(Entry, s)
    BY <1>7 DEF Query
  <2>2. /\ pc[Entry] = "query" /\ fault' = "none"
        /\ UNCHANGED <<run, target, gProcessTree, entries, hooked, shielded>>
    BY <1>7 DEF Query, cpuVars, treeVars
  <2>3. pc'[Entry] = s
    BY <1>1, <1>2, <2>1, GotoStep
  <2>4. TreeStages'
    BY <1>1, <2>1, <2>2, <2>3 DEF StageInv, TreeStages, CreateStages, DeleteStages
  <2>5. "query" \notin Undoing
    BY DEF Undoing, DeleteStages
  <2>6. PastAt(pc[Entry], hooked) => PastAt(pc'[Entry], hooked')
    BY <2>1, <2>2, <2>3 DEF PastAt, DeleteStages
  <2> QED BY <1>3, <1>4, <1>5, <2>1, <2>2, <2>3, <2>4, <2>5, <2>6, EntryStep
<1>8. CASE Enumerate(c)
  <2>1. PICK s \in {"monitored", "c_name"} : Goto(Entry, s)
    BY <1>8 DEF Enumerate
  <2>2. /\ pc[Entry] = "enum" /\ fault' = "none"
        /\ UNCHANGED <<run, gProcessTree, entries, hooked, shielded>>
    BY <1>8 DEF Enumerate, cpuVars, treeVars
  <2>3. pc'[Entry] = s
    BY <1>1, <1>2, <2>1, GotoStep
  <2>4. TreeStages'
    BY <1>1, <2>1, <2>2, <2>3 DEF StageInv, TreeStages, CreateStages, DeleteStages
  <2>5. "enum" \notin Undoing
    BY DEF Undoing, DeleteStages
  <2>6. PastAt(pc[Entry], hooked) => PastAt(pc'[Entry], hooked')
    BY <2>1, <2>2, <2>3 DEF PastAt, DeleteStages
  <2> QED BY <1>3, <1>4, <1>5, <2>1, <2>2, <2>3, <2>4, <2>5, <2>6, EntryStep
<1>9. CASE ClearNext(c)
  <2>1. /\ pc[Entry] \in {"undo", "f_clear"} /\ target' \in entries /\ Goto(Entry, "d_list")
        /\ fault' = "none" /\ UNCHANGED <<run, gProcessTree, entries, hooked, shielded>>
    BY <1>9 DEF ClearNext, treeVars, otherVars
  <2>2. pc'[Entry] = "d_list"
    BY <1>1, <1>2, <2>1, GotoStep
  <2>3. TreeStages'
    BY <1>1, <2>1, <2>2 DEF StageInv, TreeStages, CreateStages, DeleteStages
  <2>4. "d_list" \in Undoing
    BY DEF Undoing, DeleteStages
  <2>5. PastAt(pc[Entry], hooked) => PastAt(pc'[Entry], hooked')
    BY <1>1, <2>1, <2>2 DEF StageInv, TreeStages, PastAt, DeleteStages
  <2> QED BY <1>3, <1>4, <1>5, <2>1, <2>2, <2>3, <2>4, <2>5, EntryStep
<1>10. CASE UndoFree(c) \/ UndoNull(c) \/ FinalizeFree(c)
  <2>1. PICK s \in {"undo_null", "undo_hook", "f_release"} :
           /\ Goto(Entry, s) /\ pc[Entry] \in {"undo", "undo_null", "f_clear"}
           /\ (s = "f_release" <=> pc[Entry] = "f_clear")
    BY <1>10 DEF UndoFree, UndoNull, FinalizeFree
  <2>2. fault' = "none" /\ UNCHANGED <<run, entries, hooked, shielded>>
    BY <1>10 DEF UndoFree, UndoNull, FinalizeFree, cpuVars, otherVars
  <2>3. pc'[Entry] = s
    BY <1>1, <1>2, <2>1, GotoStep
  <2>4. TreeStages'
    BY <1>1, <2>1, <2>2, <2>3 DEF StageInv, TreeStages, CreateStages, DeleteStages
  <2>5. "undo_null" \in Undoing /\ "undo_hook" \in Undoing /\ "f_clear" \notin Undoing
    BY DEF Undoing, DeleteStages
  <2>6. PastAt(pc[Entry], hooked) => PastAt(pc'[Entry], hooked')
    BY <2>1, <2>2, <2>3 DEF PastAt, DeleteStages
  <2> QED BY <1>3, <1>4, <1>5, <2>1, <2>2, <2>3, <2>4, <2>5, <2>6, EntryStep
<1>11. CASE Unhook(c)
  <2>1. PICK s \in {"f_take", "failed"} : Goto(Entry, s) /\ (s = "f_take" <=> pc[Entry] = "f_unhook")
    BY <1>11 DEF Unhook
  <2>2. /\ pc[Entry] \in {"undo_hook", "f_unhook"} /\ hooked' = FALSE /\ fault' = "none"
        /\ \A p \in Procs : ~Notifying(p)
        /\ UNCHANGED <<run, target, gProcessTree, entries, shielded>>
    BY <1>11 DEF Unhook, treeVars
  <2>3. pc'[Entry] = s
    BY <1>1, <1>2, <2>1, GotoStep
  <2>4. TreeStages'
    BY <1>1, <2>1, <2>2, <2>3 DEF StageInv, TreeStages, CreateStages, DeleteStages
  <2>5. PastAt(pc[Entry], hooked) => PastAt(pc'[Entry], hooked')
    BY <2>1, <2>2, <2>3 DEF PastAt, DeleteStages
  <2> QED BY <1>3, <1>5, <2>1, <2>2, <2>3, <2>4, <2>5, EntryStep
<1>12. CASE FinalizeTake(c)
  <2>1. /\ pc[Entry] = "f_take" /\ Goto(Entry, "f_clear") /\ fault' = "none"
        /\ UNCHANGED <<run, target, gProcessTree, entries, hooked, shielded>>
    BY <1>12 DEF FinalizeTake, cpuVars, treeVars, otherVars
  <2>2. pc'[Entry] = "f_clear"
    BY <1>1, <1>2, <2>1, GotoStep
  <2>3. TreeStages'
    BY <1>1, <2>1, <2>2 DEF StageInv, TreeStages, CreateStages, DeleteStages
  <2>4. "f_take" \notin Undoing
    BY DEF Undoing, DeleteStages
  <2>5. PastAt(pc[Entry], hooked) => PastAt(pc'[Entry], hooked')
    BY <2>1, <2>2, <2>3 DEF PastAt, DeleteStages
  <2> QED BY <1>3, <1>4, <1>5, <2>1, <2>2, <2>3, <2>4, <2>5, EntryStep
<1> QED BY <1>6, <1>7, <1>8, <1>9, <1>10, <1>11, <1>12 DEF MonitorStep

(* The worker changes no entry, and is a user without the tree's lock.     *)
LEMMA WorkerKeepsStages ==
    ASSUME DriverInv, NEW c \in Cpus, WorkerStep(c), fault = "none", UNCHANGED <<noted, suspended, late>>
    PROVE  StageInv'
<1>1. LockInv /\ Types /\ StageInv
  BY DEF DriverInv, LockInv
<1>2. /\ UNCHANGED <<run, target, gProcessTree, entries, hooked, shielded>>
      /\ fault' \in {"none", "worker"}
  BY DEF WorkerStep, WorkerLookup, WorkerGiveUp, WorkerAllocate, WorkerInsert, WorkerNoRoom,
     WorkerCheck, WorkerFault, Fault, cpuVars, treeVars, otherVars
<1>3. UNCHANGED pc \/ \E s : Goto(Worker, s)
  BY DEF WorkerStep, WorkerLookup, WorkerGiveUp, WorkerAllocate, WorkerInsert, WorkerNoRoom,
     WorkerCheck, WorkerFault, Fault
<1>4. /\ pc'[Entry] = pc[Entry] /\ (\A p \in Procs : pc'[p] = pc[p])
      /\ \A d \in Cpus : pc'[d] = pc[d]
  BY <1>1, <1>3, ActorsAssumption DEF Goto, Types, Contexts, Threads
<1>5. LockedUsersAreSafe'
  BY <1>2 DEF LockedUsersAreSafe
<1> QED BY <1>1, <1>2, <1>4, <1>5, OthersStep DEF StageInv, Users, Notifying

(* Root mode looks up a thread while the hypervisor runs, and that is      *)
(* between DriverEntry and DriverUnload, or after a late resume.           *)
LEMMA RootKeepsStages ==
    ASSUME DriverInv, NEW c \in Cpus, On(c, c), RootStep(c), fault = "none", UNCHANGED <<noted, suspended, late>>
    PROVE  StageInv'
<1>1. LockInv /\ Types /\ StageInv
  BY DEF DriverInv, LockInv
<1>2. c \in Contexts /\ c # Entry /\ c # Worker /\ c \notin Procs
  BY ActorsAssumption DEF Contexts
<1>3. pc[c] # "guest" => shielded /\ (gProcessTree = "live" \/ late)
  BY <1>1 DEF StageInv, Users, TreeStages
<1>4. UNCHANGED <<run, target, gProcessTree, entries, hooked, shielded>>
  BY DEF RootStep, RootLookup, RootWalk, RootFault, Fault, cpuVars, treeVars, otherVars
<1>5. CASE RootFault(c)
  <2>1. pc[c] \in {"r_take", "r_list"}
    BY <1>5 DEF RootFault
  <2>2. Of(c) = run[c]
    BY <1>2 DEF Of
  <2>3. late
    BY <1>1, <1>3, <1>5, <2>1, <2>2 DEF RootFault, StageInv, Users
  <2>4. UNCHANGED pc /\ fault' = "root"
    BY <1>5 DEF RootFault, Fault
  <2>5. LockedUsersAreSafe'
    BY <2>3, <2>4 DEF LockedUsersAreSafe
  <2> QED BY <1>1, <1>4, <2>4, <2>5 DEF StageInv, TreeStages, Users, Notifying
<1>6. CASE RootLookup(c) \/ RootWalk(c)
  <2>1. PICK s \in {"r_list", "r_release", "r_unlist"} :
           Goto(c, s) /\ (s = "r_list" => run[c] \in entries) /\ (s = "r_unlist" => pc[c] = "r_list")
    BY <1>6 DEF RootLookup, RootWalk
  <2>2. pc[c] # "guest" /\ fault' = "none"
    BY <1>6 DEF RootLookup, RootWalk
  <2>3. pc'[c] = s /\ \A y \in Contexts : y # c => pc'[y] = pc[y]
    BY <1>1, <1>2, <2>1, GotoStep
  <2>4. /\ pc'[Entry] = pc[Entry] /\ (\A p \in Procs : pc'[p] = pc[p])
        /\ \A d \in Cpus : d # c => pc'[d] = pc[d]
    BY <1>2, <2>3 DEF Contexts, Threads
  <2>5. \A d \in Cpus : pc'[d] \in {"r_list", "r_unlist"} => run'[d] \in entries'
    BY <1>1, <1>4, <2>1, <2>3, <2>4 DEF StageInv, Users
  <2>6. \A d \in Cpus : pc'[d] # "guest" => shielded
    BY <1>1, <1>3, <2>2, <2>4 DEF StageInv, Users
  <2>7. ~hooked => \A p \in Procs : pc'[p] \in {"none", "user"}
    BY <1>1, <2>4 DEF StageInv, Users, Notifying
  <2>8. \A p \in Procs : pc'[p] \in DeleteStages => p \in entries' \/ (hooked /\ pc[Entry] \in Undoing)
    BY <1>1, <1>4, <2>4 DEF StageInv, Users
  <2> QED BY <1>4, <2>2, <2>4, <2>5, <2>6, <2>7, <2>8, NoFault, OthersStep
<1> QED BY <1>5, <1>6 DEF RootStep

(* Context switches, processes and the detector.                           *)
LEMMA EnvironmentKeepsStages ==
    ASSUME DriverInv, Environment, UNCHANGED <<noted, suspended, late>>
    PROVE  StageInv'
<1>1. LockInv /\ Types /\ StageInv /\ fault = "none"
  BY DEF DriverInv, LockInv, Environment
<1>2. ASSUME NEW c \in Cpus, NEW x \in Threads, Switch(c, x)
      PROVE  StageInv'
  <2>1. /\ run' = [run EXCEPT ![c] = x] /\ pc[c] = "guest" /\ fault' = "none"
        /\ UNCHANGED <<target, gProcessTree, entries, hooked, shielded>>
        /\ \/ Goto(c, "r_take") /\ shielded
           \/ UNCHANGED pc
    BY <1>1, <1>2 DEF Switch, treeVars, otherVars
  <2>2. c \in Contexts /\ c # Entry /\ c \notin Procs
    BY ActorsAssumption DEF Contexts
  <2>3. /\ pc'[c] \in {"guest", "r_take"} /\ (pc'[c] # "guest" => shielded)
        /\ \A y \in Contexts : y # c => pc'[y] = pc[y]
    BY <1>1, <2>1, <2>2, GotoStep
  <2>4. /\ pc'[Entry] = pc[Entry] /\ (\A p \in Procs : pc'[p] = pc[p])
        /\ \A d \in Cpus : d # c => pc'[d] = pc[d] /\ run'[d] = run[d]
    BY <1>1, <2>1, <2>2, <2>3 DEF Contexts, Threads, Types
  <2>5. \A d \in Cpus : pc'[d] \in {"r_list", "r_unlist"} => run'[d] \in entries'
    BY <1>1, <2>1, <2>3, <2>4 DEF StageInv, Users
  <2>6. \A d \in Cpus : pc'[d] # "guest" => shielded
    BY <1>1, <2>3, <2>4 DEF StageInv, Users
  <2>7. ~hooked => \A p \in Procs : pc'[p] \in {"none", "user"}
    BY <1>1, <2>4 DEF StageInv, Users, Notifying
  <2>8. \A p \in Procs : pc'[p] \in DeleteStages => p \in entries' \/ (hooked /\ pc[Entry] \in Undoing)
    BY <1>1, <2>1, <2>4 DEF StageInv, Users
  <2> QED BY <2>1, <2>4, <2>5, <2>6, <2>7, <2>8, NoFault, OthersStep
<1>3. ASSUME NEW p \in Procs, NEW s \in {"c_name", "user", "d_take", "none"}, Goto(p, s),
             s \in {"c_name", "d_take"} => hooked, fault' = "none",
             UNCHANGED <<target, gProcessTree, entries, hooked, shielded>>,
             \A d \in Cpus : pc[d] # "guest" => run'[d] = run[d]
      PROVE  StageInv'
  <2>1. p \in Contexts /\ p # Entry /\ p \notin Cpus
    BY ActorsAssumption DEF Contexts, Threads
  <2>2. pc'[p] = s /\ \A y \in Contexts : y # p => pc'[y] = pc[y]
    BY <1>1, <1>3, <2>1, GotoStep
  <2>3. /\ pc'[Entry] = pc[Entry] /\ (\A d \in Cpus : pc'[d] = pc[d])
        /\ \A q \in Procs : q # p => pc'[q] = pc[q]
    BY <2>1, <2>2 DEF Contexts, Threads
  <2>4. \A d \in Cpus : pc'[d] \in {"r_list", "r_unlist"} => run'[d] \in entries'
    BY <1>1, <1>3, <2>3 DEF StageInv, Users
  <2>5. \A d \in Cpus : pc'[d] # "guest" => shielded
    BY <1>1, <2>3 DEF StageInv, Users
  <2>6. ~hooked => \A q \in Procs : pc'[q] \in {"none", "user"}
    BY <1>1, <1>3, <2>2, <2>3 DEF StageInv, Users, Notifying
  <2>7. \A q \in Procs : pc'[q] \in DeleteStages => q \in entries' \/ (hooked /\ pc[Entry] \in Undoing)
    BY <1>1, <1>3, <2>2, <2>3 DEF StageInv, Users, DeleteStages
  <2> QED BY <1>3, <2>3, <2>4, <2>5, <2>6, <2>7, NoFault, OthersStep
<1>4. ASSUME NEW p \in Procs, ProcessStart(p)
      PROVE  StageInv'
  <2>1. /\ UNCHANGED <<run, target, gProcessTree, entries, hooked, shielded, fault>>
        /\ Goto(p, IF hooked THEN "c_name" ELSE "user")
    BY <1>4 DEF ProcessStart, cpuVars, treeVars
  <2>2. CASE hooked
    BY <1>1, <1>3, <2>1, <2>2
  <2>3. CASE ~hooked
    BY <1>1, <1>3, <2>1, <2>3
  <2> QED BY <2>2, <2>3
<1>5. ASSUME NEW c \in Cpus, NEW p \in Procs, ProcessExit(c, p)
      PROVE  StageInv'
  <2>1. /\ UNCHANGED <<target, gProcessTree, entries, hooked, shielded, fault>>
        /\ pc[c] = "guest"
    BY <1>5 DEF ProcessExit, treeVars, otherVars
  <2>2. \/ hooked /\ Goto(p, "d_take") /\ run' = run
        \/ Goto(p, "none") /\ run' = [run EXCEPT ![c] = Null]
    BY <1>5 DEF ProcessExit
  <2>3. \A d \in Cpus : pc[d] # "guest" => run'[d] = run[d]
    BY <1>1, <2>1, <2>2 DEF Types
  <2> QED BY <1>1, <1>3, <2>1, <2>2, <2>3
<1>6. ASSUME NEW c \in Cpus, NEW p \in Procs, Trim(c, p)
      PROVE  StageInv'
  <2>1. UNCHANGED <<pc, run, target, gProcessTree, entries, hooked, shielded, fault>>
    BY <1>6 DEF Trim, cpuVars, treeVars
  <2> QED BY <1>1, <2>1 DEF StageInv, TreeStages, Users, Notifying, LockedUsersAreSafe
<1> QED BY <1>2, <1>4, <1>5, <1>6 DEF Environment

(* DriverEntry, the service and DriverUnload.                              *)
LEMMA LifeKeepsStages ==
    ASSUME DriverInv, NEW c \in Cpus, LifeStep(c)
    PROVE  StageInv'
<1>1. LockInv /\ Types /\ StageInv /\ fault = "none"
  BY DEF DriverInv, LockInv, LifeStep
<1>2. Entry \in Contexts
  BY DEF Contexts, Threads
<1>3. ~hooked => \A p \in Procs : ~Notifying(p)
  BY <1>1 DEF StageInv, Users
<1>4. pc[Entry] \notin Undoing => \A p \in Procs : pc[p] \in DeleteStages => p \in entries
  BY <1>1 DEF StageInv, Users
<1>5. CASE Detect \/ Acquire
  <2>1. /\ UNCHANGED <<pc, run, target, gProcessTree, entries, hooked, shielded, fault, suspended, late>>
        /\ pc[Entry] = "load"
    BY <1>5 DEF Detect, Acquire, vars, cpuVars, treeVars, otherVars
  <2> QED BY <1>1, <2>1 DEF StageInv, TreeStages, Users, Notifying, LockedUsersAreSafe
<1>6. CASE StartShield \/ StopShield
  <2>1. /\ UNCHANGED <<pc, run, target, gProcessTree, entries, hooked, fault, noted, suspended, late>>
        /\ pc[Entry] = "up"
        /\ shielded' \/ InGuest
    BY <1>6 DEF StartShield, StopShield, Shield, cpuVars, treeVars, driverVars
  <2> QED BY <1>1, <2>1 DEF StageInv, TreeStages, Users, Notifying, LockedUsersAreSafe, InGuest,
     PastAt
<1>7. ASSUME NEW s \in {"failed", "returned", "procmon", "up", "gone", "f_unhook", "down"},
             Goto(Entry, s), s = "procmon" => pc[Entry] = "load",
             s = "up" => pc[Entry] = "monitored" /\ "procmon" \in noted',
             s = "f_unhook" => pc[Entry] = "stopped",
             pc[Entry] = "stopped" => s = "f_unhook",
             pc[Entry] = "down" => s \in {"down", "gone"},
             pc[Entry] = "load" => s \in {"failed", "returned", "procmon"},
             pc[Entry] = "monitored" => s = "up",
             pc[Entry] = "failed" => s \in {"failed", "returned"},
             pc[Entry] \in {"load", "monitored", "failed", "stopped", "down"},
             fault' = "none",
             UNCHANGED <<run, target, gProcessTree, entries, hooked, shielded, suspended, late>>
      PROVE  StageInv'
  <2>1. pc'[Entry] = s
    BY <1>1, <1>2, <1>7, GotoStep
  <2>2. TreeStages'
    BY <1>1, <1>7, <2>1 DEF StageInv, TreeStages, CreateStages, DeleteStages
  <2>3. pc[Entry] \notin Undoing /\ pc[Entry] # "up"
    BY <1>7 DEF Undoing, DeleteStages
  <2>4. PastAt(pc[Entry], hooked) => PastAt(s, hooked')
    BY <1>7 DEF PastAt, DeleteStages
  <2>5. \A p \in Procs : pc[p] \in DeleteStages => p \in entries'
    BY <1>4, <1>7, <2>3
  <2> QED BY <1>3, <1>7, <2>2, <2>3, <2>4, <2>5, EntryStep
<1>8. CASE Refused \/ RegisterPower \/ Started
  <2>1. PICK s \in {"failed", "returned", "procmon", "up"} :
           /\ EntryGoto(s) /\ (s = "procmon" => pc[Entry] = "load")
           /\ (s = "up" => "procmon" \in noted')
           /\ (s = "up" <=> pc[Entry] = "monitored")
    BY <1>8 DEF Refused, RegisterPower, Started
  <2>2. pc[Entry] \in {"load", "monitored"}
    BY <1>8 DEF Refused, RegisterPower, Started
  <2>3. /\ Goto(Entry, s) /\ fault' = "none"
        /\ UNCHANGED <<run, target, gProcessTree, entries, hooked, shielded, suspended, late>>
    BY <1>1, <1>8, <2>1 DEF EntryGoto, cpuVars, treeVars, otherVars, Refused, RegisterPower, Started,
       driverVars
  <2> QED BY <1>7, <2>1, <2>2, <2>3
<1>9. CASE FinalizeShield
  <2>1. PICK s \in {"f_unhook"} : EntryGoto(s)
    BY <1>1, <1>9 DEF FinalizeShield, StageInv, TreeStages
  <2>2. pc[Entry] = "stopped" /\ UNCHANGED <<suspended, late>>
    BY <1>9 DEF FinalizeShield
  <2>3. /\ Goto(Entry, s) /\ fault' = "none"
        /\ UNCHANGED <<run, target, gProcessTree, entries, hooked, shielded>>
    BY <1>1, <2>1 DEF EntryGoto, cpuVars, treeVars, otherVars
  <2> QED BY <1>7, <2>1, <2>2, <2>3
<1>10. CASE GiveBack
  <2>1. PICK s \in {"failed", "down", "returned", "gone"} :
           Goto(Entry, s) /\ (s \in {"failed", "returned"} <=> pc[Entry] = "failed")
    BY <1>10 DEF GiveBack, Releasing
  <2>2. pc[Entry] \in {"failed", "down"}
    BY <1>10 DEF GiveBack, Releasing
  <2>3. /\ fault' = "none"
        /\ UNCHANGED <<run, target, gProcessTree, entries, hooked, shielded, suspended, late>>
    BY <1>1, <1>10 DEF GiveBack, cpuVars, treeVars
  <2> QED BY <1>7, <2>1, <2>2, <2>3
<1>11. CASE Unload
  <2>1. /\ pc[Entry] = "up" /\ Goto(Entry, "stopped") /\ fault' = "none" /\ shielded' = FALSE
        /\ UNCHANGED <<run, target, gProcessTree, entries, hooked, noted, suspended, late>>
        /\ shielded => InGuest
    BY <1>1, <1>11 DEF Unload, Shield, cpuVars, treeVars, driverVars
  <2>2. pc'[Entry] = "stopped"
    BY <1>1, <1>2, <2>1, GotoStep
  <2>3. TreeStages'
    BY <1>1, <2>1, <2>2 DEF StageInv, TreeStages, CreateStages, DeleteStages
  <2>4. pc[Entry] \notin Undoing /\ PastAt("stopped", hooked')
    BY <2>1 DEF Undoing, DeleteStages, PastAt
  <2>5. shielded' # shielded => InGuest /\ ~shielded'
    BY <1>1, <2>1 DEF Types
  <2> QED BY <1>3, <1>4, <2>1, <2>3, <2>4, <2>5, EntryStep
<1>12. CASE UnloadFault
  <2>1. UNCHANGED <<pc, run, target, gProcessTree, entries, hooked, shielded, noted, suspended, late>>
    BY <1>12 DEF UnloadFault, Fault, cpuVars, treeVars, otherVars, driverVars
  <2>2. LockedUsersAreSafe'
    BY <1>12 DEF UnloadFault, Fault, LockedUsersAreSafe
  <2> QED BY <1>1, <2>1, <2>2 DEF StageInv, TreeStages, Users, Notifying
<1> QED BY <1>5, <1>6, <1>8, <1>9, <1>10, <1>11, <1>12 DEF LifeStep

(* The power callback: what a resume starts after DriverUnload's stop, it  *)
(* starts late.                                                            *)
LEMMA PowerKeepsStages ==
    ASSUME DriverInv, PowerStep
    PROVE  StageInv'
<1>1. LockInv /\ Types /\ StageInv /\ fault = "none"
  BY DEF DriverInv, LockInv, PowerStep
<1>2. UNCHANGED <<pc, run, target, gProcessTree, entries, hooked, fault, noted>>
  BY DEF PowerStep, SuspendShield, ResumeShield, Shield, cpuVars, treeVars
<1>3. /\ shielded' \/ suspended' => shielded \/ suspended
      /\ shielded' => pc[Entry] = "up" \/ late'
      /\ shielded' \/ InGuest
  <2>1. CASE SuspendShield
    BY <2>1 DEF SuspendShield, Shield
  <2>2. CASE ResumeShield
    <3>1. InGuest
      BY <1>1, <2>2 DEF ResumeShield, StageInv, Users, InGuest
    <3>2. suspended /\ (shielded' => late' = (pc[Entry] # "up")) /\ ~suspended'
      BY <1>1, <2>2 DEF ResumeShield, Shield
    <3> QED BY <3>1, <3>2
  <2> QED BY <2>1, <2>2 DEF PowerStep
<1>4. Users'
  BY <1>1, <1>2, <1>3 DEF StageInv, Users, Notifying, InGuest
<1> QED BY <1>1, <1>2, <1>4, NoFault DEF StageInv, TreeStages

(* Both invariants hold together.                                          *)
LEMMA DriverInvariant == DSpec => []DriverInv
<1>1. DInit => DriverInv
  <2> SUFFICES ASSUME DInit PROVE StageInv
    BY InitLocks DEF DriverInv
  <2>1. /\ \A p \in Procs : pc[p] = "none"
        /\ \A c \in Cpus : pc[c] = "guest"
        /\ pc[Entry] = "load"
    BY ActorsAssumption DEF DInit, Init, Contexts, Threads
  <2>2. /\ ~hooked /\ entries = {} /\ gProcessTree = "null" /\ ~shielded /\ fault = "none"
        /\ ~suspended
    BY DEF DInit, Init
  <2>3. TreeStages
    BY <2>1, <2>2 DEF TreeStages, CreateStages, DeleteStages
  <2>4. Users
    BY <2>1, <2>2 DEF Users, Notifying, DeleteStages
  <2> QED BY <2>2, <2>3, <2>4 DEF StageInv, LockedUsersAreSafe
<1>2. DriverInv /\ [DNext]_allVars => DriverInv'
  <2> SUFFICES ASSUME DriverInv, [DNext]_allVars PROVE StageInv'
    BY NextKeepsLocks DEF DriverInv, StageInv
  <2>1. CASE UNCHANGED allVars
    <3>1. /\ UNCHANGED <<pc, run, target, gProcessTree, entries, hooked, shielded, fault>>
          /\ UNCHANGED <<noted, suspended, late>>
      BY <2>1 DEF allVars, vars, cpuVars, treeVars, otherVars, driverVars
    <3> QED BY <3>1 DEF DriverInv, StageInv, TreeStages, Users, Notifying, LockedUsersAreSafe
  <2>2. ASSUME NEW c \in Cpus, Step(c), UNCHANGED driverVars
        PROVE  StageInv'
    <3>1. PICK x \in Contexts : /\ On(c, x)
                                /\ \/ ReleaseStep(c, x)
                                   \/ CallbackStep(c, x)
                                   \/ x = Entry /\ MonitorStep(c)
                                   \/ x = Worker /\ WorkerStep(c)
                                   \/ x = c /\ RootStep(c)
      BY <2>2 DEF Step
    <3>2. fault = "none" /\ UNCHANGED <<noted, suspended, late>>
      BY <2>2 DEF Step, driverVars
    <3> QED BY <3>1, <3>2, ReleaseKeepsStages, CallbackKeepsStages, MonitorKeepsStages,
               WorkerKeepsStages, RootKeepsStages
  <2>3. CASE Environment /\ UNCHANGED driverVars
    BY <2>3, EnvironmentKeepsStages DEF driverVars
  <2> QED BY <2>1, <2>2, <2>3, LifeKeepsStages, PowerKeepsStages DEF DNext, CpuStep
<1> QED BY <1>1, <1>2, PTL DEF DSpec

(* Whoever takes gProcessTreeLock finds the tree and the entries it looks  *)
(* up alive, whatever number of processes start and exit meanwhile, unless *)
(* PmInitializeProcessMonitor fails after it has registered its routine or *)
(* a resume starts the shield after DriverUnload has stopped it.           *)
THEOREM LockedUsersFindTheTree == DSpec => []LockedUsersAreSafe
<1>1. DriverInv => LockedUsersAreSafe
  BY DEF DriverInv, StageInv
<1> QED BY <1>1, DriverInvariant, PTL

(* Whoever holds a lock is on a processor at HIGH_LEVEL, on any number of  *)
(* processors and whatever the other contexts do; outside the locks the    *)
(* IRQL is PASSIVE_LEVEL again (spinlock.c:70-101).                        *)
THEOREM LocksKeepIrql == DSpec => []HoldersRunAtHigh
<1>1. LockInv => HoldersRunAtHigh
  <2> SUFFICES ASSUME LockInv PROVE HoldersRunAtHigh
    OBVIOUS
  <2>1. ASSUME NEW x \in Contexts, HasLock(x)
        PROVE  \E c \in Cpus : On(c, x) /\ irql[c] = HIGH
    <3>1. PICK l \in Locks : lock[l].held /\ lock[l].Owner = x
      BY <2>1 DEF HasLock
    <3>2. Mode(x) \in {"tree", "wait2", "both", "list"}
      BY <3>1 DEF LockInv, Owned, Locks
    <3>3. \E c \in Cpus : On(c, x)
      <4>1. CASE x \in Threads
        BY <3>2, <4>1 DEF LockInv, Placed, On
      <4>2. CASE x \in Cpus
        <5>1. pc[x] # "guest"
          BY <3>2 DEF Mode
        <5> QED BY <4>2, <5>1 DEF On
      <4> QED BY <4>1, <4>2 DEF Contexts
    <3> QED BY <3>2, <3>3, CurrentLevel
  <2>2. ASSUME NEW c \in Cpus, pc[c] = "guest",
               run[c] = Null \/ pc[run[c]] \in {"user", "idle", "enum", "up"}
        PROVE  irql[c] = PASSIVE
    <3>1. CASE run[c] = Null
      BY <2>2, <3>1 DEF LockInv, Levels, LevelOf, Current
    <3>2. CASE run[c] # Null
      <4>1. Current(c) = run[c]
        BY <2>2 DEF Current
      <4>2. Mode(run[c]) = "low"
        BY <2>2, <3>2 DEF Mode
      <4> QED BY <3>2, <4>1, <4>2 DEF LockInv, Levels, LevelOf
    <3> QED BY <3>1, <3>2
  <2> QED BY <2>1, <2>2 DEF HoldersRunAtHigh
<1>2. DriverInv => LockInv
  BY DEF DriverInv
<1> QED BY <1>1, <1>2, DriverInvariant, PTL

-----------------------------------------------------------------------------
(* What DriverEntry holds in each stage, how much of it has been given     *)
(* back, and what is left of the tree once it has been deleted.            *)
Held ==
    /\ res \subseteq Resources /\ res \ {"pool", "wpp"} \subseteq noted
    /\ undone \in 0 .. 7 /\ \A i \in 1 .. undone : Releases[i] \notin res
    /\ undone # 0 => pc[Entry] \in {"failed", "down", "returned", "gone"}
    /\ undone >= 5 => ~shielded
    /\ pc[Entry] = "load" => \/ res = {}
                             \/ "wpp" \in res /\ ("pool" \notin res => res \subseteq {"wpp"})
    /\ pc[Entry] \notin {"load", "returned", "gone"} => "wpp" \in res /\ (undone < 6 => "pool" \in res)
    /\ pc[Entry] \in {"failed", "down"} => undone < 7
    /\ pc[Entry] = "returned" => undone = 7 \/ (undone = 0 /\ res \subseteq {"wpp"})
    /\ pc[Entry] = "gone" => undone = 7

Deleted ==
    /\ gProcessTree # "live" => entries = {}
    /\ pc[Entry] = "undo_null" => gProcessTree # "live"
    /\ pc[Entry] \in {"undo_hook", "failed", "f_release", "down", "returned", "gone"}
          => gProcessTree = "null"

LeftInv == Held /\ Deleted /\ (fault = "unload" => late)

(* The resources, in the order in which they are asked for and in that in  *)
(* which they are given back.                                              *)
LEMMA MandatoryResources ==
    /\ DOMAIN Mandatory = 1 .. 5
    /\ Mandatory[1] = "pool" /\ Mandatory[2] = "mailbox" /\ Mandatory[3] = "key"
    /\ Mandatory[4] = "device" /\ Mandatory[5] = "link"
    /\ Resources = {"pool", "mailbox", "key", "device", "link", "wpp", "power"}
<1>1. /\ DOMAIN Mandatory = 1 .. 5
      /\ Mandatory[1] = "pool" /\ Mandatory[2] = "mailbox" /\ Mandatory[3] = "key"
      /\ Mandatory[4] = "device" /\ Mandatory[5] = "link"
  BY DEF Mandatory
<1>2. {Mandatory[i] : i \in DOMAIN Mandatory} = {"pool", "mailbox", "key", "device", "link"}
  BY <1>1
<1> QED BY <1>1, <1>2 DEF Resources

LEMMA ReleasedResources ==
    /\ Len(Releases) = 7
    /\ Releases[1] = "power" /\ Releases[2] = "link" /\ Releases[3] = "device"
    /\ Releases[4] = "key" /\ Releases[5] = "mailbox" /\ Releases[6] = "pool"
    /\ Releases[7] = "wpp"
BY DEF Releases

(* A step that leaves the place of DriverEntry.                            *)
LEMMA OthersLeave ==
    ASSUME LeftInv, UNCHANGED <<res, noted, undone, late, shielded, hooked, gProcessTree>>,
           pc'[Entry] = pc[Entry],
           entries' = entries \/ gProcessTree = "live",
           fault' # "unload"
    PROVE  LeftInv'
BY DEF LeftInv, Held, Deleted

(* A step of DriverEntry or DriverUnload from one stage to the next.       *)
LEMMA EntryLeaves ==
    ASSUME LeftInv, UNCHANGED <<res, noted, undone, late, shielded>>, NEW s, pc'[Entry] = s,
           pc[Entry] \notin {"load", "failed", "down", "returned", "gone"},
           s \notin {"load", "returned", "gone"},
           fault' # "unload",
           Deleted'
    PROVE  LeftInv'
BY DEF LeftInv, Held

(* The steps of the contexts.                                              *)
LEMMA StepLeaves ==
    ASSUME DriverInv, LeftInv, NEW c \in Cpus, NEW x \in Contexts, On(c, x), fault = "none",
           \/ ReleaseStep(c, x)
           \/ CallbackStep(c, x)
           \/ x = Entry /\ MonitorStep(c)
           \/ x = Worker /\ WorkerStep(c)
           \/ x = c /\ RootStep(c),
           UNCHANGED driverVars
    PROVE  LeftInv'
<1>1. LockInv /\ Types /\ TreeStages
  BY DEF DriverInv, LockInv, StageInv
<1>2. UNCHANGED <<res, noted, undone, late>>
  BY DEF driverVars
<1>4. Entry \in Contexts /\ Entry \notin Cpus /\ Entry # Worker /\ Entry \notin Procs
  BY ActorsAssumption DEF Contexts, Threads
<1>5. CASE ReleaseStep(c, x)
  <2>1. UNCHANGED <<hooked, gProcessTree, entries, shielded, fault>> /\ pc[x] \in ReleaseStages
    BY <1>5 DEF ReleaseStep, treeVars, otherVars
  <2>2. PICK s : Goto(x, s) /\ s = (CASE pc[x] = "c_release" -> IF x = Entry THEN "enum" ELSE "user"
                   [] pc[x] = "d_release" -> "none"
                   [] pc[x] = "f_release" -> "down"
                   [] pc[x] = "w_release" -> "w_check"
                   [] pc[x] = "r_release" -> "guest"
                   [] pc[x] = "d_unlist" -> "d_delete"
                   [] pc[x] = "r_unlist" -> "r_release")
    BY <1>5 DEF ReleaseStep
  <2>3. pc'[x] = s /\ \A y \in Contexts : y # x => pc'[y] = pc[y]
    BY <1>1, <2>2, GotoStep
  <2>4. CASE x # Entry
    BY <1>2, <1>4, <2>1, <2>3, <2>4, OthersLeave
  <2>5. CASE x = Entry
    <3>1. pc[x] \in {"c_release", "f_release", "d_unlist"}
      BY <1>1, <1>4, <2>1, <2>5, KindOfStage DEF ReleaseStages, Threads
    <3>2. /\ pc[x] = "c_release" => s = "enum"
          /\ pc[x] = "f_release" => s = "down"
          /\ pc[x] = "d_unlist" => s = "d_delete"
      BY <2>2, <2>5
    <3>3. Deleted'
      BY <2>1, <2>3, <2>5, <3>1, <3>2 DEF LeftInv, Deleted
    <3>4. /\ s \notin {"load", "returned", "gone"}
          /\ pc[Entry] \notin {"load", "failed", "down", "returned", "gone"}
      BY <2>5, <3>1, <3>2
    <3> QED BY <1>2, <2>1, <2>3, <2>5, <3>3, <3>4, EntryLeaves
  <2> QED BY <2>4, <2>5
<1>6. CASE CallbackStep(c, x)
  <2>1. /\ UNCHANGED <<hooked, gProcessTree, shielded>> /\ fault' # "unload"
        /\ (entries' = entries \/ gProcessTree = "live")
    BY <1>6 DEF CallbackStep, CreateDescribe, CreateInsert, CreateNoNode, CreateFault, DeleteLookup,
       DeleteCleanup, DeleteBlock, DeleteEntry, DeleteFault, Fault, treeVars, otherVars
  <2>2. UNCHANGED pc \/ \E s : Goto(x, s)
    BY <1>6 DEF CallbackStep, CreateDescribe, CreateInsert, CreateNoNode, CreateFault, DeleteLookup,
       DeleteCleanup, DeleteBlock, DeleteEntry, DeleteFault, Fault
  <2>3. CASE x # Entry
    <3>1. pc'[Entry] = pc[Entry]
      BY <1>1, <1>4, <2>2, <2>3, GotoStep
    <3> QED BY <1>2, <2>1, <3>1, OthersLeave
  <2>4. CASE x = Entry
    <3>1. \/ UNCHANGED pc
          \/ \E s : Goto(Entry, s) /\ \/ pc[Entry] \in CreateStages /\ s \in {"c_take", "enum", "c_release"}
                                      \/ pc[Entry] \in DeleteStages /\ s = "d_unlist"
                                      \/ pc[Entry] \in DeleteStages /\ hooked /\ s = "undo"
                                      \/ pc[Entry] \in DeleteStages /\ ~hooked /\ s = "f_clear"
      <4>1. pc[Entry] # "d_take"
        BY <1>1, <1>4, KindOfStage
      <4>2. CASE CreateDescribe(c, x) \/ CreateInsert(c, x) \/ CreateNoNode(c, x)
        BY <2>4, <4>2 DEF CreateDescribe, CreateInsert, CreateNoNode, CreateStages
      <4>3. CASE DeleteCleanup(c, x)
        BY <2>4, <4>3 DEF DeleteCleanup, DeleteStages
      <4>4. CASE DeleteEntry(c, x)
        <5>1. PICK s : Goto(x, s) /\ s = (CASE x \in Procs -> "d_release"
                                      [] x = Entry /\ hooked -> "undo"
                                      [] x = Entry /\ ~hooked -> "f_clear")
          BY <4>4 DEF DeleteEntry
        <5>2. s = IF hooked THEN "undo" ELSE "f_clear"
          BY <1>1, <1>4, <2>4, <5>1 DEF Types
        <5>3. pc[Entry] \in DeleteStages
          BY <2>4, <4>4 DEF DeleteEntry, DeleteStages
        <5> QED BY <2>4, <5>1, <5>2, <5>3
      <4>5. CASE CreateFault(c, x) \/ DeleteFault(c, x) \/ DeleteBlock(c, x)
        BY <4>5 DEF CreateFault, DeleteFault, DeleteBlock, Fault
      <4> QED BY <1>6, <2>4, <4>1, <4>2, <4>3, <4>4, <4>5 DEF CallbackStep, DeleteLookup
    <3>2. CASE UNCHANGED pc
      BY <1>2, <2>1, <3>2, OthersLeave
    <3>3. ASSUME NEW s, Goto(Entry, s),
                 \/ pc[Entry] \in CreateStages /\ s \in {"c_take", "enum", "c_release"}
                 \/ pc[Entry] \in DeleteStages /\ s = "d_unlist"
                 \/ pc[Entry] \in DeleteStages /\ hooked /\ s = "undo"
                 \/ pc[Entry] \in DeleteStages /\ ~hooked /\ s = "f_clear"
          PROVE  LeftInv'
      <4>1. pc'[Entry] = s
        BY <1>1, <1>4, <3>3, GotoStep
      <4>2. Deleted'
        BY <2>1, <3>3, <4>1 DEF LeftInv, Deleted
      <4>3. pc[Entry] \notin {"load", "failed", "down", "returned", "gone"}
        BY <3>3 DEF DeleteStages, CreateStages
      <4> QED BY <1>2, <2>1, <3>3, <4>1, <4>2, <4>3, EntryLeaves
    <3> QED BY <3>1, <3>2, <3>3
  <2> QED BY <2>3, <2>4
<1>7. CASE x = Entry /\ MonitorStep(c)
  <2>1. entries' = entries /\ shielded' = shielded /\ fault' # "unload"
    BY <1>7 DEF MonitorStep, PmInitialize, Query, Enumerate, ClearNext, UndoFree, UndoNull, Unhook,
       FinalizeTake, FinalizeFree, treeVars, otherVars
  <2>2. PICK s :
          /\ Goto(Entry, s)
          /\ \/ pc[Entry] = "procmon" /\ s = "query" /\ gProcessTree' = "live"
             \/ pc[Entry] = "procmon" /\ s = "undo" /\ gProcessTree' = "live"
             \/ pc[Entry] = "procmon" /\ s = "failed" /\ gProcessTree' = gProcessTree
             \/ pc[Entry] = "query" /\ s \in {"enum", "undo"} /\ gProcessTree' = gProcessTree
             \/ pc[Entry] = "enum" /\ s \in {"monitored", "c_name"} /\ gProcessTree' = gProcessTree
             \/ /\ pc[Entry] \in {"undo", "f_clear"} /\ s = "d_list"
                /\ UNCHANGED <<gProcessTree, hooked>> /\ entries # {}
             \/ pc[Entry] = "undo" /\ s = "undo_null" /\ gProcessTree' = "freed" /\ entries = {}
             \/ pc[Entry] = "undo_null" /\ s = "undo_hook" /\ gProcessTree' = "null" /\ hooked' = hooked
             \/ pc[Entry] = "undo_hook" /\ s = "failed" /\ gProcessTree' = gProcessTree
             \/ pc[Entry] = "f_unhook" /\ s = "f_take" /\ gProcessTree' = gProcessTree
             \/ pc[Entry] = "f_take" /\ s = "f_clear" /\ gProcessTree' = gProcessTree
             \/ pc[Entry] = "f_clear" /\ s = "f_release" /\ gProcessTree' = "null" /\ entries = {}
    BY <1>7 DEF MonitorStep, PmInitialize, Query, Enumerate, ClearNext, UndoFree, UndoNull, Unhook,
       FinalizeTake, FinalizeFree, treeVars, otherVars
  <2>3. pc'[Entry] = s
    BY <1>1, <1>4, <2>2, GotoStep
  <2>4. Deleted'
    BY <1>1, <2>1, <2>2, <2>3 DEF LeftInv, Deleted, TreeStages
  <2>5. /\ s \notin {"load", "returned", "gone"}
        /\ pc[Entry] \notin {"load", "failed", "down", "returned", "gone"}
    BY <2>2
  <2> QED BY <1>2, <2>1, <2>3, <2>4, <2>5, EntryLeaves
<1>8. CASE x = Worker /\ WorkerStep(c)
  <2>1. UNCHANGED <<hooked, gProcessTree, entries, shielded>> /\ fault' # "unload" /\ (UNCHANGED pc \/ \E s : Goto(Worker, s))
    BY <1>8 DEF WorkerStep, WorkerLookup, WorkerGiveUp, WorkerAllocate, WorkerInsert, WorkerNoRoom,
       WorkerCheck, WorkerFault, Fault, treeVars, otherVars
  <2>2. pc'[Entry] = pc[Entry]
    BY <1>1, <1>4, <1>8, <2>1, GotoStep
  <2> QED BY <1>2, <2>1, <2>2, OthersLeave
<1>9. CASE x = c /\ RootStep(c)
  <2>1. UNCHANGED <<hooked, gProcessTree, entries, shielded>> /\ fault' # "unload" /\ (UNCHANGED pc \/ \E s : Goto(c, s))
    BY <1>9 DEF RootStep, RootLookup, RootWalk, RootFault, Fault, treeVars, otherVars
  <2>2. pc'[Entry] = pc[Entry]
    BY <1>1, <1>4, <1>9, <2>1, GotoStep
  <2> QED BY <1>2, <2>1, <2>2, OthersLeave
<1> QED BY <1>5, <1>6, <1>7, <1>8, <1>9

(* The system around the driver.                                           *)
LEMMA EnvironmentLeaves ==
    ASSUME DriverInv, LeftInv, Environment, UNCHANGED driverVars
    PROVE  LeftInv'
<1>1. LockInv /\ Types
  BY DEF DriverInv, LockInv
<1>2. Entry \in Contexts /\ Entry \notin Cpus /\ Entry \notin Procs
  BY ActorsAssumption DEF Contexts, Threads
<1>3. /\ UNCHANGED <<res, noted, undone, late, hooked, gProcessTree, entries, shielded>>
      /\ fault' # "unload"
  BY DEF Environment, Switch, ProcessStart, ProcessExit, Trim, treeVars, otherVars, driverVars
<1>4. UNCHANGED pc \/ \E x \in Cpus \cup Procs : \E s : Goto(x, s)
  BY DEF Environment, Switch, ProcessStart, ProcessExit, Trim
<1>5. pc'[Entry] = pc[Entry]
  BY <1>1, <1>2, <1>4, GotoStep DEF Contexts, Threads
<1> QED BY <1>3, <1>5, OthersLeave

(* DriverEntry asks for the pool first, and gives it back last but one.    *)
LEMMA LifeLeaves ==
    ASSUME DriverInv, LeftInv, NEW c \in Cpus, LifeStep(c)
    PROVE  LeftInv'
<1>1. LockInv /\ Types /\ TreeStages /\ Users /\ fault = "none"
  BY DEF DriverInv, LockInv, StageInv, LifeStep
<1>2. Entry \in Contexts
  BY DEF Contexts, Threads
<1>3. ASSUME NEW s, Goto(Entry, s)
      PROVE  pc'[Entry] = s
  BY <1>1, <1>2, <1>3, GotoStep
<1>4. CASE Detect
  <2>1. /\ pc[Entry] = "load" /\ res' = {"wpp"} /\ fault' = fault
        /\ UNCHANGED <<pc, hooked, gProcessTree, entries, noted, undone, shielded>>
    BY <1>4 DEF Detect, vars, treeVars, otherVars
  <2>2. Held'
    BY <2>1, MandatoryResources DEF LeftInv, Held
  <2> QED BY <1>1, <2>1, <2>2 DEF LeftInv, Deleted
<1>5. CASE Acquire
  <2>1. /\ pc[Entry] = "load" /\ res # {} /\ fault' = fault
        /\ UNCHANGED <<pc, hooked, gProcessTree, entries, undone, shielded>>
    BY <1>5 DEF Acquire, vars, treeVars, otherVars
  <2>2. PICK i \in 1 .. 5 : /\ Wanted(Mandatory[i]) /\ res' = res \cup {Mandatory[i]}
                            /\ noted' = noted \cup ({Mandatory[i]} \ {"pool"})
    BY <1>5, MandatoryResources DEF Acquire
  <2>3. PICK k \in 1 .. 5 : Mandatory[i] = Mandatory[k] /\ \A j \in 1 .. k - 1 : Mandatory[j] \in res
    BY <2>2, MandatoryResources DEF Wanted
  <2>4. k # 1 => "pool" \in res
    BY <2>3, MandatoryResources
  <2>5. "pool" \in res'
    BY <2>2, <2>3, <2>4, MandatoryResources
  <2>6. Mandatory[i] \in {"pool", "mailbox", "key", "device", "link"}
    BY MandatoryResources
  <2>7. undone = 0 /\ "wpp" \in res
    BY <2>1 DEF LeftInv, Held
  <2>8. /\ res' \subseteq Resources /\ res' \ {"pool", "wpp"} \subseteq noted' /\ "wpp" \in res'
    BY <2>2, <2>6, <2>7, MandatoryResources DEF LeftInv, Held
  <2>9. Held'
    BY <2>1, <2>5, <2>7, <2>8 DEF LeftInv, Held
  <2> QED BY <1>1, <2>1, <2>9 DEF LeftInv, Deleted
<1>6. CASE Refused
  <2>1. /\ pc[Entry] = "load" /\ fault' = fault /\ res # {}
        /\ UNCHANGED <<res, noted, undone, shielded, hooked, gProcessTree, entries>>
        /\ Goto(Entry, IF "pool" \in res THEN "failed" ELSE "returned")
    BY <1>6 DEF Refused, EntryGoto, driverVars, treeVars, otherVars
  <2>2. pc'[Entry] = IF "pool" \in res THEN "failed" ELSE "returned"
    BY <1>3, <2>1
  <2>3. Held'
    BY <2>1, <2>2 DEF LeftInv, Held
  <2> QED BY <1>1, <2>1, <2>2, <2>3 DEF LeftInv, Deleted, TreeStages
<1>7. CASE RegisterPower
  <2>1. /\ pc[Entry] = "load" /\ fault' = fault
        /\ UNCHANGED <<undone, shielded, hooked, gProcessTree, entries>> /\ Goto(Entry, "procmon")
    BY <1>7 DEF RegisterPower, EntryGoto, treeVars, otherVars
  <2>2. PICK got \in SUBSET {"power"} : res' = res \cup got /\ noted' = noted \cup got
    BY <1>7 DEF RegisterPower
  <2>3. pc'[Entry] = "procmon"
    BY <1>3, <2>1
  <2>4. Mandatory[1] \in res
    BY <1>7, MandatoryResources DEF RegisterPower
  <2>5. "pool" \in res /\ "wpp" \in res /\ undone = 0
    BY <2>1, <2>4, MandatoryResources DEF LeftInv, Held
  <2>6. Held'
    <3>1. /\ res' \subseteq Resources /\ res' \ {"pool", "wpp"} \subseteq noted' /\ res \subseteq res'
      BY <2>2, MandatoryResources DEF LeftInv, Held
    <3> QED BY <2>1, <2>3, <2>5, <3>1 DEF LeftInv, Held
  <2> QED BY <1>1, <2>1, <2>3, <2>6 DEF LeftInv, Deleted
<1>8. CASE Started \/ FinalizeShield
  <2>1. PICK s \in {"up", "f_unhook"} : EntryGoto(s)
    BY <1>1, <1>8 DEF Started, FinalizeShield, TreeStages
  <2>2. /\ pc[Entry] \in {"monitored", "stopped"}
        /\ pc[Entry] = "stopped" => "procmon" \in noted
    BY <1>1, <1>8 DEF Started, FinalizeShield, TreeStages
  <2>3. /\ UNCHANGED <<res, undone, late, shielded, hooked, gProcessTree, entries, fault>>
        /\ Goto(Entry, s) /\ noted \ {"procmon"} \subseteq noted'
    BY <1>1, <1>8, <2>1, <2>2 DEF EntryGoto, Started, FinalizeShield, treeVars, otherVars
  <2>4. pc'[Entry] = s
    BY <1>3, <2>3
  <2>5. "procmon" \notin res
    BY MandatoryResources DEF LeftInv, Held
  <2>6. Held'
    BY <2>1, <2>2, <2>3, <2>4, <2>5 DEF LeftInv, Held
  <2> QED BY <1>1, <2>2, <2>3, <2>4, <2>6 DEF LeftInv, Deleted
<1>9. CASE StartShield \/ StopShield \/ Unload
  <2>1. PICK s \in {"up", "stopped"} : pc'[Entry] = s
    BY <1>3, <1>9 DEF StartShield, StopShield, Unload
  <2>2. /\ pc[Entry] = "up" /\ fault' = fault
        /\ UNCHANGED <<res, noted, undone, hooked, gProcessTree, entries>>
    BY <1>9 DEF StartShield, StopShield, Unload, Shield, driverVars, treeVars
  <2>3. Held'
    BY <2>1, <2>2 DEF LeftInv, Held
  <2> QED BY <1>1, <2>1, <2>2, <2>3 DEF LeftInv, Deleted
<1>10. CASE GiveBack
  <2> DEFINE r == Releases[undone + 1]
  <2>1. /\ pc[Entry] \in {"failed", "down"} /\ undone \in 0 .. 6
        /\ res' = res \ GivenBack /\ noted' = noted \ GivenBack /\ undone' = undone + 1
        /\ UNCHANGED <<shielded, hooked, gProcessTree, entries, fault, late>>
    BY <1>10, ReleasedResources DEF GiveBack, Releasing, treeVars, LeftInv, Held
  <2>2. pc'[Entry] = IF undone' < 7 THEN pc[Entry] ELSE IF pc[Entry] = "failed" THEN "returned" ELSE "gone"
    BY <1>3, <1>10, ReleasedResources DEF GiveBack
  <2>3. GivenBack \subseteq {r} /\ (r \in {"pool", "wpp"} => GivenBack = {r})
    BY DEF GivenBack
  <2>4. r \notin res'
    <3>1. r \in res => r \in noted \cup {"pool", "wpp"}
      BY DEF LeftInv, Held
    <3> QED BY <2>1, <3>1 DEF GivenBack
  <2>5. \A i \in 1 .. undone' : Releases[i] \notin res'
    <3>1. \A i \in 1 .. undone' : i \in 1 .. undone \/ i = undone + 1
      BY <2>1
    <3> QED BY <2>1, <2>4, <3>1 DEF LeftInv, Held
  <2>6. /\ undone # 5 => r # "pool"
        /\ undone # 6 => r # "wpp"
        /\ undone = 4 => r = "mailbox"
    BY <2>1, ReleasedResources
  <2>7. undone' >= 5 => ~shielded
    <3>1. CASE undone = 4 /\ pc[Entry] = "down"
      <4>1. "mailbox" \in GivenBack
        BY <2>6, <3>1 DEF GivenBack
      <4> QED BY <1>10, <4>1 DEF GiveBack
    <3>2. CASE undone = 4 /\ pc[Entry] # "down"
      BY <1>1, <2>1, <3>2 DEF Users, PastAt, DeleteStages
    <3> QED BY <2>1, <3>1, <3>2 DEF LeftInv, Held
  <2>8. Held'
    BY <2>1, <2>2, <2>3, <2>5, <2>6, <2>7 DEF LeftInv, Held
  <2> QED BY <1>1, <2>1, <2>2, <2>8 DEF LeftInv, Deleted
<1>11. CASE UnloadFault
  <2>1. /\ UNCHANGED <<pc, res, noted, undone, late, shielded, hooked, gProcessTree, entries>>
        /\ shielded /\ pc[Entry] # "up"
    BY <1>11 DEF UnloadFault, Fault, Releasing, driverVars, treeVars, otherVars
  <2>2. late'
    BY <1>1, <2>1 DEF Users
  <2> QED BY <2>1, <2>2 DEF LeftInv, Held, Deleted
<1> QED BY <1>4, <1>5, <1>6, <1>7, <1>8, <1>9, <1>10, <1>11 DEF LifeStep

(* The power callback is not called once it has been taken off.            *)
LEMMA PowerLeaves ==
    ASSUME DriverInv, LeftInv, PowerStep
    PROVE  LeftInv'
<1>1. /\ UNCHANGED <<pc, res, noted, undone, hooked, gProcessTree, entries>>
      /\ fault' = "none" /\ "power" \in res
  BY DEF PowerStep, SuspendShield, ResumeShield, Shield, treeVars
<1>2. undone = 0
  BY <1>1, ReleasedResources DEF LeftInv, Held
<1> QED BY <1>1, <1>2 DEF LeftInv, Held, Deleted

(* LeftInv holds throughout.                                               *)
LEMMA LeftInvariant == DSpec => []LeftInv
<1>1. DInit => LeftInv
  <2> SUFFICES ASSUME DInit PROVE LeftInv
    OBVIOUS
  <2>1. /\ pc[Entry] = "load" /\ res = {} /\ entries = {} /\ gProcessTree = "null"
        /\ undone = 0 /\ ~shielded /\ fault = "none"
    BY ActorsAssumption DEF DInit, Init, Contexts, Threads
  <2> QED BY <2>1 DEF LeftInv, Held, Deleted
<1>2. DriverInv /\ LeftInv /\ [DNext]_allVars => LeftInv'
  <2> SUFFICES ASSUME DriverInv, LeftInv, [DNext]_allVars PROVE LeftInv'
    OBVIOUS
  <2>1. CASE UNCHANGED allVars
    BY <2>1 DEF allVars, vars, driverVars, treeVars, otherVars, LeftInv, Held, Deleted
  <2>2. ASSUME NEW c \in Cpus, Step(c), UNCHANGED driverVars
        PROVE  LeftInv'
    BY <2>2, StepLeaves DEF Step
  <2> QED BY <2>1, <2>2, EnvironmentLeaves, LifeLeaves, PowerLeaves DEF DNext, CpuStep
<1> QED BY <1>1, <1>2, DriverInvariant, PTL DEF DSpec

(* A load that is refused at any point and an unload give back everything  *)
(* in the order of the code (driver.c), with any number of processes that  *)
(* start and exit and with the power callback at any time; and nothing is  *)
(* given back under a hypervisor that runs, unless a resume has started it *)
(* after DriverUnload's stop.                                              *)
THEOREM NothingIsLeft == DSpec => []NothingStays
<1>1. DriverInv /\ LeftInv => NothingStays
  <2> SUFFICES ASSUME DriverInv, LeftInv PROVE NothingStays
    OBVIOUS
  <2>1. TreeStages /\ Users /\ Held /\ Deleted /\ Types /\ (fault = "unload" => late)
    BY DEF DriverInv, StageInv, LockInv, LeftInv
  <2>2. undone >= 6 => res \subseteq {"wpp"}
    BY <2>1, MandatoryResources, ReleasedResources DEF Held
  <2>3. undone >= 7 => res = {}
    BY <2>1, MandatoryResources, ReleasedResources DEF Held
  <2>4. res # {} => "wpp" \in res
    BY <2>1, <2>3 DEF Held
  <2>5. ASSUME "pool" \notin res
        PROVE  /\ res \subseteq {"wpp"}
               /\ gProcessTree = "null" /\ entries = {} /\ ~hooked /\ ~shielded
    <3>1. /\ pc[Entry] \in {"load", "failed", "down", "returned", "gone"}
          /\ res \subseteq {"wpp"}
          /\ pc[Entry] \in {"failed", "down", "gone"} => undone >= 6
      BY <2>1, <2>2, <2>5 DEF Held
    <3>2. gProcessTree = "null" /\ ~hooked
      BY <2>1, <3>1 DEF TreeStages, Deleted
    <3>3. ~shielded
      BY <2>1, <3>1 DEF Users, PastAt, DeleteStages, Held
    <3> QED BY <2>1, <3>1, <3>2, <3>3 DEF Deleted
  <2>6. pc[Entry] \in {"returned", "gone"} => "pool" \notin res /\ (undone # 0 => res = {})
    BY <2>1, <2>3 DEF Held
  <2> QED BY <2>1, <2>4, <2>5, <2>6 DEF NothingStays
<1> QED BY <1>1, DriverInvariant, LeftInvariant, PTL

-----------------------------------------------------------------------------
(* A set of numbers has a least one.                                       *)
LEMMA Least ==
    ASSUME NEW S, S \subseteq Nat, S # {}
    PROVE  \E x \in S : \A y \in S : x <= y
<1>1. PICK x \in S : \A y \in S : ~ (<<y, x>> \in OpToRel(<, Nat))
  BY NatLessThanWellFounded, WFMin
<1>2. \A y \in S : ~ (y < x)
  BY <1>1 DEF OpToRel
<1> QED BY <1>2

-----------------------------------------------------------------------------
(* The indexed list.  N is the NodeList of a table.  Only nodes 1 and up   *)
(* can be in use or free.                                                  *)
Blocks == [Thread : Procs \X Nat, UniqueId : Nat]
Top(T) == IF T.Size = 0 THEN 0 ELSE T.Size - 1

Shaped(T) ==
    /\ T = [Size |-> T.Size, NodeList |-> T.NodeList, NodeFreeList |-> T.NodeFreeList,
            NodeCount |-> T.NodeCount]
    /\ T.Size \in Nat /\ T.NodeCount \in Nat
    /\ T.NodeFreeList \in 0 .. Top(T)
    /\ T.NodeList \in [0 .. Top(T) ->
          [Fidx : 0 .. Top(T), Bidx : 0 .. Top(T), Data : Blocks \cup {Null}]]

(* S is what a walk from node idx meets before it comes to node 0.         *)
Walk(N, C, idx) == C \subseteq DOMAIN N /\ idx \in C /\ \A i \in C \ {0} : N[i].Fidx \in C

Listed(N, S, idx) ==
    /\ S \subseteq DOMAIN N \ {0}
    /\ idx \in S \cup {0}
    /\ \A i \in S : N[i].Fidx \in S \cup {0}
    /\ \A C : Walk(N, C, idx) => S \subseteq C

(* The nodes in use are linked both ways, with the head; the free nodes    *)
(* one way; and the blocks are in the nodes whose index they have.         *)
Ringed(N, U) == \A i \in U \cup {0} : N[N[i].Fidx].Bidx = i

Stacked(N, F, top) ==
    /\ \A i \in F : N[i].Fidx # top
    /\ \A i, j \in F : N[i].Fidx = N[j].Fidx /\ N[i].Fidx # 0 => i = j

Filled(N, U, F) ==
    /\ N[0].Data = Null
    /\ \A i \in U : N[i].Data \in Blocks /\ N[i].Data.UniqueId = i
    /\ \A i \in F : N[i].Data = Null

Arranged(T, U, F) ==
    /\ Shaped(T)
    /\ U \cup F = 1 .. Top(T) /\ U \cap F = {}
    /\ Listed(T.NodeList, U, T.NodeList[0].Fidx)
    /\ Listed(T.NodeList, F, T.NodeFreeList)
    /\ Ringed(T.NodeList, U)
    /\ Stacked(T.NodeList, F, T.NodeFreeList)
    /\ Filled(T.NodeList, U, F)
    /\ T.NodeCount = Cardinality(U)

(* What the model calls a chain is what a walk meets.                      *)
LEMMA ListedIsChain ==
    ASSUME NEW T, 0 \in DOMAIN T.NodeList, NEW S, NEW idx, Listed(T.NodeList, S, idx)
    PROVE  Chain(T, idx) = S
<1>1. Walk(T.NodeList, S \cup {0}, idx)
  BY DEF Walk, Listed
<1>2. \A C \in SUBSET DOMAIN T.NodeList :
         (idx \in C /\ \A i \in C \ {0} : T.NodeList[i].Fidx \in C) <=> Walk(T.NodeList, C, idx)
  BY DEF Walk
<1>3. \A i : i \in Chain(T, idx) => i \in S
  BY <1>1, <1>2 DEF Chain, Walk
<1>4. \A i : i \in S => i \in Chain(T, idx)
  BY <1>2 DEF Chain, Listed
<1> QED BY <1>3, <1>4

(* The nodes in use and the free ones are those the walks meet.            *)
LEMMA ArrangedIs ==
    ASSUME NEW T, NEW U, NEW F, Arranged(T, U, F)
    PROVE  Used(T) = U /\ Free(T) = F
<1>1. 0 \in DOMAIN T.NodeList
  BY DEF Arranged, Shaped, Top
<1> QED BY <1>1, ListedIsChain DEF Arranged, Used, Free

(* A table has finitely many nodes in use.                                 *)
LEMMA ArrangedFinite ==
    ASSUME NEW T, NEW U, NEW F, Arranged(T, U, F)
    PROVE  IsFiniteSet(U)
<1>1. Top(T) \in Nat
  BY DEF Arranged, Shaped, Top
<1>2. IsFiniteSet(1 .. Top(T))
  BY <1>1, FS_Interval
<1> QED BY <1>2, FS_Subset DEF Arranged

(* An arranged table is in good order.                                     *)
LEMMA ArrangedWell ==
    ASSUME NEW T, NEW U, NEW F, Arranged(T, U, F)
    PROVE  WellLinked(T)
<1>1. Used(T) = U /\ Free(T) = F
  BY ArrangedIs
<1>2. U \cup F = 1 .. (IF T.Size = 0 THEN 0 ELSE T.Size - 1)
  BY DEF Arranged, Top
<1>3. \A i \in U : T.NodeList[i].Data # Null
  BY ActorsAssumption DEF Arranged, Filled, Blocks
<1> QED BY <1>1, <1>2, <1>3 DEF WellLinked, Arranged, Filled, Ringed

(* InitializeIdxList leaves an arranged table.                             *)
LEMMA EmptyArranged == Arranged(EmptyIdxList, {}, {})
<1> DEFINE N == EmptyIdxList.NodeList
<1>1. EmptyIdxList = [Size |-> 0, NodeList |-> [i \in {0} |-> Node(0, 0, Null)],
                 NodeFreeList |-> 0, NodeCount |-> 0]
  BY DEF EmptyIdxList
<1>2. DOMAIN N = {0} /\ N[0] = [Fidx |-> 0, Bidx |-> 0, Data |-> Null]
  BY <1>1 DEF Node
<1>3. Top(EmptyIdxList) = 0 /\ 0 .. 0 = {0} /\ 1 .. 0 = {}
  BY <1>1 DEF Top
<1>4. N \in [{0} -> [Fidx : {0}, Bidx : {0}, Data : Blocks \cup {Null}]]
  BY <1>1 DEF Node
<1>5. Shaped(EmptyIdxList)
  BY <1>1, <1>3, <1>4 DEF Shaped
<1>6. Listed(N, {}, 0)
  BY <1>2 DEF Listed
<1>7. Ringed(N, {}) /\ Stacked(N, {}, 0) /\ Filled(N, {}, {})
  BY <1>2 DEF Ringed, Stacked, Filled
<1>8. EmptyIdxList.NodeFreeList = 0 /\ EmptyIdxList.NodeCount = 0 /\ N[0].Fidx = 0
  BY <1>1, <1>2
<1> HIDE DEF N
<1> QED BY <1>3, <1>5, <1>6, <1>7, <1>8, FS_EmptySet DEF Arranged, N

SameFidx(N, M, S) == DOMAIN M = DOMAIN N /\ \A i \in S : M[i].Fidx = N[i].Fidx
SameData(N, M, S) == \A i \in S : M[i].Data = N[i].Data
Unmet(N, S, f) == \A i \in S : N[i].Fidx # f

(* LinkHead and RemoveHeadIdxList move node f between a list that starts   *)
(* at the head and one that does not; here node f enters the list of a.    *)
LEMMA ListEntered ==
    ASSUME NEW N, NEW M, NEW S, NEW a, Listed(N, S, a), 0 \in DOMAIN N, SameFidx(N, M, S),
           NEW f \in DOMAIN N \ {0}, f \notin S, M[f].Fidx = a
    PROVE  Listed(M, S \cup {f}, f)
<1>1. ASSUME NEW C, Walk(M, C, f)
      PROVE  S \cup {f} \subseteq C
  <2>1. Walk(N, C \cap (S \cup {0}), a)
    BY <1>1 DEF Walk, Listed, SameFidx
  <2> QED BY <1>1, <2>1 DEF Walk, Listed
<1> QED BY <1>1 DEF Listed, SameFidx

(* And here the first node leaves the list.                                *)
LEMMA ListLeft ==
    ASSUME NEW N, NEW M, NEW S, NEW f \in S, Listed(N, S, f), 0 \in DOMAIN N,
           Unmet(N, S, f), SameFidx(N, M, S \ {f})
    PROVE  Listed(M, S \ {f}, N[f].Fidx)
<1>1. ASSUME NEW C, Walk(M, C, N[f].Fidx)
      PROVE  S \ {f} \subseteq C
  <2>1. Walk(N, (C \cap (S \cup {0})) \cup {f}, f)
    BY <1>1 DEF Walk, Listed, SameFidx
  <2> QED BY <2>1 DEF Listed
<1> QED BY <1>1 DEF Listed, SameFidx, Unmet

(* The nodes after LinkHead.                                               *)
LinkedAt(N, M, f, data) ==
    /\ DOMAIN M = DOMAIN N
    /\ \A i \in DOMAIN N :
         /\ M[i].Fidx = IF i = 0 THEN f ELSE IF i = f THEN N[0].Fidx ELSE N[i].Fidx
         /\ M[i].Bidx = IF i = N[0].Fidx THEN f ELSE IF i = f THEN 0 ELSE N[i].Bidx
         /\ M[i].Data = IF i = f THEN data ELSE N[i].Data

NodesIn(k) == [Fidx : 0 .. k, Bidx : 0 .. k, Data : Blocks \cup {Null}]

(* M is N with another node i.                                             *)
Wrote(k, N, M, i, f, b, d) ==
    /\ M \in [0 .. k -> NodesIn(k)]
    /\ M[i].Fidx = f /\ M[i].Bidx = b /\ M[i].Data = d
    /\ \A j \in 0 .. k : j # i => M[j] = N[j]

(* What writing a node changes.                                            *)
LEMMA NodeWritten ==
    ASSUME NEW k, NEW N, N \in [0 .. k -> NodesIn(k)], NEW i \in 0 .. k, NEW f \in 0 .. k,
           NEW b \in 0 .. k, NEW d \in Blocks \cup {Null}
    PROVE  Wrote(k, N, [N EXCEPT ![i] = Node(f, b, d)], i, f, b, d)
<1>1. Node(f, b, d) \in NodesIn(k)
  BY DEF Node, NodesIn
<1>2. PICK M : M = [N EXCEPT ![i] = Node(f, b, d)]
  OBVIOUS
<1>3. M \in [0 .. k -> NodesIn(k)] /\ M[i] = Node(f, b, d) /\ \A j \in 0 .. k : j # i => M[j] = N[j]
  BY <1>1, <1>2
<1>4. Node(f, b, d).Fidx = f /\ Node(f, b, d).Bidx = b /\ Node(f, b, d).Data = d
  BY DEF Node
<1>5. Wrote(k, N, M, i, f, b, d)
  BY <1>3, <1>4 DEF Wrote
<1> QED BY <1>2, <1>5

(* What writing one link of a node changes.                                *)
LEMMA LinkWritten ==
    ASSUME NEW k, NEW N, N \in [0 .. k -> NodesIn(k)], NEW i \in 0 .. k, NEW l \in 0 .. k
    PROVE  /\ Wrote(k, N, SetFidx(N, i, l), i, l, N[i].Bidx, N[i].Data)
           /\ Wrote(k, N, SetBidx(N, i, l), i, N[i].Fidx, l, N[i].Data)
<1>1. N[i].Fidx \in 0 .. k /\ N[i].Bidx \in 0 .. k /\ N[i].Data \in Blocks \cup {Null}
  BY DEF NodesIn
<1>2. Wrote(k, N, [N EXCEPT ![i] = Node(l, N[i].Bidx, N[i].Data)], i, l, N[i].Bidx, N[i].Data)
  BY <1>1, NodeWritten
<1>3. Wrote(k, N, [N EXCEPT ![i] = Node(N[i].Fidx, l, N[i].Data)], i, N[i].Fidx, l, N[i].Data)
  BY <1>1, NodeWritten
<1> QED BY <1>2, <1>3 DEF SetFidx, SetBidx

(* What InsertHeadIdxList writes: three nodes at most.                     *)
LEMMA LinkHeadNodes ==
    ASSUME NEW T, Shaped(T), NEW f \in 1 .. Top(T), T.NodeList[0].Fidx # f, NEW data \in Blocks
    PROVE  /\ Shaped(LinkHead(T, f, data))
           /\ Top(LinkHead(T, f, data)) = Top(T)
           /\ LinkHead(T, f, data).NodeFreeList = T.NodeList[f].Fidx
           /\ LinkHead(T, f, data).NodeCount = T.NodeCount + 1
           /\ LinkedAt(T.NodeList, LinkHead(T, f, data).NodeList, f, data)
<1>1. PICK k, N : k = Top(T) /\ N = T.NodeList
  OBVIOUS
<1>2. PICK first : first = N[0].Fidx
  OBVIOUS
<1>3. N \in [0 .. k -> NodesIn(k)] /\ 0 \in 0 .. k /\ f \in 0 .. k /\ f # 0
  BY <1>1 DEF Shaped, Top, NodesIn
<1>4. first \in 0 .. k /\ first # f /\ N[f].Fidx \in 0 .. k
  BY <1>1, <1>2, <1>3 DEF NodesIn
<1>5. PICK A : A = [N EXCEPT ![f] = Node(first, 0, data)]
  OBVIOUS
<1>6. PICK B : B = SetFidx(A, 0, f)
  OBVIOUS
<1>7. PICK M : M = SetBidx(B, first, f)
  OBVIOUS
<1>a. Wrote(k, N, A, f, first, 0, data)
  <2>1. Wrote(k, N, [N EXCEPT ![f] = Node(first, 0, data)], f, first, 0, data)
    BY <1>3, <1>4, NodeWritten
  <2> QED BY <1>5, <2>1
<1>8. A \in [0 .. k -> NodesIn(k)]
  BY <1>a DEF Wrote
<1>b. Wrote(k, A, B, 0, f, A[0].Bidx, A[0].Data)
  BY <1>3, <1>6, <1>8, LinkWritten
<1>9. B \in [0 .. k -> NodesIn(k)]
  BY <1>b DEF Wrote
<1>c. Wrote(k, B, M, first, B[first].Fidx, f, B[first].Data)
  BY <1>4, <1>3, <1>7, <1>9, LinkWritten
<1>10. M \in [0 .. k -> NodesIn(k)] /\ DOMAIN M = 0 .. k /\ DOMAIN N = 0 .. k
  BY <1>3, <1>c DEF Wrote
<1>11. LinkedAt(N, M, f, data)
  BY <1>2, <1>3, <1>4, <1>10, <1>a, <1>b, <1>c DEF LinkedAt, Wrote
<1>12. PICK L : L = LinkHead(T, f, data)
  OBVIOUS
<1>13. L = [Size |-> T.Size, NodeList |-> M, NodeFreeList |-> N[f].Fidx,
            NodeCount |-> T.NodeCount + 1]
  BY <1>1, <1>2, <1>5, <1>6, <1>7, <1>12 DEF LinkHead
<1>14. /\ L.Size = T.Size /\ L.NodeList = M /\ L.NodeFreeList = N[f].Fidx
       /\ L.NodeCount = T.NodeCount + 1
  BY <1>13
<1>15. Top(L) = k
  BY <1>1, <1>14 DEF Top
<1>16. Shaped(L)
  BY <1>1, <1>4, <1>10, <1>13, <1>14, <1>15 DEF Shaped, NodesIn
<1> QED BY <1>1, <1>11, <1>12, <1>14, <1>15, <1>16

Entering(T, f, data) == f = T.NodeFreeList /\ f # 0 /\ data \in Blocks /\ data.UniqueId = f

(* InsertHeadIdxList with a free node at hand.                             *)
LEMMA LinkHeadArranged ==
    ASSUME NEW T, NEW U, NEW F, Arranged(T, U, F), NEW f, NEW data, Entering(T, f, data)
    PROVE  /\ f \in F
           /\ Arranged(LinkHead(T, f, data), U \cup {f}, F \ {f})
           /\ LinkHead(T, f, data).NodeList[f].Data = data
           /\ SameData(T.NodeList, LinkHead(T, f, data).NodeList, U)
<1>00. f = T.NodeFreeList /\ f # 0 /\ data \in Blocks /\ data.UniqueId = f
  BY DEF Entering
<1> USE <1>00
<1> DEFINE N == T.NodeList
<1>0. PICK L : L = LinkHead(T, f, data)
  OBVIOUS
<1> DEFINE M == L.NodeList
<1>1. f \in F /\ f \in 1 .. Top(T) /\ f \notin U
  BY DEF Arranged, Listed
<1>2. N[0].Fidx \in U \cup {0} /\ N[0].Fidx # f /\ 0 \notin U /\ 0 \notin F
  BY <1>1 DEF Arranged, Listed
<1>3. /\ Shaped(L) /\ Top(L) = Top(T)
      /\ L.NodeFreeList = N[f].Fidx /\ L.NodeCount = T.NodeCount + 1
      /\ LinkedAt(N, M, f, data)
  BY <1>0, <1>1, <1>2, LinkHeadNodes DEF Arranged
<1>4. DOMAIN N = 0 .. Top(T) /\ DOMAIN M = DOMAIN N /\ 0 \in DOMAIN N /\ f \in DOMAIN N /\ f # 0
      /\ U \subseteq DOMAIN N /\ F \subseteq DOMAIN N
  BY <1>3 DEF LinkedAt, Arranged, Shaped, Top, Listed
<1> HIDE DEF N, M
<1>5. \A i \in U : M[i].Fidx = N[i].Fidx /\ M[i].Data = N[i].Data
  BY <1>1, <1>2, <1>3, <1>4 DEF LinkedAt
<1>6. \A i \in F \ {f} : M[i].Fidx = N[i].Fidx /\ M[i].Data = N[i].Data
  BY <1>2, <1>3, <1>4 DEF LinkedAt
<1>7. M[f].Fidx = N[0].Fidx /\ M[f].Data = data /\ M[0].Fidx = f /\ M[0].Data = N[0].Data
  BY <1>3, <1>4 DEF LinkedAt
<1>8. Listed(M, U \cup {f}, M[0].Fidx)
  <2>1. SameFidx(N, M, U) /\ Listed(N, U, N[0].Fidx)
    BY <1>4, <1>5 DEF SameFidx, Arranged, N
  <2> QED BY <1>1, <1>4, <1>7, <2>1, ListEntered
<1>9. Listed(M, F \ {f}, L.NodeFreeList)
  <2>1. Unmet(N, F, f) /\ Listed(N, F, f)
    BY DEF Arranged, Stacked, Unmet, N
  <2>2. SameFidx(N, M, F \ {f})
    BY <1>4, <1>6 DEF SameFidx
  <2>3. Listed(M, F \ {f}, N[f].Fidx)
    BY <1>1, <1>4, <2>1, <2>2, ListLeft
  <2> QED BY <1>3, <2>3
<1>10. Ringed(M, U \cup {f})
  <2>1. \A i \in U \cup {0} : N[i].Fidx \in U \cup {0} /\ N[N[i].Fidx].Bidx = i
    BY DEF Arranged, Listed, Ringed, N
  <2>2. ASSUME NEW i \in U PROVE M[M[i].Fidx].Bidx = i
    <3>1. N[i].Fidx # N[0].Fidx
      BY <1>2, <2>1
    <3>2. N[i].Fidx \in DOMAIN N /\ N[i].Fidx # f
      BY <1>1, <1>4, <2>1
    <3> QED BY <1>3, <1>5, <2>1, <3>1, <3>2 DEF LinkedAt
  <2>3. M[M[0].Fidx].Bidx = 0
    BY <1>2, <1>3, <1>4, <1>7 DEF LinkedAt
  <2>4. M[M[f].Fidx].Bidx = f
    BY <1>2, <1>3, <1>4, <1>7 DEF LinkedAt
  <2> QED BY <2>2, <2>3, <2>4 DEF Ringed
<1>11. Stacked(M, F \ {f}, L.NodeFreeList)
  <2>1. /\ \A i \in F : N[i].Fidx # f
        /\ \A i, j \in F : N[i].Fidx = N[j].Fidx /\ N[i].Fidx # 0 => i = j
    BY DEF Arranged, Stacked, N
  <2>2. N[f].Fidx = 0 => Walk(N, {0, f}, f)
    BY <1>4 DEF Walk
  <2>3. N[f].Fidx = 0 => F \subseteq {0, f}
    BY <2>2 DEF Arranged, Listed, N
  <2> QED BY <1>1, <1>2, <1>3, <1>6, <2>1, <2>3 DEF Stacked
<1>12. Filled(M, U \cup {f}, F \ {f})
  <2>1. Filled(N, U, F)
    BY DEF Arranged, N
  <2> QED BY <1>5, <1>6, <1>7, <2>1 DEF Filled
<1>13. L.NodeCount = Cardinality(U \cup {f})
  <2>1. IsFiniteSet(U) /\ T.NodeCount = Cardinality(U)
    BY ArrangedFinite DEF Arranged
  <2>2. Cardinality(U \cup {f}) = Cardinality(U) + 1
    BY <1>1, <2>1, FS_AddElement
  <2> QED BY <1>3, <2>1, <2>2
<1>14. (U \cup {f}) \cup (F \ {f}) = 1 .. Top(L) /\ (U \cup {f}) \cap (F \ {f}) = {}
  BY <1>1, <1>3 DEF Arranged
<1>15. Arranged(L, U \cup {f}, F \ {f})
  BY <1>3, <1>8, <1>9, <1>10, <1>11, <1>12, <1>13, <1>14 DEF Arranged, M
<1>16. SameData(N, M, U)
  BY <1>5 DEF SameData
<1> QED BY <1>0, <1>1, <1>7, <1>15, <1>16 DEF M, N

(* The nodes that ExtendIdxList has chained are all met from the first on. *)
LEMMA FreshListed ==
    ASSUME NEW M, NEW a \in Nat, NEW b \in Nat, 1 <= a, a <= b, DOMAIN M = 0 .. b,
           \A i \in a .. b : M[i].Fidx = IF i = b THEN 0 ELSE i + 1
    PROVE  Listed(M, a .. b, a) /\ Stacked(M, a .. b, a)
<1>1. ASSUME NEW C, Walk(M, C, a), (a .. b) \ C # {}
      PROVE  FALSE
  <2> DEFINE S == (a .. b) \ C
  <2>0. S \subseteq Nat /\ S # {}
    BY <1>1
  <2> HIDE DEF S
  <2>1a. PICK m \in S : \A j \in S : m <= j
    BY <2>0, Least
  <2>1. m \in (a .. b) \ C /\ \A j \in (a .. b) \ C : m <= j
    BY <2>1a DEF S
  <2>2. m # a
    BY <1>1, <2>1 DEF Walk
  <2>3. m - 1 \in a .. b /\ m - 1 \in C /\ m - 1 # 0
    BY <2>1, <2>2
  <2>4. M[m - 1].Fidx = m
    BY <2>1, <2>3
  <2> QED BY <1>1, <2>1, <2>3, <2>4 DEF Walk
<1>2. \A C : Walk(M, C, a) => a .. b \subseteq C
  BY <1>1
<1>3. a .. b \subseteq DOMAIN M \ {0} /\ a \in a .. b
  OBVIOUS
<1>4. \A i \in a .. b : M[i].Fidx \in (a .. b) \cup {0}
  OBVIOUS
<1>5. Listed(M, a .. b, a)
  BY <1>2, <1>3, <1>4 DEF Listed
<1>6. Stacked(M, a .. b, a)
  BY DEF Stacked
<1> QED BY <1>5, <1>6

SameOver(N, M, S) == DOMAIN N \subseteq DOMAIN M /\ \A i \in S : M[i].Fidx = N[i].Fidx

(* The list of the nodes in use is the same in the larger array.           *)
LEMMA ListKept ==
    ASSUME NEW N, NEW M, NEW S, NEW a, Listed(N, S, a), 0 \in DOMAIN N,
           SameOver(N, M, S)
    PROVE  Listed(M, S, a)
<1>1. ASSUME NEW C, Walk(M, C, a)
      PROVE  S \subseteq C
  <2>1. Walk(N, C \cap (S \cup {0}), a)
    BY <1>1 DEF Walk, Listed, SameOver
  <2> QED BY <2>1 DEF Listed
<1> QED BY <1>1 DEF Listed, SameOver

(* A list that starts at node 0 is empty.                                  *)
LEMMA NoneListed ==
    ASSUME NEW N, NEW S, Listed(N, S, 0), 0 \in DOMAIN N
    PROVE  S = {}
<1>1. Walk(N, {0}, 0)
  BY DEF Walk
<1> QED BY <1>1 DEF Listed

(* The nodes after ExtendIdxList.                                          *)
Extended(T, X) ==
    LET a == IF T.Size = 0 THEN 1 ELSE T.Size
        b == T.Size + NodesPerPage - 1
        M == X.NodeList
    IN  /\ Shaped(X) /\ Top(X) = b
        /\ X.NodeFreeList = a /\ X.NodeCount = T.NodeCount
        /\ \A i \in 0 .. Top(T) : M[i].Fidx = T.NodeList[i].Fidx /\ M[i].Bidx = T.NodeList[i].Bidx
                                    /\ M[i].Data = T.NodeList[i].Data
        /\ \A i \in a .. b : M[i].Fidx = (IF i = b THEN 0 ELSE i + 1) /\ M[i].Data = Null

(* What ExtendIdxList makes of a table without a free node.                *)
LEMMA ExtendNodes ==
    ASSUME NEW T, Shaped(T), T.NodeFreeList = 0, T.Size = 0 => T.NodeList[0] = Node(0, 0, Null)
    PROVE  Extended(T, ExtendIdxList(T))
<1>1. PICK k, N : k = T.Size /\ N = T.NodeList
  OBVIOUS
<1>2. PICK b : b = k + NodesPerPage - 1
  OBVIOUS
<1>3. k \in Nat /\ b \in Nat /\ 1 <= b /\ k < b /\ Top(T) = (IF k = 0 THEN 0 ELSE k - 1)
  BY <1>1, <1>2, NodesAssumption DEF Shaped, Top
<1>4. PICK X : X = ExtendIdxList(T)
  OBVIOUS
<1>5. PICK M : M = [i \in 0 .. b |-> IF i < k THEN N[i]
                                     ELSE IF i = 0 THEN Node(0, 0, Null)
                                     ELSE Node(IF i = b THEN 0 ELSE i + 1, 0, Null)]
  OBVIOUS
<1>6. X = [Size |-> b + 1, NodeList |-> M, NodeFreeList |-> IF k = 0 THEN 1 ELSE k,
           NodeCount |-> T.NodeCount]
  <2>1. k + NodesPerPage = b + 1 /\ (b + 1) - 1 = b
    BY <1>2, <1>3, NodesAssumption
  <2> QED BY <1>1, <1>4, <1>5, <2>1 DEF ExtendIdxList
<1>7. X.Size = b + 1 /\ X.NodeList = M /\ X.NodeFreeList = (IF k = 0 THEN 1 ELSE k)
      /\ X.NodeCount = T.NodeCount
  BY <1>6
<1>8. Top(X) = b
  BY <1>3, <1>7 DEF Top
<1>9. N \in [0 .. Top(T) -> NodesIn(Top(T))]
  BY <1>1 DEF Shaped, NodesIn
<1>10. \A i \in 0 .. Top(T) : M[i] = N[i]
  BY <1>1, <1>3, <1>5
<1>11. ASSUME NEW i \in 1 .. b, ~(i < k)
       PROVE  M[i] = Node(IF i = b THEN 0 ELSE i + 1, 0, Null)
  BY <1>3, <1>5, <1>11
<1>12. \A i \in 0 .. Top(T) : N[i] \in NodesIn(b)
  <2>1. Top(T) \in Nat /\ Top(T) <= b
    BY <1>3
  <2>2. 0 .. Top(T) \subseteq 0 .. b
    BY <1>3, <2>1
  <2>3. NodesIn(Top(T)) \subseteq NodesIn(b)
    BY <2>2, Zenon DEF NodesIn
  <2> QED BY <1>9, <2>3
<1>13. M \in [0 .. b -> NodesIn(b)]
  <2>1. ASSUME NEW i \in 0 .. b PROVE M[i] \in NodesIn(b)
    <3>1. CASE i < k \/ i = 0
      BY <1>3, <1>10, <1>12, <3>1
    <3>2. CASE ~(i < k) /\ i # 0
      <4>1. (IF i = b THEN 0 ELSE i + 1) \in 0 .. b /\ 0 \in 0 .. b
        BY <1>3
      <4>2. M[i] = Node(IF i = b THEN 0 ELSE i + 1, 0, Null)
        BY <1>11, <3>2
      <4> QED BY <4>1, <4>2 DEF Node, NodesIn
    <3> QED BY <3>1, <3>2
  <2> QED BY <1>5, <2>1
<1>14. Shaped(X)
  BY <1>3, <1>6, <1>7, <1>8, <1>13 DEF Shaped, NodesIn
<1>15. \A i \in (IF k = 0 THEN 1 ELSE k) .. b :
          M[i].Fidx = (IF i = b THEN 0 ELSE i + 1) /\ M[i].Data = Null
  <2>1. ASSUME NEW i \in (IF k = 0 THEN 1 ELSE k) .. b
        PROVE  M[i].Fidx = (IF i = b THEN 0 ELSE i + 1) /\ M[i].Data = Null
    <3>1. i \in 1 .. b /\ ~(i < k)
      BY <1>3
    <3>2. M[i] = Node(IF i = b THEN 0 ELSE i + 1, 0, Null)
      BY <1>11, <3>1
    <3> QED BY <3>2 DEF Node
  <2> QED BY <2>1
<1>16. Extended(T, X)
  BY <1>1, <1>2, <1>7, <1>8, <1>10, <1>14, <1>15 DEF Extended
<1> QED BY <1>4, <1>16

(* ExtendIdxList keeps the nodes in use, and every new node is free.       *)
LEMMA ExtendArranged ==
    ASSUME NEW T, NEW U, NEW F, Arranged(T, U, F), T.NodeFreeList = 0
    PROVE  /\ Arranged(ExtendIdxList(T), U, ExtendIdxList(T).NodeFreeList .. Top(ExtendIdxList(T)))
           /\ ExtendIdxList(T).NodeFreeList # 0
           /\ SameData(T.NodeList, ExtendIdxList(T).NodeList, U)
<1>1. PICK k, N : k = T.Size /\ N = T.NodeList
  OBVIOUS
<1>2. 0 \in DOMAIN N /\ DOMAIN N = 0 .. Top(T) /\ k \in Nat
  BY <1>1 DEF Arranged, Shaped, Top
<1>3. F = {}
  BY <1>1, <1>2, NoneListed DEF Arranged
<1>4. k = 0 => N[0] = Node(0, 0, Null)
  <2>1. ASSUME k = 0 PROVE N[0] = Node(0, 0, Null)
    <3>1. N \in [{0} -> [Fidx : {0}, Bidx : {0}, Data : Blocks \cup {Null}]]
      <4>1. Top(T) = 0 /\ 0 .. 0 = {0}
        BY <1>1, <2>1 DEF Top
      <4> QED BY <1>1, <4>1 DEF Arranged, Shaped
    <3>2. N[0].Data = Null
      BY <1>1 DEF Arranged, Filled
    <3> QED BY <3>1, <3>2 DEF Node
  <2> QED BY <2>1
<1>5. PICK X : X = ExtendIdxList(T)
  OBVIOUS
<1>6. Extended(T, X)
  BY <1>1, <1>4, <1>5, ExtendNodes DEF Arranged
<1>7. PICK M : M = X.NodeList
  OBVIOUS
<1>8. PICK a, b : a = (IF k = 0 THEN 1 ELSE k) /\ b = k + NodesPerPage - 1
  OBVIOUS
<1>9. /\ Shaped(X) /\ Top(X) = b /\ X.NodeFreeList = a /\ X.NodeCount = T.NodeCount
      /\ \A i \in 0 .. Top(T) : M[i].Fidx = N[i].Fidx /\ M[i].Bidx = N[i].Bidx
                                    /\ M[i].Data = N[i].Data
      /\ \A i \in a .. b : M[i].Fidx = (IF i = b THEN 0 ELSE i + 1) /\ M[i].Data = Null
  BY <1>1, <1>6, <1>7, <1>8 DEF Extended
<1>10. a \in Nat /\ b \in Nat /\ 1 <= a /\ a <= b /\ Top(T) = a - 1 /\ Top(T) <= b
  BY <1>1, <1>2, <1>8, NodesAssumption DEF Top
<1>11. DOMAIN M = 0 .. b
  BY <1>7, <1>9 DEF Shaped
<1>12. Listed(M, a .. b, a) /\ Stacked(M, a .. b, a)
  BY <1>9, <1>10, <1>11, FreshListed
<1>13. U = 1 .. a - 1
  BY <1>3, <1>10 DEF Arranged
<1>14. Listed(M, U, M[0].Fidx)
  <2>1. Listed(N, U, N[0].Fidx) /\ M[0].Fidx = N[0].Fidx /\ DOMAIN N \subseteq DOMAIN M
    BY <1>1, <1>2, <1>9, <1>10, <1>11 DEF Arranged
  <2>2. SameOver(N, M, U)
    BY <1>2, <1>9, <1>10, <1>11, <1>13, <2>1 DEF SameOver
  <2> QED BY <1>2, <2>1, <2>2, ListKept
<1>15. Ringed(M, U)
  <2>1. \A i \in U \cup {0} : N[N[i].Fidx].Bidx = i /\ N[i].Fidx \in U \cup {0}
    BY <1>1 DEF Arranged, Ringed, Listed
  <2>2. \A i \in U \cup {0} : i \in 0 .. Top(T)
    BY <1>10, <1>13
  <2> QED BY <1>9, <2>1, <2>2 DEF Ringed
<1>16. Filled(M, U, a .. b)
  <2>1. \A i \in U \cup {0} : M[i].Data = N[i].Data
    BY <1>9, <1>10, <1>13
  <2> QED BY <1>1, <1>9, <2>1 DEF Arranged, Filled
<1>17. U \cup (a .. b) = 1 .. Top(X) /\ U \cap (a .. b) = {}
  BY <1>9, <1>10, <1>13
<1>18. X.NodeCount = Cardinality(U)
  BY <1>9 DEF Arranged
<1>19. Arranged(X, U, a .. b)
  BY <1>7, <1>9, <1>12, <1>14, <1>15, <1>16, <1>17, <1>18 DEF Arranged
<1>20. SameData(N, M, U)
  BY <1>9, <1>10, <1>13 DEF SameData
<1> QED BY <1>1, <1>5, <1>7, <1>9, <1>10, <1>19, <1>20

BlockFor(T, data) == data \in Blocks /\ data.UniqueId = InsertIdx(T)

(* InsertHeadIdxList, with an extension if there is no free node: another  *)
(* node is in use, at the index that is returned, which is never 0.        *)
LEMMA InsertArranged ==
    ASSUME NEW T, NEW U, NEW F, Arranged(T, U, F), NEW data, BlockFor(T, data)
    PROVE  /\ InsertIdx(T) \in Nat \ {0} /\ InsertIdx(T) \notin U
           /\ \E G : Arranged(InsertHeadIdxList(T, data), U \cup {InsertIdx(T)}, G)
           /\ InsertHeadIdxList(T, data).NodeList[InsertIdx(T)].Data = data
           /\ SameData(T.NodeList, InsertHeadIdxList(T, data).NodeList, U)
<1>1. PICK X : X = IF MustExtend(T) THEN ExtendIdxList(T) ELSE T
  OBVIOUS
<1>2. PICK f : f = InsertIdx(T)
  OBVIOUS
<1>3. PICK G : Arranged(X, U, G) /\ f = X.NodeFreeList /\ f # 0
                 /\ SameData(T.NodeList, X.NodeList, U)
  <2>1. CASE MustExtend(T)
    <3>1. T.NodeFreeList = 0 /\ X = ExtendIdxList(T) /\ f = ExtendIdxList(T).NodeFreeList
      BY <1>1, <1>2, <2>1 DEF MustExtend, InsertIdx
    <3> QED BY <3>1, ExtendArranged
  <2>2. CASE ~MustExtend(T)
    <3>1. T.NodeFreeList # 0 /\ X = T /\ f = T.NodeFreeList
      BY <1>1, <1>2, <2>2 DEF MustExtend, InsertIdx
    <3> QED BY <3>1 DEF SameData
  <2> QED BY <2>1, <2>2
<1>4. PICK L : L = LinkHead(X, f, data)
  OBVIOUS
<1>5. /\ f \in G /\ Arranged(L, U \cup {f}, G \ {f}) /\ L.NodeList[f].Data = data
      /\ SameData(X.NodeList, L.NodeList, U)
  <2>1. Arranged(X, U, G) /\ Entering(X, f, data)
    BY <1>2, <1>3 DEF Entering, BlockFor
  <2>2. /\ f \in G /\ Arranged(LinkHead(X, f, data), U \cup {f}, G \ {f})
        /\ LinkHead(X, f, data).NodeList[f].Data = data
        /\ SameData(X.NodeList, LinkHead(X, f, data).NodeList, U)
    BY <2>1, LinkHeadArranged
  <2> QED BY <1>4, <2>2
<1>6. f \in Nat \ {0} /\ f \notin U
  BY <1>3, <1>5 DEF Arranged
<1>7. InsertHeadIdxList(T, data) = L
  BY <1>1, <1>2, <1>4 DEF InsertHeadIdxList
<1>8. \E H : Arranged(L, U \cup {f}, H)
  BY <1>5
<1>9. SameData(T.NodeList, L.NodeList, U)
  BY <1>3, <1>5 DEF SameData
<1> QED BY <1>2, <1>5, <1>6, <1>7, <1>8, <1>9

(* The nodes after RemoveHeadIdxList, whose first node is h.               *)
RemovedAt(N, M, h, free) ==
    /\ DOMAIN M = DOMAIN N
    /\ \A i \in DOMAIN N :
         /\ M[i].Fidx = IF i = h THEN free ELSE IF i = 0 THEN N[h].Fidx ELSE N[i].Fidx
         /\ i # h => M[i].Bidx = IF i = N[h].Fidx THEN 0 ELSE N[i].Bidx
         /\ M[i].Data = IF i = h THEN Null ELSE N[i].Data

(* What RemoveHeadIdxList writes.                                          *)
LEMMA RemoveHeadNodes ==
    ASSUME NEW T, Shaped(T), NEW h \in 1 .. Top(T), T.NodeList[0].Fidx = h, T.NodeCount # 0,
           T.NodeList[h].Bidx = 0, T.NodeList[h].Data # Null, T.NodeList[h].Fidx # h
    PROVE  /\ Shaped(RemoveHeadIdxList(T))
           /\ Top(RemoveHeadIdxList(T)) = Top(T)
           /\ RemoveHeadIdxList(T).NodeFreeList = h
           /\ RemoveHeadIdxList(T).NodeCount = T.NodeCount - 1
           /\ RemovedAt(T.NodeList, RemoveHeadIdxList(T).NodeList, h, T.NodeFreeList)
<1>1. PICK k, N, free : k = Top(T) /\ N = T.NodeList /\ free = T.NodeFreeList
  OBVIOUS
<1>2. PICK next : next = N[h].Fidx
  OBVIOUS
<1>3. N \in [0 .. k -> NodesIn(k)] /\ 0 \in 0 .. k /\ h \in 0 .. k /\ h # 0 /\ h < T.Size /\ free \in 0 .. k
  BY <1>1 DEF Shaped, Top, NodesIn
<1>4. next \in 0 .. k /\ next # h /\ N[h].Bidx = 0 /\ N[h].Data # Null
  BY <1>1, <1>2, <1>3 DEF NodesIn
<1>5. PICK A : A = SetBidx(N, next, 0)
  OBVIOUS
<1>6. PICK B : B = SetFidx(A, 0, next)
  OBVIOUS
<1>7. PICK M : M = [B EXCEPT ![h] = Node(free, B[h].Bidx, Null)]
  OBVIOUS
<1>8. Wrote(k, N, A, next, N[next].Fidx, 0, N[next].Data)
  BY <1>3, <1>4, <1>5, LinkWritten
<1>9. A \in [0 .. k -> NodesIn(k)]
  BY <1>8 DEF Wrote
<1>10. Wrote(k, A, B, 0, next, A[0].Bidx, A[0].Data)
  BY <1>3, <1>4, <1>6, <1>9, LinkWritten
<1>11. B \in [0 .. k -> NodesIn(k)] /\ B[h].Bidx \in 0 .. k
  BY <1>3, <1>10 DEF Wrote, NodesIn
<1>12. Wrote(k, B, M, h, free, B[h].Bidx, Null)
  <2>1. Wrote(k, B, [B EXCEPT ![h] = Node(free, B[h].Bidx, Null)], h, free, B[h].Bidx, Null)
    BY <1>3, <1>11, NodeWritten
  <2> QED BY <1>7, <2>1
<1>13. M \in [0 .. k -> NodesIn(k)] /\ DOMAIN M = 0 .. k /\ DOMAIN N = 0 .. k
  BY <1>3, <1>12 DEF Wrote
<1>14. RemovedAt(N, M, h, free)
  BY <1>2, <1>3, <1>4, <1>8, <1>10, <1>12, <1>13 DEF RemovedAt, Wrote
<1>15. PICK L : L = RemoveHeadIdxList(T)
  OBVIOUS
<1>16. L = [Size |-> T.Size, NodeList |-> M, NodeFreeList |-> h, NodeCount |-> T.NodeCount - 1]
  <2>1. L = RemoveNodeIdxList(T, h)
    BY <1>15 DEF RemoveHeadIdxList
  <2>2. ~(h >= T.Size \/ h = 0 \/ T.NodeList[h].Data = Null)
    BY <1>3 DEF Shaped
  <2> QED BY <1>1, <1>2, <1>4, <1>5, <1>6, <1>7, <2>1, <2>2 DEF RemoveNodeIdxList
<1>17. /\ L.Size = T.Size /\ L.NodeList = M /\ L.NodeFreeList = h
       /\ L.NodeCount = T.NodeCount - 1
  BY <1>16
<1>18. Top(L) = k
  BY <1>1, <1>17 DEF Top
<1>19. T.NodeCount - 1 \in Nat
  BY DEF Shaped
<1>20. Shaped(L)
  BY <1>1, <1>3, <1>13, <1>16, <1>17, <1>18, <1>19 DEF Shaped, NodesIn
<1> QED BY <1>1, <1>14, <1>15, <1>17, <1>18, <1>20

(* RemoveHeadIdxList frees one node, and counts one less.                  *)
LEMMA RemoveHeadArranged ==
    ASSUME NEW T, NEW U, NEW F, Arranged(T, U, F), T.NodeCount # 0
    PROVE  \E h, G :
             /\ h \in U
             /\ Arranged(RemoveHeadIdxList(T), U \ {h}, G)
             /\ RemoveHeadIdxList(T).NodeCount = T.NodeCount - 1
<1>1. PICK N, h, free : N = T.NodeList /\ h = T.NodeList[0].Fidx /\ free = T.NodeFreeList
  OBVIOUS
<1>2. 0 \in DOMAIN N /\ DOMAIN N = 0 .. Top(T)
  BY <1>1 DEF Arranged, Shaped, Top
<1>3. U # {}
  BY FS_EmptySet DEF Arranged
<1>4. h # 0
  <2>1. Listed(N, U, h)
    BY <1>1 DEF Arranged
  <2> QED BY <1>2, <1>3, <2>1, NoneListed
<1>5. /\ h \in U /\ h \notin F /\ U \subseteq DOMAIN N /\ F \subseteq DOMAIN N /\ 0 \notin U /\ 0 \notin F
      /\ h \in 1 .. Top(T) /\ free \in F \cup {0}
  BY <1>1, <1>4 DEF Arranged, Listed
<1>6. \A i \in U \cup {0} : N[i].Fidx \in U \cup {0} /\ N[N[i].Fidx].Bidx = i
  BY <1>1 DEF Arranged, Listed, Ringed
<1>7. N[h].Bidx = 0 /\ \A i \in U : N[i].Fidx # h
  BY <1>1, <1>5, <1>6
<1>8. N[h].Data # Null
  BY <1>1, <1>5, ActorsAssumption DEF Arranged, Filled, Blocks
<1>9. PICK L : L = RemoveHeadIdxList(T)
  OBVIOUS
<1>10. PICK M : M = L.NodeList
  OBVIOUS
<1>11. /\ Shaped(L) /\ Top(L) = Top(T) /\ L.NodeFreeList = h /\ L.NodeCount = T.NodeCount - 1
       /\ RemovedAt(N, M, h, free)
  BY <1>1, <1>5, <1>7, <1>8, <1>9, <1>10, RemoveHeadNodes DEF Arranged
<1>12. /\ DOMAIN M = DOMAIN N
       /\ \A i \in U \ {h} : M[i].Fidx = N[i].Fidx /\ M[i].Data = N[i].Data
       /\ \A i \in F : M[i].Fidx = N[i].Fidx /\ M[i].Data = N[i].Data
       /\ M[h].Fidx = free /\ M[h].Data = Null /\ M[0].Fidx = N[h].Fidx /\ M[0].Data = N[0].Data
  BY <1>2, <1>5, <1>11 DEF RemovedAt
<1>13. Listed(M, U \ {h}, M[0].Fidx)
  <2>1. Listed(N, U, h) /\ Unmet(N, U, h) /\ SameFidx(N, M, U \ {h})
    BY <1>1, <1>7, <1>12 DEF Arranged, Unmet, SameFidx
  <2>2. Listed(M, U \ {h}, N[h].Fidx)
    BY <1>2, <1>5, <2>1, ListLeft
  <2> QED BY <1>12, <2>2
<1>14. Listed(M, F \cup {h}, h)
  <2>1. Listed(N, F, free) /\ SameFidx(N, M, F) /\ h \in DOMAIN N \ {0}
    BY <1>1, <1>5, <1>12 DEF Arranged, SameFidx
  <2> QED BY <1>2, <1>5, <1>12, <2>1, ListEntered
<1>15. Ringed(M, U \ {h})
  <2>1. ASSUME NEW i \in U \ {h} PROVE M[M[i].Fidx].Bidx = i
    <3>1. N[i].Fidx # h /\ N[i].Fidx # N[h].Fidx /\ N[i].Fidx \in DOMAIN N
      BY <1>2, <1>5, <1>6, <1>7
    <3>2. M[i].Fidx = N[i].Fidx /\ N[N[i].Fidx].Bidx = i
      BY <1>6, <1>12
    <3> QED BY <1>11, <3>1, <3>2 DEF RemovedAt
  <2>2. M[M[0].Fidx].Bidx = 0
    <3>1. N[h].Fidx # h /\ N[h].Fidx \in DOMAIN N
      BY <1>2, <1>5, <1>6, <1>7
    <3> QED BY <1>11, <1>12, <3>1 DEF RemovedAt
  <2> QED BY <2>1, <2>2 DEF Ringed
<1>16. Stacked(M, F \cup {h}, h)
  <2>1. /\ \A i \in F : N[i].Fidx # free /\ N[i].Fidx \in F \cup {0}
        /\ \A i, j \in F : N[i].Fidx = N[j].Fidx /\ N[i].Fidx # 0 => i = j
    BY <1>1 DEF Arranged, Stacked, Listed
  <2>2. \A i \in F \cup {h} : M[i].Fidx # h
    BY <1>4, <1>5, <1>12, <2>1
  <2>3. ASSUME NEW i \in F \cup {h}, NEW j \in F \cup {h}, M[i].Fidx = M[j].Fidx, M[i].Fidx # 0
        PROVE  i = j
    BY <1>5, <1>12, <2>1, <2>3
  <2> QED BY <2>2, <2>3 DEF Stacked
<1>17. Filled(M, U \ {h}, F \cup {h})
  <2>1. Filled(N, U, F)
    BY <1>1 DEF Arranged
  <2> QED BY <1>12, <2>1 DEF Filled
<1>18. L.NodeCount = Cardinality(U \ {h})
  <2>1. IsFiniteSet(U) /\ T.NodeCount = Cardinality(U)
    BY ArrangedFinite DEF Arranged
  <2>2. Cardinality(U \ {h}) = Cardinality(U) - 1
    BY <1>5, <2>1, FS_RemoveElement
  <2> QED BY <1>11, <2>1, <2>2
<1>19. (U \ {h}) \cup (F \cup {h}) = 1 .. Top(L) /\ (U \ {h}) \cap (F \cup {h}) = {}
  BY <1>5, <1>11 DEF Arranged
<1>20. Arranged(L, U \ {h}, F \cup {h})
  BY <1>10, <1>11, <1>13, <1>14, <1>15, <1>16, <1>17, <1>18, <1>19 DEF Arranged
<1> QED BY <1>5, <1>9, <1>11, <1>20

(* PmIsThreadExcluded finds every block that is in use, and only those.    *)
LEMMA ExcludedAreFound ==
    ASSUME NEW T, NEW U, NEW F, Arranged(T, U, F), NEW u \in U
    PROVE  PmIsThreadExcluded(T, T.NodeList[u].Data.Thread)
<1> DEFINE N == T.NodeList
           first == N[0].Fidx
<1>2. DOMAIN N = 0 .. Top(T) /\ 0 \in DOMAIN N /\ U \subseteq DOMAIN N /\ 0 \notin U
  BY DEF Arranged, Shaped, Top, Listed
<1>3. T.Size > 0 /\ T.Size \in Nat /\ \A i \in U : i < T.Size
  BY DEF Arranged, Shaped, Top
<1>4. Listed(N, U, first) /\ Filled(N, U, F)
  BY DEF Arranged
<1>5. \A i \in U : N[i].Data # Null /\ N[i].Data.UniqueId = i
  BY <1>4, ActorsAssumption DEF Filled, Blocks
<1> HIDE DEF N, first
<1> DEFINE blocksOf == {N[i].Data : i \in DOMAIN N} \ {Null}
           IsWalk(C) == /\ C \in SUBSET (blocksOf \cup {Null})
                        /\ GetHeadNodeIdxList(T) \in C
                        /\ \A b \in C \ {Null} : GetNextNodeIdxList(T, b.UniqueId) \in C
<1>6. GetHeadNodeIdxList(T) = N[first].Data
  BY <1>3 DEF GetHeadNodeIdxList, N, first
<1>7. \A i \in U : GetNextNodeIdxList(T, i) = N[N[i].Fidx].Data
  BY <1>3 DEF GetNextNodeIdxList, N
<1>8. ASSUME NEW C, IsWalk(C) PROVE N[u].Data \in C
  <2> DEFINE V == {i \in U \cup {0} : N[i].Data \in C} \cup {0}
  <2>1. first \in U \cup {0} /\ \A i \in U : N[i].Fidx \in U \cup {0}
    BY <1>4 DEF Listed
  <2>2. first \in V
    BY <1>6, <1>8, <2>1
  <2>3. ASSUME NEW i \in V \ {0} PROVE N[i].Fidx \in V
    <3>1. i \in U /\ N[i].Data \in C \ {Null}
      BY <1>5
    <3>2. GetNextNodeIdxList(T, i) \in C
      BY <1>5, <1>8, <3>1
    <3> QED BY <1>7, <2>1, <3>1, <3>2
  <2>4. Walk(N, V, first)
    BY <1>2, <2>2, <2>3 DEF Walk
  <2>5. u \in V
    BY <1>4, <2>4 DEF Listed
  <2> QED BY <1>2, <2>5
<1>9. N[u].Data \in blocksOf
  BY <1>2, <1>5
<1>10. \A C \in {C \in SUBSET (blocksOf \cup {Null}) :
                    /\ GetHeadNodeIdxList(T) \in C
                    /\ \A b \in C \ {Null} : GetNextNodeIdxList(T, b.UniqueId) \in C} : N[u].Data \in C
  BY <1>8, Zenon
<1> QED BY <1>9, <1>10, Zenon DEF PmIsThreadExcluded, N

(* Whom PmIsThreadExcluded finds has a block in use.                       *)
LEMMA FoundAreExcluded ==
    ASSUME NEW T, NEW U, NEW F, Arranged(T, U, F), NEW th, PmIsThreadExcluded(T, th)
    PROVE  \E u \in U : T.NodeList[u].Data.Thread = th
<1>1. PICK b \in {T.NodeList[i].Data : i \in DOMAIN T.NodeList} \ {Null} : b.Thread = th
  BY DEF PmIsThreadExcluded
<1>2. PICK i \in DOMAIN T.NodeList : b = T.NodeList[i].Data /\ T.NodeList[i].Data # Null
  BY <1>1
<1>3. i \in U
  BY <1>2 DEF Arranged, Shaped, Filled, Top
<1> QED BY <1>1, <1>2, <1>3

-----------------------------------------------------------------------------
(* The nodes in use in all the tables of P, each with its process.         *)
InUse(P) == UNION {{p} \X Used(P[p]) : p \in Procs}

(* A node in use, by its process and index.                                *)
LEMMA InUseIs ==
    ASSUME NEW P, NEW r
    PROVE  r \in InUse(P) <=> \E p \in Procs : \E i \in Used(P[p]) : r = <<p, i>>
BY DEF InUse

(* P and Q differ in the table of p at most.                               *)
SameBut(P, Q, p) == \A q \in Procs : q # p => Q[q] = P[q]

(* One more node in use in the table of p.                                 *)
LEMMA InUseGrows ==
    ASSUME NEW P, NEW Q, NEW p \in Procs, SameBut(P, Q, p), NEW i, i \notin Used(P[p]),
           Used(Q[p]) = Used(P[p]) \cup {i}, IsFiniteSet(InUse(P))
    PROVE  IsFiniteSet(InUse(Q)) /\ Cardinality(InUse(Q)) = Cardinality(InUse(P)) + 1
<1>1. InUse(Q) = InUse(P) \cup {<<p, i>>}
  BY InUseIs DEF SameBut
<1>2. <<p, i>> \notin InUse(P)
  BY InUseIs
<1> QED BY <1>1, <1>2, FS_AddElement

(* One less.                                                               *)
LEMMA InUseShrinks ==
    ASSUME NEW P, NEW Q, NEW p \in Procs, SameBut(P, Q, p), NEW i, i \in Used(P[p]),
           Used(Q[p]) = Used(P[p]) \ {i}, IsFiniteSet(InUse(P))
    PROVE  IsFiniteSet(InUse(Q)) /\ Cardinality(InUse(Q)) = Cardinality(InUse(P)) - 1
<1>1. InUse(Q) = InUse(P) \ {<<p, i>>}
  BY InUseIs DEF SameBut
<1>2. <<p, i>> \in InUse(P)
  BY InUseIs
<1> QED BY <1>1, <1>2, FS_RemoveElement

(* None left in the table of p.                                            *)
LEMMA InUseDrops ==
    ASSUME NEW P, NEW Q, NEW p \in Procs, SameBut(P, Q, p), Used(Q[p]) = {},
           IsFiniteSet(InUse(P)), IsFiniteSet(Used(P[p]))
    PROVE  /\ IsFiniteSet(InUse(Q))
           /\ Cardinality(InUse(Q)) = Cardinality(InUse(P)) - Cardinality(Used(P[p]))
<1> DEFINE S == {p} \X Used(P[p])
<1>1. InUse(Q) = InUse(P) \ S
  BY InUseIs DEF SameBut
<1>2. InUse(P) \cap S = S
  BY InUseIs
<1>3. IsFiniteSet({p}) /\ Cardinality({p}) = 1
  BY FS_Singleton
<1>4. Cardinality(S) = Cardinality({p}) * Cardinality(Used(P[p]))
  BY <1>3, FS_Product
<1>5. Cardinality(Used(P[p])) \in Nat
  BY FS_CardinalityType
<1>6. Cardinality(S) = Cardinality(Used(P[p]))
  BY <1>3, <1>4, <1>5
<1> HIDE DEF S
<1>7. IsFiniteSet(InUse(P) \ S) /\ Cardinality(InUse(P) \ S) = Cardinality(InUse(P)) - Cardinality(InUse(P) \cap S)
  BY FS_Difference
<1> QED BY <1>1, <1>2, <1>6, <1>7

(* None in any table.                                                      *)
LEMMA NoneInUse ==
    ASSUME NEW P, \A p \in Procs : Used(P[p]) = {}
    PROVE  InUse(P) = {}
BY InUseIs

(* An empty table has no node in use.                                      *)
LEMMA EmptyIsUnused == Used(EmptyIdxList) = {}
BY EmptyArranged, ArrangedIs

(* The false positives posted, and one more.                               *)
PostedOf(R) == {r \in Procs \X (1 .. MaxReports) : r[2] <= R[r[1]]}

(* The numbers a report about a process can have.                          *)
LEMMA ReportNumbers == IsFiniteSet(1 .. MaxReports) /\ Cardinality(1 .. MaxReports) = MaxReports
<1>1. MaxReports \in Int /\ 1 \in Int /\ MaxReports >= 0
  BY ActorsAssumption
<1>2. /\ IsFiniteSet(1 .. MaxReports)
      /\ Cardinality(1 .. MaxReports) = IF 1 > MaxReports THEN 0 ELSE MaxReports - 1 + 1
  BY <1>1, FS_Interval
<1> QED BY <1>1, <1>2

(* Finitely many reports have been posted.                                 *)
LEMMA PostedFinite ==
    ASSUME NEW R
    PROVE  IsFiniteSet(PostedOf(R)) /\ Cardinality(PostedOf(R)) \in Nat
<1>1. IsFiniteSet(Procs \X (1 .. MaxReports))
  BY ActorsAssumption, ReportNumbers, FS_Product
<1>2. IsFiniteSet(PostedOf(R))
  BY <1>1, FS_Subset DEF PostedOf
<1> QED BY <1>2, FS_CardinalityType

(* One more report counts as one, as long as there may be more.            *)
LEMMA PostedGrows ==
    ASSUME NEW R, R \in [Procs -> Nat], NEW p \in Procs, Cardinality(PostedOf(R)) < MaxReports,
           NEW Q, Q = [R EXCEPT ![p] = @ + 1]
    PROVE  Cardinality(PostedOf(Q)) = Cardinality(PostedOf(R)) + 1
<1>1. IsFiniteSet(PostedOf(R)) /\ Cardinality(PostedOf(R)) \in Nat /\ MaxReports \in Nat
  BY PostedFinite, ActorsAssumption
<1>2. R[p] < MaxReports
  <2> SUFFICES ASSUME MaxReports <= R[p] PROVE FALSE
    BY <1>1
  <2> DEFINE S == {p} \X (1 .. MaxReports)
  <2>1. S \subseteq PostedOf(R)
    BY <1>1 DEF PostedOf
  <2>2. Cardinality(S) = Cardinality({p}) * Cardinality(1 .. MaxReports)
    BY FS_Singleton, ReportNumbers, FS_Product
  <2>3. Cardinality({p}) = 1 /\ Cardinality(1 .. MaxReports) = MaxReports
    BY FS_Singleton, ReportNumbers
  <2>4. Cardinality(S) = MaxReports
    BY <1>1, <2>2, <2>3
  <2> HIDE DEF S
  <2>5. Cardinality(S) <= Cardinality(PostedOf(R))
    BY <1>1, <2>1, FS_Subset
  <2> QED BY <1>1, <2>4, <2>5
<1>3. PostedOf(Q) = PostedOf(R) \cup {<<p, R[p] + 1>>}
  <2>1. Q[p] = R[p] + 1 /\ \A q \in Procs : q # p => Q[q] = R[q]
    OBVIOUS
  <2>2. ASSUME NEW q \in Procs, NEW n \in 1 .. MaxReports
        PROVE  n <= Q[q] <=> n <= R[q] \/ <<q, n>> = <<p, R[p] + 1>>
    BY <1>1, <2>1
  <2>3. R[p] + 1 \in 1 .. MaxReports /\ R[p] + 1 <= Q[p]
    BY <1>1, <1>2, <2>1
  <2> HIDE DEF PostedOf
  <2>4. ASSUME NEW r PROVE r \in PostedOf(Q) <=> r \in PostedOf(R) \/ r = <<p, R[p] + 1>>
    BY <2>2, <2>3 DEF PostedOf
  <2> QED BY <2>4
<1>4. <<p, R[p] + 1>> \notin PostedOf(R)
  BY DEF PostedOf
<1> QED BY <1>1, <1>3, <1>4, FS_AddElement

-----------------------------------------------------------------------------
(* The exclusion lists.  Every table is in order, and empty when its       *)
(* process has no entry.                                                   *)
Tables ==
    /\ table = [p \in Procs |-> table[p]]
    /\ \A p \in Procs : Arranged(table[p], Used(table[p]), Free(table[p]))
    /\ \A p \in Procs \ entries : table[p] = EmptyIdxList

(* Every block is in a table, with the worker, or lost.                    *)
Counts ==
    /\ IsFiniteSet(InUse(table)) /\ lost \in Nat
    /\ blocks = Cardinality(InUse(table)) + InFlight + lost
    /\ pc[Worker] \in {"w_alloc", "w_take"} => found.id = 0

(* A block is made for a report, and is in the list of whom it is about.   *)
Pending == (IF msg = Null THEN 0 ELSE 1) + (IF pc[Worker] = "w_alloc" THEN 1 ELSE 0)

Reported ==
    /\ reports \in [Procs -> Nat] /\ msg \in Procs \cup {Null}
    /\ blocks + Pending <= Cardinality(PostedOf(reports))
    /\ Cardinality(PostedOf(reports)) <= MaxReports
    /\ msg # Null => reports[msg] > 0
    /\ pc[Worker] # "idle" => reports[found.p] > 0
    /\ \A p \in Procs : Used(table[p]) # {} => reports[p] > 0

Lived == life \in [Procs -> Nat] /\ \A p \in Procs : life[p] <= MaxLives[p]

Ranges ==
    /\ target \in Procs \cup {Null}
    /\ gProcessTree \in {"null", "live", "freed"}
    /\ fault \in {"none", "worker", "tree", "root", "assert_table", "unload"}

ListInv == Tables /\ Counts /\ Reported /\ Lived /\ Ranges

(* What is counted is a number.                                            *)
LEMMA SmallNumbers ==
    ASSUME ListInv
    PROVE  /\ InFlight \in Nat /\ InFlight' \in Nat /\ Pending \in Nat /\ Pending' \in Nat
           /\ Cardinality(InUse(table)) \in Nat /\ blocks \in Nat /\ lost \in Nat
           /\ Cardinality(PostedOf(reports)) \in Nat
<1>1. InFlight \in Nat /\ InFlight' \in Nat /\ Pending \in Nat /\ Pending' \in Nat
  BY DEF InFlight, Pending
<1>2. Cardinality(InUse(table)) \in Nat
  BY FS_CardinalityType DEF ListInv, Counts
<1>3. blocks \in Nat /\ lost \in Nat
  BY <1>1, <1>2 DEF ListInv, Counts
<1>4. Cardinality(PostedOf(reports)) \in Nat
  BY PostedFinite
<1> QED BY <1>1, <1>2, <1>3, <1>4

(* A step that leaves the lists, and the worker where it is or with its    *)
(* block; a report that waits may be dropped.                              *)
Undisturbed ==
    /\ UNCHANGED <<table, blocks, lost, found, reports, life>>
    /\ msg' \in {msg, Null}
    /\ entries \subseteq entries'
    /\ \/ pc'[Worker] = pc[Worker]
       \/ pc[Worker] \in {"w_take", "w_release"} /\ pc'[Worker] \in {"w_release", "w_check"}

(* Such a step keeps the lists.                                            *)
LEMMA UndisturbedLists ==
    ASSUME ListInv, Undisturbed, Ranges'
    PROVE  ListInv'
<1>1. Tables'
  BY DEF ListInv, Tables, Undisturbed
<1>2. Counts'
  BY DEF ListInv, Counts, Undisturbed, InFlight
<1>3. Reported'
  <2>1. Pending' <= Pending
    BY DEF Undisturbed, Pending
  <2>2. blocks' + Pending' <= Cardinality(PostedOf(reports))
    BY <2>1, SmallNumbers DEF ListInv, Reported, Undisturbed
  <2> QED BY <2>2 DEF ListInv, Reported, Undisturbed
<1>4. Lived'
  BY DEF ListInv, Lived, Undisturbed
<1> QED BY <1>1, <1>2, <1>3, <1>4 DEF ListInv

(* Releasing a lock.                                                       *)
LEMMA ReleaseKeepsLists ==
    ASSUME DriverInv, ListInv, NEW c \in Cpus, NEW x \in Contexts, ReleaseStep(c, x)
    PROVE  ListInv'
<1>1. LockInv /\ Types
  BY DEF DriverInv, LockInv
<1>2. UNCHANGED <<table, blocks, lost, found, msg, reports, life, entries, target, gProcessTree, fault>>
  BY DEF ReleaseStep, treeVars, otherVars
<1>3. Worker \in Contexts
  BY DEF Contexts, Threads
<1>4. pc'[Worker] = pc[Worker] \/ (pc[Worker] = "w_release" /\ pc'[Worker] = "w_check")
  <2>1. CASE x = Worker
    <3>1. pc[Worker] = "w_release"
      BY <1>1, <2>1, ActorsAssumption DEF ReleaseStep, ReleaseStages, Types, WorkerStages
    <3>2. PICK s : Goto(x, s) /\ s = (CASE pc[x] = "c_release" -> IF x = Entry THEN "enum" ELSE "user"
                 [] pc[x] = "d_release" -> "none"
                 [] pc[x] = "f_release" -> "down"
                 [] pc[x] = "w_release" -> "w_check"
                 [] pc[x] = "r_release" -> "guest"
                 [] pc[x] = "d_unlist" -> "d_delete"
                 [] pc[x] = "r_unlist" -> "r_release")
      BY DEF ReleaseStep
    <3>3. s = "w_check"
      BY <2>1, <3>1, <3>2
    <3> QED BY <1>1, <1>3, <2>1, <3>1, <3>2, <3>3, GotoStep
  <2>2. CASE x # Worker
    <3>1. \E s : Goto(x, s)
      BY DEF ReleaseStep
    <3> QED BY <1>1, <1>3, <2>2, <3>1, GotoStep
  <2> QED BY <2>1, <2>2
<1>5. Undisturbed
  BY <1>2, <1>4 DEF Undisturbed
<1>6. Ranges'
  BY <1>2 DEF ListInv, Ranges
<1> QED BY <1>5, <1>6, UndisturbedLists

(* PmCleanupThreadExclusionList removes and frees a block.                 *)
LEMMA BlockKeepsLists ==
    ASSUME DriverInv, ListInv, NEW c \in Cpus, NEW x \in Contexts, DeleteBlock(c, x)
    PROVE  ListInv'
<1>1. LockInv /\ Types
  BY DEF DriverInv, LockInv
<1>2. PICK p : p = Of(x)
  OBVIOUS
<1>3. p \in Procs
  <2>1. x \in Procs \cup {Entry} /\ (x = Entry => target \in Procs)
    BY <1>1, KindOfStage DEF DeleteBlock, DeleteStages, Types
  <2> QED BY <1>2, <2>1, ActorsAssumption DEF Of
<1>4. /\ table[p].NodeCount # 0
      /\ table' = [table EXCEPT ![p] = RemoveHeadIdxList(table[p])]
      /\ blocks' = blocks - (table[p].NodeCount - table'[p].NodeCount)
      /\ UNCHANGED <<pc, target, gProcessTree, entries, lost, found, msg, reports, life, fault>>
  BY <1>2 DEF DeleteBlock, otherVars
<1>5. Arranged(table[p], Used(table[p]), Free(table[p])) /\ table = [q \in Procs |-> table[q]]
  BY <1>3 DEF ListInv, Tables
<1>6. PICK h, G :
         /\ h \in Used(table[p])
         /\ Arranged(RemoveHeadIdxList(table[p]), Used(table[p]) \ {h}, G)
         /\ RemoveHeadIdxList(table[p]).NodeCount = table[p].NodeCount - 1
  BY <1>4, <1>5, RemoveHeadArranged
<1>7. /\ table'[p] = RemoveHeadIdxList(table[p]) /\ \A q \in Procs : q # p => table'[q] = table[q]
      /\ table' = [q \in Procs |-> table'[q]]
  BY <1>3, <1>4, <1>5
<1>8. Arranged(table'[p], Used(table[p]) \ {h}, G)
  BY <1>6, <1>7
<1>9. Used(table'[p]) = Used(table[p]) \ {h} /\ Free(table'[p]) = G
  BY <1>8, ArrangedIs
<1>10. p \in entries
  <2>1. EmptyIdxList.NodeCount = 0
    BY DEF EmptyIdxList
  <2> QED BY <1>3, <1>4, <2>1 DEF ListInv, Tables
<1>11. Tables'
  <2>1. \A q \in Procs : Arranged(table'[q], Used(table'[q]), Free(table'[q]))
    BY <1>7, <1>8, <1>9 DEF ListInv, Tables
  <2>2. \A q \in Procs \ entries' : table'[q] = EmptyIdxList
    BY <1>4, <1>7, <1>10 DEF ListInv, Tables
  <2> QED BY <1>7, <2>1, <2>2 DEF Tables
<1>12. IsFiniteSet(InUse(table')) /\ Cardinality(InUse(table')) = Cardinality(InUse(table)) - 1
  <2>1. SameBut(table, table', p) /\ IsFiniteSet(InUse(table))
    BY <1>7 DEF SameBut, ListInv, Counts
  <2> QED BY <1>3, <1>6, <1>9, <2>1, InUseShrinks
<1>13. blocks' = blocks - 1 /\ blocks \in Int
  <2>1. table[p].NodeCount \in Nat /\ table'[p].NodeCount = table[p].NodeCount - 1
    BY <1>5, <1>6, <1>7 DEF Arranged, Shaped
  <2>2. Cardinality(InUse(table)) \in Nat /\ InFlight \in Nat
    BY FS_CardinalityType DEF ListInv, Counts, InFlight
  <2>3. blocks \in Int
    BY <2>2 DEF ListInv, Counts
  <2> QED BY <1>4, <2>1, <2>3
<1>14. Counts'
  <2>1. InFlight' = InFlight /\ InFlight \in Nat
    BY <1>4 DEF InFlight
  <2>2. Cardinality(InUse(table)) \in Nat
    BY FS_CardinalityType DEF ListInv, Counts
  <2>3. /\ blocks' = Cardinality(InUse(table')) + InFlight' + lost'
        /\ lost' \in Nat
    BY <1>4, <1>12, <1>13, <2>1, <2>2 DEF ListInv, Counts
  <2> QED BY <1>4, <1>12, <2>3 DEF ListInv, Counts
<1>15. Reported'
  <2>1. Pending' = Pending /\ Pending \in Nat
    BY <1>4 DEF Pending
  <2>2. Cardinality(PostedOf(reports)) \in Nat
    BY PostedFinite
  <2>3. blocks' + Pending' <= Cardinality(PostedOf(reports'))
    BY <1>4, <1>13, <2>1, <2>2 DEF ListInv, Reported
  <2>4. \A q \in Procs : Used(table'[q]) # {} => reports'[q] > 0
    BY <1>4, <1>7, <1>9 DEF ListInv, Reported
  <2> QED BY <1>4, <2>3, <2>4 DEF ListInv, Reported
<1> QED BY <1>4, <1>11, <1>14, <1>15 DEF ListInv, Lived, Ranges

(* DestroyIdxList drops what is in the table.                              *)
LEMMA EntryKeepsLists ==
    ASSUME DriverInv, ListInv, NEW c \in Cpus, NEW x \in Contexts, DeleteEntry(c, x)
    PROVE  ListInv'
<1>1. LockInv /\ Types
  BY DEF DriverInv, LockInv
<1>2. PICK p : p = Of(x)
  OBVIOUS
<1>3. p \in Procs /\ x # Worker
  <2>1. x \in Procs \cup {Entry} /\ (x = Entry => target \in Procs)
    BY <1>1, KindOfStage DEF DeleteEntry, DeleteStages, Types
  <2> QED BY <1>2, <2>1, ActorsAssumption DEF Of
<1>4. /\ lost' = lost + table[p].NodeCount
      /\ table' = [table EXCEPT ![p] = EmptyIdxList]
      /\ entries' = entries \ {p}
      /\ UNCHANGED <<target, gProcessTree, blocks, found, msg, reports, life, fault>>
      /\ \E s : Goto(x, s)
  BY <1>2 DEF DeleteEntry, otherVars
<1>5. pc'[Worker] = pc[Worker]
  BY <1>1, <1>3, <1>4, GotoStep DEF Contexts, Threads
<1>6. Arranged(table[p], Used(table[p]), Free(table[p])) /\ table = [q \in Procs |-> table[q]]
  BY <1>3 DEF ListInv, Tables
<1>7. /\ table'[p] = EmptyIdxList /\ \A q \in Procs : q # p => table'[q] = table[q]
      /\ table' = [q \in Procs |-> table'[q]]
  BY <1>3, <1>4, <1>6
<1>8. Used(EmptyIdxList) = {} /\ Free(EmptyIdxList) = {} /\ Arranged(EmptyIdxList, {}, {})
  BY EmptyArranged, ArrangedIs
<1>9. Tables'
  <2>1. \A q \in Procs : Arranged(table'[q], Used(table'[q]), Free(table'[q]))
    BY <1>7, <1>8 DEF ListInv, Tables
  <2>2. \A q \in Procs \ entries' : table'[q] = EmptyIdxList
    BY <1>4, <1>7 DEF ListInv, Tables
  <2> QED BY <1>7, <2>1, <2>2 DEF Tables
<1>10. IsFiniteSet(Used(table[p])) /\ table[p].NodeCount = Cardinality(Used(table[p]))
       /\ table[p].NodeCount \in Nat
  BY <1>6, ArrangedFinite DEF Arranged, Shaped
<1>11. /\ IsFiniteSet(InUse(table'))
       /\ Cardinality(InUse(table')) = Cardinality(InUse(table)) - table[p].NodeCount
  <2>1. SameBut(table, table', p) /\ IsFiniteSet(InUse(table)) /\ Used(table'[p]) = {}
    BY <1>7, <1>8 DEF SameBut, ListInv, Counts
  <2>2. /\ IsFiniteSet(InUse(table'))
        /\ Cardinality(InUse(table')) = Cardinality(InUse(table)) - Cardinality(Used(table[p]))
    BY <1>3, <1>10, <2>1, InUseDrops
  <2> QED BY <1>10, <2>2
<1>12. Counts'
  <2>1. InFlight' = InFlight /\ InFlight \in Nat
    BY <1>4, <1>5 DEF InFlight
  <2>2. Cardinality(InUse(table)) \in Nat
    BY FS_CardinalityType DEF ListInv, Counts
  <2>3. blocks' = Cardinality(InUse(table')) + InFlight' + lost' /\ lost' \in Nat
    BY <1>4, <1>10, <1>11, <2>1, <2>2 DEF ListInv, Counts
  <2> QED BY <1>4, <1>5, <1>11, <2>3 DEF ListInv, Counts
<1>13. Reported'
  <2>1. Pending' = Pending
    BY <1>4, <1>5 DEF Pending
  <2>2. \A q \in Procs : Used(table'[q]) # {} => reports'[q] > 0
    BY <1>4, <1>7, <1>8 DEF ListInv, Reported
  <2> QED BY <1>4, <1>5, <2>1, <2>2 DEF ListInv, Reported
<1> QED BY <1>4, <1>9, <1>12, <1>13 DEF ListInv, Lived, Ranges

(* The notify routine and PmClearProcessTable.                             *)
LEMMA CallbackKeepsLists ==
    ASSUME DriverInv, ListInv, NEW c \in Cpus, NEW x \in Contexts, CallbackStep(c, x)
    PROVE  ListInv'
<1>1. LockInv /\ Types
  BY DEF DriverInv, LockInv
<1>2. CASE DeleteBlock(c, x)
  BY <1>2, BlockKeepsLists
<1>3. CASE DeleteEntry(c, x)
  BY <1>3, EntryKeepsLists
<1>4. CASE CreateFault(c, x) \/ DeleteFault(c, x)
  <2>1. /\ UNCHANGED <<pc, table, blocks, lost, found, msg, reports, life, entries, target, gProcessTree>>
        /\ fault' \in {"tree", "assert_table"}
    BY <1>4 DEF CreateFault, DeleteFault, Fault, treeVars, otherVars
  <2>2. Undisturbed /\ Ranges'
    BY <2>1 DEF Undisturbed, Ranges, ListInv
  <2> QED BY <2>2, UndisturbedLists
<1>5. CASE CreateDescribe(c, x) \/ CreateInsert(c, x) \/ CreateNoNode(c, x) \/ DeleteLookup(c, x)
             \/ DeleteCleanup(c, x)
  <2>1. /\ pc[x] \in {"c_name", "c_take", "d_take", "d_list"} /\ \E s : Goto(x, s)
        /\ UNCHANGED <<blocks, lost, found, msg, reports, life, target, gProcessTree, fault>>
    BY <1>5 DEF CreateDescribe, CreateInsert, CreateNoNode, DeleteLookup, DeleteCleanup, treeVars,
       otherVars
  <2>2. x \in Procs \cup {Entry} /\ x # Worker /\ (pc[x] = "c_take" => Of(x) \in Procs)
    <3>1. x \in Procs \cup {Entry} /\ (x = Entry /\ pc[x] = "c_take" => target \in Procs)
      BY <1>1, <2>1, KindOfStage DEF CreateStages, DeleteStages, Types
    <3> QED BY <3>1, ActorsAssumption DEF Of
  <2>3. pc'[Worker] = pc[Worker]
    BY <1>1, <2>1, <2>2, GotoStep DEF Contexts, Threads
  <2>4. entries \subseteq entries' /\ table' = table
    <3>1. CASE CreateInsert(c, x)
      <4>1. pc[x] = "c_take" /\ entries \subseteq entries'
            /\ (table' = table \/ (Of(x) \notin entries /\ table' = [table EXCEPT ![Of(x)] = EmptyIdxList]))
        BY <3>1 DEF CreateInsert
      <4>2. Of(x) \notin entries => table[Of(x)] = EmptyIdxList
        BY <2>2, <4>1 DEF ListInv, Tables
      <4>3. table = [p \in Procs |-> table[p]]
        BY DEF ListInv, Tables
      <4> QED BY <4>1, <4>2, <4>3
    <3>2. CASE ~CreateInsert(c, x)
      BY <1>5, <3>2 DEF CreateDescribe, CreateNoNode, DeleteLookup, DeleteCleanup, treeVars
    <3> QED BY <3>1, <3>2
  <2>5. Undisturbed /\ Ranges'
    BY <2>1, <2>3, <2>4 DEF Undisturbed, Ranges, ListInv
  <2> QED BY <2>5, UndisturbedLists
<1> QED BY <1>2, <1>3, <1>4, <1>5 DEF CallbackStep

(* PmInitializeProcessMonitor and PmFinalizeProcessMonitor.                *)
LEMMA MonitorKeepsLists ==
    ASSUME DriverInv, ListInv, NEW c \in Cpus, MonitorStep(c)
    PROVE  ListInv'
<1>1. LockInv /\ Types
  BY DEF DriverInv, LockInv
<1>2. /\ UNCHANGED <<table, blocks, lost, found, msg, reports, life, entries, fault>>
      /\ \E s : Goto(Entry, s)
      /\ gProcessTree' = gProcessTree \/ gProcessTree' \in {"live", "freed", "null"}
  BY DEF MonitorStep, PmInitialize, Query, Enumerate, ClearNext, UndoFree, UndoNull, Unhook,
     FinalizeTake, FinalizeFree, treeVars, otherVars
<1>3. target' = target \/ target' = Null \/ target' \in entries \/ (todo # <<>> /\ target' = Head(todo))
  BY DEF MonitorStep, PmInitialize, Query, Enumerate, ClearNext, UndoFree, UndoNull, Unhook,
     FinalizeTake, FinalizeFree
<1>4. target' \in Procs \cup {Null}
  <2>1. todo # <<>> => Head(todo) \in Procs
    BY <1>1 DEF Types
  <2> QED BY <1>1, <1>3, <2>1 DEF Types, ListInv, Ranges
<1>5. pc'[Worker] = pc[Worker]
  BY <1>1, <1>2, GotoStep, ActorsAssumption DEF Contexts, Threads
<1>6. Undisturbed /\ Ranges'
  BY <1>2, <1>4, <1>5 DEF Undisturbed, Ranges, ListInv
<1> QED BY <1>6, UndisturbedLists

(* The exit handler.                                                       *)
LEMMA RootKeepsLists ==
    ASSUME DriverInv, ListInv, NEW c \in Cpus, RootStep(c)
    PROVE  ListInv'
<1>1. LockInv /\ Types
  BY DEF DriverInv, LockInv
<1>2. /\ UNCHANGED <<table, blocks, lost, found, msg, reports, life, entries, target, gProcessTree>>
      /\ (\E s : Goto(c, s)) \/ UNCHANGED pc
      /\ fault' = fault \/ fault' = "root"
  BY DEF RootStep, RootLookup, RootWalk, RootFault, Fault, treeVars, otherVars
<1>3. pc'[Worker] = pc[Worker]
  BY <1>1, <1>2, GotoStep, ActorsAssumption DEF Contexts, Threads
<1>4. Undisturbed /\ Ranges'
  BY <1>2, <1>3 DEF Undisturbed, Ranges, ListInv
<1> QED BY <1>4, UndisturbedLists

(* DriverEntry, the service and DriverUnload.                              *)
LEMMA LifeKeepsLists ==
    ASSUME DriverInv, ListInv, NEW c \in Cpus, LifeStep(c)
    PROVE  ListInv'
<1>1. LockInv /\ Types
  BY DEF DriverInv, LockInv
<1>2. /\ UNCHANGED <<table, blocks, lost, found, reports, life, entries, target, gProcessTree>>
      /\ msg' \in {msg, Null} /\ fault' \in {fault, "unload"}
      /\ (\E s : Goto(Entry, s)) \/ UNCHANGED pc
  <2>1. CASE Detect \/ Acquire \/ Refused \/ RegisterPower \/ Started \/ FinalizeShield
    BY <2>1 DEF Detect, Acquire, Refused, RegisterPower, Started, FinalizeShield, EntryGoto, vars,
       treeVars, otherVars
  <2>2. CASE StartShield \/ StopShield \/ Unload
    BY <2>2 DEF StartShield, StopShield, Unload, Shield, treeVars
  <2>3. CASE GiveBack
    BY <2>3 DEF GiveBack, treeVars
  <2>4. CASE UnloadFault
    BY <2>4 DEF UnloadFault, Fault, treeVars, otherVars
  <2> QED BY <2>1, <2>2, <2>3, <2>4 DEF LifeStep
<1>3. pc'[Worker] = pc[Worker]
  BY <1>1, <1>2, GotoStep, ActorsAssumption DEF Contexts, Threads
<1>4. Undisturbed /\ Ranges'
  BY <1>2, <1>3 DEF Undisturbed, Ranges, ListInv
<1> QED BY <1>4, UndisturbedLists

(* The power callback.                                                     *)
LEMMA PowerKeepsLists ==
    ASSUME ListInv, PowerStep
    PROVE  ListInv'
<1>1. UNCHANGED <<pc, table, blocks, lost, found, msg, reports, life, entries, target, gProcessTree,
                  fault>>
  BY DEF PowerStep, SuspendShield, ResumeShield, Shield, treeVars
<1>2. Undisturbed /\ Ranges'
  BY <1>1 DEF Undisturbed, Ranges, ListInv
<1> QED BY <1>2, UndisturbedLists

(* A step of the worker that leaves the lists: a block it makes or gives   *)
(* back is the one it has, and a report is used once.                      *)
Forwards ==
    /\ UNCHANGED <<table, lost, entries, reports, life, target, gProcessTree, fault>>
    /\ blocks' - InFlight' = blocks - InFlight
    /\ blocks' + Pending' <= blocks + Pending
    /\ msg' \in {msg, Null}
    /\ pc'[Worker] # "idle" => reports[found'.p] > 0
    /\ pc'[Worker] \in {"w_alloc", "w_take"} => found'.id = 0

(* Such a step keeps the lists.                                            *)
LEMMA ForwardsLists ==
    ASSUME ListInv, Forwards, blocks' \in Int
    PROVE  ListInv'
<1>1. Tables'
  BY DEF ListInv, Tables, Forwards
<1>2. Counts'
  <2>1. blocks' = Cardinality(InUse(table)) + InFlight' + lost
    BY SmallNumbers DEF ListInv, Counts, Forwards
  <2> QED BY <2>1 DEF ListInv, Counts, Forwards
<1>3. Reported'
  <2>1. blocks' + Pending' <= Cardinality(PostedOf(reports))
    BY SmallNumbers DEF ListInv, Reported, Forwards
  <2> QED BY <2>1 DEF ListInv, Reported, Forwards
<1>4. Lived' /\ Ranges'
  BY DEF ListInv, Lived, Ranges, Forwards
<1> QED BY <1>1, <1>2, <1>3, <1>4 DEF ListInv

(* The block the worker links names the node it will be in.                *)
LEMMA ExclusionFits ==
    ASSUME ListInv, NEW p \in Procs, NEW data, data = Exclusion(p, InsertIdx(table[p]))
    PROVE  BlockFor(table[p], data)
<1>1. Shaped(table[p])
  BY DEF ListInv, Tables, Arranged
<1>2. InsertIdx(table[p]) \in Nat
  BY <1>1, NodesAssumption DEF Shaped, InsertIdx, MustExtend, ExtendIdxList
<1> QED BY <1>2 DEF BlockFor, Blocks, Exclusion, ListInv, Lived

(* PmExcludeThread links a block at the head of the list.                  *)
LEMMA InsertKeepsLists ==
    ASSUME DriverInv, ListInv, NEW c \in Cpus, WorkerInsert(c)
    PROVE  ListInv'
<1>1. LockInv /\ Types
  BY DEF DriverInv, LockInv
<1>2. PICK p : p = found.p
  OBVIOUS
<1>3. p \in Procs /\ p \in entries
  BY <1>1, <1>2 DEF WorkerInsert, Stale, Types
<1>4. PICK data : data = Exclusion(p, InsertIdx(table[p]))
  OBVIOUS
<1>5. /\ pc[Worker] = "w_take" /\ Goto(Worker, "w_release")
      /\ table' = [table EXCEPT ![p] = InsertHeadIdxList(table[p], data)]
      /\ found' = [found EXCEPT !.id = InsertIdx(table[p])]
      /\ UNCHANGED <<target, gProcessTree, entries, lost, blocks, msg, reports, life, fault>>
  BY <1>2, <1>4 DEF WorkerInsert
<1>6. pc'[Worker] = "w_release"
  BY <1>1, <1>5, GotoStep DEF Contexts, Threads
<1>7. Arranged(table[p], Used(table[p]), Free(table[p])) /\ table = [q \in Procs |-> table[q]]
  BY <1>3 DEF ListInv, Tables
<1>9. BlockFor(table[p], data)
  BY <1>3, <1>4, ExclusionFits
<1>10. PICK G : /\ InsertIdx(table[p]) \in Nat \ {0} /\ InsertIdx(table[p]) \notin Used(table[p])
                /\ Arranged(InsertHeadIdxList(table[p], data), Used(table[p]) \cup {InsertIdx(table[p])}, G)
  BY <1>7, <1>9, InsertArranged
<1>11. /\ table'[p] = InsertHeadIdxList(table[p], data) /\ \A q \in Procs : q # p => table'[q] = table[q]
       /\ table' = [q \in Procs |-> table'[q]]
  BY <1>3, <1>5, <1>7
<1>12. Arranged(table'[p], Used(table[p]) \cup {InsertIdx(table[p])}, G)
  BY <1>10, <1>11
<1>13. Used(table'[p]) = Used(table[p]) \cup {InsertIdx(table[p])} /\ Free(table'[p]) = G
  BY <1>12, ArrangedIs
<1>14. Tables'
  <2>1. \A q \in Procs : Arranged(table'[q], Used(table'[q]), Free(table'[q]))
    BY <1>11, <1>12, <1>13 DEF ListInv, Tables
  <2>2. \A q \in Procs \ entries' : table'[q] = EmptyIdxList
    BY <1>3, <1>5, <1>11 DEF ListInv, Tables
  <2> QED BY <1>11, <2>1, <2>2 DEF Tables
<1>15. IsFiniteSet(InUse(table')) /\ Cardinality(InUse(table')) = Cardinality(InUse(table)) + 1
  <2>1. SameBut(table, table', p) /\ IsFiniteSet(InUse(table))
    BY <1>11 DEF SameBut, ListInv, Counts
  <2> QED BY <1>3, <1>10, <1>13, <2>1, InUseGrows
<1>16. found'.id # 0 /\ found'.p = p
  BY <1>1, <1>2, <1>5, <1>10 DEF Types
<1>17. Counts'
  <2>1. InFlight' = 0 /\ InFlight = 1
    BY <1>5, <1>6, <1>16 DEF InFlight, ListInv, Counts
  <2>2. blocks' = Cardinality(InUse(table')) + InFlight' + lost' /\ lost' \in Nat
    BY <1>5, <1>15, <2>1, SmallNumbers DEF ListInv, Counts
  <2> QED BY <1>6, <1>15, <2>2 DEF Counts
<1>18. Reported'
  <2>1. Pending' = Pending
    BY <1>5, <1>6 DEF Pending
  <2>2. reports[p] > 0
    BY <1>2, <1>5 DEF ListInv, Reported
  <2>3. \A q \in Procs : Used(table'[q]) # {} => reports'[q] > 0
    BY <1>5, <1>11, <2>2 DEF ListInv, Reported
  <2> QED BY <1>5, <1>16, <2>1, <2>2, <2>3 DEF ListInv, Reported
<1> QED BY <1>5, <1>14, <1>17, <1>18 DEF ListInv, Lived, Ranges

(* The worker.                                                             *)
LEMMA WorkerKeepsLists ==
    ASSUME DriverInv, ListInv, NEW c \in Cpus, WorkerStep(c)
    PROVE  ListInv'
<1>1. LockInv /\ Types /\ Worker \in Contexts
  BY DEF DriverInv, LockInv, Contexts, Threads
<1>2. CASE WorkerInsert(c)
  BY <1>2, InsertKeepsLists
<1>3. CASE WorkerNoRoom(c)
  <2>1. /\ pc[Worker] = "w_take" /\ Goto(Worker, "w_release")
        /\ UNCHANGED <<table, blocks, lost, found, msg, reports, life, entries, target, gProcessTree, fault>>
    BY <1>3 DEF WorkerNoRoom, treeVars, otherVars
  <2>2. pc'[Worker] = "w_release"
    BY <1>1, <2>1, GotoStep
  <2>3. Undisturbed /\ Ranges'
    BY <2>1, <2>2 DEF Undisturbed, Ranges, ListInv
  <2> QED BY <2>3, UndisturbedLists
<1>4. CASE WorkerFault(c)
  <2>1. /\ UNCHANGED <<pc, table, blocks, lost, found, msg, reports, life, entries, target, gProcessTree>>
        /\ fault' = "worker"
    BY <1>4 DEF WorkerFault, Fault, treeVars, otherVars
  <2>2. Undisturbed /\ Ranges'
    BY <2>1 DEF Undisturbed, Ranges, ListInv
  <2> QED BY <2>2, UndisturbedLists
<1>5. CASE WorkerLookup(c)
  <2>1. /\ pc[Worker] = "idle" /\ msg # Null /\ msg' = Null
        /\ UNCHANGED <<table, lost, entries, reports, life, target, gProcessTree, fault, blocks>>
        /\ \/ UNCHANGED <<found, pc>>
           \/ found'.p = msg /\ found'.id = 0 /\ Goto(Worker, "w_alloc")
    BY <1>5 DEF WorkerLookup, treeVars
  <2>2. pc'[Worker] = "idle" \/ (pc'[Worker] = "w_alloc" /\ found'.p = msg /\ found'.id = 0)
    BY <1>1, <2>1, GotoStep
  <2>3. InFlight = 0 /\ InFlight' = 0 /\ Pending = 1 /\ Pending' <= 1
    BY <2>1, <2>2 DEF InFlight, Pending
  <2>4. reports[msg] > 0 /\ blocks \in Int
    BY <2>1, SmallNumbers DEF ListInv, Reported
  <2>5. Forwards
    BY <2>1, <2>2, <2>3, <2>4, SmallNumbers DEF Forwards
  <2> QED BY <2>1, <2>4, <2>5, ForwardsLists
<1>6. CASE WorkerGiveUp(c)
  <2>1. /\ pc[Worker] = "w_alloc" /\ Goto(Worker, "idle")
        /\ UNCHANGED <<table, lost, entries, reports, life, target, gProcessTree, fault, blocks, msg>>
    BY <1>6 DEF WorkerGiveUp, treeVars
  <2>2. pc'[Worker] = "idle"
    BY <1>1, <2>1, GotoStep
  <2>3. InFlight = 0 /\ InFlight' = 0 /\ Pending' <= Pending
    BY <2>1, <2>2 DEF InFlight, Pending
  <2>4. blocks' \in Int /\ Forwards
    BY <2>1, <2>2, <2>3, SmallNumbers DEF Forwards
  <2> QED BY <2>4, ForwardsLists
<1>7. CASE WorkerAllocate(c)
  <2>1. /\ pc[Worker] = "w_alloc" /\ Goto(Worker, "w_take") /\ blocks' = blocks + 1
        /\ UNCHANGED <<table, lost, entries, reports, life, target, gProcessTree, fault, msg, found>>
    BY <1>7 DEF WorkerAllocate, otherVars
  <2>2. pc'[Worker] = "w_take"
    BY <1>1, <2>1, GotoStep
  <2>3. found.id = 0 /\ reports[found.p] > 0
    BY <2>1 DEF ListInv, Counts, Reported
  <2>4. InFlight = 0 /\ InFlight' = 1 /\ Pending' = Pending - 1
    BY <2>1, <2>2, <2>3 DEF InFlight, Pending
  <2>5. blocks' \in Int /\ Forwards
    BY <2>1, <2>2, <2>3, <2>4, SmallNumbers DEF Forwards
  <2> QED BY <2>5, ForwardsLists
<1>8. CASE WorkerCheck(c)
  <2>1. /\ pc[Worker] = "w_check" /\ Goto(Worker, "idle")
        /\ blocks' = IF found.id = 0 THEN blocks - 1 ELSE blocks
        /\ UNCHANGED <<table, lost, entries, reports, life, target, gProcessTree, fault, msg>>
    BY <1>8 DEF WorkerCheck
  <2>2. pc'[Worker] = "idle"
    BY <1>1, <2>1, GotoStep
  <2>3. InFlight' = 0 /\ InFlight = (IF found.id = 0 THEN 1 ELSE 0) /\ Pending' = Pending
    BY <2>1, <2>2 DEF InFlight, Pending
  <2>4. blocks' \in Int /\ Forwards
    BY <2>1, <2>2, <2>3, SmallNumbers DEF Forwards
  <2> QED BY <2>4, ForwardsLists
<1> QED BY <1>2, <1>3, <1>4, <1>5, <1>6, <1>7, <1>8 DEF WorkerStep

(* Context switches, processes and the detector.                           *)
LEMMA EnvironmentKeepsLists ==
    ASSUME DriverInv, ListInv, Environment
    PROVE  ListInv'
<1>1. LockInv /\ Types /\ Worker \in Contexts
  BY DEF DriverInv, LockInv, Contexts, Threads
<1>2. ASSUME NEW c \in Cpus, NEW x \in Threads, Switch(c, x)
      PROVE  ListInv'
  <2>1. /\ UNCHANGED <<table, blocks, lost, found, msg, reports, life, entries, target, gProcessTree, fault>>
        /\ (\E s : Goto(c, s)) \/ UNCHANGED pc
    BY <1>2 DEF Switch, treeVars, otherVars
  <2>2. pc'[Worker] = pc[Worker]
    BY <1>1, <2>1, GotoStep, ActorsAssumption DEF Contexts, Threads
  <2>3. Undisturbed /\ Ranges'
    BY <2>1, <2>2 DEF Undisturbed, Ranges, ListInv
  <2> QED BY <2>3, UndisturbedLists
<1>3. ASSUME NEW c \in Cpus, NEW p \in Procs, ProcessExit(c, p)
      PROVE  ListInv'
  <2>1. /\ UNCHANGED <<table, blocks, lost, found, msg, reports, life, entries, target, gProcessTree, fault>>
        /\ \E s : Goto(p, s)
    BY <1>3 DEF ProcessExit, treeVars, otherVars
  <2>2. pc'[Worker] = pc[Worker]
    BY <1>1, <2>1, GotoStep, ActorsAssumption DEF Contexts, Threads
  <2>3. Undisturbed /\ Ranges'
    BY <2>1, <2>2 DEF Undisturbed, Ranges, ListInv
  <2> QED BY <2>3, UndisturbedLists
<1>4. ASSUME NEW p \in Procs, ProcessStart(p)
      PROVE  ListInv'
  <2>1. /\ UNCHANGED <<table, blocks, lost, found, msg, reports, entries, target, gProcessTree, fault>>
        /\ life[p] < MaxLives[p] /\ life' = [life EXCEPT ![p] = life[p] + 1]
        /\ \E s : Goto(p, s)
    BY <1>4 DEF ProcessStart, treeVars
  <2>2. pc'[Worker] = pc[Worker]
    BY <1>1, <2>1, GotoStep, ActorsAssumption DEF Contexts, Threads
  <2>3. Lived'
    <3>1. life \in [Procs -> Nat] /\ \A q \in Procs : life[q] <= MaxLives[q] /\ MaxLives[q] \in Nat
      BY ActorsAssumption DEF ListInv, Lived
    <3>2. life' \in [Procs -> Nat] /\ \A q \in Procs : life'[q] <= MaxLives[q]
      BY <2>1, <3>1
    <3> QED BY <3>2 DEF Lived
  <2>4. Tables' /\ Counts'
    BY <2>1, <2>2 DEF ListInv, Tables, Counts, InFlight
  <2>5. Reported'
    BY <2>1, <2>2 DEF ListInv, Reported, Pending
  <2> QED BY <2>1, <2>3, <2>4, <2>5 DEF ListInv, Ranges
<1>5. ASSUME NEW c \in Cpus, NEW p \in Procs, Trim(c, p)
      PROVE  ListInv'
  <2>1. UNCHANGED <<pc, table, blocks, lost, found, life, entries, target, gProcessTree, fault>>
    BY <1>5 DEF Trim, treeVars
  <2>2. CASE UNCHANGED <<msg, reports>>
    <3>1. Undisturbed /\ Ranges'
      BY <2>1, <2>2 DEF Undisturbed, Ranges, ListInv
    <3> QED BY <3>1, UndisturbedLists
  <2>3. CASE ~UNCHANGED <<msg, reports>>
    <3>1. /\ msg = Null /\ Cardinality(PostedOf(reports)) < MaxReports
          /\ reports' = [reports EXCEPT ![p] = reports[p] + 1] /\ msg' = p
      BY <1>5, <2>3 DEF Trim, Posted, PostedOf
    <3>2. reports \in [Procs -> Nat]
      BY DEF ListInv, Reported
    <3>3. Cardinality(PostedOf(reports')) = Cardinality(PostedOf(reports)) + 1
      BY <3>1, <3>2, PostedGrows
    <3>4. Pending' = Pending + 1
      BY <2>1, <3>1, ActorsAssumption DEF Pending
    <3>5. /\ blocks' + Pending' <= Cardinality(PostedOf(reports'))
          /\ Cardinality(PostedOf(reports')) <= MaxReports
      BY <2>1, <3>1, <3>3, <3>4, SmallNumbers, ActorsAssumption DEF ListInv, Reported
    <3>6. reports' \in [Procs -> Nat] /\ \A q \in Procs : reports[q] > 0 => reports'[q] > 0
      BY <3>1, <3>2
    <3>7. reports'[p] > 0
      BY <3>1, <3>2
    <3>8. pc'[Worker] # "idle" => reports'[found'.p] > 0
      BY <1>1, <2>1, <3>6 DEF ListInv, Reported, Types
    <3>9. \A q \in Procs : Used(table'[q]) # {} => reports'[q] > 0
      BY <2>1, <3>6 DEF ListInv, Reported
    <3>10. Reported'
      BY <3>1, <3>5, <3>6, <3>7, <3>8, <3>9 DEF Reported
    <3>11. Tables' /\ Counts'
      BY <2>1 DEF ListInv, Tables, Counts, InFlight
    <3> QED BY <2>1, <3>10, <3>11 DEF ListInv, Lived, Ranges
  <2> QED BY <2>2, <2>3
<1> QED BY <1>2, <1>3, <1>4, <1>5 DEF Environment

(* The lists are empty when the driver is loaded.                          *)
LEMMA InitLists == DInit => ListInv
<1> SUFFICES ASSUME DInit PROVE ListInv
  OBVIOUS
<1>1. /\ pc[Worker] = "idle" /\ msg = Null /\ found.id = 0 /\ blocks = 0 /\ lost = 0
      /\ table = [p \in Procs |-> EmptyIdxList] /\ reports = [p \in Procs |-> 0]
      /\ life = [p \in Procs |-> 0] /\ target = Null /\ gProcessTree = "null" /\ fault = "none"
      /\ entries = {}
  BY ActorsAssumption DEF DInit, Init, Contexts, Threads, Nothing
<1>2. Used(EmptyIdxList) = {} /\ Free(EmptyIdxList) = {} /\ Arranged(EmptyIdxList, {}, {})
  BY EmptyArranged, ArrangedIs
<1>3. \A p \in Procs : table[p] = EmptyIdxList
  BY <1>1
<1>4. Tables
  BY <1>1, <1>2, <1>3 DEF Tables
<1>5. \A p \in Procs : Used(table[p]) = {}
  BY <1>2, <1>3
<1>6. InUse(table) = {}
  BY <1>5, NoneInUse
<1>7. IsFiniteSet(InUse(table)) /\ Cardinality(InUse(table)) = 0
  BY <1>6, FS_EmptySet
<1>8. Counts
  BY <1>1, <1>7 DEF Counts, InFlight
<1>9. PostedOf(reports) = {}
  BY <1>1 DEF PostedOf
<1>10. Cardinality(PostedOf(reports)) = 0
  BY <1>9, FS_EmptySet
<1>11. Reported
  BY <1>1, <1>5, <1>10, ActorsAssumption DEF Reported, Pending
<1>12. Lived /\ Ranges
  BY <1>1, ActorsAssumption DEF Lived, Ranges
<1> QED BY <1>4, <1>8, <1>11, <1>12 DEF ListInv

(* The lists are in order in every state of the driver.                    *)
LEMMA ListInvariant == DSpec => []ListInv
<1>1. DriverInv /\ ListInv /\ [DNext]_allVars => ListInv'
  <2> SUFFICES ASSUME DriverInv, ListInv, [DNext]_allVars PROVE ListInv'
    OBVIOUS
  <2>1. CASE UNCHANGED allVars
    <3>1. UNCHANGED <<pc, table, blocks, lost, found, msg, reports, life, entries, target, gProcessTree, fault>>
      BY <2>1 DEF allVars, vars, treeVars, otherVars
    <3>2. Undisturbed /\ Ranges'
      BY <3>1 DEF Undisturbed, Ranges, ListInv
    <3> QED BY <3>2, UndisturbedLists
  <2>2. ASSUME NEW c \in Cpus, Step(c)
        PROVE  ListInv'
    <3>1. PICK x \in Contexts : \/ ReleaseStep(c, x)
                                \/ CallbackStep(c, x)
                                \/ x = Entry /\ MonitorStep(c)
                                \/ x = Worker /\ WorkerStep(c)
                                \/ x = c /\ RootStep(c)
      BY <2>2 DEF Step
    <3> QED BY <3>1, ReleaseKeepsLists, CallbackKeepsLists, MonitorKeepsLists,
               WorkerKeepsLists, RootKeepsLists
  <2> QED BY <2>1, <2>2, EnvironmentKeepsLists, LifeKeepsLists, PowerKeepsLists
     DEF DNext, CpuStep
<1> QED BY <1>1, InitLists, DriverInvariant, PTL DEF DSpec

(* The exclusion lists are in order, with any number of processors,        *)
(* processes, lives and reports: each table is well linked and a walk by   *)
(* UniqueId finds every exclusion (idxlist.c, PmIsThreadExcluded), every   *)
(* block is in one list, with the worker or lost (PmExcludeThread,         *)
(* PmCleanupThreadExclusionList, DestroyIdxList), and the unload leaves    *)
(* none but the lost.                                                      *)
THEOREM ListsAreSound == DSpec => []ListsSound
<1>1. DriverInv /\ LeftInv /\ ListInv => ListsSound
  <2> SUFFICES ASSUME DriverInv, LeftInv, ListInv PROVE ListsSound
    OBVIOUS
  <2>1. Types
    BY DEF DriverInv, LockInv
  <2>2. TypeOK
    <3>1. blocks \in 0 .. MaxReports
      BY SmallNumbers, ActorsAssumption DEF ListInv, Reported
    <3>2. \A p \in Procs : life[p] \in 0 .. MaxLives[p]
      BY ActorsAssumption DEF ListInv, Lived
    <3>3. res \subseteq Resources
      BY DEF LeftInv, Held
    <3>4. /\ target \in Procs \cup {Null} /\ gProcessTree \in {"null", "live", "freed"}
          /\ msg \in Procs \cup {Null} /\ fault \in {"none", "worker", "tree", "root", "assert_table", "unload"}
      BY DEF ListInv, Ranges, Reported
    <3> QED BY <2>1, <3>1, <3>2, <3>3, <3>4 DEF TypeOK, Types
  <2>3. ListsInOrder
    <3> SUFFICES ASSUME NEW p \in entries
                 PROVE  /\ WellLinked(table[p])
                        /\ \A i \in Used(table[p]) :
                             /\ table[p].NodeList[i].Data.UniqueId = i
                             /\ PmIsThreadExcluded(table[p], table[p].NodeList[i].Data.Thread)
      BY DEF ListsInOrder
    <3>1. Arranged(table[p], Used(table[p]), Free(table[p]))
      BY <2>1 DEF Types, ListInv, Tables
    <3>2. WellLinked(table[p])
      BY <3>1, ArrangedWell
    <3>3. \A i \in Used(table[p]) : table[p].NodeList[i].Data.UniqueId = i
      BY <3>1 DEF Arranged, Filled
    <3>4. ASSUME NEW i \in Used(table[p])
          PROVE  PmIsThreadExcluded(table[p], table[p].NodeList[i].Data.Thread)
      BY <3>1, ExcludedAreFound
    <3> QED BY <3>2, <3>3, <3>4
  <2>4. BlocksAccounted
    BY DEF ListInv, Counts, InUse, BlocksAccounted
  <2>5. NoBlockLeft
    <3> SUFFICES ASSUME pc[Entry] \in {"returned", "gone"}, pc[Worker] = "idle"
                 PROVE  blocks = lost
      BY DEF NoBlockLeft
    <3>1. entries = {}
      BY DEF LeftInv, Deleted
    <3>2. \A p \in Procs : Used(table[p]) = {}
      BY <3>1, EmptyIsUnused DEF ListInv, Tables
    <3>3. InUse(table) = {}
      BY <3>2, NoneInUse
    <3>4. Cardinality(InUse(table)) = 0
      BY <3>3, FS_EmptySet
    <3>5. InFlight = 0
      BY DEF InFlight
    <3> QED BY <3>4, <3>5 DEF ListInv, Counts
  <2> QED BY <2>2, <2>3, <2>4, <2>5 DEF ListsSound
<1> QED BY <1>1, DriverInvariant, LeftInvariant, ListInvariant, PTL

-----------------------------------------------------------------------------
(* The exempt threads.  Who runs is alive, without the shield nobody is    *)
(* exempt, and processor c runs the thread of p with CR4.TSD clear only    *)
(* while the list of p has it, until p cleans that list up.  What a resume *)
(* has started after DriverUnload's stop trusts nobody in this sense.      *)
Ending == {"none", "d_unlist", "d_delete", "d_release"}
Alive == \A c \in Cpus : run[c] \in Procs => pc[run[c]] # "none"
Unshielded == tsd = [c \in Cpus |-> tsd[c]] /\ (~shielded => \A c \in Cpus : tsd[c] = "unshielded")
Trusted(c, p) ==
    /\ run[c] = p /\ tsd[c] = "exempt" /\ pc[c] \notin {"r_take", "r_list"} /\ pc[p] \notin Ending
    /\ ~late
Excludes(p) == p \in entries /\ <<p, life[p]>> \in Excluded(p)
Warranted == \A c \in Cpus, p \in Procs : Trusted(c, p) => Excludes(p)

ExemptInv == Alive /\ Unshielded /\ Warranted

(* A step keeps the exclusions of the threads that are trusted.            *)
Keeps(p) == p \in entries => p \in entries' /\ life'[p] = life[p] /\ Excluded(p) \subseteq Excluded(p)'
KeepsTrusted == \A c \in Cpus, p \in Procs : Trusted(c, p) => Keeps(p)

(* A table that stays excludes whom it excluded.                           *)
LEMMA SameExcluded ==
    ASSUME NEW p, table'[p] = table[p]
    PROVE  Excluded(p)' = Excluded(p)
BY DEF Excluded

(* Tables, lives and entries that stay keep every exclusion.               *)
LEMMA AllKept ==
    ASSUME UNCHANGED <<table, life>>, entries \subseteq entries'
    PROVE  KeepsTrusted
BY DEF KeepsTrusted, Keeps, Excluded

(* A step of context x that lets nobody be trusted who was not.            *)
Untrusting(x, s) ==
    /\ Goto(x, s) /\ run' = run /\ late' = late
    /\ \A c \in Cpus : tsd'[c] = "exempt" => tsd[c] = "exempt"
    /\ x \in Procs => (s = "none" => pc[x] = "none") /\ (pc[x] \in Ending => s \in Ending)
    /\ x \in Cpus /\ pc[x] \in {"r_take", "r_list"} => s \in {"r_take", "r_list"} \/ tsd'[x] # "exempt"

(* Such a step keeps the exempt threads listed.                            *)
LEMMA UntrustingStep ==
    ASSUME LockInv, ExemptInv, NEW x \in Contexts, NEW s, Untrusting(x, s), KeepsTrusted, Unshielded'
    PROVE  ExemptInv'
<1>1. pc'[x] = s /\ \A y \in Contexts : y # x => pc'[y] = pc[y]
  BY GotoStep DEF Untrusting
<1>2. Alive'
  BY <1>1 DEF ExemptInv, Alive, Untrusting, Contexts, Threads
<1>3. ASSUME NEW c \in Cpus, NEW p \in Procs, Trusted(c, p)'
      PROVE  Excludes(p)'
  <2>1. c \in Contexts /\ p \in Contexts
    BY DEF Contexts, Threads
  <2>2. run[c] = p /\ tsd[c] = "exempt" /\ ~late
    BY <1>3 DEF Trusted, Untrusting
  <2>3. pc[p] \notin Ending
    BY <1>1, <1>3, <2>1 DEF Trusted, Untrusting
  <2>4. pc[c] \notin {"r_take", "r_list"}
    BY <1>1, <1>3, <2>1 DEF Trusted, Untrusting
  <2>5. Trusted(c, p)
    BY <2>2, <2>3, <2>4 DEF Trusted
  <2>6. Excludes(p) /\ Keeps(p)
    BY <2>5 DEF ExemptInv, Warranted, KeepsTrusted
  <2> QED BY <2>6 DEF Excludes, Keeps
<1> QED BY <1>2, <1>3 DEF ExemptInv, Warranted

(* A step that leaves the shield and CR4.TSD alone.                        *)
LEMMA SameShield ==
    ASSUME ExemptInv, UNCHANGED <<tsd, shielded>>
    PROVE  Unshielded'
BY DEF ExemptInv, Unshielded

(* Not to move is to go where one is.                                      *)
LEMMA GotoSame ==
    ASSUME LockInv, NEW x \in Contexts, UNCHANGED pc
    PROVE  Goto(x, pc[x])
BY DEF LockInv, Types, Goto

(* Whatever a step does for context x, it moves no other, and stops at     *)
(* most the one processor that x is on.                                    *)
LEMMA ReleaseKeepsExempt ==
    ASSUME DriverInv, ExemptInv, NEW c \in Cpus, NEW x \in Contexts, On(c, x), ReleaseStep(c, x),
           UNCHANGED late
    PROVE  ExemptInv'
<1>1. LockInv /\ Types /\ Placed
  BY DEF DriverInv, LockInv
<1>2. /\ pc[x] \in ReleaseStages
      /\ UNCHANGED <<table, life, entries, tsd, shielded>>
      /\ run' = [run EXCEPT ![c] = IF pc[x] = "d_release" THEN Null ELSE run[c]]
  BY DEF ReleaseStep, treeVars, otherVars
<1>3. KeepsTrusted /\ Unshielded'
  BY <1>2, AllKept, SameShield
<1>4. PICK s : Goto(x, s) /\ s = (CASE pc[x] = "c_release" -> IF x = Entry THEN "enum" ELSE "user"
             [] pc[x] = "d_release" -> "none"
             [] pc[x] = "f_release" -> "down"
             [] pc[x] = "w_release" -> "w_check"
             [] pc[x] = "r_release" -> "guest"
             [] pc[x] = "d_unlist" -> "d_delete"
             [] pc[x] = "r_unlist" -> "r_release")
  BY DEF ReleaseStep
<1>5. CASE pc[x] = "d_release"
  <2>1. x \in Procs
    BY <1>1, <1>5, ActorsAssumption DEF Types, Contexts, Threads, WorkerStages, CpuStages, EntryStages,
       CreateStages, DeleteStages
  <2>2. run[c] = x /\ pc[c] = "guest"
    BY <2>1, ActorsAssumption DEF On
  <2>3. \A d \in Cpus : d # c => run[d] # x
    BY <1>1, <2>1, <2>2, ActorsAssumption DEF Placed
  <2>4. run'[c] = Null /\ \A d \in Cpus : d # c => run'[d] = run[d]
    BY <1>1, <1>2, <1>5 DEF Types
  <2>5. \A y \in Contexts : y # x => pc'[y] = pc[y]
    BY <1>1, <1>4, GotoStep
  <2>6. Alive'
    BY <2>3, <2>4, <2>5, ActorsAssumption DEF ExemptInv, Alive, Contexts, Threads
  <2>7. ASSUME NEW d \in Cpus, NEW p \in Procs, Trusted(d, p)'
        PROVE  Excludes(p)'
    <3>1. d # c /\ p # x
      BY <2>3, <2>4, <2>7, ActorsAssumption DEF Trusted
    <3>2. d # x
      BY <2>1, ActorsAssumption
    <3>3. pc'[d] = pc[d] /\ pc'[p] = pc[p] /\ run'[d] = run[d]
      BY <2>4, <2>5, <3>1, <3>2 DEF Contexts, Threads
    <3>4. Trusted(d, p)
      BY <1>2, <2>7, <3>3 DEF Trusted
    <3>5. Excludes(p) /\ Keeps(p)
      BY <1>3, <3>4 DEF ExemptInv, Warranted, KeepsTrusted
    <3> QED BY <3>5 DEF Excludes, Keeps
  <2> QED BY <1>3, <2>6, <2>7 DEF ExemptInv, Warranted
<1>6. CASE pc[x] # "d_release"
  <2>1. run' = run
    BY <1>1, <1>2, <1>6 DEF Types
  <2>2. x \in Procs => s # "none" /\ (pc[x] \in Ending => s \in Ending)
    <3>1. x \in Procs => pc[x] \in {"c_release", "d_unlist"} /\ x # Entry
      BY <1>1, <1>2, <1>6, ActorsAssumption DEF Types, ReleaseStages, ProcStages, CreateStages, DeleteStages
    <3>2. x \in Procs => (pc[x] = "c_release" /\ s = "user") \/ (pc[x] = "d_unlist" /\ s = "d_delete")
      BY <1>4, <3>1
    <3> QED BY <3>2 DEF Ending
  <2>3. pc[x] \notin {"r_take", "r_list"}
    BY <1>2 DEF ReleaseStages
  <2>4. Untrusting(x, s)
    BY <1>2, <1>4, <2>1, <2>2, <2>3 DEF Untrusting
  <2> QED BY <1>1, <1>3, <2>4, UntrustingStep
<1> QED BY <1>5, <1>6

(* While a list is cleaned up or dropped, nobody relies on it: its process *)
(* is ending, or the shield is down.                                       *)
LEMMA NoneTrusted ==
    ASSUME DriverInv, ExemptInv, NEW x \in Contexts, pc[x] \in {"d_unlist", "d_delete"},
           NEW c \in Cpus, NEW p \in Procs, Trusted(c, p)
    PROVE  Of(x) # p
<1>1. x \in Procs \cup {Entry} /\ Types
  BY KindOfStage DEF DriverInv, LockInv, DeleteStages
<1>2. CASE x \in Procs
  <2>1. Of(x) = x
    BY <1>2, ActorsAssumption DEF Of
  <2> QED BY <2>1 DEF Trusted, Ending
<1>3. CASE x = Entry
  <2>1. ~shielded \/ late
    BY <1>3 DEF DriverInv, StageInv, Users
  <2>2. tsd[c] = "unshielded" \/ late
    BY <2>1 DEF ExemptInv, Unshielded
  <2> QED BY <2>2 DEF Trusted
<1> QED BY <1>1, <1>2, <1>3

(* The notify routine and PmClearProcessTable.                             *)
LEMMA CallbackKeepsExempt ==
    ASSUME DriverInv, ListInv, ExemptInv, NEW c \in Cpus, NEW x \in Contexts, CallbackStep(c, x),
           UNCHANGED late
    PROVE  ExemptInv'
<1>1. LockInv /\ Types /\ table = [q \in Procs |-> table[q]]
  BY DEF DriverInv, LockInv, ListInv, Tables
<1>2. /\ pc[x] \in {"c_name", "c_take", "d_take", "d_list", "d_unlist", "d_delete"}
      /\ UNCHANGED <<run, life, tsd, shielded>>
  BY DEF CallbackStep, CreateDescribe, CreateInsert, CreateNoNode, CreateFault, DeleteLookup,
     DeleteCleanup, DeleteBlock, DeleteEntry, DeleteFault, Fault, cpuVars, otherVars
<1>3. x \in Procs \cup {Entry} /\ x \notin Cpus /\ (x \in Procs => x # Entry)
  BY <1>1, <1>2, KindOfStage, ActorsAssumption DEF CreateStages, DeleteStages
<1>4. Unshielded'
  BY <1>2, SameShield
<1>5. PICK s : /\ Goto(x, s)
               /\ \/ s = pc[x]
                  \/ s # "none" /\ (pc[x] \in {"d_unlist", "d_delete"} => s \in Ending \/ x = Entry)
  <2>1. CASE UNCHANGED pc
    BY <1>1, <2>1, GotoSame
  <2>2. CASE DeleteEntry(c, x)
    <3>1. PICK t : Goto(x, t) /\ t = (CASE x \in Procs -> "d_release"
                 [] x = Entry /\ hooked -> "undo"
                 [] x = Entry /\ ~hooked -> "f_clear")
      BY <2>2 DEF DeleteEntry
    <3>2. hooked \in BOOLEAN
      BY <1>1 DEF Types
    <3>3. (x \in Procs => t = "d_release") /\ (x = Entry => t \in {"undo", "f_clear"})
      BY <1>3, <3>1, <3>2
    <3> QED BY <1>3, <3>1, <3>3 DEF Ending
  <2>3. CASE CreateDescribe(c, x) \/ CreateInsert(c, x) \/ CreateNoNode(c, x) \/ DeleteLookup(c, x)
              \/ DeleteCleanup(c, x)
    BY <2>3 DEF CreateDescribe, CreateInsert, CreateNoNode, DeleteLookup, DeleteCleanup
  <2> QED BY <2>1, <2>2, <2>3 DEF CallbackStep, CreateFault, DeleteBlock, DeleteFault, Fault
<1>6. Untrusting(x, s)
  <2>1. x \in Procs => (pc[x] \in Ending => s \in Ending)
    BY <1>2, <1>3, <1>5 DEF Ending
  <2> QED BY <1>2, <1>3, <1>5, <2>1 DEF Untrusting
<1>7. KeepsTrusted
  <2> SUFFICES ASSUME NEW d \in Cpus, NEW p \in Procs, Trusted(d, p), p \in entries
               PROVE  p \in entries' /\ table'[p] = table[p]
    BY <1>2, SameExcluded DEF KeepsTrusted, Keeps
  <2>1. CASE DeleteBlock(c, x)
    <3>1. Of(x) # p
      BY <2>1, NoneTrusted DEF DeleteBlock
    <3>2. entries' = entries /\ \E T : table' = [table EXCEPT ![Of(x)] = T]
      BY <2>1 DEF DeleteBlock
    <3> QED BY <1>1, <3>1, <3>2
  <2>2. CASE DeleteEntry(c, x)
    <3>1. Of(x) # p
      BY <2>2, NoneTrusted DEF DeleteEntry
    <3>2. entries' = entries \ {Of(x)} /\ \E T : table' = [table EXCEPT ![Of(x)] = T]
      BY <2>2 DEF DeleteEntry
    <3> QED BY <1>1, <3>1, <3>2
  <2>3. CASE CreateInsert(c, x)
    <3>1. \/ UNCHANGED <<entries, table>>
          \/ /\ Of(x) \notin entries /\ entries' = entries \cup {Of(x)}
             /\ \E T : table' = [table EXCEPT ![Of(x)] = T]
      BY <2>3 DEF CreateInsert
    <3> QED BY <1>1, <3>1
  <2>4. CASE UNCHANGED <<entries, table>>
    BY <2>4
  <2> QED BY <2>1, <2>2, <2>3, <2>4 DEF CallbackStep, CreateDescribe, CreateNoNode, CreateFault,
             DeleteLookup, DeleteCleanup, DeleteFault, Fault, treeVars
<1> QED BY <1>1, <1>4, <1>6, <1>7, UntrustingStep

(* PmInitializeProcessMonitor and PmFinalizeProcessMonitor.                *)
LEMMA MonitorKeepsExempt ==
    ASSUME DriverInv, ExemptInv, NEW c \in Cpus, MonitorStep(c),
           UNCHANGED late
    PROVE  ExemptInv'
<1>1. LockInv /\ Entry \in Contexts /\ Entry \notin Procs \cup Cpus
  BY ActorsAssumption DEF DriverInv, Contexts, Threads
<1>2. UNCHANGED <<run, table, life, entries, tsd, shielded>> /\ \E s : Goto(Entry, s)
  BY DEF MonitorStep, PmInitialize, Query, Enumerate, ClearNext, UndoFree, UndoNull, Unhook,
     FinalizeTake, FinalizeFree, cpuVars, treeVars, otherVars
<1>3. KeepsTrusted /\ Unshielded'
  BY <1>2, AllKept, SameShield
<1>4. PICK s : Untrusting(Entry, s)
  BY <1>1, <1>2 DEF Untrusting
<1> QED BY <1>1, <1>3, <1>4, UntrustingStep

(* The worker: an exclusion that is added leaves the others.               *)
LEMMA WorkerKeepsExempt ==
    ASSUME DriverInv, ListInv, ExemptInv, NEW c \in Cpus, WorkerStep(c),
           UNCHANGED late
    PROVE  ExemptInv'
<1>1. LockInv /\ Types /\ Worker \in Contexts /\ Worker \notin Procs \cup Cpus
  BY ActorsAssumption DEF DriverInv, LockInv, Contexts, Threads
<1>2. UNCHANGED <<run, life, entries, tsd, shielded>> /\ ((\E s : Goto(Worker, s)) \/ UNCHANGED pc)
  BY DEF WorkerStep, WorkerLookup, WorkerGiveUp, WorkerAllocate, WorkerInsert, WorkerNoRoom, WorkerCheck,
     WorkerFault, Fault, cpuVars, treeVars, otherVars
<1>3. Unshielded'
  BY <1>2, SameShield
<1>4. PICK s : Untrusting(Worker, s)
  BY <1>1, <1>2, GotoSame DEF Untrusting
<1>5. KeepsTrusted
  <2>1. CASE UNCHANGED table
    BY <1>2, <2>1, AllKept
  <2>2. CASE WorkerInsert(c)
    <3>1. PICK p : p = found.p
      OBVIOUS
    <3>2. p \in Procs
      BY <1>1, <2>2, <3>1 DEF WorkerInsert, Types
    <3>3. PICK data : data = Exclusion(p, InsertIdx(table[p]))
      OBVIOUS
    <3>4. table' = [table EXCEPT ![p] = InsertHeadIdxList(table[p], data)]
      BY <2>2, <3>1, <3>3 DEF WorkerInsert
    <3>5. Arranged(table[p], Used(table[p]), Free(table[p])) /\ table = [q \in Procs |-> table[q]]
      BY <3>2 DEF ListInv, Tables
    <3>6. table'[p] = InsertHeadIdxList(table[p], data) /\ \A q \in Procs : q # p => table'[q] = table[q]
      BY <3>2, <3>4, <3>5
    <3>7. BlockFor(table[p], data)
      BY <3>2, <3>3, <3>5, ExclusionFits
    <3>8. PICK G : /\ Arranged(InsertHeadIdxList(table[p], data), Used(table[p]) \cup {InsertIdx(table[p])}, G)
                   /\ SameData(table[p].NodeList, InsertHeadIdxList(table[p], data).NodeList, Used(table[p]))
      BY <3>5, <3>7, InsertArranged
    <3>9. /\ Arranged(table'[p], Used(table[p]) \cup {InsertIdx(table[p])}, G)
          /\ SameData(table[p].NodeList, table'[p].NodeList, Used(table[p]))
      BY <3>6, <3>8
    <3>10. Used(table'[p]) = Used(table[p]) \cup {InsertIdx(table[p])}
      BY <3>9, ArrangedIs
    <3>11. Excluded(p) \subseteq Excluded(p)'
      BY <3>9, <3>10 DEF Excluded, SameData
    <3>12. \A q \in Procs : Excluded(q) \subseteq Excluded(q)'
      BY <3>6, <3>11, SameExcluded
    <3> QED BY <1>2, <3>12 DEF KeepsTrusted, Keeps
  <2> QED BY <2>1, <2>2 DEF WorkerStep, WorkerLookup, WorkerGiveUp, WorkerAllocate, WorkerNoRoom,
             WorkerCheck, WorkerFault, Fault, treeVars
<1> QED BY <1>1, <1>3, <1>4, <1>5, UntrustingStep

(* The exit handler: PmIsThreadExcluded says yes only for a thread whose   *)
(* exclusion is in the list.                                               *)
LEMMA RootKeepsExempt ==
    ASSUME DriverInv, ListInv, ExemptInv, NEW c \in Cpus, RootStep(c),
           UNCHANGED late
    PROVE  ExemptInv'
<1>1. LockInv /\ Types /\ c \in Contexts /\ c \notin Procs
  BY ActorsAssumption DEF DriverInv, LockInv, Contexts
<1>2. /\ UNCHANGED <<run, table, life, entries, shielded>>
      /\ \/ UNCHANGED <<tsd, pc>>
         \/ pc[c] \in {"r_take", "r_list"} /\ \E v : tsd' = [tsd EXCEPT ![c] = v]
         \/ UNCHANGED tsd /\ pc[c] = "r_take" /\ Goto(c, "r_list")
  BY DEF RootStep, RootLookup, RootWalk, RootFault, Fault, cpuVars, treeVars, otherVars
<1>3. Unshielded'
  <2>1. pc[c] # "guest" => shielded
    BY DEF DriverInv, StageInv, Users
  <2> QED BY <1>2, <2>1 DEF ExemptInv, Unshielded
<1>4. KeepsTrusted
  BY <1>2, AllKept
<1>5. \A d \in Cpus : d # c => tsd'[d] = tsd[d]
  BY <1>2 DEF ExemptInv, Unshielded
<1>6. tsd = [d \in Cpus |-> tsd[d]]
  BY DEF ExemptInv, Unshielded
<1>7. CASE RootFault(c)
  <2>1. Untrusting(c, pc[c])
    BY <1>1, <1>7, GotoSame DEF RootFault, Fault, cpuVars, otherVars, Untrusting
  <2> QED BY <1>1, <1>3, <1>4, <2>1, UntrustingStep
<1>8. CASE RootLookup(c)
  <2>1. PICK s : Goto(c, s) /\ ((s = "r_list" /\ UNCHANGED tsd) \/ tsd' = [tsd EXCEPT ![c] = "set"])
    BY <1>8 DEF RootLookup
  <2>2. tsd'[c] = "exempt" => s = "r_list" /\ tsd' = tsd
    BY <1>6, <2>1
  <2>3. Untrusting(c, s)
    BY <1>1, <1>2, <1>5, <2>1, <2>2 DEF Untrusting
  <2> QED BY <1>1, <1>3, <1>4, <2>3, UntrustingStep
<1>9. CASE RootWalk(c)
  <2>1. PICK p : p = Of(c)
    OBVIOUS
  <2>2. /\ p = run[c] /\ p \in entries /\ p \in Procs /\ pc[c] = "r_list" /\ Goto(c, "r_unlist")
        /\ tsd' = [tsd EXCEPT ![c] = IF PmIsThreadExcluded(table[p], <<p, life[p]>>)
                                     THEN "exempt" ELSE "set"]
    <3>1. p = run[c]
      BY <1>1, <2>1, ActorsAssumption DEF Of
    <3> QED BY <1>1, <1>9, <2>1, <3>1 DEF RootWalk, Types
  <2>3. CASE ~PmIsThreadExcluded(table[p], <<p, life[p]>>)
    <3>1. tsd'[c] # "exempt"
      BY <1>6, <2>2, <2>3
    <3>2. Untrusting(c, "r_unlist")
      BY <1>1, <1>2, <1>5, <2>2, <3>1 DEF Untrusting
    <3> QED BY <1>1, <1>3, <1>4, <3>2, UntrustingStep
  <2>4. CASE PmIsThreadExcluded(table[p], <<p, life[p]>>)
    <3>1. Arranged(table[p], Used(table[p]), Free(table[p]))
      BY <2>2 DEF ListInv, Tables
    <3>2. \E u \in Used(table[p]) : table[p].NodeList[u].Data.Thread = <<p, life[p]>>
      BY <2>4, <3>1, FoundAreExcluded
    <3>3. Excludes(p)
      BY <2>2, <3>2 DEF Excludes, Excluded
    <3>4. Excludes(p)'
      BY <1>2, <3>3 DEF Excludes, Excluded
    <3>5. \A y \in Contexts : y # c => pc'[y] = pc[y]
      BY <1>1, <2>2, GotoStep
    <3>6. Alive'
      BY <1>1, <1>2, <3>5, ActorsAssumption DEF ExemptInv, Alive, Contexts, Threads
    <3>7. ASSUME NEW d \in Cpus, NEW q \in Procs, Trusted(d, q)'
          PROVE  Excludes(q)'
      <4>1. CASE d = c
        BY <1>2, <2>2, <3>4, <3>7, <4>1 DEF Trusted
      <4>2. CASE d # c
        <5>1. pc'[d] = pc[d] /\ pc'[q] = pc[q] /\ tsd'[d] = tsd[d] /\ run'[d] = run[d]
          BY <1>1, <1>2, <1>5, <3>5, <4>2 DEF Contexts, Threads
        <5>2. Trusted(d, q)
          BY <3>7, <5>1 DEF Trusted
        <5>3. Excludes(q)
          BY <5>2 DEF ExemptInv, Warranted
        <5> QED BY <1>2, <5>3 DEF Excludes, Excluded
      <4> QED BY <4>1, <4>2
    <3> QED BY <1>3, <3>6, <3>7 DEF ExemptInv, Warranted
  <2> QED BY <2>3, <2>4
<1> QED BY <1>7, <1>8, <1>9 DEF RootStep

(* Context switches, processes and the detector: a thread that is switched *)
(* to is not trusted before the exit handler has looked.                   *)
LEMMA EnvironmentKeepsExempt ==
    ASSUME DriverInv, ExemptInv, Environment,
           UNCHANGED late
    PROVE  ExemptInv'
<1>1. LockInv /\ Types /\ Placed
  BY DEF DriverInv, LockInv
<1>2. ASSUME NEW c \in Cpus, NEW x \in Threads, Switch(c, x)
      PROVE  ExemptInv'
  <2>1. /\ UNCHANGED <<table, life, entries, tsd, shielded>> /\ Ready(x)
        /\ run' = [run EXCEPT ![c] = x]
        /\ IF shielded THEN Goto(c, "r_take") ELSE UNCHANGED pc
    BY <1>2 DEF Switch, treeVars, otherVars
  <2>2. Unshielded' /\ KeepsTrusted /\ c \in Contexts
    BY <2>1, AllKept, SameShield DEF Contexts
  <2>3. run'[c] = x /\ \A d \in Cpus : d # c => run'[d] = run[d]
    BY <1>1, <2>1 DEF Types
  <2>4. (shielded => pc'[c] = "r_take") /\ \A y \in Contexts : y # c => pc'[y] = pc[y]
    BY <1>1, <2>1, <2>2, GotoStep
  <2>5. x \in Procs => pc[x] # "none"
    BY <2>1, ActorsAssumption DEF Ready
  <2>6. Alive'
    BY <1>1, <2>3, <2>4, <2>5, ActorsAssumption DEF ExemptInv, Alive, Contexts, Threads
  <2>7. ASSUME NEW d \in Cpus, NEW p \in Procs, Trusted(d, p)'
        PROVE  Excludes(p)'
    <3>1. tsd[d] = "exempt" /\ shielded
      BY <1>1, <2>1, <2>7 DEF Trusted, ExemptInv, Unshielded, Types
    <3>2. d # c
      BY <2>4, <2>7, <3>1 DEF Trusted
    <3>3. pc'[d] = pc[d] /\ pc'[p] = pc[p] /\ run'[d] = run[d]
      BY <2>3, <2>4, <3>2, ActorsAssumption DEF Contexts, Threads
    <3>4. Trusted(d, p)
      BY <2>1, <2>7, <3>3 DEF Trusted
    <3>5. Excludes(p) /\ Keeps(p)
      BY <2>2, <3>4 DEF ExemptInv, Warranted, KeepsTrusted
    <3> QED BY <3>5 DEF Excludes, Keeps
  <2> QED BY <2>2, <2>6, <2>7 DEF ExemptInv, Warranted
<1>3. ASSUME NEW c \in Cpus, NEW p \in Procs, ProcessExit(c, p)
      PROVE  ExemptInv'
  <2>1. /\ UNCHANGED <<table, life, entries, tsd, shielded>> /\ run[c] = p /\ pc[p] = "user"
        /\ \/ Goto(p, "d_take") /\ UNCHANGED run
           \/ Goto(p, "none") /\ run' = [run EXCEPT ![c] = Null]
    BY <1>3 DEF ProcessExit, treeVars, otherVars
  <2>2. Unshielded' /\ KeepsTrusted /\ p \in Contexts
    BY <2>1, AllKept, SameShield DEF Contexts, Threads
  <2>3. CASE Goto(p, "d_take") /\ UNCHANGED run
    <3>1. Untrusting(p, "d_take")
      BY <2>1, <2>3, ActorsAssumption DEF Untrusting, Ending
    <3> QED BY <1>1, <2>2, <3>1, UntrustingStep
  <2>4. CASE Goto(p, "none") /\ run' = [run EXCEPT ![c] = Null]
    <3>1. \A d \in Cpus : d # c => run[d] # p
      BY <1>1, <2>1, ActorsAssumption DEF Placed
    <3>2. run'[c] = Null /\ \A d \in Cpus : d # c => run'[d] = run[d]
      BY <1>1, <2>4 DEF Types
    <3>3. \A y \in Contexts : y # p => pc'[y] = pc[y]
      BY <1>1, <2>2, <2>4, GotoStep
    <3>4. Alive'
      BY <3>1, <3>2, <3>3, ActorsAssumption DEF ExemptInv, Alive, Contexts, Threads
    <3>5. ASSUME NEW d \in Cpus, NEW q \in Procs, Trusted(d, q)'
          PROVE  Excludes(q)'
      <4>1. d # c /\ q # p /\ d # p
        BY <3>1, <3>2, <3>5, ActorsAssumption DEF Trusted
      <4>2. pc'[d] = pc[d] /\ pc'[q] = pc[q] /\ run'[d] = run[d]
        BY <3>2, <3>3, <4>1 DEF Contexts, Threads
      <4>3. Trusted(d, q)
        BY <2>1, <3>5, <4>2 DEF Trusted
      <4>4. Excludes(q) /\ Keeps(q)
        BY <2>2, <4>3 DEF ExemptInv, Warranted, KeepsTrusted
      <4> QED BY <4>4 DEF Excludes, Keeps
    <3> QED BY <2>2, <3>4, <3>5 DEF ExemptInv, Warranted
  <2> QED BY <2>1, <2>3, <2>4
<1>4. ASSUME NEW p \in Procs, ProcessStart(p)
      PROVE  ExemptInv'
  <2>1. /\ UNCHANGED <<run, table, entries, tsd, shielded>> /\ pc[p] = "none"
        /\ \A q \in Procs : q # p => life'[q] = life[q]
    BY <1>4 DEF ProcessStart, cpuVars, treeVars
  <2>2. PICK s : Goto(p, s) /\ s # "none"
    BY <1>4 DEF ProcessStart
  <2>3. p \in Contexts /\ Unshielded'
    BY <2>1, SameShield DEF Contexts, Threads
  <2>4. pc'[p] # "none" /\ \A y \in Contexts : y # p => pc'[y] = pc[y]
    BY <1>1, <2>2, <2>3, GotoStep
  <2>5. \A c \in Cpus : run[c] # p
    BY <2>1 DEF ExemptInv, Alive
  <2>6. Alive'
    BY <2>1, <2>4 DEF ExemptInv, Alive, Contexts, Threads
  <2>7. ASSUME NEW d \in Cpus, NEW q \in Procs, Trusted(d, q)'
        PROVE  Excludes(q)'
    <3>1. q # p /\ d # p
      BY <2>1, <2>5, <2>7, ActorsAssumption DEF Trusted
    <3>2. pc'[d] = pc[d] /\ pc'[q] = pc[q]
      BY <2>4, <3>1 DEF Contexts, Threads
    <3>3. Trusted(d, q)
      BY <2>1, <2>7, <3>2 DEF Trusted
    <3>4. Excludes(q) /\ life'[q] = life[q]
      BY <2>1, <3>1, <3>3 DEF ExemptInv, Warranted
    <3> QED BY <2>1, <3>4 DEF Excludes, Excluded
  <2> QED BY <2>3, <2>6, <2>7 DEF ExemptInv, Warranted
<1>5. ASSUME NEW c \in Cpus, NEW p \in Procs, Trim(c, p)
      PROVE  ExemptInv'
  <2>1. /\ UNCHANGED <<run, pc, table, life, entries, shielded>> /\ tsd[c] = "set"
        /\ tsd' = [tsd EXCEPT ![c] = "trimmed"]
    BY <1>5 DEF Trim, Watched, cpuVars, treeVars
  <2>2. Unshielded' /\ \A d \in Cpus : tsd'[d] = "exempt" => tsd[d] = "exempt"
    BY <2>1 DEF ExemptInv, Unshielded
  <2>3. KeepsTrusted /\ c \in Contexts
    BY <2>1, AllKept DEF Contexts
  <2>4. Goto(c, pc[c])
    BY <1>1, <2>1, <2>3, GotoSame
  <2>5. Untrusting(c, pc[c])
    BY <2>1, <2>2, <2>4 DEF Untrusting
  <2> QED BY <1>1, <2>2, <2>3, <2>5, UntrustingStep
<1> QED BY <1>2, <1>3, <1>4, <1>5 DEF Environment

(* DriverEntry, the service and DriverUnload.                              *)
LEMMA LifeKeepsExempt ==
    ASSUME DriverInv, ExemptInv, NEW c \in Cpus, LifeStep(c)
    PROVE  ExemptInv'
<1>1. LockInv /\ Entry \in Contexts /\ Entry \notin Procs \cup Cpus
  BY ActorsAssumption DEF DriverInv, Contexts, Threads
<1>2. /\ UNCHANGED <<run, table, life, entries, late>>
      /\ (\E s : Goto(Entry, s)) \/ UNCHANGED pc
      /\ \/ UNCHANGED <<tsd, shielded>>
         \/ shielded' = TRUE /\ tsd' = [d \in Cpus |-> "set"]
         \/ tsd' = [d \in Cpus |-> "unshielded"]
  <2>1. CASE Detect \/ Acquire \/ Refused \/ RegisterPower \/ Started \/ FinalizeShield
    BY <2>1 DEF Detect, Acquire, Refused, RegisterPower, Started, FinalizeShield, EntryGoto, vars,
       cpuVars, treeVars, otherVars, driverVars
  <2>2. CASE StartShield \/ StopShield \/ Unload
    BY <2>2 DEF StartShield, StopShield, Unload, Shield, cpuVars, treeVars, driverVars
  <2>3. CASE GiveBack
    BY <2>3 DEF GiveBack, cpuVars, treeVars
  <2>4. CASE UnloadFault
    BY <2>4 DEF UnloadFault, Fault, cpuVars, treeVars, otherVars, driverVars
  <2> QED BY <2>1, <2>2, <2>3, <2>4 DEF LifeStep
<1>3. Unshielded' /\ \A d \in Cpus : tsd'[d] = "exempt" => tsd[d] = "exempt"
  BY <1>2 DEF ExemptInv, Unshielded
<1>4. KeepsTrusted
  BY <1>2, AllKept
<1>5. \E s : Goto(Entry, s)
  BY <1>1, <1>2, GotoSame
<1>6. PICK s : Untrusting(Entry, s)
  BY <1>1, <1>2, <1>3, <1>5 DEF Untrusting
<1> QED BY <1>1, <1>3, <1>4, <1>6, UntrustingStep

(* The power callback: a shield that is stopped trusts nobody, and one     *)
(* that is started nobody yet.                                             *)
LEMMA PowerKeepsExempt ==
    ASSUME ExemptInv, PowerStep
    PROVE  ExemptInv'
<1>1. UNCHANGED <<run, pc, table, life, entries>>
  BY DEF PowerStep, SuspendShield, ResumeShield, Shield, cpuVars, treeVars
<1>2. CASE UNCHANGED <<tsd, shielded, late>>
  BY <1>1, <1>2 DEF ExemptInv, Alive, Unshielded, Warranted, Trusted, Excludes, Excluded
<1>3. ASSUME NEW on \in BOOLEAN, Shield(on)
      PROVE  ExemptInv'
  <2>1. /\ shielded' = on
        /\ tsd' = [c \in Cpus |-> IF on THEN "set" ELSE "unshielded"]
    BY <1>3 DEF Shield
  <2>2. \A c \in Cpus : tsd'[c] # "exempt"
    BY <2>1
  <2>3. Unshielded'
    BY <2>1 DEF Unshielded
  <2> QED BY <1>1, <2>2, <2>3 DEF ExemptInv, Alive, Warranted, Trusted
<1> QED BY <1>2, <1>3 DEF PowerStep, SuspendShield, ResumeShield

(* Exempt threads are listed in every state of the driver.                 *)
LEMMA ExemptInvariant == DSpec => []ExemptInv
<1>1. DInit => ExemptInv
  <2> SUFFICES ASSUME DInit PROVE ExemptInv
    OBVIOUS
  <2>1. run = [c \in Cpus |-> Null] /\ tsd = [c \in Cpus |-> "unshielded"]
    BY DEF DInit, Init
  <2> QED BY <2>1, ActorsAssumption DEF ExemptInv, Alive, Unshielded, Warranted, Trusted
<1>2. DriverInv /\ ListInv /\ ExemptInv /\ [DNext]_allVars => ExemptInv'
  <2> SUFFICES ASSUME DriverInv, ListInv, ExemptInv, [DNext]_allVars PROVE ExemptInv'
    OBVIOUS
  <2>1. CASE UNCHANGED allVars
    <3>1. UNCHANGED <<pc, run, table, life, entries, tsd, shielded, late>>
      BY <2>1 DEF allVars, vars, cpuVars, treeVars, otherVars, driverVars
    <3> QED BY <3>1 DEF ExemptInv, Alive, Unshielded, Warranted, Trusted, Excludes, Excluded
  <2>2. ASSUME NEW c \in Cpus, Step(c), UNCHANGED driverVars
        PROVE  ExemptInv'
    <3>1. PICK x \in Contexts : /\ On(c, x)
                                /\ \/ ReleaseStep(c, x)
                                   \/ CallbackStep(c, x)
                                   \/ x = Entry /\ MonitorStep(c)
                                   \/ x = Worker /\ WorkerStep(c)
                                   \/ x = c /\ RootStep(c)
      BY <2>2 DEF Step
    <3>2. UNCHANGED late
      BY <2>2 DEF driverVars
    <3> QED BY <3>1, <3>2, ReleaseKeepsExempt, CallbackKeepsExempt, MonitorKeepsExempt,
               WorkerKeepsExempt, RootKeepsExempt
  <2>3. CASE Environment /\ UNCHANGED driverVars
    BY <2>3, EnvironmentKeepsExempt DEF driverVars
  <2> QED BY <2>1, <2>2, <2>3, LifeKeepsExempt, PowerKeepsExempt DEF DNext, CpuStep
<1> QED BY <1>1, <1>2, DriverInvariant, ListInvariant, PTL DEF DSpec

(* A thread runs with CR4.TSD clear for more than a time slice only while  *)
(* the list of its process has it, and has it because the detector         *)
(* reported its process (PmGetClientTrustLevel, HvmTrimTsdForQuantum), on  *)
(* any number of processors and however often a process id is used again,  *)
(* as long as no resume has started the shield after DriverUnload's stop.  *)
THEOREM ExemptAreExcluded == DSpec => []ExemptAreListed
<1>1. ListInv /\ ExemptInv => ExemptAreListed
  <2> SUFFICES ASSUME ListInv, ExemptInv, NEW c \in Cpus, NEW p \in Procs, run[c] = p, pc[p] = "user",
                      pc[c] = "guest", tsd[c] = "exempt", ~late
               PROVE  p \in entries /\ <<p, life[p]>> \in Excluded(p) /\ reports[p] > 0
    BY DEF ExemptAreListed
  <2>1. Trusted(c, p)
    BY DEF Trusted, Ending
  <2>2. Excludes(p)
    BY <2>1 DEF ExemptInv, Warranted
  <2>3. Used(table[p]) # {}
    BY <2>2 DEF Excludes, Excluded
  <2>4. reports[p] > 0
    BY <2>3 DEF ListInv, Reported
  <2> QED BY <2>2, <2>4 DEF Excludes
<1> QED BY <1>1, ListInvariant, ExemptInvariant, PTL
=============================================================================
