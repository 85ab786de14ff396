-------------------------------- MODULE Sync --------------------------------
(***************************************************************************)
(* The spin lock, the semaphore and the reusable barrier of src/src/sync.c *)
(*                                                                         *)
(* Threads meet at one barrier for ever: BarrierEnter, then BarrierExit,   *)
(* then BarrierEnter again.  The two are mirror images: the last thread to *)
(* arrive takes the token out of the turnstile everybody has gone through  *)
(* before and puts it into the one they wait at.  A turnstile is a         *)
(* semaphore, a count under a spin lock of its own; each interlocked       *)
(* operation is a step.                                                    *)
(***************************************************************************)
EXTENDS Integers, FiniteSets

CONSTANTS Threads,      \* the threads that meet: maxThreads of them
          NoThread      \* the holder of a free lock

ASSUME ThreadsAssumption == IsFiniteSet(Threads) /\ Threads # {} /\ NoThread \notin Threads

maxThreads == Cardinality(Threads)

VARIABLES
    lock,       \* barrier->lock: the thread that holds it, or NoThread
    count,      \* barrier->count
    sem,        \* sem[s]: lock and count of turnstile s
    pc,         \* pc[t]: where t is in BarrierEnter or BarrierExit
    sub,        \* sub[t]: where it is in SemaphoreWait or SemaphoreSignal
    tmp,        \* tmp[t]: the count it has read there
    done        \* done[t]: the calls it has returned from, modulo 4

vars == <<lock, count, sem, pc, sub, tmp, done>>

Turnstiles == {1, 2}
Stages == {"call", "count", "close", "open", "unlock", "wait", "signal"}

(* The turnstile that a call lets its threads through, and the other one.  *)
Entering(t) == done[t] % 2 = 0
Front(t) == IF Entering(t) THEN 1 ELSE 2
Back(t) == IF Entering(t) THEN 2 ELSE 1

(* BarrierSet.                                                             *)
Init ==
    /\ lock = NoThread
    /\ count = 0
    /\ sem = [s \in Turnstiles |-> [lock |-> NoThread, count |-> IF s = 2 THEN 1 ELSE 0]]
    /\ pc = [t \in Threads |-> "call"]
    /\ sub = [t \in Threads |-> "lock"]
    /\ tmp = [t \in Threads |-> 0]
    /\ done = [t \in Threads |-> 0]

Goto(t, stage) == pc' = [pc EXCEPT ![t] = stage]

(* Mutant: the result of the exchange is not looked at.                    *)
SpinLockBlind(t) ==
    /\ pc[t] = "call"
    /\ lock' = t
    /\ Goto(t, "count")
    /\ UNCHANGED <<count, sem, sub, tmp, done>>

(* SpinLock: SpinTryLock until the exchange succeeds.                      *)
SpinLock(t) ==
    /\ pc[t] = "call"
    /\ lock = NoThread
    /\ lock' = t
    /\ Goto(t, "count")
    /\ UNCHANGED <<count, sem, sub, tmp, done>>

SpinUnlock(t) ==
    /\ pc[t] = "unlock"
    /\ lock' = NoThread
    /\ Goto(t, "wait")
    /\ UNCHANGED <<count, sem, sub, tmp, done>>

(* Mutant: one thread more than there are is waited for.                   *)
LastOneMore(t) == count' = IF Entering(t) THEN maxThreads + 1 ELSE 0

Last(t) == count' = IF Entering(t) THEN maxThreads ELSE 0

(* Mutant: the last thread but one opens the turnstile.                    *)
ArriveEarly(t) ==
    /\ pc[t] = "count"
    /\ count' = count + (IF Entering(t) THEN 1 ELSE -1)
    /\ Goto(t, IF count' = (IF Entering(t) THEN maxThreads - 1 ELSE 0) THEN "close" ELSE "unlock")
    /\ UNCHANGED <<lock, sem, sub, tmp, done>>

(* The count, under the lock of the barrier.                               *)
Arrive(t) ==
    /\ pc[t] = "count"
    /\ count' = count + (IF Entering(t) THEN 1 ELSE -1)
    /\ Goto(t, IF Last(t) THEN "close" ELSE "unlock")
    /\ UNCHANGED <<lock, sem, sub, tmp, done>>

(***************************************************************************)
(* The semaphore call t is in, on turnstile SemOf(t).                      *)
(***************************************************************************)
Waiting(t) == pc[t] \in {"close", "wait"}
Signalling(t) == pc[t] \in {"open", "signal"}
SemOf(t) == IF pc[t] = "close" THEN Back(t) ELSE Front(t)

AfterSem(stage) ==
    CASE stage = "close" -> "open"
      [] stage = "open" -> "unlock"
      [] stage = "wait" -> "signal"
      [] stage = "signal" -> "call"

SemLock(t) ==
    /\ Waiting(t) \/ Signalling(t)
    /\ sub[t] = "lock"
    /\ sem[SemOf(t)].lock = NoThread
    /\ sem' = [sem EXCEPT ![SemOf(t)].lock = t]
    /\ sub' = [sub EXCEPT ![t] = "read"]
    /\ UNCHANGED <<lock, count, pc, tmp, done>>

(* SemaphoreWait finds no token: it lets go of the lock and tries again.   *)
SemRetry(t) ==
    /\ Waiting(t)
    /\ sub[t] = "read"
    /\ sem[SemOf(t)].count < 1
    /\ sem' = [sem EXCEPT ![SemOf(t)].lock = NoThread]
    /\ sub' = [sub EXCEPT ![t] = "lock"]
    /\ UNCHANGED <<lock, count, pc, tmp, done>>

SemRead(t) ==
    /\ Waiting(t) \/ Signalling(t)
    /\ sub[t] = "read"
    /\ Waiting(t) => sem[SemOf(t)].count >= 1
    /\ tmp' = [tmp EXCEPT ![t] = sem[SemOf(t)].count]
    /\ sub' = [sub EXCEPT ![t] = "write"]
    /\ UNCHANGED <<lock, count, sem, pc, done>>

SemWrite(t) ==
    /\ sub[t] = "write"
    /\ sem' = [sem EXCEPT ![SemOf(t)].count = tmp[t] + (IF Waiting(t) THEN -1 ELSE 1)]
    /\ sub' = [sub EXCEPT ![t] = "unlock"]
    /\ UNCHANGED <<lock, count, pc, tmp, done>>

Return(t) == done' = [done EXCEPT ![t] = IF pc[t] = "signal" THEN (@ + 1) % 4 ELSE @]

SemUnlock(t) ==
    /\ sub[t] = "unlock"
    /\ sem' = [sem EXCEPT ![SemOf(t)].lock = NoThread]
    /\ sub' = [sub EXCEPT ![t] = "lock"]
    /\ tmp' = [tmp EXCEPT ![t] = 0]
    /\ Goto(t, AfterSem(pc[t]))
    /\ Return(t)
    /\ UNCHANGED <<lock, count>>

Step(t) ==
    \/ SpinLock(t)
    \/ Arrive(t)
    \/ SpinUnlock(t)
    \/ SemLock(t)
    \/ SemRetry(t)
    \/ SemRead(t)
    \/ SemWrite(t)
    \/ SemUnlock(t)

Next == \E t \in Threads : Step(t)

Spec == Init /\ [][Next]_vars
-----------------------------------------------------------------------------
TypeOK ==
    /\ lock \in Threads \cup {NoThread}
    /\ count \in 0 .. maxThreads
    /\ sem \in [Turnstiles -> [lock : Threads \cup {NoThread}, count : {0, 1}]]
    /\ pc \in [Threads -> Stages]
    /\ sub \in [Threads -> {"lock", "read", "write", "unlock"}]
    /\ tmp \in [Threads -> {0, 1}]
    /\ done \in [Threads -> 0 .. 3]

(* The calls t has been counted in, modulo 4.                              *)
Begun(t) == IF pc[t] \in {"call", "count"} THEN done[t] ELSE (done[t] + 1) % 4

(* BarrierEnter and BarrierExit (sync.c:144-196): no thread returns from a *)
(* call that another one has not made, in any round.  The others have made *)
(* it, or are up to two calls ahead; three calls ahead is, modulo 4, one   *)
(* behind.                                                                 *)
AllMeet == \A t, u \in Threads : (Begun(u) - done[t]) % 4 # 3

(* A thread that has taken the token out of a turnstile and not put it     *)
(* into the next yet.                                                      *)
HoldsToken(t) ==
    \/ pc[t] \in {"open", "signal"} /\ sub[t] \in {"lock", "read", "write"}
    \/ pc[t] \in {"close", "wait"} /\ sub[t] = "unlock"

(* SemaphoreWait and SemaphoreSignal (sync.c:87-127), BarrierSet           *)
(* (sync.c:130-142): there is one token; it is in one of the turnstiles or *)
(* with one thread, so at most one turnstile is open at a time.            *)
OneToken ==
    sem[1].count + sem[2].count + Cardinality({t \in Threads : HoldsToken(t)}) = 1

(* SpinLock (sync.c:18-25): the count of the barrier and the turnstiles    *)
(* are changed by one thread at a time.                                    *)
LocksExclude ==
    /\ Cardinality({t \in Threads : pc[t] \in {"count", "close", "open", "unlock"}}) <= 1
    /\ \A s \in Turnstiles :
         Cardinality({t \in Threads : (Waiting(t) \/ Signalling(t)) /\ SemOf(t) = s
                                        /\ sub[t] # "lock"}) <= 1

(* SpinLock, SemaphoreWait and SemaphoreSignal under the barrier: the      *)
(* locks exclude and the token is in one place.                            *)
Exclusion == TypeOK /\ OneToken /\ LocksExclude

(* A thread that goes on only after another one has let go of the lock of  *)
(* the barrier, or has put the token into the turnstile it polls.          *)
Stuck(t) ==
    \/ pc[t] = "call" /\ lock # NoThread
    \/ Waiting(t) /\ sub[t] \in {"lock", "read"} /\ sem[SemOf(t)].count = 0

(* BarrierEnter and BarrierExit (sync.c:144-196): the last thread waits at *)
(* a turnstile while it holds the lock of the barrier (sync.c:162, 188),   *)
(* and still the threads never all wait for one another.                   *)
NoStandstill == \E t \in Threads : ~ Stuck(t)
=============================================================================
