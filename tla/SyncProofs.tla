----------------------------- MODULE SyncProofs -----------------------------
(***************************************************************************)
(* Proofs about Sync, for every number of threads.                         *)
(*                                                                         *)
(* The inductive invariant has three parts: who holds which lock, where    *)
(* the token is, and how far apart the threads are.  The last one names    *)
(* the call q that is being released: every thread has been counted in it, *)
(* and the threads that have returned from it gather for the next one.     *)
(***************************************************************************)
EXTENDS Sync, FiniteSetTheorems, TLAPS

InSem(t, s) == (Waiting(t) \/ Signalling(t)) /\ SemOf(t) = s /\ sub[t] # "lock"

(* A lock is held by exactly the thread that is in its section.            *)
Locks ==
    /\ \A t \in Threads : lock = t <=> pc[t] \in {"count", "close", "open", "unlock"}
    /\ \A t \in Threads, s \in Turnstiles : sem[s].lock = t <=> InSem(t, s)
    /\ \A t \in Threads : ~ (Waiting(t) \/ Signalling(t)) => sub[t] = "lock"

(* There is one token, and who is about to write has read it.              *)
Token ==
    /\ ~ (sem[1].count = 1 /\ sem[2].count = 1)
    /\ \A t, u \in Threads : HoldsToken(t) /\ HoldsToken(u) => t = u
    /\ (\E t \in Threads : HoldsToken(t)) <=> sem[1].count = 0 /\ sem[2].count = 0
    /\ \A t \in Threads : sub[t] = "write" => tmp[t] = sem[SemOf(t)].count
    /\ \A t \in Threads : sub[t] = "write" /\ Waiting(t) => tmp[t] = 1

Calls == 0 .. 3
After(q) == (q + 1) % 4
FrontOf(q) == IF q % 2 = 0 THEN 1 ELSE 2

Released(t, q) == done[t] = q /\ pc[t] \in {"close", "open", "unlock", "wait", "signal"}
Gathering(t, q) == done[t] = After(q) /\ pc[t] \in {"call", "count"}
Gathered(t, q) ==
    /\ done[t] = After(q)
    /\ pc[t] \in {"unlock", "wait"}
    /\ sub[t] \in {"lock", "read"}

GatheredSet(q) == {t \in Threads : Gathered(t, q)}

(* Call q is being released and the next one gathers.  While the last      *)
(* thread of q moves the token, all the others wait for it.                *)
Releasing(q) ==
    /\ \A t \in Threads : Released(t, q) \/ Gathering(t, q) \/ Gathered(t, q)
    /\ \E t \in Threads : ~ Gathered(t, q)
    /\ count = IF After(q) % 2 = 0 THEN Cardinality(GatheredSet(q))
                                   ELSE maxThreads - Cardinality(GatheredSet(q))
    /\ sem[FrontOf(After(q))].count = 1
         <=> \E t \in Threads : pc[t] = "close" /\ sub[t] # "unlock"
    /\ \A t, u \in Threads : pc[t] \in {"close", "open"} /\ t # u
         => done[u] = q /\ pc[u] = "wait" /\ sub[u] \in {"lock", "read"}

SInv == TypeOK /\ Locks /\ Token /\ \E q \in Calls : Releasing(q)
-----------------------------------------------------------------------------
(* Arithmetic of the calls modulo 4 and of the turnstile each one opens.   *)
LEMMA CallFacts ==
    \A q \in Calls :
       /\ After(q) \in Calls /\ After(q) # q
       /\ After(After(q)) \in Calls /\ After(After(q)) # q /\ After(After(q)) # After(q)
       /\ (After(q) % 2 = 0) <=> ~ (q % 2 = 0)
       /\ FrontOf(q) \in Turnstiles /\ FrontOf(After(q)) \in Turnstiles
       /\ FrontOf(After(q)) # FrontOf(q)
       /\ FrontOf(After(After(q))) = FrontOf(q)
<1> SUFFICES ASSUME NEW q \in Calls
             PROVE  /\ After(q) \in Calls /\ After(q) # q
                    /\ After(After(q)) \in Calls /\ After(After(q)) # q
                    /\ After(After(q)) # After(q)
                    /\ (After(q) % 2 = 0) <=> ~ (q % 2 = 0)
                    /\ FrontOf(q) \in Turnstiles /\ FrontOf(After(q)) \in Turnstiles
                    /\ FrontOf(After(q)) # FrontOf(q)
                    /\ FrontOf(After(After(q))) = FrontOf(q)
  OBVIOUS
<1>1. q = 0 \/ q = 1 \/ q = 2 \/ q = 3
  BY DEF Calls
<1> QED BY <1>1 DEF Calls, After, FrontOf, Turnstiles

(* The turnstile of a thread, in terms of the call it is in.               *)
LEMMA SemOfFacts ==
    ASSUME TypeOK, NEW t \in Threads
    PROVE  /\ done[t] \in Calls
           /\ pc[t] = "close" => SemOf(t) = FrontOf(After(done[t]))
           /\ pc[t] # "close" => SemOf(t) = FrontOf(done[t])
           /\ SemOf(t) \in Turnstiles
<1>1. done[t] \in Calls
  BY DEF TypeOK, Calls
<1>2. (After(done[t]) % 2 = 0) <=> ~ (done[t] % 2 = 0)
  BY <1>1, CallFacts
<1> QED BY <1>1, <1>2 DEF SemOf, Front, Back, Entering, FrontOf, Turnstiles

(* What is the same before and after a step for a thread it does not move. *)
LEMMA ThreadFrame ==
    ASSUME NEW u, pc'[u] = pc[u], sub'[u] = sub[u], done'[u] = done[u]
    PROVE  /\ (Waiting(u)' <=> Waiting(u)) /\ (Signalling(u)' <=> Signalling(u))
           /\ SemOf(u)' = SemOf(u)
           /\ (HoldsToken(u)' <=> HoldsToken(u))
           /\ \A s : InSem(u, s)' <=> InSem(u, s)
           /\ \A q : /\ Released(u, q)' <=> Released(u, q)
                     /\ Gathering(u, q)' <=> Gathering(u, q)
                     /\ Gathered(u, q)' <=> Gathered(u, q)
BY DEF Waiting, Signalling, SemOf, HoldsToken, InSem, Released, Gathering, Gathered,
       Front, Back, Entering, After

LEMMA SpinLockStep ==
    ASSUME SInv, NEW t \in Threads, SpinLock(t)
    PROVE  SInv'
<1> USE ThreadsAssumption
<1>0. PICK q \in Calls : Releasing(q)
  BY DEF SInv
<1>1. TypeOK'
  BY DEF SInv, TypeOK, SpinLock, Goto, Stages
<1>2. /\ \A u \in Threads : u # t => pc'[u] = pc[u] /\ sub'[u] = sub[u] /\ done'[u] = done[u]
      /\ pc[t] = "call" /\ pc'[t] = "count" /\ sub' = sub /\ done' = done /\ tmp' = tmp
      /\ lock = NoThread /\ lock' = t /\ sem' = sem /\ count' = count
  BY DEF SInv, TypeOK, SpinLock, Goto
<1>3. Locks'
  BY <1>2, ThreadFrame DEF SInv, Locks, InSem, Waiting, Signalling
<1>4. sub[t] = "lock" /\ ~ HoldsToken(t) /\ ~ HoldsToken(t)'
  BY <1>2 DEF SInv, Locks, HoldsToken, Waiting, Signalling
<1>5. Token'
  BY <1>2, <1>4, ThreadFrame DEF SInv, Token
<1>6. GatheredSet(q)' = GatheredSet(q)
  BY <1>2, ThreadFrame DEF GatheredSet, Gathered
<1>7. Releasing(q)'
  <2>1. Gathering(t, q) /\ Gathering(t, q)'
    BY <1>0, <1>2 DEF Releasing, Released, Gathering, Gathered
  <2> QED BY <1>0, <1>2, <1>6, <2>1, ThreadFrame DEF Releasing, Gathering, Gathered, maxThreads
<1> QED BY <1>1, <1>3, <1>5, <1>7 DEF SInv

LEMMA SpinUnlockStep ==
    ASSUME SInv, NEW t \in Threads, SpinUnlock(t)
    PROVE  SInv'
<1> USE ThreadsAssumption
<1>0. PICK q \in Calls : Releasing(q)
  BY DEF SInv
<1>1. TypeOK'
  BY DEF SInv, TypeOK, SpinUnlock, Goto, Stages
<1>2. /\ \A u \in Threads : u # t => pc'[u] = pc[u] /\ sub'[u] = sub[u] /\ done'[u] = done[u]
      /\ pc[t] = "unlock" /\ pc'[t] = "wait" /\ sub' = sub /\ done' = done /\ tmp' = tmp
      /\ lock' = NoThread /\ sem' = sem /\ count' = count
  BY DEF SInv, TypeOK, SpinUnlock, Goto
<1>3. lock = t /\ sub[t] = "lock" /\ \A u \in Threads : pc[u] \notin {"close", "open"}
  BY <1>2 DEF SInv, Locks, Waiting, Signalling
<1>4. Locks'
  BY <1>2, <1>3, ThreadFrame DEF SInv, Locks, InSem, Waiting, Signalling
<1>5. ~ HoldsToken(t) /\ ~ HoldsToken(t)'
  BY <1>2, <1>3 DEF HoldsToken
<1>6. Token'
  BY <1>2, <1>3, <1>5, ThreadFrame DEF SInv, Token
<1>7. GatheredSet(q)' = GatheredSet(q)
  BY <1>2, <1>3, ThreadFrame DEF GatheredSet, Gathered, After
<1>8. Releasing(q)'
  <2>1. \/ Released(t, q) /\ Released(t, q)' /\ ~ Gathered(t, q) /\ ~ Gathered(t, q)'
        \/ Gathered(t, q) /\ Gathered(t, q)'
    BY <1>0, <1>2, <1>3, CallFacts DEF Releasing, Released, Gathering, Gathered, After
  <2>2. \A u \in Threads : pc'[u] \notin {"close", "open"}
    BY <1>2, <1>3
  <2> QED BY <1>0, <1>2, <1>3, <1>7, <2>1, <2>2, ThreadFrame DEF Releasing, maxThreads
<1> QED BY <1>1, <1>4, <1>6, <1>8 DEF SInv

LEMMA SemLockStep ==
    ASSUME SInv, NEW t \in Threads, SemLock(t)
    PROVE  SInv'
<1> USE ThreadsAssumption
<1>0. PICK q \in Calls : Releasing(q)
  BY DEF SInv
<1>a. SemOf(t) \in Turnstiles
  BY SemOfFacts DEF SInv
<1>1. TypeOK'
  BY <1>a DEF SInv, TypeOK, SemLock
<1>2. /\ \A u \in Threads : u # t => pc'[u] = pc[u] /\ sub'[u] = sub[u] /\ done'[u] = done[u]
      /\ Waiting(t) \/ Signalling(t)
      /\ sub[t] = "lock" /\ sub'[t] = "read" /\ pc' = pc /\ done' = done /\ tmp' = tmp
      /\ lock' = lock /\ count' = count
      /\ sem[SemOf(t)].lock = NoThread /\ sem'[SemOf(t)].lock = t
      /\ \A s \in Turnstiles : sem'[s].count = sem[s].count
      /\ \A s \in Turnstiles : s # SemOf(t) => sem'[s].lock = sem[s].lock
  BY <1>a DEF SInv, TypeOK, SemLock
<1>3. (Waiting(t)' <=> Waiting(t)) /\ (Signalling(t)' <=> Signalling(t)) /\ SemOf(t)' = SemOf(t)
  BY <1>2 DEF Waiting, Signalling, SemOf, Front, Back, Entering
<1>4. Locks'
  BY <1>2, <1>3, <1>a, ThreadFrame DEF SInv, Locks, InSem
<1>5. HoldsToken(t)' <=> HoldsToken(t)
  BY <1>2 DEF HoldsToken
<1>6. Token'
  BY <1>2, <1>5, ThreadFrame, SemOfFacts DEF SInv, Token, Turnstiles
<1>7. \A u \in Threads : /\ Released(u, q)' <=> Released(u, q)
                         /\ Gathering(u, q)' <=> Gathering(u, q)
                         /\ Gathered(u, q)' <=> Gathered(u, q)
  BY <1>2, ThreadFrame DEF Released, Gathering, Gathered, After
<1>8. GatheredSet(q)' = GatheredSet(q)
  BY <1>7 DEF GatheredSet
<1>9. Releasing(q)'
  BY <1>0, <1>2, <1>7, <1>8, CallFacts DEF Releasing, maxThreads
<1> QED BY <1>1, <1>4, <1>6, <1>9 DEF SInv

LEMMA SemRetryStep ==
    ASSUME SInv, NEW t \in Threads, SemRetry(t)
    PROVE  SInv'
<1> USE ThreadsAssumption
<1>0. PICK q \in Calls : Releasing(q)
  BY DEF SInv
<1>a. SemOf(t) \in Turnstiles
  BY SemOfFacts DEF SInv
<1>1. TypeOK'
  BY <1>a DEF SInv, TypeOK, SemRetry
<1>2. /\ \A u \in Threads : u # t => pc'[u] = pc[u] /\ sub'[u] = sub[u] /\ done'[u] = done[u]
      /\ Waiting(t)
      /\ sub[t] = "read" /\ sub'[t] = "lock" /\ pc' = pc /\ done' = done /\ tmp' = tmp
      /\ lock' = lock /\ count' = count
      /\ sem'[SemOf(t)].lock = NoThread
      /\ \A s \in Turnstiles : sem'[s].count = sem[s].count
      /\ \A s \in Turnstiles : s # SemOf(t) => sem'[s].lock = sem[s].lock
  BY <1>a DEF SInv, TypeOK, SemRetry
<1>3. (Waiting(t)' <=> Waiting(t)) /\ (Signalling(t)' <=> Signalling(t)) /\ SemOf(t)' = SemOf(t)
  BY <1>2 DEF Waiting, Signalling, SemOf, Front, Back, Entering
<1>4. Locks'
  BY <1>2, <1>3, <1>a, ThreadFrame DEF SInv, Locks, InSem
<1>5. HoldsToken(t)' <=> HoldsToken(t)
  BY <1>2 DEF HoldsToken, Waiting
<1>6. Token'
  BY <1>2, <1>5, ThreadFrame, SemOfFacts DEF SInv, Token, Turnstiles
<1>7. \A u \in Threads : /\ Released(u, q)' <=> Released(u, q)
                         /\ Gathering(u, q)' <=> Gathering(u, q)
                         /\ Gathered(u, q)' <=> Gathered(u, q)
  BY <1>2, ThreadFrame DEF Released, Gathering, Gathered, After
<1>8. GatheredSet(q)' = GatheredSet(q)
  BY <1>7 DEF GatheredSet
<1>9. Releasing(q)'
  BY <1>0, <1>2, <1>7, <1>8, CallFacts DEF Releasing, maxThreads
<1> QED BY <1>1, <1>4, <1>6, <1>9 DEF SInv

(* A turnstile whose token is gone lets nobody read it: a thread that      *)
(* reads or writes at its turnstile is not waiting for a call that is      *)
(* still gathering, and nobody else moves the token at the same time.      *)
LEMMA SemReadStep ==
    ASSUME SInv, NEW t \in Threads, SemRead(t)
    PROVE  SInv'
<1> USE ThreadsAssumption
<1>0. PICK q \in Calls : Releasing(q)
  BY DEF SInv
<1>a. SemOf(t) \in Turnstiles
  BY SemOfFacts DEF SInv
<1>1. TypeOK'
  BY <1>a DEF SInv, TypeOK, SemRead
<1>2. /\ \A u \in Threads : u # t => /\ pc'[u] = pc[u] /\ sub'[u] = sub[u] /\ done'[u] = done[u]
                                   /\ tmp'[u] = tmp[u]
      /\ Waiting(t) \/ Signalling(t)
      /\ Waiting(t) => sem[SemOf(t)].count = 1
      /\ sub[t] = "read" /\ sub'[t] = "write" /\ pc' = pc /\ done' = done
      /\ tmp'[t] = sem[SemOf(t)].count
      /\ lock' = lock /\ count' = count /\ sem' = sem
  BY <1>a DEF SInv, TypeOK, SemRead
<1>3. (Waiting(t)' <=> Waiting(t)) /\ (Signalling(t)' <=> Signalling(t)) /\ SemOf(t)' = SemOf(t)
  BY <1>2 DEF Waiting, Signalling, SemOf, Front, Back, Entering
<1>4. Locks'
  BY <1>2, <1>3, ThreadFrame DEF SInv, Locks, InSem
<1>5. HoldsToken(t)' <=> HoldsToken(t)
  BY <1>2 DEF HoldsToken
<1>6. Token'
  BY <1>2, <1>3, <1>5, ThreadFrame DEF SInv, Token
<1>7. \A v \in Threads : pc[v] \in {"close", "open"} => v = t
  <2> SUFFICES ASSUME NEW v \in Threads, pc[v] \in {"close", "open"}, v # t
               PROVE  FALSE
    OBVIOUS
  <2>1. done[t] = q /\ pc[t] = "wait"
    BY <1>0 DEF Releasing
  <2>2. done[v] = q
    BY <1>0, CallFacts DEF Releasing, Released, Gathering, Gathered
  <2>3. SemOf(t) = FrontOf(q) /\ sem[FrontOf(q)].count = 1
    BY <1>2, <2>1, SemOfFacts DEF SInv, Waiting
  <2>4. sem[FrontOf(After(q))].count # 1
    BY <2>3, CallFacts DEF SInv, Token, Turnstiles
  <2>5. ~ HoldsToken(v)
    BY <2>3, CallFacts DEF SInv, Token, Turnstiles
  <2>6. pc[v] = "open" /\ sub[v] = "unlock"
    BY <1>0, <2>4, <2>5 DEF Releasing, HoldsToken, SInv, TypeOK
  <2>7. InSem(v, FrontOf(q)) /\ InSem(t, FrontOf(q))
    BY <1>2, <2>1, <2>2, <2>3, <2>6, SemOfFacts DEF SInv, InSem, Waiting, Signalling
  <2> QED BY <2>7, CallFacts DEF SInv, Locks
<1>8. ~ Gathered(t, q)
  <2> SUFFICES ASSUME Gathered(t, q) PROVE FALSE
    OBVIOUS
  <2>1. pc[t] = "wait" /\ done[t] = After(q)
    BY <1>2 DEF Gathered, Waiting, Signalling
  <2>2. sem[FrontOf(After(q))].count = 1
    BY <1>2, <2>1, SemOfFacts DEF SInv, Waiting
  <2> QED BY <1>0, <1>7, <2>1, <2>2 DEF Releasing
<1>9. \A u \in Threads : /\ Released(u, q)' <=> Released(u, q)
                         /\ Gathering(u, q)' <=> Gathering(u, q)
                         /\ Gathered(u, q)' <=> Gathered(u, q)
  BY <1>2, <1>8, ThreadFrame DEF Released, Gathering, Gathered, After
<1>10. GatheredSet(q)' = GatheredSet(q)
  BY <1>9 DEF GatheredSet
<1>11. Releasing(q)'
  BY <1>0, <1>2, <1>7, <1>9, <1>10 DEF Releasing, maxThreads
<1> QED BY <1>1, <1>4, <1>6, <1>11 DEF SInv

LEMMA SemWriteStep ==
    ASSUME SInv, NEW t \in Threads, SemWrite(t)
    PROVE  SInv'
<1> USE ThreadsAssumption
<1>0. PICK q \in Calls : Releasing(q)
  BY DEF SInv
<1>a. SemOf(t) \in Turnstiles /\ tmp[t] = sem[SemOf(t)].count /\ tmp[t] \in {0, 1}
  BY SemOfFacts DEF SInv, Token, SemWrite, TypeOK
<1>b. /\ Waiting(t) \/ Signalling(t)
      /\ ~ (Waiting(t) /\ Signalling(t))
      /\ Waiting(t) => tmp[t] = 1
      /\ HoldsToken(t) <=> Signalling(t)
  BY DEF SInv, Locks, Token, SemWrite, HoldsToken, Waiting, Signalling
<1>c. Signalling(t) => tmp[t] = 0
  BY <1>a, <1>b DEF SInv, Token, Turnstiles
<1>2. /\ \A u \in Threads : u # t => pc'[u] = pc[u] /\ sub'[u] = sub[u] /\ done'[u] = done[u]
      /\ sub[t] = "write" /\ sub'[t] = "unlock" /\ pc' = pc /\ done' = done /\ tmp' = tmp
      /\ lock' = lock /\ count' = count
      /\ \A s \in Turnstiles : sem'[s].lock = sem[s].lock
      /\ \A s \in Turnstiles : s # SemOf(t) => sem'[s].count = sem[s].count
      /\ sem'[SemOf(t)].count = IF Waiting(t) THEN 0 ELSE 1
  BY <1>a, <1>b, <1>c DEF SInv, TypeOK, SemWrite
<1>1. TypeOK'
  <2>1. tmp[t] + (IF Waiting(t) THEN -1 ELSE 1) \in {0, 1}
    BY <1>a, <1>b, <1>c
  <2> QED BY <1>a, <2>1 DEF SInv, TypeOK, SemWrite
<1>3. (Waiting(t)' <=> Waiting(t)) /\ (Signalling(t)' <=> Signalling(t)) /\ SemOf(t)' = SemOf(t)
  BY <1>2 DEF Waiting, Signalling, SemOf, Front, Back, Entering
<1>4. Locks'
  BY <1>2, <1>3, ThreadFrame DEF SInv, Locks, InSem
<1>5. HoldsToken(t)' <=> Waiting(t)
  BY <1>2 DEF HoldsToken, Waiting
<1>6. Token'
  <2>1. \A u \in Threads : u # t => ~ HoldsToken(u)
    BY <1>a, <1>b, <1>c DEF SInv, Token, Turnstiles
  <2>2. /\ \A u \in Threads : HoldsToken(u)' => u = t
        /\ (\E u \in Threads : HoldsToken(u)') <=> Waiting(t)
    BY <1>2, <1>5, <2>1, ThreadFrame
  <2>3. \A s \in Turnstiles : s # SemOf(t) => sem[s].count = 0
    <3>1. CASE Waiting(t)
      BY <1>a, <1>b, <3>1 DEF SInv, Token, Turnstiles, TypeOK
    <3>2. CASE Signalling(t)
      BY <1>a, <1>b, <3>2 DEF SInv, Token, Turnstiles
    <3> QED BY <1>b, <3>1, <3>2
  <2>4. /\ ~ (sem'[1].count = 1 /\ sem'[2].count = 1)
        /\ Waiting(t) <=> sem'[1].count = 0 /\ sem'[2].count = 0
    BY <1>a, <1>2, <2>3 DEF Turnstiles
  <2>5. \A u \in Threads : u # t /\ sub[u] = "write" => SemOf(u) # SemOf(t)
    <3> SUFFICES ASSUME NEW u \in Threads, u # t, sub[u] = "write", SemOf(u) = SemOf(t)
                 PROVE  FALSE
      OBVIOUS
    <3>1. InSem(t, SemOf(t)) /\ InSem(u, SemOf(t))
      BY <1>b, <1>2 DEF InSem, SInv, Locks
    <3> QED BY <1>a, <3>1 DEF SInv, Locks
  <2>6. \A u \in Threads : sub'[u] = "write" => tmp'[u] = sem'[SemOf(u)'].count
    BY <1>2, <2>5, ThreadFrame, SemOfFacts DEF SInv, Token
  <2>7. \A u \in Threads : sub'[u] = "write" /\ Waiting(u)' => tmp'[u] = 1
    BY <1>2, ThreadFrame DEF SInv, Token
  <2> QED BY <2>2, <2>4, <2>6, <2>7 DEF Token
<1>7. ~ Gathered(t, q) /\ ~ Gathered(t, q)' /\ done[t] = q /\ Released(t, q) /\ Released(t, q)'
  BY <1>0, <1>b, <1>2
     DEF Releasing, Released, Gathering, Gathered, Waiting, Signalling, SInv, Locks
<1>8. \A u \in Threads : /\ Released(u, q)' <=> Released(u, q)
                         /\ Gathering(u, q)' <=> Gathering(u, q)
                         /\ Gathered(u, q)' <=> Gathered(u, q)
  BY <1>2, <1>7, ThreadFrame DEF Released, Gathering, Gathered, After
<1>9. GatheredSet(q)' = GatheredSet(q)
  BY <1>8 DEF GatheredSet
<1>10. \A v \in Threads : pc[v] \in {"close", "open"} => v = t
  BY <1>0, <1>2 DEF Releasing
<1>11. sem'[FrontOf(After(q))].count = 1
         <=> \E v \in Threads : pc'[v] = "close" /\ sub'[v] # "unlock"
  <2>1. CASE pc[t] = "close"
    <3>1. SemOf(t) = FrontOf(After(q)) /\ Waiting(t)
      BY <1>7, <2>1, SemOfFacts DEF SInv, Waiting
    <3> QED BY <1>2, <1>10, <3>1
  <2>2. CASE pc[t] # "close"
    <3>1. SemOf(t) # FrontOf(After(q))
      BY <1>7, <2>2, SemOfFacts, CallFacts DEF SInv
    <3>2. sem'[FrontOf(After(q))].count = sem[FrontOf(After(q))].count
      BY <1>2, <3>1, CallFacts
    <3> QED BY <1>0, <1>2, <1>10, <2>2, <3>2 DEF Releasing
  <2> QED BY <2>1, <2>2
<1>12. Releasing(q)'
  BY <1>0, <1>2, <1>8, <1>9, <1>10, <1>11 DEF Releasing, maxThreads
<1> QED BY <1>1, <1>4, <1>6, <1>12 DEF SInv

LEMMA SemUnlockStep ==
    ASSUME SInv, NEW t \in Threads, SemUnlock(t)
    PROVE  SInv'
<1> USE ThreadsAssumption
<1>0. PICK q \in Calls : Releasing(q)
  BY DEF SInv
<1>a. SemOf(t) \in Turnstiles
  BY SemOfFacts DEF SInv
<1>b. /\ Waiting(t) \/ Signalling(t)
      /\ sub[t] = "unlock"
  BY DEF SInv, Locks, SemUnlock
<1>c. \/ pc[t] = "close" /\ AfterSem(pc[t]) = "open"
      \/ pc[t] = "open" /\ AfterSem(pc[t]) = "unlock"
      \/ pc[t] = "wait" /\ AfterSem(pc[t]) = "signal"
      \/ pc[t] = "signal" /\ AfterSem(pc[t]) = "call"
  BY <1>b DEF Waiting, Signalling, AfterSem
<1>d. done[t] = q /\ Released(t, q) /\ ~ Gathered(t, q)
  BY <1>0, <1>b
     DEF Releasing, Released, Gathering, Gathered, Waiting, Signalling, SInv, Locks
<1>2. /\ \A u \in Threads : u # t => /\ pc'[u] = pc[u] /\ sub'[u] = sub[u] /\ done'[u] = done[u]
                                   /\ tmp'[u] = tmp[u]
      /\ sub'[t] = "lock" /\ pc'[t] = AfterSem(pc[t])
      /\ done'[t] = IF pc[t] = "signal" THEN After(q) ELSE q
      /\ lock' = lock /\ count' = count
      /\ sem'[SemOf(t)].lock = NoThread
      /\ \A s \in Turnstiles : sem'[s].count = sem[s].count
      /\ \A s \in Turnstiles : s # SemOf(t) => sem'[s].lock = sem[s].lock
  BY <1>a, <1>d DEF SInv, TypeOK, SemUnlock, Goto, Return, After
<1>1. TypeOK'
  <2>1. done' \in [Threads -> 0 .. 3]
    BY CallFacts DEF SInv, TypeOK, SemUnlock, Return, Calls, After
  <2>2. pc' \in [Threads -> Stages]
    BY <1>c DEF SInv, TypeOK, SemUnlock, Goto, Stages
  <2> QED BY <1>a, <2>1, <2>2 DEF SInv, TypeOK, SemUnlock
<1>4. Locks'
  <2>1. \A u \in Threads : lock' = u <=> pc'[u] \in {"count", "close", "open", "unlock"}
    BY <1>c, <1>2 DEF SInv, Locks
  <2>2. \A s \in Turnstiles : sem'[s].lock # t /\ ~ InSem(t, s)'
    BY <1>a, <1>b, <1>2 DEF SInv, Locks, InSem
  <2>3. InSem(t, SemOf(t))
    BY <1>b DEF InSem
  <2>4. \A u \in Threads, s \in Turnstiles : sem'[s].lock = u <=> InSem(u, s)'
    <3> SUFFICES ASSUME NEW u \in Threads, u # t, NEW s \in Turnstiles
                 PROVE  sem'[s].lock = u <=> InSem(u, s)'
      BY <2>2
    <3>1. InSem(u, s)' <=> InSem(u, s)
      BY <1>2, ThreadFrame
    <3>2. CASE s = SemOf(t)
      BY <1>2, <2>3, <3>1, <3>2 DEF SInv, Locks
    <3>3. CASE s # SemOf(t)
      BY <1>2, <3>1, <3>3 DEF SInv, Locks
    <3> QED BY <3>2, <3>3
  <2>5. \A u \in Threads : ~ (Waiting(u)' \/ Signalling(u)') => sub'[u] = "lock"
    BY <1>2, ThreadFrame DEF SInv, Locks
  <2> QED BY <2>1, <2>4, <2>5 DEF Locks
<1>5. HoldsToken(t)' <=> HoldsToken(t)
  BY <1>b, <1>c, <1>2 DEF HoldsToken
<1>6. Token'
  <2>1. \A u \in Threads : HoldsToken(u)' <=> HoldsToken(u)
    BY <1>2, <1>5, ThreadFrame
  <2>2. \A u \in Threads : sub'[u] = "write" => tmp'[u] = sem'[SemOf(u)'].count
    BY <1>2, ThreadFrame, SemOfFacts DEF SInv, Token
  <2>3. \A u \in Threads : sub'[u] = "write" /\ Waiting(u)' => tmp'[u] = 1
    BY <1>2, ThreadFrame DEF SInv, Token
  <2> QED BY <1>2, <2>1, <2>2, <2>3 DEF SInv, Token, Turnstiles
<1>7. ~ Gathered(t, q)' /\ (Released(t, q)' \/ Gathering(t, q)')
  BY <1>c, <1>2, CallFacts DEF Released, Gathering, Gathered, After
<1>8. \A u \in Threads : /\ u # t => /\ Released(u, q)' <=> Released(u, q)
                                     /\ Gathering(u, q)' <=> Gathering(u, q)
                         /\ Gathered(u, q)' <=> Gathered(u, q)
  BY <1>2, <1>d, <1>7, ThreadFrame
<1>9. GatheredSet(q)' = GatheredSet(q)
  BY <1>8 DEF GatheredSet
<1>10. \A v \in Threads : pc[v] \in {"close", "open"} => v = t
  BY <1>0, <1>b DEF Releasing
<1>11. sem'[FrontOf(After(q))].count = 1
         <=> \E v \in Threads : pc'[v] = "close" /\ sub'[v] # "unlock"
  <2>1. \A v \in Threads : (pc'[v] = "close" /\ sub'[v] # "unlock")
                            <=> (pc[v] = "close" /\ sub[v] # "unlock")
    BY <1>b, <1>c, <1>2
  <2> QED BY <1>0, <1>2, <2>1, CallFacts DEF Releasing
<1>12. \A v, u \in Threads : pc'[v] \in {"close", "open"} /\ v # u
         => done'[u] = q /\ pc'[u] = "wait" /\ sub'[u] \in {"lock", "read"}
  BY <1>0, <1>c, <1>2, <1>10 DEF Releasing
<1>13. Releasing(q)'
  BY <1>0, <1>2, <1>7, <1>8, <1>9, <1>11, <1>12 DEF Releasing, maxThreads
<1> QED BY <1>1, <1>4, <1>6, <1>13 DEF SInv

(* The count.  The thread that completes it finds every other one waiting  *)
(* for the call it completes and the token where the call before has put   *)
(* it; with it the call is released, and nobody gathers for the next.      *)
LEMMA ArriveStep ==
    ASSUME SInv, NEW t \in Threads, Arrive(t)
    PROVE  SInv'
<1> USE ThreadsAssumption
<1>0. PICK q \in Calls : Releasing(q)
  BY DEF SInv
<1> DEFINE G == GatheredSet(q)
           stage == IF Last(t) THEN "close" ELSE "unlock"
<1>a. /\ pc[t] = "count" /\ sub[t] = "lock" /\ lock = t
      /\ done[t] = After(q) /\ Gathering(t, q) /\ ~ Gathered(t, q)
      /\ done[t] \in Calls
  BY <1>0, CallFacts
     DEF Arrive, SInv, Locks, Waiting, Signalling, Releasing, Released, Gathering, Gathered
<1>2. /\ \A u \in Threads : u # t => /\ pc'[u] = pc[u] /\ sub'[u] = sub[u] /\ done'[u] = done[u]
      /\ pc'[t] = stage
      /\ sub' = sub /\ done' = done /\ tmp' = tmp /\ lock' = lock /\ sem' = sem
      /\ count' = count + (IF Entering(t) THEN 1 ELSE -1)
  BY DEF SInv, TypeOK, Arrive, Goto
<1>3. IsFiniteSet(G) /\ Cardinality(G) \in Nat /\ maxThreads \in Nat
  BY FS_Subset, FS_CardinalityType DEF GatheredSet, maxThreads
<1>4. /\ t \notin G /\ G \cup {t} \subseteq Threads
      /\ Cardinality(G \cup {t}) = Cardinality(G) + 1
      /\ Cardinality(G) + 1 <= maxThreads
      /\ Cardinality(G) + 1 = maxThreads <=> G \cup {t} = Threads
  <2>1. t \notin G /\ G \cup {t} \subseteq Threads
    BY <1>a DEF GatheredSet
  <2>2. Cardinality(G \cup {t}) = Cardinality(G) + 1
    BY <1>3, <2>1, FS_AddElement
  <2> QED BY <1>3, <2>1, <2>2, FS_Subset DEF maxThreads
<1>5. /\ Entering(t) <=> After(q) % 2 = 0
      /\ count' = IF After(q) % 2 = 0 THEN Cardinality(G) + 1
                                      ELSE maxThreads - (Cardinality(G) + 1)
      /\ Last(t) <=> G \cup {t} = Threads
  <2>1. Entering(t) <=> After(q) % 2 = 0
    BY <1>a DEF Entering
  <2>2. count' = IF After(q) % 2 = 0 THEN Cardinality(G) + 1
                                     ELSE maxThreads - (Cardinality(G) + 1)
    BY <1>0, <1>2, <1>3, <2>1 DEF Releasing
  <2> QED BY <1>3, <1>4, <2>1, <2>2 DEF Last
<1>6. TypeOK'
  <2>1. count' \in 0 .. maxThreads
    BY <1>3, <1>4, <1>5
  <2> QED BY <2>1 DEF SInv, TypeOK, Arrive, Goto, Stages
<1>7. \A u \in Threads : u # t => pc[u] \notin {"count", "close", "open", "unlock"}
  BY <1>a DEF SInv, Locks
<1>8. Locks'
  <2>1. \A u \in Threads : lock' = u <=> pc'[u] \in {"count", "close", "open", "unlock"}
    BY <1>a, <1>2, <1>7
  <2>2. \A s \in Turnstiles : ~ InSem(t, s) /\ ~ InSem(t, s)'
    BY <1>a, <1>2 DEF InSem
  <2> QED BY <1>a, <1>2, <2>1, <2>2, ThreadFrame DEF SInv, Locks
<1>9. ~ HoldsToken(t) /\ ~ HoldsToken(t)'
  BY <1>a, <1>2 DEF HoldsToken
<1>10. Token'
  BY <1>a, <1>2, <1>9, ThreadFrame DEF SInv, Token
<1>11. CASE ~ Last(t)
  <2>1. Gathered(t, q)' /\ GatheredSet(q)' = G \cup {t}
    BY <1>a, <1>2, <1>11, ThreadFrame DEF GatheredSet, Gathered, After
  <2>2. \E u \in Threads : ~ Gathered(u, q)'
    BY <1>5, <1>11, <2>1 DEF GatheredSet
  <2>3. \A u \in Threads : pc'[u] \notin {"close", "open"}
    BY <1>2, <1>7, <1>11
  <2>4. sem[FrontOf(After(q))].count # 1
    BY <1>0, <1>7, <1>a DEF Releasing
  <2>5. \A u \in Threads : Released(u, q)' \/ Gathering(u, q)' \/ Gathered(u, q)'
    BY <1>0, <1>2, <2>1, ThreadFrame DEF Releasing
  <2>6. Releasing(q)'
    BY <1>2, <1>4, <1>5, <2>1, <2>2, <2>3, <2>4, <2>5 DEF Releasing, maxThreads
  <2> QED BY <1>6, <1>8, <1>10, <2>6 DEF SInv
<1>12. CASE Last(t)
  <2> DEFINE r == After(q)
  <2>1. /\ r \in Calls /\ After(r) # r /\ After(r) # q
        /\ (After(r) % 2 = 0) <=> ~ (r % 2 = 0)
        /\ FrontOf(After(r)) = FrontOf(q)
        /\ FrontOf(q) \in Turnstiles /\ FrontOf(r) \in Turnstiles /\ FrontOf(q) # FrontOf(r)
    BY CallFacts
  <2>2. \A u \in Threads : u # t
          => done[u] = r /\ pc[u] = "wait" /\ sub[u] \in {"lock", "read"}
    BY <1>5, <1>7, <1>12 DEF GatheredSet, Gathered
  <2>3. \A u \in Threads : ~ HoldsToken(u)
    BY <1>9, <2>2 DEF HoldsToken
  <2>4. sem[FrontOf(q)].count = 1
    <3>1. sem[FrontOf(r)].count # 1
      BY <1>0, <1>7, <1>a DEF Releasing
    <3> QED BY <2>1, <2>3, <3>1 DEF SInv, Token, TypeOK, Turnstiles
  <2>5. pc'[t] = "close" /\ sub'[t] = "lock" /\ done'[t] = r
    BY <1>a, <1>2, <1>12
  <2>6. \A u \in Threads : /\ Released(u, r)' /\ ~ Gathered(u, r)'
                           /\ u # t => done'[u] = r /\ pc'[u] = "wait" /\ sub'[u] \in {"lock", "read"}
    BY <1>2, <2>1, <2>2, <2>5 DEF Released, Gathered, After
  <2>7. Cardinality(GatheredSet(r)') = 0
    <3>1. GatheredSet(r)' = {}
      BY <2>6 DEF GatheredSet
    <3> QED BY <3>1, FS_EmptySet
  <2>8. count' = IF After(r) % 2 = 0 THEN 0 ELSE maxThreads - 0
    BY <1>3, <1>4, <1>5, <1>12, <2>1
  <2>9. sem'[FrontOf(After(r))].count = 1
    BY <1>2, <2>1, <2>4
  <2>10. \A v, u \in Threads : pc'[v] \in {"close", "open"} /\ v # u
           => done'[u] = r /\ pc'[u] = "wait" /\ sub'[u] \in {"lock", "read"}
    BY <2>5, <2>6
  <2>11. Releasing(r)'
    BY <2>5, <2>6, <2>7, <2>8, <2>9, <2>10 DEF Releasing, maxThreads
  <2> QED BY <1>6, <1>8, <1>10, <2>1, <2>11 DEF SInv
<1> QED BY <1>11, <1>12

LEMMA SyncInit == Init => SInv
<1> USE ThreadsAssumption
<1> SUFFICES ASSUME Init PROVE SInv
  OBVIOUS
<1>1. maxThreads \in Nat
  BY FS_CardinalityType DEF maxThreads
<1>2. TypeOK
  BY <1>1 DEF Init, TypeOK, Stages, Turnstiles
<1>3. \A t \in Threads : ~ Waiting(t) /\ ~ Signalling(t) /\ ~ HoldsToken(t)
  BY DEF Init, Waiting, Signalling, HoldsToken
<1>4. Locks
  BY <1>3 DEF Init, Locks, InSem, Turnstiles
<1>5. Token
  BY <1>3 DEF Init, Token, Turnstiles
<1>6. \A t \in Threads : Gathering(t, 3) /\ ~ Gathered(t, 3)
  BY DEF Init, Gathering, Gathered, After
<1>7. GatheredSet(3) = {} /\ Cardinality(GatheredSet(3)) = 0
  BY <1>6, FS_EmptySet DEF GatheredSet
<1>8. After(3) % 2 = 0 /\ FrontOf(After(3)) = 1
  BY DEF After, FrontOf
<1>9. Releasing(3)
  BY <1>6, <1>7, <1>8 DEF Init, Releasing, Turnstiles
<1> QED BY <1>2, <1>4, <1>5, <1>9 DEF SInv, Calls

LEMMA SyncStep == SInv /\ [Next]_vars => SInv'
<1> SUFFICES ASSUME SInv, [Next]_vars PROVE SInv'
  OBVIOUS
<1>1. ASSUME NEW t \in Threads, Step(t) PROVE SInv'
  BY <1>1, SpinLockStep, ArriveStep, SpinUnlockStep, SemLockStep, SemRetryStep, SemReadStep,
     SemWriteStep, SemUnlockStep DEF Step
<1>2. CASE UNCHANGED vars
  <2>1. TypeOK' /\ Locks' /\ Token'
    BY <1>2 DEF vars, SInv, TypeOK, Locks, Token, InSem, Waiting, Signalling, SemOf, Front, Back,
                Entering, HoldsToken
  <2>2. PICK q \in Calls : Releasing(q)
    BY DEF SInv
  <2>3. GatheredSet(q)' = GatheredSet(q)
    BY <1>2 DEF vars, GatheredSet, Gathered, After
  <2>4. Releasing(q)'
    BY <1>2, <2>2, <2>3, ThreadFrame DEF vars, Releasing, maxThreads
  <2> QED BY <2>1, <2>4 DEF SInv
<1> QED BY <1>1, <1>2 DEF Next

(* One thread at most is in a section that a lock guards, so the set of    *)
(* those in it has at most one member.                                     *)
LEMMA AtMostOne ==
    ASSUME NEW S \in SUBSET Threads, \A t, u \in S : t = u
    PROVE  Cardinality(S) = IF S = {} THEN 0 ELSE 1
<1>1. CASE S = {}
  BY <1>1, FS_EmptySet
<1>2. CASE S # {}
  <2>1. PICK t \in S : S = {t}
    BY <1>2
  <2> QED BY <1>2, <2>1, FS_Singleton
<1> QED BY <1>1, <1>2

LEMMA SInvExclusion == SInv => Exclusion
<1> SUFFICES ASSUME SInv PROVE Exclusion
  OBVIOUS
<1>1. OneToken
  <2> DEFINE H == {t \in Threads : HoldsToken(t)}
  <2>1. Cardinality(H) = IF H = {} THEN 0 ELSE 1
    BY AtMostOne DEF SInv, Token
  <2>2. H = {} <=> ~ (sem[1].count = 0 /\ sem[2].count = 0)
    BY DEF SInv, Token
  <2>3. sem[1].count \in {0, 1} /\ sem[2].count \in {0, 1}
    BY DEF SInv, TypeOK, Turnstiles
  <2>4. ~ (sem[1].count = 1 /\ sem[2].count = 1)
    BY DEF SInv, Token
  <2> HIDE DEF H
  <2>5. sem[1].count + sem[2].count + Cardinality(H) = 1
    BY <2>1, <2>2, <2>3, <2>4
  <2> QED BY <2>5 DEF OneToken, H
<1>2. LocksExclude
  <2> DEFINE B == {t \in Threads : pc[t] \in {"count", "close", "open", "unlock"}}
             C(s) == {t \in Threads : (Waiting(t) \/ Signalling(t)) /\ SemOf(t) = s
                                         /\ sub[t] # "lock"}
  <2>1. Cardinality(B) <= 1
    BY AtMostOne DEF SInv, Locks
  <2>2. ASSUME NEW s \in Turnstiles PROVE Cardinality(C(s)) <= 1
    <3>1. \A t, u \in C(s) : t = u
      BY DEF SInv, Locks, InSem
    <3> QED BY <3>1, AtMostOne
  <2> QED BY <2>1, <2>2 DEF LocksExclude
<1> QED BY <1>1, <1>2 DEF SInv, Exclusion

LEMMA SInvAllMeet == SInv => AllMeet
<1> SUFFICES ASSUME SInv, NEW t \in Threads, NEW u \in Threads
             PROVE  (Begun(u) - done[t]) % 4 # 3
  BY DEF AllMeet
<1>1. PICK q \in Calls : Releasing(q)
  BY DEF SInv
<1>2. done[t] = q \/ done[t] = After(q)
  BY <1>1 DEF Releasing, Released, Gathering, Gathered
<1>3. Begun(u) = After(q) \/ Begun(u) = After(After(q))
  BY <1>1 DEF Begun, Releasing, Released, Gathering, Gathered, After
<1>4. q = 0 \/ q = 1 \/ q = 2 \/ q = 3
  BY DEF Calls
<1> QED BY <1>2, <1>3, <1>4 DEF After

(* Were all threads stuck, none would be moving the token or hold the lock *)
(* of the barrier.  A thread that closes finds the token where it looks;   *)
(* without one the token is at the turnstile of the call being released,   *)
(* and a thread of that call that has not come through finds it there.     *)
LEMMA SInvNoStandstill == SInv => NoStandstill
<1> SUFFICES ASSUME SInv, \A t \in Threads : Stuck(t)
             PROVE  FALSE
  BY DEF NoStandstill
<1>1. PICK q \in Calls : Releasing(q)
  BY DEF SInv
<1>2. \A t \in Threads : /\ pc[t] = "call" \/ (Waiting(t) /\ sub[t] \in {"lock", "read"})
                         /\ ~ HoldsToken(t)
  <2> SUFFICES ASSUME NEW t \in Threads
               PROVE  /\ pc[t] = "call" \/ (Waiting(t) /\ sub[t] \in {"lock", "read"})
                      /\ ~ HoldsToken(t)
    OBVIOUS
  <2>1. pc[t] = "call" \/ (Waiting(t) /\ sub[t] \in {"lock", "read"})
    BY DEF Stuck
  <2> QED BY <2>1 DEF HoldsToken, Waiting
<1>3. \A t \in Threads : pc[t] # "close"
  <2> SUFFICES ASSUME NEW t \in Threads, pc[t] = "close" PROVE FALSE
    OBVIOUS
  <2>1. done[t] = q
    BY <1>1 DEF Releasing, Released, Gathering, Gathered
  <2>2. sem[FrontOf(After(q))].count = 1
    BY <1>1, <1>2 DEF Releasing
  <2>3. sem[SemOf(t)].count = 0
    BY DEF Stuck
  <2> QED BY <2>1, <2>2, <2>3, SemOfFacts DEF SInv
<1>4. lock = NoThread
  BY <1>2, <1>3 DEF SInv, Locks, TypeOK, Waiting
<1>5. sem[FrontOf(q)].count = 1
  <2>1. sem[FrontOf(After(q))].count # 1
    BY <1>1, <1>3 DEF Releasing
  <2> QED BY <1>2, <2>1, CallFacts DEF SInv, Token, TypeOK, Turnstiles
<1>6. PICK t \in Threads : ~ Gathered(t, q)
  BY <1>1 DEF Releasing
<1>7. pc[t] = "wait" /\ sub[t] \in {"lock", "read"} /\ sem[SemOf(t)].count = 0
  BY <1>3, <1>4 DEF Stuck, Waiting
<1>8. done[t] = q
  BY <1>1, <1>6, <1>7 DEF Releasing, Released, Gathering, Gathered
<1> QED BY <1>5, <1>7, <1>8, SemOfFacts DEF SInv

(* sync.c:18-196, for any number of threads: the locks of the barrier and  *)
(* of its turnstiles exclude, and there is one token.                      *)
THEOREM SyncExcludes == Spec => []Exclusion
BY SyncInit, SyncStep, SInvExclusion, PTL DEF Spec

(* BarrierEnter and BarrierExit (sync.c:144-196), for any number of        *)
(* threads: nobody returns from a call that another thread has not made.   *)
THEOREM BarrierMeets == Spec => []AllMeet
BY SyncInit, SyncStep, SInvAllMeet, PTL DEF Spec

(* BarrierEnter and BarrierExit (sync.c:144-196), for any number of        *)
(* threads: they never all wait for one another.                           *)
THEOREM BarrierGoesOn == Spec => []NoStandstill
BY SyncInit, SyncStep, SInvNoStandstill, PTL DEF Spec
=============================================================================
