--------------------------- MODULE TimingDetector ---------------------------
(***************************************************************************)
(* The timing detector of src/src/tsc.c: a table of siblings, pairs of     *)
(* RDTSC instructions that one thread executes close to one another.  An   *)
(* entry counts how often each of the two is executed and averages the     *)
(* time between them; a pair that is executed often and in step is a       *)
(* candidate.                                                              *)
(*                                                                         *)
(* The table belongs to one processor and is used in root mode only, so    *)
(* that TdProcessTscEvent is an operator here: table and event in, table   *)
(* and verdict out.  Vcpu calls it.                                        *)
(***************************************************************************)
EXTENDS Integers, Sequences

CONSTANTS
    MaxHits,        \* MAX_TSC_HITS
    DistanceLimit,  \* SIBLING_DISTANCE_LIMIT
    CountLimit,     \* the 255 of TdIsTimingCandidate
    DiffLimit,      \* the 0x50000 there
    SkipShare,      \* the 20 there
    IntBits         \* bits of an int

ASSUME TableAssumption == MaxHits \in Nat \ {0}
ASSUME LimitAssumption ==
    {DistanceLimit, CountLimit, DiffLimit} \subseteq Nat /\ SkipShare \in Nat \ {0}
IntHalf == 2 ^ (IntBits - 1)
ASSUME IntAssumption ==
    IntBits \in Nat \ {0} /\ IntHalf \in Nat /\ DistanceLimit < IntHalf

(* abs( (int) n ) of a 64-bit n; the smallest int has no absolute value.   *)
ToInt(n) == ((n + IntHalf) % (2 * IntHalf)) - IntHalf
abs(n) == IF n < 0 /\ n # -IntHalf THEN -n ELSE n
AreWithinSiblingRange(a, b) == abs(ToInt(a - b)) < DistanceLimit

NoHit == [addr |-> 0, time |-> 0, count |-> 0]
NoEntry == [hash |-> 0, before |-> NoHit, after |-> NoHit, skips |-> 0, diff |-> 0]
TdClearSibling(hits, i) == [hits EXCEPT ![i] = NoEntry]
TdIsFreeSlot(e) == e.before.addr = 0
IsOrphan(e) == e.after.addr = 0 \/ e.before.addr = 0

(* The first slot of S whose Before is oldest.                             *)
Oldest(hits, S) ==
    CHOOSE i \in S : \A j \in S :
        \/ hits[i].before.time < hits[j].before.time
        \/ hits[i].before.time = hits[j].before.time /\ i <= j

(* The first free slot, or else the oldest orphan, or else the oldest pair.*)
TdGetSiblingSlot(hits) ==
    LET free == {i \in DOMAIN hits : TdIsFreeSlot(hits[i])}
        orphans == {i \in DOMAIN hits : IsOrphan(hits[i])}
    IN IF free # {} THEN CHOOSE i \in free : \A j \in free : i <= j
       ELSE IF orphans # {} THEN Oldest(hits, orphans)
       ELSE Oldest(hits, DOMAIN hits)

(* The first entry that addr belongs to, 0 if there is none.               *)
TdFindSibling(hits, hash, addr) ==
    LET found == {i \in DOMAIN hits :
                    /\ hits[i].hash = hash
                    /\ AreWithinSiblingRange(hits[i].before.addr, addr)
                    /\ \/ hits[i].before.addr = addr
                       \/ hits[i].after.addr \in {addr, 0}}
    IN IF found = {} THEN 0 ELSE CHOOSE i \in found : \A j \in found : i <= j

(* Mutant: the new first address inherits the count.                       *)
PlaceKeepsCount(e, addr) ==
    IF addr \in {e.before.addr, e.after.addr} THEN e
    ELSE IF e.before.addr > addr
      THEN [e EXCEPT !.after = e.before, !.before.addr = addr, !.before.time = 0]
    ELSE [e EXCEPT !.after.addr = addr]

(* A second address takes the place its value gives it.                    *)
Place(e, addr) ==
    IF addr \in {e.before.addr, e.after.addr} THEN e
    ELSE IF e.before.addr > addr
      THEN [e EXCEPT !.after = e.before, !.before = [NoHit EXCEPT !.addr = addr]]
    ELSE [e EXCEPT !.after.addr = addr]

(* The average of the time between the two, outliers being skipped.        *)
Average(e, now) ==
    LET d == abs(ToInt(now - e.before.time))
    IN IF e.diff = 0 THEN [e EXCEPT !.diff = d]
       ELSE IF d > e.diff /\ abs(ToInt(d - e.diff)) > (e.diff * 3) \div 2
         THEN [e EXCEPT !.skips = @ + 1]
       ELSE [e EXCEPT !.diff = (@ + d) \div 2]

TdHitIncrement(hit, now) == [hit EXCEPT !.count = @ + 1, !.time = now]

TdUpdateSibling(e, addr, now) ==
    LET p == Place(e, addr)
    IN IF p.before.addr = addr
         THEN [p EXCEPT !.before = TdHitIncrement(@, now)]
         ELSE [Average(p, now) EXCEPT !.after = TdHitIncrement(@, now)]

TdCreateSibling(hits, hash, addr, now) ==
    [hits EXCEPT ![TdGetSiblingSlot(hits)] =
        [NoEntry EXCEPT !.hash = hash, !.before = [addr |-> addr, time |-> now, count |-> 1]]]

InStep(e) == abs(ToInt(e.before.count - e.after.count)) < 2
FewSkips(e) == e.skips < (IF e.before.count \div SkipShare > 1 THEN e.before.count \div SkipShare ELSE 1)

(* "wait": go on counting; "discontinue": the pair is dropped, and the     *)
(* thread left alone for the rest of its quantum; "candidate".             *)
TdIsTimingCandidate(e) ==
    IF e.diff = 0 \/ IsOrphan(e) THEN "wait"
    ELSE IF e.diff > DiffLimit THEN "discontinue"
    ELSE IF e.before.count <= CountLimit THEN "wait"
    ELSE IF InStep(e) /\ FewSkips(e) THEN "candidate" ELSE "discontinue"

(* The slot of the event, the entry there, the table and the verdict.      *)
TdProcessTscEvent(hits, hash, addr, now) ==
    LET found == TdFindSibling(hits, hash, addr)
        slot == IF found # 0 THEN found ELSE TdGetSiblingSlot(hits)
        after == IF found # 0 THEN [hits EXCEPT ![found] = TdUpdateSibling(@, addr, now)]
                              ELSE TdCreateSibling(hits, hash, addr, now)
        verdict == TdIsTimingCandidate(after[slot])
    IN [sibling |-> after[slot], verdict |-> verdict,
        hits |-> IF verdict = "wait" THEN after ELSE TdClearSibling(after, slot)]
=============================================================================
