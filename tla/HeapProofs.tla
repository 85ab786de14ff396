----------------------------- MODULE HeapProofs -----------------------------
(***************************************************************************)
(* The heap of mem.c is sound, keeps page aligned regions contiguous and   *)
(* is an allocator, for an arena of any size and any requests.             *)
(*                                                                         *)
(* A heap is looked at from two sides.  Lists: which blocks the free and   *)
(* the used list hold, which ones are in neither while an operation moves  *)
(* them.  Placed: how the blocks tile the memory.  HeappBlockLink and      *)
(* HeappBlockUnlink disturb the first, cutting and merging the second.     *)
(***************************************************************************)
EXTENDS Heap, FiniteSetTheorems, FunctionTheorems, TLAPS

HeapFields == {"memory", "size", "freeList", "usedList", "blk"}
BlockFields == {"state", "size", "pprev", "pnext", "vprev", "vnext"}
IsHeap(h) ==
    /\ DOMAIN h = HeapFields
    /\ \A x \in DOMAIN h.blk : DOMAIN h.blk[x] = BlockFields

(* The doubly linked list at head has the blocks of S, and no others; the  *)
(* walk from the head meets all of them.                                   *)
OnList(h, head, S) ==
    /\ head \in S \cup {0}
    /\ \A x \in S :
         /\ h.blk[x].vprev \in S \cup {0}
         /\ h.blk[x].vnext \in S \cup {0}
         /\ (h.blk[x].vprev = 0) <=> (x = head)
         /\ h.blk[x].vprev # 0 => h.blk[h.blk[x].vprev].vnext = x
         /\ h.blk[x].vnext # 0 => h.blk[h.blk[x].vnext].vprev = x
Reaches(h, head, S) ==
    \A C \in SUBSET (S \cup {0}) :
        (head \in C /\ \A x \in C \ {0} : h.blk[x].vnext \in C) => S \subseteq C

(* F is on the free list, U on the used list, L for the moment on neither. *)
Lists(h, F, U, L) ==
    /\ IsHeap(h)
    /\ DOMAIN h.blk = F \cup U \cup L
    /\ 0 \notin F \cup U \cup L
    /\ F \cap U = {} /\ F \cap L = {} /\ U \cap L = {}
    /\ OnList(h, h.freeList, F) /\ OnList(h, h.usedList, U)
    /\ Reaches(h, h.freeList, F) /\ Reaches(h, h.usedList, U)
    /\ \A x \in F : h.blk[x].state = FREE
    /\ \A x \in U : h.blk[x].state = USED

SamePlace(g, h) ==
    /\ g.memory = h.memory /\ g.size = h.size
    /\ DOMAIN g.blk = DOMAIN h.blk
    /\ \A x \in DOMAIN h.blk :
         /\ g.blk[x].state = h.blk[x].state
         /\ g.blk[x].size = h.blk[x].size
         /\ g.blk[x].pprev = h.blk[x].pprev
         /\ g.blk[x].pnext = h.blk[x].pnext
SameSpans(g, h) ==
    /\ g.memory = h.memory /\ g.size = h.size
    /\ DOMAIN g.blk = DOMAIN h.blk
    /\ \A x \in DOMAIN h.blk :
         /\ g.blk[x].size = h.blk[x].size
         /\ g.blk[x].pprev = h.blk[x].pprev
         /\ g.blk[x].pnext = h.blk[x].pnext
SameHeads(g, h) ==
    /\ g.memory = h.memory /\ g.size = h.size
    /\ g.freeList = h.freeList /\ g.usedList = h.usedList
SameLinks(g, h, S) ==
    \A x \in S : g.blk[x].vprev = h.blk[x].vprev /\ g.blk[x].vnext = h.blk[x].vnext
-----------------------------------------------------------------------------
(* What the assignments to a header do, field by field.  Each effect has a *)
(* name, which the proofs about longer sequences of assignments use.       *)
VprevSet(g, h, x, v) ==
    /\ IsHeap(g) /\ SamePlace(g, h) /\ SameHeads(g, h)
    /\ \A y \in DOMAIN h.blk :
         /\ g.blk[y].vnext = h.blk[y].vnext
         /\ g.blk[y].vprev = IF y = x /\ y # 0 THEN v ELSE h.blk[y].vprev

VnextSet(g, h, x, v) ==
    /\ IsHeap(g) /\ SamePlace(g, h) /\ SameHeads(g, h)
    /\ \A y \in DOMAIN h.blk :
         /\ g.blk[y].vprev = h.blk[y].vprev
         /\ g.blk[y].vnext = IF y = x /\ y # 0 THEN v ELSE h.blk[y].vnext

PprevSet(g, h, x, v) ==
    /\ IsHeap(g) /\ SameHeads(g, h)
    /\ DOMAIN g.blk = DOMAIN h.blk
    /\ SameLinks(g, h, DOMAIN h.blk)
    /\ \A y \in DOMAIN h.blk :
         /\ g.blk[y].state = h.blk[y].state
         /\ g.blk[y].size = h.blk[y].size
         /\ g.blk[y].pnext = h.blk[y].pnext
         /\ g.blk[y].pprev = IF y = x /\ y # 0 THEN v ELSE h.blk[y].pprev

(* state, size and pnext of x, and nothing else of h.                      *)
HeaderSet(g, h, x, s, n, q) ==
    /\ IsHeap(g) /\ SameHeads(g, h)
    /\ DOMAIN g.blk = DOMAIN h.blk
    /\ SameLinks(g, h, DOMAIN h.blk)
    /\ \A y \in DOMAIN h.blk :
         /\ g.blk[y].pprev = h.blk[y].pprev
         /\ g.blk[y].state = IF y = x THEN s ELSE h.blk[y].state
         /\ g.blk[y].size = IF y = x THEN n ELSE h.blk[y].size
         /\ g.blk[y].pnext = IF y = x THEN q ELSE h.blk[y].pnext

Written(g, h, x, b) ==
    /\ IsHeap(g) /\ SameHeads(g, h)
    /\ DOMAIN g.blk = DOMAIN h.blk \cup {x}
    /\ \A y \in DOMAIN h.blk \cup {x} : g.blk[y] = IF y = x THEN b ELSE h.blk[y]

Forgotten(g, h, X) ==
    /\ IsHeap(g) /\ SameHeads(g, h)
    /\ DOMAIN g.blk = DOMAIN h.blk \ X
    /\ \A y \in DOMAIN h.blk \ X : g.blk[y] = h.blk[y]

LEMMA SetVprevFields ==
    ASSUME NEW h, IsHeap(h), NEW x, x # 0 => x \in DOMAIN h.blk, NEW v
    PROVE  VprevSet(SetVprev(h, x, v), h, x, v)
BY DEF VprevSet, SetVprev, IsHeap, HeapFields, BlockFields, SamePlace, SameHeads

LEMMA SetVnextFields ==
    ASSUME NEW h, IsHeap(h), NEW x, x # 0 => x \in DOMAIN h.blk, NEW v
    PROVE  VnextSet(SetVnext(h, x, v), h, x, v)
BY DEF VnextSet, SetVnext, IsHeap, HeapFields, BlockFields, SamePlace, SameHeads

LEMMA SetPprevFields ==
    ASSUME NEW h, IsHeap(h), NEW x, x # 0 => x \in DOMAIN h.blk, NEW v
    PROVE  PprevSet(SetPprev(h, x, v), h, x, v)
BY DEF PprevSet, SetPprev, IsHeap, HeapFields, BlockFields, SameLinks, SameHeads

LEMMA SpanFields ==
    ASSUME NEW h, IsHeap(h), NEW x \in DOMAIN h.blk, NEW n, NEW q
    PROVE  HeaderSet([h EXCEPT !.blk[x].pnext = q, !.blk[x].size = n], h, x,
                     h.blk[x].state, n, q)
BY DEF HeaderSet, IsHeap, HeapFields, BlockFields, SameLinks, SameHeads

LEMMA GrowFields ==
    ASSUME NEW h, IsHeap(h), NEW x \in DOMAIN h.blk, NEW n, NEW q
    PROVE  HeaderSet([h EXCEPT !.blk[x].size = @ + HDR + n, !.blk[x].pnext = q], h, x,
                     h.blk[x].state, h.blk[x].size + HDR + n, q)
BY DEF HeaderSet, IsHeap, HeapFields, BlockFields, SameLinks, SameHeads

LEMMA PnextFields ==
    ASSUME NEW h, IsHeap(h), NEW x \in DOMAIN h.blk, NEW q
    PROVE  HeaderSet([h EXCEPT !.blk[x].pnext = q], h, x,
                     h.blk[x].state, h.blk[x].size, q)
BY DEF HeaderSet, IsHeap, HeapFields, BlockFields, SameLinks, SameHeads

LEMMA SizeFields ==
    ASSUME NEW h, IsHeap(h), NEW x \in DOMAIN h.blk, NEW n
    PROVE  HeaderSet([h EXCEPT !.blk[x].size = @ + n], h, x,
                     h.blk[x].state, h.blk[x].size + n, h.blk[x].pnext)
BY DEF HeaderSet, IsHeap, HeapFields, BlockFields, SameLinks, SameHeads

LEMMA StateFields ==
    ASSUME NEW h, IsHeap(h), NEW x \in DOMAIN h.blk, NEW s
    PROVE  HeaderSet([h EXCEPT !.blk[x].state = s], h, x,
                     s, h.blk[x].size, h.blk[x].pnext)
BY DEF HeaderSet, IsHeap, HeapFields, BlockFields, SameLinks, SameHeads

LEMMA WriteFields ==
    ASSUME NEW h, IsHeap(h), NEW x, NEW b, DOMAIN b = BlockFields
    PROVE  Written(Write(h, x, b), h, x, b)
BY DEF Written, Write, IsHeap, HeapFields, BlockFields, SameHeads

LEMMA ForgetFields ==
    ASSUME NEW h, IsHeap(h), NEW X
    PROVE  Forgotten(Forget(h, X), h, X)
BY DEF Forgotten, Forget, IsHeap, HeapFields, BlockFields, SameHeads

LEMMA BlockFieldsAre ==
    ASSUME NEW s, NEW n, NEW p, NEW q, NEW b, b = Block(s, n, p, q)
    PROVE  /\ DOMAIN b = BlockFields
           /\ b.state = s /\ b.size = n /\ b.pprev = p /\ b.pnext = q
BY DEF Block, BlockFields
-----------------------------------------------------------------------------
(* HeappBlockUnlink and HeappBlockLink, field by field.                    *)
Unlinked(g, h, list, x) ==
    /\ IsHeap(g) /\ SamePlace(g, h)
    /\ g[list] = IF h[list] = x THEN h.blk[x].vnext ELSE h[list]
    /\ \A other \in {"freeList", "usedList"} \ {list} : g[other] = h[other]
    /\ \A y \in DOMAIN h.blk :
         /\ g.blk[y].vprev = IF y = h.blk[x].vnext /\ y # 0
                             THEN h.blk[x].vprev ELSE h.blk[y].vprev
         /\ g.blk[y].vnext = IF y = h.blk[x].vprev /\ y # 0
                             THEN h.blk[x].vnext ELSE h.blk[y].vnext

LEMMA UnlinkFields ==
    ASSUME NEW h, IsHeap(h), NEW list \in {"freeList", "usedList"},
           NEW x \in DOMAIN h.blk,
           h.blk[x].vnext # 0 => h.blk[x].vnext \in DOMAIN h.blk,
           h.blk[x].vprev # 0 => h.blk[x].vprev \in DOMAIN h.blk
    PROVE  Unlinked(HeappBlockUnlink(h, list, x), h, list, x)
<1> DEFINE b == h.blk[x]
           h1 == SetVprev(h, b.vnext, b.vprev)
           h2 == SetVnext(h1, b.vprev, b.vnext)
           g == HeappBlockUnlink(h, list, x)
<1>1. VprevSet(h1, h, b.vnext, b.vprev)
  BY SetVprevFields
<1>2. g = [h2 EXCEPT ![list] = IF @ = x THEN b.vnext ELSE @]
  BY DEF HeappBlockUnlink
<1> HIDE DEF h1, g
<1>3. IsHeap(h1) /\ DOMAIN h1.blk = DOMAIN h.blk
  BY <1>1 DEF VprevSet, SamePlace
<1>4. VnextSet(h2, h1, b.vprev, b.vnext)
  BY <1>3, SetVnextFields
<1> HIDE DEF h2
<1>5. /\ IsHeap(g) /\ g.blk = h2.blk /\ g.memory = h2.memory /\ g.size = h2.size
      /\ g[list] = IF h2[list] = x THEN b.vnext ELSE h2[list]
      /\ \A other \in {"freeList", "usedList"} \ {list} : g[other] = h2[other]
  BY <1>2, <1>4 DEF VnextSet, IsHeap, HeapFields
<1>6. SamePlace(g, h)
  BY <1>1, <1>4, <1>5 DEF SamePlace, VprevSet, VnextSet
<1>7. \A l \in {"freeList", "usedList"} : h2[l] = h[l]
  BY <1>1, <1>4 DEF SameHeads, VprevSet, VnextSet
<1>8. \A y \in DOMAIN h.blk :
         /\ g.blk[y].vprev = IF y = b.vnext /\ y # 0 THEN b.vprev ELSE h.blk[y].vprev
         /\ g.blk[y].vnext = IF y = b.vprev /\ y # 0 THEN b.vnext ELSE h.blk[y].vnext
  BY <1>1, <1>3, <1>4, <1>5 DEF VprevSet, VnextSet
<1> QED BY <1>5, <1>6, <1>7, <1>8 DEF Unlinked, g

Linked(g, h, list, x) ==
    /\ IsHeap(g) /\ SamePlace(g, h)
    /\ g[list] = x
    /\ \A other \in {"freeList", "usedList"} \ {list} : g[other] = h[other]
    /\ \A y \in DOMAIN h.blk :
         /\ g.blk[y].vnext = IF y = x THEN h[list] ELSE h.blk[y].vnext
         /\ g.blk[y].vprev = IF y = h[list] /\ y # 0 THEN x
                             ELSE IF y = x THEN 0 ELSE h.blk[y].vprev

LEMMA LinkFields ==
    ASSUME NEW h, IsHeap(h), NEW list \in {"freeList", "usedList"},
           NEW x \in DOMAIN h.blk, h[list] # 0 => h[list] \in DOMAIN h.blk
    PROVE  Linked(HeappBlockLink(h, list, x), h, list, x)
<1> DEFINE h1 == [h EXCEPT !.blk[x].vnext = h[list], !.blk[x].vprev = 0]
           h2 == SetVprev(h1, h[list], x)
           g == HeappBlockLink(h, list, x)
<1>1. /\ IsHeap(h1) /\ SamePlace(h1, h) /\ SameHeads(h1, h)
      /\ \A y \in DOMAIN h.blk :
           /\ h1.blk[y].vnext = IF y = x THEN h[list] ELSE h.blk[y].vnext
           /\ h1.blk[y].vprev = IF y = x THEN 0 ELSE h.blk[y].vprev
  BY DEF IsHeap, HeapFields, BlockFields, SamePlace, SameHeads
<1>2. g = [h2 EXCEPT ![list] = x]
  BY DEF HeappBlockLink
<1> HIDE DEF h1, g
<1>3. DOMAIN h1.blk = DOMAIN h.blk
  BY <1>1 DEF SamePlace
<1>4. VprevSet(h2, h1, h[list], x)
  BY <1>1, <1>3, SetVprevFields
<1> HIDE DEF h2
<1>5. /\ IsHeap(g) /\ g.blk = h2.blk /\ g.memory = h2.memory /\ g.size = h2.size
      /\ g[list] = x
      /\ \A other \in {"freeList", "usedList"} \ {list} : g[other] = h2[other]
  BY <1>2, <1>4 DEF IsHeap, HeapFields, VprevSet
<1>6. SamePlace(g, h)
  BY <1>1, <1>4, <1>5 DEF SamePlace, VprevSet
<1>7. \A l \in {"freeList", "usedList"} : h2[l] = h[l]
  BY <1>1, <1>4 DEF SameHeads, VprevSet
<1>8. \A y \in DOMAIN h.blk :
         /\ g.blk[y].vnext = IF y = x THEN h[list] ELSE h.blk[y].vnext
         /\ g.blk[y].vprev = IF y = h[list] /\ y # 0 THEN x
                             ELSE IF y = x THEN 0 ELSE h.blk[y].vprev
  BY <1>1, <1>3, <1>4, <1>5 DEF VprevSet
<1> QED BY <1>5, <1>6, <1>7, <1>8 DEF Linked, g

(* A list keeps its blocks when neither its head nor their links change.   *)
LEMMA ListKept ==
    ASSUME NEW h, NEW g, NEW head, NEW S, SameLinks(g, h, S), 0 \notin S,
           OnList(h, head, S), Reaches(h, head, S)
    PROVE  OnList(g, head, S) /\ Reaches(g, head, S)
<1>1. OnList(g, head, S)
  BY DEF SameLinks, OnList
<1>2. Reaches(g, head, S)
  BY DEF SameLinks, OnList, Reaches
<1> QED BY <1>1, <1>2

(* A block taken out of a list.                                            *)
LEMMA ListWithout ==
    ASSUME NEW h, NEW g, NEW head, NEW head2, NEW S, 0 \notin S, NEW x \in S,
           OnList(h, head, S), Reaches(h, head, S),
           head2 = IF head = x THEN h.blk[x].vnext ELSE head,
           \A y \in S :
             /\ g.blk[y].vprev = IF y = h.blk[x].vnext /\ y # 0
                                 THEN h.blk[x].vprev ELSE h.blk[y].vprev
             /\ g.blk[y].vnext = IF y = h.blk[x].vprev /\ y # 0
                                 THEN h.blk[x].vnext ELSE h.blk[y].vnext
    PROVE  OnList(g, head2, S \ {x}) /\ Reaches(g, head2, S \ {x})
<1>1. OnList(g, head2, S \ {x})
  BY SMTT(30) DEF OnList
<1>2. ASSUME NEW C \in SUBSET ((S \ {x}) \cup {0}), head2 \in C,
             \A y \in C \ {0} : g.blk[y].vnext \in C
      PROVE  S \ {x} \subseteq C
  <2>1. CASE head = x \/ h.blk[x].vprev \in C
    <3> DEFINE D == C \cup {x}
    <3>1. D \in SUBSET (S \cup {0}) /\ head \in D
      BY <1>2
    <3>2. h.blk[x].vnext \in D
      BY <1>2, <2>1 DEF OnList
    <3>3. \A y \in D \ {0} : h.blk[y].vnext \in D
      BY <1>2, <3>2 DEF OnList
    <3>4. S \subseteq D
      BY <3>1, <3>3 DEF Reaches
    <3> QED BY <3>4
  <2>2. CASE head # x /\ h.blk[x].vprev \notin C
    <3>1. \A y \in C \ {0} : h.blk[y].vnext \in C
      BY <1>2, <2>2 DEF OnList
    <3>2. C \in SUBSET (S \cup {0}) /\ head \in C
      BY <1>2, <2>2
    <3>3. S \subseteq C
      BY <3>1, <3>2 DEF Reaches
    <3> QED BY <3>3
  <2> QED BY <2>1, <2>2
<1>3. Reaches(g, head2, S \ {x})
  BY <1>2 DEF Reaches
<1> QED BY <1>1, <1>3

(* A block put in front of a list.                                         *)
PutFirst(g, h, head, S, x) ==
    \A y \in S \cup {x} :
        /\ g.blk[y].vnext = IF y = x THEN head ELSE h.blk[y].vnext
        /\ g.blk[y].vprev = IF y = head /\ y # 0 THEN x
                            ELSE IF y = x THEN 0 ELSE h.blk[y].vprev

LEMMA ListWith ==
    ASSUME NEW h, NEW g, NEW head, NEW S, 0 \notin S, NEW x, x \notin S, x # 0,
           OnList(h, head, S), Reaches(h, head, S),
           PutFirst(g, h, head, S, x)
    PROVE  OnList(g, x, S \cup {x}) /\ Reaches(g, x, S \cup {x})
<1>1. OnList(g, x, S \cup {x})
  BY DEF OnList, PutFirst
<1>2. ASSUME NEW C \in SUBSET ((S \cup {x}) \cup {0}), x \in C,
             \A y \in C \ {0} : g.blk[y].vnext \in C
      PROVE  S \cup {x} \subseteq C
  <2> DEFINE D == C \ {x}
  <2>1. D \in SUBSET (S \cup {0}) /\ head \in D
    BY <1>2 DEF OnList, PutFirst
  <2>2. \A y \in D \ {0} : h.blk[y].vnext \in D
    BY <1>2 DEF OnList, PutFirst
  <2>3. S \subseteq D
    BY <2>1, <2>2 DEF Reaches
  <2> QED BY <2>3, <1>2
<1>3. Reaches(g, x, S \cup {x})
  BY <1>2 DEF Reaches
<1> QED BY <1>1, <1>3
-----------------------------------------------------------------------------
(* What the steps of an operation do to the two lists.                     *)
LEMMA UnlinkFree ==
    ASSUME NEW h, NEW F, NEW U, NEW L, Lists(h, F, U, L), NEW x \in F,
           NEW g, g = HeappBlockUnlink(h, "freeList", x)
    PROVE  Lists(g, F \ {x}, U, L \cup {x}) /\ SamePlace(g, h)
<1>1. Unlinked(g, h, "freeList", x)
  BY UnlinkFields DEF Lists, OnList
<1>2. IsHeap(g) /\ SamePlace(g, h) /\ DOMAIN g.blk = DOMAIN h.blk
  BY <1>1 DEF Unlinked, SamePlace
<1>3. OnList(g, g.freeList, F \ {x}) /\ Reaches(g, g.freeList, F \ {x})
  <2>1. \A y \in F :
          /\ g.blk[y].vprev = IF y = h.blk[x].vnext /\ y # 0
                              THEN h.blk[x].vprev ELSE h.blk[y].vprev
          /\ g.blk[y].vnext = IF y = h.blk[x].vprev /\ y # 0
                              THEN h.blk[x].vnext ELSE h.blk[y].vnext
    BY <1>1 DEF Unlinked, Lists
  <2>2. g.freeList = IF h.freeList = x THEN h.blk[x].vnext ELSE h.freeList
    BY <1>1 DEF Unlinked
  <2> QED BY <2>1, <2>2, ListWithout DEF Lists
<1>4. OnList(g, g.usedList, U) /\ Reaches(g, g.usedList, U)
  <2>1. SameLinks(g, h, U)
    BY <1>1 DEF Unlinked, Lists, OnList, SameLinks
  <2>2. g.usedList = h.usedList
    BY <1>1 DEF Unlinked
  <2> QED BY <2>1, <2>2, ListKept DEF Lists
<1>5. /\ \A y \in F \ {x} : g.blk[y].state = FREE
      /\ \A y \in U : g.blk[y].state = USED
  BY <1>2 DEF SamePlace, Lists
<1>6. /\ DOMAIN g.blk = (F \ {x}) \cup U \cup (L \cup {x})
      /\ 0 \notin (F \ {x}) \cup U \cup (L \cup {x})
      /\ (F \ {x}) \cap U = {} /\ (F \ {x}) \cap (L \cup {x}) = {}
      /\ U \cap (L \cup {x}) = {}
  BY <1>2 DEF Lists
<1> QED BY <1>2, <1>3, <1>4, <1>5, <1>6 DEF Lists

LEMMA UnlinkUsed ==
    ASSUME NEW h, NEW F, NEW U, NEW L, Lists(h, F, U, L), NEW x \in U,
           NEW g, g = HeappBlockUnlink(h, "usedList", x)
    PROVE  Lists(g, F, U \ {x}, L \cup {x}) /\ SamePlace(g, h)
<1>1. Unlinked(g, h, "usedList", x)
  BY UnlinkFields DEF Lists, OnList
<1>2. IsHeap(g) /\ SamePlace(g, h) /\ DOMAIN g.blk = DOMAIN h.blk
  BY <1>1 DEF Unlinked, SamePlace
<1>3. OnList(g, g.usedList, U \ {x}) /\ Reaches(g, g.usedList, U \ {x})
  <2>1. \A y \in U :
          /\ g.blk[y].vprev = IF y = h.blk[x].vnext /\ y # 0
                              THEN h.blk[x].vprev ELSE h.blk[y].vprev
          /\ g.blk[y].vnext = IF y = h.blk[x].vprev /\ y # 0
                              THEN h.blk[x].vnext ELSE h.blk[y].vnext
    BY <1>1 DEF Unlinked, Lists
  <2>2. g.usedList = IF h.usedList = x THEN h.blk[x].vnext ELSE h.usedList
    BY <1>1 DEF Unlinked
  <2> QED BY <2>1, <2>2, ListWithout DEF Lists
<1>4. OnList(g, g.freeList, F) /\ Reaches(g, g.freeList, F)
  <2>1. SameLinks(g, h, F)
    BY <1>1 DEF Unlinked, Lists, OnList, SameLinks
  <2>2. g.freeList = h.freeList
    BY <1>1 DEF Unlinked
  <2> QED BY <2>1, <2>2, ListKept DEF Lists
<1>5. /\ \A y \in F : g.blk[y].state = FREE
      /\ \A y \in U \ {x} : g.blk[y].state = USED
  BY <1>2 DEF SamePlace, Lists
<1>6. /\ DOMAIN g.blk = F \cup (U \ {x}) \cup (L \cup {x})
      /\ 0 \notin F \cup (U \ {x}) \cup (L \cup {x})
      /\ F \cap (U \ {x}) = {} /\ F \cap (L \cup {x}) = {}
      /\ (U \ {x}) \cap (L \cup {x}) = {}
  BY <1>2 DEF Lists
<1> QED BY <1>2, <1>3, <1>4, <1>5, <1>6 DEF Lists

LEMMA LinkFree ==
    ASSUME NEW h, NEW F, NEW U, NEW L, Lists(h, F, U, L),
           NEW x \in L, h.blk[x].state = FREE,
           NEW g, g = HeappBlockLink(h, "freeList", x)
    PROVE  Lists(g, F \cup {x}, U, L \ {x}) /\ SamePlace(g, h)
<1>1. Linked(g, h, "freeList", x)
  BY LinkFields DEF Lists, OnList
<1>2. IsHeap(g) /\ SamePlace(g, h) /\ DOMAIN g.blk = DOMAIN h.blk
  BY <1>1 DEF Linked, SamePlace
<1>3. OnList(g, g.freeList, F \cup {x}) /\ Reaches(g, g.freeList, F \cup {x})
  <2>1. PutFirst(g, h, h.freeList, F, x)
    BY <1>1 DEF Linked, Lists, PutFirst
  <2>2. g.freeList = x /\ x # 0 /\ x \notin F
    BY <1>1 DEF Linked, Lists
  <2> QED BY <2>1, <2>2, ListWith DEF Lists
<1>4. OnList(g, g.usedList, U) /\ Reaches(g, g.usedList, U)
  <2>1. SameLinks(g, h, U)
    BY <1>1 DEF Linked, Lists, OnList, SameLinks
  <2>2. g.usedList = h.usedList
    BY <1>1 DEF Linked
  <2> QED BY <2>1, <2>2, ListKept DEF Lists
<1>5. /\ \A y \in F \cup {x} : g.blk[y].state = FREE
      /\ \A y \in U : g.blk[y].state = USED
  BY <1>2 DEF SamePlace, Lists
<1>6. /\ DOMAIN g.blk = (F \cup {x}) \cup U \cup (L \ {x})
      /\ 0 \notin (F \cup {x}) \cup U \cup (L \ {x})
      /\ (F \cup {x}) \cap U = {} /\ (F \cup {x}) \cap (L \ {x}) = {}
      /\ U \cap (L \ {x}) = {}
  BY <1>2 DEF Lists
<1> QED BY <1>2, <1>3, <1>4, <1>5, <1>6 DEF Lists

LEMMA LinkUsed ==
    ASSUME NEW h, NEW F, NEW U, NEW L, Lists(h, F, U, L),
           NEW x \in L, h.blk[x].state = USED,
           NEW g, g = HeappBlockLink(h, "usedList", x)
    PROVE  Lists(g, F, U \cup {x}, L \ {x}) /\ SamePlace(g, h)
<1>1. Linked(g, h, "usedList", x)
  BY LinkFields DEF Lists, OnList
<1>2. IsHeap(g) /\ SamePlace(g, h) /\ DOMAIN g.blk = DOMAIN h.blk
  BY <1>1 DEF Linked, SamePlace
<1>3. OnList(g, g.usedList, U \cup {x}) /\ Reaches(g, g.usedList, U \cup {x})
  <2>1. PutFirst(g, h, h.usedList, U, x)
    BY <1>1 DEF Linked, Lists, PutFirst
  <2>2. g.usedList = x /\ x # 0 /\ x \notin U
    BY <1>1 DEF Linked, Lists
  <2> QED BY <2>1, <2>2, ListWith DEF Lists
<1>4. OnList(g, g.freeList, F) /\ Reaches(g, g.freeList, F)
  <2>1. SameLinks(g, h, F)
    BY <1>1 DEF Linked, Lists, OnList, SameLinks
  <2>2. g.freeList = h.freeList
    BY <1>1 DEF Linked
  <2> QED BY <2>1, <2>2, ListKept DEF Lists
<1>5. /\ \A y \in F : g.blk[y].state = FREE
      /\ \A y \in U \cup {x} : g.blk[y].state = USED
  BY <1>2 DEF SamePlace, Lists
<1>6. /\ DOMAIN g.blk = F \cup (U \cup {x}) \cup (L \ {x})
      /\ 0 \notin F \cup (U \cup {x}) \cup (L \ {x})
      /\ F \cap (U \cup {x}) = {} /\ F \cap (L \ {x}) = {}
      /\ (U \cup {x}) \cap (L \ {x}) = {}
  BY <1>2 DEF Lists
<1> QED BY <1>2, <1>3, <1>4, <1>5, <1>6 DEF Lists

(* Steps that leave the links alone.                                       *)
LEMMA ListsKept ==
    ASSUME NEW h, NEW F, NEW U, NEW L, Lists(h, F, U, L), NEW g, IsHeap(g),
           SameHeads(g, h), SameLinks(g, h, F \cup U), NEW L2,
           DOMAIN g.blk = F \cup U \cup L2, 0 \notin L2, F \cap L2 = {}, U \cap L2 = {},
           \A y \in F \cup U : g.blk[y].state = h.blk[y].state
    PROVE  Lists(g, F, U, L2)
<1>1. SameLinks(g, h, F) /\ SameLinks(g, h, U)
  BY DEF SameLinks
<1>2. OnList(g, h.freeList, F) /\ Reaches(g, h.freeList, F)
  BY <1>1, ListKept DEF Lists
<1>3. OnList(g, h.usedList, U) /\ Reaches(g, h.usedList, U)
  BY <1>1, ListKept DEF Lists
<1>4. /\ \A y \in F : g.blk[y].state = FREE
      /\ \A y \in U : g.blk[y].state = USED
      /\ 0 \notin F \cup U \cup L2 /\ F \cap U = {}
  BY DEF Lists
<1> QED BY <1>2, <1>3, <1>4 DEF Lists, SameHeads

LEMMA ListsPprev ==
    ASSUME NEW h, NEW F, NEW U, NEW L, Lists(h, F, U, L), NEW g, NEW x, NEW v,
           PprevSet(g, h, x, v)
    PROVE  Lists(g, F, U, L)
<1>1. IsHeap(g) /\ SameHeads(g, h) /\ SameLinks(g, h, F \cup U) /\ DOMAIN g.blk = F \cup U \cup L
  BY DEF PprevSet, Lists, SameLinks
<1>2. \A y \in F \cup U : g.blk[y].state = h.blk[y].state
  BY DEF PprevSet, Lists
<1>3. 0 \notin L /\ F \cap L = {} /\ U \cap L = {}
  BY DEF Lists
<1> QED BY <1>1, <1>2, <1>3, ListsKept

LEMMA ListsHeader ==
    ASSUME NEW h, NEW F, NEW U, NEW L, Lists(h, F, U, L), NEW g, NEW x, NEW s, NEW n, NEW q,
           HeaderSet(g, h, x, s, n, q), x \notin L => s = h.blk[x].state
    PROVE  Lists(g, F, U, L)
<1>1. IsHeap(g) /\ SameHeads(g, h) /\ SameLinks(g, h, F \cup U) /\ DOMAIN g.blk = F \cup U \cup L
  BY DEF HeaderSet, Lists, SameLinks
<1>2. \A y \in F \cup U : g.blk[y].state = h.blk[y].state
  BY DEF HeaderSet, Lists
<1>3. 0 \notin L /\ F \cap L = {} /\ U \cap L = {}
  BY DEF Lists
<1> QED BY <1>1, <1>2, <1>3, ListsKept

LEMMA ListsWrite ==
    ASSUME NEW h, NEW F, NEW U, NEW L, Lists(h, F, U, L), NEW g, NEW x, NEW b,
           Written(g, h, x, b), x \notin DOMAIN h.blk, x # 0
    PROVE  Lists(g, F, U, L \cup {x})
<1>1. IsHeap(g) /\ SameHeads(g, h) /\ DOMAIN g.blk = F \cup U \cup (L \cup {x})
  BY DEF Written, Lists
<1>2. \A y \in F \cup U : g.blk[y] = h.blk[y]
  BY DEF Written, Lists
<1>3. SameLinks(g, h, F \cup U) /\ \A y \in F \cup U : g.blk[y].state = h.blk[y].state
  BY <1>2 DEF SameLinks
<1>4. 0 \notin L \cup {x} /\ F \cap (L \cup {x}) = {} /\ U \cap (L \cup {x}) = {}
  BY DEF Lists
<1> QED BY <1>1, <1>3, <1>4, ListsKept

LEMMA ListsForget ==
    ASSUME NEW h, NEW F, NEW U, NEW L, Lists(h, F, U, L), NEW g, NEW x \in L,
           Forgotten(g, h, {x})
    PROVE  Lists(g, F, U, L \ {x})
<1>1. IsHeap(g) /\ SameHeads(g, h) /\ DOMAIN g.blk = F \cup U \cup (L \ {x})
  BY DEF Forgotten, Lists
<1>2. \A y \in F \cup U : g.blk[y] = h.blk[y]
  BY DEF Forgotten, Lists
<1>3. SameLinks(g, h, F \cup U) /\ \A y \in F \cup U : g.blk[y].state = h.blk[y].state
  BY <1>2 DEF SameLinks
<1>4. 0 \notin L \ {x} /\ F \cap (L \ {x}) = {} /\ U \cap (L \ {x}) = {}
  BY DEF Lists
<1> QED BY <1>1, <1>3, <1>4, ListsKept
-----------------------------------------------------------------------------
(* The blocks tile the memory.  PlacedAt is what Tiled says of a block, and*)
(* that its neighbours know of it; Apart is what makes cuts harmless.      *)
PlacedAt(h, x) ==
    /\ x \in Nat /\ x >= START
    /\ h.blk[x].size \in Nat /\ h.blk[x].size >= 1 /\ x + h.blk[x].size <= h.size
    /\ h.blk[x].pnext = IF x + h.blk[x].size = h.size THEN 0 ELSE x + h.blk[x].size + HDR
    /\ h.blk[x].pnext # 0 =>
         h.blk[x].pnext \in DOMAIN h.blk /\ h.blk[h.blk[x].pnext].pprev = x
    /\ (h.blk[x].pprev = 0) <=> (x = START)
    /\ h.blk[x].pprev # 0 =>
         h.blk[x].pprev \in DOMAIN h.blk /\ h.blk[h.blk[x].pprev].pnext = x
Apart(h) == \A x, y \in DOMAIN h.blk : x < y => x + h.blk[x].size + HDR <= y
Placed(h) ==
    /\ h.size \in Nat
    /\ START \in DOMAIN h.blk
    /\ \A x \in DOMAIN h.blk : PlacedAt(h, x)
    /\ Apart(h)

LEMMA PlacedKept ==
    ASSUME NEW h, NEW g, Placed(h), SameSpans(g, h)
    PROVE  Placed(g)
BY DEF Placed, PlacedAt, Apart, SameSpans

(* HeappSplit and HeappAlign: a block of m bytes is cut off x, at y.       *)
Cut(g, h, x, y, n, m) ==
    /\ g.memory = h.memory /\ g.size = h.size
    /\ DOMAIN g.blk = DOMAIN h.blk \cup {y}
    /\ g.blk[x].size = n /\ g.blk[x].pnext = y /\ g.blk[x].pprev = h.blk[x].pprev
    /\ g.blk[y].size = m /\ g.blk[y].pprev = x /\ g.blk[y].pnext = h.blk[x].pnext
    /\ \A z \in DOMAIN h.blk \ {x} :
         /\ g.blk[z].size = h.blk[z].size /\ g.blk[z].pnext = h.blk[z].pnext
         /\ g.blk[z].pprev = IF z = h.blk[x].pnext THEN y ELSE h.blk[z].pprev

(* No block starts inside another one.                                     *)
LEMMA InsideIsNew ==
    ASSUME NEW h, Placed(h), NEW x \in DOMAIN h.blk, NEW y, y \in Nat,
           x < y, y < x + h.blk[x].size
    PROVE  y \notin DOMAIN h.blk /\ y # 0
<1>1. x \in Nat /\ h.blk[x].size \in Nat
  BY DEF Placed, PlacedAt
<1> QED BY <1>1, BlockAssumption DEF Placed, Apart

LEMMA CutPlaced ==
    ASSUME NEW h, NEW g, Placed(h), NEW x \in DOMAIN h.blk, NEW y, NEW n \in Nat, NEW m \in Nat,
           n >= 1, m >= 1, y = x + n + HDR, m = x + h.blk[x].size - y, Cut(g, h, x, y, n, m)
    PROVE  Placed(g) /\ y \notin DOMAIN h.blk /\ y # 0
<1> USE BlockAssumption DEF START
<1>1. x \in Nat /\ h.blk[x].size \in Nat /\ y \in Nat /\ y > x /\ y < x + h.blk[x].size
  BY DEF Placed, PlacedAt
<1>2. y \notin DOMAIN h.blk
  BY <1>1 DEF Placed, Apart
<1>3. \A z \in DOMAIN h.blk : z \in Nat /\ h.blk[z].size \in Nat
  BY DEF Placed, PlacedAt
<1>4. Apart(g)
  <2> SUFFICES ASSUME NEW a \in DOMAIN g.blk, NEW c \in DOMAIN g.blk, a < c
               PROVE  a + g.blk[a].size + HDR <= c
    BY DEF Apart
  <2>1. CASE a = y
    BY <1>1, <1>2, <1>3, <2>1 DEF Cut, Placed, Apart
  <2>2. CASE a = x
    BY <1>1, <1>2, <1>3, <2>2 DEF Cut, Placed, Apart
  <2>3. CASE a # x /\ a # y
    BY <1>1, <1>2, <1>3, <2>3 DEF Cut, Placed, Apart
  <2> QED BY <2>1, <2>2, <2>3
<1>5. PlacedAt(g, x) /\ PlacedAt(g, y)
  BY <1>1, <1>2 DEF Cut, Placed, PlacedAt
<1>6. ASSUME NEW z \in DOMAIN h.blk \ {x}
      PROVE  PlacedAt(g, z)
  <2>1. PlacedAt(h, z) /\ z # y /\ z \in DOMAIN g.blk
    BY <1>2, <1>6 DEF Placed, Cut
  <2>2. /\ g.blk[z].size = h.blk[z].size /\ g.blk[z].pnext = h.blk[z].pnext
        /\ g.size = h.size /\ DOMAIN h.blk \subseteq DOMAIN g.blk
    BY <1>6 DEF Cut
  <2>3. g.blk[z].pnext # 0 =>
          g.blk[z].pnext \in DOMAIN g.blk /\ g.blk[g.blk[z].pnext].pprev = z
    <3> DEFINE w == h.blk[z].pnext
    <3> SUFFICES ASSUME w # 0 PROVE w \in DOMAIN g.blk /\ g.blk[w].pprev = z
      BY <2>2
    <3>1. w \in DOMAIN h.blk /\ h.blk[w].pprev = z
      BY <2>1 DEF PlacedAt
    <3>2. w # h.blk[x].pnext
      BY <1>6, <3>1 DEF Placed, PlacedAt
    <3>3. w # x => g.blk[w].pprev = h.blk[w].pprev
      BY <3>1, <3>2 DEF Cut
    <3>4. g.blk[x].pprev = h.blk[x].pprev
      BY DEF Cut
    <3> QED BY <2>2, <3>1, <3>3, <3>4
  <2>4. /\ (g.blk[z].pprev = 0) <=> (z = START)
        /\ g.blk[z].pprev # 0 =>
             g.blk[z].pprev \in DOMAIN g.blk /\ g.blk[g.blk[z].pprev].pnext = z
    <3>1. CASE z = h.blk[x].pnext
      <4>1. g.blk[z].pprev = y /\ y \in DOMAIN g.blk /\ g.blk[y].pnext = z
        BY <1>6, <3>1 DEF Cut
      <4>2. h.blk[x].pnext # 0 => h.blk[z].pprev = x
        BY <3>1 DEF Placed, PlacedAt
      <4>3. x # 0 /\ z # 0
        BY <1>6 DEF Placed, PlacedAt
      <4>4. z # START
        BY <2>1, <3>1, <4>2, <4>3 DEF PlacedAt
      <4> QED BY <1>1, <4>1, <4>4
    <3>2. CASE z # h.blk[x].pnext
      <4>1. g.blk[z].pprev = h.blk[z].pprev
        BY <1>6, <3>2 DEF Cut
      <4>2. h.blk[z].pprev # 0 => h.blk[z].pprev # x
        BY <2>1, <3>2 DEF PlacedAt
      <4>3. ASSUME h.blk[z].pprev # 0
            PROVE  /\ h.blk[z].pprev \in DOMAIN h.blk \ {x}
                   /\ h.blk[h.blk[z].pprev].pnext = z
        BY <2>1, <4>2, <4>3 DEF PlacedAt
      <4>4. \A v \in DOMAIN h.blk \ {x} : g.blk[v].pnext = h.blk[v].pnext
        BY DEF Cut
      <4> QED BY <2>1, <2>2, <4>1, <4>3, <4>4 DEF PlacedAt
    <3> QED BY <3>1, <3>2
  <2> QED BY <2>1, <2>2, <2>3, <2>4 DEF PlacedAt
<1>7. \A z \in DOMAIN g.blk : PlacedAt(g, z)
  BY <1>5, <1>6 DEF Cut
<1>8. g.size \in Nat /\ START \in DOMAIN g.blk
  BY DEF Cut, Placed
<1> QED BY <1>1, <1>2, <1>4, <1>7, <1>8 DEF Placed

(* HeappFree: x swallows the block behind it, header and all.              *)
Merged(g, h, x, y) ==
    /\ y = h.blk[x].pnext /\ y # 0
    /\ g.memory = h.memory /\ g.size = h.size
    /\ DOMAIN g.blk = DOMAIN h.blk \ {y}
    /\ g.blk[x].size = h.blk[x].size + HDR + h.blk[y].size
    /\ g.blk[x].pnext = h.blk[y].pnext /\ g.blk[x].pprev = h.blk[x].pprev
    /\ \A z \in DOMAIN h.blk \ {x, y} :
         /\ g.blk[z].size = h.blk[z].size /\ g.blk[z].pnext = h.blk[z].pnext
         /\ g.blk[z].pprev = IF z = h.blk[y].pnext THEN x ELSE h.blk[z].pprev

LEMMA MergePlaced ==
    ASSUME NEW h, NEW g, Placed(h), NEW x \in DOMAIN h.blk, NEW y,
           Merged(g, h, x, y)
    PROVE  Placed(g)
<1> USE BlockAssumption DEF START
<1>1. /\ y \in DOMAIN h.blk /\ PlacedAt(h, x) /\ PlacedAt(h, y)
      /\ y = x + h.blk[x].size + HDR /\ h.blk[y].pprev = x /\ x \in Nat /\ y \in Nat
      /\ x < y /\ x # 0 /\ y # 0
  BY DEF Placed, PlacedAt, Merged
<1>2. \A z \in DOMAIN h.blk : z \in Nat /\ h.blk[z].size \in Nat
  BY DEF Placed, PlacedAt
<1>3. Apart(g)
  <2> SUFFICES ASSUME NEW a \in DOMAIN g.blk, NEW c \in DOMAIN g.blk, a < c
               PROVE  a + g.blk[a].size + HDR <= c
    BY DEF Apart
  <2>1. CASE a = x
    BY <1>1, <1>2, <2>1 DEF Merged, Placed, Apart
  <2>2. CASE a # x
    BY <1>1, <1>2, <2>2 DEF Merged, Placed, Apart
  <2> QED BY <2>1, <2>2
<1>4. ASSUME NEW z \in DOMAIN h.blk \ {x, y}
      PROVE  PlacedAt(g, z)
  <2>1. PlacedAt(h, z) /\ z \in DOMAIN g.blk
    BY <1>4 DEF Placed, Merged
  <2>2. /\ g.blk[z].size = h.blk[z].size /\ g.blk[z].pnext = h.blk[z].pnext
        /\ g.size = h.size /\ DOMAIN g.blk = DOMAIN h.blk \ {y}
    BY <1>4 DEF Merged
  <2>3. g.blk[z].pnext # 0 =>
          g.blk[z].pnext \in DOMAIN g.blk /\ g.blk[g.blk[z].pnext].pprev = z
    <3> DEFINE w == h.blk[z].pnext
    <3> SUFFICES ASSUME w # 0 PROVE w \in DOMAIN g.blk /\ g.blk[w].pprev = z
      BY <2>2
    <3>1. w \in DOMAIN h.blk /\ h.blk[w].pprev = z
      BY <2>1 DEF PlacedAt
    <3>2. w # h.blk[y].pnext /\ w # y
      BY <1>1, <1>4, <3>1 DEF PlacedAt
    <3>3. w # x => g.blk[w].pprev = h.blk[w].pprev
      BY <3>1, <3>2 DEF Merged
    <3>4. g.blk[x].pprev = h.blk[x].pprev
      BY DEF Merged
    <3> QED BY <2>2, <3>1, <3>2, <3>3, <3>4
  <2>4. /\ (g.blk[z].pprev = 0) <=> (z = START)
        /\ g.blk[z].pprev # 0 =>
             g.blk[z].pprev \in DOMAIN g.blk /\ g.blk[g.blk[z].pprev].pnext = z
    <3>1. CASE z = h.blk[y].pnext
      <4>1. g.blk[z].pprev = x /\ x \in DOMAIN g.blk /\ g.blk[x].pnext = z
        BY <1>1, <1>4, <3>1 DEF Merged
      <4>2. z # 0
        BY <1>4 DEF Placed, PlacedAt
      <4>3. h.blk[z].pprev = y
        BY <1>1, <3>1, <4>2 DEF PlacedAt
      <4>4. z # START
        BY <2>1, <1>1, <4>3 DEF PlacedAt
      <4> QED BY <1>1, <4>1, <4>4
    <3>2. CASE z # h.blk[y].pnext
      <4>1. g.blk[z].pprev = h.blk[z].pprev
        BY <1>4, <3>2 DEF Merged
      <4>2. h.blk[z].pprev # 0 => h.blk[z].pprev # y /\ h.blk[z].pprev # x
        BY <1>4, <2>1, <3>2 DEF PlacedAt, Merged
      <4>3. ASSUME h.blk[z].pprev # 0
            PROVE  /\ h.blk[z].pprev \in DOMAIN h.blk \ {x, y}
                   /\ h.blk[h.blk[z].pprev].pnext = z
        BY <2>1, <4>2, <4>3 DEF PlacedAt
      <4>4. \A v \in DOMAIN h.blk \ {x, y} : g.blk[v].pnext = h.blk[v].pnext
        BY DEF Merged
      <4> QED BY <2>1, <2>2, <4>1, <4>3, <4>4 DEF PlacedAt
    <3> QED BY <3>1, <3>2
  <2> QED BY <2>1, <2>2, <2>3, <2>4 DEF PlacedAt
<1>5. PlacedAt(g, x)
  <2>1. /\ g.blk[x].size = h.blk[x].size + HDR + h.blk[y].size
        /\ g.blk[x].pnext = h.blk[y].pnext /\ g.blk[x].pprev = h.blk[x].pprev
        /\ g.size = h.size /\ DOMAIN g.blk = DOMAIN h.blk \ {y}
    BY DEF Merged
  <2>2. /\ g.blk[x].size \in Nat /\ g.blk[x].size >= 1
        /\ x + g.blk[x].size = y + h.blk[y].size
    BY <1>1, <1>2, <2>1 DEF PlacedAt
  <2>3. /\ x + g.blk[x].size <= g.size
        /\ g.blk[x].pnext = IF x + g.blk[x].size = g.size THEN 0 ELSE x + g.blk[x].size + HDR
    BY <1>1, <2>1, <2>2 DEF PlacedAt
  <2>4. g.blk[x].pnext # 0 =>
          g.blk[x].pnext \in DOMAIN g.blk /\ g.blk[g.blk[x].pnext].pprev = x
    <3> DEFINE w == h.blk[y].pnext
    <3> SUFFICES ASSUME w # 0 PROVE w \in DOMAIN g.blk /\ g.blk[w].pprev = x
      BY <2>1
    <3>1. w \in DOMAIN h.blk /\ w = y + h.blk[y].size + HDR
      BY <1>1 DEF PlacedAt
    <3>2. w # x /\ w # y
      BY <1>1, <1>2, <3>1
    <3> QED BY <2>1, <3>1, <3>2 DEF Merged
  <2>5. h.blk[x].pprev # 0 =>
          /\ h.blk[x].pprev \in DOMAIN h.blk \ {x, y}
          /\ h.blk[h.blk[x].pprev].pnext = x
    <3> DEFINE w == h.blk[x].pprev
    <3> SUFFICES ASSUME w # 0 PROVE w \in DOMAIN h.blk \ {x, y} /\ h.blk[w].pnext = x
      OBVIOUS
    <3>1. w \in DOMAIN h.blk /\ h.blk[w].pnext = x
      BY <1>1 DEF PlacedAt
    <3>2. w < x
      BY <1>1, <1>2, <3>1 DEF Placed, PlacedAt
    <3> QED BY <1>1, <1>2, <3>1, <3>2
  <2>6. \A v \in DOMAIN h.blk \ {x, y} : g.blk[v].pnext = h.blk[v].pnext
    BY DEF Merged
  <2>7. x \in Nat /\ x >= START /\ ((h.blk[x].pprev = 0) <=> (x = START))
    BY <1>1 DEF PlacedAt
  <2> QED BY <2>1, <2>2, <2>3, <2>4, <2>5, <2>6, <2>7 DEF PlacedAt
<1>6. y # START
  BY <1>1 DEF PlacedAt
<1>7. g.size \in Nat /\ START \in DOMAIN g.blk
  BY <1>6 DEF Merged, Placed
<1>8. \A z \in DOMAIN g.blk : PlacedAt(g, z)
  BY <1>4, <1>5 DEF Merged
<1> QED BY <1>3, <1>7, <1>8 DEF Placed

(* HeappAlign: the block at x starts at y instead, the gap goes to p.      *)
Moved(g, h, p, x, y) ==
    /\ p = h.blk[x].pprev /\ p # 0
    /\ g.memory = h.memory /\ g.size = h.size
    /\ DOMAIN g.blk = (DOMAIN h.blk \ {x}) \cup {y}
    /\ g.blk[p].size = h.blk[p].size + (y - x)
    /\ g.blk[p].pnext = y /\ g.blk[p].pprev = h.blk[p].pprev
    /\ g.blk[y].size = h.blk[x].size - (y - x)
    /\ g.blk[y].pnext = h.blk[x].pnext /\ g.blk[y].pprev = p
    /\ \A z \in DOMAIN h.blk \ {p, x} :
         /\ g.blk[z].size = h.blk[z].size /\ g.blk[z].pnext = h.blk[z].pnext
         /\ g.blk[z].pprev = IF z = h.blk[x].pnext THEN y ELSE h.blk[z].pprev

LEMMA MovePlaced ==
    ASSUME NEW h, NEW g, Placed(h), NEW x \in DOMAIN h.blk, NEW p, NEW y, y \in Nat,
           x < y, y < x + h.blk[x].size, Moved(g, h, p, x, y)
    PROVE  Placed(g) /\ y \notin DOMAIN h.blk
<1> USE BlockAssumption DEF START
<1>1. /\ p \in DOMAIN h.blk /\ PlacedAt(h, x) /\ PlacedAt(h, p)
      /\ x = p + h.blk[p].size + HDR /\ h.blk[p].pnext = x /\ x \in Nat /\ p \in Nat
      /\ p < x /\ x # START /\ p # 0
  BY DEF Placed, PlacedAt, Moved
<1>2. \A z \in DOMAIN h.blk : z \in Nat /\ h.blk[z].size \in Nat
  BY DEF Placed, PlacedAt
<1>3. /\ x \in Nat /\ p \in Nat /\ h.blk[x].size \in Nat /\ h.blk[p].size \in Nat
      /\ p < x /\ p # y /\ x # y /\ x = p + h.blk[p].size + HDR
  BY <1>1, <1>2
<1>4. \A a, c \in DOMAIN h.blk : a < c => a + h.blk[a].size + HDR <= c
  BY DEF Placed, Apart
<1>5. y \notin DOMAIN h.blk
  BY <1>3, <1>4
<1>6. /\ g.memory = h.memory /\ g.size = h.size
      /\ DOMAIN g.blk = (DOMAIN h.blk \ {x}) \cup {y}
      /\ g.blk[p].size = h.blk[p].size + (y - x)
      /\ g.blk[p].pnext = y /\ g.blk[p].pprev = h.blk[p].pprev
      /\ g.blk[y].size = h.blk[x].size - (y - x)
      /\ g.blk[y].pnext = h.blk[x].pnext /\ g.blk[y].pprev = p
  BY DEF Moved
<1>7. \A z \in DOMAIN h.blk \ {p, x} :
         /\ g.blk[z].size = h.blk[z].size /\ g.blk[z].pnext = h.blk[z].pnext
         /\ g.blk[z].pprev = IF z = h.blk[x].pnext THEN y ELSE h.blk[z].pprev
  BY DEF Moved
<1>8. Apart(g)
  <2> SUFFICES ASSUME NEW a \in DOMAIN g.blk, NEW c \in DOMAIN g.blk, a < c
               PROVE  a + g.blk[a].size + HDR <= c
    BY DEF Apart
  <2>1. CASE a = p
    <3>1. a + g.blk[a].size + HDR = y
      BY <1>3, <1>6, <2>1
    <3>2. CASE c = y
      BY <3>1, <3>2
    <3>3. CASE c # y
      <4>1. c \in DOMAIN h.blk /\ c # x /\ c \in Nat
        BY <1>2, <1>6, <3>3
      <4>2. x <= c
        BY <1>1, <1>3, <1>4, <2>1, <4>1
      <4>3. x + h.blk[x].size + HDR <= c
        BY <1>3, <1>4, <4>1, <4>2
      <4> QED BY <1>3, <3>1, <4>1, <4>3
    <3> QED BY <3>2, <3>3
  <2>2. CASE a = y
    <3>1. c \in DOMAIN h.blk /\ c \in Nat /\ x < c
      BY <1>2, <1>3, <1>6, <2>2
    <3>2. x + h.blk[x].size + HDR <= c
      BY <1>4, <3>1
    <3> QED BY <1>3, <1>6, <2>2, <3>1, <3>2
  <2>3. CASE a # p /\ a # y
    <3>1. /\ a \in DOMAIN h.blk \ {p, x} /\ a \in Nat /\ h.blk[a].size \in Nat
          /\ g.blk[a].size = h.blk[a].size
      BY <1>2, <1>6, <1>7, <2>3
    <3>2. CASE c = y
      <4>1. a < x
        <5> SUFFICES ASSUME x < a PROVE FALSE
          BY <1>3, <3>1
        <5>1. x + h.blk[x].size + HDR <= a
          BY <1>4, <3>1
        <5> QED BY <1>3, <3>1, <3>2, <5>1
      <4>2. a + h.blk[a].size + HDR <= x
        BY <1>4, <3>1, <4>1
      <4> QED BY <1>3, <3>1, <3>2, <4>2
    <3>3. CASE c # y
      BY <1>4, <1>6, <3>1, <3>3
    <3> QED BY <3>2, <3>3
  <2> QED BY <2>1, <2>2, <2>3
<1>9. ASSUME NEW z \in DOMAIN h.blk \ {p, x}
      PROVE  PlacedAt(g, z)
  <2>1. PlacedAt(h, z) /\ z # y /\ z \in DOMAIN g.blk
    BY <1>5, <1>6, <1>9 DEF Placed
  <2>2. g.blk[z].size = h.blk[z].size /\ g.blk[z].pnext = h.blk[z].pnext
    BY <1>7, <1>9
  <2>3. g.blk[z].pnext # 0 =>
          g.blk[z].pnext \in DOMAIN g.blk /\ g.blk[g.blk[z].pnext].pprev = z
    <3> DEFINE w == h.blk[z].pnext
    <3> SUFFICES ASSUME w # 0 PROVE w \in DOMAIN g.blk /\ g.blk[w].pprev = z
      BY <2>2
    <3>1. w \in DOMAIN h.blk /\ h.blk[w].pprev = z
      BY <2>1 DEF PlacedAt
    <3>2. w # x /\ w # h.blk[x].pnext
      BY <1>1, <1>9, <3>1 DEF PlacedAt
    <3>3. w # p => g.blk[w].pprev = h.blk[w].pprev
      BY <1>7, <3>1, <3>2
    <3> QED BY <1>6, <3>1, <3>2, <3>3
  <2>4. /\ (g.blk[z].pprev = 0) <=> (z = START)
        /\ g.blk[z].pprev # 0 =>
             g.blk[z].pprev \in DOMAIN g.blk /\ g.blk[g.blk[z].pprev].pnext = z
    <3>1. CASE z = h.blk[x].pnext
      <4>1. g.blk[z].pprev = y /\ y \in DOMAIN g.blk /\ g.blk[y].pnext = z
        BY <1>6, <1>7, <1>9, <3>1
      <4>2. z # 0 /\ x # 0
        BY <1>9 DEF Placed, PlacedAt
      <4>3. h.blk[z].pprev = x
        BY <1>1, <3>1, <4>2 DEF PlacedAt
      <4>4. z # START
        BY <2>1, <4>2, <4>3 DEF PlacedAt
      <4> QED BY <1>3, <4>1, <4>4
    <3>2. CASE z # h.blk[x].pnext
      <4>1. g.blk[z].pprev = h.blk[z].pprev
        BY <1>7, <1>9, <3>2
      <4>2. h.blk[z].pprev # 0 => h.blk[z].pprev # x /\ h.blk[z].pprev # p
        BY <1>1, <1>9, <2>1, <3>2 DEF PlacedAt
      <4>3. ASSUME h.blk[z].pprev # 0
            PROVE  /\ h.blk[z].pprev \in DOMAIN h.blk \ {p, x}
                   /\ h.blk[h.blk[z].pprev].pnext = z
        BY <2>1, <4>2, <4>3 DEF PlacedAt
      <4>4. \A v \in DOMAIN h.blk \ {p, x} : g.blk[v].pnext = h.blk[v].pnext
        BY <1>7
      <4> QED BY <1>6, <2>1, <4>1, <4>3, <4>4 DEF PlacedAt
    <3> QED BY <3>1, <3>2
  <2> QED BY <1>6, <2>1, <2>2, <2>3, <2>4 DEF PlacedAt
<1>10. PlacedAt(g, p)
  <2>1. /\ g.blk[p].size \in Nat /\ g.blk[p].size >= 1 /\ p + g.blk[p].size + HDR = y
        /\ p + g.blk[p].size < y /\ y < h.size
    BY <1>1, <1>3, <1>6 DEF Placed, PlacedAt
  <2>2. /\ p + g.blk[p].size <= g.size /\ p + g.blk[p].size # g.size
    BY <1>3, <1>6, <2>1 DEF Placed
  <2>3. h.blk[p].pprev # 0 =>
          /\ h.blk[p].pprev \in DOMAIN h.blk \ {p, x}
          /\ h.blk[h.blk[p].pprev].pnext = p
    <3> DEFINE w == h.blk[p].pprev
    <3> SUFFICES ASSUME w # 0 PROVE w \in DOMAIN h.blk \ {p, x} /\ h.blk[w].pnext = p
      OBVIOUS
    <3>1. w \in DOMAIN h.blk /\ h.blk[w].pnext = p
      BY <1>1 DEF PlacedAt
    <3>2. w < p
      BY <1>1, <1>2, <3>1 DEF Placed, PlacedAt
    <3> QED BY <1>1, <1>2, <3>1, <3>2
  <2>4. p >= START /\ ((h.blk[p].pprev = 0) <=> (p = START))
    BY <1>1 DEF PlacedAt
  <2>5. \A v \in DOMAIN h.blk \ {p, x} : g.blk[v].pnext = h.blk[v].pnext
    BY <1>7
  <2>6. g.blk[p].pnext # 0 =>
          g.blk[p].pnext \in DOMAIN g.blk /\ g.blk[g.blk[p].pnext].pprev = p
    BY <1>6
  <2>7. g.blk[p].pprev # 0 =>
          g.blk[p].pprev \in DOMAIN g.blk /\ g.blk[g.blk[p].pprev].pnext = p
    BY <1>6, <2>3, <2>5
  <2> QED BY <1>3, <1>6, <2>1, <2>2, <2>4, <2>6, <2>7 DEF PlacedAt
<1>11. PlacedAt(g, y)
  <2>1. /\ g.blk[y].size \in Nat /\ g.blk[y].size >= 1
        /\ y + g.blk[y].size = x + h.blk[x].size
    BY <1>3, <1>6
  <2>2. /\ y + g.blk[y].size <= g.size
        /\ g.blk[y].pnext = IF y + g.blk[y].size = g.size THEN 0 ELSE y + g.blk[y].size + HDR
    BY <1>1, <1>6, <2>1 DEF PlacedAt
  <2>3. g.blk[y].pnext # 0 =>
          g.blk[y].pnext \in DOMAIN g.blk /\ g.blk[g.blk[y].pnext].pprev = y
    <3> DEFINE w == h.blk[x].pnext
    <3> SUFFICES ASSUME w # 0 PROVE w \in DOMAIN g.blk /\ g.blk[w].pprev = y
      BY <1>6
    <3>1. w \in DOMAIN h.blk /\ w = x + h.blk[x].size + HDR
      BY <1>1 DEF PlacedAt
    <3>2. w # x /\ w # p
      BY <1>3, <3>1
    <3> QED BY <1>6, <1>7, <3>1, <3>2
  <2>4. y >= START /\ y # START
    BY <1>1, <1>3 DEF PlacedAt
  <2> QED BY <1>1, <1>6, <2>1, <2>2, <2>3, <2>4 DEF PlacedAt
<1>12. g.size \in Nat /\ START \in DOMAIN g.blk
  BY <1>1, <1>6 DEF Placed
<1>13. \A z \in DOMAIN g.blk : PlacedAt(g, z)
  BY <1>6, <1>9, <1>10, <1>11
<1> QED BY <1>5, <1>8, <1>12, <1>13 DEF Placed
-----------------------------------------------------------------------------
(* The part HeappSplit and HeappAlign share: the rest of the free block x, *)
(* from y on, becomes a free block of its own.                             *)
CutOff(h, x, y, n, m) ==
    [SetPprev(HeappBlockLink(Write(h, y, Block(FREE, m, x, h.blk[x].pnext)), "freeList", y),
              h.blk[x].pnext, y)
       EXCEPT !.blk[x].pnext = y, !.blk[x].size = n]

LEMMA CutOffLists ==
    ASSUME NEW h, NEW F, NEW U, Lists(h, F, U, {}), Placed(h), NEW x \in F,
           NEW y, NEW n, NEW m, y \notin DOMAIN h.blk, y # 0
    PROVE  /\ Lists(CutOff(h, x, y, n, m), F \cup {y}, U, {})
           /\ Cut(CutOff(h, x, y, n, m), h, x, y, n, m)
<1> DEFINE b == Block(FREE, m, x, h.blk[x].pnext)
           h1 == Write(h, y, b)
           h2 == HeappBlockLink(h1, "freeList", y)
           h3 == SetPprev(h2, h.blk[x].pnext, y)
           g == CutOff(h, x, y, n, m)
           q == h.blk[x].pnext
<1>1. x \in DOMAIN h.blk /\ x # y /\ IsHeap(h)
  BY DEF Lists
<1>2. q # 0 => q \in DOMAIN h.blk
  BY <1>1 DEF Placed, PlacedAt
<1>3. g = [h3 EXCEPT !.blk[x].pnext = y, !.blk[x].size = n]
  BY DEF CutOff
<1> HIDE DEF g
<1>4. DOMAIN b = BlockFields /\ b.state = FREE /\ b.size = m /\ b.pprev = x /\ b.pnext = q
  BY BlockFieldsAre
<1> HIDE DEF b, q
<1>5. Written(h1, h, y, b)
  BY <1>1, <1>4, WriteFields
<1> HIDE DEF h1
<1>6. Lists(h1, F, U, {} \cup {y})
  BY <1>5, ListsWrite
<1>7. Lists(h1, F, U, {y}) /\ h1.blk[y] = b
  <2>1. {} \cup {y} = {y}
    OBVIOUS
  <2> QED BY <1>5, <1>6, <2>1 DEF Written
<1>8. Lists(h2, F \cup {y}, U, {y} \ {y}) /\ SamePlace(h2, h1)
  BY <1>4, <1>7, LinkFree
<1> HIDE DEF h2
<1>9. Lists(h2, F \cup {y}, U, {})
  <2>1. {y} \ {y} = {}
    OBVIOUS
  <2> QED BY <1>8, <2>1
<1>10. IsHeap(h2) /\ DOMAIN h2.blk = DOMAIN h.blk \cup {y}
  BY <1>5, <1>8, <1>9 DEF Lists, SamePlace, Written
<1>11. PprevSet(h3, h2, q, y)
  BY <1>2, <1>10, SetPprevFields DEF q
<1> HIDE DEF h3
<1>12. Lists(h3, F \cup {y}, U, {})
  BY <1>9, <1>11, ListsPprev
<1>13. IsHeap(h3) /\ DOMAIN h3.blk = DOMAIN h.blk \cup {y}
  BY <1>10, <1>11 DEF PprevSet
<1>14. HeaderSet(g, h3, x, h3.blk[x].state, n, y)
  BY <1>1, <1>3, <1>13, SpanFields
<1>15. Lists(g, F \cup {y}, U, {})
  BY <1>12, <1>14, ListsHeader
<1>16. Cut(g, h, x, y, n, m)
  <2>1. g.memory = h.memory /\ g.size = h.size /\ DOMAIN g.blk = DOMAIN h.blk \cup {y}
    BY <1>5, <1>8, <1>11, <1>13, <1>14 DEF Written, SamePlace, PprevSet, HeaderSet, SameHeads
  <2>2. ASSUME NEW z \in DOMAIN h.blk \cup {y}
        PROVE  /\ g.blk[z].size = IF z = x THEN n ELSE h1.blk[z].size
               /\ g.blk[z].pnext = IF z = x THEN y ELSE h1.blk[z].pnext
               /\ g.blk[z].pprev = IF z = q /\ z # 0 THEN y ELSE h1.blk[z].pprev
    <3>1. z \in DOMAIN h1.blk /\ z \in DOMAIN h2.blk /\ z \in DOMAIN h3.blk
      BY <1>5, <1>10, <1>13, <2>2 DEF Written
    <3>2. /\ h2.blk[z].size = h1.blk[z].size /\ h2.blk[z].pnext = h1.blk[z].pnext
          /\ h2.blk[z].pprev = h1.blk[z].pprev
      BY <1>8, <3>1 DEF SamePlace
    <3>3. /\ h3.blk[z].size = h2.blk[z].size /\ h3.blk[z].pnext = h2.blk[z].pnext
          /\ h3.blk[z].pprev = IF z = q /\ z # 0 THEN y ELSE h2.blk[z].pprev
      BY <1>11, <3>1 DEF PprevSet
    <3>4. /\ g.blk[z].pprev = h3.blk[z].pprev
          /\ g.blk[z].size = IF z = x THEN n ELSE h3.blk[z].size
          /\ g.blk[z].pnext = IF z = x THEN y ELSE h3.blk[z].pnext
      BY <1>14, <3>1 DEF HeaderSet
    <3> QED BY <3>2, <3>3, <3>4
  <2>3. \A z \in DOMAIN h.blk : h1.blk[z] = h.blk[z] /\ z # 0
    BY <1>5 DEF Written, Lists
  <2>4. q # x /\ q # y
    <3>1. /\ x \in Nat /\ x # 0 /\ h.blk[x].size \in Nat
          /\ q = 0 \/ q = x + h.blk[x].size + HDR
      BY <1>1, BlockAssumption DEF Placed, PlacedAt, q, START
    <3>2. q # x
      BY <3>1, BlockAssumption
    <3> QED BY <1>2, <3>2
  <2>5. g.blk[x].size = n /\ g.blk[x].pnext = y /\ g.blk[x].pprev = h.blk[x].pprev
    BY <1>1, <2>2, <2>3, <2>4
  <2>6. g.blk[y].size = m /\ g.blk[y].pprev = x /\ g.blk[y].pnext = q
    BY <1>1, <1>4, <1>7, <2>2, <2>4
  <2>7. \A z \in DOMAIN h.blk \ {x} :
           /\ g.blk[z].size = h.blk[z].size /\ g.blk[z].pnext = h.blk[z].pnext
           /\ g.blk[z].pprev = IF z = q THEN y ELSE h.blk[z].pprev
    BY <2>2, <2>3
  <2> QED BY <2>1, <2>5, <2>6, <2>7 DEF Cut, q
<1> QED BY <1>15, <1>16 DEF g

(* HeappSplit's last lines: x goes from the free list to the used list.    *)
LEMMA TakeLists ==
    ASSUME NEW h, NEW F, NEW U, Lists(h, F, U, {}), NEW x \in F, NEW g,
           g = HeappBlockLink([HeappBlockUnlink(h, "freeList", x) EXCEPT !.blk[x].state = USED],
                              "usedList", x)
    PROVE  Lists(g, F \ {x}, U \cup {x}, {}) /\ SameSpans(g, h)
<1> DEFINE h1 == HeappBlockUnlink(h, "freeList", x)
           h2 == [h1 EXCEPT !.blk[x].state = USED]
<1>1. g = HeappBlockLink(h2, "usedList", x)
  OBVIOUS
<1>2. Lists(h1, F \ {x}, U, {} \cup {x}) /\ SamePlace(h1, h)
  BY UnlinkFree
<1>3. Lists(h1, F \ {x}, U, {x})
  <2>1. {} \cup {x} = {x}
    OBVIOUS
  <2> QED BY <1>2, <2>1
<1> HIDE DEF h1
<1>4. IsHeap(h1) /\ x \in DOMAIN h1.blk
  BY <1>3 DEF Lists
<1>5. HeaderSet(h2, h1, x, USED, h1.blk[x].size, h1.blk[x].pnext)
  BY <1>4, StateFields
<1> HIDE DEF h2
<1>6. Lists(h2, F \ {x}, U, {x})
  BY <1>3, <1>5, ListsHeader
<1>7. h2.blk[x].state = USED
  BY <1>4, <1>5 DEF HeaderSet
<1>8. Lists(g, F \ {x}, U \cup {x}, {x} \ {x}) /\ SamePlace(g, h2)
  BY <1>1, <1>6, <1>7, LinkUsed
<1>9. Lists(g, F \ {x}, U \cup {x}, {})
  <2>1. {x} \ {x} = {}
    OBVIOUS
  <2> QED BY <1>8, <2>1
<1>10. /\ g.memory = h.memory /\ g.size = h.size
       /\ DOMAIN g.blk = DOMAIN h.blk /\ DOMAIN h1.blk = DOMAIN h.blk /\ DOMAIN h2.blk = DOMAIN h.blk
  BY <1>2, <1>5, <1>8 DEF SamePlace, HeaderSet, SameHeads
<1>11. ASSUME NEW z \in DOMAIN h.blk
       PROVE  /\ g.blk[z].size = h.blk[z].size /\ g.blk[z].pnext = h.blk[z].pnext
              /\ g.blk[z].pprev = h.blk[z].pprev
  <2>1. /\ h1.blk[z].size = h.blk[z].size /\ h1.blk[z].pnext = h.blk[z].pnext
        /\ h1.blk[z].pprev = h.blk[z].pprev
    BY <1>2, <1>11 DEF SamePlace
  <2>2. /\ h2.blk[z].size = h1.blk[z].size /\ h2.blk[z].pnext = h1.blk[z].pnext
        /\ h2.blk[z].pprev = h1.blk[z].pprev
    BY <1>5, <1>10, <1>11 DEF HeaderSet
  <2>3. /\ g.blk[z].size = h2.blk[z].size /\ g.blk[z].pnext = h2.blk[z].pnext
        /\ g.blk[z].pprev = h2.blk[z].pprev
    BY <1>8, <1>10, <1>11 DEF SamePlace
  <2> QED BY <2>1, <2>2, <2>3
<1> QED BY <1>9, <1>10, <1>11 DEF SameSpans
-----------------------------------------------------------------------------
(* No two free blocks side by side, but for x, which is about to be taken. *)
NoPairs(h, F) == \A a \in F : h.blk[a].pnext \notin F
NoPairsBut(h, F, x) == \A a \in F : h.blk[a].pnext \in F => h.blk[a].pnext = x

(* A heap with the free blocks F and the used ones U.                      *)
Sound(h, F, U) == Lists(h, F, U, {}) /\ Placed(h)

SameArena(g, h) == g.memory = h.memory /\ g.size = h.size

LEMMA NextIsBehind ==
    ASSUME NEW h, Placed(h), NEW x \in DOMAIN h.blk
    PROVE  /\ x \in Nat /\ x # 0 /\ h.blk[x].size \in Nat /\ h.blk[x].size >= 1
           /\ h.blk[x].pnext \in DOMAIN h.blk \cup {0}
           /\ h.blk[x].pprev \in DOMAIN h.blk \cup {0}
           /\ h.blk[x].pnext # x /\ h.blk[x].pprev # x
<1>1. /\ x \in Nat /\ x # 0 /\ h.blk[x].size \in Nat /\ h.blk[x].size >= 1
      /\ h.blk[x].pnext \in DOMAIN h.blk \cup {0}
      /\ h.blk[x].pprev \in DOMAIN h.blk \cup {0}
  BY BlockAssumption DEF Placed, PlacedAt, START
<1>2. h.blk[x].pnext # 0 => h.blk[x].pnext = x + h.blk[x].size + HDR
  BY DEF Placed, PlacedAt
<1>3. h.blk[x].pnext # x
  BY <1>1, <1>2, BlockAssumption
<1>4. h.blk[x].pprev # 0 => h.blk[h.blk[x].pprev].pnext = x
  BY DEF Placed, PlacedAt
<1> QED BY <1>1, <1>3, <1>4

(* The blocks of U are as long in g as in h.                               *)
SameSizes(g, h, U) == \A u \in U : g.blk[u].size = h.blk[u].size
NotShorter(g, h, U) == \A u \in U : g.blk[u].size \in Nat /\ g.blk[u].size >= h.blk[u].size

LEMMA SplitSound ==
    ASSUME NEW h, NEW F, NEW U, Sound(h, F, U), NEW x \in F, NEW n, n \in Nat, n >= 1,
           h.blk[x].size >= n, NoPairsBut(h, F, x), NEW g, g = HeappSplit(h, x, n)
    PROVE  \E F2 : /\ Sound(g, F2, U \cup {x}) /\ NoPairs(g, F2) /\ SameArena(g, h)
                   /\ g.blk[x].size >= n
                   /\ SameSizes(g, h, U)
<1>1. /\ x \in DOMAIN h.blk /\ DOMAIN h.blk = F \cup U /\ x \notin U /\ F \cap U = {}
      /\ 0 \notin DOMAIN h.blk /\ Lists(h, F, U, {}) /\ Placed(h)
  BY DEF Sound, Lists
<1>2. x \in Nat /\ h.blk[x].size \in Nat
  BY <1>1, NextIsBehind
<1>3. CASE h.blk[x].size >= n + HDR + MINFREE
  <2> DEFINE y == x + n + HDR
             m == h.blk[x].size - n - HDR
             c == CutOff(h, x, y, n, m)
             q == h.blk[x].pnext
  <2>1. g = HeappBlockLink([HeappBlockUnlink(c, "freeList", x) EXCEPT !.blk[x].state = USED],
                           "usedList", x)
    BY <1>3 DEF HeappSplit, CutOff
  <2>2. /\ m \in Nat /\ m >= 1 /\ y \in Nat /\ y = x + n + HDR /\ m = x + h.blk[x].size - y
        /\ x < y /\ y < x + h.blk[x].size
    BY <1>2, <1>3, BlockAssumption
  <2> HIDE DEF c, m, y, q
  <2>3. y \notin DOMAIN h.blk /\ y # 0
    BY <1>1, <2>2, InsideIsNew
  <2>4. Lists(c, F \cup {y}, U, {}) /\ Cut(c, h, x, y, n, m)
    BY <1>1, <2>3, CutOffLists DEF c
  <2>5. Placed(c)
    BY <1>1, <2>2, <2>4, CutPlaced
  <2>6. Lists(g, (F \cup {y}) \ {x}, U \cup {x}, {}) /\ SameSpans(g, c)
    <3>1. x \in F \cup {y}
      OBVIOUS
    <3> QED BY <2>1, <2>4, <3>1, TakeLists
  <2>7. Placed(g)
    BY <2>5, <2>6, PlacedKept
  <2>8. DOMAIN c.blk = DOMAIN h.blk \cup {y} /\ SameArena(g, h) /\ g.blk[x].size = n
    BY <1>1, <2>4, <2>6 DEF Cut, SameArena, SameSpans
  <2>9. \A u \in U : g.blk[u].size = h.blk[u].size
    BY <1>1, <2>4, <2>6, <2>8 DEF Cut, SameSpans
  <2>10. NoPairs(g, (F \cup {y}) \ {x})
    <3>1. q \notin F /\ q # y /\ g.blk[y].pnext = q
      <4>1. q # x /\ q \in DOMAIN h.blk \cup {0}
        BY <1>1, NextIsBehind DEF q
      <4> QED BY <2>3, <2>4, <2>6, <2>8, <4>1 DEF NoPairsBut, q, Cut, SameSpans
    <3>2. ASSUME NEW a \in F \ {x}
          PROVE  g.blk[a].pnext \notin (F \cup {y}) \ {x}
      <4>1. a \in DOMAIN h.blk \ {x}
        BY <1>1
      <4>2. g.blk[a].pnext = h.blk[a].pnext
        BY <2>4, <2>6, <2>8, <4>1 DEF Cut, SameSpans
      <4>3. h.blk[a].pnext # y
        BY <1>1, <2>3, <4>1, NextIsBehind
      <4> QED BY <4>2, <4>3 DEF NoPairsBut
    <3> QED BY <3>1, <3>2 DEF NoPairs
  <2>11. g.blk[x].size >= n
    BY <2>8
  <2> QED BY <2>6, <2>7, <2>8, <2>9, <2>10, <2>11 DEF Sound, SameSizes
<1>4. CASE ~(h.blk[x].size >= n + HDR + MINFREE)
  <2>1. g = HeappBlockLink([HeappBlockUnlink(h, "freeList", x) EXCEPT !.blk[x].state = USED],
                           "usedList", x)
    BY <1>4 DEF HeappSplit
  <2>2. Lists(g, F \ {x}, U \cup {x}, {}) /\ SameSpans(g, h)
    BY <1>1, <2>1, TakeLists
  <2>3. Placed(g)
    BY <1>1, <2>2, PlacedKept
  <2>4. NoPairs(g, F \ {x})
    BY <1>1, <2>2 DEF NoPairs, NoPairsBut, SameSpans
  <2>5. SameArena(g, h) /\ g.blk[x].size >= n /\ \A u \in U : g.blk[u].size = h.blk[u].size
    BY <1>1, <2>2 DEF SameArena, SameSpans
  <2> QED BY <2>2, <2>3, <2>4, <2>5 DEF Sound, SameSizes
<1> QED BY <1>3, <1>4
-----------------------------------------------------------------------------
(* HeappAlign when the gap is too small for a block.                       *)
LEMMA GiftLists ==
    ASSUME NEW h, NEW F, NEW U, Lists(h, F, U, {}), Placed(h), NEW x \in F,
           NEW p, p # 0, h.blk[x].pprev = p, NEW y, y \notin DOMAIN h.blk, y # 0,
           NEW g, g = AlignByGift(h, x, y)
    PROVE  Lists(g, (F \ {x}) \cup {y}, U, {}) /\ Moved(g, h, p, x, y)
<1> DEFINE b == h.blk[x]
           q == h.blk[x].pnext
           nb == [b EXCEPT !.size = b.size - (y - x)]
           h1 == SetPprev(h, q, y)
           h2 == [h1 EXCEPT !.blk[p].pnext = y]
           h3 == HeappBlockUnlink(h2, "freeList", x)
           h4 == Forget(h3, {x})
           h5 == Write(h4, y, nb)
           h6 == [h5 EXCEPT !.blk[p].size = @ + (y - x)]
<1>1. g = HeappBlockLink(h6, "freeList", y)
  BY DEF AlignByGift
<1>2. /\ x \in DOMAIN h.blk /\ IsHeap(h) /\ x # y /\ x # 0
      /\ DOMAIN b = BlockFields /\ b.state = FREE
  BY DEF Lists, IsHeap
<1>3. /\ p \in DOMAIN h.blk /\ p # x /\ p # y
      /\ q # 0 => q \in DOMAIN h.blk
      /\ q # x /\ q # y
  BY <1>2, NextIsBehind
<1>4. q # p
  <2> SUFFICES ASSUME q = p PROVE FALSE
    OBVIOUS
  <2>1. /\ x \in Nat /\ p \in Nat /\ h.blk[x].size \in Nat /\ h.blk[p].size \in Nat
    BY <1>2, <1>3, NextIsBehind
  <2>2. h.blk[p].pnext = x /\ q = x + h.blk[x].size + HDR /\ x = p + h.blk[p].size + HDR
    BY <1>2, <1>3 DEF Placed, PlacedAt
  <2> QED BY <2>1, <2>2, BlockAssumption
<1>5. /\ DOMAIN nb = BlockFields /\ nb.state = FREE /\ nb.size = b.size - (y - x)
      /\ nb.pprev = p /\ nb.pnext = q
  BY <1>2 DEF BlockFields
<1> HIDE DEF nb, q
<1>6. PprevSet(h1, h, q, y)
  BY <1>2, <1>3, SetPprevFields
<1> HIDE DEF h1
<1>7. Lists(h1, F, U, {}) /\ IsHeap(h1) /\ DOMAIN h1.blk = DOMAIN h.blk
  <2>1. Lists(h1, F, U, {})
    BY <1>6, ListsPprev
  <2>2. IsHeap(h1) /\ DOMAIN h1.blk = DOMAIN h.blk
    BY <1>6 DEF PprevSet
  <2> QED BY <2>1, <2>2
<1>8. HeaderSet(h2, h1, p, h1.blk[p].state, h1.blk[p].size, y)
  BY <1>3, <1>7, PnextFields
<1> HIDE DEF h2
<1>9. Lists(h2, F, U, {}) /\ DOMAIN h2.blk = DOMAIN h.blk
  <2>1. Lists(h2, F, U, {})
    BY <1>7, <1>8, ListsHeader
  <2>2. DOMAIN h2.blk = DOMAIN h.blk
    BY <1>7, <1>8 DEF HeaderSet
  <2> QED BY <2>1, <2>2
<1>10. Lists(h3, F \ {x}, U, {} \cup {x}) /\ SamePlace(h3, h2)
  BY <1>9, UnlinkFree
<1> HIDE DEF h3
<1>11. Lists(h3, F \ {x}, U, {x}) /\ DOMAIN h3.blk = DOMAIN h.blk /\ IsHeap(h3)
  <2>1. {} \cup {x} = {x}
    OBVIOUS
  <2>2. Lists(h3, F \ {x}, U, {x})
    BY <1>10, <2>1
  <2> QED BY <1>9, <1>10, <2>2 DEF SamePlace, Lists
<1>12. Forgotten(h4, h3, {x})
  BY <1>11, ForgetFields
<1> HIDE DEF h4
<1>13. Lists(h4, F \ {x}, U, {}) /\ DOMAIN h4.blk = DOMAIN h.blk \ {x} /\ IsHeap(h4)
  <2>1. {x} \ {x} = {}
    OBVIOUS
  <2>2. Lists(h4, F \ {x}, U, {x} \ {x})
    BY <1>11, <1>12, ListsForget
  <2> QED BY <1>11, <1>12, <2>1, <2>2 DEF Forgotten
<1>14. Written(h5, h4, y, nb)
  BY <1>5, <1>13, WriteFields
<1> HIDE DEF h5
<1>15. /\ Lists(h5, F \ {x}, U, {y}) /\ DOMAIN h5.blk = (DOMAIN h.blk \ {x}) \cup {y}
       /\ IsHeap(h5) /\ h5.blk[y] = nb
  <2>1. {} \cup {y} = {y}
    OBVIOUS
  <2>2. y \notin DOMAIN h4.blk
    BY <1>13
  <2>3. Lists(h5, F \ {x}, U, {} \cup {y})
    BY <1>13, <1>14, <2>2, ListsWrite
  <2> QED BY <1>13, <1>14, <2>1, <2>3 DEF Written
<1>16. HeaderSet(h6, h5, p, h5.blk[p].state, h5.blk[p].size + (y - x), h5.blk[p].pnext)
  BY <1>3, <1>15, SizeFields
<1> HIDE DEF h6
<1>17. Lists(h6, F \ {x}, U, {y}) /\ DOMAIN h6.blk = (DOMAIN h.blk \ {x}) \cup {y}
  <2>1. Lists(h6, F \ {x}, U, {y})
    BY <1>15, <1>16, ListsHeader
  <2>2. DOMAIN h6.blk = (DOMAIN h.blk \ {x}) \cup {y}
    BY <1>15, <1>16 DEF HeaderSet
  <2> QED BY <2>1, <2>2
<1>18. h6.blk[y].state = FREE
  BY <1>3, <1>5, <1>15, <1>16 DEF HeaderSet
<1>19. Lists(g, (F \ {x}) \cup {y}, U, {y} \ {y}) /\ SamePlace(g, h6)
  BY <1>1, <1>17, <1>18, LinkFree
<1>20. Lists(g, (F \ {x}) \cup {y}, U, {})
  <2>1. {y} \ {y} = {}
    OBVIOUS
  <2> QED BY <1>19, <2>1
<1>21. /\ DOMAIN g.blk = (DOMAIN h.blk \ {x}) \cup {y}
       /\ g.memory = h.memory /\ g.size = h.size
  <2>1. g.memory = h6.memory /\ g.size = h6.size /\ DOMAIN g.blk = DOMAIN h6.blk
    BY <1>19 DEF SamePlace
  <2>2. h6.memory = h3.memory /\ h6.size = h3.size
    BY <1>12, <1>14, <1>16 DEF Forgotten, Written, HeaderSet, SameHeads
  <2>3. h3.memory = h.memory /\ h3.size = h.size
    BY <1>6, <1>8, <1>10 DEF PprevSet, HeaderSet, SamePlace, SameHeads
  <2> QED BY <1>17, <2>1, <2>2, <2>3
<1>22. ASSUME NEW z \in DOMAIN h.blk \ {x}
       PROVE  /\ g.blk[z].size = IF z = p THEN h.blk[p].size + (y - x) ELSE h.blk[z].size
              /\ g.blk[z].pnext = IF z = p THEN y ELSE h.blk[z].pnext
              /\ g.blk[z].pprev = IF z = q THEN y ELSE h.blk[z].pprev
  <2>1. z # 0 /\ z # y /\ z \in DOMAIN h.blk
    BY <1>22 DEF Lists
  <2>2. /\ h1.blk[z].size = h.blk[z].size /\ h1.blk[z].pnext = h.blk[z].pnext
        /\ h1.blk[z].pprev = IF z = q THEN y ELSE h.blk[z].pprev
    BY <1>6, <2>1 DEF PprevSet
  <2>3. /\ h2.blk[z].size = h1.blk[z].size /\ h2.blk[z].pprev = h1.blk[z].pprev
        /\ h2.blk[z].pnext = IF z = p THEN y ELSE h1.blk[z].pnext
    BY <1>7, <1>8, <2>1 DEF HeaderSet
  <2>4. /\ h3.blk[z].size = h2.blk[z].size /\ h3.blk[z].pprev = h2.blk[z].pprev
        /\ h3.blk[z].pnext = h2.blk[z].pnext
    BY <1>9, <1>10, <2>1 DEF SamePlace
  <2>5. h4.blk[z] = h3.blk[z] /\ h5.blk[z] = h4.blk[z]
    BY <1>11, <1>12, <1>13, <1>14, <1>22, <2>1 DEF Forgotten, Written
  <2>6. /\ h6.blk[z].pprev = h5.blk[z].pprev /\ h6.blk[z].pnext = h5.blk[z].pnext
        /\ h6.blk[z].size = IF z = p THEN h5.blk[p].size + (y - x) ELSE h5.blk[z].size
    BY <1>15, <1>16, <1>22 DEF HeaderSet
  <2>7. /\ g.blk[z].pprev = h6.blk[z].pprev /\ g.blk[z].pnext = h6.blk[z].pnext
        /\ g.blk[z].size = h6.blk[z].size
    BY <1>17, <1>19, <1>22 DEF SamePlace
  <2> QED BY <2>2, <2>3, <2>4, <2>5, <2>6, <2>7
<1>23. /\ g.blk[y].size = h.blk[x].size - (y - x) /\ g.blk[y].pnext = q /\ g.blk[y].pprev = p
  <2>1. /\ g.blk[y].size = h6.blk[y].size /\ g.blk[y].pnext = h6.blk[y].pnext
        /\ g.blk[y].pprev = h6.blk[y].pprev
    BY <1>17, <1>19 DEF SamePlace
  <2>2. /\ h6.blk[y].size = nb.size /\ h6.blk[y].pnext = nb.pnext /\ h6.blk[y].pprev = nb.pprev
    BY <1>3, <1>15, <1>16 DEF HeaderSet
  <2> QED BY <1>5, <2>1, <2>2
<1>24. /\ g.blk[p].size = h.blk[p].size + (y - x) /\ g.blk[p].pnext = y
       /\ g.blk[p].pprev = h.blk[p].pprev
  BY <1>3, <1>4, <1>22
<1>25. \A z \in DOMAIN h.blk \ {p, x} :
         /\ g.blk[z].size = h.blk[z].size /\ g.blk[z].pnext = h.blk[z].pnext
         /\ g.blk[z].pprev = IF z = h.blk[x].pnext THEN y ELSE h.blk[z].pprev
  BY <1>22 DEF q
<1>26. Moved(g, h, p, x, y)
  BY <1>21, <1>23, <1>24, <1>25 DEF Moved, q
<1> QED BY <1>20, <1>26

(* HeappAlign leaves a free block at y, next to which there may be another.*)
LEMMA AlignSound ==
    ASSUME NEW h, NEW F, NEW U, Sound(h, F, U), NoPairs(h, F), NEW x \in F,
           NEW y, y \in Nat, NEW n, n \in Nat, n >= 1, x < y, h.blk[x].size >= y - x + n,
           h.blk[x].pprev = 0 => y - x >= HDR + MINFREE,
           NEW g, g = HeappAlign(h, x, y)
    PROVE  \E F1 : /\ Sound(g, F1, U) /\ y \in F1 /\ NoPairsBut(g, F1, y) /\ SameArena(g, h)
                   /\ g.blk[y].size >= n
                   /\ NotShorter(g, h, U)
<1>1. /\ x \in DOMAIN h.blk /\ DOMAIN h.blk = F \cup U /\ x \notin U /\ F \cap U = {}
      /\ 0 \notin DOMAIN h.blk /\ Lists(h, F, U, {}) /\ Placed(h)
  BY DEF Sound, Lists
<1>2. x \in Nat /\ h.blk[x].size \in Nat
  BY <1>1, NextIsBehind
<1>3. y < x + h.blk[x].size
  BY <1>2
<1>4. y \notin DOMAIN h.blk /\ y # 0
  BY <1>1, <1>3, InsideIsNew
<1>5. \A u \in U : h.blk[u].size \in Nat
  BY <1>1, NextIsBehind
<1>6. CASE y - x >= HDR + MINFREE
  <2> DEFINE m == h.blk[x].size - (y - x)
             k == y - x - HDR
  <2>1. g = CutOff(h, x, y, k, m)
    BY <1>6 DEF HeappAlign, AlignByBlock, CutOff
  <2>2. k \in Nat /\ k >= 1 /\ m \in Nat /\ m >= 1 /\ m >= n
        /\ y = x + k + HDR /\ m = x + h.blk[x].size - y
    BY <1>2, <1>6, BlockAssumption
  <2> HIDE DEF m, k
  <2>3. Lists(g, F \cup {y}, U, {}) /\ Cut(g, h, x, y, k, m)
    BY <1>1, <1>4, <2>1, CutOffLists
  <2>4. Placed(g)
    BY <1>1, <2>2, <2>3, CutPlaced
  <2>5. \A u \in U : g.blk[u].size = h.blk[u].size
    BY <1>1, <2>3 DEF Cut
  <2>6. NoPairsBut(g, F \cup {y}, y)
    <3>1. \A a \in F : g.blk[a].pnext = IF a = x THEN y ELSE h.blk[a].pnext
      BY <1>1, <2>3 DEF Cut
    <3>2. g.blk[y].pnext = h.blk[x].pnext
      BY <2>3 DEF Cut
    <3> QED BY <3>1, <3>2 DEF NoPairs, NoPairsBut
  <2>7. SameArena(g, h) /\ g.blk[y].size = m
    BY <2>3 DEF Cut, SameArena
  <2>8. \A u \in U : g.blk[u].size \in Nat /\ g.blk[u].size >= h.blk[u].size
    BY <1>5, <2>5
  <2>9. g.blk[y].size >= n
    BY <2>2, <2>7
  <2> QED BY <2>3, <2>4, <2>6, <2>7, <2>8, <2>9 DEF Sound, NotShorter
<1>7. CASE ~(y - x >= HDR + MINFREE)
  <2>1. PICK p : p = h.blk[x].pprev
    OBVIOUS
  <2>2. p # 0 /\ g = AlignByGift(h, x, y)
    BY <1>7, <2>1 DEF HeappAlign
  <2>3. Lists(g, (F \ {x}) \cup {y}, U, {}) /\ Moved(g, h, p, x, y)
    BY <1>1, <1>4, <2>1, <2>2, GiftLists
  <2>4. Placed(g)
    BY <1>1, <1>3, <2>3, MovePlaced
  <2>5. p \in DOMAIN h.blk /\ p # x /\ h.blk[p].size \in Nat
    <3>1. p \in DOMAIN h.blk /\ p # x
      BY <1>1, <2>1, <2>2, NextIsBehind
    <3> QED BY <1>1, <3>1, NextIsBehind
  <2>6. ASSUME NEW u \in U
        PROVE  g.blk[u].size \in Nat /\ g.blk[u].size >= h.blk[u].size
    <3>1. u \in DOMAIN h.blk \ {x} /\ h.blk[u].size \in Nat
      BY <1>1, <1>5
    <3>2. CASE u = p
      <4>1. g.blk[u].size = h.blk[u].size + (y - x)
        BY <2>3, <3>2 DEF Moved
      <4> QED BY <1>2, <3>1, <4>1
    <3>3. CASE u # p
      BY <2>3, <3>1, <3>3 DEF Moved
    <3> QED BY <3>2, <3>3
  <2>7. NoPairsBut(g, (F \ {x}) \cup {y}, y)
    <3>1. \A a \in F \ {x} : g.blk[a].pnext = IF a = p THEN y ELSE h.blk[a].pnext
      BY <1>1, <2>3, <2>5 DEF Moved
    <3>2. g.blk[y].pnext = h.blk[x].pnext
      BY <2>3 DEF Moved
    <3> QED BY <3>1, <3>2 DEF NoPairs, NoPairsBut
  <2>8. SameArena(g, h) /\ g.blk[y].size = h.blk[x].size - (y - x)
    BY <2>3 DEF Moved, SameArena
  <2>9. g.blk[y].size >= n
    BY <1>2, <2>8
  <2> QED BY <2>3, <2>4, <2>6, <2>7, <2>8, <2>9 DEF Sound, NotShorter
<1> QED BY <1>6, <1>7
-----------------------------------------------------------------------------
(* HeappFree: c, off the used list, merges with the free block behind it.  *)
LEMMA AbsorbNextLists ==
    ASSUME NEW h, NEW F, NEW U, NEW c, Lists(h, F, U, {c}), Placed(h),
           NEW n \in F, h.blk[c].pnext = n, NEW g, g = AbsorbNext(h, c, n)
    PROVE  Lists(g, F \ {n}, U, {c}) /\ Merged(g, h, c, n)
<1> DEFINE b == h.blk[n]
           q == h.blk[n].pnext
           s == h.blk[n].size
           h1 == HeappBlockUnlink(h, "freeList", n)
           h2 == SetPprev(h1, q, c)
           h3 == [h2 EXCEPT !.blk[c].size = @ + HDR + s, !.blk[c].pnext = q]
<1>1. g = Forget(h3, {n})
  BY DEF AbsorbNext
<1>2. /\ c \in DOMAIN h.blk /\ n \in DOMAIN h.blk /\ c # n /\ n # 0 /\ c # 0
  BY DEF Lists
<1>3. /\ q # 0 => q \in DOMAIN h.blk
      /\ q # n
  BY <1>2, NextIsBehind
<1>4. q # c
  <2> SUFFICES ASSUME q = c PROVE FALSE
    OBVIOUS
  <2>1. /\ c \in Nat /\ n \in Nat /\ h.blk[c].size \in Nat /\ h.blk[n].size \in Nat
    BY <1>2, NextIsBehind
  <2>2. n = c + h.blk[c].size + HDR /\ q = n + h.blk[n].size + HDR
    BY <1>2 DEF Placed, PlacedAt
  <2> QED BY <2>1, <2>2, BlockAssumption
<1>5. Lists(h1, F \ {n}, U, {c} \cup {n}) /\ SamePlace(h1, h)
  BY UnlinkFree
<1> HIDE DEF h1, q, s
<1>6. IsHeap(h1) /\ DOMAIN h1.blk = DOMAIN h.blk
  BY <1>5 DEF SamePlace, Lists
<1>7. PprevSet(h2, h1, q, c)
  BY <1>3, <1>6, SetPprevFields
<1> HIDE DEF h2
<1>8. Lists(h2, F \ {n}, U, {c} \cup {n})
  BY <1>5, <1>7, ListsPprev
<1>9. IsHeap(h2) /\ DOMAIN h2.blk = DOMAIN h.blk
  BY <1>6, <1>7 DEF PprevSet
<1>10. HeaderSet(h3, h2, c, h2.blk[c].state, h2.blk[c].size + HDR + s, q)
  BY <1>2, <1>9, GrowFields
<1> HIDE DEF h3
<1>11. Lists(h3, F \ {n}, U, {c} \cup {n})
  BY <1>8, <1>10, ListsHeader
<1>12. IsHeap(h3) /\ DOMAIN h3.blk = DOMAIN h.blk
  BY <1>9, <1>10 DEF HeaderSet
<1>13. Forgotten(g, h3, {n})
  BY <1>1, <1>12, ForgetFields
<1>14. Lists(g, F \ {n}, U, {c})
  <2>1. ({c} \cup {n}) \ {n} = {c} /\ n \in {c} \cup {n}
    BY <1>2
  <2>2. Lists(g, F \ {n}, U, ({c} \cup {n}) \ {n})
    BY <1>11, <1>13, <2>1, ListsForget
  <2> QED BY <2>1, <2>2
<1>15. ASSUME NEW z \in DOMAIN h.blk \ {n}
       PROVE  /\ g.blk[z].size = IF z = c THEN h.blk[c].size + HDR + s ELSE h.blk[z].size
              /\ g.blk[z].pnext = IF z = c THEN q ELSE h.blk[z].pnext
              /\ g.blk[z].pprev = IF z = q THEN c ELSE h.blk[z].pprev
  <2>1. z # 0 /\ z \in DOMAIN h.blk
    BY <1>15 DEF Lists
  <2>2. \A w \in DOMAIN h.blk :
          /\ h1.blk[w].size = h.blk[w].size /\ h1.blk[w].pnext = h.blk[w].pnext
          /\ h1.blk[w].pprev = h.blk[w].pprev
    BY <1>5 DEF SamePlace
  <2>3. \A w \in DOMAIN h.blk :
          h2.blk[w].size = h1.blk[w].size /\ h2.blk[w].pnext = h1.blk[w].pnext
    BY <1>6, <1>7 DEF PprevSet
  <2>4. h2.blk[z].pprev = IF z = q THEN c ELSE h1.blk[z].pprev
    BY <1>6, <1>7, <2>1 DEF PprevSet
  <2>5. /\ h3.blk[z].pprev = h2.blk[z].pprev
        /\ h3.blk[z].size = IF z = c THEN h2.blk[c].size + HDR + s ELSE h2.blk[z].size
        /\ h3.blk[z].pnext = IF z = c THEN q ELSE h2.blk[z].pnext
    BY <1>9, <1>10, <2>1 DEF HeaderSet
  <2>6. g.blk[z] = h3.blk[z]
    BY <1>12, <1>13, <1>15 DEF Forgotten
  <2> QED BY <1>2, <2>1, <2>2, <2>3, <2>4, <2>5, <2>6
<1>16. DOMAIN g.blk = DOMAIN h.blk \ {n} /\ g.memory = h.memory /\ g.size = h.size
  BY <1>5, <1>7, <1>10, <1>12, <1>13 DEF SamePlace, PprevSet, HeaderSet, Forgotten, SameHeads
<1>17. /\ g.blk[c].size = h.blk[c].size + HDR + s
       /\ g.blk[c].pnext = q /\ g.blk[c].pprev = h.blk[c].pprev
  BY <1>2, <1>4, <1>15
<1>18. \A z \in DOMAIN h.blk \ {c, n} :
         /\ g.blk[z].size = h.blk[z].size /\ g.blk[z].pnext = h.blk[z].pnext
         /\ g.blk[z].pprev = IF z = h.blk[n].pnext THEN c ELSE h.blk[z].pprev
  BY <1>15 DEF q
<1>19. Merged(g, h, c, n)
  BY <1>2, <1>16, <1>17, <1>18 DEF Merged, q, s
<1> QED BY <1>14, <1>19

(* ... and goes into the free block in front of it.                        *)
LEMMA AbsorbIntoLists ==
    ASSUME NEW h, NEW F, NEW U, NEW c, Lists(h, F, U, {c}), Placed(h),
           NEW p \in F, h.blk[p].pnext = c, NEW g, g = AbsorbInto(h, p, c)
    PROVE  Lists(g, F, U, {}) /\ Merged(g, h, p, c)
<1> DEFINE q == h.blk[c].pnext
           s == h.blk[c].size
           h2 == SetPprev(h, q, p)
           h3 == [h2 EXCEPT !.blk[p].size = @ + HDR + s, !.blk[p].pnext = q]
<1>1. g = Forget(h3, {c})
  BY DEF AbsorbInto
<1>2. /\ c \in DOMAIN h.blk /\ p \in DOMAIN h.blk /\ c # p /\ p # 0 /\ c # 0 /\ IsHeap(h)
  BY DEF Lists
<1>3. /\ q # 0 => q \in DOMAIN h.blk
      /\ q # c
  BY <1>2, NextIsBehind
<1>4. q # p
  <2> SUFFICES ASSUME q = p PROVE FALSE
    OBVIOUS
  <2>1. /\ c \in Nat /\ p \in Nat /\ h.blk[c].size \in Nat /\ h.blk[p].size \in Nat
    BY <1>2, NextIsBehind
  <2>2. c = p + h.blk[p].size + HDR /\ q = c + h.blk[c].size + HDR
    BY <1>2 DEF Placed, PlacedAt
  <2> QED BY <2>1, <2>2, BlockAssumption
<1> HIDE DEF q, s
<1>5. PprevSet(h2, h, q, p)
  BY <1>2, <1>3, SetPprevFields
<1> HIDE DEF h2
<1>6. Lists(h2, F, U, {c})
  BY <1>5, ListsPprev
<1>7. IsHeap(h2) /\ DOMAIN h2.blk = DOMAIN h.blk
  BY <1>5 DEF PprevSet
<1>8. HeaderSet(h3, h2, p, h2.blk[p].state, h2.blk[p].size + HDR + s, q)
  BY <1>2, <1>7, GrowFields
<1> HIDE DEF h3
<1>9. Lists(h3, F, U, {c})
  BY <1>6, <1>8, ListsHeader
<1>10. IsHeap(h3) /\ DOMAIN h3.blk = DOMAIN h.blk
  BY <1>7, <1>8 DEF HeaderSet
<1>11. Forgotten(g, h3, {c})
  BY <1>1, <1>10, ForgetFields
<1>12. Lists(g, F, U, {})
  <2>1. {c} \ {c} = {} /\ c \in {c}
    OBVIOUS
  <2>2. Lists(g, F, U, {c} \ {c})
    BY <1>9, <1>11, <2>1, ListsForget
  <2> QED BY <2>1, <2>2
<1>13. ASSUME NEW z \in DOMAIN h.blk \ {c}
       PROVE  /\ g.blk[z].size = IF z = p THEN h.blk[p].size + HDR + s ELSE h.blk[z].size
              /\ g.blk[z].pnext = IF z = p THEN q ELSE h.blk[z].pnext
              /\ g.blk[z].pprev = IF z = q THEN p ELSE h.blk[z].pprev
  <2>1. z # 0 /\ z \in DOMAIN h.blk
    BY <1>13 DEF Lists
  <2>2. \A w \in DOMAIN h.blk :
          h2.blk[w].size = h.blk[w].size /\ h2.blk[w].pnext = h.blk[w].pnext
    BY <1>5 DEF PprevSet
  <2>3. h2.blk[z].pprev = IF z = q THEN p ELSE h.blk[z].pprev
    BY <1>5, <2>1 DEF PprevSet
  <2>4. /\ h3.blk[z].pprev = h2.blk[z].pprev
        /\ h3.blk[z].size = IF z = p THEN h2.blk[p].size + HDR + s ELSE h2.blk[z].size
        /\ h3.blk[z].pnext = IF z = p THEN q ELSE h2.blk[z].pnext
    BY <1>7, <1>8, <2>1 DEF HeaderSet
  <2>5. g.blk[z] = h3.blk[z]
    BY <1>10, <1>11, <1>13 DEF Forgotten
  <2> QED BY <1>2, <2>1, <2>2, <2>3, <2>4, <2>5
<1>14. DOMAIN g.blk = DOMAIN h.blk \ {c} /\ g.memory = h.memory /\ g.size = h.size
  BY <1>5, <1>8, <1>10, <1>11 DEF PprevSet, HeaderSet, Forgotten, SameHeads
<1>15. /\ g.blk[p].size = h.blk[p].size + HDR + s
       /\ g.blk[p].pnext = q /\ g.blk[p].pprev = h.blk[p].pprev
  BY <1>2, <1>4, <1>13
<1>16. \A z \in DOMAIN h.blk \ {p, c} :
         /\ g.blk[z].size = h.blk[z].size /\ g.blk[z].pnext = h.blk[z].pnext
         /\ g.blk[z].pprev = IF z = h.blk[c].pnext THEN p ELSE h.blk[z].pprev
  BY <1>13 DEF q
<1>17. Merged(g, h, p, c)
  BY <1>2, <1>14, <1>15, <1>16 DEF Merged, q, s
<1> QED BY <1>12, <1>17

LEMMA MarkFreeLists ==
    ASSUME NEW h, NEW F, NEW U, NEW c, Lists(h, F, U, {c}), NEW g, g = MarkFree(h, c)
    PROVE  Lists(g, F \cup {c}, U, {}) /\ SameSpans(g, h)
<1> DEFINE h1 == [h EXCEPT !.blk[c].state = FREE]
<1>1. g = HeappBlockLink(h1, "freeList", c)
  BY DEF MarkFree
<1>2. IsHeap(h) /\ c \in DOMAIN h.blk
  BY DEF Lists
<1>3. HeaderSet(h1, h, c, FREE, h.blk[c].size, h.blk[c].pnext)
  BY <1>2, StateFields
<1> HIDE DEF h1
<1>4. Lists(h1, F, U, {c})
  BY <1>3, ListsHeader
<1>5. h1.blk[c].state = FREE
  BY <1>2, <1>3 DEF HeaderSet
<1>6. Lists(g, F \cup {c}, U, {c} \ {c}) /\ SamePlace(g, h1)
  BY <1>1, <1>4, <1>5, LinkFree
<1>7. Lists(g, F \cup {c}, U, {})
  <2>1. {c} \ {c} = {}
    OBVIOUS
  <2> QED BY <1>6, <2>1
<1>8. SameSpans(g, h)
  BY <1>2, <1>3, <1>6 DEF SameSpans, SamePlace, HeaderSet, SameHeads
<1> QED BY <1>7, <1>8

(* HeappFree: its checks never refuse a block in use, and whichever of the *)
(* four cases applies the heap is sound and no two free blocks meet.       *)
LEMMA FreeSound ==
    ASSUME NEW h, NEW F, NEW U, Sound(h, F, U), NoPairs(h, F), NEW c \in U,
           NEW g, g = HeappFree(h, c)
    PROVE  \E F2 : /\ Sound(g, F2, U \ {c}) /\ NoPairs(g, F2) /\ SameArena(g, h)
                   /\ SameSizes(g, h, U \ {c})
<1> DEFINE p == h.blk[c].pprev
           n == h.blk[c].pnext
           h1 == HeappBlockUnlink(h, "usedList", c)
           m == IF IsFree(h, n) THEN AbsorbNext(h1, c, n) ELSE h1
<1>1. /\ c \in DOMAIN h.blk /\ DOMAIN h.blk = F \cup U /\ c \notin F /\ F \cap U = {}
      /\ 0 \notin DOMAIN h.blk /\ Lists(h, F, U, {}) /\ Placed(h)
      /\ \A x \in F : h.blk[x].state = FREE
      /\ \A x \in U : h.blk[x].state = USED
  BY DEF Sound, Lists
<1>2. /\ n \in DOMAIN h.blk \cup {0} /\ p \in DOMAIN h.blk \cup {0}
      /\ c \in Nat /\ c # 0 /\ h.blk[c].size \in Nat /\ h.blk[c].size >= 1
  BY <1>1, NextIsBehind
<1>3. \A x \in DOMAIN h.blk \cup {0} : IsFree(h, x) <=> x \in F
  BY <1>1 DEF IsFree, FREE, USED
<1>4. Valid(h, c)
  <2>1. h.blk[c].size < h.size /\ h.size \in Nat
    BY <1>1, <1>2 DEF Placed, PlacedAt
  <2>2. p < c
    <3>1. CASE p = 0
      BY <1>2, <3>1
    <3>2. CASE p # 0
      <4>1. p \in DOMAIN h.blk /\ h.blk[p].pnext = c
        BY <1>1, <3>2 DEF Placed, PlacedAt
      <4>2. p \in Nat /\ h.blk[p].size \in Nat /\ c = p + h.blk[p].size + HDR
        BY <1>1, <1>2, <4>1 DEF Placed, PlacedAt
      <4> QED BY <4>2, BlockAssumption
    <3> QED BY <3>1, <3>2
  <2>3. n < h.size
    <3>1. CASE n = 0
      BY <1>2, <2>1, <3>1
    <3>2. CASE n # 0
      <4>1. n \in Nat /\ h.blk[n].size \in Nat /\ h.blk[n].size >= 1 /\ n + h.blk[n].size <= h.size
        BY <1>1, <1>2, <3>2 DEF Placed, PlacedAt
      <4> QED BY <2>1, <4>1
    <3> QED BY <3>1, <3>2
  <2> QED BY <1>1, <1>2, <2>1, <2>2, <2>3 DEF Valid
<1>5. g = IF IsFree(h, p) THEN AbsorbInto(m, p, c) ELSE MarkFree(m, c)
  BY <1>4 DEF HeappFree
<1>6. Lists(h1, F, U \ {c}, {c}) /\ SamePlace(h1, h)
  <2>1. {} \cup {c} = {c}
    OBVIOUS
  <2>2. Lists(h1, F, U \ {c}, {} \cup {c}) /\ SamePlace(h1, h)
    BY <1>1, UnlinkUsed
  <2> QED BY <2>1, <2>2
<1> HIDE DEF h1
<1>7. SameSpans(h1, h)
  BY <1>6 DEF SamePlace, SameSpans
<1>8. Placed(h1)
  BY <1>1, <1>7, PlacedKept
<1>9. \E F1 \in SUBSET F :
         /\ Lists(m, F1, U \ {c}, {c}) /\ Placed(m) /\ SameArena(m, h)
         /\ m.blk[c].pprev = p /\ m.blk[c].pnext \notin F
         /\ p \in F => p \in F1
         /\ \A a \in F1 : m.blk[a].pnext = h.blk[a].pnext
         /\ \A u \in U \ {c} : m.blk[u].size = h.blk[u].size
  <2>1. CASE n \in F
    <3>1. m = AbsorbNext(h1, c, n)
      BY <1>2, <1>3, <2>1
    <3>2. h1.blk[c].pnext = n
      BY <1>1, <1>7 DEF SameSpans
    <3> HIDE DEF m
    <3>3. Lists(m, F \ {n}, U \ {c}, {c}) /\ Merged(m, h1, c, n)
      BY <1>6, <1>8, <2>1, <3>1, <3>2, AbsorbNextLists
    <3>4. Placed(m)
      <4>1. c \in DOMAIN h1.blk
        BY <1>1, <1>7 DEF SameSpans
      <4> QED BY <1>8, <3>3, <4>1, MergePlaced
    <3>5. SameArena(m, h) /\ m.blk[c].pprev = p
      BY <1>1, <1>7, <3>3 DEF Merged, SameSpans, SameArena
    <3>6. m.blk[c].pnext \notin F
      <4>1. m.blk[c].pnext = h.blk[n].pnext
        BY <1>1, <1>7, <2>1, <3>3 DEF Merged, SameSpans
      <4> QED BY <2>1, <4>1 DEF NoPairs
    <3>7. p # n \/ p = 0
      <4> SUFFICES ASSUME p = n, p # 0 PROVE FALSE
        OBVIOUS
      <4>1. p \in DOMAIN h.blk /\ h.blk[p].pnext = c
        BY <1>1 DEF Placed, PlacedAt
      <4>2. p \in Nat /\ h.blk[p].size \in Nat /\ c = p + h.blk[p].size + HDR
        BY <1>1, <1>2, <4>1 DEF Placed, PlacedAt
      <4>3. n = c + h.blk[c].size + HDR
        BY <1>1 DEF Placed, PlacedAt
      <4> QED BY <1>2, <4>2, <4>3, BlockAssumption
    <3>8. 0 \notin F
      BY <1>1
    <3>9. \A a \in F \ {n} : m.blk[a].pnext = h.blk[a].pnext
      BY <1>1, <1>7, <3>3 DEF Merged, SameSpans
    <3>10. \A u \in U \ {c} : m.blk[u].size = h.blk[u].size
      BY <1>1, <1>7, <2>1, <3>3 DEF Merged, SameSpans
    <3>11. F \ {n} \in SUBSET F /\ (p \in F => p \in F \ {n})
      BY <3>7, <3>8
    <3> QED BY <3>3, <3>4, <3>5, <3>6, <3>9, <3>10, <3>11
  <2>2. CASE n \notin F
    <3>1. m = h1
      BY <1>2, <1>3, <2>2
    <3> HIDE DEF m
    <3>2. SameArena(m, h) /\ m.blk[c].pprev = p /\ m.blk[c].pnext = n
      BY <1>1, <1>7, <3>1 DEF SameSpans, SameArena
    <3>3. /\ \A a \in F : m.blk[a].pnext = h.blk[a].pnext
          /\ \A u \in U \ {c} : m.blk[u].size = h.blk[u].size
      BY <1>1, <1>7, <3>1 DEF SameSpans
    <3> QED BY <1>6, <1>8, <2>2, <3>1, <3>2, <3>3
  <2> QED BY <2>1, <2>2
<1>10. PICK F1 \in SUBSET F :
         /\ Lists(m, F1, U \ {c}, {c}) /\ Placed(m) /\ SameArena(m, h)
         /\ m.blk[c].pprev = p /\ m.blk[c].pnext \notin F
         /\ p \in F => p \in F1
         /\ \A a \in F1 : m.blk[a].pnext = h.blk[a].pnext
         /\ \A u \in U \ {c} : m.blk[u].size = h.blk[u].size
  BY <1>9
<1> HIDE DEF m
<1>11. c \in DOMAIN m.blk /\ DOMAIN m.blk = F1 \cup (U \ {c}) \cup {c}
  BY <1>10 DEF Lists
<1>12. CASE p \in F
  <2>1. g = AbsorbInto(m, p, c) /\ p # 0 /\ p \in F1
    BY <1>1, <1>3, <1>5, <1>10, <1>12
  <2>2. m.blk[p].pnext = c
    BY <1>10, <1>11, <2>1 DEF Placed, PlacedAt
  <2>3. Lists(g, F1, U \ {c}, {}) /\ Merged(g, m, p, c)
    BY <1>10, <2>1, <2>2, AbsorbIntoLists
  <2>4. Placed(g)
    <3>1. p \in DOMAIN m.blk
      BY <1>11, <2>1
    <3> QED BY <1>10, <2>3, <3>1, MergePlaced
  <2>5. NoPairs(g, F1)
    <3>1. g.blk[p].pnext = m.blk[c].pnext
      BY <2>3 DEF Merged
    <3>2. \A a \in F1 \ {p} : g.blk[a].pnext = h.blk[a].pnext
      BY <1>1, <1>10, <1>11, <2>3 DEF Merged
    <3> QED BY <1>10, <3>1, <3>2 DEF NoPairs
  <2>6. SameArena(g, h) /\ \A u \in U \ {c} : g.blk[u].size = h.blk[u].size
    BY <1>1, <1>10, <1>11, <1>12, <2>3 DEF Merged, SameArena
  <2> QED BY <2>3, <2>4, <2>5, <2>6 DEF Sound, SameSizes
<1>13. CASE p \notin F
  <2>1. g = MarkFree(m, c)
    BY <1>2, <1>3, <1>5, <1>13
  <2>2. Lists(g, F1 \cup {c}, U \ {c}, {}) /\ SameSpans(g, m)
    BY <1>10, <2>1, MarkFreeLists
  <2>3. Placed(g)
    BY <1>10, <2>2, PlacedKept
  <2>4. NoPairs(g, F1 \cup {c})
    <3>1. m.blk[c].pnext # c
      BY <1>10, <1>11, NextIsBehind
    <3>2. g.blk[c].pnext \notin F1 \cup {c}
      BY <1>10, <1>11, <2>2, <3>1 DEF SameSpans
    <3>3. ASSUME NEW a \in F1
          PROVE  g.blk[a].pnext \notin F1 \cup {c}
      <4>1. g.blk[a].pnext = h.blk[a].pnext
        BY <1>10, <1>11, <2>2 DEF SameSpans
      <4>2. h.blk[a].pnext \notin F
        BY DEF NoPairs
      <4>3. h.blk[a].pnext # c
        <5> SUFFICES ASSUME h.blk[a].pnext = c PROVE FALSE
          OBVIOUS
        <5>1. p = a
          BY <1>1, <1>2 DEF Placed, PlacedAt
        <5> QED BY <1>13, <5>1
      <4> QED BY <4>1, <4>2, <4>3
    <3> QED BY <3>2, <3>3 DEF NoPairs
  <2>5. SameArena(g, h) /\ \A u \in U \ {c} : g.blk[u].size = h.blk[u].size
    BY <1>10, <1>11, <2>2 DEF SameSpans, SameArena
  <2> QED BY <2>2, <2>3, <2>4, <2>5 DEF Sound, SameSizes
<1> QED BY <1>12, <1>13
-----------------------------------------------------------------------------
(* A search of a list of finitely many blocks ends, at 0 or at a block of  *)
(* the list that passes: next never leads back, since previous undoes it.  *)
LEMMA SearchLooks ==
    ASSUME NEW h, NEW list, NEW S, 0 \notin S, IsFiniteSet(S), S \subseteq DOMAIN h.blk,
           OnList(h, h[list], S), NEW passing
    PROVE  /\ LooksAt(h, list, passing) \subseteq S \cup {0}
           /\ h[list] \in LooksAt(h, list, passing)
           /\ \A x \in LooksAt(h, list, passing) \ (passing \cup {0}) :
                h.blk[x].vnext \in LooksAt(h, list, passing)
           /\ \E x \in LooksAt(h, list, passing) : x \in passing \cup {0}
<1> DEFINE R == LooksAt(h, list, passing)
           nodes == DOMAIN h.blk \cup {0}
           walks == {C \in SUBSET nodes :
                       /\ h[list] \in C
                       /\ \A x \in C \ (passing \cup {0}) : h.blk[x].vnext \in C}
<1>1. R = {x \in nodes : \A C \in walks : x \in C}
  BY DEF LooksAt
<1>2. S \cup {0} \in walks
  BY DEF OnList
<1> HIDE DEF R
<1>3. R \subseteq S \cup {0}
  BY <1>1, <1>2
<1>4. h[list] \in R
  BY <1>1 DEF OnList
<1>5. ASSUME NEW x \in R \ (passing \cup {0})
      PROVE  h.blk[x].vnext \in R
  <2>1. h.blk[x].vnext \in nodes
    BY <1>3, <1>5 DEF OnList
  <2>2. \A C \in walks : h.blk[x].vnext \in C
    BY <1>1, <1>5
  <2> QED BY <1>1, <2>1, <2>2
<1>6. ASSUME R \cap (passing \cup {0}) = {}
      PROVE  FALSE
  <2> DEFINE f == [x \in R |-> h.blk[x].vnext]
             T == R \ {h[list]}
  <2>1. R \subseteq S /\ \A x \in R : h.blk[x].vnext \in R
    BY <1>3, <1>5, <1>6
  <2>2. \A x \in R : h.blk[x].vnext # 0 /\ h.blk[h.blk[x].vnext].vprev = x
    BY <2>1 DEF OnList
  <2>3. \A x \in R : h.blk[x].vnext # h[list]
    BY <2>1, <2>2 DEF OnList
  <2>4. f \in [R -> T]
    BY <2>1, <2>3
  <2>5. \A a, b \in R : f[a] = f[b] => a = b
    BY <2>2
  <2>6. f \in Injection(R, T)
    BY <2>4, <2>5, Fun_IsInj
  <2>7. IsFiniteSet(R)
    BY <2>1, FS_Subset
  <2>8. IsFiniteSet(T) /\ Cardinality(T) = Cardinality(R) - 1 /\ Cardinality(R) \in Nat
    BY <1>4, <2>7, FS_RemoveElement, FS_CardinalityType
  <2> HIDE DEF f, T
  <2>9. Cardinality(R) <= Cardinality(T)
    BY <2>6, <2>8, FS_Injection
  <2> QED BY <2>8, <2>9
<1> QED BY <1>3, <1>4, <1>5, <1>6 DEF R

LEMMA SearchEnds ==
    ASSUME NEW h, NEW list, NEW S, 0 \notin S, IsFiniteSet(S), S \subseteq DOMAIN h.blk,
           OnList(h, h[list], S), NEW passing
    PROVE  FirstOn(h, list, passing) \in (S \cap passing) \cup {0}
<1>1. \E x \in LooksAt(h, list, passing) : x \in passing \cup {0}
  BY SearchLooks
<1>2. /\ FirstOn(h, list, passing) \in LooksAt(h, list, passing)
      /\ FirstOn(h, list, passing) \in passing \cup {0}
  BY <1>1 DEF FirstOn
<1>3. LooksAt(h, list, passing) \subseteq S \cup {0}
  BY SearchLooks
<1> QED BY <1>2, <1>3

(* A search that nothing passes sees the whole list, and its end.          *)
LEMMA SearchSeesAll ==
    ASSUME NEW h, NEW list, NEW S, 0 \notin S, IsFiniteSet(S), S \subseteq DOMAIN h.blk,
           OnList(h, h[list], S), Reaches(h, h[list], S)
    PROVE  LooksAt(h, list, {}) = S \cup {0}
<1> DEFINE R == LooksAt(h, list, {})
<1>1. /\ R \subseteq S \cup {0} /\ h[list] \in R
      /\ \A x \in R \ ({} \cup {0}) : h.blk[x].vnext \in R
      /\ \E x \in R : x \in {} \cup {0}
  BY SearchLooks
<1> HIDE DEF R
<1>2. S \subseteq R
  BY <1>1 DEF Reaches
<1> QED BY <1>1, <1>2 DEF R

(* A search ends at one place only: all but the head of what it looks at   *)
(* is next to something it went past.                                      *)
LEMMA SearchEndsOnce ==
    ASSUME NEW h, NEW list, NEW S, 0 \notin S, IsFiniteSet(S), S \subseteq DOMAIN h.blk,
           OnList(h, h[list], S), NEW passing,
           NEW a \in LooksAt(h, list, passing), a \in passing \cup {0},
           NEW b \in LooksAt(h, list, passing), b \in passing \cup {0}
    PROVE  a = b
<1> DEFINE R == LooksAt(h, list, passing)
           nodes == DOMAIN h.blk \cup {0}
           walks == {C \in SUBSET nodes :
                       /\ h[list] \in C
                       /\ \A x \in C \ (passing \cup {0}) : h.blk[x].vnext \in C}
           N == R \ (passing \cup {0})
           T == R \ {h[list]}
           f == [x \in N |-> h.blk[x].vnext]
<1>1. R = {x \in nodes : \A C \in walks : x \in C}
  BY DEF LooksAt
<1>2. /\ R \subseteq S \cup {0} /\ h[list] \in R
      /\ \A x \in N : h.blk[x].vnext \in R
  BY SearchLooks
<1>3. a \in R /\ b \in R
  OBVIOUS
<1> HIDE DEF R
<1>4. CASE h[list] = 0
  <2>1. {0} \in walks
    BY <1>4
  <2> QED BY <1>1, <1>3, <2>1
<1>5. CASE h[list] # 0
  <2>1. \A x \in N : h.blk[x].vnext # h[list]
    BY <1>2, <1>5 DEF OnList
  <2>2. f \in [N -> T]
    BY <1>2, <2>1
  <2>3. ASSUME NEW t \in T
        PROVE  \E x \in N : f[x] = t
    <3> SUFFICES ASSUME \A x \in N : h.blk[x].vnext # t PROVE FALSE
      OBVIOUS
    <3> DEFINE C == R \ {t}
    <3>1. C \in SUBSET nodes /\ h[list] \in C
      BY <1>1, <1>2
    <3>2. \A x \in C \ (passing \cup {0}) : h.blk[x].vnext \in C
      BY <1>2
    <3>3. C \in walks
      BY <3>1, <3>2
    <3> QED BY <1>1, <3>3
  <2>4. f \in Surjection(N, T)
    BY <2>2, <2>3, Fun_IsSurj
  <2>5. IsFiniteSet(R) /\ IsFiniteSet(N)
    <3>1. IsFiniteSet(S \cup {0})
      BY FS_AddElement
    <3> QED BY <1>2, <3>1, FS_Subset
  <2>6. Cardinality(T) = Cardinality(R) - 1 /\ Cardinality(R) \in Nat
    BY <1>2, <2>5, FS_RemoveElement, FS_CardinalityType
  <2> HIDE DEF f, T
  <2>7. Cardinality(T) <= Cardinality(N)
    BY <2>4, <2>5, FS_Surjection
  <2>8. ASSUME a # b PROVE FALSE
    <3> DEFINE Q == (R \ {a}) \ {b}
    <3>1. IsFiniteSet(R \ {a}) /\ Cardinality(R \ {a}) = Cardinality(R) - 1 /\ b \in R \ {a}
      BY <1>3, <2>5, <2>8, FS_RemoveElement
    <3>2. IsFiniteSet(Q) /\ Cardinality(Q) = Cardinality(R \ {a}) - 1
      BY <3>1, FS_RemoveElement
    <3>3. N \subseteq Q
      OBVIOUS
    <3>4. Cardinality(N) <= Cardinality(Q)
      BY <3>2, <3>3, FS_Subset
    <3>5. Cardinality(N) \in Nat
      BY <2>5, FS_CardinalityType
    <3> HIDE DEF N, Q
    <3> QED BY <2>6, <2>7, <3>1, <3>2, <3>4, <3>5
  <2> QED BY <2>8
<1> QED BY <1>4, <1>5

(* A search gives up only when no block of the list passes.                *)
LEMMA SearchFinds ==
    ASSUME NEW h, NEW list, NEW S, 0 \notin S, IsFiniteSet(S), S \subseteq DOMAIN h.blk,
           OnList(h, h[list], S), Reaches(h, h[list], S), NEW passing, 0 \notin passing,
           FirstOn(h, list, passing) = 0
    PROVE  S \cap passing = {}
<1> DEFINE R == LooksAt(h, list, passing)
<1>1. /\ R \subseteq S \cup {0} /\ h[list] \in R
      /\ \A x \in R \ (passing \cup {0}) : h.blk[x].vnext \in R
      /\ \E x \in R : x \in passing \cup {0}
  BY SearchLooks
<1>2. 0 \in R
  BY <1>1 DEF FirstOn
<1>3. R \cap passing = {}
  BY <1>2, SearchEndsOnce
<1> HIDE DEF R
<1>4. S \subseteq R
  BY <1>1, <1>3 DEF Reaches
<1> QED BY <1>3, <1>4
-----------------------------------------------------------------------------
(* Arithmetic.                                                             *)
LEMMA ProductGrows ==
    ASSUME NEW a \in Nat, NEW b \in Nat, NEW c \in Nat, a <= b
    PROVE  a * c \in Nat /\ b * c \in Nat /\ a * c <= b * c
OBVIOUS

LEMMA ProductSteps ==
    ASSUME NEW a \in Int, NEW c \in Int
    PROVE  (a + 1) * c = a * c + c
OBVIOUS

LEMMA QuotientAndRest ==
    ASSUME NEW i \in Nat, NEW c \in Nat \ {0}
    PROVE  /\ i \div c \in Nat /\ i % c \in 0..(c - 1)
           /\ i = (i \div c) * c + (i % c)
OBVIOUS

LEMMA ProductDistributes ==
    ASSUME NEW a \in Int, NEW b \in Int, NEW c \in Int
    PROVE  (a + b) * c = a * c + b * c
OBVIOUS

LEMMA QuotientIsUnique ==
    ASSUME NEW m \in Nat, NEW c \in Nat \ {0}, NEW i \in Int, m * c <= i, i < m * c + c
    PROVE  i \div c = m /\ i % c = i - m * c
<1>1. i \in Nat /\ m * c \in Nat
  BY ProductGrows
<1> DEFINE d == i \div c
<1>2. d \in Nat /\ i % c \in 0..(c - 1) /\ i = d * c + (i % c)
  BY <1>1, QuotientAndRest
<1> HIDE DEF d
<1>3. d * c <= i /\ i < d * c + c /\ d * c \in Nat
  BY <1>2, ProductGrows
<1>4. ~ (d + 1 <= m)
  <2> SUFFICES ASSUME d + 1 <= m PROVE FALSE
    OBVIOUS
  <2>1. (d + 1) * c <= m * c
    BY <1>2, ProductGrows
  <2> QED BY <1>2, <1>3, <2>1, ProductSteps
<1>5. ~ (m + 1 <= d)
  <2> SUFFICES ASSUME m + 1 <= d PROVE FALSE
    OBVIOUS
  <2>1. (m + 1) * c <= d * c
    BY <1>2, ProductGrows
  <2> QED BY <1>1, <1>2, <1>3, <2>1, ProductSteps
<1>6. d = m
  BY <1>2, <1>4, <1>5
<1> QED BY <1>2, <1>6, <1>1 DEF d

LEMMA MultiplesAreAligned ==
    ASSUME NEW m \in Nat, NEW c \in Nat \ {0}
    PROVE  (m * c) % c = 0
<1>1. m * c \in Nat
  BY ProductGrows
<1> QED BY <1>1, QuotientIsUnique

LEMMA FactorIsSmaller ==
    ASSUME NEW a \in Nat, NEW c \in Nat \ {0}
    PROVE  a <= a * c /\ a * c \in Nat
<1>1. 1 * a <= c * a /\ c * a \in Nat
  BY ProductGrows
<1> QED BY <1>1

(* HeapAllocAligned (mem.c:493-503): the first multiple that leaves room   *)
(* for a block of its own in front exists.                                 *)
LEMMA StepsAre ==
    ASSUME NEW x, NEW al, al \in Nat \ {0}, NEW gap, gap \in Nat, NEW k, k = Steps(x, al, gap)
    PROVE  k \in Nat /\ gap + k * al >= HDR + MINFREE
<1> DEFINE D == HDR + MINFREE
           Enough(i) == /\ gap + i * al >= HDR + MINFREE
                        /\ \A j \in 0 .. i - 1 : gap + j * al < HDR + MINFREE
<1>1. D \in Nat
  BY BlockAssumption
<1>2. \E i \in 0 .. D : Enough(i)
  <2>1. CASE gap >= D
    <3>1. 0 * al = 0
      OBVIOUS
    <3>2. Enough(0)
      BY <2>1, <3>1
    <3> QED BY <1>1, <3>2
  <2>2. CASE gap < D
    <3> DEFINE e == D - gap - 1
               q == e \div al
               r == e % al
    <3>1. e \in Nat
      BY <1>1, <2>2
    <3>2. q \in Nat /\ r \in 0 .. al - 1 /\ e = q * al + r
      BY <3>1, QuotientAndRest
    <3>3. q <= q * al /\ q * al \in Nat
      BY <3>2, FactorIsSmaller
    <3>4. (q + 1) * al = q * al + al
      BY <3>2, ProductSteps
    <3> HIDE DEF q, r
    <3>5. gap + (q + 1) * al >= HDR + MINFREE
      BY <1>1, <3>1, <3>2, <3>3, <3>4
    <3>6. ASSUME NEW j \in 0 .. (q + 1) - 1
          PROVE  gap + j * al < HDR + MINFREE
      <4>1. j * al <= q * al /\ j * al \in Nat
        BY <3>2, ProductGrows
      <4> QED BY <1>1, <3>1, <3>2, <3>3, <4>1
    <3>7. Enough(q + 1)
      BY <3>5, <3>6
    <3>8. q + 1 \in 0 .. D
      BY <1>1, <3>1, <3>2, <3>3
    <3> QED BY <3>7, <3>8
  <2> QED BY <1>1, <2>1, <2>2
<1>3. k = CHOOSE i \in 0 .. D : Enough(i)
  BY DEF Steps
<1> HIDE DEF Enough
<1>4. k \in 0 .. D /\ Enough(k)
  BY <1>2, <1>3
<1> QED BY <1>1, <1>4 DEF Enough

LEMMA AlignedOffsetIs ==
    ASSUME NEW h, NEW x, x \in Nat, NEW al, al \in Nat \ {0},
           NEW y, y = AlignedOffset(h, x, al)
    PROVE  /\ y \in Nat /\ x < y /\ y % al = 0
           /\ h.blk[x].pprev = 0 => y - x >= HDR + MINFREE
<1> DEFINE q == x \div al
           z == (q + 1) * al
           k == Steps(x, al, z - x)
<1>1. q \in Nat /\ x % al \in 0 .. al - 1 /\ x = q * al + (x % al)
  BY QuotientAndRest
<1>2. q * al \in Nat /\ z = q * al + al
  BY <1>1, FactorIsSmaller, ProductSteps
<1>3. y = IF h.blk[x].pprev # 0 THEN z ELSE z + k * al
  BY DEF AlignedOffset
<1> HIDE DEF q
<1>4. z \in Nat /\ x < z /\ z - x \in Nat
  BY <1>1, <1>2
<1>5. z % al = 0
  BY <1>1, MultiplesAreAligned
<1>6. k \in Nat /\ z - x + k * al >= HDR + MINFREE
  BY <1>4, StepsAre
<1>7. (q + 1 + k) * al = z + k * al
  BY <1>1, <1>6, ProductDistributes
<1> HIDE DEF z, k
<1>8. (z + k * al) % al = 0 /\ k * al \in Nat
  <2>1. q + 1 + k \in Nat
    BY <1>1, <1>6
  <2>2. ((q + 1 + k) * al) % al = 0
    BY <2>1, MultiplesAreAligned
  <2>3. k * al \in Nat
    BY <1>6, FactorIsSmaller
  <2> QED BY <1>7, <2>2, <2>3
<1>9. HDR + MINFREE \in Nat
  BY BlockAssumption
<1>10. CASE h.blk[x].pprev # 0
  BY <1>3, <1>4, <1>5, <1>10
<1>11. CASE h.blk[x].pprev = 0
  BY <1>3, <1>4, <1>6, <1>8, <1>9, <1>11
<1> QED BY <1>10, <1>11

Multiple(a, j, c) == a = j * c

LEMMA AlignedIsMultiple ==
    ASSUME NEW a \in Nat, NEW c \in Nat \ {0}, a % c = 0
    PROVE  \E j \in Nat : Multiple(a, j, c)
<1>1. a \div c \in Nat /\ a = (a \div c) * c
  BY QuotientAndRest
<1> QED BY <1>1 DEF Multiple

LEMMA PlaceInPage ==
    ASSUME NEW c \in Nat \ {0}, NEW j \in Nat, NEW a \in Nat, Multiple(a, j, c),
           NEW i \in Nat, i < c
    PROVE  (a + i) \div c = j /\ (a + i) % c = i
<1>1. j * c <= a + i /\ a + i < j * c + c /\ a + i \in Int
  BY DEF Multiple
<1>2. (a + i) \div c = j /\ (a + i) % c = (a + i) - j * c
  BY <1>1, QuotientIsUnique
<1> QED BY <1>2 DEF Multiple

(* Page-aligned memory keeps every alignment that divides a page.          *)
LEMMA SumIsAligned ==
    ASSUME NEW a \in Nat, NEW b \in Nat, NEW c \in Nat \ {0}, a % c = 0, b % c = 0
    PROVE  (a + b) % c = 0
<1>1. a \div c \in Nat /\ a = (a \div c) * c
  BY QuotientAndRest
<1>2. b \div c \in Nat /\ b = (b \div c) * c
  BY QuotientAndRest
<1> DEFINE m == a \div c
           n == b \div c
<1> HIDE DEF m, n
<1>3. a + b = (m + n) * c
  BY <1>1, <1>2, ProductDistributes DEF m, n
<1>4. m + n \in Nat
  BY <1>1, <1>2 DEF m, n
<1> QED BY <1>3, <1>4, MultiplesAreAligned
-----------------------------------------------------------------------------
(* The inductive invariant.  HeapOK says that the heap h is sound, has no  *)
(* two free neighbours, lies behind the first page of the arena, and has a *)
(* block in use, long enough and aligned as asked for, for exactly the     *)
(* allocations of m.                                                       *)
Serves(h, x, a) ==
    /\ a.size \in Nat \ {0} /\ a.size <= h.blk[x].size
    /\ a.align \in Nat \ {0} /\ (PageSize + x) % a.align = 0

HeapOK(h, m, F, U) ==
    /\ Sound(h, F, U) /\ NoPairs(h, F)
    /\ h.memory = PageSize /\ h.size = ArenaBytes - PageSize
    /\ DOMAIN m = {PageSize + x : x \in U}
    /\ \A x \in U : Serves(h, x, m[PageSize + x])

IInv ==
    /\ mdl = <<>> \/ mdl \in FrameLists
    /\ mapped \in BOOLEAN
    /\ Down => given = <<>>
    /\ ~Down => /\ mdl \in FrameLists
                /\ Pages >= MinPages
                /\ HeapOK(heap, given, Blocks(heap, FREE), Blocks(heap, USED))

LEMMA BlocksAre ==
    ASSUME NEW h, NEW F, NEW U, Sound(h, F, U)
    PROVE  F = Blocks(h, FREE) /\ U = Blocks(h, USED)
BY DEF Sound, Lists, Blocks, FREE, USED

LEMMA BlocksAreFew ==
    ASSUME NEW h, NEW F, NEW U, Sound(h, F, U)
    PROVE  /\ IsFiniteSet(F) /\ IsFiniteSet(U)
           /\ F \subseteq DOMAIN h.blk /\ U \subseteq DOMAIN h.blk
           /\ 0 \notin F /\ 0 \notin U
<1>1. /\ F \subseteq DOMAIN h.blk /\ U \subseteq DOMAIN h.blk
      /\ 0 \notin F /\ 0 \notin U
  BY DEF Sound, Lists
<1>2. /\ h.size \in Nat
      /\ \A x \in DOMAIN h.blk : x \in Nat /\ x <= h.size
  BY DEF Sound, Placed, PlacedAt
<1>3. IsFiniteSet(DOMAIN h.blk)
  BY <1>2, FS_BoundedSetOfNaturals
<1> QED BY <1>1, <1>3, FS_Subset

(* The two searches of the heap.                                           *)
LEMMA FirstFreeIs ==
    ASSUME NEW h, NEW F, NEW U, Sound(h, F, U), NEW passing
    PROVE  FirstFree(h, passing) \in (F \cap passing) \cup {0}
<1>1. OnList(h, h["freeList"], F)
  BY DEF Sound, Lists
<1> QED BY <1>1, BlocksAreFew, SearchEnds DEF FirstFree

LEMMA FirstUsedIs ==
    ASSUME NEW h, NEW F, NEW U, Sound(h, F, U), NEW passing
    PROVE  FirstOn(h, "usedList", passing) \in (U \cap passing) \cup {0}
<1>1. OnList(h, h["usedList"], U)
  BY DEF Sound, Lists
<1> QED BY <1>1, BlocksAreFew, SearchEnds

LEMMA ArenaIs == ArenaBytes \in Nat
BY PageAssumption, ProductGrows DEF ArenaBytes

LEMMA CreateOK ==
    ASSUME Pages >= MinPages
    PROVE  HeapOK(HeapCreate, <<>>, {START}, {})
<1> DEFINE h == HeapCreate
           n == ArenaBytes - PageSize - HDR
<1>1. 2 * PageSize <= ArenaBytes
  <2>1. 2 <= Pages /\ 2 \in Nat /\ Pages \in Nat /\ PageSize \in Nat
    BY PageAssumption
  <2> QED BY <2>1, ProductGrows DEF ArenaBytes
<1>2. n \in Nat /\ n >= 1 /\ START \in Nat /\ START # 0 /\ ArenaBytes - PageSize \in Nat
  BY <1>1, ArenaIs, PageAssumption, BlockAssumption DEF START
<1>3. /\ DOMAIN h = HeapFields
      /\ h.memory = PageSize /\ h.size = ArenaBytes - PageSize
      /\ h.freeList = START /\ h.usedList = 0
      /\ DOMAIN h.blk = {START}
      /\ h.blk[START] = Block(FREE, n, 0, 0)
  BY DEF HeapCreate, HeapCreateAt, HeapFields
<1>4. /\ DOMAIN h.blk[START] = BlockFields
      /\ h.blk[START].state = FREE /\ h.blk[START].size = n
      /\ h.blk[START].pprev = 0 /\ h.blk[START].pnext = 0
      /\ h.blk[START].vprev = 0 /\ h.blk[START].vnext = 0
  BY <1>3 DEF Block, BlockFields
<1> HIDE DEF h, n
<1>5. Lists(h, {START}, {}, {})
  <2>1. IsHeap(h)
    BY <1>3, <1>4 DEF IsHeap
  <2>2. OnList(h, h.freeList, {START}) /\ OnList(h, h.usedList, {})
    BY <1>2, <1>3, <1>4 DEF OnList
  <2>3. Reaches(h, h.freeList, {START}) /\ Reaches(h, h.usedList, {})
    BY <1>3 DEF Reaches
  <2> QED BY <1>2, <1>3, <1>4, <2>1, <2>2, <2>3 DEF Lists
<1>6. Placed(h)
  <2>1. START + n = h.size /\ h.size \in Nat
    BY <1>2, <1>3, ArenaIs, PageAssumption, BlockAssumption DEF START, n
  <2>2. PlacedAt(h, START)
    BY <1>2, <1>3, <1>4, <2>1 DEF PlacedAt
  <2>3. Apart(h)
    BY <1>2, <1>3 DEF Apart
  <2> QED BY <1>3, <2>1, <2>2, <2>3 DEF Placed
<1>7. NoPairs(h, {START})
  BY <1>2, <1>4 DEF NoPairs
<1>8. DOMAIN <<>> = {PageSize + x : x \in {}}
  OBVIOUS
<1> QED BY <1>3, <1>5, <1>6, <1>7, <1>8 DEF HeapOK, Sound, h

Gave(m, p, a) == [q \in DOMAIN m \cup {p} |-> IF q = p THEN a ELSE m[q]]
Took(m, p) == [q \in DOMAIN m \ {p} |-> m[q]]

(* An allocation: g is the heap h, cut for alignment, before the block at  *)
(* y is taken.                                                             *)
LEMMA GiveOK ==
    ASSUME NEW h, NEW m, NEW F, NEW U, HeapOK(h, m, F, U),
           NEW g, NEW F1, Sound(g, F1, U), NEW y \in F1, NoPairsBut(g, F1, y), SameArena(g, h),
           NEW n, n \in Nat, n >= 1, g.blk[y].size >= n,
           NEW al \in Nat \ {0}, (PageSize + y) % al = 0,
           NotShorter(g, h, U),
           NEW k, k = HeappSplit(g, y, n)
    PROVE  /\ PageSize + y \notin DOMAIN m
           /\ \E F2 : HeapOK(k, Gave(m, PageSize + y, Asked(n, al)), F2, U \cup {y})
<1> DEFINE p == PageSize + y
           m2 == Gave(m, p, Asked(n, al))
<1>1. PICK F2 : /\ Sound(k, F2, U \cup {y}) /\ NoPairs(k, F2) /\ SameArena(k, g)
                /\ k.blk[y].size >= n
                /\ SameSizes(k, g, U)
  BY SplitSound
<1>2. y \notin U /\ y \in Nat /\ \A u \in U : u \in Nat /\ h.blk[u].size \in Nat
  <2>1. Sound(h, F, U)
    BY DEF HeapOK
  <2> QED BY <2>1 DEF Sound, Lists, Placed, PlacedAt
<1>3. DOMAIN m = {PageSize + x : x \in U}
  BY DEF HeapOK
<1>4. PageSize \in Nat
  BY PageAssumption
<1>5. p \notin DOMAIN m
  <2>1. \A x \in U : p # PageSize + x
    BY <1>2, <1>4
  <2> QED BY <1>3, <2>1
<1>6. DOMAIN m2 = {PageSize + x : x \in U \cup {y}}
  BY <1>3 DEF Gave
<1>7. /\ m2[p] = Asked(n, al)
      /\ \A x \in U : m2[PageSize + x] = m[PageSize + x]
  BY <1>3, <1>5 DEF Gave
<1> HIDE DEF m2
<1>8. ASSUME NEW x \in U \cup {y}
      PROVE  Serves(k, x, m2[PageSize + x])
  <2>1. CASE x = y
    BY <1>1, <1>7, <2>1 DEF Serves, Asked
  <2>2. CASE x \in U
    <3>1. Serves(h, x, m[PageSize + x])
      BY <2>2 DEF HeapOK
    <3> QED BY <1>1, <1>2, <1>7, <2>2, <3>1 DEF Serves, SameSizes, NotShorter
  <2> QED BY <2>1, <2>2
<1>9. k.memory = PageSize /\ k.size = ArenaBytes - PageSize
  BY <1>1 DEF HeapOK, SameArena
<1>10. HeapOK(k, m2, F2, U \cup {y})
  BY <1>1, <1>6, <1>8, <1>9 DEF HeapOK
<1> QED BY <1>5, <1>10 DEF m2

LEMMA TakeOK ==
    ASSUME NEW h, NEW m, NEW F, NEW U, HeapOK(h, m, F, U), NEW c \in U,
           NEW g, g = HeappFree(h, c)
    PROVE  /\ PageSize + c \in DOMAIN m
           /\ \E F2 : HeapOK(g, Took(m, PageSize + c), F2, U \ {c})
<1> DEFINE p == PageSize + c
           m2 == Took(m, p)
<1>1. Sound(h, F, U) /\ NoPairs(h, F)
  BY DEF HeapOK
<1>2. PICK F2 : /\ Sound(g, F2, U \ {c}) /\ NoPairs(g, F2) /\ SameArena(g, h)
                /\ SameSizes(g, h, U \ {c})
  BY <1>1, FreeSound
<1>3. \A u \in U : u \in Nat
  BY <1>1 DEF Sound, Lists, Placed, PlacedAt
<1>4. DOMAIN m = {PageSize + x : x \in U} /\ PageSize \in Nat
  BY PageAssumption DEF HeapOK
<1>5. DOMAIN m2 = {PageSize + x : x \in U \ {c}}
  BY <1>3, <1>4 DEF Took
<1>6. \A x \in U \ {c} : m2[PageSize + x] = m[PageSize + x]
  BY <1>3, <1>4 DEF Took
<1> HIDE DEF m2
<1>7. \A x \in U \ {c} : Serves(g, x, m2[PageSize + x])
  BY <1>2, <1>6 DEF HeapOK, Serves, SameSizes
<1>8. g.memory = PageSize /\ g.size = ArenaBytes - PageSize
  BY <1>2 DEF HeapOK, SameArena
<1>9. HeapOK(g, m2, F2, U \ {c})
  BY <1>2, <1>5, <1>7, <1>8 DEF HeapOK
<1> QED BY <1>4, <1>9 DEF m2

LEMMA AllocOK ==
    ASSUME NEW h, NEW m, NEW F, NEW U, HeapOK(h, m, F, U), NEW n, n \in Nat, n # 0,
           NEW x, x = FirstFree(h, {z \in DOMAIN h.blk : Fits(h, z, n)}), x # 0,
           NEW k, k = HeappSplit(h, x, n)
    PROVE  /\ PageSize + x \notin DOMAIN m
           /\ \E F2, U2 : HeapOK(k, Gave(m, PageSize + x, Asked(n, 1)), F2, U2)
<1>1. Sound(h, F, U) /\ NoPairs(h, F)
  BY DEF HeapOK
<1>2. x \in F /\ Fits(h, x, n)
  BY <1>1, FirstFreeIs
<1>3. NoPairsBut(h, F, x) /\ SameArena(h, h) /\ h.blk[x].size >= n /\ n >= 1
  BY <1>1, <1>2 DEF NoPairs, NoPairsBut, SameArena, Fits
<1>4. NotShorter(h, h, U)
  BY <1>1 DEF NotShorter, Sound, Lists, Placed, PlacedAt
<1>5. 1 \in Nat \ {0} /\ (PageSize + x) % 1 = 0
  BY <1>1, <1>2, PageAssumption DEF Sound, Lists, Placed, PlacedAt
<1>6. /\ PageSize + x \notin DOMAIN m
      /\ \E F2 : HeapOK(k, Gave(m, PageSize + x, Asked(n, 1)), F2, U \cup {x})
  BY <1>1, <1>2, <1>3, <1>4, <1>5, GiveOK
<1> QED BY <1>6

LEMMA CutAndGiveOK ==
    ASSUME NEW h, NEW m, NEW F, NEW U, HeapOK(h, m, F, U), NEW x \in F,
           NEW y, y \in Nat, NEW n, n \in Nat, n >= 1, x < y, h.blk[x].size >= y - x + n,
           NEW al \in Nat \ {0}, (PageSize + y) % al = 0,
           h.blk[x].pprev = 0 => y - x >= HDR + MINFREE,
           NEW g, g = HeappAlign(h, x, y), NEW k, k = HeappSplit(g, y, n)
    PROVE  /\ PageSize + y \notin DOMAIN m
           /\ \E F2, U2 : HeapOK(k, Gave(m, PageSize + y, Asked(n, al)), F2, U2)
<1>1. Sound(h, F, U) /\ NoPairs(h, F)
  BY DEF HeapOK
<1>2. PICK F1 :
         /\ Sound(g, F1, U) /\ y \in F1 /\ NoPairsBut(g, F1, y) /\ SameArena(g, h)
         /\ g.blk[y].size >= n
         /\ NotShorter(g, h, U)
  BY <1>1, AlignSound
<1>3. /\ PageSize + y \notin DOMAIN m
      /\ \E F2 : HeapOK(k, Gave(m, PageSize + y, Asked(n, al)), F2, U \cup {y})
  BY <1>2, GiveOK
<1> QED BY <1>3

LEMMA AllocAlignedOK ==
    ASSUME NEW h, NEW m, NEW F, NEW U, HeapOK(h, m, F, U), NEW n, n \in Nat, n # 0,
           NEW al \in Alignments, PowerOfTwo(al),
           NEW x \in F, FitsAligned(h, x, n, al),
           NEW y, y = AlignedOffset(h, x, al),
           NEW k, k = HeappSplit(HeappAlign(h, x, y), y, n)
    PROVE  /\ PageSize + y \notin DOMAIN m /\ (PageSize + y) % al = 0
           /\ \E F2, U2 : HeapOK(k, Gave(m, PageSize + y, Asked(n, al)), F2, U2)
<1>1. Sound(h, F, U)
  BY DEF HeapOK
<1> al \in Nat \ {0} /\ PageSize % al = 0
  BY RequestAssumption, AlignmentAssumption DEF PowerOfTwo
<1>2. x \in Nat /\ h.blk[x].size >= y - x + n /\ n >= 1
  BY <1>1 DEF FitsAligned, Sound, Lists, Placed, PlacedAt
<1>3. /\ y \in Nat /\ x < y /\ y % al = 0
      /\ h.blk[x].pprev = 0 => y - x >= HDR + MINFREE
  BY <1>2, AlignedOffsetIs
<1>4. (PageSize + y) % al = 0
  BY <1>3, SumIsAligned, PageAssumption
<1>5. /\ PageSize + y \notin DOMAIN m
      /\ \E F2, U2 : HeapOK(k, Gave(m, PageSize + y, Asked(n, al)), F2, U2)
  BY <1>2, <1>3, <1>4, CutAndGiveOK
<1> QED BY <1>4, <1>5

(* Where the allocations lie.                                              *)
LEMMA AllocationsAre ==
    ASSUME NEW h, NEW m, NEW F, NEW U, HeapOK(h, m, F, U), NEW p \in DOMAIN m
    PROVE  /\ p \in Nat /\ m[p].size \in Nat \ {0}
           /\ m[p].align \in Nat \ {0} /\ p % m[p].align = 0
           /\ p >= PageSize + HDR /\ p + m[p].size <= ArenaBytes
           /\ \A q \in DOMAIN m : p < q => p + m[p].size <= q
<1>1. PICK x \in U : p = PageSize + x
  BY DEF HeapOK
<1>2. /\ m[p].size \in Nat \ {0} /\ m[p].size <= h.blk[x].size
      /\ m[p].align \in Nat \ {0} /\ p % m[p].align = 0
      /\ h.size = ArenaBytes - PageSize
  BY <1>1 DEF HeapOK, Serves
<1>3. Sound(h, F, U)
  BY DEF HeapOK
<1>4. Placed(h) /\ U \subseteq DOMAIN h.blk
  BY <1>3 DEF Sound, Lists
<1>5. /\ x \in Nat /\ x >= HDR /\ h.blk[x].size \in Nat
      /\ x + h.blk[x].size <= h.size
  BY <1>4 DEF Placed, PlacedAt, START
<1>6. PageSize \in Nat /\ HDR \in Nat /\ ArenaBytes \in Nat
  BY PageAssumption, BlockAssumption, ArenaIs
<1>7. ASSUME NEW q \in DOMAIN m, p < q
      PROVE  p + m[p].size <= q
  <2>1. PICK z \in U : q = PageSize + z
    BY DEF HeapOK
  <2>2. z \in Nat
    BY <1>4 DEF Placed, PlacedAt
  <2>3. x < z
    BY <1>1, <1>5, <1>6, <1>7, <2>1, <2>2
  <2>4. x + h.blk[x].size + HDR <= z
    BY <1>4, <2>3 DEF Placed, Apart
  <2> QED BY <1>1, <1>2, <1>5, <1>6, <2>1, <2>2, <2>4
<1> QED BY <1>1, <1>2, <1>5, <1>6, <1>7
-----------------------------------------------------------------------------
(* The steps.  Each one keeps IInv, and is a step of the allocator that    *)
(* mem.h promises.                                                         *)
Kept == IInv' /\ [Promise!Next]_given

LEMMA ComesUp ==
    ASSUME mdl' \in FrameLists, mapped' \in BOOLEAN, Pages >= MinPages,
           NEW F, NEW U, HeapOK(heap', given', F, U)
    PROVE  IInv'
<1>1. Sound(heap', F, U)
  BY DEF HeapOK
<1>2. F = Blocks(heap', FREE) /\ U = Blocks(heap', USED)
  BY <1>1, BlocksAre
<1>3. DOMAIN heap' = HeapFields
  BY <1>1 DEF Sound, Lists, IsHeap
<1>4. heap' # <<>>
  <2>1. "size" \in DOMAIN heap'
    BY <1>3 DEF HeapFields
  <2>2. "size" \notin DOMAIN <<>>
    OBVIOUS
  <2> QED BY <2>1, <2>2
<1> QED BY <1>2, <1>4 DEF IInv, Down

LEMMA StaysOK ==
    ASSUME IInv, ~Down, mdl' = mdl, mapped' = mapped,
           NEW F, NEW U, HeapOK(heap', given', F, U)
    PROVE  IInv'
<1>1. mdl' \in FrameLists /\ mapped' \in BOOLEAN /\ Pages >= MinPages
  BY DEF IInv
<1> QED BY <1>1, ComesUp

LEMMA GiveIsAlloc ==
    ASSUME NEW F, NEW U, HeapOK(heap', given', F, U),
           NEW n \in Sizes, n # 0, NEW al, al = 1 \/ (al \in Alignments /\ PowerOfTwo(al)),
           NEW p, p \notin DOMAIN given, given' = Gave(given, p, Asked(n, al)), p % al = 0
    PROVE  Promise!Alloc
<1>1. /\ DOMAIN given' = DOMAIN given \cup {p} /\ given'[p] = Asked(n, al)
      /\ \A q \in DOMAIN given : given'[q] = given[q]
  BY DEF Gave
<1>2. /\ p \in Nat /\ n \in Nat \ {0}
      /\ p >= PageSize + HDR /\ p + n <= ArenaBytes
      /\ \A q \in DOMAIN given' : p < q => p + n <= q
  BY <1>1, AllocationsAre DEF Asked
<1>3. ASSUME NEW q \in DOMAIN given
      PROVE  Promise!Bytes(p, n) \cap Promise!Bytes(q, given[q].size) = {}
  <2>1. /\ q \in Nat /\ given[q].size \in Nat
        /\ q < p => q + given[q].size <= p
        /\ p < q => p + n <= q
        /\ q # p
    BY <1>1, <1>2, AllocationsAre
  <2> QED BY <1>2, <2>1 DEF Promise!Bytes
<1>4. PageSize \in Nat /\ HDR \in Nat /\ ArenaBytes \in Nat
  BY PageAssumption, BlockAssumption, ArenaIs
<1>5. /\ p \in PageSize + HDR .. ArenaBytes - 1
      /\ Promise!Bytes(p, n) \subseteq PageSize + HDR .. ArenaBytes - 1
  BY <1>2, <1>4 DEF Promise!Bytes
<1> QED BY <1>3, <1>5 DEF Promise!Alloc, Gave, Asked

LEMMA GiveKeeps ==
    ASSUME IInv, ~Down, mdl' = mdl, mapped' = mapped,
           \E F, U : HeapOK(heap', given', F, U),
           NEW n \in Sizes, n # 0, NEW al, al = 1 \/ (al \in Alignments /\ PowerOfTwo(al)),
           NEW p, p \notin DOMAIN given, given' = Gave(given, p, Asked(n, al)), p % al = 0
    PROVE  Kept
<1>1. PICK F, U : HeapOK(heap', given', F, U)
  OBVIOUS
<1>2. IInv'
  BY <1>1, StaysOK
<1>3. Promise!Alloc
  BY <1>1, GiveIsAlloc
<1> QED BY <1>2, <1>3 DEF Kept, Promise!Next

LEMMA HeapOKNow ==
    ASSUME IInv, ~Down
    PROVE  /\ HeapOK(heap, given, Blocks(heap, FREE), Blocks(heap, USED))
           /\ heap.memory = PageSize
BY DEF IInv, HeapOK

LEMMA MemAllocKeeps ==
    ASSUME IInv, NEW n \in Sizes, MemAlloc(n)
    PROVE  Kept
<1> DEFINE x == FirstFree(heap, {y \in DOMAIN heap.blk : Fits(heap, y, n)})
<1>1. /\ ~Down /\ n # 0 /\ x # 0
      /\ heap' = HeappSplit(heap, x, n)
      /\ mdl' = mdl /\ mapped' = mapped
  BY DEF MemAlloc, MayAsk
<1>2. given' = Gave(given, PageSize + x, Asked(n, 1))
  BY <1>1, HeapOKNow DEF MemAlloc, Give, Gave, POINTER
<1>3. n \in Nat
  BY RequestAssumption
<1> HIDE DEF x
<1>4. HeapOK(heap, given, Blocks(heap, FREE), Blocks(heap, USED))
  BY <1>1, HeapOKNow
<1>5. /\ PageSize + x \notin DOMAIN given
      /\ \E F, U : HeapOK(heap', given', F, U)
  BY <1>1, <1>2, <1>3, <1>4, AllocOK DEF x
<1>6. PageSize + x \in Nat
  <2>1. PageSize + x \in DOMAIN given'
    BY <1>2 DEF Gave
  <2> QED BY <1>5, <2>1, AllocationsAre
<1>7. (PageSize + x) % 1 = 0
  BY <1>6
<1> QED BY <1>1, <1>2, <1>5, <1>7, GiveKeeps

LEMMA MemAllocAlignedKeeps ==
    ASSUME IInv, NEW n \in Sizes, NEW al \in Alignments, MemAllocAligned(n, al)
    PROVE  Kept
<1> DEFINE x == FirstFree(heap, {z \in DOMAIN heap.blk : FitsAligned(heap, z, n, al)})
           y == AlignedOffset(heap, x, al)
<1>1. /\ ~Down /\ n # 0 /\ x # 0 /\ PowerOfTwo(al)
      /\ heap' = HeappSplit(HeappAlign(heap, x, y), y, n)
      /\ mdl' = mdl /\ mapped' = mapped
  BY DEF MemAllocAligned, MayAsk
<1>2. given' = Gave(given, PageSize + y, Asked(n, al))
  BY <1>1, HeapOKNow DEF MemAllocAligned, Give, Gave, POINTER
<1>3. n \in Nat /\ al \in Nat \ {0}
  BY <1>1, RequestAssumption DEF PowerOfTwo
<1>4. /\ HeapOK(heap, given, Blocks(heap, FREE), Blocks(heap, USED))
      /\ Sound(heap, Blocks(heap, FREE), Blocks(heap, USED))
      /\ y = AlignedOffset(heap, x, al)
  BY <1>1, HeapOKNow DEF HeapOK
<1>5. x \in Blocks(heap, FREE) /\ FitsAligned(heap, x, n, al)
  BY <1>1, <1>4, FirstFreeIs
<1> HIDE DEF x, y
<1>6. PowerOfTwo(al)
  BY <1>1
<1>7. n # 0 /\ heap' = HeappSplit(HeappAlign(heap, x, y), y, n)
  BY <1>1
<1> DEFINE given2 == Gave(given, PageSize + y, Asked(n, al))
<1>8. /\ PageSize + y \notin DOMAIN given /\ (PageSize + y) % al = 0
      /\ \E F, U : HeapOK(heap', given2, F, U)
  BY <1>3, <1>4, <1>5, <1>6, <1>7, AllocAlignedOK
<1>9. /\ PageSize + y \notin DOMAIN given /\ (PageSize + y) % al = 0
      /\ \E F, U : HeapOK(heap', given', F, U)
  BY <1>2, <1>8
<1> QED BY <1>1, <1>2, <1>9, GiveKeeps

LEMMA TakeKeeps ==
    ASSUME IInv, ~Down, mdl' = mdl, mapped' = mapped,
           NEW c \in Blocks(heap, USED), heap' = HeappFree(heap, c), TakeBack(PageSize + c)
    PROVE  Kept
<1>1. HeapOK(heap, given, Blocks(heap, FREE), Blocks(heap, USED))
  BY HeapOKNow
<1>2. given' = Took(given, PageSize + c)
  BY DEF TakeBack, Took
<1>3. /\ PageSize + c \in DOMAIN given
      /\ \E F : HeapOK(heap', given', F, Blocks(heap, USED) \ {c})
  BY <1>1, <1>2, TakeOK
<1>4. IInv'
  BY <1>3, StaysOK
<1>5. Promise!Free
  BY <1>2, <1>3 DEF Promise!Free, Took
<1> QED BY <1>4, <1>5 DEF Kept, Promise!Next

LEMMA MemFreeKeeps ==
    ASSUME IInv, NEW p \in DOMAIN given, MemFree(p)
    PROVE  Kept
<1>1. ~Down /\ heap' = HeappFree(heap, p - PageSize) /\ TakeBack(p)
      /\ mdl' = mdl /\ mapped' = mapped
  BY HeapOKNow DEF MemFree, OFFSET
<1>2. HeapOK(heap, given, Blocks(heap, FREE), Blocks(heap, USED))
  BY <1>1, HeapOKNow
<1>3. PICK c \in Blocks(heap, USED) : p = PageSize + c
  BY <1>2 DEF HeapOK
<1>4. c \in Nat /\ PageSize \in Nat
  <2>1. Sound(heap, Blocks(heap, FREE), Blocks(heap, USED))
    BY <1>2 DEF HeapOK
  <2> QED BY <2>1, PageAssumption DEF Sound, Lists, Placed, PlacedAt
<1>5. p - PageSize = c
  BY <1>3, <1>4
<1> QED BY <1>1, <1>3, <1>5, TakeKeeps

LEMMA MemFreeSecureKeeps ==
    ASSUME IInv, NEW p, MemFreeSecure(p)
    PROVE  Kept
<1> DEFINE y == FirstOn(heap, "usedList", Around(heap, OFFSET(heap, p)))
<1>1. /\ ~Down /\ y # 0 /\ heap' = HeappFree(heap, y) /\ TakeBack(POINTER(heap, y))
      /\ mdl' = mdl /\ mapped' = mapped
  BY DEF MemFreeSecure
<1>2. HeapOK(heap, given, Blocks(heap, FREE), Blocks(heap, USED))
  BY <1>1, HeapOKNow
<1>3. y \in Blocks(heap, USED)
  <2>1. Sound(heap, Blocks(heap, FREE), Blocks(heap, USED))
    BY <1>2 DEF HeapOK
  <2> QED BY <1>1, <2>1, FirstUsedIs
<1> HIDE DEF y
<1>4. TakeBack(PageSize + y)
  BY <1>1, HeapOKNow DEF POINTER
<1> QED BY <1>1, <1>3, <1>4, TakeKeeps

LEMMA MemInitKeeps ==
    ASSUME IInv, MemInit
    PROVE  Kept
<1>1. CASE UNCHANGED vars
  BY <1>1 DEF vars, Kept, IInv, Down
<1>2. CASE /\ Pages >= MinPages
           /\ mdl' \in FrameLists
           /\ mapped' = TRUE
           /\ heap' = HeapCreate
           /\ given' = <<>>
  <2>1. HeapOK(heap', given', {START}, {})
    BY <1>2, CreateOK
  <2>2. IInv'
    BY <1>2, <2>1, ComesUp
  <2> QED BY <1>2, <2>2 DEF Kept, Promise!Next, Promise!Reset
<1> QED BY <1>1, <1>2 DEF MemInit

LEMMA NextKeeps ==
    ASSUME IInv, [Next]_vars
    PROVE  Kept
<1>1. CASE MemInit
  BY <1>1, MemInitKeeps
<1>2. CASE MemDone
  BY <1>2 DEF MemDone, IInv, Down, Kept, Promise!Next, Promise!Reset
<1>3. ASSUME NEW n \in Sizes, MemAlloc(n) PROVE Kept
  BY <1>3, MemAllocKeeps
<1>4. ASSUME NEW n \in Sizes, NEW al \in Alignments, MemAllocAligned(n, al) PROVE Kept
  BY <1>4, MemAllocAlignedKeeps
<1>5. ASSUME NEW p \in DOMAIN given, MemFree(p) PROVE Kept
  BY <1>5, MemFreeKeeps
<1>6. ASSUME NEW p, MemFreeSecure(p) PROVE Kept
  BY <1>6, MemFreeSecureKeeps
<1>7. CASE UNCHANGED vars
  BY <1>7 DEF vars, Kept, IInv, Down
<1>8. ASSUME NEW n \in Sizes, NEW al \in Alignments, MemAllocFails(n, al) PROVE Kept
  BY <1>7, <1>8 DEF MemAllocFails
<1> QED BY <1>1, <1>2, <1>3, <1>4, <1>5, <1>6, <1>7, <1>8 DEF Next

LEMMA InitOK ==
    ASSUME Init
    PROVE  IInv
BY DEF Init, IInv, Down

LEMMA IInvAlways == Spec => []IInv
<1>1. IInv /\ [Next]_vars => IInv'
  BY NextKeeps DEF Kept
<1> QED BY <1>1, InitOK, PTL DEF Spec
-----------------------------------------------------------------------------
LEMMA SoundIsTiled ==
    ASSUME IInv, ~Down
    PROVE  TypeOK /\ Tiled
<1> DEFINE F == Blocks(heap, FREE)
           U == Blocks(heap, USED)
<1>1. Sound(heap, F, U)
  BY DEF IInv, HeapOK
<1> HIDE DEF F, U
<1>2. /\ Live = F \cup U /\ Placed(heap)
      /\ OnList(heap, heap.freeList, F) /\ OnList(heap, heap.usedList, U)
      /\ \A x \in F : heap.blk[x].state = FREE
      /\ \A x \in U : heap.blk[x].state = USED
  BY <1>1 DEF Live, Sound, Lists
<1>3. heap.size \in Nat /\ HDR \in Nat /\ START \in Nat /\ START \in Live
  BY <1>2, BlockAssumption DEF Placed, Live, START
<1>4. ASSUME NEW x \in Live
      PROVE  /\ x \in START .. heap.size
             /\ heap.blk[x].state \in {FREE, USED}
             /\ heap.blk[x].size \in 0 .. heap.size
             /\ {heap.blk[x].pprev, heap.blk[x].pnext, heap.blk[x].vprev, heap.blk[x].vnext}
                  \subseteq Live \cup {0}
  <2>1. PlacedAt(heap, x)
    BY <1>2 DEF Placed, Live
  <2>2. x \in START .. heap.size /\ heap.blk[x].size \in 0 .. heap.size
    BY <1>3, <2>1 DEF PlacedAt
  <2>3. heap.blk[x].pprev \in Live \cup {0} /\ heap.blk[x].pnext \in Live \cup {0}
    BY <2>1 DEF PlacedAt, Live
  <2>4. heap.blk[x].vprev \in Live \cup {0} /\ heap.blk[x].vnext \in Live \cup {0}
    BY <1>2 DEF OnList
  <2> QED BY <1>2, <2>2, <2>3, <2>4
<1>5. {heap.freeList, heap.usedList} \subseteq Live \cup {0}
  BY <1>2 DEF OnList
<1>6. TypeOK
  BY <1>3, <1>4, <1>5 DEF TypeOK, IInv
<1>7. Tiled
  <2>1. \A x \in Live : PlacedAt(heap, x)
    BY <1>2 DEF Placed, Live
  <2> QED BY <2>1 DEF Tiled, PlacedAt
<1> QED BY <1>6, <1>7

LEMMA SoundIsCoalesced ==
    ASSUME IInv, ~Down
    PROVE  Coalesced
<1> DEFINE F == Blocks(heap, FREE)
           U == Blocks(heap, USED)
<1>1. Sound(heap, F, U) /\ NoPairs(heap, F) /\ DOMAIN given = {PageSize + x : x \in U}
  BY DEF IInv, HeapOK
<1>2. \A x \in Live : ~(IsFree(heap, x) /\ IsFree(heap, heap.blk[x].pnext))
  <2> SUFFICES ASSUME NEW x \in Live, IsFree(heap, x), IsFree(heap, heap.blk[x].pnext)
               PROVE  FALSE
    OBVIOUS
  <2>1. heap.blk[x].pnext \in DOMAIN heap.blk
    BY <1>1, NextIsBehind DEF Sound, Live, IsFree
  <2>2. x \in F /\ heap.blk[x].pnext \in F
    BY <2>1 DEF IsFree, Blocks, Live
  <2> QED BY <1>1, <2>2 DEF NoPairs
<1>3. ASSUME given = <<>>
      PROVE  Live = {START}
  <2> HIDE DEF F, U
  <2>1. U = {}
    BY <1>1, <1>3
  <2>2. Live = F /\ Placed(heap)
    BY <1>1, <2>1 DEF Live, Sound, Lists
  <2>3. START \in Live
    BY <2>2 DEF Placed, Live
  <2>4. heap.blk[START].pnext = 0
    BY <1>1, <2>2, <2>3, NextIsBehind, BlockAssumption DEF NoPairs, Live
  <2>5. START + heap.blk[START].size = heap.size
    <3>1. PlacedAt(heap, START)
      BY <2>2, <2>3 DEF Placed, Live
    <3> QED BY <2>4, <3>1, BlockAssumption DEF PlacedAt
  <2>6. ASSUME NEW y \in Live
        PROVE  y = START
    <3>1. PlacedAt(heap, y)
      BY <2>2 DEF Placed, Live
    <3>2. START < y => START + heap.blk[START].size + HDR <= y
      BY <2>2, <2>3 DEF Placed, Apart, Live
    <3>3. heap.blk[START].size \in Nat /\ heap.size \in Nat
      BY <2>2, <2>3, NextIsBehind DEF Placed, Live
    <3> QED BY <2>5, <3>1, <3>2, <3>3, BlockAssumption DEF PlacedAt, START
  <2> QED BY <2>3, <2>6
<1> QED BY <1>2, <1>3 DEF Coalesced

LEMMA SoundIsSorted ==
    ASSUME IInv, ~Down
    PROVE  ListsSorted
<1> DEFINE F == Blocks(heap, FREE)
           U == Blocks(heap, USED)
<1>1. /\ Sound(heap, F, U) /\ heap.memory = PageSize
      /\ DOMAIN given = {PageSize + x : x \in U}
  BY DEF IInv, HeapOK
<1>2. {POINTER(heap, x) : x \in U} = DOMAIN given
  BY <1>1 DEF POINTER
<1>3. /\ OnList(heap, heap["freeList"], F) /\ Reaches(heap, heap["freeList"], F)
      /\ OnList(heap, heap["usedList"], U) /\ Reaches(heap, heap["usedList"], U)
  BY <1>1 DEF Sound, Lists
<1>4. /\ IsFiniteSet(F) /\ IsFiniteSet(U)
      /\ F \subseteq DOMAIN heap.blk /\ U \subseteq DOMAIN heap.blk
      /\ 0 \notin F /\ 0 \notin U
  BY <1>1, BlocksAreFew
<1>5. /\ Live = F \cup U
      /\ \A x \in F : heap.blk[x].state = FREE
      /\ \A x \in U : heap.blk[x].state = USED
  BY <1>1 DEF Live, Sound, Lists
<1> HIDE DEF F, U
<1>6. LooksAt(heap, "freeList", {}) = F \cup {0}
  BY <1>3, <1>4, SearchSeesAll
<1>7. LooksAt(heap, "usedList", {}) = U \cup {0}
  BY <1>3, <1>4, SearchSeesAll
<1>8. ASSUME NEW x \in Live
      PROVE  LET b == heap.blk[x]
                 head == IF b.state = FREE THEN heap.freeList ELSE heap.usedList
             IN  /\ b.vprev = 0 <=> x = head
                 /\ b.vprev # 0 => /\ heap.blk[b.vprev].vnext = x
                                   /\ heap.blk[b.vprev].state = b.state
                 /\ b.vnext # 0 => heap.blk[b.vnext].vprev = x
  <2>1. CASE x \in F
    BY <1>3, <1>5, <2>1 DEF OnList, FREE, USED
  <2>2. CASE x \in U
    BY <1>3, <1>5, <2>2 DEF OnList, FREE, USED
  <2> QED BY <1>5, <2>1, <2>2
<1> QED BY <1>2, <1>6, <1>7, <1>8 DEF ListsSorted, F, U

(* HeapAlloc, HeapAllocAligned, HeapFree and HeapFreeSecure (mem.c:402-622)*)
(* in any order, on an arena of any size: the blocks tile the heap, no two *)
(* free ones are neighbours, both lists are linked both ways and a search  *)
(* of them ends and misses no block, and exactly the allocations are used. *)
THEOREM HeapIsSound == Spec => []HeapSound
<1>1. IInv => HeapSound
  <2> SUFFICES ASSUME IInv PROVE HeapSound
    OBVIOUS
  <2>1. CASE Down
    BY <2>1 DEF HeapSound, TypeOK, Tiled, Coalesced, ListsSorted, IInv
  <2>2. CASE ~Down
    BY <2>2, SoundIsTiled, SoundIsCoalesced, SoundIsSorted DEF HeapSound
  <2> QED BY <2>1, <2>2
<1> QED BY <1>1, IInvAlways, PTL

(* HeapCreate (mem.c:376): whatever frames the system found, what is asked *)
(* for with the alignment of a page and is at most a page long lies in one *)
(* frame, so that the physical address given to the processor is good for  *)
(* all of it.                                                              *)
THEOREM RegionsAreContiguous == Spec => []RegionsContiguous
<1>1. IInv => RegionsContiguous
  <2> SUFFICES ASSUME IInv, NEW p \in DOMAIN given,
                      given[p].size <= PageSize, given[p].align = PageSize
               PROVE  /\ \A i \in 0 .. given[p].size - 1 :
                            VirtualToPhysical(p + i) = VirtualToPhysical(p) + i
                      /\ PhysicalToVirtual(VirtualToPhysical(p)) = p
    BY DEF RegionsContiguous
  <2>1. ~Down
    BY DEF IInv
  <2>2. HeapOK(heap, given, Blocks(heap, FREE), Blocks(heap, USED)) /\ heap.memory = PageSize
    BY <2>1, HeapOKNow
  <2>3. /\ p \in Nat /\ given[p].size \in Nat \ {0} /\ p >= PageSize + HDR
        /\ p + given[p].size <= ArenaBytes
    BY <2>2, AllocationsAre
  <2>4. /\ PageSize \in Nat \ {0} /\ Pages \in Nat /\ HDR \in Nat /\ ArenaBytes \in Nat
        /\ mdl \in [0 .. Pages - 1 -> Nat]
        /\ \A i, j \in 0 .. Pages - 1 : mdl[i] = mdl[j] => i = j
    BY <2>1, PageAssumption, BlockAssumption, FrameAssumption, ArenaIs DEF IInv
  <2>5. p % PageSize = 0
    BY <2>2, AllocationsAre
  <2>6. PICK j \in Nat : Multiple(p, j, PageSize)
    BY <2>3, <2>4, <2>5, AlignedIsMultiple
  <2>7. j \in 0 .. Pages - 1
    <3> SUFFICES ASSUME Pages <= j PROVE FALSE
      BY <2>4
    <3>1. Pages * PageSize <= j * PageSize
      BY <2>4, ProductGrows
    <3> QED BY <2>3, <2>4, <2>6, <3>1 DEF ArenaBytes, Multiple
  <2> DEFINE b == mdl[j] * PageSize
  <2>8. mdl[j] \in Nat /\ b \in Nat
    BY <2>4, <2>7, ProductGrows
  <2>9. ASSUME NEW i \in 0 .. given[p].size - 1
        PROVE  VirtualToPhysical(p + i) = b + i
    <3>1. p + i \in 0 .. ArenaBytes - 1 /\ i \in Nat /\ i < PageSize
      BY <2>3, <2>4
    <3>2. (p + i) \div PageSize = j /\ (p + i) % PageSize = i
      BY <2>3, <2>4, <2>6, <3>1, PlaceInPage
    <3> QED BY <3>1, <3>2 DEF VirtualToPhysical
  <2>10. VirtualToPhysical(p) = b
    <3>1. 0 \in 0 .. given[p].size - 1 /\ p + 0 = p
      BY <2>3
    <3> QED BY <2>8, <2>9, <3>1
  <2>11. b \div PageSize = mdl[j] /\ b % PageSize = 0
    <3>1. Multiple(b, mdl[j], PageSize)
      BY DEF Multiple
    <3> HIDE DEF b
    <3>2. (b + 0) \div PageSize = mdl[j] /\ (b + 0) % PageSize = 0
      BY <2>4, <2>8, <3>1, PlaceInPage
    <3> QED BY <2>8, <3>2
  <2> HIDE DEF b
  <2>12. PhysicalToVirtual(b) = p
    <3> DEFINE hits == {i \in 0 .. Pages - 1 : mdl[i] = b \div PageSize}
    <3>1. hits = {j}
      BY <2>4, <2>7, <2>11
    <3>2. (CHOOSE i \in hits : \A k \in hits : i <= k) = j
      BY <2>6, <3>1
    <3>3. hits # {}
      BY <3>1
    <3>4. PhysicalToVirtual(b) =
            (CHOOSE i \in hits : \A k \in hits : i <= k) * PageSize + (b % PageSize)
      BY <3>3 DEF PhysicalToVirtual
    <3> HIDE DEF hits
    <3>5. PhysicalToVirtual(b) = j * PageSize + 0
      BY <2>11, <3>2, <3>4
    <3> QED BY <2>3, <2>6, <3>5 DEF Multiple
  <2> QED BY <2>9, <2>10, <2>12
<1> QED BY <1>1, IInvAlways, PTL

(* mem.c implements the allocator that mem.h promises, on an arena of any  *)
(* size: what MemAlloc and MemAllocAligned hand out is inside the heap,    *)
(* aligned as asked for, long enough and shares no byte with what is still *)
(* in use.                                                                 *)
THEOREM HeapIsAllocator == Spec => ImplementsAllocator
<1>1. Init => Promise!Init
  BY DEF Init, Promise!Init
<1>2. IInv /\ [Next]_vars => [Promise!Next]_given
  BY NextKeeps DEF Kept
<1> QED BY <1>1, <1>2, IInvAlways, PTL DEF Spec, ImplementsAllocator, Promise!Spec

(* HeapAlloc and HeapAllocAligned (mem.c:402-524): first fit gives up, and *)
(* the caller is handed NULL, only when no free block fits the request.    *)
RefusedWhenNothingFits ==
    ~Down => \A n \in Sizes, al \in Alignments :
        /\ FirstFree(heap, {y \in Live : Fits(heap, y, n)}) = 0 =>
             \A x \in Blocks(heap, FREE) : ~Fits(heap, x, n)
        /\ FirstFree(heap, {y \in Live : FitsAligned(heap, y, n, al)}) = 0 =>
             \A x \in Blocks(heap, FREE) : ~FitsAligned(heap, x, n, al)

(* Whatever was allocated and freed before, a request that is refused is   *)
(* refused because no free block is long enough for it.                    *)
THEOREM RefusalsAreReal == Spec => []RefusedWhenNothingFits
<1>1. IInv => RefusedWhenNothingFits
  <2> SUFFICES ASSUME IInv, ~Down PROVE RefusedWhenNothingFits
    BY DEF RefusedWhenNothingFits
  <2> DEFINE F == Blocks(heap, FREE)
             U == Blocks(heap, USED)
  <2>1. Sound(heap, F, U)
    BY DEF IInv, HeapOK
  <2>2. /\ IsFiniteSet(F) /\ F \subseteq DOMAIN heap.blk /\ 0 \notin F
        /\ OnList(heap, heap["freeList"], F) /\ Reaches(heap, heap["freeList"], F)
        /\ 0 \notin Live
    BY <2>1, BlocksAreFew DEF Sound, Lists, Live
  <2>3. ASSUME NEW P \in SUBSET Live, FirstFree(heap, P) = 0
        PROVE  F \cap P = {}
    <3> HIDE DEF F
    <3> QED BY <2>2, <2>3, SearchFinds DEF FirstFree
  <2>4. F \subseteq Live
    BY DEF Blocks, Live
  <2> HIDE DEF F
  <2>5. ASSUME NEW n \in Sizes, FirstFree(heap, {y \in Live : Fits(heap, y, n)}) = 0
        PROVE  \A x \in F : ~Fits(heap, x, n)
    <3>1. F \cap {y \in Live : Fits(heap, y, n)} = {}
      BY <2>3, <2>5
    <3> QED BY <2>4, <3>1
  <2>6. ASSUME NEW n \in Sizes, NEW al \in Alignments,
               FirstFree(heap, {y \in Live : FitsAligned(heap, y, n, al)}) = 0
        PROVE  \A x \in F : ~FitsAligned(heap, x, n, al)
    <3>1. F \cap {y \in Live : FitsAligned(heap, y, n, al)} = {}
      BY <2>3, <2>6
    <3> QED BY <2>4, <3>1
  <2> QED BY <2>5, <2>6 DEF RefusedWhenNothingFits, F
<1> QED BY <1>1, IInvAlways, PTL

(* HeapFreeSecure (mem.c:567-622) searches the used list for the block     *)
(* around the pointer: from any byte of an allocation it finds that one.   *)
SecureFreeFindsOwner ==
    \A p \in DOMAIN given : \A i \in 0 .. given[p].size - 1 :
        /\ HeappContains(heap, p + i)
        /\ FirstOn(heap, "usedList", Around(heap, OFFSET(heap, p + i))) = OFFSET(heap, p)

(* MemFreeSecure of a pointer to any byte of an allocation is never        *)
(* dropped and never frees the memory of somebody else.                    *)
THEOREM SecureFreesTheOwner == Spec => []SecureFreeFindsOwner
<1>1. IInv => SecureFreeFindsOwner
  <2> SUFFICES ASSUME IInv, NEW p \in DOMAIN given, NEW i \in 0 .. given[p].size - 1
               PROVE  /\ HeappContains(heap, p + i)
                      /\ FirstOn(heap, "usedList", Around(heap, OFFSET(heap, p + i)))
                           = OFFSET(heap, p)
    BY DEF SecureFreeFindsOwner
  <2> DEFINE F == Blocks(heap, FREE)
             U == Blocks(heap, USED)
  <2>1. ~Down
    BY DEF IInv
  <2>2. HeapOK(heap, given, F, U) /\ heap.memory = PageSize
    BY <2>1, HeapOKNow
  <2> HIDE DEF F, U
  <2>3. Sound(heap, F, U) /\ heap.size = ArenaBytes - PageSize
    BY <2>2 DEF HeapOK
  <2>4. /\ p \in Nat /\ given[p].size \in Nat \ {0}
        /\ p >= PageSize + HDR /\ p + given[p].size <= ArenaBytes
    BY <2>2, AllocationsAre
  <2>5. PICK c \in U : p = PageSize + c
    BY <2>2 DEF HeapOK
  <2>6. given[p].size <= heap.blk[c].size
    BY <2>2, <2>5 DEF HeapOK, Serves
  <2>7. Placed(heap) /\ U \subseteq DOMAIN heap.blk
    BY <2>3 DEF Sound, Lists
  <2>8. c \in Nat /\ heap.blk[c].size \in Nat /\ PageSize \in Nat /\ HDR \in Nat /\ ArenaBytes \in Nat
    BY <2>7, NextIsBehind, PageAssumption, BlockAssumption, ArenaIs
  <2>9. HeappContains(heap, p + i)
    BY <2>2, <2>3, <2>4, <2>8 DEF HeappContains
  <2>10. OFFSET(heap, p) = c /\ OFFSET(heap, p + i) = c + i
    BY <2>2, <2>5, <2>8 DEF OFFSET
  <2> DEFINE A == Around(heap, c + i)
  <2>11. c \in A
    BY <2>4, <2>6, <2>7, <2>8 DEF Around
  <2>12. ASSUME NEW y \in A PROVE y = c
    <3>1. /\ y \in DOMAIN heap.blk /\ c \in DOMAIN heap.blk
          /\ c + i >= y /\ c + i < y + heap.blk[y].size
      BY <2>7 DEF Around
    <3>2. y \in Nat /\ heap.blk[y].size \in Nat
      BY <2>7, <3>1, NextIsBehind
    <3>3. /\ y < c => y + heap.blk[y].size + HDR <= c
          /\ c < y => c + heap.blk[c].size + HDR <= y
      BY <2>7, <3>1 DEF Placed, Apart
    <3> QED BY <2>4, <2>6, <2>8, <3>1, <3>2, <3>3
  <2> HIDE DEF A
  <2>13. FirstOn(heap, "usedList", A) \in (U \cap A) \cup {0}
    BY <2>3, FirstUsedIs
  <2>14. FirstOn(heap, "usedList", A) # 0
    <3> SUFFICES ASSUME FirstOn(heap, "usedList", A) = 0 PROVE FALSE
      OBVIOUS
    <3>1. /\ IsFiniteSet(U) /\ U \subseteq DOMAIN heap.blk /\ 0 \notin U
      BY <2>3, BlocksAreFew
    <3>2. OnList(heap, heap["usedList"], U) /\ Reaches(heap, heap["usedList"], U)
      BY <2>3 DEF Sound, Lists
    <3>3. 0 \notin A
      BY <2>5, <2>12, <3>1
    <3>4. U \cap A = {}
      BY <3>1, <3>2, <3>3, SearchFinds
    <3> QED BY <2>5, <2>11, <3>4
  <2>15. FirstOn(heap, "usedList", A) = c
    BY <2>12, <2>13, <2>14
  <2> QED BY <2>9, <2>10, <2>15 DEF A
<1> QED BY <1>1, IInvAlways, PTL
=============================================================================
