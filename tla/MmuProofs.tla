----------------------------- MODULE MmuProofs ------------------------------
(***************************************************************************)
(* Proofs about Mmu, for every number of processors and slots, every depth *)
(* and width of the page tables, and whatever the guest writes in its own. *)
(*                                                                         *)
(* The inductive invariant is in two parts.  Inv says of every processor   *)
(* which of its slots are in use, and of every phase of the set-up what is *)
(* mapped; it rests on where a pointer of MmuAddressToPte leads as long as *)
(* nothing but entries of slots and of the guest has been written (Built,  *)
(* PointerFixed).  GuestInv says what a walk has found so far and what an  *)
(* exit has read, and that no TLB has a page the tables do not have.       *)
(***************************************************************************)
EXTENDS Mmu, WellFoundedInduction, SequenceTheorems, TLAPS

(* A set of numbers has a least one.                                       *)
LEMMA Least ==
    ASSUME NEW S, S \subseteq Nat, S # {}
    PROVE  \E y \in S : \A z \in S : y <= z
<1>1. PICK y \in S : \A z \in S : ~ (<<z, y>> \in OpToRel(<, Nat))
  BY NatLessThanWellFounded, WFMin
<1>2. \A z \in S : ~ (z < y)
  BY <1>1 DEF OpToRel
<1> QED BY <1>2

-----------------------------------------------------------------------------
(* Products, quotients and remainders.                                     *)
LEMMA ProductGrows ==
    ASSUME NEW a \in Nat, NEW b \in Nat, NEW c \in Nat, a <= b
    PROVE  a * c \in Nat /\ b * c \in Nat /\ a * c <= b * c
OBVIOUS

LEMMA ProductDistributes ==
    ASSUME NEW a \in Int, NEW b \in Int, NEW c \in Int
    PROVE  (a + b) * c = a * c + b * c
OBVIOUS

LEMMA ProductAssociates ==
    ASSUME NEW a \in Int, NEW b \in Int, NEW c \in Int
    PROVE  (a * b) * c = a * (b * c)
OBVIOUS

LEMMA QuotientAndRest ==
    ASSUME NEW i \in Nat, NEW c \in Nat \ {0}
    PROVE  /\ i \div c \in Nat /\ i % c \in 0 .. (c - 1)
           /\ i = (i \div c) * c + (i % c)
OBVIOUS

LEMMA Divided ==
    ASSUME NEW i \in Nat, NEW c \in Nat \ {0}
    PROVE  \E q, r \in Nat : r < c /\ i = q * c + r /\ q = i \div c /\ r = i % c
<1>1. i \div c \in Nat /\ i % c \in Nat /\ i % c < c /\ i = (i \div c) * c + (i % c)
  BY QuotientAndRest
<1> WITNESS i \div c \in Nat, i % c \in Nat
<1> QED BY <1>1

(* A number has one quotient and one rest.                                 *)
LEMMA QuotientIsUnique ==
    ASSUME NEW m \in Nat, NEW c \in Nat \ {0}, NEW r \in Nat, r < c
    PROVE  m * c + r \in Nat /\ (m * c + r) \div c = m /\ (m * c + r) % c = r
<1>1. m * c \in Nat
  BY ProductGrows
<1>2. PICK i : i = m * c + r /\ i \in Nat
  BY <1>1
<1>3. PICK d, e \in Nat : e < c /\ i = d * c + e /\ d = i \div c /\ e = i % c
  BY <1>2, Divided
<1>4. d * c \in Nat
  BY <1>3, ProductGrows
<1>5. ~ (d + 1 <= m)
  <2> SUFFICES ASSUME d + 1 <= m PROVE FALSE
    OBVIOUS
  <2>1. (d + 1) * c <= m * c
    BY <1>3, ProductGrows
  <2>2. (d + 1) * c = d * c + 1 * c
    BY <1>3, ProductDistributes
  <2> QED BY <1>1, <1>2, <1>3, <1>4, <2>1, <2>2
<1>6. ~ (m + 1 <= d)
  <2> SUFFICES ASSUME m + 1 <= d PROVE FALSE
    OBVIOUS
  <2>1. (m + 1) * c <= d * c
    BY <1>3, ProductGrows
  <2>2. (m + 1) * c = m * c + 1 * c
    BY ProductDistributes
  <2> QED BY <1>1, <1>2, <1>3, <1>4, <2>1, <2>2
<1>7. d = m
  BY <1>3, <1>5, <1>6
<1>8. e = r
  BY <1>1, <1>2, <1>3, <1>7
<1> QED BY <1>2, <1>3, <1>7, <1>8

(* A multiple is added.                                                    *)
LEMMA MultipleAdded ==
    ASSUME NEW j \in Nat, NEW v \in Nat, NEW d \in Nat \ {0}
    PROVE  j * d + v \in Nat /\ (j * d + v) \div d = j + (v \div d) /\ (j * d + v) % d = v % d
<1>1. PICK q, r \in Nat : r < d /\ v = q * d + r /\ q = v \div d /\ r = v % d
  BY Divided
<1>2. (j + q) * d = j * d + q * d /\ j * d \in Nat /\ q * d \in Nat
  BY <1>1, ProductDistributes, ProductGrows
<1>3. j * d + v = (j + q) * d + r
  BY <1>1, <1>2
<1>4. /\ (j + q) * d + r \in Nat /\ ((j + q) * d + r) \div d = j + q
      /\ ((j + q) * d + r) % d = r
  <2>1. j + q \in Nat /\ r \in Nat /\ r < d
    BY <1>1
  <2> QED BY <2>1, QuotientIsUnique
<1> QED BY <1>1, <1>3, <1>4

(* Dividing twice.                                                         *)
LEMMA QuotientOfQuotient ==
    ASSUME NEW v \in Nat, NEW a \in Nat \ {0}, NEW b \in Nat \ {0}
    PROVE  a * b \in Nat \ {0} /\ (v \div a) \div b = v \div (a * b)
<1>1. PICK q, r \in Nat : r < a /\ v = q * a + r /\ q = v \div a /\ r = v % a
  BY Divided
<1>2. PICK p, t \in Nat : t < b /\ q = p * b + t /\ p = q \div b /\ t = q % b
  BY Divided
<1>3. a * b = b * a /\ a * b \in Nat /\ 1 * b <= a * b
  BY ProductGrows
<1>4. q * a = (p * b) * a + t * a /\ (p * b) * a = p * (b * a) /\ p * b \in Nat
  BY <1>2, ProductDistributes, ProductAssociates, ProductGrows
<1>5. t * a \in Nat /\ (t + 1) * a <= b * a /\ (t + 1) * a = t * a + 1 * a
  <2>1. t \in Nat /\ t + 1 \in Nat /\ t + 1 <= b
    BY <1>2
  <2> QED BY <2>1, ProductGrows, ProductDistributes
<1>6. t * a + r \in Nat /\ t * a + r < a * b
  BY <1>1, <1>3, <1>5
<1>7. v = p * (a * b) + (t * a + r)
  BY <1>1, <1>3, <1>4, <1>5, <1>2
<1>8. (p * (a * b) + (t * a + r)) \div (a * b) = p
  <2>1. PICK c : c = a * b /\ c \in Nat \ {0}
    BY <1>3
  <2>2. PICK s : s = t * a + r /\ s \in Nat /\ s < c
    BY <1>6, <2>1
  <2>3. (p * c + s) \div c = p
    BY <1>2, <2>1, <2>2, QuotientIsUnique
  <2> QED BY <2>1, <2>2, <2>3
<1>9. v \div (a * b) = p
  BY <1>7, <1>8
<1>10. (v \div a) \div b = p
  BY <1>1, <1>2
<1>11. a * b # 0
  BY <1>3
<1> QED BY <1>3, <1>9, <1>10, <1>11

-----------------------------------------------------------------------------
(* The tables.                                                             *)
(* The page that a table leads to.                                         *)
Below(m, page, l, va) == IF page \notin DOMAIN m THEN ZeroPte ELSE m[page][MmuAddressToPti(l, va)]

(* T is the path down to level k.                                          *)
Down(m, cr3, va, T, k) ==
    T = [l \in k .. Levels |-> IF l = Levels THEN cr3 ELSE Below(m, T[l + 1], l + 1, va)]

LEMMA DownExists ==
    ASSUME NEW m, NEW cr3, NEW va
    PROVE  \E T : Down(m, cr3, va, T, 0)
<1>1. Levels \in Nat /\ Levels # 0
  BY TableAssumption
<1> DEFINE S == {k \in 0 .. Levels : ~\E T : Down(m, cr3, va, T, Levels - k)}
<1>2. SUFFICES S = {}
  BY <1>1
<1> SUFFICES ASSUME S # {} PROVE FALSE
  OBVIOUS
<1>3. PICK k \in S : \A j \in S : k <= j
  <2>1. S \subseteq Nat
    OBVIOUS
  <2> HIDE DEF S
  <2> QED BY <2>1, Least
<1>4. k # 0
  <2>1. Down(m, cr3, va, [l \in Levels .. Levels |-> cr3], Levels)
    BY <1>1 DEF Down
  <2> SUFFICES ASSUME k = 0 PROVE FALSE
    OBVIOUS
  <2>2. Levels - k = Levels
    BY <1>1
  <2> QED BY <1>3, <2>1, <2>2
<1>5. k \in 1 .. Levels /\ k - 1 \in 0 .. Levels /\ k - 1 \notin S
  BY <1>1, <1>3, <1>4
<1>6. PICK T : Down(m, cr3, va, T, Levels - (k - 1))
  BY <1>5
<1>7. PICK a : a \in 0 .. Levels - 1 /\ a = Levels - k /\ a + 1 = Levels - (k - 1)
  BY <1>1, <1>5
<1> DEFINE U == [l \in a .. Levels |-> IF l = a THEN Below(m, T[a + 1], a + 1, va) ELSE T[l]]
<1>8. \A l \in a + 1 .. Levels : T[l] = IF l = Levels THEN cr3 ELSE Below(m, T[l + 1], l + 1, va)
  BY <1>6, <1>7 DEF Down
<1>9. \A l \in a .. Levels : U[l] = IF l = Levels THEN cr3 ELSE Below(m, U[l + 1], l + 1, va)
  <2> SUFFICES ASSUME NEW l \in a .. Levels PROVE U[l] = IF l = Levels THEN cr3 ELSE Below(m, U[l + 1], l + 1, va)
    OBVIOUS
  <2>1. CASE l = a
    <3>1. U[a] = Below(m, T[a + 1], a + 1, va) /\ U[a + 1] = T[a + 1] /\ a # Levels
      BY <1>1, <1>7
    <3> QED BY <2>1, <3>1
  <2>2. CASE l # a
    <3>1. l \in a + 1 .. Levels /\ U[l] = T[l] /\ (l # Levels => U[l + 1] = T[l + 1])
      BY <1>1, <1>7, <2>2
    <3> QED BY <1>8, <3>1
  <2> QED BY <2>1, <2>2
<1>10. Down(m, cr3, va, U, a)
  <2>1. U = [l \in a .. Levels |-> U[l]]
    OBVIOUS
  <2> HIDE DEF U
  <2> QED BY <1>9, <2>1 DEF Down
<1> QED BY <1>3, <1>7, <1>10

LEMMA PathIs ==
    ASSUME NEW m, NEW cr3, NEW va
    PROVE  Down(m, cr3, va, Path(m, cr3, va), 0)
<1> DEFINE T == CHOOSE T : Down(m, cr3, va, T, 0)
<1>1. Down(m, cr3, va, T, 0)
  BY DownExists
<1>2. Path(m, cr3, va) = T
  BY DEF Path, Down, Below
<1> QED BY <1>1, <1>2

-----------------------------------------------------------------------------
(* The spans: S satisfies the recursion up to k.                           *)
Up(S, k) == S = [l \in 0 .. k |-> IF l = 0 THEN 1 ELSE Entries * S[l - 1]]

LEMMA UpExists == \E S : Up(S, Levels)
<1>1. Levels \in Nat /\ Entries \in Nat
  BY TableAssumption
<1> DEFINE B == {k \in 0 .. Levels : ~\E S : Up(S, k)}
<1>2. SUFFICES B = {}
  BY <1>1
<1> SUFFICES ASSUME B # {} PROVE FALSE
  OBVIOUS
<1>3. PICK k \in B : \A j \in B : k <= j
  <2>1. B \subseteq Nat
    OBVIOUS
  <2> HIDE DEF B
  <2> QED BY <2>1, Least
<1>4. k # 0
  <2>1. Up([l \in 0 .. 0 |-> 1], 0)
    BY DEF Up
  <2> QED BY <1>3, <2>1
<1>5. k \in 1 .. Levels /\ k - 1 \in 0 .. Levels /\ k - 1 \notin B
  BY <1>1, <1>3, <1>4
<1>6. PICK S : Up(S, k - 1)
  BY <1>5
<1> DEFINE U == [l \in 0 .. k |-> IF l = k THEN Entries * S[k - 1] ELSE S[l]]
<1>8. \A l \in 0 .. k - 1 : S[l] = IF l = 0 THEN 1 ELSE Entries * S[l - 1]
  BY <1>6 DEF Up
<1>9. \A l \in 0 .. k : U[l] = IF l = 0 THEN 1 ELSE Entries * U[l - 1]
  <2> SUFFICES ASSUME NEW l \in 0 .. k PROVE U[l] = IF l = 0 THEN 1 ELSE Entries * U[l - 1]
    OBVIOUS
  <2>1. CASE l = k
    <3>1. U[k] = Entries * S[k - 1] /\ U[k - 1] = S[k - 1]
      BY <1>5
    <3> QED BY <1>5, <2>1, <3>1
  <2>2. CASE l # k
    <3>1. l \in 0 .. k - 1 /\ U[l] = S[l] /\ (l # 0 => U[l - 1] = S[l - 1])
      BY <1>5, <2>2
    <3> QED BY <1>8, <3>1
  <2> QED BY <2>1, <2>2
<1>10. Up(U, k)
  <2>1. U = [l \in 0 .. k |-> U[l]]
    OBVIOUS
  <2> HIDE DEF U
  <2> QED BY <1>9, <2>1 DEF Up
<1> QED BY <1>3, <1>10

LEMMA SpanIs == Up(Span, Levels)
<1> DEFINE S == CHOOSE S : Up(S, Levels)
<1>1. Up(S, Levels)
  BY UpExists
<1>2. Span = S
  BY DEF Span, Up
<1> QED BY <1>1, <1>2

LEMMA SpanSteps ==
    /\ Span[0] = 1
    /\ \A l \in 1 .. Levels : Span[l] = Entries * Span[l - 1]
<1>1. Levels \in Nat
  BY TableAssumption
<1> QED BY <1>1, SpanIs DEF Up

LEMMA SpanStep ==
    ASSUME NEW l \in 1 .. Levels
    PROVE  Span[l] = Entries * Span[l - 1]
BY SpanSteps

LEMMA SpanPositive ==
    ASSUME NEW l \in 0 .. Levels
    PROVE  Span[l] \in Nat \ {0}
<1>1. Levels \in Nat /\ Entries \in Nat /\ Entries # 0
  BY TableAssumption
<1> DEFINE B == {k \in 0 .. Levels : Span[k] \notin Nat \ {0}}
<1>2. SUFFICES B = {}
  OBVIOUS
<1> SUFFICES ASSUME B # {} PROVE FALSE
  OBVIOUS
<1>3. PICK k \in B : \A j \in B : k <= j
  <2>1. B \subseteq Nat
    OBVIOUS
  <2> HIDE DEF B
  <2> QED BY <2>1, Least
<1>4. k # 0
  BY <1>3, SpanSteps
<1>5. k \in 1 .. Levels /\ k - 1 \in 0 .. Levels /\ k - 1 \notin B
  BY <1>1, <1>3, <1>4
<1>6. Span[k - 1] \in Nat \ {0}
  BY <1>5
<1>7. Span[k] = Entries * Span[k - 1]
  BY <1>5, SpanStep
<1>8. Entries * Span[k - 1] \in Nat \ {0}
  <2>1. PICK a : a = Span[k - 1] /\ a \in Nat \ {0}
    BY <1>6
  <2>2. Entries * a \in Nat /\ 1 * a <= Entries * a
    BY <1>1, <2>1, ProductGrows
  <2> QED BY <2>1, <2>2
<1> QED BY <1>3, <1>7, <1>8

(* A span divides the larger ones.                                         *)
LEMMA SpanDivides ==
    ASSUME NEW l \in 0 .. Levels
    PROVE  \E k \in Nat : Span[Levels] = k * Span[l]
<1>1. Levels \in Nat /\ Entries \in Nat
  BY TableAssumption
<1> DEFINE B == {j \in 0 .. Levels : ~\E k \in Nat : Span[Levels] = k * Span[Levels - j]}
<1>2. SUFFICES B = {}
  <2>1. Levels - l \in 0 .. Levels /\ Levels - (Levels - l) = l
    BY <1>1
  <2>2. Levels - l \notin B
    BY <1>2
  <2> QED BY <2>1, <2>2
<1> SUFFICES ASSUME B # {} PROVE FALSE
  OBVIOUS
<1>3. PICK j \in B : \A i \in B : j <= i
  <2>1. B \subseteq Nat
    OBVIOUS
  <2> HIDE DEF B
  <2> QED BY <2>1, Least
<1>4. j # 0
  <2>1. Span[Levels] = 1 * Span[Levels - 0]
    BY <1>1, SpanPositive
  <2> QED BY <1>3, <2>1
<1>5. j \in 1 .. Levels /\ j - 1 \in 0 .. Levels /\ j - 1 \notin B
  BY <1>1, <1>3, <1>4
<1>6. PICK k \in Nat : Span[Levels] = k * Span[Levels - (j - 1)]
  BY <1>5
<1>7. PICK a : a = Levels - j /\ a \in 0 .. Levels - 1 /\ a + 1 = Levels - (j - 1)
  BY <1>1, <1>5
<1>8. Span[a + 1] = Entries * Span[a]
  <2>1. PICK b : b \in 1 .. Levels /\ b = a + 1 /\ b - 1 = a
    BY <1>1, <1>7
  <2>2. Span[b] = Entries * Span[b - 1]
    BY <2>1, SpanStep
  <2> QED BY <2>1, <2>2
<1>9. Span[Levels] = (k * Entries) * Span[a] /\ k * Entries \in Nat
  <2>1. PICK s : s = Span[a] /\ s \in Nat
    BY <1>1, <1>7, SpanPositive
  <2>2. (k * Entries) * s = k * (Entries * s) /\ k * Entries \in Nat
    BY <1>1, <2>1, ProductAssociates, ProductGrows
  <2> QED BY <1>6, <1>7, <1>8, <2>1, <2>2
<1>10. \E d \in Nat : Span[Levels] = d * Span[Levels - j]
  <2>1. k * Entries \in Nat
    BY <1>9
  <2> WITNESS k * Entries \in Nat
  <2> QED BY <1>7, <1>9
<1> QED BY <1>3, <1>10

-----------------------------------------------------------------------------
(* The self map.  The digits of a number below a multiple of a higher one. *)
Multiple(s, e, a) == \E k \in Nat : s = k * (e * a)

SameDigit(t, s, r, a, e) == ((t * s + r) \div a) % e = (r \div a) % e

LEMMA LowDigit ==
    ASSUME NEW t \in Nat, NEW s \in Nat, NEW e \in Nat \ {0}, NEW a \in Nat \ {0}, NEW r \in Nat,
           Multiple(s, e, a)
    PROVE  SameDigit(t, s, r, a, e)
<1>1. PICK d : d = r \div a /\ d \in Nat
  BY Divided
<1>k. PICK k \in Nat : s = k * (e * a)
  BY DEF Multiple
<1>2. PICK i : i = t * k /\ i \in Nat
  BY ProductGrows
<1>3. PICK j : j = i * e /\ j \in Nat
  BY <1>2, ProductGrows
<1>4. t * s = j * a
  <2>1. e * a \in Nat
    BY ProductGrows
  <2>2. PICK b : b = e * a /\ b \in Nat
    BY <2>1
  <2>3. (t * k) * b = t * (k * b)
    BY <2>2, ProductAssociates
  <2>4. (i * e) * a = i * (e * a)
    BY <1>2, ProductAssociates
  <2> QED BY <1>k, <1>2, <1>3, <2>2, <2>3, <2>4
<1>5. (j * a + r) \div a = j + d
  BY <1>1, <1>3, MultipleAdded
<1>6. (i * e + d) % e = d % e
  BY <1>1, <1>2, MultipleAdded
<1> QED BY <1>1, <1>3, <1>4, <1>5, <1>6 DEF SameDigit

LEMMA SelfMapTop ==
    ASSUME NEW va \in Nat
    PROVE  MmuAddressToPte(va) \in Nat /\ MmuAddressToPti(Levels, MmuAddressToPte(va)) = SelfMap
<1>1. Levels \in Nat /\ Entries \in Nat /\ Entries # 0 /\ SelfMap \in Nat /\ SelfMap < Entries
  BY TableAssumption
<1>2. PICK s : s = Span[Levels] /\ s \in Nat \ {0}
  BY <1>1, SpanPositive
<1>3. PICK n : n = va \div Entries /\ n \in Nat
  BY <1>1, Divided
<1>4. PICK r \in Nat : r < s /\ r = n % s
  BY <1>2, <1>3, Divided
<1>5. MmuAddressToPte(va) = SelfMap * s + r
  BY <1>2, <1>3, <1>4 DEF MmuAddressToPte, LowerBound
<1>6. SelfMap * s + r \in Nat /\ (SelfMap * s + r) \div s = SelfMap
  BY <1>1, <1>2, <1>4, QuotientIsUnique
<1>7. SelfMap % Entries = SelfMap
  BY <1>1
<1> QED BY <1>2, <1>5, <1>6, <1>7 DEF MmuAddressToPti

LEMMA SelfMapDown ==
    ASSUME NEW va \in Nat, NEW l \in 0 .. Levels - 1
    PROVE  MmuAddressToPti(l, MmuAddressToPte(va)) = MmuAddressToPti(l + 1, va)
<1>1. Levels \in Nat /\ Entries \in Nat \ {0} /\ SelfMap \in Nat
  BY TableAssumption
<1>2. PICK s : s = Span[Levels] /\ s \in Nat \ {0}
  BY <1>1, SpanPositive
<1>3. PICK a : a = Span[l] /\ a \in Nat \ {0}
  BY <1>1, SpanPositive
<1>4. Span[l + 1] = Entries * a
  <2>1. PICK b : b \in 1 .. Levels /\ b = l + 1 /\ b - 1 = l
    BY <1>1
  <2>2. Span[b] = Entries * Span[b - 1]
    BY <2>1, SpanStep
  <2> QED BY <1>3, <2>1, <2>2
<1>5. Multiple(s, Entries, a)
  <2>1. l + 1 \in 0 .. Levels
    BY <1>1
  <2>2. \E k \in Nat : Span[Levels] = k * Span[l + 1]
    BY <2>1, SpanDivides
  <2> QED BY <1>2, <1>4, <2>2 DEF Multiple
<1>6. PICK n : n = va \div Entries /\ n \in Nat
  BY <1>1, Divided
<1>7. PICK q, r \in Nat : r < s /\ n = q * s + r /\ q = n \div s /\ r = n % s
  BY <1>2, <1>6, Divided
<1>8. MmuAddressToPte(va) = SelfMap * s + r
  BY <1>2, <1>6, <1>7 DEF MmuAddressToPte, LowerBound
<1>e. PICK e : e = Entries /\ e \in Nat \ {0}
  BY <1>1
<1>t. PICK t : t = SelfMap /\ t \in Nat
  BY <1>1
<1>m. Multiple(s, e, a)
  BY <1>5, <1>e
<1>9. SameDigit(t, s, r, a, e) /\ SameDigit(q, s, r, a, e)
  BY <1>e, <1>t, <1>2, <1>3, <1>m, LowDigit
<1>11. (va \div Entries) \div a = va \div (Entries * a)
  BY <1>1, <1>3, QuotientOfQuotient
<1> QED BY <1>3, <1>4, <1>6, <1>7, <1>8, <1>e, <1>t, <1>9, <1>11 DEF SameDigit, MmuAddressToPti

LEMMA SelfMapOffset ==
    ASSUME NEW va \in Nat
    PROVE  Offset(MmuAddressToPte(va)) = MmuAddressToPti(1, va)
<1>1. Levels \in Nat /\ Levels # 0
  BY TableAssumption
<1>2. PICK p : p = MmuAddressToPte(va) /\ p \in Nat
  BY SelfMapTop
<1>3. p \div Span[0] = p
  BY <1>2, SpanSteps
<1>4. MmuAddressToPti(0, MmuAddressToPte(va)) = MmuAddressToPti(0 + 1, va)
  BY <1>1, SelfMapDown
<1> QED BY <1>2, <1>3, <1>4 DEF Offset, MmuAddressToPti

LEMMA IndexInTable ==
    ASSUME NEW va \in Nat, NEW l \in 0 .. Levels
    PROVE  MmuAddressToPti(l, va) \in 0 .. Entries - 1
<1>1. Levels \in Nat /\ Entries \in Nat \ {0}
  BY TableAssumption
<1>2. PICK a : a = Span[l] /\ a \in Nat \ {0}
  BY SpanPositive
<1>3. PICK n : n = va \div a /\ n \in Nat
  BY <1>2, Divided
<1>4. n % Entries \in 0 .. Entries - 1
  BY <1>1, <1>3, QuotientAndRest
<1> QED BY <1>2, <1>3, <1>4 DEF MmuAddressToPti

-----------------------------------------------------------------------------
LEMMA PathTop ==
    ASSUME NEW m, NEW cr3, NEW va
    PROVE  Path(m, cr3, va)[Levels] = cr3
<1>1. Levels \in Nat
  BY TableAssumption
<1>2. PICK T : T = Path(m, cr3, va)
  OBVIOUS
<1>3. Down(m, cr3, va, T, 0)
  BY <1>2, PathIs
<1> QED BY <1>1, <1>2, <1>3 DEF Down

LEMMA PathStep ==
    ASSUME NEW m, NEW cr3, NEW va, NEW l \in 0 .. Levels - 1
    PROVE  Path(m, cr3, va)[l] = Below(m, Path(m, cr3, va)[l + 1], l + 1, va)
<1>1. Levels \in Nat
  BY TableAssumption
<1>2. PICK T : T = Path(m, cr3, va)
  OBVIOUS
<1>3. Down(m, cr3, va, T, 0)
  BY <1>2, PathIs
<1>4. T[l] = Below(m, T[l + 1], l + 1, va)
  <2>1. l \in 0 .. Levels /\ l # Levels
    BY <1>1
  <2> QED BY <1>3, <2>1 DEF Down
<1> QED BY <1>2, <1>4

(* A descent is a level ahead of another one.                              *)
Same(T, U, j) == T[Levels - 1 - j] = U[Levels - j]

(* The translation of an entry's address stops a level above the page's.   *)
LEMMA SelfMapPath ==
    ASSUME NEW m, NEW va \in Nat, NEW l \in 0 .. Levels - 1,
           HostCr3 \in DOMAIN m, m[HostCr3][SelfMap] = HostCr3
    PROVE  Path(m, HostCr3, MmuAddressToPte(va))[l] = Path(m, HostCr3, va)[l + 1]
<1>1. Levels \in Nat /\ Levels # 0
  BY TableAssumption
<1>2. PICK T : T = Path(m, HostCr3, MmuAddressToPte(va))
  OBVIOUS
<1>3. PICK U : U = Path(m, HostCr3, va)
  OBVIOUS
<1> DEFINE B == {j \in 0 .. Levels - 1 : ~Same(T, U, j)}
<1>4. SUFFICES B = {}
  <2>1. Levels - 1 - l \in 0 .. Levels - 1 /\ Levels - 1 - (Levels - 1 - l) = l
        /\ Levels - (Levels - 1 - l) = l + 1
    BY <1>1
  <2>2. Same(T, U, Levels - 1 - l)
    BY <1>4, <2>1
  <2> QED BY <1>2, <1>3, <2>1, <2>2 DEF Same
<1> SUFFICES ASSUME B # {} PROVE FALSE
  OBVIOUS
<1>5. PICK j \in B : \A i \in B : j <= i
  <2>1. B \subseteq Nat
    BY <1>1
  <2> HIDE DEF B
  <2> QED BY <2>1, Least
<1>6. T[Levels] = HostCr3 /\ U[Levels] = HostCr3
  BY <1>2, <1>3, PathTop
<1>7. PICK a : a = Levels - 1 - j /\ a \in 0 .. Levels - 1 /\ a + 1 = Levels - j
  BY <1>1, <1>5
<1>8. T[a] = Below(m, T[a + 1], a + 1, MmuAddressToPte(va))
  BY <1>2, <1>7, PathStep
<1>9. CASE j = 0
  <2>1. a + 1 = Levels
    BY <1>1, <1>7, <1>9
  <2>2. MmuAddressToPti(Levels, MmuAddressToPte(va)) = SelfMap
    BY SelfMapTop
  <2>3. T[a] = HostCr3
    BY <1>6, <1>8, <2>1, <2>2 DEF Below
  <2> QED BY <1>5, <1>6, <1>7, <2>1, <2>3 DEF Same
<1>10. CASE j # 0
  <2>1. j - 1 \in 0 .. Levels - 1 /\ j - 1 \notin B
    BY <1>1, <1>5, <1>10
  <2>2. Levels - 1 - (j - 1) = a + 1 /\ Levels - (j - 1) = a + 1 + 1 /\ a + 1 \in 0 .. Levels - 1
    BY <1>1, <1>5, <1>7, <1>10
  <2>3. T[a + 1] = U[a + 1 + 1]
    BY <2>1, <2>2 DEF Same
  <2>4. PICK b : b = a + 1 /\ b \in 0 .. Levels - 1
    BY <2>2
  <2>5. MmuAddressToPti(b, MmuAddressToPte(va)) = MmuAddressToPti(b + 1, va)
    BY <2>4, SelfMapDown
  <2>6. U[b] = Below(m, U[b + 1], b + 1, va)
    BY <1>3, <2>4, PathStep
  <2>7. T[a] = U[b]
    BY <1>8, <2>3, <2>4, <2>5, <2>6 DEF Below
  <2> QED BY <1>5, <1>7, <2>4, <2>7 DEF Same
<1> QED BY <1>9, <1>10

LEMMA PointerIs ==
    ASSUME NEW m, NEW va \in Nat, HostCr3 \in DOMAIN m, m[HostCr3][SelfMap] = HostCr3
    PROVE  Pointer(m, va) = <<Path(m, HostCr3, va)[1], MmuAddressToPti(1, va)>>
<1>1. 0 \in 0 .. Levels - 1 /\ 0 + 1 = 1
  BY TableAssumption
<1>2. Path(m, HostCr3, MmuAddressToPte(va))[0] = Path(m, HostCr3, va)[0 + 1]
  BY <1>1, SelfMapPath
<1> QED BY <1>1, <1>2, SelfMapOffset DEF Pointer, Translate

-----------------------------------------------------------------------------
(* Memory in which only entries of the slots and of the guest differ from  *)
(* what the system has built.                                              *)
Built(m) ==
    /\ DOMAIN m = DOMAIN Memory
    /\ m = [p \in DOMAIN Memory |-> m[p]]
    /\ \A p \in DOMAIN Memory : m[p] = [i \in 0 .. Entries - 1 |-> m[p][i]]
    /\ \A p \in DOMAIN Memory, i \in 0 .. Entries - 1 :
          m[p][i] \in EntryValues(p, i) \/ <<p, i>> \in SlotEntries

LEMMA BuiltOff ==
    ASSUME NEW m, Built(m), NEW p \in DOMAIN Memory, NEW i \in 0 .. Entries - 1
    PROVE  m[p][i] = Memory[p][i] \/ <<p, i>> \in SlotEntries \cup GuestEntries
<1>1. m[p][i] \in EntryValues(p, i) \/ <<p, i>> \in SlotEntries
  BY DEF Built
<1>2. ASSUME NEW r \in Remaps, r[1] = p, r[2] = i PROVE <<p, i>> \in GuestEntries
  BY <1>2, Zenon DEF GuestEntries
<1> QED BY <1>1, <1>2 DEF EntryValues

LEMMA MemoryBuilt == Built(Memory)
<1>1. Memory \in [DOMAIN Memory -> [0 .. Entries - 1 -> Int]]
  BY TableAssumption
<1> QED BY <1>1 DEF Built, EntryValues

LEMMA SlotVaIs ==
    ASSUME NEW va \in SlotVas
    PROVE  va \in Nat /\ va # 0
<1>1. PICK c \in Cpus, s \in Slots : va = SlotVa[c][s]
  BY DEF SlotVas
<1>2. SlotVa[c][s] \in Nat \ {0}
  BY SlotAssumption
<1> QED BY <1>1, <1>2

LEMMA BuiltSelfMap ==
    ASSUME NEW m, Built(m)
    PROVE  HostCr3 \in DOMAIN m /\ m[HostCr3][SelfMap] = HostCr3
<1>1. HostCr3 \in DOMAIN Memory /\ SelfMap \in 0 .. Entries - 1
  BY TableAssumption
<1>2. <<HostCr3, SelfMap>> \notin SlotEntries \cup GuestEntries
  BY PagesAssumption
<1>3. Memory[HostCr3][SelfMap] = HostCr3
  BY SelfMapAssumption
<1>4. DOMAIN m = DOMAIN Memory
  BY DEF Built
<1> QED BY <1>1, <1>2, <1>3, <1>4, BuiltOff

LEMMA BuiltBelow ==
    ASSUME NEW m, Built(m), NEW va \in SlotVas, NEW l \in 2 .. Levels,
           NEW p, EntryAt(va, l) = <<p, MmuAddressToPti(l, va)>>
    PROVE  Below(m, p, l, va) = Below(Memory, p, l, va)
<1>1. EntryAt(va, l) \notin SlotEntries \cup GuestEntries
  BY PagesAssumption
<1>2. MmuAddressToPti(l, va) \in 0 .. Entries - 1
  <2>1. l \in 0 .. Levels /\ va \in Nat
    BY TableAssumption, SlotVaIs
  <2> QED BY <2>1, IndexInTable
<1>3. PICK i : i = MmuAddressToPti(l, va) /\ i \in 0 .. Entries - 1
  BY <1>2
<1>4. <<p, i>> \notin SlotEntries \cup GuestEntries
  BY <1>1, <1>3
<1>5. p \in DOMAIN Memory => m[p][i] = Memory[p][i]
  BY <1>3, <1>4, BuiltOff
<1>6. DOMAIN m = DOMAIN Memory
  BY DEF Built
<1> QED BY <1>3, <1>5, <1>6 DEF Below

SameTop(T, U, j) == T[Levels - j] = U[Levels - j]

(* The tables that lead to a slot's page stay.                             *)
LEMMA BuiltPath ==
    ASSUME NEW m, Built(m), NEW va \in SlotVas, NEW l \in 1 .. Levels
    PROVE  Path(m, HostCr3, va)[l] = Path(Memory, HostCr3, va)[l]
<1>1. Levels \in Nat /\ Levels # 0
  BY TableAssumption
<1>2. PICK T : T = Path(m, HostCr3, va)
  OBVIOUS
<1>3. PICK U : U = Path(Memory, HostCr3, va)
  OBVIOUS
<1> DEFINE B == {j \in 0 .. Levels - 1 : ~SameTop(T, U, j)}
<1>4. SUFFICES B = {}
  <2>1. Levels - l \in 0 .. Levels - 1 /\ Levels - (Levels - l) = l
    BY <1>1
  <2>2. SameTop(T, U, Levels - l)
    BY <1>4, <2>1
  <2> QED BY <1>2, <1>3, <2>1, <2>2 DEF SameTop
<1> SUFFICES ASSUME B # {} PROVE FALSE
  OBVIOUS
<1>5. PICK j \in B : \A i \in B : j <= i
  <2>1. B \subseteq Nat
    BY <1>1
  <2> HIDE DEF B
  <2> QED BY <2>1, Least
<1>6. T[Levels] = HostCr3 /\ U[Levels] = HostCr3
  BY <1>2, <1>3, PathTop
<1>7. j # 0
  <2>1. SameTop(T, U, 0)
    BY <1>1, <1>6 DEF SameTop
  <2> QED BY <1>5, <2>1
<1>8. j - 1 \in 0 .. Levels - 1 /\ j - 1 \notin B
  BY <1>1, <1>5, <1>7
<1>9. PICK a : a = Levels - j /\ a \in 0 .. Levels - 1 /\ a + 1 = Levels - (j - 1) /\ a + 1 \in 2 .. Levels
  BY <1>1, <1>5, <1>7
<1>10. T[a + 1] = U[a + 1]
  BY <1>8, <1>9 DEF SameTop
<1>11. T[a] = Below(m, T[a + 1], a + 1, va)
  BY <1>2, <1>9, PathStep
<1>12. U[a] = Below(Memory, U[a + 1], a + 1, va)
  BY <1>3, <1>9, PathStep
<1>13. Below(m, U[a + 1], a + 1, va) = Below(Memory, U[a + 1], a + 1, va)
  <2>1. EntryAt(va, a + 1) = <<U[a + 1], MmuAddressToPti(a + 1, va)>>
    BY <1>3 DEF EntryAt
  <2> QED BY <1>9, <2>1, BuiltBelow
<1> QED BY <1>5, <1>9, <1>10, <1>11, <1>12, <1>13 DEF SameTop

LEMMA EntryShape ==
    ASSUME NEW va \in SlotVas
    PROVE  /\ EntryAt(va, 1) = <<EntryAt(va, 1)[1], EntryAt(va, 1)[2]>>
           /\ EntryAt(va, 1)[1] \in DOMAIN Memory
           /\ EntryAt(va, 1)[2] \in 0 .. Entries - 1
           /\ EntryAt(va, 1) \in SlotEntries
           /\ EntryAt(va, 1) \notin GuestEntries
<1>1. EntryAt(va, 1)[1] \in DOMAIN Memory /\ SlotEntries \cap GuestEntries = {}
  BY PagesAssumption
<1>2. EntryAt(va, 1) \in SlotEntries
  BY DEF SlotEntries
<1>3. MmuAddressToPti(1, va) \in 0 .. Entries - 1
  <2>1. 1 \in 0 .. Levels /\ va \in Nat
    BY TableAssumption, SlotVaIs
  <2> QED BY <2>1, IndexInTable
<1> QED BY <1>1, <1>2, <1>3 DEF EntryAt

LEMMA PointerFixed ==
    ASSUME NEW m, Built(m), NEW va \in SlotVas
    PROVE  Pointer(m, va) = EntryAt(va, 1)
<1>1. Pointer(m, va) = <<Path(m, HostCr3, va)[1], MmuAddressToPti(1, va)>>
  BY BuiltSelfMap, SlotVaIs, PointerIs
<1>2. Path(m, HostCr3, va)[1] = Path(Memory, HostCr3, va)[1]
  <2>1. 1 \in 1 .. Levels
    BY TableAssumption
  <2> QED BY <2>1, BuiltPath
<1> QED BY <1>1, <1>2 DEF EntryAt

LEMMA PteIs ==
    ASSUME NEW m, Built(m), NEW va \in SlotVas
    PROVE  Pte(m, va) = m[EntryAt(va, 1)[1]][EntryAt(va, 1)[2]]
<1>1. Pointer(m, va) = EntryAt(va, 1)
  BY PointerFixed
<1>2. EntryAt(va, 1)[1] \in DOMAIN m
  BY EntryShape DEF Built
<1> QED BY <1>1, <1>2 DEF Pte, Entry

(* Memories that differ in entries of slots.                               *)
Agree(m, n) ==
    \A p \in DOMAIN Memory, i \in 0 .. Entries - 1 : <<p, i>> \notin SlotEntries => n[p][i] = m[p][i]

(* What a write of the entry for va does.                                  *)
Written(m, n, va, pte) ==
    /\ Built(n) /\ Agree(m, n)
    /\ Pte(n, va) = pte
    /\ \A w \in SlotVas : w # va => Pte(n, w) = Pte(m, w)

LEMMA StoreFacts ==
    ASSUME NEW m, Built(m), NEW va \in SlotVas, NEW pte
    PROVE  Written(m, Store(m, va, pte), va, pte)
<1>1. PICK p : p = EntryAt(va, 1)[1] /\ p \in DOMAIN Memory
  BY EntryShape
<1>2. PICK i : i = EntryAt(va, 1)[2] /\ i \in 0 .. Entries - 1
  BY EntryShape
<1>3. EntryAt(va, 1) = <<p, i>> /\ <<p, i>> \in SlotEntries
  BY <1>1, <1>2, EntryShape
<1>4. PICK n : n = Store(m, va, pte)
  OBVIOUS
<1>5. n = [m EXCEPT ![p][i] = pte]
  <2>1. Pointer(m, va) = EntryAt(va, 1)
    BY PointerFixed
  <2>2. Pointer(m, va)[1] = p /\ Pointer(m, va)[2] = i
    BY <1>3, <2>1
  <2> QED BY <1>4, <2>2 DEF Store
<1>6. /\ DOMAIN m = DOMAIN Memory
      /\ m = [q \in DOMAIN Memory |-> m[q]]
      /\ \A q \in DOMAIN Memory : m[q] = [j \in 0 .. Entries - 1 |-> m[q][j]]
  BY DEF Built
<1>7. /\ DOMAIN n = DOMAIN Memory
      /\ n = [q \in DOMAIN Memory |-> n[q]]
      /\ \A q \in DOMAIN Memory : q # p => n[q] = m[q]
      /\ n[p] = [m[p] EXCEPT ![i] = pte]
  BY <1>1, <1>5, <1>6
<1>8. DOMAIN m[p] = 0 .. Entries - 1
  BY <1>1, <1>6
<1>9. /\ n[p] = [j \in 0 .. Entries - 1 |-> n[p][j]]
      /\ n[p][i] = pte
      /\ \A j \in 0 .. Entries - 1 : j # i => n[p][j] = m[p][j]
  BY <1>2, <1>7, <1>8
<1>10. \A q \in DOMAIN Memory, j \in 0 .. Entries - 1 :
          n[q][j] \in EntryValues(q, j) \/ <<q, j>> \in SlotEntries
  <2> SUFFICES ASSUME NEW q \in DOMAIN Memory, NEW j \in 0 .. Entries - 1
               PROVE  n[q][j] \in EntryValues(q, j) \/ <<q, j>> \in SlotEntries
    OBVIOUS
  <2>1. CASE q = p /\ j = i
    BY <1>3, <2>1
  <2>2. CASE ~(q = p /\ j = i)
    <3>1. n[q][j] = m[q][j]
      BY <1>7, <1>9, <2>2
    <3>2. m[q][j] \in EntryValues(q, j) \/ <<q, j>> \in SlotEntries
      BY DEF Built
    <3> QED BY <3>1, <3>2
  <2> QED BY <2>1, <2>2
<1>11. \A q \in DOMAIN Memory : n[q] = [j \in 0 .. Entries - 1 |-> n[q][j]]
  BY <1>6, <1>7, <1>9
<1>12. Built(n)
  BY <1>7, <1>10, <1>11 DEF Built
<1>13. Pte(n, va) = pte
  BY <1>1, <1>2, <1>9, <1>12, PteIs
<1>14. ASSUME NEW w \in SlotVas, w # va PROVE Pte(n, w) = Pte(m, w)
  <2>1. PICK q : q = EntryAt(w, 1)[1] /\ q \in DOMAIN Memory
    BY EntryShape
  <2>2. PICK j : j = EntryAt(w, 1)[2] /\ j \in 0 .. Entries - 1
    BY EntryShape
  <2>3. EntryAt(w, 1) = <<q, j>>
    BY <2>1, <2>2, EntryShape
  <2>4. <<q, j>> # <<p, i>>
    BY <1>3, <1>14, <2>3, PagesAssumption
  <2>5. n[q][j] = m[q][j]
    BY <1>7, <1>9, <2>1, <2>2, <2>4
  <2>6. Pte(n, w) = n[q][j] /\ Pte(m, w) = m[q][j]
    BY <1>12, <2>1, <2>2, PteIs
  <2> QED BY <2>5, <2>6
<1>15. Agree(m, n)
  <2> SUFFICES ASSUME NEW q \in DOMAIN Memory, NEW j \in 0 .. Entries - 1, <<q, j>> \notin SlotEntries
               PROVE  n[q][j] = m[q][j]
    BY DEF Agree
  <2>1. ~(q = p /\ j = i)
    BY <1>3
  <2> QED BY <1>7, <1>9, <2>1
<1> QED BY <1>4, <1>12, <1>13, <1>14, <1>15 DEF Written

(* What a write of the guest does.                                         *)
LEMMA RemapFacts ==
    ASSUME NEW m, Built(m), NEW r \in Remaps
    PROVE  /\ Built([m EXCEPT ![r[1]][r[2]] = r[3]])
           /\ \A w \in SlotVas : Pte([m EXCEPT ![r[1]][r[2]] = r[3]], w) = Pte(m, w)
<1>1. PICK n : n = [m EXCEPT ![r[1]][r[2]] = r[3]]
  OBVIOUS
<1>2. PICK p : p = r[1]
  OBVIOUS
<1>3. PICK i : i = r[2]
  OBVIOUS
<1>4. <<p, i>> \in GuestEntries
  <2>1. <<r[1], r[2]>> \in GuestEntries
    BY Zenon DEF GuestEntries
  <2> QED BY <1>2, <1>3, <2>1
<1>5. n = [m EXCEPT ![p][i] = r[3]]
  BY <1>1, <1>2, <1>3
<1>6. /\ DOMAIN m = DOMAIN Memory
      /\ m = [q \in DOMAIN Memory |-> m[q]]
      /\ \A q \in DOMAIN Memory : m[q] = [j \in 0 .. Entries - 1 |-> m[q][j]]
  BY DEF Built
<1>7. /\ DOMAIN n = DOMAIN Memory
      /\ n = [q \in DOMAIN Memory |-> n[q]]
      /\ \A q \in DOMAIN Memory : q # p => n[q] = m[q]
      /\ p \in DOMAIN Memory => n[p] = [m[p] EXCEPT ![i] = r[3]]
  BY <1>5, <1>6
<1>9. p \in DOMAIN Memory =>
        /\ n[p] = [j \in 0 .. Entries - 1 |-> n[p][j]]
        /\ \A j \in 0 .. Entries - 1 : j # i => n[p][j] = m[p][j]
  <2> SUFFICES ASSUME p \in DOMAIN Memory
               PROVE  /\ n[p] = [j \in 0 .. Entries - 1 |-> n[p][j]]
                      /\ \A j \in 0 .. Entries - 1 : j # i => n[p][j] = m[p][j]
    OBVIOUS
  <2>1. DOMAIN m[p] = 0 .. Entries - 1 /\ n[p] = [m[p] EXCEPT ![i] = r[3]]
    BY <1>6, <1>7
  <2> QED BY <2>1
<1>10. \A q \in DOMAIN Memory, j \in 0 .. Entries - 1 :
          n[q][j] \in EntryValues(q, j) \/ <<q, j>> \in SlotEntries
  <2> SUFFICES ASSUME NEW q \in DOMAIN Memory, NEW j \in 0 .. Entries - 1
               PROVE  n[q][j] \in EntryValues(q, j) \/ <<q, j>> \in SlotEntries
    OBVIOUS
  <2>1. CASE q = p /\ j = i
    <3>1. r[3] \in EntryValues(p, i)
      BY <1>2, <1>3 DEF EntryValues
    <3>2. DOMAIN m[p] = 0 .. Entries - 1 /\ n[p] = [m[p] EXCEPT ![i] = r[3]]
      BY <1>6, <1>7, <2>1
    <3>3. n[p][i] = r[3]
      BY <2>1, <3>2
    <3> QED BY <2>1, <3>1, <3>3
  <2>2. CASE ~(q = p /\ j = i)
    <3>1. n[q][j] = m[q][j]
      BY <1>7, <1>9, <2>2
    <3>2. m[q][j] \in EntryValues(q, j) \/ <<q, j>> \in SlotEntries
      BY DEF Built
    <3> QED BY <3>1, <3>2
  <2> QED BY <2>1, <2>2
<1>11. \A q \in DOMAIN Memory : n[q] = [j \in 0 .. Entries - 1 |-> n[q][j]]
  BY <1>6, <1>7, <1>9
<1>12. Built(n)
  BY <1>7, <1>10, <1>11 DEF Built
<1>14. ASSUME NEW w \in SlotVas PROVE Pte(n, w) = Pte(m, w)
  <2>1. PICK q : q = EntryAt(w, 1)[1] /\ q \in DOMAIN Memory
    BY EntryShape
  <2>2. PICK j : j = EntryAt(w, 1)[2] /\ j \in 0 .. Entries - 1
    BY EntryShape
  <2>3. EntryAt(w, 1) = <<q, j>> /\ <<q, j>> \notin GuestEntries
    BY <2>1, <2>2, EntryShape
  <2>5. n[q][j] = m[q][j]
    BY <1>4, <1>7, <1>9, <2>1, <2>2, <2>3
  <2>6. Pte(n, w) = n[q][j] /\ Pte(m, w) = m[q][j]
    BY <1>12, <2>1, <2>2, PteIs
  <2> QED BY <2>5, <2>6
<1> QED BY <1>1, <1>12, <1>14

(* At first nothing is mapped where the slots will be.                     *)
LEMMA NothingMapped ==
    ASSUME NEW va \in SlotVas
    PROVE  Pte(Memory, va) = ZeroPte
<1>1. Path(Memory, HostCr3, va)[0] = Below(Memory, Path(Memory, HostCr3, va)[0 + 1], 0 + 1, va)
  <2>1. 0 \in 0 .. Levels - 1
    BY TableAssumption
  <2> QED BY <2>1, PathStep
<1>2. Pte(Memory, va) = Memory[EntryAt(va, 1)[1]][EntryAt(va, 1)[2]]
  BY MemoryBuilt, PteIs
<1>3. Translate(Memory, HostCr3, va) = ZeroPte /\ EntryAt(va, 1)[1] \in DOMAIN Memory
  BY PagesAssumption
<1> QED BY <1>1, <1>2, <1>3 DEF Translate, Below, EntryAt

-----------------------------------------------------------------------------
(* The slots in the order the loops of MmuInitialize and MmuFinalize take  *)
(* them.                                                                   *)
Number(c, s) == (c - 1) * Len(SlotVa[1]) + (s - 1)

LEMMA NumberFacts ==
    ASSUME NEW c \in Cpus, NEW s \in Slots
    PROVE  /\ Number(c, s) \in 0 .. Count - 1
           /\ Number(c, s) \div Len(SlotVa[1]) = c - 1
           /\ Number(c, s) % Len(SlotVa[1]) = s - 1
<1>1. PICK n : n = Len(SlotVa[1]) /\ n \in Nat \ {0}
  BY SlotAssumption
<1>2. PICK k : k = Len(SlotVa) /\ k \in Nat
  BY SlotAssumption
<1>3. c \in 1 .. k /\ s \in 1 .. n
  BY <1>1, <1>2, SlotAssumption
<1>4. PICK b : b = c - 1 /\ b \in Nat /\ b + 1 <= k
  BY <1>2, <1>3
<1>5. PICK r : r = s - 1 /\ r \in Nat /\ r < n
  BY <1>1, <1>3
<1>6. b * n + r \in Nat /\ (b * n + r) \div n = b /\ (b * n + r) % n = r
  BY <1>1, <1>4, <1>5, QuotientIsUnique
<1>7. (b + 1) * n <= k * n /\ (b + 1) * n = b * n + 1 * n /\ b * n \in Nat /\ k * n \in Nat
  BY <1>1, <1>2, <1>4, ProductGrows, ProductDistributes
<1>8. b * n + r \in 0 .. k * n - 1
  BY <1>1, <1>5, <1>7
<1> QED BY <1>1, <1>2, <1>4, <1>5, <1>6, <1>8 DEF Number, Count

LEMMA NumbersDiffer ==
    ASSUME NEW c \in Cpus, NEW s \in Slots, NEW d \in Cpus, NEW t \in Slots,
           Number(c, s) = Number(d, t)
    PROVE  c = d /\ s = t
<1>1. Number(c, s) \div Len(SlotVa[1]) = c - 1 /\ Number(c, s) % Len(SlotVa[1]) = s - 1
  BY NumberFacts
<1>2. Number(d, t) \div Len(SlotVa[1]) = d - 1 /\ Number(d, t) % Len(SlotVa[1]) = t - 1
  BY NumberFacts
<1>3. c \in Nat /\ d \in Nat /\ s \in Nat /\ t \in Nat
  BY SlotAssumption
<1> QED BY <1>1, <1>2, <1>3

LEMMA AtIs ==
    ASSUME at \in 0 .. Count - 1
    PROVE  ProcIdx \in Cpus /\ SlotIdx \in Slots /\ Number(ProcIdx, SlotIdx) = at
<1>1. PICK n : n = Len(SlotVa[1]) /\ n \in Nat \ {0}
  BY SlotAssumption
<1>2. PICK k : k = Len(SlotVa) /\ k \in Nat
  BY SlotAssumption
<1>3. PICK i : i = at /\ i \in Nat /\ i <= k * n - 1
  <2>1. k * n \in Nat
    BY <1>1, <1>2, ProductGrows
  <2> QED BY <1>1, <1>2, <2>1 DEF Count
<1>4. PICK q, r \in Nat : r < n /\ i = q * n + r /\ q = i \div n /\ r = i % n
  BY <1>1, <1>3, Divided
<1>5. q < k
  <2> SUFFICES ASSUME k <= q PROVE FALSE
    BY <1>2, <1>4
  <2>1. k * n <= q * n /\ k * n \in Nat /\ q * n \in Nat
    BY <1>1, <1>2, <1>4, ProductGrows
  <2> QED BY <1>3, <1>4, <2>1
<1>6. ProcIdx = 1 + q /\ SlotIdx = 1 + r
  BY <1>1, <1>3, <1>4 DEF ProcIdx, SlotIdx
<1>7. ProcIdx \in Cpus /\ SlotIdx \in Slots
  <2>1. Cpus = 1 .. k /\ Slots = 1 .. n
    BY <1>1, <1>2, SlotAssumption
  <2>2. r < n
    BY <1>4
  <2>3. 1 + q \in 1 .. k /\ 1 + r \in 1 .. n
    BY <1>1, <1>2, <1>5, <2>2
  <2> QED BY <1>6, <2>1, <2>3
<1>8. Number(ProcIdx, SlotIdx) = q * n + r
  <2>1. PICK c : c = ProcIdx /\ c - 1 = q
    BY <1>6
  <2>2. PICK s : s = SlotIdx /\ s - 1 = r
    BY <1>6
  <2>3. Number(c, s) = q * n + r
    BY <1>1, <2>1, <2>2 DEF Number
  <2> QED BY <2>1, <2>2, <2>3
<1> QED BY <1>3, <1>4, <1>7, <1>8

LEMMA CountPositive == Count \in Nat \ {0}
<1>1. Boot \in Cpus /\ 1 \in Slots
  BY SlotAssumption
<1>2. Number(Boot, 1) \in 0 .. Count - 1
  BY <1>1, NumberFacts
<1>3. Count \in Nat
  BY SlotAssumption, ProductGrows DEF Count
<1> QED BY <1>2, <1>3

(* The loops' step.                                                        *)
LEMMA NextAt ==
    ASSUME at \in 0 .. Count - 1
    PROVE  (at + 1) % Count = IF at + 1 = Count THEN 0 ELSE at + 1
<1>1. PICK n : n = Count /\ n \in Nat \ {0}
  BY CountPositive
<1>2. at \in Nat /\ at <= n - 1
  BY <1>1
<1>3. CASE at + 1 = n
  <2>1. n % n = 0
    BY <1>1
  <2> QED BY <1>1, <1>3, <2>1
<1>4. CASE at + 1 # n
  <2>1. (at + 1) % n = at + 1
    BY <1>1, <1>2, <1>4
  <2> QED BY <1>1, <1>4, <2>1
<1> QED BY <1>1, <1>3, <1>4

-----------------------------------------------------------------------------
(* The inductive invariant.                                                *)
Own(c) == {SlotVa[c][s] : s \in Slots}
Mappings == [Cpus -> [Slots -> [use : BOOLEAN, va : SlotVas \cup {0}, orig : Nat]]]

Clear(m) == \A w \in SlotVas : Pte(m, w) = ZeroPte

(* The mappings a function of an exit still has.                           *)
Of(h) == {h[i] : i \in DOMAIN h}
Holds(r) == Of(r.held) \cup (IF r.table = 0 THEN {} ELSE {r.table})

HeldOk(c, h) ==
    \/ h = <<>>
    \/ \E a \in Own(c) : h = <<a>>
    \/ \E a, b \in Own(c) : a # b /\ h = <<a, b>>

IsExit(r) ==
    r = [pc |-> r.pc, op |-> r.op, cr3 |-> r.cr3, va |-> r.va, end |-> r.end, todo |-> r.todo,
         level |-> r.level, pa |-> r.pa, table |-> r.table, held |-> r.held, out |-> r.out,
         moved |-> r.moved]

(* An exit never has more than two pages to read and to give back, and the *)
(* table of a walk besides one page at most.                               *)
ExitOk(c, r) ==
    /\ IsExit(r)
    /\ HeldOk(c, r.held)
    /\ r.todo \in Seq(Nat) /\ Len(r.held) + Len(r.todo) <= 2
    /\ r.pc \in {"idle", "translate", "walk", "walk2", "map", "copy", "unmap", "done"}
    /\ r.pc \in {"translate", "walk", "walk2", "map"} => r.todo # <<>>
    /\ r.pc \in {"copy", "unmap"} => r.held # <<>>
    /\ r.pc \in {"idle", "done"} => r.held = <<>>
    /\ IF r.pc = "walk2" THEN r.table \in Own(c) \ Of(r.held) ELSE r.table = 0
    /\ r.pc \in {"walk", "walk2"} => r.level \in 1 .. Levels

(* The slots of c: the ones in use are the ones in h.                      *)
Accounted(A, m, c, h) ==
    \A s \in Slots :
        /\ A[c][s].va = SlotVa[c][s] /\ A[c][s].orig = SlotPage[c][s]
        /\ A[c][s].use \in BOOLEAN
        /\ (A[c][s].use <=> SlotVa[c][s] \in h)
        /\ Pte(m, SlotVa[c][s]) # ZeroPte => A[c][s].use

Types ==
    /\ Built(mem)
    /\ array = <<>> \/ array \in Mappings
    /\ phase \in {"load", "init", "undo", "on", "fini", "ended", "down"}
    /\ at \in 0 .. Count - 1
    /\ ready \in BOOLEAN
    /\ locked \subseteq Cpus \X Slots
    /\ fault \in {"none", "mdl", "null"}

Exits ==
    /\ x = [c \in Cpus |-> x[c]]
    /\ \A c \in Cpus : ExitOk(c, x[c])
    /\ phase # "on" /\ array # <<>> => \A c \in Cpus : x[c].pc = "idle"
    /\ phase \notin {"on", "down"} => \A c \in Cpus : x[c].pc = "idle"

(* MmuInitialize, the slots before at being done.                          *)
Mapped(A, i, locks) ==
    \A c \in Cpus, s \in Slots :
        /\ ~A[c][s].use
        /\ IF Number(c, s) < i
             THEN A[c][s].va = SlotVa[c][s] /\ A[c][s].orig = SlotPage[c][s]
             ELSE A[c][s].va = 0 /\ <<c, s>> \notin locks

(* MmuFinalize, the slots before at being done.                            *)
Undone(A, i, locks) ==
    \A c \in Cpus, s \in Slots :
        /\ A[c][s].va \in {0, SlotVa[c][s]}
        /\ A[c][s].va # 0 => A[c][s].orig = SlotPage[c][s]
        /\ <<c, s>> \in locks => Number(c, s) >= i /\ A[c][s].va # 0

Phases ==
    /\ phase = "load" => array = <<>> /\ at = 0 /\ locked = {} /\ Clear(mem)
    /\ phase = "init" => array # <<>> /\ Mapped(array, at, locked) /\ Clear(mem)
    /\ phase \in {"undo", "fini"} => array # <<>> /\ Undone(array, at, locked) /\ Clear(mem)
    /\ phase = "on" => at = 0
    /\ phase = "on" /\ array = <<>> =>
         locked = {} /\ Clear(mem) /\ \A c \in Cpus : Holds(x[c]) = {}
    /\ phase = "on" /\ array # <<>> =>
         ready /\ \A c \in Cpus : Accounted(array, mem, c, Holds(x[c]))
    /\ phase = "ended" => locked = {} /\ Clear(mem)

Inv == Types /\ Exits /\ Phases

-----------------------------------------------------------------------------
LEMMA MappingsNotEmpty ==
    ASSUME NEW A \in Mappings
    PROVE  A # <<>>
<1>1. Boot \in DOMAIN A
  BY SlotAssumption DEF Mappings
<1>2. DOMAIN <<>> = {}
  OBVIOUS
<1> QED BY <1>1, <1>2

LEMMA IdleHolds ==
    ASSUME NEW c \in Cpus, NEW r, ExitOk(c, r), r.pc \in {"idle", "done"}
    PROVE  Holds(r) = {}
<1>1. r.held = <<>> /\ r.table = 0
  BY DEF ExitOk
<1>2. Of(<<>>) = {}
  BY DEF Of
<1> QED BY <1>1, <1>2 DEF Holds

LEMMA SlotVaOwn ==
    ASSUME NEW c \in Cpus, NEW s \in Slots
    PROVE  SlotVa[c][s] \in SlotVas /\ SlotVa[c][s] \in Own(c) /\ SlotVa[c][s] # 0
           /\ SlotPage[c][s] \in Nat
BY SlotAssumption DEF SlotVas, Own

LEMMA SlotVasDiffer ==
    ASSUME NEW c \in Cpus, NEW s \in Slots, NEW d \in Cpus, NEW t \in Slots,
           SlotVa[c][s] = SlotVa[d][t]
    PROVE  c = d /\ s = t
BY SlotAssumption

(* An entry is written over nothing, and cleared.                          *)
LEMMA TwiceWritten ==
    ASSUME NEW m, NEW k, NEW n, NEW va, NEW pte,
           Clear(m), Written(m, k, va, pte), Written(k, n, va, ZeroPte)
    PROVE  Built(n) /\ Clear(n)
BY DEF Clear, Written

-----------------------------------------------------------------------------
LEMMA IdleOk ==
    ASSUME NEW c \in Cpus
    PROVE  ExitOk(c, Idle) /\ Idle.pc = "idle"
<1>1. IsExit(Idle)
  BY DEF IsExit, Idle
<1>2. /\ Idle.held = <<>> /\ Idle.todo = <<>> /\ Idle.pc = "idle" /\ Idle.table = 0
      /\ <<>> \in Seq(Nat) /\ Len(<<>>) = 0
  BY DEF Idle
<1> QED BY <1>1, <1>2 DEF ExitOk, HeldOk

LEMMA InitInv == Init => Inv
<1> SUFFICES ASSUME Init PROVE Inv
  OBVIOUS
<1> USE DEF Init
<1>1. Types
  <2>1. 0 \in 0 .. Count - 1
    BY CountPositive
  <2> QED BY <2>1, MemoryBuilt DEF Types
<1>2. \A c \in Cpus : ExitOk(c, x[c]) /\ x[c].pc = "idle"
  <2> SUFFICES ASSUME NEW c \in Cpus PROVE ExitOk(c, x[c]) /\ x[c].pc = "idle"
    OBVIOUS
  <2>1. x[c] = Idle
    OBVIOUS
  <2> QED BY <2>1, IdleOk
<1>3. Exits
  BY <1>2 DEF Exits
<1>4. Clear(mem)
  BY NothingMapped DEF Clear
<1> QED BY <1>1, <1>3, <1>4 DEF Inv, Phases

LEMMA InitializeInv == Inv /\ MmuInitialize => Inv'
<1> SUFFICES ASSUME Inv, MmuInitialize PROVE Inv'
  OBVIOUS
<1> USE DEF MmuInitialize
<1>0. phase = "load" /\ array = <<>> /\ at = 0 /\ locked = {} /\ Clear(mem)
  BY DEF Inv, Phases
<1>1. \A c \in Cpus : ExitOk(c, x[c]) /\ x[c].pc = "idle"
  BY <1>0 DEF Inv, Exits
<1>2. Exits'
  BY <1>1 DEF Inv, Exits
<1>3. \A c \in Cpus : Holds(x[c]) = {}
  BY <1>1, IdleHolds
<1>4. CASE phase' = "init"
  <2>1. array' = [c \in Cpus |-> [s \in Slots |-> NoMapping]] /\ ready' = FALSE
    BY <1>4
  <2>2. NoMapping \in [use : BOOLEAN, va : SlotVas \cup {0}, orig : Nat]
    BY DEF NoMapping, ZeroPte
  <2>3. array' \in Mappings
    BY <2>1, <2>2 DEF Mappings
  <2>4. Types'
    BY <1>4, <2>1, <2>3 DEF Inv, Types
  <2>5. Mapped(array', at', locked')
    <3>1. \A c \in Cpus, s \in Slots : ~ (Number(c, s) < 0)
      BY NumberFacts
    <3> QED BY <1>0, <2>1, <3>1 DEF Mapped, NoMapping
  <2>6. array' # <<>>
    BY <2>3, MappingsNotEmpty
  <2> QED BY <1>0, <1>2, <1>4, <2>4, <2>5, <2>6 DEF Inv, Phases
<1>5. CASE phase' = "on"
  <2>1. array' = <<>> /\ ready' = TRUE
    BY <1>5
  <2>2. Types'
    BY <1>5, <2>1 DEF Inv, Types
  <2> QED BY <1>0, <1>2, <1>3, <1>5, <2>1, <2>2 DEF Inv, Phases
<1> QED BY <1>4, <1>5

LEMMA MapInv == Inv /\ Map => Inv'
<1> SUFFICES ASSUME Inv, Map PROVE Inv'
  OBVIOUS
<1>0. /\ phase = "init" /\ array # <<>> /\ Mapped(array, at, locked) /\ Clear(mem)
      /\ at \in 0 .. Count - 1 /\ Built(mem)
  BY DEF Inv, Phases, Types, Map
<1>1. PICK P : P = ProcIdx
  OBVIOUS
<1>2. PICK S : S = SlotIdx
  OBVIOUS
<1>3. P \in Cpus /\ S \in Slots /\ Number(P, S) = at
  BY <1>0, <1>1, <1>2, AtIs
<1>4. PICK v : v = SlotVa[P][S]
  OBVIOUS
<1>5. v \in SlotVas /\ v # 0 /\ SlotPage[P][S] \in Nat
  BY <1>3, <1>4, SlotVaOwn
<1>6. PICK page : page = SlotPage[P][S]
  OBVIOUS
<1>7. PICK m : m = Store(mem, v, page)
  OBVIOUS
<1>8. MmuInitializeMapping(Boot, v, m)
  BY <1>1, <1>2, <1>4, <1>6, <1>7 DEF Map
<1>9. Written(mem, m, v, page)
  BY <1>0, <1>5, <1>7, StoreFacts
<1>10. mem' = Store(m, v, ZeroPte)
  BY <1>8 DEF MmuInitializeMapping
<1>11. Written(m, mem', v, ZeroPte)
  BY <1>5, <1>9, <1>10, StoreFacts DEF Written
<1>12. Built(mem') /\ Clear(mem')
  BY <1>0, <1>9, <1>11, TwiceWritten
<1>13. /\ array' = [array EXCEPT ![P][S] = [use |-> FALSE, va |-> v, orig |-> page]]
       /\ locked' = locked \cup {<<P, S>>}
       /\ at' = (at + 1) % Count
       /\ phase' = IF at + 1 = Count THEN "on" ELSE phase
       /\ ready' = (at + 1 = Count)
       /\ x' = x /\ fault' = fault
  <2>1. Pte(m, v) = page
    BY <1>9 DEF Written
  <2>2. PICK q : q = [NoMapping EXCEPT !.va = v, !.orig = Pte(m, v)]
    OBVIOUS
  <2>3. q = [use |-> FALSE, va |-> v, orig |-> page]
    BY <2>1, <2>2 DEF NoMapping
  <2>4. array' = [array EXCEPT ![P][S] = q]
    BY <1>1, <1>2, <1>8, <2>2 DEF MmuInitializeMapping
  <2> QED BY <1>1, <1>2, <1>8, <2>3, <2>4 DEF MmuInitializeMapping
<1>14. array \in Mappings
  BY <1>0 DEF Inv, Types
<1>15. /\ array' \in Mappings
       /\ array'[P][S] = [use |-> FALSE, va |-> v, orig |-> page]
       /\ \A c \in Cpus, s \in Slots : <<c, s>> # <<P, S>> => array'[c][s] = array[c][s]
  BY <1>3, <1>5, <1>6, <1>13, <1>14 DEF Mappings
<1>16. Types'
  <2>1. at' \in 0 .. Count - 1
    BY <1>0, <1>13, NextAt, CountPositive
  <2> QED BY <1>0, <1>3, <1>12, <1>13, <1>15, <2>1 DEF Inv, Types
<1>17. \A c \in Cpus : ExitOk(c, x[c]) /\ x[c].pc = "idle"
  BY <1>0 DEF Inv, Exits
<1>18. Exits'
  BY <1>13, <1>17 DEF Inv, Exits
<1>19. Mapped(array', at + 1, locked')
  <2> SUFFICES ASSUME NEW c \in Cpus, NEW s \in Slots
               PROVE  /\ ~array'[c][s].use
                      /\ IF Number(c, s) < at + 1
                           THEN array'[c][s].va = SlotVa[c][s] /\ array'[c][s].orig = SlotPage[c][s]
                           ELSE array'[c][s].va = 0 /\ <<c, s>> \notin locked'
    BY DEF Mapped
  <2>1. CASE c = P /\ s = S
    <3>1. Number(c, s) < at + 1
      BY <1>0, <1>3, <2>1
    <3> QED BY <1>4, <1>6, <1>15, <2>1, <3>1
  <2>2. CASE ~(c = P /\ s = S)
    <3>1. Number(c, s) # at
      BY <1>3, <2>2, NumbersDiffer
    <3>2. Number(c, s) \in Nat
      BY NumberFacts
    <3>3. (Number(c, s) < at + 1) <=> (Number(c, s) < at)
      BY <1>0, <3>1, <3>2
    <3>4. array'[c][s] = array[c][s] /\ (<<c, s>> \in locked' <=> <<c, s>> \in locked)
      BY <1>13, <1>15, <2>2
    <3> QED BY <1>0, <3>3, <3>4 DEF Mapped
  <2> QED BY <2>1, <2>2
<1>20. array' # <<>>
  BY <1>15, MappingsNotEmpty
<1>21. CASE at + 1 = Count
  <2>1. phase' = "on" /\ ready' /\ at' = 0
    BY <1>0, <1>13, <1>21, NextAt
  <2>2. ASSUME NEW c \in Cpus PROVE Accounted(array', mem', c, Holds(x'[c]))
    <3>1. Holds(x'[c]) = {}
      BY <1>13, <1>17, IdleHolds
    <3>2. \A s \in Slots : Number(c, s) < Count
      BY NumberFacts, CountPositive
    <3>3. \A s \in Slots : Pte(mem', SlotVa[c][s]) = ZeroPte
      BY <1>12, SlotVaOwn DEF Clear
    <3>4. \A s \in Slots : Number(c, s) < at + 1
      BY <1>21, <3>2
    <3>5. \A s \in Slots : /\ ~array'[c][s].use
                           /\ array'[c][s].va = SlotVa[c][s] /\ array'[c][s].orig = SlotPage[c][s]
      BY <1>19, <3>4 DEF Mapped
    <3>6. \A s \in Slots : array'[c][s].use \in BOOLEAN
      BY <1>15 DEF Mappings
    <3> QED BY <3>1, <3>3, <3>5, <3>6 DEF Accounted
  <2>3. Phases'
    BY <1>20, <2>1, <2>2 DEF Phases
  <2> QED BY <1>16, <1>18, <2>3 DEF Inv
<1>22. CASE at + 1 # Count
  <2>1. phase' = "init" /\ at' = at + 1
    BY <1>0, <1>13, <1>22, NextAt
  <2>2. Phases'
    BY <1>12, <1>19, <1>20, <2>1 DEF Phases
  <2> QED BY <1>16, <1>18, <2>2 DEF Inv
<1> QED BY <1>21, <1>22

LEMMA NoMapInv == Inv /\ NoMap => Inv'
<1> SUFFICES ASSUME Inv, NoMap PROVE Inv'
  OBVIOUS
<1> USE DEF NoMap
<1>1. phase = "init" /\ array # <<>> /\ Mapped(array, at, locked) /\ Clear(mem)
  BY DEF Inv, Phases
<1>2. Types'
  <2>1. 0 \in 0 .. Count - 1
    BY CountPositive
  <2> QED BY <2>1 DEF Inv, Types
<1>3. \A c \in Cpus : ExitOk(c, x[c]) /\ x[c].pc = "idle"
  BY <1>1 DEF Inv, Exits
<1>4. Exits'
  BY <1>3 DEF Inv, Exits
<1>5. Undone(array, 0, locked)
  <2> SUFFICES ASSUME NEW c \in Cpus, NEW s \in Slots
               PROVE  /\ array[c][s].va \in {0, SlotVa[c][s]}
                      /\ array[c][s].va # 0 => array[c][s].orig = SlotPage[c][s]
                      /\ <<c, s>> \in locked => Number(c, s) >= 0 /\ array[c][s].va # 0
    BY DEF Undone
  <2>1. Number(c, s) \in Nat /\ SlotVa[c][s] # 0
    BY NumberFacts, SlotVaOwn
  <2> QED BY <1>1, <2>1 DEF Mapped
<1> QED BY <1>1, <1>2, <1>4, <1>5 DEF Inv, Phases

LEMMA NoLockInv == Inv /\ NoLock => Inv'
<1> SUFFICES ASSUME Inv, NoLock PROVE Inv'
  OBVIOUS
<1> USE DEF NoLock
<1>1. phase = "init"
  OBVIOUS
<1>2. Types'
  BY DEF Inv, Types
<1>3. \A c \in Cpus : ExitOk(c, x[c]) /\ x[c].pc = "idle"
  BY <1>1 DEF Inv, Exits
<1>4. Exits'
  BY <1>3 DEF Inv, Exits
<1> QED BY <1>2, <1>4 DEF Inv, Phases

(* The system takes the page of a slot back.                               *)
LEMMA DeleteFacts ==
    ASSUME Inv, NEW c \in Cpus, NEW s \in Slots, Clear(mem),
           array[c][s].va = SlotVa[c][s], array[c][s].orig = SlotPage[c][s],
           MmuDeleteMapping(c, s)
    PROVE  fault' = fault /\ Built(mem') /\ Clear(mem') /\ locked' = locked \ {<<c, s>>}
<1>1. PICK v : v = SlotVa[c][s]
  OBVIOUS
<1>2. v \in SlotVas
  BY <1>1, SlotVaOwn
<1>3. PICK page : page = SlotPage[c][s]
  OBVIOUS
<1>4. PICK m : m = Store(mem, v, page)
  OBVIOUS
<1>5. Written(mem, m, v, page)
  <2>1. Built(mem)
    BY DEF Inv, Types
  <2> QED BY <1>2, <1>4, <2>1, StoreFacts
<1>6. MmUnmapLockedPages(v, page, m) /\ locked' = locked \ {<<c, s>>}
  BY <1>1, <1>3, <1>4 DEF MmuDeleteMapping
<1>7. Pte(m, v) = page
  BY <1>5 DEF Written
<1>8. fault' = fault /\ mem' = Store(m, v, ZeroPte)
  BY <1>6, <1>7 DEF MmUnmapLockedPages
<1>9. Written(m, mem', v, ZeroPte)
  BY <1>2, <1>5, <1>8, StoreFacts DEF Written
<1> QED BY <1>5, <1>6, <1>8, <1>9, TwiceWritten

LEMMA FinalizeInv == Inv /\ MmuFinalize => Inv'
<1> SUFFICES ASSUME Inv, MmuFinalize PROVE Inv'
  OBVIOUS
<1>0. /\ phase \in {"undo", "fini"} /\ array # <<>> /\ Undone(array, at, locked) /\ Clear(mem)
      /\ at \in 0 .. Count - 1 /\ Built(mem) /\ locked \subseteq Cpus \X Slots
  BY DEF Inv, Phases, Types, MmuFinalize
<1>1. PICK P : P = ProcIdx
  OBVIOUS
<1>2. PICK S : S = SlotIdx
  OBVIOUS
<1>3. P \in Cpus /\ S \in Slots /\ Number(P, S) = at
  BY <1>0, <1>1, <1>2, AtIs
<1>4. /\ at' = (at + 1) % Count /\ ready' = ready /\ x' = x
      /\ IF at + 1 = Count
           THEN array' = <<>> /\ phase' = IF phase = "undo" THEN "on" ELSE "ended"
           ELSE array' = array /\ phase' = phase
  BY DEF MmuFinalize
<1>5. /\ fault' = fault /\ Built(mem') /\ Clear(mem')
      /\ locked' = locked \ {<<P, S>>}
  <2>1. CASE array[P][S].va # 0
    <3>1. MmuDeleteMapping(P, S)
      BY <1>1, <1>2, <2>1 DEF MmuFinalize, Mapping
    <3>2. array[P][S].va = SlotVa[P][S] /\ array[P][S].orig = SlotPage[P][S]
      BY <1>0, <1>3, <2>1 DEF Undone
    <3> QED BY <1>0, <1>3, <3>1, <3>2, DeleteFacts
  <2>2. CASE array[P][S].va = 0
    <3>1. UNCHANGED <<mem, tlb, locked, fault>>
      BY <1>1, <1>2, <2>2 DEF MmuFinalize, Mapping
    <3>2. <<P, S>> \notin locked
      BY <1>0, <1>3, <2>2 DEF Undone
    <3> QED BY <1>0, <3>1, <3>2
  <2> QED BY <2>1, <2>2
<1>6. Undone(array, at + 1, locked')
  <2> SUFFICES ASSUME NEW c \in Cpus, NEW s \in Slots, <<c, s>> \in locked'
               PROVE  Number(c, s) >= at + 1
    BY <1>0, <1>5 DEF Undone
  <2>1. Number(c, s) >= at /\ ~(c = P /\ s = S)
    BY <1>0, <1>5 DEF Undone
  <2>2. Number(c, s) # at
    BY <1>3, <2>1, NumbersDiffer
  <2>3. Number(c, s) \in Nat
    BY NumberFacts
  <2> QED BY <1>0, <2>1, <2>2, <2>3
<1>7. Types'
  <2>1. at' \in 0 .. Count - 1
    BY <1>0, <1>4, NextAt, CountPositive
  <2> QED BY <1>0, <1>4, <1>5, <2>1 DEF Inv, Types
<1>8. \A c \in Cpus : ExitOk(c, x[c]) /\ x[c].pc = "idle"
  BY <1>0 DEF Inv, Exits
<1>9. Exits'
  BY <1>4, <1>8 DEF Inv, Exits
<1>10. CASE at + 1 = Count
  <2>1. at' = 0 /\ array' = <<>> /\ phase' \in {"on", "ended"}
    BY <1>0, <1>4, <1>10, NextAt
  <2>2. locked' = {}
    <3> SUFFICES ASSUME NEW c \in Cpus, NEW s \in Slots, <<c, s>> \in locked' PROVE FALSE
      BY <1>0, <1>5
    <3>1. Number(c, s) >= Count
      BY <1>6, <1>10 DEF Undone
    <3>2. Number(c, s) \in 0 .. Count - 1
      BY NumberFacts
    <3> QED BY <3>1, <3>2, CountPositive
  <2>3. \A c \in Cpus : Holds(x'[c]) = {}
    BY <1>4, <1>8, IdleHolds
  <2> QED BY <1>5, <1>7, <1>9, <2>1, <2>2, <2>3 DEF Inv, Phases
<1>11. CASE at + 1 # Count
  <2>1. at' = at + 1 /\ array' = array /\ phase' = phase
    BY <1>0, <1>4, <1>11, NextAt
  <2> QED BY <1>0, <1>5, <1>6, <1>7, <1>9, <2>1 DEF Inv, Phases
<1> QED BY <1>10, <1>11

LEMMA UnloadInv == Inv /\ Unload => Inv'
<1> SUFFICES ASSUME Inv, Unload PROVE Inv'
  OBVIOUS
<1>0. /\ phase = "on" /\ at = 0
      /\ \A c \in Cpus : ExitOk(c, x[c]) /\ x[c].pc = "idle"
      /\ UNCHANGED <<mem, tlb, array, at, ready, locked, x>>
      /\ IF ~ready THEN phase' = "ended" /\ UNCHANGED fault
         ELSE IF array = <<>> THEN phase' = "down" /\ fault' = "null"
         ELSE phase' = "fini" /\ UNCHANGED fault
  BY DEF Unload, Inv, Phases, Exits
<1>1. Types'
  BY <1>0 DEF Inv, Types
<1>2. Exits'
  BY <1>0 DEF Inv, Exits
<1>3. \A c \in Cpus : Holds(x[c]) = {}
  BY <1>0, IdleHolds
<1>4. CASE array = <<>>
  BY <1>0, <1>1, <1>2, <1>4 DEF Inv, Phases
<1>5. CASE array # <<>>
  <2>1. ready /\ phase' = "fini"
    BY <1>0, <1>5 DEF Inv, Phases
  <2>2. \A c \in Cpus : Accounted(array, mem, c, {})
    BY <1>0, <1>3, <1>5 DEF Inv, Phases
  <2>3. Clear(mem)
    <3> SUFFICES ASSUME NEW w \in SlotVas PROVE Pte(mem, w) = ZeroPte
      BY DEF Clear
    <3>1. PICK c \in Cpus, s \in Slots : w = SlotVa[c][s]
      BY DEF SlotVas
    <3> QED BY <2>2, <3>1 DEF Accounted
  <2>4. Undone(array, 0, locked)
    <3> SUFFICES ASSUME NEW c \in Cpus, NEW s \in Slots
                 PROVE  /\ array[c][s].va \in {0, SlotVa[c][s]}
                        /\ array[c][s].va # 0 => array[c][s].orig = SlotPage[c][s]
                        /\ <<c, s>> \in locked => Number(c, s) >= 0 /\ array[c][s].va # 0
      BY DEF Undone
    <3>1. Number(c, s) \in Nat /\ SlotVa[c][s] # 0
      BY NumberFacts, SlotVaOwn
    <3> QED BY <2>2, <3>1 DEF Accounted
  <2> QED BY <1>0, <1>1, <1>2, <1>5, <2>1, <2>3, <2>4 DEF Inv, Phases
<1> QED BY <1>4, <1>5

(* An exit goes on with the mappings it has.                               *)
LEMMA MarkedOk ==
    ASSUME NEW c \in Cpus, NEW r, ExitOk(c, r)
    PROVE  ExitOk(c, [r EXCEPT !.moved = TRUE]) /\ Holds([r EXCEPT !.moved = TRUE]) = Holds(r)
<1>1. PICK q : q = [r EXCEPT !.moved = TRUE]
  OBVIOUS
<1>2. IsExit(r)
  BY DEF ExitOk
<1>3. /\ IsExit(q) /\ q.pc = r.pc /\ q.held = r.held /\ q.todo = r.todo /\ q.table = r.table
      /\ q.level = r.level
  BY <1>1, <1>2 DEF IsExit
<1>4. ExitOk(c, q) /\ Holds(q) = Holds(r)
  BY <1>3 DEF ExitOk, Holds
<1> QED BY <1>1, <1>4

LEMMA RemapInv == Inv /\ Remap => Inv'
<1> SUFFICES ASSUME Inv, Remap PROVE Inv'
  OBVIOUS
<1>0. phase = "on" /\ Built(mem) /\ UNCHANGED <<tlb, array, phase, at, ready, locked, fault>>
  BY DEF Remap, Inv, Types, initVars
<1>1. PICK r \in Remaps : mem' = [mem EXCEPT ![r[1]][r[2]] = r[3]]
  BY DEF Remap
<1>2. Built(mem') /\ \A w \in SlotVas : Pte(mem', w) = Pte(mem, w)
  BY <1>0, <1>1, RemapFacts
<1>3. x' = [c \in Cpus |-> IF x[c].pc = "idle" THEN x[c] ELSE [x[c] EXCEPT !.moved = TRUE]]
  BY DEF Remap
<1>4. \A c \in Cpus : ExitOk(c, x[c])
  BY DEF Inv, Exits
<1>5. ASSUME NEW c \in Cpus PROVE ExitOk(c, x'[c]) /\ Holds(x'[c]) = Holds(x[c])
  <2>1. PICK q : q = x[c]
    OBVIOUS
  <2>2. x'[c] = q \/ x'[c] = [q EXCEPT !.moved = TRUE]
    BY <1>3, <2>1
  <2>3. ExitOk(c, q)
    BY <1>4, <2>1
  <2>4. ExitOk(c, [q EXCEPT !.moved = TRUE]) /\ Holds([q EXCEPT !.moved = TRUE]) = Holds(q)
    BY <2>3, MarkedOk
  <2> QED BY <2>1, <2>2, <2>3, <2>4
<1>6. Types'
  BY <1>0, <1>2 DEF Inv, Types
<1>7. Exits'
  <2>1. x' = [c \in Cpus |-> x'[c]]
    BY <1>3
  <2> QED BY <1>0, <1>5, <2>1 DEF Exits
<1>8. CASE array = <<>>
  <2>1. Clear(mem')
    BY <1>0, <1>2, <1>8 DEF Inv, Phases, Clear
  <2> QED BY <1>0, <1>5, <1>6, <1>7, <1>8, <2>1 DEF Inv, Phases
<1>9. CASE array # <<>>
  <2>1. ASSUME NEW c \in Cpus PROVE Accounted(array, mem', c, Holds(x'[c]))
    <3>1. Accounted(array, mem, c, Holds(x[c]))
      BY <1>0, <1>9 DEF Inv, Phases
    <3>2. \A s \in Slots : Pte(mem', SlotVa[c][s]) = Pte(mem, SlotVa[c][s])
      BY <1>2, SlotVaOwn
    <3> QED BY <1>5, <3>1, <3>2 DEF Accounted
  <2>2. array' # <<>> /\ phase' = "on" /\ ready' /\ at' = 0
    BY <1>0, <1>9 DEF Inv, Phases
  <2>3. \A c \in Cpus : Accounted(array', mem', c, Holds(x'[c]))
    BY <1>0, <2>1
  <2>4. Phases'
    BY <2>2, <2>3 DEF Phases
  <2> QED BY <1>6, <1>7, <2>4 DEF Inv
<1> QED BY <1>8, <1>9

-----------------------------------------------------------------------------
(* The steps of an exit.  One that leaves the mappings alone.              *)
LEMMA MovedInv ==
    ASSUME Inv, NEW c \in Cpus, NEW q, phase = "on",
           ExitOk(c, q), Holds(q) = Holds(x[c]),
           x' = [x EXCEPT ![c] = q],
           UNCHANGED <<mem, array, phase, at, ready, locked, fault>>
    PROVE  Inv'
<1>1. x = [d \in Cpus |-> x[d]] /\ \A d \in Cpus : ExitOk(d, x[d])
  BY DEF Inv, Exits
<1>2. \A d \in Cpus : x'[d] = IF d = c THEN q ELSE x[d]
  BY <1>1
<1>3. x' = [d \in Cpus |-> x'[d]]
  BY <1>1
<1>4. \A d \in Cpus : ExitOk(d, x'[d]) /\ Holds(x'[d]) = Holds(x[d])
  BY <1>1, <1>2
<1>5. Types'
  BY DEF Inv, Types
<1>6. Exits'
  BY <1>3, <1>4 DEF Exits
<1>7. Phases'
  BY <1>4 DEF Inv, Phases
<1> QED BY <1>5, <1>6, <1>7 DEF Inv

(* MmuAcquireMapping gives a mapping that is not in use.                   *)
LEMMA AcquireFacts ==
    ASSUME NEW c \in Cpus
    PROVE  \/ MmuAcquireMapping(c) = 0 /\ \A s \in Slots : array[c][s].use
           \/ MmuAcquireMapping(c) \in Slots /\ ~array[c][MmuAcquireMapping(c)].use
<1>1. PICK free : free = {s \in Slots : ~array[c][s].use}
  OBVIOUS
<1>2. free = {} => MmuAcquireMapping(c) = 0 /\ \A s \in Slots : array[c][s].use
  BY <1>1 DEF MmuAcquireMapping
<1>3. ASSUME free # {} PROVE MmuAcquireMapping(c) \in free
  <2>1. free \subseteq Nat
    BY <1>1, SlotAssumption
  <2>2. \E y \in free : \A z \in free : y <= z
    BY <1>3, <2>1, Least
  <2>3. MmuAcquireMapping(c) = CHOOSE y \in free : \A z \in free : y <= z
    BY <1>1, <1>3 DEF MmuAcquireMapping
  <2> QED BY <2>2, <2>3
<1> QED BY <1>1, <1>2, <1>3

(* The use of a mapping is set.                                            *)
UseSet(A, B, c, s, b) ==
    /\ B \in Mappings
    /\ B[c][s].use = b /\ B[c][s].va = A[c][s].va /\ B[c][s].orig = A[c][s].orig
    /\ \A d \in Cpus, t \in Slots : ~(d = c /\ t = s) => B[d][t] = A[d][t]

LEMMA UseSetFacts ==
    ASSUME NEW A \in Mappings, NEW c \in Cpus, NEW s \in Slots, NEW b \in BOOLEAN
    PROVE  UseSet(A, [A EXCEPT ![c][s].use = b], c, s, b)
<1>1. PICK M : M = [use : BOOLEAN, va : SlotVas \cup {0}, orig : Nat]
  OBVIOUS
<1>2. A \in [Cpus -> [Slots -> M]]
  BY <1>1 DEF Mappings
<1>3. PICK k : k = A[c][s] /\ k \in M
  BY <1>2
<1>4. PICK e : e = [k EXCEPT !.use = b]
  OBVIOUS
<1>5. e \in M /\ e.use = b /\ e.va = k.va /\ e.orig = k.orig
  BY <1>1, <1>3, <1>4
<1>6. PICK B : B = [A EXCEPT ![c][s].use = b]
  OBVIOUS
<1>7. B = [A EXCEPT ![c][s] = e]
  BY <1>3, <1>4, <1>6, Zenon
<1>8. /\ B \in [Cpus -> [Slots -> M]] /\ B[c][s] = e
      /\ \A d \in Cpus, t \in Slots : ~(d = c /\ t = s) => B[d][t] = A[d][t]
  BY <1>2, <1>5, <1>7
<1> QED BY <1>1, <1>3, <1>5, <1>6, <1>8 DEF UseSet, Mappings

(* A mapping is taken: MmuMapIoPage.                                       *)
LEMMA TakenInv ==
    ASSUME Inv, NEW c \in Cpus, NEW q, NEW s \in Slots, NEW page, phase = "on", array # <<>>,
           ~array[c][s].use,
           MmuMapIoPage(c, s, page),
           ExitOk(c, q), Holds(q) = Holds(x[c]) \cup {SlotVa[c][s]},
           x' = [x EXCEPT ![c] = q],
           UNCHANGED <<phase, at, ready, locked, fault>>
    PROVE  Inv'
<1>1. x = [d \in Cpus |-> x[d]] /\ \A d \in Cpus : ExitOk(d, x[d])
  BY DEF Inv, Exits
<1>2. \A d \in Cpus : x'[d] = IF d = c THEN q ELSE x[d]
  BY <1>1
<1>3. x' = [d \in Cpus |-> x'[d]]
  BY <1>1
<1>4. \A d \in Cpus : ExitOk(d, x'[d])
  BY <1>1, <1>2
<1>5. array \in Mappings /\ Built(mem) /\ at = 0 /\ ready
      /\ \A d \in Cpus : Accounted(array, mem, d, Holds(x[d]))
  BY DEF Inv, Types, Phases
<1>6. PICK v : v = SlotVa[c][s]
  OBVIOUS
<1>7. v \in SlotVas /\ array[c][s].va = v
  BY <1>5, <1>6, SlotVaOwn DEF Accounted
<1>8. mem' = Store(mem, v, page) /\ array' = [array EXCEPT ![c][s].use = TRUE]
  BY <1>7 DEF MmuMapIoPage, MmupWriteMappingPte
<1>9. Written(mem, mem', v, page)
  BY <1>5, <1>7, <1>8, StoreFacts
<1>10. /\ array' \in Mappings
       /\ array'[c][s].use = TRUE
       /\ array'[c][s].va = array[c][s].va /\ array'[c][s].orig = array[c][s].orig
       /\ \A d \in Cpus, t \in Slots : ~(d = c /\ t = s) => array'[d][t] = array[d][t]
  <2>1. UseSet(array, [array EXCEPT ![c][s].use = TRUE], c, s, TRUE)
    BY <1>5, <1>8, UseSetFacts
  <2>2. UseSet(array, array', c, s, TRUE)
    BY <1>5, <1>8, <2>1
  <2> QED BY <2>2 DEF UseSet
<1>11. array' # <<>>
  BY <1>10, MappingsNotEmpty
<1>12. Types'
  BY <1>9, <1>10 DEF Inv, Types, Written
<1>13. Exits'
  BY <1>3, <1>4 DEF Exits
<1>14. ASSUME NEW d \in Cpus PROVE Accounted(array', mem', d, Holds(x'[d]))
  <2> SUFFICES ASSUME NEW t \in Slots
               PROVE  /\ array'[d][t].va = SlotVa[d][t] /\ array'[d][t].orig = SlotPage[d][t]
                      /\ array'[d][t].use \in BOOLEAN
                      /\ (array'[d][t].use <=> SlotVa[d][t] \in Holds(x'[d]))
                      /\ Pte(mem', SlotVa[d][t]) # ZeroPte => array'[d][t].use
    BY DEF Accounted
  <2>1. /\ array[d][t].va = SlotVa[d][t] /\ array[d][t].orig = SlotPage[d][t]
        /\ array[d][t].use \in BOOLEAN
        /\ (array[d][t].use <=> SlotVa[d][t] \in Holds(x[d]))
        /\ Pte(mem, SlotVa[d][t]) # ZeroPte => array[d][t].use
    BY <1>5 DEF Accounted
  <2>2. CASE d = c /\ t = s
    BY <1>2, <1>6, <1>10, <2>1, <2>2
  <2>3. CASE ~(d = c /\ t = s)
    <3>1. SlotVa[d][t] # v
      BY <1>6, <2>3, SlotVasDiffer
    <3>2. Pte(mem', SlotVa[d][t]) = Pte(mem, SlotVa[d][t])
      BY <1>9, <3>1, SlotVaOwn DEF Written
    <3>3. SlotVa[d][t] \in Holds(x'[d]) <=> SlotVa[d][t] \in Holds(x[d])
      BY <1>2, <1>6, <3>1
    <3> QED BY <1>10, <2>1, <2>3, <3>2, <3>3
  <2> QED BY <2>2, <2>3
<1>15. Phases'
  <2>1. phase' = "on" /\ at' = 0 /\ ready'
    BY <1>5
  <2>2. \A d \in Cpus : Accounted(array', mem', d, Holds(x'[d]))
    BY <1>14
  <2> QED BY <1>11, <2>1, <2>2 DEF Phases
<1> QED BY <1>12, <1>13, <1>15 DEF Inv

(* A mapping is given back: MmuUnmapIoPage finds it by its address.        *)
LEMMA GivenInv ==
    ASSUME Inv, NEW c \in Cpus, NEW q, NEW t, NEW va, phase = "on",
           va \in Own(c), va \in Holds(x[c]),
           MmuUnmapIoPage(c, t, va),
           ExitOk(c, q), Holds(q) = Holds(x[c]) \ {va},
           x' = [x EXCEPT ![c] = q],
           UNCHANGED <<phase, at, ready, locked, fault>>
    PROVE  Inv'
<1>1. x = [d \in Cpus |-> x[d]] /\ \A d \in Cpus : ExitOk(d, x[d])
  BY DEF Inv, Exits
<1>2. \A d \in Cpus : x'[d] = IF d = c THEN q ELSE x[d]
  BY <1>1
<1>3. x' = [d \in Cpus |-> x'[d]]
  BY <1>1
<1>4. \A d \in Cpus : ExitOk(d, x'[d])
  BY <1>1, <1>2
<1>5. array # <<>>
  BY DEF Inv, Phases
<1>6. array \in Mappings /\ Built(mem) /\ at = 0 /\ ready
      /\ \A d \in Cpus : Accounted(array, mem, d, Holds(x[d]))
  BY <1>5 DEF Inv, Types, Phases
<1>7. PICK s \in Slots : va = SlotVa[c][s]
  BY DEF Own
<1>8. MmuGetMappingForVa(c, va) = s
  <2>1. array[c][s].use /\ array[c][s].va = va
    BY <1>6, <1>7 DEF Accounted
  <2>2. \A r \in Slots : array[c][r].use /\ array[c][r].va = va => r = s
    <3> SUFFICES ASSUME NEW r \in Slots, array[c][r].va = va PROVE r = s
      OBVIOUS
    <3>1. array[c][r].va = SlotVa[c][r]
      BY <1>6 DEF Accounted
    <3> QED BY <1>7, <3>1, SlotVasDiffer
  <2> QED BY <2>1, <2>2 DEF MmuGetMappingForVa
<1>9. mem' = Store(mem, va, ZeroPte) /\ array' = [array EXCEPT ![c][s].use = FALSE]
  BY <1>8 DEF MmuUnmapIoPage, MmupWriteMappingPte
<1>10. Written(mem, mem', va, ZeroPte)
  BY <1>6, <1>7, <1>9, SlotVaOwn, StoreFacts
<1>11. /\ array' \in Mappings
       /\ array'[c][s].use = FALSE
       /\ array'[c][s].va = array[c][s].va /\ array'[c][s].orig = array[c][s].orig
       /\ \A d \in Cpus, r \in Slots : ~(d = c /\ r = s) => array'[d][r] = array[d][r]
  <2>1. UseSet(array, [array EXCEPT ![c][s].use = FALSE], c, s, FALSE)
    BY <1>6, <1>9, UseSetFacts
  <2>2. UseSet(array, array', c, s, FALSE)
    BY <1>6, <1>9, <2>1
  <2> QED BY <2>2 DEF UseSet
<1>12. array' # <<>>
  BY <1>11, MappingsNotEmpty
<1>13. Types'
  BY <1>10, <1>11 DEF Inv, Types, Written
<1>14. Exits'
  BY <1>3, <1>4 DEF Exits
<1>15. ASSUME NEW d \in Cpus PROVE Accounted(array', mem', d, Holds(x'[d]))
  <2> SUFFICES ASSUME NEW r \in Slots
               PROVE  /\ array'[d][r].va = SlotVa[d][r] /\ array'[d][r].orig = SlotPage[d][r]
                      /\ array'[d][r].use \in BOOLEAN
                      /\ (array'[d][r].use <=> SlotVa[d][r] \in Holds(x'[d]))
                      /\ Pte(mem', SlotVa[d][r]) # ZeroPte => array'[d][r].use
    BY DEF Accounted
  <2>1. /\ array[d][r].va = SlotVa[d][r] /\ array[d][r].orig = SlotPage[d][r]
        /\ array[d][r].use \in BOOLEAN
        /\ (array[d][r].use <=> SlotVa[d][r] \in Holds(x[d]))
        /\ Pte(mem, SlotVa[d][r]) # ZeroPte => array[d][r].use
    BY <1>6 DEF Accounted
  <2>2. CASE d = c /\ r = s
    <3>1. Pte(mem', SlotVa[d][r]) = ZeroPte /\ SlotVa[d][r] \notin Holds(x'[d])
      BY <1>2, <1>7, <1>10, <2>2 DEF Written
    <3> QED BY <1>11, <2>1, <2>2, <3>1
  <2>3. CASE ~(d = c /\ r = s)
    <3>1. SlotVa[d][r] # va
      BY <1>7, <2>3, SlotVasDiffer
    <3>2. Pte(mem', SlotVa[d][r]) = Pte(mem, SlotVa[d][r])
      BY <1>10, <3>1, SlotVaOwn DEF Written
    <3>3. SlotVa[d][r] \in Holds(x'[d]) <=> SlotVa[d][r] \in Holds(x[d])
      BY <1>2, <3>1
    <3> QED BY <1>11, <2>1, <2>3, <3>2, <3>3
  <2> QED BY <2>2, <2>3
<1>16. Phases'
  <2>1. phase' = "on" /\ at' = 0 /\ ready'
    BY <1>6
  <2>2. \A d \in Cpus : Accounted(array', mem', d, Holds(x'[d]))
    BY <1>15
  <2> QED BY <1>12, <2>1, <2>2 DEF Phases
<1> QED BY <1>13, <1>14, <1>16 DEF Inv

-----------------------------------------------------------------------------
LEMMA Empty == Len(<<>>) = 0 /\ <<>> \in Seq(Nat) /\ Of(<<>>) = {}
<1>1. Of(<<>>) = {}
  BY DEF Of
<1>2. Len(<<>>) = 0
  OBVIOUS
<1>3. <<>> \in Seq(Nat)
  OBVIOUS
<1> QED BY <1>1, <1>2, <1>3

LEMMA HeldShape ==
    ASSUME NEW c, NEW h, HeldOk(c, h)
    PROVE  /\ Len(h) \in 0 .. 2
           /\ (Len(h) = 0) <=> (h = <<>>)
           /\ Of(h) \subseteq Own(c)
           /\ h # <<>> => Head(h) \in Own(c) /\ Head(h) \in Of(h)
                          /\ HeldOk(c, Tail(h)) /\ Of(Tail(h)) = Of(h) \ {Head(h)}
                          /\ Len(Tail(h)) = Len(h) - 1
<1>1. CASE h = <<>>
  BY <1>1 DEF Of
<1>2. CASE \E a \in Own(c) : h = <<a>>
  <2>1. PICK a \in Own(c) : h = <<a>>
    BY <1>2
  <2>2. Len(h) = 1 /\ Head(h) = a /\ Tail(h) = <<>> /\ DOMAIN h = {1} /\ h[1] = a /\ h # <<>>
    BY <2>1
  <2>3. Of(h) = {a}
    BY <2>2 DEF Of
  <2>4. HeldOk(c, <<>>)
    BY DEF HeldOk
  <2>5. Of(h) \subseteq Own(c) /\ Head(h) \in Own(c) /\ Head(h) \in Of(h)
    BY <2>2, <2>3
  <2>6. Of(Tail(h)) = Of(h) \ {Head(h)} /\ Len(Tail(h)) = Len(h) - 1 /\ HeldOk(c, Tail(h))
    <3>1. Of(Tail(h)) = {}
      BY <2>2, Empty
    <3>2. Len(Tail(h)) = 0
      BY <2>2
    <3>3. Len(Tail(h)) = Len(h) - 1
      BY <2>2, <3>2
    <3>4. Of(h) \ {Head(h)} = {}
      BY <2>2, <2>3
    <3>5. HeldOk(c, Tail(h))
      BY <2>2, <2>4
    <3> QED BY <3>1, <3>3, <3>4, <3>5
  <2> QED BY <2>2, <2>5, <2>6
<1>3. CASE \E a, b \in Own(c) : a # b /\ h = <<a, b>>
  <2>1. PICK a, b \in Own(c) : a # b /\ h = <<a, b>>
    BY <1>3
  <2>2. /\ Len(h) = 2 /\ Head(h) = a /\ Tail(h) = <<b>> /\ DOMAIN h = {1, 2}
        /\ h[1] = a /\ h[2] = b /\ h # <<>>
    BY <2>1
  <2>3. Of(h) = {a, b}
    BY <2>2 DEF Of
  <2>4. Of(<<b>>) = {b} /\ Len(<<b>>) = 1
    BY DEF Of
  <2>5. HeldOk(c, <<b>>)
    BY DEF HeldOk
  <2> QED BY <2>1, <2>2, <2>3, <2>4, <2>5
<1> QED BY <1>1, <1>2, <1>3 DEF HeldOk

LEMMA HeldGrows ==
    ASSUME NEW c, NEW h, HeldOk(c, h), Len(h) <= 1, NEW v \in Own(c), v \notin Of(h)
    PROVE  /\ HeldOk(c, Append(h, v)) /\ Of(Append(h, v)) = Of(h) \cup {v}
           /\ Len(Append(h, v)) = Len(h) + 1 /\ Append(h, v) # <<>>
<1>1. CASE h = <<>>
  <2>1. Append(h, v) = <<v>> /\ Len(h) = 0 /\ Of(h) = {}
    BY <1>1 DEF Of
  <2>2. Of(<<v>>) = {v} /\ Len(<<v>>) = 1
    BY DEF Of
  <2> QED BY <2>1, <2>2 DEF HeldOk
<1>2. CASE \E a \in Own(c) : h = <<a>>
  <2>1. PICK a \in Own(c) : h = <<a>>
    BY <1>2
  <2>2. Append(h, v) = <<a, v>> /\ Len(h) = 1
    <3>1. h \in Seq(Own(c)) /\ Len(h) = 1 /\ h[1] = a
      BY <2>1
    <3>2. PICK g : g = Append(h, v)
      OBVIOUS
    <3>3. g \in Seq(Own(c)) /\ Len(g) = 2 /\ g[1] = a /\ g[2] = v
      <4>1. PICK S : S = Own(c) /\ h \in Seq(S) /\ v \in S
        BY <3>1
      <4>2. /\ g \in Seq(S) /\ Len(g) = Len(h) + 1
            /\ \A i \in 1 .. Len(h) : g[i] = h[i]
            /\ g[Len(h) + 1] = v
        BY <3>2, <4>1, AppendProperties
      <4> QED BY <3>1, <4>1, <4>2
    <3>4. g = <<g[1], g[2]>>
      BY <3>3
    <3> QED BY <3>1, <3>2, <3>3, <3>4
  <2>3. Of(h) = {a}
    BY <2>1 DEF Of
  <2>4. Of(<<a, v>>) = {a, v} /\ Len(<<a, v>>) = 2 /\ <<a, v>> # <<>>
    BY DEF Of
  <2>5. HeldOk(c, <<a, v>>)
    BY <2>3 DEF HeldOk
  <2> QED BY <2>2, <2>3, <2>4, <2>5
<1>3. CASE \E a, b \in Own(c) : a # b /\ h = <<a, b>>
  <2>1. Len(h) = 2
    BY <1>3
  <2> QED BY <2>1
<1> QED BY <1>1, <1>2, <1>3 DEF HeldOk

(* The function fails: what it holds it gives back.                        *)
LEMMA FailOk ==
    ASSUME NEW c \in Cpus, NEW r, IsExit(r), HeldOk(c, r.held), r.table = 0
    PROVE  ExitOk(c, Fail(r)) /\ Holds(Fail(r)) = Of(r.held)
<1>1. PICK q : q = Fail(r)
  OBVIOUS
<1>2. /\ IsExit(q) /\ q.pc = IF r.held = <<>> THEN "done" ELSE "unmap"
      /\ q.held = r.held /\ q.todo = <<>> /\ q.table = 0
  BY <1>1 DEF Fail, IsExit
<1>3. Len(q.held) \in 0 .. 2
  BY <1>2, HeldShape
<1>4. Len(q.held) + Len(q.todo) <= 2 /\ q.todo \in Seq(Nat)
  <2>1. q.todo = <<>>
    BY <1>2
  <2>2. Len(q.todo) = 0
    BY <2>1
  <2>3. q.todo \in Seq(Nat)
    BY <2>1
  <2>4. Len(q.held) + Len(q.todo) <= 2
    <3>1. PICK i : i = Len(q.held)
      OBVIOUS
    <3>2. PICK j : j = Len(q.todo)
      OBVIOUS
    <3>3. i \in 0 .. 2
      BY <1>3, <3>1
    <3>4. j = 0
      BY <2>2, <3>2
    <3>5. i + j <= 2
      BY <3>3, <3>4
    <3> QED BY <3>1, <3>2, <3>5
  <2> QED BY <2>3, <2>4
<1>5. ExitOk(c, q)
  BY <1>2, <1>4 DEF ExitOk
<1>6. Holds(q) = Of(r.held)
  BY <1>2 DEF Holds
<1> QED BY <1>1, <1>5, <1>6

LEMMA ExitIs ==
    ASSUME Inv, NEW c \in Cpus
    PROVE  ExitOk(c, x[c]) /\ IsExit(x[c]) /\ HeldOk(c, x[c].held)
BY DEF Inv, Exits, ExitOk

LEMMA ReadInv == \A c \in Cpus : Inv /\ VmReadGuestInstruction(c) => Inv'
<1> SUFFICES ASSUME NEW c \in Cpus, Inv, VmReadGuestInstruction(c) PROVE Inv'
  OBVIOUS
<1>1. PICK cr3 \in GuestCr3s, va \in Instructions :
        Goto(c, [Idle EXCEPT !.pc = "translate", !.op = "instruction", !.cr3 = cr3, !.va = va,
                    !.todo = IF PagesSpanned(va) = 1 THEN <<va>> ELSE <<va, va + INS>>])
  BY DEF VmReadGuestInstruction
<1>2. PICK todo : todo = IF PagesSpanned(va) = 1 THEN <<va>> ELSE <<va, va + INS>>
  OBVIOUS
<1>3. todo \in Seq(Nat) /\ Len(todo) \in 1 .. 2 /\ todo # <<>>
  <2>1. va \in Nat /\ va + INS \in Nat
    BY TableAssumption DEF INS
  <2> QED BY <1>2, <2>1
<1>4. PICK q : q = [Idle EXCEPT !.pc = "translate", !.op = "instruction", !.cr3 = cr3, !.va = va,
                       !.todo = todo]
  OBVIOUS
<1>5. x' = [x EXCEPT ![c] = q]
  BY <1>1, <1>2, <1>4 DEF Goto
<1>6. /\ IsExit(q) /\ q.pc = "translate" /\ q.held = <<>> /\ q.todo = todo /\ q.table = 0
  BY <1>4 DEF Idle, IsExit
<1>7. Len(q.held) + Len(q.todo) <= 2
  <2>1. PICK i : i = Len(q.held)
    OBVIOUS
  <2>2. PICK j : j = Len(q.todo)
    OBVIOUS
  <2>3. i = 0
    BY <1>6, <2>1
  <2>4. j \in 1 .. 2
    BY <1>3, <1>6, <2>2
  <2>5. i + j <= 2
    BY <2>3, <2>4
  <2> QED BY <2>1, <2>2, <2>5
<1>8. ExitOk(c, q) /\ Holds(q) = {}
  <2>1. HeldOk(c, q.held)
    BY <1>6 DEF HeldOk
  <2>2. Holds(q) = {}
    BY <1>6, Empty DEF Holds
  <2> QED BY <1>3, <1>6, <1>7, <2>1, <2>2 DEF ExitOk
<1>9. phase = "on" /\ x[c].pc = "idle" /\ UNCHANGED <<mem, array, phase, at, ready, locked, fault>>
  BY DEF VmReadGuestInstruction, InRoot, initVars
<1>10. Holds(x[c]) = {}
  BY <1>9, ExitIs, IdleHolds
<1> QED BY <1>5, <1>8, <1>9, <1>10, MovedInv

LEMMA CopySiblingInv == \A c \in Cpus : Inv /\ TdCopySiblingMemory(c) => Inv'
<1> SUFFICES ASSUME NEW c \in Cpus, Inv, TdCopySiblingMemory(c) PROVE Inv'
  OBVIOUS
<1>1. PICK cr3 \in GuestCr3s, sib \in Siblings :
        Goto(c, [Idle EXCEPT !.pc = "translate", !.op = "sibling", !.cr3 = cr3,
                    !.va = sib[1], !.end = sib[2],
                    !.todo = IF PageOf(sib[1]) = PageOf(sib[2])
                               THEN <<PageOf(sib[1])>> ELSE <<PageOf(sib[1]), PageOf(sib[2])>>])
  BY DEF TdCopySiblingMemory
<1>2. PICK todo : todo = IF PageOf(sib[1]) = PageOf(sib[2])
                           THEN <<PageOf(sib[1])>> ELSE <<PageOf(sib[1]), PageOf(sib[2])>>
  OBVIOUS
<1>3. todo \in Seq(Nat) /\ Len(todo) \in 1 .. 2 /\ todo # <<>>
  <2>1. \A v \in Nat : PageOf(v) \in Nat
    <3> SUFFICES ASSUME NEW v \in Nat PROVE PageOf(v) \in Nat
      OBVIOUS
    <3>1. PICK d : d = Entries /\ d \in Nat \ {0}
      BY TableAssumption
    <3>2. PICK a, b \in Nat : b < d /\ v = a * d + b /\ a = v \div d /\ b = v % d
      BY <3>1, Divided
    <3>3. a * d \in Nat
      BY <3>1, ProductGrows
    <3> QED BY <3>1, <3>2, <3>3 DEF PageOf
  <2>2. sib[1] \in Nat /\ sib[2] \in Nat
    BY TableAssumption
  <2>3. PICK a, b \in Nat : a = PageOf(sib[1]) /\ b = PageOf(sib[2])
    BY <2>1, <2>2
  <2> QED BY <1>2, <2>3
<1>4. PICK q : q = [Idle EXCEPT !.pc = "translate", !.op = "sibling", !.cr3 = cr3,
                       !.va = sib[1], !.end = sib[2], !.todo = todo]
  OBVIOUS
<1>5. x' = [x EXCEPT ![c] = q]
  BY <1>1, <1>2, <1>4 DEF Goto
<1>6. /\ IsExit(q) /\ q.pc = "translate" /\ q.held = <<>> /\ q.todo = todo /\ q.table = 0
  BY <1>4 DEF Idle, IsExit
<1>7. Len(q.held) + Len(q.todo) <= 2
  <2>1. PICK i : i = Len(q.held)
    OBVIOUS
  <2>2. PICK j : j = Len(q.todo)
    OBVIOUS
  <2>3. i = 0
    BY <1>6, <2>1
  <2>4. j \in 1 .. 2
    BY <1>3, <1>6, <2>2
  <2>5. i + j <= 2
    BY <2>3, <2>4
  <2> QED BY <2>1, <2>2, <2>5
<1>8. ExitOk(c, q) /\ Holds(q) = {}
  <2>1. HeldOk(c, q.held)
    BY <1>6 DEF HeldOk
  <2>2. Holds(q) = {}
    BY <1>6, Empty DEF Holds
  <2> QED BY <1>3, <1>6, <1>7, <2>1, <2>2 DEF ExitOk
<1>9. phase = "on" /\ x[c].pc = "idle" /\ UNCHANGED <<mem, array, phase, at, ready, locked, fault>>
  BY DEF TdCopySiblingMemory, InRoot, initVars
<1>10. Holds(x[c]) = {}
  BY <1>9, ExitIs, IdleHolds
<1> QED BY <1>5, <1>8, <1>9, <1>10, MovedInv

LEMMA PhysicalInv == \A c \in Cpus : Inv /\ MmuGetPhysicalAddress(c) => Inv'
<1> SUFFICES ASSUME NEW c \in Cpus, Inv, MmuGetPhysicalAddress(c) PROVE Inv'
  OBVIOUS
<1>1. PICK r : r = x[c]
  OBVIOUS
<1>2. PICK pa : pa = Translate(mem, HostCr3, Head(r.todo))
  OBVIOUS
<1>3. PICK q : q = IF r.cr3 # HostCr3
                     THEN [r EXCEPT !.pc = "walk", !.level = Levels, !.pa = r.cr3]
                   ELSE IF pa \in {ZeroPte, Large} THEN Fail(r)
                   ELSE [r EXCEPT !.pc = "map", !.pa = pa]
  OBVIOUS
<1>4. x' = [x EXCEPT ![c] = q]
  BY <1>1, <1>2, <1>3 DEF MmuGetPhysicalAddress, Goto
<1>5. phase = "on" /\ r.pc = "translate" /\ UNCHANGED <<mem, array, phase, at, ready, locked, fault>>
  BY <1>1 DEF MmuGetPhysicalAddress, InRoot, initVars
<1>6. ExitOk(c, r) /\ IsExit(r) /\ HeldOk(c, r.held)
  BY <1>1, ExitIs
<1>7. r.table = 0 /\ Holds(r) = Of(r.held)
  BY <1>5, <1>6 DEF ExitOk, Holds
<1>8. ExitOk(c, q) /\ Holds(q) = Of(r.held)
  <2>1. CASE q = [r EXCEPT !.pc = "walk", !.level = Levels, !.pa = r.cr3]
    <3>1. /\ IsExit(q) /\ q.pc = "walk" /\ q.held = r.held /\ q.todo = r.todo /\ q.table = 0
          /\ q.level = Levels
      BY <1>6, <1>7, <2>1 DEF IsExit
    <3>2. Levels \in 1 .. Levels
      BY TableAssumption
    <3> QED BY <1>5, <1>6, <3>1, <3>2 DEF ExitOk, Holds
  <2>2. CASE q = Fail(r)
    BY <1>6, <1>7, <2>2, FailOk
  <2>3. CASE q = [r EXCEPT !.pc = "map", !.pa = pa]
    <3>1. /\ IsExit(q) /\ q.pc = "map" /\ q.held = r.held /\ q.todo = r.todo /\ q.table = 0
      BY <1>6, <1>7, <2>3 DEF IsExit
    <3> QED BY <1>5, <1>6, <3>1 DEF ExitOk, Holds
  <2> QED BY <1>3, <2>1, <2>2, <2>3
<1> QED BY <1>1, <1>4, <1>5, <1>7, <1>8, MovedInv

LEMMA WalkMapInv == \A c \in Cpus : Inv /\ WalkMap(c) => Inv'
<1> SUFFICES ASSUME NEW c \in Cpus, Inv, WalkMap(c) PROVE Inv'
  OBVIOUS
<1>1. PICK r : r = x[c]
  OBVIOUS
<1>2. PICK s : s = MmuAcquireMapping(c)
  OBVIOUS
<1>3. phase = "on" /\ r.pc = "walk" /\ array # <<>> /\ UNCHANGED <<phase, at, ready, locked, fault>>
  BY <1>1 DEF WalkMap, InRoot
<1>4. ExitOk(c, r) /\ IsExit(r) /\ HeldOk(c, r.held)
  BY <1>1, ExitIs
<1>5. r.table = 0 /\ Holds(r) = Of(r.held)
  BY <1>3, <1>4 DEF ExitOk, Holds
<1>6. CASE s = 0
  <2>1. x' = [x EXCEPT ![c] = Fail(r)] /\ UNCHANGED <<mem, tlb, array>>
    BY <1>1, <1>2, <1>6 DEF WalkMap, Goto
  <2>2. ExitOk(c, Fail(r)) /\ Holds(Fail(r)) = Of(r.held)
    BY <1>4, <1>5, FailOk
  <2> QED BY <1>1, <1>3, <1>5, <2>1, <2>2, MovedInv
<1>7. CASE s # 0
  <2>1. s \in Slots /\ ~array[c][s].use
    BY <1>2, <1>7, AcquireFacts
  <2>2. Accounted(array, mem, c, Holds(r))
    BY <1>1, <1>3 DEF Inv, Phases
  <2>3. array[c][s].va = SlotVa[c][s] /\ SlotVa[c][s] \notin Of(r.held)
    BY <1>5, <2>1, <2>2 DEF Accounted
  <2>4. PICK v : v = SlotVa[c][s]
    OBVIOUS
  <2>5. v \in Own(c) /\ v # 0
    BY <2>1, <2>4, SlotVaOwn
  <2>6. PICK q : q = [r EXCEPT !.pc = "walk2", !.table = v]
    OBVIOUS
  <2>7. x' = [x EXCEPT ![c] = q] /\ MmuMapIoPage(c, s, r.pa)
    BY <1>1, <1>2, <1>7, <2>3, <2>4, <2>6 DEF WalkMap, Goto
  <2>8. /\ IsExit(q) /\ q.pc = "walk2" /\ q.held = r.held /\ q.todo = r.todo /\ q.table = v
        /\ q.level = r.level
    BY <1>4, <2>6 DEF IsExit
  <2>9. ExitOk(c, q)
    BY <1>3, <1>4, <2>3, <2>4, <2>5, <2>8 DEF ExitOk
  <2>10. Holds(q) = Holds(r) \cup {SlotVa[c][s]}
    BY <1>5, <2>4, <2>5, <2>8 DEF Holds
  <2> QED BY <1>1, <1>3, <2>1, <2>7, <2>9, <2>10, TakenInv
<1> QED BY <1>6, <1>7

LEMMA WalkReadInv == \A c \in Cpus : Inv /\ WalkRead(c) => Inv'
<1> SUFFICES ASSUME NEW c \in Cpus, Inv, WalkRead(c) PROVE Inv'
  OBVIOUS
<1>1. PICK r : r = x[c]
  OBVIOUS
<1>2. PICK e : e = Entry(mem, View(c, r.table), MmuAddressToPti(r.level, Head(r.todo)))
  OBVIOUS
<1>3. PICK t : t = Loaded(c, {r.table})
  OBVIOUS
<1>4. PICK v : v = r.table
  OBVIOUS
<1>5. PICK q : q = NextLevel(r, e)
  OBVIOUS
<1>6. x' = [x EXCEPT ![c] = q] /\ MmuUnmapIoPage(c, t, v)
  BY <1>1, <1>2, <1>3, <1>4, <1>5 DEF WalkRead, Goto
<1>7. phase = "on" /\ r.pc = "walk2" /\ UNCHANGED <<phase, at, ready, locked, fault>>
  BY <1>1 DEF WalkRead, InRoot
<1>8. ExitOk(c, r) /\ IsExit(r) /\ HeldOk(c, r.held)
  BY <1>1, ExitIs
<1>9. v \in Own(c) /\ v \notin Of(r.held)
  BY <1>4, <1>7, <1>8 DEF ExitOk
<1>10. v # 0
  BY <1>9, SlotVaOwn DEF Own
<1>11. v \in Holds(r) /\ Of(r.held) = Holds(r) \ {v}
  BY <1>4, <1>9, <1>10 DEF Holds
<1>12. ExitOk(c, q) /\ Holds(q) = Of(r.held)
  <2>1. CASE e = ZeroPte \/ (r.level # 1 /\ e = Large)
    <3>1. PICK f : f = [r EXCEPT !.table = 0]
      OBVIOUS
    <3>2. IsExit(f) /\ f.held = r.held /\ f.table = 0
      BY <1>8, <3>1 DEF IsExit
    <3>3. q = Fail(f)
      BY <1>5, <2>1, <3>1 DEF NextLevel
    <3> QED BY <1>8, <3>2, <3>3, FailOk
  <2>2. CASE ~(e = ZeroPte \/ (r.level # 1 /\ e = Large)) /\ r.level = 1
    <3>1. q = [r EXCEPT !.pc = "map", !.pa = e, !.table = 0]
      BY <1>5, <2>2 DEF NextLevel
    <3>2. /\ IsExit(q) /\ q.pc = "map" /\ q.held = r.held /\ q.todo = r.todo /\ q.table = 0
      BY <1>8, <3>1 DEF IsExit
    <3> QED BY <1>7, <1>8, <3>2 DEF ExitOk, Holds
  <2>3. CASE ~(e = ZeroPte \/ (r.level # 1 /\ e = Large)) /\ r.level # 1
    <3>1. q = [r EXCEPT !.pc = "walk", !.pa = e, !.level = r.level - 1, !.table = 0]
      BY <1>5, <2>3 DEF NextLevel
    <3>2. /\ IsExit(q) /\ q.pc = "walk" /\ q.held = r.held /\ q.todo = r.todo /\ q.table = 0
          /\ q.level = r.level - 1
      BY <1>8, <3>1 DEF IsExit
    <3>3. r.level \in 1 .. Levels /\ Levels \in Nat
      BY <1>7, <1>8, TableAssumption DEF ExitOk
    <3>4. q.level \in 1 .. Levels
      BY <2>3, <3>2, <3>3
    <3> QED BY <1>7, <1>8, <3>2, <3>4 DEF ExitOk, Holds
  <2> QED BY <2>1, <2>2, <2>3
<1>13. Holds(q) = Holds(x[c]) \ {v} /\ v \in Holds(x[c])
  BY <1>1, <1>11, <1>12
<1> QED BY <1>6, <1>7, <1>9, <1>12, <1>13, GivenInv

LEMMA MapPageInv == \A c \in Cpus : Inv /\ MapPage(c) => Inv'
<1> SUFFICES ASSUME NEW c \in Cpus, Inv, MapPage(c) PROVE Inv'
  OBVIOUS
<1>1. PICK r : r = x[c]
  OBVIOUS
<1>2. PICK s : s = MmuAcquireMapping(c)
  OBVIOUS
<1>3. phase = "on" /\ r.pc = "map" /\ array # <<>> /\ UNCHANGED <<phase, at, ready, locked, fault>>
  BY <1>1 DEF MapPage, InRoot
<1>4. ExitOk(c, r) /\ IsExit(r) /\ HeldOk(c, r.held)
  BY <1>1, ExitIs
<1>5. r.table = 0 /\ Holds(r) = Of(r.held)
  BY <1>3, <1>4 DEF ExitOk, Holds
<1>6. CASE s = 0
  <2>1. x' = [x EXCEPT ![c] = Fail(r)] /\ UNCHANGED <<mem, tlb, array>>
    BY <1>1, <1>2, <1>6 DEF MapPage, Goto
  <2>2. ExitOk(c, Fail(r)) /\ Holds(Fail(r)) = Of(r.held)
    BY <1>4, <1>5, FailOk
  <2> QED BY <1>1, <1>3, <1>5, <2>1, <2>2, MovedInv
<1>7. CASE s # 0
  <2>1. s \in Slots /\ ~array[c][s].use
    BY <1>2, <1>7, AcquireFacts
  <2>2. Accounted(array, mem, c, Holds(r))
    BY <1>1, <1>3 DEF Inv, Phases
  <2>3. array[c][s].va = SlotVa[c][s] /\ SlotVa[c][s] \notin Of(r.held)
    BY <1>5, <2>1, <2>2 DEF Accounted
  <2>4. PICK v : v = SlotVa[c][s]
    OBVIOUS
  <2>5. v \in Own(c) /\ v # 0
    BY <2>1, <2>4, SlotVaOwn
  <2>6. PICK h : h = r.held
    OBVIOUS
  <2>7. PICK todo : todo = r.todo
    OBVIOUS
  <2>8. todo \in Seq(Nat) /\ todo # <<>> /\ Len(h) + Len(todo) <= 2 /\ HeldOk(c, h) /\ v \notin Of(h)
    BY <1>3, <1>4, <2>3, <2>4, <2>6, <2>7 DEF ExitOk
  <2>9. PICK i : i = Len(h) /\ i \in 0 .. 2
    BY <2>8, HeldShape
  <2>10. PICK j \in Nat : j = Len(todo) /\ j >= 1
    BY <2>8
  <2>11. i + j <= 2
    BY <2>8, <2>9, <2>10
  <2>12. Len(h) <= 1
    BY <2>9, <2>10, <2>11
  <2>13. /\ HeldOk(c, Append(h, v)) /\ Of(Append(h, v)) = Of(h) \cup {v}
         /\ Len(Append(h, v)) = Len(h) + 1 /\ Append(h, v) # <<>>
    BY <2>5, <2>8, <2>12, HeldGrows
  <2>14. Tail(todo) \in Seq(Nat) /\ Len(Tail(todo)) = Len(todo) - 1
    BY <2>8
  <2>15. PICK g : g = Append(h, v)
    OBVIOUS
  <2>16. PICK u : u = Tail(todo)
    OBVIOUS
  <2>17. Len(g) + Len(u) <= 2
    <3>1. Len(g) = i + 1
      BY <2>9, <2>13, <2>15
    <3>2. Len(u) = j - 1
      BY <2>10, <2>14, <2>16
    <3>3. (i + 1) + (j - 1) <= 2
      BY <2>9, <2>11
    <3> QED BY <3>1, <3>2, <3>3
  <2>18. PICK pc : pc = IF r.op = "sibling" /\ Len(todo) > 1 THEN "translate" ELSE "copy"
    OBVIOUS
  <2>19. pc = "translate" => u # <<>>
    <3> SUFFICES ASSUME pc = "translate" PROVE u # <<>>
      OBVIOUS
    <3>1. j > 1
      BY <2>10, <2>18
    <3>2. Len(u) # 0
      BY <2>10, <2>14, <2>16, <3>1
    <3> QED BY <3>2
  <2>20. PICK q : q = [r EXCEPT !.held = g, !.todo = u, !.pa = 0, !.level = 0, !.pc = pc]
    OBVIOUS
  <2>21. x' = [x EXCEPT ![c] = q] /\ MmuMapIoPage(c, s, r.pa)
    BY <1>1, <1>2, <1>7, <2>3, <2>4, <2>6, <2>7, <2>15, <2>16, <2>18, <2>20 DEF MapPage, Goto
  <2>22. IsExit(q) /\ q.pc = pc /\ q.held = g /\ q.todo = u /\ q.table = 0
    BY <1>4, <1>5, <2>20 DEF IsExit
  <2>23. ExitOk(c, q)
    <3>1. q.pc \in {"translate", "copy"}
      BY <2>18, <2>22
    <3>2. q.pc = "translate" => q.todo # <<>>
      BY <2>19, <2>22
    <3>3. q.held # <<>> /\ HeldOk(c, q.held)
      BY <2>13, <2>15, <2>22
    <3>4. q.todo \in Seq(Nat) /\ Len(q.held) + Len(q.todo) <= 2
      BY <2>14, <2>16, <2>17, <2>22
    <3> QED BY <2>22, <3>1, <3>2, <3>3, <3>4 DEF ExitOk
  <2>24. Holds(q) = Holds(r) \cup {SlotVa[c][s]}
    BY <1>5, <2>4, <2>6, <2>13, <2>15, <2>22 DEF Holds
  <2> QED BY <1>1, <1>3, <2>1, <2>21, <2>23, <2>24, TakenInv
<1> QED BY <1>6, <1>7

LEMMA NullArrayInv == \A c \in Cpus : Inv /\ NullArray(c) => Inv'
<1> SUFFICES ASSUME NEW c \in Cpus, Inv, NullArray(c) PROVE Inv'
  OBVIOUS
<1> USE DEF NullArray
<1>1. Types'
  BY DEF Inv, Types
<1>2. Exits'
  BY DEF Inv, Exits
<1> QED BY <1>1, <1>2 DEF Inv, Phases

LEMMA CopyInv == \A c \in Cpus : Inv /\ Copy(c) => Inv'
<1> SUFFICES ASSUME NEW c \in Cpus, Inv, Copy(c) PROVE Inv'
  OBVIOUS
<1>1. PICK r : r = x[c]
  OBVIOUS
<1>2. PICK out : x' = [x EXCEPT ![c] = [r EXCEPT !.pc = "unmap", !.out = out]]
  BY <1>1 DEF Copy, Goto
<1>3. phase = "on" /\ r.pc = "copy" /\ UNCHANGED <<mem, array, phase, at, ready, locked, fault>>
  BY <1>1 DEF Copy, InRoot, initVars
<1>4. ExitOk(c, r) /\ IsExit(r)
  BY <1>1, ExitIs
<1>5. PICK q : q = [r EXCEPT !.pc = "unmap", !.out = out]
  OBVIOUS
<1>6. IsExit(q) /\ q.pc = "unmap" /\ q.held = r.held /\ q.todo = r.todo /\ q.table = r.table
  BY <1>4, <1>5 DEF IsExit
<1>7. ExitOk(c, q) /\ Holds(q) = Holds(r)
  BY <1>3, <1>4, <1>6 DEF ExitOk, Holds
<1> QED BY <1>1, <1>2, <1>3, <1>5, <1>7, MovedInv

LEMMA UnmapInv == \A c \in Cpus : Inv /\ UnmapPage(c) => Inv'
<1> SUFFICES ASSUME NEW c \in Cpus, Inv, UnmapPage(c) PROVE Inv'
  OBVIOUS
<1>1. PICK r : r = x[c]
  OBVIOUS
<1>2. PICK h : h = r.held
  OBVIOUS
<1>3. PICK pc : pc = IF Len(h) > 1 THEN "unmap" ELSE IF r.todo # <<>> THEN "translate" ELSE "done"
  OBVIOUS
<1>4. PICK g : g = Tail(h)
  OBVIOUS
<1>5. PICK q : q = [r EXCEPT !.held = g, !.pc = pc]
  OBVIOUS
<1>6. PICK v : v = Head(h)
  OBVIOUS
<1>7. x' = [x EXCEPT ![c] = q] /\ MmuUnmapIoPage(c, tlb, v)
  BY <1>1, <1>2, <1>3, <1>4, <1>5, <1>6 DEF UnmapPage, Goto
<1>8. phase = "on" /\ r.pc = "unmap" /\ UNCHANGED <<phase, at, ready, locked, fault>>
  BY <1>1 DEF UnmapPage, InRoot
<1>9. ExitOk(c, r) /\ IsExit(r) /\ HeldOk(c, h)
  BY <1>1, <1>2, ExitIs
<1>10. r.table = 0 /\ Holds(r) = Of(h) /\ h # <<>> /\ r.todo \in Seq(Nat) /\ Len(h) + Len(r.todo) <= 2
  BY <1>2, <1>8, <1>9 DEF ExitOk, Holds
<1>11. /\ v \in Own(c) /\ v \in Of(h) /\ HeldOk(c, g) /\ Of(g) = Of(h) \ {v}
       /\ Len(g) = Len(h) - 1 /\ Len(h) \in 0 .. 2
  BY <1>4, <1>6, <1>9, <1>10, HeldShape
<1>12. IsExit(q) /\ q.pc = pc /\ q.held = g /\ q.todo = r.todo /\ q.table = 0
  BY <1>5, <1>9, <1>10 DEF IsExit
<1>13. Len(h) > 1 => g # <<>>
  <2> SUFFICES ASSUME Len(h) > 1 PROVE g # <<>>
    OBVIOUS
  <2>1. Len(g) # 0
    BY <1>11
  <2> QED BY <2>1
<1>14. ~(Len(h) > 1) => g = <<>>
  <2> SUFFICES ASSUME ~(Len(h) > 1) PROVE g = <<>>
    OBVIOUS
  <2>1. Len(h) # 0
    BY <1>9, <1>10, HeldShape
  <2>2. Len(g) = 0
    BY <1>11, <2>1
  <2> QED BY <1>11, <2>2, HeldShape
<1>15. Len(g) + Len(r.todo) <= 2
  <2>1. PICK t : t = r.todo
    OBVIOUS
  <2>2. t \in Seq(Nat) /\ Len(h) + Len(t) <= 2
    BY <1>10, <2>1
  <2>3. Len(g) + Len(t) <= 2
    <3>1. PICK i : i = Len(h) /\ i \in 0 .. 2
      BY <1>11
    <3>2. PICK j \in Nat : j = Len(t)
      BY <2>2
    <3>3. i + j <= 2
      BY <2>2, <3>1, <3>2
    <3>4. Len(g) = i - 1
      BY <1>11, <3>1
    <3>5. (i - 1) + j <= 2
      BY <3>1, <3>3
    <3> QED BY <3>2, <3>4, <3>5
  <2> QED BY <2>1, <2>3
<1>16. ExitOk(c, q)
  <2>1. pc \in {"unmap", "translate", "done"}
    BY <1>3
  <2>2. pc = "unmap" => q.held # <<>>
    BY <1>3, <1>12, <1>13
  <2>3. pc = "translate" => q.todo # <<>>
    BY <1>3, <1>12
  <2>4. pc = "done" => q.held = <<>>
    BY <1>3, <1>12, <1>14
  <2>5. q.todo \in Seq(Nat) /\ Len(q.held) + Len(q.todo) <= 2
    BY <1>10, <1>12, <1>15
  <2>6. HeldOk(c, q.held)
    BY <1>11, <1>12
  <2> QED BY <1>12, <2>1, <2>2, <2>3, <2>4, <2>5, <2>6 DEF ExitOk
<1>17. Holds(q) = Of(g)
  BY <1>12 DEF Holds
<1>18. Holds(q) = Holds(x[c]) \ {v} /\ v \in Holds(x[c])
  BY <1>1, <1>10, <1>11, <1>17
<1> QED BY <1>7, <1>8, <1>11, <1>16, <1>18, GivenInv

LEMMA ResumeInv == \A c \in Cpus : Inv /\ Resume(c) => Inv'
<1> SUFFICES ASSUME NEW c \in Cpus, Inv, Resume(c) PROVE Inv'
  OBVIOUS
<1>1. /\ phase = "on" /\ x[c].pc = "done" /\ UNCHANGED <<mem, array, phase, at, ready, locked, fault>>
      /\ x' = [x EXCEPT ![c] = Idle]
  BY DEF Resume, InRoot, initVars, Goto
<1>2. Holds(x[c]) = {}
  BY <1>1, ExitIs, IdleHolds
<1>3. ExitOk(c, Idle) /\ Holds(Idle) = {}
  BY IdleOk, IdleHolds
<1> QED BY <1>1, <1>2, <1>3, MovedInv

LEMMA NextInv == Inv /\ [Next]_vars => Inv'
<1> SUFFICES ASSUME Inv, [Next]_vars PROVE Inv'
  OBVIOUS
<1>1. CASE MmuInitialize
  BY <1>1, InitializeInv
<1>2. CASE Map
  BY <1>2, MapInv
<1>3. CASE NoMap
  BY <1>3, NoMapInv
<1>4. CASE NoLock
  BY <1>4, NoLockInv
<1>5. CASE MmuFinalize
  BY <1>5, FinalizeInv
<1>6. CASE Unload
  BY <1>6, UnloadInv
<1>7. CASE Remap
  BY <1>7, RemapInv
<1>8. CASE \E c \in Cpus : Step(c)
  <2>1. PICK c \in Cpus : Step(c)
    BY <1>8
  <2> QED BY <2>1, ReadInv, CopySiblingInv, PhysicalInv, WalkMapInv, WalkReadInv, MapPageInv,
             NullArrayInv, CopyInv, UnmapInv, ResumeInv DEF Step
<1>9. CASE UNCHANGED vars
  BY <1>9 DEF vars, Inv, Types, Exits, Phases
<1> QED BY <1>1, <1>2, <1>3, <1>4, <1>5, <1>6, <1>7, <1>8, <1>9 DEF Next

-----------------------------------------------------------------------------
LEMMA HeldHolds ==
    ASSUME NEW c
    PROVE  Held(c) = Holds(x[c])
BY DEF Held, Holds, Of

LEMMA InvTypeOK == Inv => TypeOK
<1> SUFFICES ASSUME Inv PROVE TypeOK
  OBVIOUS
<1>1. ASSUME NEW c \in Cpus
      PROVE  (x[c].pc \in {"walk", "walk2"} => x[c].level \in 1 .. Levels) /\ Held(c) \subseteq SlotVas
  <2>1. ExitOk(c, x[c]) /\ Of(x[c].held) \subseteq Own(c)
    BY ExitIs, HeldShape
  <2>2. x[c].table = 0 \/ x[c].table \in Own(c)
    BY <2>1 DEF ExitOk
  <2>3. Own(c) \subseteq SlotVas
    BY DEF Own, SlotVas
  <2>4. Holds(x[c]) \subseteq SlotVas
    BY <2>1, <2>2, <2>3 DEF Holds
  <2> QED BY <2>1, <2>4, HeldHolds DEF ExitOk
<1> QED BY <1>1 DEF Inv, Types, TypeOK, Built, Mappings

LEMMA InvMappings == Inv => MappingsAreHeld
<1> SUFFICES ASSUME Inv, phase = "on", array # <<>>, NEW c \in Cpus, NEW s \in Slots
             PROVE  /\ (array[c][s].use <=> array[c][s].va \in Held(c))
                    /\ Pte(mem, array[c][s].va) # ZeroPte => array[c][s].use
  BY DEF MappingsAreHeld
<1>1. Accounted(array, mem, c, Holds(x[c]))
  BY DEF Inv, Phases
<1> QED BY <1>1, HeldHolds DEF Accounted

LEMMA InvSuffice == Inv => SlotsSuffice
<1> SUFFICES ASSUME Inv, NEW c \in Cpus, array # <<>>, x[c].pc \in {"walk", "map"},
                    MmuAcquireMapping(c) = 0
             PROVE  FALSE
  BY DEF SlotsSuffice
<1>1. PICK r : r = x[c]
  OBVIOUS
<1>2. ExitOk(c, r) /\ HeldOk(c, r.held) /\ r.pc \in {"walk", "map"}
  BY <1>1, ExitIs
<1>3. phase = "on"
  BY <1>1, <1>2 DEF Inv, Exits
<1>4. \A s \in Slots : array[c][s].use
  <2>1. 0 \notin Slots
    BY SlotAssumption
  <2> QED BY <2>1, AcquireFacts
<1>5. \A s \in Slots : SlotVa[c][s] \in Holds(r)
  BY <1>1, <1>3, <1>4 DEF Inv, Phases, Accounted
<1>6. PICK h : h = r.held
  OBVIOUS
<1>7. PICK t : t = r.todo
  OBVIOUS
<1>8. Holds(r) = Of(h) /\ HeldOk(c, h) /\ t \in Seq(Nat) /\ t # <<>> /\ Len(h) + Len(t) <= 2
  BY <1>2, <1>6, <1>7 DEF ExitOk, Holds
<1>9. h = <<>> \/ \E a \in Own(c) : h = <<a>>
  <2> SUFFICES ASSUME NEW a \in Own(c), NEW b \in Own(c), h = <<a, b>> PROVE FALSE
    BY <1>8 DEF HeldOk
  <2>1. Len(h) = 2
    OBVIOUS
  <2>2. PICK j \in Nat : j = Len(t) /\ j >= 1
    BY <1>8
  <2>3. 2 + j <= 2
    BY <1>8, <2>1, <2>2
  <2> QED BY <2>2, <2>3
<1>10. \E a : Of(h) \subseteq {a}
  BY <1>9 DEF Of
<1>11. 1 \in Slots /\ 2 \in Slots
  BY SlotAssumption
<1>12. SlotVa[c][1] = SlotVa[c][2]
  BY <1>5, <1>8, <1>10, <1>11
<1> QED BY <1>11, <1>12, SlotVasDiffer

LEMMA InvKept == Inv => TablesKept
<1> SUFFICES ASSUME Inv PROVE TablesKept
  OBVIOUS
<1>1. OnlySlotsChange
  BY BuiltOff DEF Inv, Types, OnlySlotsChange
<1>2. NothingStays
  BY DEF Inv, Types, Phases, Clear, NothingStays
<1> QED BY <1>1, <1>2 DEF TablesKept

(* No way out of an exit leaks a slot, and no exit runs out of them.       *)
(* MmuMapIoPage, MmuUnmapIoPage, VmReadGuestInstruction and                *)
(* TdCopySiblingMemory, for any number of processors, slots, levels and    *)
(* entries of a table: a mapping is in use if and only if the exit holds   *)
(* it, and a free slot is left whenever a table or a page is to be mapped. *)
THEOREM SlotsAreSound == Spec => []SlotsSound
<1>1. Spec => []Inv
  BY InitInv, NextInv, PTL DEF Spec
<1>2. Inv => SlotsSound
  BY InvTypeOK, InvMappings, InvSuffice DEF SlotsSound
<1> QED BY <1>1, <1>2, PTL

(* MmuInitialize, MmuFinalize and MmuAddressToPte: of the system's page    *)
(* tables only the entries of the slots are ever written, the system finds *)
(* its own entry in every page it takes back, and nothing stays mapped or  *)
(* locked.                                                                 *)
THEOREM TablesAreKept == Spec => []TablesKept
<1>1. Spec => []Inv
  BY InitInv, NextInv, PTL DEF Spec
<1> QED BY <1>1, InvKept, PTL

-----------------------------------------------------------------------------
(* What an exit reads.  What holds at the top and passes down holds at     *)
(* every level.                                                            *)
LEMMA FromTop ==
    ASSUME NEW G, Levels \in G, \A l \in 0 .. Levels - 1 : l + 1 \in G => l \in G
    PROVE  \A l \in 0 .. Levels : l \in G
<1>1. Levels \in Nat
  BY TableAssumption
<1> DEFINE B == {j \in 0 .. Levels : Levels - j \notin G}
<1>2. SUFFICES B = {}
  <2> SUFFICES ASSUME NEW l \in 0 .. Levels PROVE l \in G
    OBVIOUS
  <2>1. Levels - l \in 0 .. Levels /\ Levels - (Levels - l) = l
    BY <1>1
  <2> QED BY <1>2, <2>1
<1> SUFFICES ASSUME B # {} PROVE FALSE
  OBVIOUS
<1>3. PICK j \in B : \A i \in B : j <= i
  <2>1. B \subseteq Nat
    BY <1>1
  <2> HIDE DEF B
  <2> QED BY <2>1, Least
<1>4. j # 0
  BY <1>1, <1>3
<1>5. j - 1 \in 0 .. Levels /\ j - 1 \notin B
  BY <1>1, <1>3, <1>4
<1>6. PICK a : a = Levels - j /\ a \in 0 .. Levels - 1 /\ a + 1 = Levels - (j - 1)
  BY <1>1, <1>3, <1>4
<1>7. a + 1 \in G
  BY <1>5, <1>6
<1>8. a \in G
  BY <1>6, <1>7
<1> QED BY <1>3, <1>6, <1>8

(* The pages that a level leads to.                                        *)
Further(R, l, va) ==
    {ZeroPte} \cup UNION {EntryValues(p, MmuAddressToPti(l, va)) : p \in R \cap DOMAIN Memory}

Reaching(R, cr3, va, k) ==
    R = [l \in k .. Levels |-> IF l = Levels THEN {cr3} ELSE Further(R[l + 1], l + 1, va)]

LEMMA ReachExists ==
    ASSUME NEW cr3, NEW va
    PROVE  \E R : Reaching(R, cr3, va, 0)
<1>1. Levels \in Nat
  BY TableAssumption
<1> DEFINE G == {k \in 0 .. Levels : \E R : Reaching(R, cr3, va, k)}
<1>2. Levels \in G
  <2>1. Reaching([l \in Levels .. Levels |-> {cr3}], cr3, va, Levels)
    BY <1>1 DEF Reaching
  <2> QED BY <1>1, <2>1
<1>3. ASSUME NEW a \in 0 .. Levels - 1, a + 1 \in G PROVE a \in G
  <2>1. PICK R : Reaching(R, cr3, va, a + 1)
    BY <1>3
  <2> DEFINE U == [l \in a .. Levels |-> IF l = a THEN Further(R[a + 1], a + 1, va) ELSE R[l]]
  <2>2. \A l \in a + 1 .. Levels : R[l] = IF l = Levels THEN {cr3} ELSE Further(R[l + 1], l + 1, va)
    BY <2>1 DEF Reaching
  <2>3. \A l \in a .. Levels : U[l] = IF l = Levels THEN {cr3} ELSE Further(U[l + 1], l + 1, va)
    <3> SUFFICES ASSUME NEW l \in a .. Levels
                 PROVE  U[l] = IF l = Levels THEN {cr3} ELSE Further(U[l + 1], l + 1, va)
      OBVIOUS
    <3>1. CASE l = a
      <4>1. U[a] = Further(R[a + 1], a + 1, va) /\ U[a + 1] = R[a + 1] /\ a # Levels
        BY <1>1
      <4> QED BY <3>1, <4>1
    <3>2. CASE l # a
      <4>1. l \in a + 1 .. Levels /\ U[l] = R[l] /\ (l # Levels => U[l + 1] = R[l + 1])
        BY <1>1, <3>2
      <4> QED BY <2>2, <4>1
    <3> QED BY <3>1, <3>2
  <2>4. Reaching(U, cr3, va, a)
    <3>1. U = [l \in a .. Levels |-> U[l]]
      OBVIOUS
    <3> HIDE DEF U
    <3> QED BY <2>3, <3>1 DEF Reaching
  <2>5. a \in 0 .. Levels
    BY <1>1
  <2> QED BY <2>4, <2>5
<1>4. 0 \in G
  <2>1. 0 \in 0 .. Levels
    BY <1>1
  <2> HIDE DEF G
  <2> QED BY <1>2, <1>3, <2>1, FromTop
<1> QED BY <1>4

LEMMA ReachIs ==
    ASSUME NEW cr3, NEW va
    PROVE  Reaching(Reach(cr3, va), cr3, va, 0)
<1> DEFINE R == CHOOSE R : Reaching(R, cr3, va, 0)
<1>1. Reaching(R, cr3, va, 0)
  BY ReachExists
<1>2. Reach(cr3, va) = R
  BY DEF Reach, Reaching, Further
<1> QED BY <1>1, <1>2

LEMMA ReachTop ==
    ASSUME NEW cr3, NEW va
    PROVE  Reach(cr3, va)[Levels] = {cr3}
<1>1. Levels \in Nat
  BY TableAssumption
<1>2. PICK R : R = Reach(cr3, va)
  OBVIOUS
<1>3. Reaching(R, cr3, va, 0)
  BY <1>2, ReachIs
<1> QED BY <1>1, <1>2, <1>3 DEF Reaching

LEMMA ReachStep ==
    ASSUME NEW cr3, NEW va, NEW l \in 0 .. Levels - 1
    PROVE  Reach(cr3, va)[l] = Further(Reach(cr3, va)[l + 1], l + 1, va)
<1>1. Levels \in Nat
  BY TableAssumption
<1>2. PICK R : R = Reach(cr3, va)
  OBVIOUS
<1>3. Reaching(R, cr3, va, 0)
  BY <1>2, ReachIs
<1>4. l \in 0 .. Levels /\ l # Levels
  BY <1>1
<1> QED BY <1>2, <1>3, <1>4 DEF Reaching

LEMMA ReadsAreNat ==
    ASSUME NEW va \in Reads
    PROVE  va \in Nat
<1>1. \A v \in Nat : PageOf(v) \in Nat
  <2> SUFFICES ASSUME NEW v \in Nat PROVE PageOf(v) \in Nat
    OBVIOUS
  <2>1. PICK d : d = Entries /\ d \in Nat \ {0}
    BY TableAssumption
  <2>2. PICK a, b \in Nat : b < d /\ v = a * d + b /\ a = v \div d /\ b = v % d
    BY <2>1, Divided
  <2>3. a * d \in Nat
    BY <2>1, ProductGrows
  <2> QED BY <2>1, <2>2, <2>3 DEF PageOf
<1>2. Instructions \subseteq Nat /\ Siblings \subseteq Nat \X Nat
  BY TableAssumption
<1>3. CASE va \in Instructions
  BY <1>2, <1>3
<1>4. CASE va \in {v + INS : v \in Instructions}
  BY <1>2, <1>4 DEF INS
<1>5. CASE va \in {PageOf(sib[1]) : sib \in Siblings}
  <2>1. PICK sib \in Siblings : va = PageOf(sib[1])
    BY <1>5
  <2>2. sib[1] \in Nat
    BY <1>2
  <2> QED BY <1>1, <2>1, <2>2
<1> QED BY <1>3, <1>4, <1>5 DEF Reads

(* A level of the guest's tables is not in an entry of a slot.             *)
LEMMA OffSlots ==
    ASSUME NEW cr3 \in GuestCr3s, NEW va \in Reads, NEW l \in 1 .. Levels, NEW p \in Reach(cr3, va)[l]
    PROVE  /\ MmuAddressToPti(l, va) \in 0 .. Entries - 1
           /\ <<p, MmuAddressToPti(l, va)>> \notin SlotEntries
<1>1. MmuAddressToPti(l, va) \in 0 .. Entries - 1
  <2>1. l \in 0 .. Levels
    BY TableAssumption
  <2> QED BY <2>1, ReadsAreNat, IndexInTable
<1> QED BY <1>1, ReadsAssumption

LEMMA PathReached ==
    ASSUME NEW m, Built(m), NEW cr3 \in GuestCr3s, NEW va \in Reads
    PROVE  \A l \in 0 .. Levels : Path(m, cr3, va)[l] \in Reach(cr3, va)[l]
<1>1. Levels \in Nat
  BY TableAssumption
<1>2. PICK T : T = Path(m, cr3, va)
  OBVIOUS
<1>3. PICK R : R = Reach(cr3, va)
  OBVIOUS
<1> DEFINE G == {l \in 0 .. Levels : T[l] \in R[l]}
<1>4. Levels \in G
  BY <1>1, <1>2, <1>3, PathTop, ReachTop
<1>5. ASSUME NEW l \in 0 .. Levels - 1, l + 1 \in G PROVE l \in G
  <2>1. T[l + 1] \in R[l + 1]
    BY <1>5
  <2>2. T[l] = Below(m, T[l + 1], l + 1, va) /\ R[l] = Further(R[l + 1], l + 1, va)
    BY <1>2, <1>3, PathStep, ReachStep
  <2>3. PICK p : p = T[l + 1]
    OBVIOUS
  <2>4. PICK i : i = MmuAddressToPti(l + 1, va)
    OBVIOUS
  <2>5. i \in 0 .. Entries - 1 /\ <<p, i>> \notin SlotEntries
    <3>1. l + 1 \in 1 .. Levels
      BY <1>1
    <3> QED BY <1>3, <2>1, <2>3, <2>4, <3>1, OffSlots
  <2>6. CASE p \in DOMAIN Memory
    <3>1. m[p][i] \in EntryValues(p, i)
      BY <2>5, <2>6 DEF Built
    <3>2. T[l] = m[p][i]
      BY <2>2, <2>3, <2>4, <2>6 DEF Below, Built
    <3>3. m[p][i] \in Further(R[l + 1], l + 1, va)
      BY <2>1, <2>3, <2>4, <2>6, <3>1 DEF Further
    <3> QED BY <1>1, <2>2, <3>2, <3>3
  <2>7. CASE p \notin DOMAIN Memory
    <3>1. T[l] = ZeroPte
      BY <2>2, <2>3, <2>7 DEF Below, Built
    <3> QED BY <1>1, <2>2, <3>1 DEF Further
  <2> QED BY <2>6, <2>7
<1>6. \A l \in 0 .. Levels : l \in G
  <2> HIDE DEF G
  <2> QED BY <1>4, <1>5, FromTop
<1> QED BY <1>2, <1>3, <1>6

(* A write to a slot changes no translation that an exit depends on.       *)
LEMMA WalkStable ==
    ASSUME NEW m, NEW n, Built(m), Built(n), Agree(m, n), NEW cr3 \in GuestCr3s, NEW va \in Reads
    PROVE  \A l \in 0 .. Levels : Path(n, cr3, va)[l] = Path(m, cr3, va)[l]
<1>1. Levels \in Nat
  BY TableAssumption
<1>2. PICK T : T = Path(m, cr3, va)
  OBVIOUS
<1>3. PICK U : U = Path(n, cr3, va)
  OBVIOUS
<1> DEFINE G == {l \in 0 .. Levels : U[l] = T[l]}
<1>4. Levels \in G
  BY <1>1, <1>2, <1>3, PathTop
<1>5. ASSUME NEW l \in 0 .. Levels - 1, l + 1 \in G PROVE l \in G
  <2>1. U[l + 1] = T[l + 1]
    BY <1>5
  <2>2. T[l] = Below(m, T[l + 1], l + 1, va) /\ U[l] = Below(n, U[l + 1], l + 1, va)
    BY <1>2, <1>3, PathStep
  <2>3. PICK p : p = T[l + 1]
    OBVIOUS
  <2>4. PICK i : i = MmuAddressToPti(l + 1, va)
    OBVIOUS
  <2>5. i \in 0 .. Entries - 1 /\ <<p, i>> \notin SlotEntries
    <3>1. l + 1 \in 1 .. Levels /\ l + 1 \in 0 .. Levels
      BY <1>1
    <3>2. T[l + 1] \in Reach(cr3, va)[l + 1]
      BY <1>2, <3>1, PathReached
    <3> QED BY <2>3, <2>4, <3>1, <3>2, OffSlots
  <2>6. p \in DOMAIN Memory => n[p][i] = m[p][i]
    BY <2>5 DEF Agree
  <2>7. DOMAIN m = DOMAIN Memory /\ DOMAIN n = DOMAIN Memory
    BY DEF Built
  <2>8. U[l] = T[l]
    BY <2>1, <2>2, <2>3, <2>4, <2>6, <2>7 DEF Below
  <2> QED BY <1>1, <2>8
<1>6. \A l \in 0 .. Levels : l \in G
  <2> HIDE DEF G
  <2> QED BY <1>4, <1>5, FromTop
<1> QED BY <1>2, <1>3, <1>6

(* Addresses of a page are translated alike.                               *)
LEMMA SamePage ==
    ASSUME NEW v \in Nat, NEW w \in Nat, v \div Entries = w \div Entries, NEW m, NEW cr3
    PROVE  Translate(m, cr3, v) = Translate(m, cr3, w)
<1>1. Levels \in Nat /\ Entries \in Nat \ {0}
  BY TableAssumption
<1>2. ASSUME NEW l \in 0 .. Levels - 1
      PROVE  MmuAddressToPti(l + 1, v) = MmuAddressToPti(l + 1, w)
  <2>1. PICK b : b \in 1 .. Levels /\ b = l + 1 /\ b - 1 = l
    BY <1>1
  <2>2. Span[b] = Entries * Span[b - 1]
    BY <2>1, SpanStep
  <2>3. PICK a : a = Span[l] /\ a \in Nat \ {0}
    BY <1>1, SpanPositive
  <2>4. (v \div Entries) \div a = v \div (Entries * a) /\ (w \div Entries) \div a = w \div (Entries * a)
    BY <1>1, <2>3, QuotientOfQuotient
  <2>5. v \div Span[l + 1] = w \div Span[l + 1]
    BY <2>1, <2>2, <2>3, <2>4
  <2> QED BY <2>5 DEF MmuAddressToPti
<1>3. PICK T : T = Path(m, cr3, v)
  OBVIOUS
<1>4. PICK U : U = Path(m, cr3, w)
  OBVIOUS
<1> DEFINE G == {l \in 0 .. Levels : U[l] = T[l]}
<1>5. Levels \in G
  BY <1>1, <1>3, <1>4, PathTop
<1>6. ASSUME NEW l \in 0 .. Levels - 1, l + 1 \in G PROVE l \in G
  <2>1. U[l + 1] = T[l + 1]
    BY <1>6
  <2>2. T[l] = Below(m, T[l + 1], l + 1, v) /\ U[l] = Below(m, U[l + 1], l + 1, w)
    BY <1>3, <1>4, PathStep
  <2>3. U[l] = T[l]
    BY <1>2, <2>1, <2>2 DEF Below
  <2> QED BY <1>1, <2>3
<1>7. \A l \in 0 .. Levels : l \in G
  <2> HIDE DEF G
  <2> QED BY <1>5, <1>6, FromTop
<1>8. U[0] = T[0]
  BY <1>1, <1>7
<1> QED BY <1>3, <1>4, <1>8 DEF Translate

-----------------------------------------------------------------------------
(* The TLB of a processor has nothing for its own slots that the tables do *)
(* not.                                                                    *)
TlbOk(t, m) ==
    /\ t = [c \in Cpus |-> t[c]]
    /\ \A c \in Cpus : t[c] = [va \in SlotVas |-> t[c][va]]
    /\ \A c \in Cpus : \A v \in Own(c) : t[c][v] # ZeroPte => t[c][v] = Pte(m, v)

LEMMA OwnIs ==
    ASSUME NEW c \in Cpus, NEW v \in Own(c)
    PROVE  v \in SlotVas /\ \A d \in Cpus : v \in Own(d) => d = c
<1>1. PICK s \in Slots : v = SlotVa[c][s]
  BY DEF Own
<1>2. v \in SlotVas
  BY <1>1, SlotVaOwn
<1>3. ASSUME NEW d \in Cpus, v \in Own(d) PROVE d = c
  <2>1. PICK t \in Slots : v = SlotVa[d][t]
    BY <1>3 DEF Own
  <2> QED BY <1>1, <2>1, SlotVasDiffer
<1> QED BY <1>2, <1>3

LEMMA SlotTranslated ==
    ASSUME NEW m, Built(m), NEW va \in SlotVas
    PROVE  Translate(m, HostCr3, va) = Pte(m, va)
<1>1. PICK T : T = Path(m, HostCr3, va)
  OBVIOUS
<1>2. T[0] = Below(m, T[1], 1, va)
  <2>1. 0 \in 0 .. Levels - 1 /\ 0 + 1 = 1
    BY TableAssumption
  <2>2. Path(m, HostCr3, va)[0] = Below(m, Path(m, HostCr3, va)[0 + 1], 0 + 1, va)
    BY <2>1, PathStep
  <2> QED BY <1>1, <2>1, <2>2
<1>3. Pointer(m, va) = <<T[1], MmuAddressToPti(1, va)>>
  BY <1>1, BuiltSelfMap, SlotVaIs, PointerIs
<1>4. Pte(m, va) = Entry(m, T[1], MmuAddressToPti(1, va))
  BY <1>3 DEF Pte
<1>5. Pte(m, va) = T[0]
  BY <1>2, <1>4 DEF Entry, Below
<1> QED BY <1>1, <1>5 DEF Translate

LEMMA ViewIs ==
    ASSUME Inv, TlbOk(tlb, mem), NEW c \in Cpus, NEW v \in Own(c)
    PROVE  View(c, v) = Pte(mem, v)
<1>1. Translate(mem, HostCr3, v) = Pte(mem, v)
  BY OwnIs, SlotTranslated DEF Inv, Types
<1>2. tlb[c][v] # ZeroPte => tlb[c][v] = Pte(mem, v)
  BY DEF TlbOk
<1> QED BY <1>1, <1>2 DEF View

LEMMA LoadedOk ==
    ASSUME Inv, TlbOk(tlb, mem), NEW c \in Cpus, NEW vas
    PROVE  TlbOk(Loaded(c, vas), mem)
<1>1. PICK row : row = [va \in SlotVas |-> IF va \in vas THEN View(c, va) ELSE tlb[c][va]]
  OBVIOUS
<1>2. PICK t : t = Loaded(c, vas)
  OBVIOUS
<1>3. t = [tlb EXCEPT ![c] = row]
  BY <1>1, <1>2 DEF Loaded
<1>4. tlb = [d \in Cpus |-> tlb[d]] /\ \A d \in Cpus : tlb[d] = [va \in SlotVas |-> tlb[d][va]]
  BY DEF TlbOk
<1>5. \A d \in Cpus : t[d] = IF d = c THEN row ELSE tlb[d]
  BY <1>3, <1>4
<1>6. t = [d \in Cpus |-> t[d]]
  BY <1>3, <1>4
<1>7. row = [va \in SlotVas |-> row[va]]
  BY <1>1
<1>8. \A d \in Cpus : t[d] = [va \in SlotVas |-> t[d][va]]
  <2> SUFFICES ASSUME NEW d \in Cpus PROVE t[d] = [va \in SlotVas |-> t[d][va]]
    OBVIOUS
  <2>1. CASE d = c
    BY <1>5, <1>7, <2>1
  <2>2. CASE d # c
    BY <1>4, <1>5, <2>2
  <2> QED BY <2>1, <2>2
<1>9. ASSUME NEW d \in Cpus, NEW v \in Own(d), t[d][v] # ZeroPte PROVE t[d][v] = Pte(mem, v)
  <2>1. v \in SlotVas
    BY OwnIs
  <2>2. tlb[d][v] # ZeroPte => tlb[d][v] = Pte(mem, v)
    BY DEF TlbOk
  <2>3. CASE d = c
    <3>1. t[d][v] = IF v \in vas THEN View(c, v) ELSE tlb[c][v]
      BY <1>1, <1>5, <2>1, <2>3
    <3>2. View(c, v) = Pte(mem, v)
      BY <2>3, ViewIs
    <3> QED BY <1>9, <2>2, <2>3, <3>1, <3>2
  <2>4. CASE d # c
    BY <1>5, <1>9, <2>2, <2>4
  <2> QED BY <2>3, <2>4
<1>10. TlbOk(t, mem)
  BY <1>6, <1>8, <1>9 DEF TlbOk
<1> QED BY <1>2, <1>10

(* A flush.                                                                *)
Flushed(t, u, c, va) ==
    /\ u = [d \in Cpus |-> u[d]]
    /\ \A d \in Cpus : /\ u[d] = [w \in SlotVas |-> u[d][w]]
                       /\ \A w \in SlotVas : u[d][w] = IF d = c /\ w = va THEN ZeroPte ELSE t[d][w]

LEMMA FlushIs ==
    ASSUME NEW t, NEW m, TlbOk(t, m), NEW c \in Cpus, NEW va \in SlotVas
    PROVE  Flushed(t, [t EXCEPT ![c][va] = ZeroPte], c, va)
<1>1. t = [d \in Cpus |-> t[d]] /\ \A d \in Cpus : t[d] = [w \in SlotVas |-> t[d][w]]
  BY DEF TlbOk
<1>2. PICK u : u = [t EXCEPT ![c][va] = ZeroPte]
  OBVIOUS
<1>3. PICK row : row = [t[c] EXCEPT ![va] = ZeroPte]
  OBVIOUS
<1>4. u = [t EXCEPT ![c] = row]
  BY <1>2, <1>3
<1>5. row = [w \in SlotVas |-> row[w]] /\ \A w \in SlotVas : row[w] = IF w = va THEN ZeroPte ELSE t[c][w]
  BY <1>1, <1>3
<1>6. u = [d \in Cpus |-> u[d]] /\ \A d \in Cpus : u[d] = IF d = c THEN row ELSE t[d]
  BY <1>1, <1>4
<1>7. ASSUME NEW d \in Cpus
      PROVE  /\ u[d] = [w \in SlotVas |-> u[d][w]]
             /\ \A w \in SlotVas : u[d][w] = IF d = c /\ w = va THEN ZeroPte ELSE t[d][w]
  <2>1. CASE d = c
    BY <1>5, <1>6, <2>1
  <2>2. CASE d # c
    BY <1>1, <1>6, <2>2
  <2> QED BY <2>1, <2>2
<1> QED BY <1>2, <1>6, <1>7 DEF Flushed

LEMMA FlushOk ==
    ASSUME NEW t, NEW m, NEW n, NEW pte, TlbOk(t, m), NEW c \in Cpus, NEW va \in Own(c),
           Written(m, n, va, pte)
    PROVE  TlbOk([t EXCEPT ![c][va] = ZeroPte], n)
<1>1. va \in SlotVas
  BY OwnIs
<1>2. PICK u : u = [t EXCEPT ![c][va] = ZeroPte]
  OBVIOUS
<1>3. /\ u = [d \in Cpus |-> u[d]]
      /\ \A d \in Cpus : /\ u[d] = [w \in SlotVas |-> u[d][w]]
                         /\ \A w \in SlotVas : u[d][w] = IF d = c /\ w = va THEN ZeroPte ELSE t[d][w]
  <2>1. Flushed(t, [t EXCEPT ![c][va] = ZeroPte], c, va)
    BY <1>1, FlushIs
  <2>2. Flushed(t, u, c, va)
    BY <1>2, <2>1
  <2> QED BY <2>2 DEF Flushed
<1>4. ASSUME NEW d \in Cpus, NEW v \in Own(d), u[d][v] # ZeroPte PROVE u[d][v] = Pte(n, v)
  <2>1. v \in SlotVas /\ ~(d = c /\ v = va)
    BY <1>3, <1>4, OwnIs
  <2>2. v # va
    BY <2>1, OwnIs
  <2>3. u[d][v] = t[d][v] /\ t[d][v] = Pte(m, v)
    BY <1>3, <1>4, <2>1 DEF TlbOk
  <2>4. Pte(n, v) = Pte(m, v)
    BY <2>1, <2>2 DEF Written
  <2> QED BY <2>3, <2>4
<1>5. TlbOk(u, n)
  BY <1>3, <1>4 DEF TlbOk
<1> QED BY <1>2, <1>5

LEMMA ClearOk ==
    ASSUME NEW t, NEW m, NEW n, TlbOk(t, m), NEW c \in Cpus, NEW va \in SlotVas, Clear(m), Clear(n)
    PROVE  TlbOk([t EXCEPT ![c][va] = ZeroPte], n)
<1>2. PICK u : u = [t EXCEPT ![c][va] = ZeroPte]
  OBVIOUS
<1>3. /\ u = [d \in Cpus |-> u[d]]
      /\ \A d \in Cpus : /\ u[d] = [w \in SlotVas |-> u[d][w]]
                         /\ \A w \in SlotVas : u[d][w] = IF d = c /\ w = va THEN ZeroPte ELSE t[d][w]
  <2>1. Flushed(t, [t EXCEPT ![c][va] = ZeroPte], c, va)
    BY FlushIs
  <2>2. Flushed(t, u, c, va)
    BY <1>2, <2>1
  <2> QED BY <2>2 DEF Flushed
<1>4. ASSUME NEW d \in Cpus, NEW v \in Own(d) PROVE u[d][v] = ZeroPte
  <2>1. v \in SlotVas
    BY OwnIs
  <2>2. t[d][v] = ZeroPte
    BY <2>1 DEF TlbOk, Clear
  <2> QED BY <1>3, <2>1, <2>2
<1>5. TlbOk(u, n)
  BY <1>3, <1>4 DEF TlbOk
<1> QED BY <1>2, <1>5

(* Nothing is mapped when no exit is under way.                            *)
LEMMA IdleClear == Inv /\ phase # "down" /\ (\A c \in Cpus : x[c].pc = "idle") => Clear(mem)
<1> SUFFICES ASSUME Inv, phase # "down", \A c \in Cpus : x[c].pc = "idle" PROVE Clear(mem)
  OBVIOUS
<1>1. CASE phase = "on" /\ array # <<>>
  <2>1. \A c \in Cpus : Accounted(array, mem, c, {})
    <3>1. \A c \in Cpus : Holds(x[c]) = {}
      BY ExitIs, IdleHolds
    <3> QED BY <1>1, <3>1 DEF Inv, Phases
  <2> SUFFICES ASSUME NEW w \in SlotVas PROVE Pte(mem, w) = ZeroPte
    BY DEF Clear
  <2>2. PICK c \in Cpus, s \in Slots : w = SlotVa[c][s]
    BY DEF SlotVas
  <2> QED BY <2>1, <2>2 DEF Accounted
<1>2. CASE ~(phase = "on" /\ array # <<>>)
  BY <1>2 DEF Inv, Types, Phases
<1> QED BY <1>1, <1>2

LEMMA IdleClearNext == (Inv /\ phase # "down" /\ (\A c \in Cpus : x[c].pc = "idle") => Clear(mem))'
BY IdleClear, PTL

-----------------------------------------------------------------------------
(* Addresses in a page and in the next one.                                *)
LEMMA InPage ==
    ASSUME NEW v \in Nat, NEW k \in Nat, Offset(v) + k < Entries
    PROVE  /\ v + k \in Nat /\ Offset(v + k) = Offset(v) + k
           /\ (v + k) \div Entries = v \div Entries
<1>1. PICK e : e = Entries /\ e \in Nat \ {0}
  BY TableAssumption
<1>2. PICK q, r \in Nat : r < e /\ v = q * e + r /\ q = v \div e /\ r = v % e
  BY <1>1, Divided
<1>3. Offset(v) = r
  BY <1>1, <1>2 DEF Offset
<1>4. PICK s : s = r + k /\ s \in Nat /\ s < e
  BY <1>1, <1>2, <1>3
<1>5. (q * e + s) \div e = q /\ (q * e + s) % e = s
  BY <1>1, <1>2, <1>4, QuotientIsUnique
<1>6. q * e \in Nat
  BY <1>1, <1>2, ProductGrows
<1>7. v + k = q * e + s
  BY <1>2, <1>4, <1>6
<1>8. Offset(v + k) = (v + k) % e
  BY <1>1 DEF Offset
<1> QED BY <1>1, <1>2, <1>3, <1>4, <1>5, <1>7, <1>8

LEMMA InNextPage ==
    ASSUME NEW v \in Nat, NEW k \in Nat, Offset(v) + k >= Entries, Offset(v) + k < Entries + Entries
    PROVE  /\ v + k \in Nat /\ Offset(v + k) = Offset(v) + k - Entries
           /\ (v + k) \div Entries = (v \div Entries) + 1
<1>1. PICK e : e = Entries /\ e \in Nat \ {0}
  BY TableAssumption
<1>2. PICK q, r \in Nat : r < e /\ v = q * e + r /\ q = v \div e /\ r = v % e
  BY <1>1, Divided
<1>3. Offset(v) = r
  BY <1>1, <1>2 DEF Offset
<1>4. PICK s : s = r + k - e /\ s \in Nat /\ s < e
  BY <1>1, <1>2, <1>3
<1>5. PICK p : p = q + 1 /\ p \in Nat
  BY <1>2
<1>6. (p * e + s) \div e = p /\ (p * e + s) % e = s
  BY <1>1, <1>4, <1>5, QuotientIsUnique
<1>7. PICK a : a = q * e /\ a \in Nat
  BY <1>1, <1>2, ProductGrows
<1>8. PICK b : b = p * e
  OBVIOUS
<1>9. b = a + e
  BY <1>1, <1>2, <1>5, <1>7, <1>8
<1>10. v = a + r
  BY <1>2, <1>7
<1>11. v + k = b + s
  BY <1>1, <1>2, <1>4, <1>7, <1>9, <1>10
<1>12. (v + k) \div e = p /\ (v + k) % e = s
  BY <1>6, <1>8, <1>11
<1>13. Offset(v + k) = s /\ s = Offset(v) + k - Entries
  BY <1>1, <1>3, <1>4, <1>12 DEF Offset
<1>14. (v + k) \div Entries = (v \div Entries) + 1
  BY <1>1, <1>2, <1>5, <1>12
<1>15. v + k \in Nat
  OBVIOUS
<1> QED BY <1>13, <1>14, <1>15

LEMMA PageIs ==
    ASSUME NEW v \in Nat
    PROVE  /\ Offset(v) \in Nat /\ Offset(v) < Entries
           /\ PageOf(v) \in Nat /\ PageOf(v) + Offset(v) = v
           /\ PageOf(v) \div Entries = v \div Entries
<1>1. PICK e : e = Entries /\ e \in Nat \ {0}
  BY TableAssumption
<1>2. PICK q, r \in Nat : r < e /\ v = q * e + r /\ q = v \div e /\ r = v % e
  BY <1>1, Divided
<1>3. Offset(v) = r
  BY <1>1, <1>2 DEF Offset
<1>4. PageOf(v) = q * e + 0 /\ q * e \in Nat
  <2>1. q * e \in Nat
    BY <1>1, <1>2, ProductGrows
  <2> QED BY <1>1, <1>2, <2>1 DEF PageOf
<1>5. (q * e + 0) \div e = q
  BY <1>1, <1>2, QuotientIsUnique
<1> QED BY <1>1, <1>2, <1>3, <1>4, <1>5

(* An instruction is on one page, or its last byte is on the next one.     *)
LEMMA SpannedIs ==
    ASSUME NEW v \in Nat
    PROVE  /\ PagesSpanned(v) = 1 => Offset(v) + 2 < Entries
           /\ PagesSpanned(v) # 1 => Offset(v) \in {Entries - 1, Entries - 2}
           /\ Entries \in Nat /\ Entries >= 3
<1>1. PICK e : e = Entries /\ e \in Nat \ {0} /\ e >= 3
  BY TableAssumption, ReadsAssumption DEF INS
<1>2. PICK r : r = Offset(v) /\ r \in Nat /\ r < e
  BY <1>1, PageIs
<1>3. PagesSpanned(v) = (r + 3 + e - 1) \div e
  BY <1>1, <1>2 DEF PagesSpanned, INS
<1>4. CASE r + 2 < e
  <2>1. PICK s : s = r + 2 /\ s \in Nat /\ s < e
    BY <1>2, <1>4
  <2>2. (1 * e + s) \div e = 1
    BY <1>1, <2>1, QuotientIsUnique
  <2>3. r + 3 + e - 1 = 1 * e + s
    BY <1>1, <1>2, <2>1
  <2> QED BY <1>1, <1>2, <1>3, <1>4, <2>2, <2>3
<1>5. CASE ~(r + 2 < e)
  <2>1. PICK s : s = r + 2 - e /\ s \in Nat /\ s < e
    BY <1>1, <1>2, <1>5
  <2>2. (2 * e + s) \div e = 2
    BY <1>1, <2>1, QuotientIsUnique
  <2>3. r + 3 + e - 1 = 2 * e + s
    BY <1>1, <1>2, <2>1
  <2>4. r = e - 1 \/ r = e - 2
    BY <1>1, <1>2, <1>5
  <2> QED BY <1>1, <1>2, <1>3, <2>2, <2>3, <2>4
<1> QED BY <1>4, <1>5

-----------------------------------------------------------------------------
(* The exits of which something is claimed: the ones that read an          *)
(* instruction and the ones that copy a sibling on one page.               *)
Simple(r) == r.op = "instruction" \/ PageOf(r.va) = PageOf(r.end)
Looking == {"translate", "walk", "walk2", "map"}

(* An instruction on two pages, and the bytes it has on the first one.     *)
Two(r) == r.op = "instruction" /\ PagesSpanned(r.va) # 1
FirstLength(va) == IF Offset(va) = Entries - 1 THEN 1 ELSE 2
Begun(r) == r.out = [i \in 1 .. FirstLength(r.va) |-> r.out[i]]

(* The address whose page the exit is looking for.                         *)
Wanted(r) ==
    IF r.op = "sibling" THEN PageOf(r.va) ELSE IF r.out = <<>> THEN r.va ELSE r.va + INS

(* What is still to read.                                                  *)
Rest(r) == IF Two(r) /\ r.out = <<>> THEN <<r.va + INS>> ELSE <<>>

Shape(r) ==
    /\ r.cr3 \in GuestCr3s
    /\ \/ r.op = "instruction" /\ r.va \in Instructions
       \/ r.op = "sibling" /\ r.va \in Nat /\ r.end \in Nat /\ PageOf(r.va) \in Reads
    /\ r.pc \in Looking => r.held = <<>> /\ r.todo = <<Wanted(r)>> \o Rest(r)
    /\ r.pc = "copy" => r.todo = Rest(r)
    /\ r.pc \in Looking \cup {"copy"} => r.out = <<>> \/ (Two(r) /\ Begun(r))
    /\ r.pc = "unmap" => r.todo = <<>> \/ (Two(r) /\ Begun(r) /\ r.todo = <<r.va + INS>>)
    /\ r.pc \in {"copy", "unmap"} => Len(r.held) = 1

(* The i-th byte is the guest's.                                           *)
ByteOk(m, r, i) ==
    /\ i \in Nat \ {0}
    /\ \E w \in Reads :
         /\ (r.va + i - 1) \div Entries = w \div Entries
         /\ r.out[i] = Byte(Translate(m, r.cr3, w), Offset(r.va + i - 1))
Bytes(m, r) == \A i \in DOMAIN r.out : ByteOk(m, r, i)

(* Where the walk is, and what the slot at hand maps.                      *)
Track(m, r) ==
    /\ r.pc = "walk" => r.pa = Path(m, r.cr3, Wanted(r))[r.level]
    /\ r.pc = "walk2" => Pte(m, r.table) = Path(m, r.cr3, Wanted(r))[r.level]
    /\ r.pc = "map" => r.pa = Translate(m, r.cr3, Wanted(r))
    /\ r.pc = "copy" => Pte(m, Head(r.held)) = Translate(m, r.cr3, Wanted(r))
    /\ Bytes(m, r)

Guest(m, r) ==
    r.pc # "idle" /\ Simple(r) => Shape(r) /\ (~r.moved => Track(m, r))

GuestInv == TlbOk(tlb, mem) /\ \A c \in Cpus : Guest(mem, x[c])

-----------------------------------------------------------------------------
LEMMA WantedReads ==
    ASSUME NEW r, Shape(r)
    PROVE  Wanted(r) \in Reads
<1>1. \A v \in Instructions : v \in Reads /\ v + INS \in Reads
  BY DEF Reads
<1>2. CASE r.op = "instruction" /\ r.va \in Instructions
  <2>1. Wanted(r) = IF r.out = <<>> THEN r.va ELSE r.va + INS
    BY <1>2 DEF Wanted
  <2>2. r.va \in Reads /\ r.va + INS \in Reads
    BY <1>1, <1>2
  <2> QED BY <2>1, <2>2
<1>3. CASE r.op = "sibling" /\ PageOf(r.va) \in Reads
  BY <1>3 DEF Wanted
<1> QED BY <1>2, <1>3 DEF Shape

(* What stays when entries of slots are written.                           *)
LEMMA TranslateKept ==
    ASSUME NEW m, NEW n, Built(m), Built(n), Agree(m, n), NEW cr3 \in GuestCr3s, NEW w \in Reads
    PROVE  Translate(n, cr3, w) = Translate(m, cr3, w)
<1>1. 0 \in 0 .. Levels
  BY TableAssumption
<1> QED BY <1>1, WalkStable DEF Translate

LEMMA BytesKept ==
    ASSUME NEW m, NEW n, Built(m), Built(n), Agree(m, n), NEW r, NEW q,
           r.cr3 \in GuestCr3s, Bytes(m, r), q.cr3 = r.cr3, q.va = r.va, q.out = r.out
    PROVE  Bytes(n, q)
<1> SUFFICES ASSUME NEW i \in DOMAIN r.out PROVE ByteOk(n, q, i)
  BY DEF Bytes
<1>1. i \in Nat \ {0} /\ ByteOk(m, r, i)
  BY DEF Bytes, ByteOk
<1>2. PICK w \in Reads :
        /\ (r.va + i - 1) \div Entries = w \div Entries
        /\ r.out[i] = Byte(Translate(m, r.cr3, w), Offset(r.va + i - 1))
  BY <1>1 DEF ByteOk
<1>3. Translate(n, r.cr3, w) = Translate(m, r.cr3, w)
  BY TranslateKept
<1>4. q.out[i] = Byte(Translate(n, q.cr3, w), Offset(q.va + i - 1))
  BY <1>2, <1>3
<1> QED BY <1>1, <1>2, <1>4 DEF ByteOk

(* An exit of another processor.                                           *)
LEMMA GuestKept ==
    ASSUME NEW m, NEW n, Built(m), Built(n), Agree(m, n),
           NEW c \in Cpus, NEW r, ExitOk(c, r), Guest(m, r),
           \A w \in Own(c) : Pte(n, w) = Pte(m, w)
    PROVE  Guest(n, r)
<1> SUFFICES ASSUME r.pc # "idle", Simple(r) PROVE Shape(r) /\ (~r.moved => Track(n, r))
  BY DEF Guest
<1>1. Shape(r) /\ (~r.moved => Track(m, r))
  BY DEF Guest
<1> SUFFICES ASSUME ~r.moved PROVE Track(n, r)
  BY <1>1
<1>2. Track(m, r)
  BY <1>1
<1>3. r.cr3 \in GuestCr3s /\ Wanted(r) \in Reads
  BY <1>1, WantedReads DEF Shape
<1>4. Translate(n, r.cr3, Wanted(r)) = Translate(m, r.cr3, Wanted(r))
  BY <1>3, TranslateKept
<1>5. r.pc \in {"walk", "walk2"} =>
        Path(n, r.cr3, Wanted(r))[r.level] = Path(m, r.cr3, Wanted(r))[r.level]
  <2> SUFFICES ASSUME r.pc \in {"walk", "walk2"}
               PROVE  Path(n, r.cr3, Wanted(r))[r.level] = Path(m, r.cr3, Wanted(r))[r.level]
    OBVIOUS
  <2>1. PICK l : l = r.level
    OBVIOUS
  <2>2. l \in 0 .. Levels
    BY <2>1, TableAssumption DEF ExitOk
  <2> QED BY <1>3, <2>1, <2>2, WalkStable
<1>6. r.pc = "walk2" => Pte(n, r.table) = Pte(m, r.table)
  BY DEF ExitOk
<1>7. r.pc = "copy" => Pte(n, Head(r.held)) = Pte(m, Head(r.held))
  BY HeldShape DEF ExitOk
<1>8. Bytes(n, r)
  BY <1>2, <1>3, BytesKept DEF Track
<1> QED BY <1>2, <1>4, <1>5, <1>6, <1>7, <1>8 DEF Track

(* A step of c that writes the entry of one of its slots, or none.         *)
Slotted(c, m, n) ==
    /\ Built(n) /\ Agree(m, n)
    /\ \A w \in SlotVas \ Own(c) : Pte(n, w) = Pte(m, w)

LEMMA SlottedSame ==
    ASSUME NEW c, NEW m, NEW n, Built(m), n = m
    PROVE  Slotted(c, m, n)
BY DEF Slotted, Agree

LEMMA SlottedWritten ==
    ASSUME NEW c, NEW m, NEW n, NEW va \in Own(c), NEW pte, Written(m, n, va, pte)
    PROVE  Slotted(c, m, n)
BY DEF Slotted, Written

LEMMA GuestStep ==
    ASSUME Inv, GuestInv, NEW c \in Cpus, NEW q, x' = [x EXCEPT ![c] = q],
           Slotted(c, mem, mem'), TlbOk(tlb', mem'), Guest(mem', q)
    PROVE  GuestInv'
<1>1. \A d \in Cpus : x'[d] = IF d = c THEN q ELSE x[d]
  BY DEF Inv, Exits
<1>2. Built(mem) /\ Built(mem') /\ Agree(mem, mem')
  BY DEF Inv, Types, Slotted
<1>3. ASSUME NEW d \in Cpus PROVE Guest(mem', x'[d])
  <2>1. CASE d = c
    BY <1>1, <2>1
  <2>2. CASE d # c
    <3>1. x'[d] = x[d] /\ ExitOk(d, x[d]) /\ Guest(mem, x[d])
      BY <1>1, <2>2, ExitIs DEF GuestInv
    <3>2. \A w \in Own(d) : Pte(mem', w) = Pte(mem, w)
      <4> SUFFICES ASSUME NEW w \in Own(d) PROVE Pte(mem', w) = Pte(mem, w)
        OBVIOUS
      <4>1. w \in SlotVas /\ w \notin Own(c)
        BY <2>2, OwnIs
      <4> QED BY <4>1 DEF Slotted
    <3>3. Guest(mem', x[d])
      BY <1>2, <3>1, <3>2, GuestKept
    <3> QED BY <3>1, <3>3
  <2> QED BY <2>1, <2>2
<1> QED BY <1>3 DEF GuestInv

LEMMA InitGuest == Init => GuestInv
<1> SUFFICES ASSUME Init PROVE GuestInv
  OBVIOUS
<1>1. TlbOk(tlb, mem)
  <2>1. tlb = [c \in Cpus |-> [va \in SlotVas |-> ZeroPte]]
    BY DEF Init
  <2>2. \A c \in Cpus : tlb[c] = [va \in SlotVas |-> ZeroPte]
    BY <2>1
  <2>3. \A c \in Cpus : \A v \in Own(c) : tlb[c][v] = ZeroPte
    BY <2>2, OwnIs
  <2> QED BY <2>1, <2>2, <2>3 DEF TlbOk
<1>2. \A c \in Cpus : Guest(mem, x[c])
  BY IdleOk DEF Guest, Init
<1> QED BY <1>1, <1>2 DEF GuestInv

(* Nothing of an exit changes.                                             *)
LEMMA GuestStays ==
    ASSUME GuestInv, UNCHANGED <<mem, tlb, x>>
    PROVE  GuestInv'
BY DEF GuestInv

LEMMA MapGuest == Inv /\ GuestInv /\ Inv' /\ Map => GuestInv'
<1> SUFFICES ASSUME Inv, GuestInv, Inv', Map PROVE GuestInv'
  OBVIOUS
<1>1. phase = "init" /\ phase' \in {"init", "on"} /\ UNCHANGED x
  BY DEF Map, MmuInitializeMapping
<1>2. PICK va : va = SlotVa[ProcIdx][SlotIdx]
  OBVIOUS
<1>3. tlb' = [tlb EXCEPT ![Boot][va] = ZeroPte]
  BY <1>2 DEF Map, MmuInitializeMapping
<1>4. va \in SlotVas /\ Boot \in Cpus
  <2>1. ProcIdx \in Cpus /\ SlotIdx \in Slots
    BY AtIs DEF Inv, Types
  <2> QED BY <1>2, <2>1, SlotVaOwn, SlotAssumption
<1>5. \A c \in Cpus : x[c].pc = "idle" /\ x'[c].pc = "idle"
  BY <1>1 DEF Inv, Exits
<1>6. Clear(mem)
  BY <1>1, <1>5, IdleClear
<1>7. Clear(mem')
  BY <1>1, <1>5, IdleClearNext
<1>8. TlbOk(tlb', mem')
  BY <1>3, <1>4, <1>6, <1>7, ClearOk DEF GuestInv
<1> QED BY <1>5, <1>8 DEF GuestInv, Guest

LEMMA FinalizeGuest == Inv /\ GuestInv /\ Inv' /\ MmuFinalize => GuestInv'
<1> SUFFICES ASSUME Inv, GuestInv, Inv', MmuFinalize PROVE GuestInv'
  OBVIOUS
<1>1. phase \in {"undo", "fini"} /\ phase' \in {"undo", "fini", "on", "ended"} /\ UNCHANGED x
  BY DEF MmuFinalize
<1>2. PICK va : va = Mapping.va
  OBVIOUS
<1>3. \A c \in Cpus : x[c].pc = "idle" /\ x'[c].pc = "idle"
  BY <1>1 DEF Inv, Exits
<1>4. Clear(mem)
  BY <1>1, <1>3, IdleClear
<1>5. Clear(mem')
  BY <1>1, <1>3, IdleClearNext
<1>6. CASE va # 0
  <2>1. tlb' = [tlb EXCEPT ![Boot][va] = ZeroPte]
    BY <1>2, <1>6 DEF MmuFinalize, MmuDeleteMapping, Mapping
  <2>2. va \in SlotVas /\ Boot \in Cpus
    <3>1. ProcIdx \in Cpus /\ SlotIdx \in Slots
      BY AtIs DEF Inv, Types
    <3>2. array \in Mappings
      BY <1>1 DEF Inv, Types, Phases
    <3>3. va \in SlotVas \cup {0}
      BY <1>2, <3>1, <3>2 DEF Mapping, Mappings
    <3> QED BY <1>6, <3>3, SlotAssumption
  <2>3. TlbOk(tlb', mem')
    BY <1>4, <1>5, <2>1, <2>2, ClearOk DEF GuestInv
  <2> QED BY <1>3, <2>3 DEF GuestInv, Guest
<1>7. CASE va = 0
  <2>1. UNCHANGED <<mem, tlb>>
    BY <1>2, <1>7 DEF MmuFinalize
  <2> QED BY <1>1, <2>1, GuestStays
<1> QED BY <1>6, <1>7

(* The guest changes its tables: of the exits under way nothing is claimed *)
(* any more.                                                               *)
LEMMA RemapGuest == Inv /\ GuestInv /\ Remap => GuestInv'
<1> SUFFICES ASSUME Inv, GuestInv, Remap PROVE GuestInv'
  OBVIOUS
<1>1. PICK r \in Remaps : mem' = [mem EXCEPT ![r[1]][r[2]] = r[3]]
  BY DEF Remap
<1>2. UNCHANGED tlb
  BY DEF Remap
<1>3. \A w \in SlotVas : Pte(mem', w) = Pte(mem, w)
  BY <1>1, RemapFacts DEF Inv, Types
<1>4. TlbOk(tlb', mem')
  <2>1. \A c \in Cpus : \A v \in Own(c) : Pte(mem', v) = Pte(mem, v)
    BY <1>3, OwnIs
  <2> QED BY <1>2, <2>1 DEF GuestInv, TlbOk
<1>5. ASSUME NEW c \in Cpus PROVE Guest(mem', x'[c])
  <2>1. PICK r1 : r1 = x[c]
    OBVIOUS
  <2>2. PICK q : q = x'[c]
    OBVIOUS
  <2>3. q = IF r1.pc = "idle" THEN r1 ELSE [r1 EXCEPT !.moved = TRUE]
    BY <2>1, <2>2 DEF Remap
  <2>4. IsExit(r1) /\ Guest(mem, r1)
    BY <2>1, ExitIs DEF GuestInv
  <2>5. CASE r1.pc = "idle"
    BY <2>2, <2>3, <2>5 DEF Guest
  <2>6. CASE r1.pc # "idle"
    <3>1. /\ q.pc = r1.pc /\ q.op = r1.op /\ q.cr3 = r1.cr3 /\ q.va = r1.va /\ q.end = r1.end
          /\ q.todo = r1.todo /\ q.held = r1.held /\ q.out = r1.out /\ q.moved = TRUE
      BY <2>3, <2>4, <2>6 DEF IsExit
    <3>2. Simple(q) => Shape(q)
      <4> SUFFICES ASSUME Simple(q) PROVE Shape(q)
        OBVIOUS
      <4>1. Shape(r1)
        BY <2>4, <2>6, <3>1 DEF Guest, Simple
      <4> QED BY <3>1, <4>1 DEF Shape, Wanted, Rest, Two, Begun
    <3> QED BY <2>2, <3>1, <3>2 DEF Guest
  <2> QED BY <2>5, <2>6
<1> QED BY <1>4, <1>5 DEF GuestInv

-----------------------------------------------------------------------------
LEMMA Joins ==
    ASSUME NEW a \in Nat, NEW b \in Nat
    PROVE  <<a>> \o <<>> = <<a>> /\ <<a>> \o <<b>> = <<a, b>>
<1>1. PICK s : s = <<a>>
  OBVIOUS
<1>2. PICK t : t = <<b>>
  OBVIOUS
<1>3. PICK u : u = <<a, b>>
  OBVIOUS
<1>4. /\ s \in Seq(Nat) /\ t \in Seq(Nat) /\ u \in Seq(Nat)
      /\ Len(s) = 1 /\ Len(t) = 1 /\ Len(u) = 2
      /\ s[1] = a /\ t[1] = b /\ u[1] = a /\ u[2] = b
  BY <1>1, <1>2, <1>3
<1>5. s \o <<>> = s
  BY <1>4, ConcatEmptySeq
<1>6. /\ s \o t \in Seq(Nat) /\ Len(s \o t) = Len(s) + Len(t)
      /\ \A i \in 1 .. Len(s) + Len(t) : (s \o t)[i] = IF i <= Len(s) THEN s[i] ELSE t[i - Len(s)]
  BY <1>4, ConcatProperties
<1>7. PICK j : j = s \o t
  OBVIOUS
<1>8. j \in Seq(Nat) /\ Len(j) = 2 /\ j[1] = a /\ j[2] = b
  BY <1>4, <1>6, <1>7
<1>9. \A i \in 1 .. Len(j) : j[i] = u[i]
  BY <1>4, <1>8
<1>10. j = u
  BY <1>4, <1>8, <1>9, SeqEqual
<1> QED BY <1>1, <1>2, <1>3, <1>5, <1>7, <1>10

LEMMA ShapeNat ==
    ASSUME NEW r, Shape(r)
    PROVE  r.va \in Nat /\ r.va + INS \in Nat /\ Wanted(r) \in Nat
<1>1. r.va \in Nat
  BY TableAssumption DEF Shape
<1> QED BY <1>1, WantedReads, ReadsAreNat DEF INS

LEMMA RestIs ==
    ASSUME NEW r, Shape(r)
    PROVE  /\ <<Wanted(r)>> \o Rest(r) = IF Two(r) /\ r.out = <<>> THEN <<Wanted(r), r.va + INS>>
                                                                ELSE <<Wanted(r)>>
           /\ Head(<<Wanted(r)>> \o Rest(r)) = Wanted(r)
           /\ Tail(<<Wanted(r)>> \o Rest(r)) = Rest(r)
<1>1. PICK a : a = Wanted(r) /\ a \in Nat
  BY ShapeNat
<1>2. PICK b : b = r.va + INS /\ b \in Nat
  BY ShapeNat
<1>3. <<a>> \o <<>> = <<a>> /\ <<a>> \o <<b>> = <<a, b>>
  BY <1>1, <1>2, Joins
<1>4. CASE Two(r) /\ r.out = <<>>
  <2>1. Rest(r) = <<b>>
    BY <1>2, <1>4 DEF Rest
  <2>2. PICK f : f = <<a, b>>
    OBVIOUS
  <2>3. Head(f) = a /\ Tail(f) = <<b>>
    BY <1>1, <1>2, <2>2
  <2>4. <<Wanted(r)>> \o Rest(r) = f
    BY <1>1, <1>3, <2>1, <2>2
  <2> QED BY <1>1, <1>2, <1>4, <2>1, <2>2, <2>3, <2>4
<1>5. CASE ~(Two(r) /\ r.out = <<>>)
  <2>1. Rest(r) = <<>>
    BY <1>5 DEF Rest
  <2> QED BY <1>1, <1>3, <1>5, <2>1
<1> QED BY <1>4, <1>5

LEMMA Looks ==
    ASSUME NEW r, Shape(r), r.pc \in Looking
    PROVE  Head(r.todo) = Wanted(r) /\ Tail(r.todo) = Rest(r) /\ r.held = <<>>
<1>1. r.todo = <<Wanted(r)>> \o Rest(r) /\ r.held = <<>>
  BY DEF Shape
<1> QED BY <1>1, RestIs

(* The exit ends.                                                          *)
LEMMA DoneGuest ==
    ASSUME NEW m, NEW r, NEW q, Shape(r), ~r.moved => Bytes(m, r), q.pc = "done",
           q.op = r.op, q.cr3 = r.cr3, q.va = r.va, q.end = r.end, q.out = r.out, q.moved = r.moved
    PROVE  Guest(m, q)
<1>1. Shape(q)
  BY DEF Shape, Looking
<1>2. ~r.moved => Bytes(m, q)
  BY DEF Bytes, ByteOk
<1> QED BY <1>1, <1>2 DEF Guest, Track

LEMMA FailGuest ==
    ASSUME NEW m, NEW r, NEW f, Shape(r), ~r.moved => Bytes(m, r), IsExit(f), f.held = <<>>,
           f.op = r.op, f.cr3 = r.cr3, f.va = r.va, f.end = r.end, f.out = r.out, f.moved = r.moved
    PROVE  Guest(m, Fail(f))
<1>1. PICK q : q = Fail(f)
  OBVIOUS
<1>2. /\ q.pc = "done" /\ q.op = f.op /\ q.cr3 = f.cr3 /\ q.va = f.va /\ q.end = f.end
      /\ q.out = f.out /\ q.moved = f.moved
  BY <1>1 DEF Fail, IsExit
<1>3. Guest(m, q)
  BY <1>2, DoneGuest
<1> QED BY <1>1, <1>3

LEMMA NoBytes ==
    ASSUME NEW m, NEW r, r.out = <<>>
    PROVE  Bytes(m, r)
BY DEF Bytes

LEMMA ReadGuest == \A c \in Cpus : Inv /\ GuestInv /\ VmReadGuestInstruction(c) => GuestInv'
<1> SUFFICES ASSUME NEW c \in Cpus, Inv, GuestInv, VmReadGuestInstruction(c) PROVE GuestInv'
  OBVIOUS
<1>1. PICK cr3 \in GuestCr3s, va \in Instructions :
        Goto(c, [Idle EXCEPT !.pc = "translate", !.op = "instruction", !.cr3 = cr3, !.va = va,
                    !.todo = IF PagesSpanned(va) = 1 THEN <<va>> ELSE <<va, va + INS>>])
  BY DEF VmReadGuestInstruction
<1>2. PICK todo : todo = IF PagesSpanned(va) = 1 THEN <<va>> ELSE <<va, va + INS>>
  OBVIOUS
<1>3. PICK q : q = [Idle EXCEPT !.pc = "translate", !.op = "instruction", !.cr3 = cr3, !.va = va,
                       !.todo = todo]
  OBVIOUS
<1>4. x' = [x EXCEPT ![c] = q] /\ UNCHANGED <<mem, tlb>>
  BY <1>1, <1>2, <1>3 DEF Goto, VmReadGuestInstruction
<1>5. /\ q.pc = "translate" /\ q.op = "instruction" /\ q.cr3 = cr3 /\ q.va = va /\ q.todo = todo
      /\ q.held = <<>> /\ q.out = <<>>
  BY <1>3 DEF Idle
<1>6. Shape(q)
  <2>1. PICK a : a = va /\ a \in Nat
    BY TableAssumption
  <2>2. PICK b : b = va + INS /\ b \in Nat
    BY TableAssumption DEF INS
  <2>3. <<a>> \o <<>> = <<a>> /\ <<a>> \o <<b>> = <<a, b>>
    BY <2>1, <2>2, Joins
  <2>4. Wanted(q) = a
    BY <1>5, <2>1 DEF Wanted
  <2>5. Rest(q) = IF PagesSpanned(va) = 1 THEN <<>> ELSE <<b>>
    BY <1>5, <2>2 DEF Rest, Two
  <2>6. q.todo = <<Wanted(q)>> \o Rest(q)
    BY <1>2, <1>5, <2>1, <2>2, <2>3, <2>4, <2>5
  <2> QED BY <1>5, <2>6 DEF Shape
<1>7. Guest(mem', q)
  BY <1>5, <1>6, NoBytes DEF Guest, Track
<1> QED BY <1>4, <1>7, GuestStep, SlottedSame DEF Inv, Types, GuestInv

LEMMA CopySiblingGuest == \A c \in Cpus : Inv /\ GuestInv /\ TdCopySiblingMemory(c) => GuestInv'
<1> SUFFICES ASSUME NEW c \in Cpus, Inv, GuestInv, TdCopySiblingMemory(c) PROVE GuestInv'
  OBVIOUS
<1>1. PICK cr3 \in GuestCr3s, sib \in Siblings :
        Goto(c, [Idle EXCEPT !.pc = "translate", !.op = "sibling", !.cr3 = cr3,
                    !.va = sib[1], !.end = sib[2],
                    !.todo = IF PageOf(sib[1]) = PageOf(sib[2])
                               THEN <<PageOf(sib[1])>> ELSE <<PageOf(sib[1]), PageOf(sib[2])>>])
  BY DEF TdCopySiblingMemory
<1>2. PICK todo : todo = IF PageOf(sib[1]) = PageOf(sib[2])
                           THEN <<PageOf(sib[1])>> ELSE <<PageOf(sib[1]), PageOf(sib[2])>>
  OBVIOUS
<1>3. PICK q : q = [Idle EXCEPT !.pc = "translate", !.op = "sibling", !.cr3 = cr3,
                       !.va = sib[1], !.end = sib[2], !.todo = todo]
  OBVIOUS
<1>4. x' = [x EXCEPT ![c] = q] /\ UNCHANGED <<mem, tlb>>
  BY <1>1, <1>2, <1>3 DEF Goto, TdCopySiblingMemory
<1>5. /\ q.pc = "translate" /\ q.op = "sibling" /\ q.cr3 = cr3 /\ q.va = sib[1] /\ q.end = sib[2]
      /\ q.todo = todo /\ q.held = <<>> /\ q.out = <<>>
  BY <1>3 DEF Idle
<1>6. Simple(q) => Shape(q)
  <2> SUFFICES ASSUME Simple(q) PROVE Shape(q)
    OBVIOUS
  <2>1. PICK a : a = PageOf(sib[1]) /\ a \in Reads
    BY DEF Reads
  <2>2. sib[1] \in Nat /\ sib[2] \in Nat
    BY TableAssumption
  <2>3. q.todo = <<a>>
    BY <1>2, <1>5, <2>1 DEF Simple
  <2>4. Wanted(q) = a /\ Rest(q) = <<>>
    BY <1>5, <2>1 DEF Wanted, Rest, Two
  <2>5. <<a>> \o <<>> = <<a>>
    BY <2>1, ReadsAreNat, Joins
  <2> QED BY <1>5, <2>1, <2>2, <2>3, <2>4, <2>5 DEF Shape
<1>7. Guest(mem', q)
  BY <1>5, <1>6, NoBytes DEF Guest, Track
<1> QED BY <1>4, <1>7, GuestStep, SlottedSame DEF Inv, Types, GuestInv

LEMMA PhysicalGuest == \A c \in Cpus : Inv /\ GuestInv /\ MmuGetPhysicalAddress(c) => GuestInv'
<1> SUFFICES ASSUME NEW c \in Cpus, Inv, GuestInv, MmuGetPhysicalAddress(c) PROVE GuestInv'
  OBVIOUS
<1>1. PICK r : r = x[c]
  OBVIOUS
<1>2. PICK pa : pa = Translate(mem, HostCr3, Head(r.todo))
  OBVIOUS
<1>3. PICK q : q = IF r.cr3 # HostCr3
                     THEN [r EXCEPT !.pc = "walk", !.level = Levels, !.pa = r.cr3]
                   ELSE IF pa \in {ZeroPte, Large} THEN Fail(r)
                   ELSE [r EXCEPT !.pc = "map", !.pa = pa]
  OBVIOUS
<1>4. x' = [x EXCEPT ![c] = q] /\ UNCHANGED <<mem, tlb>>
  BY <1>1, <1>2, <1>3 DEF MmuGetPhysicalAddress, Goto
<1>5. r.pc = "translate" /\ IsExit(r) /\ Guest(mem, r)
  BY <1>1, ExitIs DEF MmuGetPhysicalAddress, InRoot, GuestInv
<1>6. q.op = r.op /\ q.va = r.va /\ q.end = r.end
  BY <1>3, <1>5 DEF Fail, IsExit
<1>7. Guest(mem, q)
  <2> SUFFICES ASSUME Simple(r) PROVE Guest(mem, q)
    BY <1>6 DEF Guest, Simple
  <2>1. Shape(r) /\ (~r.moved => Bytes(mem, r))
    BY <1>5 DEF Guest, Track
  <2>2. Head(r.todo) = Wanted(r) /\ r.held = <<>>
    BY <1>5, <2>1, Looks DEF Looking
  <2>3. CASE q = [r EXCEPT !.pc = "walk", !.level = Levels, !.pa = r.cr3]
    <3>1. /\ q.pc = "walk" /\ q.cr3 = r.cr3 /\ q.todo = r.todo /\ q.held = r.held /\ q.out = r.out
          /\ q.moved = r.moved /\ q.level = Levels /\ q.pa = r.cr3
      BY <1>5, <2>3 DEF IsExit
    <3>2. Shape(q) /\ Wanted(q) = Wanted(r)
      BY <1>5, <1>6, <2>1, <3>1 DEF Shape, Looking, Wanted, Rest, Two, Begun
    <3>3. q.pa = Path(mem, q.cr3, Wanted(q))[q.level]
      BY <3>1, PathTop
    <3>4. ~r.moved => Bytes(mem, q)
      BY <1>6, <2>1, <3>1 DEF Bytes, ByteOk
    <3> QED BY <3>1, <3>2, <3>3, <3>4 DEF Guest, Track
  <2>4. CASE q = Fail(r)
    BY <1>5, <2>1, <2>2, <2>4, FailGuest
  <2>5. CASE q = [r EXCEPT !.pc = "map", !.pa = pa] /\ r.cr3 = HostCr3
    <3>1. /\ q.pc = "map" /\ q.cr3 = r.cr3 /\ q.todo = r.todo /\ q.held = r.held /\ q.out = r.out
          /\ q.moved = r.moved /\ q.pa = pa
      BY <1>5, <2>5 DEF IsExit
    <3>2. Shape(q) /\ Wanted(q) = Wanted(r)
      BY <1>5, <1>6, <2>1, <3>1 DEF Shape, Looking, Wanted, Rest, Two, Begun
    <3>3. q.pa = Translate(mem, q.cr3, Wanted(q))
      BY <1>2, <2>2, <2>5, <3>1, <3>2
    <3>4. ~r.moved => Bytes(mem, q)
      BY <1>6, <2>1, <3>1 DEF Bytes, ByteOk
    <3> QED BY <3>1, <3>2, <3>3, <3>4 DEF Guest, Track
  <2> QED BY <1>3, <2>3, <2>4, <2>5
<1> QED BY <1>4, <1>7, GuestStep, SlottedSame DEF Inv, Types, GuestInv

-----------------------------------------------------------------------------
(* A slot is taken, or given back.                                         *)
LEMMA TakenFacts ==
    ASSUME Inv, GuestInv, NEW c \in Cpus, NEW s \in Slots, NEW page, phase = "on", array # <<>>,
           MmuMapIoPage(c, s, page)
    PROVE  /\ SlotVa[c][s] \in Own(c) /\ array[c][s].va = SlotVa[c][s]
           /\ Built(mem) /\ Written(mem, mem', SlotVa[c][s], page)
           /\ TlbOk(tlb', mem') /\ Slotted(c, mem, mem')
<1>1. PICK v : v = SlotVa[c][s]
  OBVIOUS
<1>2. v \in Own(c) /\ v \in SlotVas
  BY <1>1, SlotVaOwn
<1>3. array[c][s].va = v
  BY <1>1 DEF Inv, Phases, Accounted
<1>4. mem' = Store(mem, v, page) /\ tlb' = [tlb EXCEPT ![c][v] = ZeroPte]
  BY <1>3 DEF MmuMapIoPage, MmupWriteMappingPte
<1>5. Built(mem) /\ TlbOk(tlb, mem)
  BY DEF Inv, Types, GuestInv
<1>6. Written(mem, mem', v, page)
  BY <1>2, <1>4, <1>5, StoreFacts
<1>7. TlbOk(tlb', mem')
  BY <1>2, <1>4, <1>5, <1>6, FlushOk
<1>8. Slotted(c, mem, mem')
  BY <1>2, <1>6, SlottedWritten
<1> QED BY <1>1, <1>2, <1>3, <1>5, <1>6, <1>7, <1>8

LEMMA GivenFacts ==
    ASSUME Inv, NEW c \in Cpus, NEW v \in Own(c), NEW t, TlbOk(t, mem), MmuUnmapIoPage(c, t, v)
    PROVE  /\ Built(mem) /\ Written(mem, mem', v, ZeroPte)
           /\ TlbOk(tlb', mem') /\ Slotted(c, mem, mem')
<1>1. v \in SlotVas
  BY OwnIs
<1>2. mem' = Store(mem, v, ZeroPte) /\ tlb' = [t EXCEPT ![c][v] = ZeroPte]
  BY DEF MmuUnmapIoPage, MmupWriteMappingPte
<1>3. Built(mem)
  BY DEF Inv, Types
<1>4. Written(mem, mem', v, ZeroPte)
  BY <1>1, <1>2, <1>3, StoreFacts
<1>5. TlbOk(tlb', mem')
  BY <1>2, <1>4, FlushOk
<1>6. Slotted(c, mem, mem')
  BY <1>4, SlottedWritten
<1> QED BY <1>3, <1>4, <1>5, <1>6

LEMMA WalkMapGuest == \A c \in Cpus : Inv /\ GuestInv /\ WalkMap(c) => GuestInv'
<1> SUFFICES ASSUME NEW c \in Cpus, Inv, GuestInv, WalkMap(c) PROVE GuestInv'
  OBVIOUS
<1>1. PICK r : r = x[c]
  OBVIOUS
<1>2. PICK s : s = MmuAcquireMapping(c)
  OBVIOUS
<1>3. phase = "on" /\ r.pc = "walk" /\ array # <<>>
  BY <1>1 DEF WalkMap, InRoot
<1>4. ExitOk(c, r) /\ IsExit(r) /\ Guest(mem, r)
  BY <1>1, ExitIs DEF GuestInv
<1>5. s \in Slots
  <2>1. s # 0
    BY <1>1, <1>2, <1>3, InvSuffice DEF SlotsSuffice
  <2> QED BY <1>2, <2>1, AcquireFacts
<1>6. s # 0
  BY <1>5, SlotAssumption
<1>7. PICK v : v = SlotVa[c][s]
  OBVIOUS
<1>8. MmuMapIoPage(c, s, r.pa)
  BY <1>1, <1>2, <1>6 DEF WalkMap
<1>9. /\ v \in Own(c) /\ array[c][s].va = v /\ Built(mem) /\ Written(mem, mem', v, r.pa)
      /\ TlbOk(tlb', mem') /\ Slotted(c, mem, mem')
  BY <1>3, <1>5, <1>7, <1>8, TakenFacts
<1>10. PICK q : q = [r EXCEPT !.pc = "walk2", !.table = v]
  OBVIOUS
<1>11. x' = [x EXCEPT ![c] = q]
  BY <1>1, <1>2, <1>6, <1>9, <1>10 DEF WalkMap, Goto
<1>12. /\ q.pc = "walk2" /\ q.op = r.op /\ q.cr3 = r.cr3 /\ q.va = r.va /\ q.end = r.end
       /\ q.todo = r.todo /\ q.held = r.held /\ q.out = r.out /\ q.moved = r.moved
       /\ q.level = r.level /\ q.table = v
  BY <1>4, <1>10 DEF IsExit
<1>13. Guest(mem', q)
  <2> SUFFICES ASSUME Simple(r) PROVE Guest(mem', q)
    BY <1>12 DEF Guest, Simple
  <2>1. Shape(r) /\ (~r.moved => Track(mem, r))
    BY <1>3, <1>4 DEF Guest
  <2>2. Shape(q) /\ Wanted(q) = Wanted(r)
    BY <1>3, <1>12, <2>1 DEF Shape, Looking, Wanted, Rest, Two, Begun
  <2>3. r.cr3 \in GuestCr3s /\ Wanted(r) \in Reads
    BY <2>1, WantedReads DEF Shape
  <2>4. Built(mem') /\ Agree(mem, mem') /\ Pte(mem', v) = r.pa
    BY <1>9 DEF Written
  <2>5. PICK l : l = r.level
    OBVIOUS
  <2>6. l \in 0 .. Levels
    BY <1>3, <1>4, <2>5, TableAssumption DEF ExitOk
  <2>7. Path(mem', r.cr3, Wanted(r))[l] = Path(mem, r.cr3, Wanted(r))[l]
    BY <1>9, <2>3, <2>4, <2>6, WalkStable
  <2>8. ~r.moved => Bytes(mem', q)
    BY <1>9, <1>12, <2>1, <2>3, <2>4, BytesKept DEF Track
  <2>9. ~r.moved => Pte(mem', q.table) = Path(mem', q.cr3, Wanted(q))[q.level]
    BY <1>3, <1>12, <2>1, <2>2, <2>4, <2>5, <2>7 DEF Track
  <2> QED BY <1>12, <2>2, <2>8, <2>9 DEF Guest, Track
<1> QED BY <1>9, <1>11, <1>13, GuestStep

LEMMA WalkReadGuest == \A c \in Cpus : Inv /\ GuestInv /\ WalkRead(c) => GuestInv'
<1> SUFFICES ASSUME NEW c \in Cpus, Inv, GuestInv, WalkRead(c) PROVE GuestInv'
  OBVIOUS
<1>1. PICK r : r = x[c]
  OBVIOUS
<1>2. PICK e : e = Entry(mem, View(c, r.table), MmuAddressToPti(r.level, Head(r.todo)))
  OBVIOUS
<1>3. PICK t : t = Loaded(c, {r.table})
  OBVIOUS
<1>4. PICK v : v = r.table
  OBVIOUS
<1>5. PICK q : q = NextLevel(r, e)
  OBVIOUS
<1>6. x' = [x EXCEPT ![c] = q] /\ MmuUnmapIoPage(c, t, v)
  BY <1>1, <1>2, <1>3, <1>4, <1>5 DEF WalkRead, Goto
<1>7. phase = "on" /\ r.pc = "walk2"
  BY <1>1 DEF WalkRead, InRoot
<1>8. ExitOk(c, r) /\ IsExit(r) /\ Guest(mem, r)
  BY <1>1, ExitIs DEF GuestInv
<1>9. v \in Own(c)
  BY <1>4, <1>7, <1>8 DEF ExitOk
<1>10. TlbOk(t, mem)
  BY <1>3, LoadedOk DEF GuestInv
<1>11. Built(mem) /\ Written(mem, mem', v, ZeroPte) /\ TlbOk(tlb', mem') /\ Slotted(c, mem, mem')
  BY <1>6, <1>9, <1>10, GivenFacts
<1>12. Built(mem') /\ Agree(mem, mem')
  BY <1>11 DEF Written
<1>13. PICK f : f = [r EXCEPT !.table = 0]
  OBVIOUS
<1>14. /\ IsExit(f) /\ f.op = r.op /\ f.cr3 = r.cr3 /\ f.va = r.va /\ f.end = r.end
       /\ f.held = r.held /\ f.out = r.out /\ f.moved = r.moved
  BY <1>8, <1>13 DEF IsExit
<1>15. CASE q = Fail(f)
  <2>1. q.op = r.op /\ q.va = r.va /\ q.end = r.end
    BY <1>14, <1>15 DEF Fail, IsExit
  <2>2. Guest(mem', q)
    <3> SUFFICES ASSUME Simple(r) PROVE Guest(mem', q)
      BY <2>1 DEF Guest, Simple
    <3>1. Shape(r) /\ (~r.moved => Bytes(mem, r)) /\ r.cr3 \in GuestCr3s
      BY <1>7, <1>8 DEF Guest, Track, Shape
    <3>2. ~r.moved => Bytes(mem', r)
      BY <1>11, <1>12, <3>1, BytesKept
    <3>3. f.held = <<>>
      BY <1>7, <1>14, <3>1, Looks DEF Looking
    <3> QED BY <1>14, <1>15, <3>1, <3>2, <3>3, FailGuest
  <2> QED BY <1>6, <1>11, <2>2, GuestStep
<1>16. CASE q # Fail(f)
  <2>1. \/ r.level = 1 /\ q = [r EXCEPT !.pc = "map", !.pa = e, !.table = 0]
        \/ r.level # 1 /\ q = [r EXCEPT !.pc = "walk", !.pa = e, !.level = @ - 1, !.table = 0]
    BY <1>5, <1>13, <1>16 DEF NextLevel
  <2>2. /\ q.pc = IF r.level = 1 THEN "map" ELSE "walk"
        /\ r.level # 1 => q.level = r.level - 1
        /\ q.op = r.op /\ q.cr3 = r.cr3 /\ q.va = r.va /\ q.end = r.end /\ q.pa = e
        /\ q.todo = r.todo /\ q.held = r.held /\ q.out = r.out /\ q.moved = r.moved
    BY <1>8, <2>1 DEF IsExit
  <2>3. Guest(mem', q)
    <3> SUFFICES ASSUME Simple(r) PROVE Guest(mem', q)
      BY <2>2 DEF Guest, Simple
    <3>1. Shape(r) /\ (~r.moved => Track(mem, r))
      BY <1>7, <1>8 DEF Guest
    <3>2. Shape(q) /\ Wanted(q) = Wanted(r)
      BY <1>7, <2>2, <3>1 DEF Shape, Looking, Wanted, Rest, Two, Begun
    <3>3. r.cr3 \in GuestCr3s /\ Wanted(r) \in Reads
      BY <3>1, WantedReads DEF Shape
    <3>4. ~r.moved => Bytes(mem', q)
      BY <1>11, <1>12, <2>2, <3>1, <3>3, BytesKept DEF Track
    <3>5. PICK l : l = r.level - 1
      OBVIOUS
    <3>6. l \in 0 .. Levels - 1 /\ l \in 0 .. Levels /\ r.level = l + 1 /\ (r.level = 1 <=> l = 0)
      BY <1>7, <1>8, <3>5, TableAssumption DEF ExitOk
    <3>7. Head(r.todo) = Wanted(r)
      BY <1>7, <3>1, Looks DEF Looking
    <3>8. PICK w : w = Wanted(r)
      OBVIOUS
    <3>9. View(c, v) = Pte(mem, v)
      BY <1>9, ViewIs DEF GuestInv
    <3>10. e = Below(mem, Pte(mem, v), l + 1, w)
      BY <1>2, <1>4, <3>6, <3>7, <3>8, <3>9 DEF Entry, Below
    <3>11. Path(mem, r.cr3, w)[l] = Below(mem, Path(mem, r.cr3, w)[l + 1], l + 1, w)
      BY <3>6, PathStep
    <3>12. ~r.moved => Pte(mem, v) = Path(mem, r.cr3, w)[l + 1]
      BY <1>4, <1>7, <3>1, <3>6, <3>8 DEF Track
    <3>13. Path(mem', r.cr3, w)[l] = Path(mem, r.cr3, w)[l]
      BY <1>11, <1>12, <3>3, <3>6, <3>8, WalkStable
    <3>14. ~r.moved => q.pa = Path(mem', q.cr3, Wanted(q))[l]
      BY <2>2, <3>2, <3>8, <3>10, <3>11, <3>12, <3>13
    <3>15. ~r.moved => Track(mem', q)
      <4>1. CASE l = 0
        <5>1. q.pc = "map"
          BY <2>2, <3>6, <4>1
        <5> QED BY <3>4, <3>14, <4>1, <5>1 DEF Track, Translate
      <4>2. CASE l # 0
        <5>1. q.pc = "walk" /\ q.level = l
          BY <2>2, <3>5, <3>6, <4>2
        <5> QED BY <3>4, <3>14, <5>1 DEF Track
      <4> QED BY <4>1, <4>2
    <3> QED BY <2>2, <3>2, <3>15 DEF Guest
  <2> QED BY <1>6, <1>11, <2>3, GuestStep
<1> QED BY <1>15, <1>16

LEMMA NullArrayGuest == \A c \in Cpus : Inv /\ GuestInv /\ NullArray(c) => GuestInv'
BY GuestStays DEF NullArray

LEMMA ResumeGuest == \A c \in Cpus : Inv /\ GuestInv /\ Resume(c) => GuestInv'
<1> SUFFICES ASSUME NEW c \in Cpus, Inv, GuestInv, Resume(c) PROVE GuestInv'
  OBVIOUS
<1>1. x' = [x EXCEPT ![c] = Idle] /\ UNCHANGED <<mem, tlb>>
  BY DEF Resume, Goto
<1>2. Guest(mem', Idle)
  BY IdleOk DEF Guest
<1> QED BY <1>1, <1>2, GuestStep, SlottedSame DEF Inv, Types, GuestInv

LEMMA BegunIs ==
    ASSUME NEW r, Begun(r)
    PROVE  /\ r.out # <<>> /\ FirstLength(r.va) \in {1, 2}
           /\ r.out \in Seq({r.out[i] : i \in 1 .. FirstLength(r.va)}) /\ Len(r.out) = FirstLength(r.va)
<1>1. PICK n : n = FirstLength(r.va) /\ n \in {1, 2}
  BY DEF FirstLength
<1>2. PICK o : o = r.out
  OBVIOUS
<1>3. o = [i \in 1 .. n |-> o[i]]
  BY <1>1, <1>2 DEF Begun
<1>4. DOMAIN o = 1 .. n
  BY <1>3
<1>5. o # <<>>
  <2>1. 1 \in DOMAIN o
    BY <1>1, <1>4
  <2>2. DOMAIN <<>> = {}
    OBVIOUS
  <2> QED BY <2>1, <2>2
<1>6. PICK S : S = {o[i] : i \in 1 .. n}
  OBVIOUS
<1>7. o \in [1 .. n -> S] /\ n \in Nat
  BY <1>1, <1>3, <1>6
<1>8. o \in Seq(S) /\ Len(o) = n
  BY <1>7
<1> QED BY <1>1, <1>2, <1>5, <1>6, <1>8

LEMMA MapPageGuest == \A c \in Cpus : Inv /\ GuestInv /\ MapPage(c) => GuestInv'
<1> SUFFICES ASSUME NEW c \in Cpus, Inv, GuestInv, MapPage(c) PROVE GuestInv'
  OBVIOUS
<1>1. PICK r : r = x[c]
  OBVIOUS
<1>2. PICK s : s = MmuAcquireMapping(c)
  OBVIOUS
<1>3. phase = "on" /\ r.pc = "map" /\ array # <<>>
  BY <1>1 DEF MapPage, InRoot
<1>4. ExitOk(c, r) /\ IsExit(r) /\ Guest(mem, r)
  BY <1>1, ExitIs DEF GuestInv
<1>5. s \in Slots
  <2>1. s # 0
    BY <1>1, <1>2, <1>3, InvSuffice DEF SlotsSuffice
  <2> QED BY <1>2, <2>1, AcquireFacts
<1>6. s # 0
  BY <1>5, SlotAssumption
<1>7. PICK v : v = SlotVa[c][s]
  OBVIOUS
<1>8. MmuMapIoPage(c, s, r.pa)
  BY <1>1, <1>2, <1>6 DEF MapPage
<1>9. /\ v \in Own(c) /\ array[c][s].va = v /\ Built(mem) /\ Written(mem, mem', v, r.pa)
      /\ TlbOk(tlb', mem') /\ Slotted(c, mem, mem')
  BY <1>3, <1>5, <1>7, <1>8, TakenFacts
<1>10. PICK pc : pc = IF r.op = "sibling" /\ Len(r.todo) > 1 THEN "translate" ELSE "copy"
  OBVIOUS
<1>11. PICK g : g = Append(r.held, v)
  OBVIOUS
<1>12. PICK u : u = Tail(r.todo)
  OBVIOUS
<1>13. PICK q : q = [r EXCEPT !.held = g, !.todo = u, !.pa = 0, !.level = 0, !.pc = pc]
  OBVIOUS
<1>14. x' = [x EXCEPT ![c] = q]
  BY <1>1, <1>2, <1>6, <1>9, <1>10, <1>11, <1>12, <1>13 DEF MapPage, Goto
<1>15. /\ q.pc = pc /\ q.op = r.op /\ q.cr3 = r.cr3 /\ q.va = r.va /\ q.end = r.end
       /\ q.todo = u /\ q.held = g /\ q.out = r.out /\ q.moved = r.moved
  BY <1>4, <1>13 DEF IsExit
<1>16. Guest(mem', q)
  <2> SUFFICES ASSUME Simple(r) PROVE Guest(mem', q)
    BY <1>15 DEF Guest, Simple
  <2>1. Shape(r) /\ (~r.moved => Track(mem, r))
    BY <1>3, <1>4 DEF Guest
  <2>2. r.cr3 \in GuestCr3s /\ Wanted(r) \in Reads
    BY <2>1, WantedReads DEF Shape
  <2>3. Built(mem') /\ Agree(mem, mem') /\ Pte(mem', v) = r.pa
    BY <1>9 DEF Written
  <2>4. u = Rest(r) /\ r.held = <<>>
    BY <1>3, <1>12, <2>1, Looks DEF Looking
  <2>5. g = <<v>>
    BY <1>11, <2>4
  <2>6. Len(g) = 1 /\ Head(g) = v
    BY <2>5
  <2>7. pc = "copy"
    <3> SUFFICES ASSUME r.op = "sibling" PROVE ~(Len(r.todo) > 1)
      BY <1>10
    <3>1. PICK w : w = Wanted(r)
      OBVIOUS
    <3>2. ~Two(r)
      BY DEF Two
    <3>3. r.todo = <<w>> \o Rest(r)
      BY <1>3, <2>1, <3>1 DEF Shape, Looking
    <3>4. r.todo = <<w>>
      BY <2>1, <3>1, <3>2, <3>3, RestIs
    <3>5. Len(<<w>>) = 1
      OBVIOUS
    <3> QED BY <3>4, <3>5
  <2>8. Wanted(q) = Wanted(r) /\ Rest(q) = Rest(r)
    BY <1>15 DEF Wanted, Rest, Two
  <2>9. Shape(q)
    BY <1>3, <1>15, <2>1, <2>4, <2>6, <2>7, <2>8 DEF Shape, Looking, Two, Begun
  <2>10. ~r.moved => Bytes(mem', q)
    BY <1>9, <1>15, <2>1, <2>2, <2>3, BytesKept DEF Track
  <2>11. Translate(mem', r.cr3, Wanted(r)) = Translate(mem, r.cr3, Wanted(r))
    BY <1>9, <2>2, <2>3, TranslateKept
  <2>12. ~r.moved => Pte(mem', Head(q.held)) = Translate(mem', q.cr3, Wanted(q))
    BY <1>3, <1>15, <2>1, <2>3, <2>6, <2>8, <2>11 DEF Track
  <2> QED BY <1>15, <2>7, <2>9, <2>10, <2>12 DEF Guest, Track
<1> QED BY <1>9, <1>14, <1>16, GuestStep

LEMMA UnmapGuest == \A c \in Cpus : Inv /\ GuestInv /\ UnmapPage(c) => GuestInv'
<1> SUFFICES ASSUME NEW c \in Cpus, Inv, GuestInv, UnmapPage(c) PROVE GuestInv'
  OBVIOUS
<1>1. PICK r : r = x[c]
  OBVIOUS
<1>2. PICK h : h = r.held
  OBVIOUS
<1>3. PICK pc : pc = IF Len(h) > 1 THEN "unmap" ELSE IF r.todo # <<>> THEN "translate" ELSE "done"
  OBVIOUS
<1>4. PICK g : g = Tail(h)
  OBVIOUS
<1>5. PICK q : q = [r EXCEPT !.held = g, !.pc = pc]
  OBVIOUS
<1>6. PICK v : v = Head(h)
  OBVIOUS
<1>7. x' = [x EXCEPT ![c] = q] /\ MmuUnmapIoPage(c, tlb, v)
  BY <1>1, <1>2, <1>3, <1>4, <1>5, <1>6 DEF UnmapPage, Goto
<1>8. phase = "on" /\ r.pc = "unmap"
  BY <1>1 DEF UnmapPage, InRoot
<1>9. ExitOk(c, r) /\ IsExit(r) /\ Guest(mem, r) /\ HeldOk(c, h) /\ h # <<>>
  BY <1>1, <1>2, <1>8, ExitIs DEF GuestInv, ExitOk
<1>10. v \in Own(c) /\ HeldOk(c, g) /\ Len(g) = Len(h) - 1
  BY <1>4, <1>6, <1>9, HeldShape
<1>11. Built(mem) /\ Written(mem, mem', v, ZeroPte) /\ TlbOk(tlb', mem') /\ Slotted(c, mem, mem')
  BY <1>7, <1>10, GivenFacts DEF GuestInv
<1>12. Built(mem') /\ Agree(mem, mem')
  BY <1>11 DEF Written
<1>13. /\ q.pc = pc /\ q.op = r.op /\ q.cr3 = r.cr3 /\ q.va = r.va /\ q.end = r.end
       /\ q.todo = r.todo /\ q.held = g /\ q.out = r.out /\ q.moved = r.moved
  BY <1>5, <1>9 DEF IsExit
<1>14. Guest(mem', q)
  <2> SUFFICES ASSUME Simple(r) PROVE Guest(mem', q)
    BY <1>13 DEF Guest, Simple
  <2>1. Shape(r) /\ (~r.moved => Bytes(mem, r)) /\ r.cr3 \in GuestCr3s
    BY <1>8, <1>9 DEF Guest, Track, Shape
  <2>2. ~r.moved => Bytes(mem', q)
    BY <1>11, <1>12, <1>13, <2>1, BytesKept
  <2>3. Len(h) = 1
    BY <1>2, <1>8, <2>1 DEF Shape
  <2>4. g = <<>>
    <3>1. Len(g) = 0
      BY <1>10, <2>3
    <3> QED BY <1>10, <3>1, HeldShape
  <2>5. CASE r.todo = <<>>
    <3>1. pc = "done"
      BY <1>3, <2>3, <2>5
    <3>2. ~q.moved => Bytes(mem', q)
      BY <1>13, <2>2
    <3>3. Shape(q)
      BY <1>13, <2>1, <3>1 DEF Shape, Looking
    <3> QED BY <1>13, <3>1, <3>2, <3>3 DEF Guest, Track
  <2>6. CASE r.todo # <<>>
    <3>1. pc = "translate"
      BY <1>3, <2>3, <2>6
    <3>2. Two(r) /\ Begun(r) /\ r.todo = <<r.va + INS>>
      BY <1>8, <2>1, <2>6 DEF Shape
    <3>3. PICK b : b = r.va + INS /\ b \in Nat
      BY <2>1, ShapeNat
    <3>4. r.out # <<>> /\ r.op = "instruction"
      BY <3>2, BegunIs DEF Two
    <3>5. Wanted(q) = b /\ Rest(q) = <<>>
      BY <1>13, <3>3, <3>4 DEF Wanted, Rest
    <3>6. <<b>> \o <<>> = <<b>>
      BY <3>3, Joins
    <3>7. q.todo = <<Wanted(q)>> \o Rest(q)
      BY <1>13, <3>2, <3>3, <3>5, <3>6
    <3>8. Two(q) /\ Begun(q)
      BY <1>13, <3>2 DEF Two, Begun
    <3>9. Shape(q)
      BY <1>13, <2>1, <2>4, <3>1, <3>7, <3>8 DEF Shape, Looking
    <3> QED BY <1>13, <2>2, <3>1, <3>9 DEF Guest, Track
  <2> QED BY <2>5, <2>6
<1> QED BY <1>7, <1>11, <1>14, GuestStep

-----------------------------------------------------------------------------
(* The offsets an instruction is read at are the ones of its bytes, from   *)
(* the n-th one on, in the page of w.                                      *)
Right(offsets, v, n, w) ==
    /\ offsets \in Seq(Nat)
    /\ \A k \in 1 .. Len(offsets), a \in Nat :
         a = v + n + k - 1 => a \div Entries = w \div Entries /\ offsets[k] = Offset(a)

LEMMA NextPage ==
    ASSUME NEW v \in Nat, Offset(v) \in {Entries - 1, Entries - 2}, NEW j \in {2, 3}
    PROVE  (v + j) \div Entries = (v \div Entries) + 1
<1>1. Entries \in Nat /\ Entries >= 3
  BY SpannedIs
<1>2. PICK k \in Nat : k = j
  OBVIOUS
<1>3. Offset(v) + k >= Entries /\ Offset(v) + k < Entries + Entries
  BY <1>1, <1>2
<1>4. (v + k) \div Entries = (v \div Entries) + 1
  BY <1>3, InNextPage
<1> QED BY <1>2, <1>4

LEMMA OnePageRight ==
    ASSUME NEW v \in Nat, PagesSpanned(v) = 1
    PROVE  Right(OpcodeOffsets(v, TRUE), v, 0, v)
<1>1. PICK o : o = Offset(v) /\ o \in Nat /\ o + 2 < Entries /\ Entries \in Nat
  BY SpannedIs, PageIs
<1>2. PICK f : f = OpcodeOffsets(v, TRUE)
  OBVIOUS
<1>3. f = <<o, o + 1, o + 2>>
  BY <1>1, <1>2 DEF OpcodeOffsets
<1>4. f \in Seq(Nat) /\ Len(f) = 3 /\ f[1] = o /\ f[2] = o + 1 /\ f[3] = o + 2
  BY <1>1, <1>3
<1>5. ASSUME NEW k \in 1 .. 3, NEW a \in Nat, a = v + 0 + k - 1
      PROVE  a \div Entries = v \div Entries /\ f[k] = Offset(a)
  <2>1. PICK j \in Nat : j = k - 1 /\ Offset(v) + j < Entries /\ j \in {0, 1, 2}
    BY <1>1
  <2>2. a = v + j
    BY <1>5, <2>1
  <2>3. Offset(v + j) = Offset(v) + j /\ (v + j) \div Entries = v \div Entries
    BY <2>1, InPage
  <2>4. f[k] = o + j
    BY <1>1, <1>4, <2>1
  <2>5. Offset(a) = o + j
    BY <1>1, <2>2, <2>3
  <2>6. a \div Entries = v \div Entries
    BY <2>2, <2>3
  <2> QED BY <2>4, <2>5, <2>6
<1>6. Right(f, v, 0, v)
  BY <1>4, <1>5 DEF Right
<1> QED BY <1>2, <1>6

LEMMA FirstPageRight ==
    ASSUME NEW v \in Nat, PagesSpanned(v) # 1
    PROVE  /\ Right(OpcodeOffsets(v, TRUE), v, 0, v)
           /\ Len(OpcodeOffsets(v, TRUE)) = FirstLength(v)
<1>1. PICK o : o = Offset(v) /\ o \in Nat /\ o \in {Entries - 1, Entries - 2} /\ Entries \in Nat
  BY SpannedIs, PageIs
<1>2. PICK f : f = OpcodeOffsets(v, TRUE)
  OBVIOUS
<1>3. f = IF o # Entries - 1 THEN <<o, o + 1>> ELSE <<o>>
  BY <1>1, <1>2 DEF OpcodeOffsets
<1>4. PICK n : n = FirstLength(v) /\ n \in {1, 2} /\ (n = 1 <=> o = Entries - 1)
  BY <1>1 DEF FirstLength
<1>5. f \in Seq(Nat) /\ Len(f) = n /\ f[1] = o /\ (n = 2 => f[2] = o + 1)
  <2>1. CASE n = 1
    BY <1>1, <1>3, <1>4, <2>1
  <2>2. CASE n = 2
    BY <1>1, <1>3, <1>4, <2>2
  <2> QED BY <1>4, <2>1, <2>2
<1>6. ASSUME NEW k \in 1 .. n, NEW a \in Nat, a = v + 0 + k - 1
      PROVE  a \div Entries = v \div Entries /\ f[k] = Offset(a)
  <2>1. PICK j \in Nat : j = k - 1 /\ Offset(v) + j < Entries /\ (j = 0 \/ (j = 1 /\ n = 2))
    BY <1>1, <1>4
  <2>2. a = v + j
    BY <1>4, <1>6, <2>1
  <2>3. Offset(v + j) = Offset(v) + j /\ (v + j) \div Entries = v \div Entries
    BY <2>1, InPage
  <2>4. f[k] = o + j
    BY <1>1, <1>4, <1>5, <2>1
  <2>5. Offset(a) = o + j
    BY <1>1, <2>2, <2>3
  <2>6. a \div Entries = v \div Entries
    BY <2>2, <2>3
  <2> QED BY <2>4, <2>5, <2>6
<1>7. Right(f, v, 0, v)
  BY <1>5, <1>6 DEF Right
<1> QED BY <1>2, <1>4, <1>5, <1>7

LEMMA SecondPageRight ==
    ASSUME NEW v \in Nat, PagesSpanned(v) # 1
    PROVE  Right(OpcodeOffsets(v, FALSE), v, FirstLength(v), v + INS)
<1>1. PICK o : o = Offset(v) /\ o \in Nat /\ o \in {Entries - 1, Entries - 2}
               /\ Entries \in Nat /\ Entries >= 3
  BY SpannedIs, PageIs
<1>2. PICK f : f = OpcodeOffsets(v, FALSE)
  OBVIOUS
<1>3. PICK b : b = Offset(v + 2) /\ b \in Nat
  BY PageIs
<1>4. PICK d : d = (v \div Entries) + 1
  OBVIOUS
<1>5. (v + 2) \div Entries = d /\ (v + 3) \div Entries = d
  BY <1>1, <1>4, NextPage
<1>6. (v + INS) \div Entries = d
  BY <1>5 DEF INS
<1>7. CASE o = Entries - 1
  <2>1. f = <<0>> \o <<b>>
    BY <1>1, <1>2, <1>3, <1>7 DEF OpcodeOffsets
  <2>2. f = <<0, b>>
    BY <1>3, <2>1, Joins
  <2>3. f \in Seq(Nat) /\ Len(f) = 2 /\ f[1] = 0 /\ f[2] = b
    BY <1>3, <2>2
  <2>4. FirstLength(v) = 1
    BY <1>1, <1>7 DEF FirstLength
  <2>5. Offset(v + 1) = 0 /\ (v + 1) \div Entries = d
    <3>1. PICK k \in Nat : k = 1
      OBVIOUS
    <3>2. Offset(v) + k >= Entries /\ Offset(v) + k < Entries + Entries /\ Offset(v) + k - Entries = 0
      BY <1>1, <1>7, <3>1
    <3>3. Offset(v + k) = Offset(v) + k - Entries /\ (v + k) \div Entries = (v \div Entries) + 1
      BY <3>2, InNextPage
    <3>4. Offset(v + k) = 0 /\ (v + k) \div Entries = d
      BY <1>4, <3>2, <3>3
    <3> QED BY <3>1, <3>4
  <2>6. ASSUME NEW k \in 1 .. 2, NEW a \in Nat, a = v + 1 + k - 1
        PROVE  a \div Entries = d /\ f[k] = Offset(a)
    <3>4. k = 1 \/ k = 2
      OBVIOUS
    <3>5. k = 1 => a = v + 1
      BY <2>6
    <3>6. k = 2 => a = v + 2
      BY <2>6
    <3>1. (k = 1 /\ a = v + 1) \/ (k = 2 /\ a = v + 2)
      BY <3>4, <3>5, <3>6
    <3>2. CASE k = 1 /\ a = v + 1
      BY <2>3, <2>5, <3>2
    <3>3. CASE k = 2 /\ a = v + 2
      BY <1>3, <1>5, <2>3, <3>3
    <3> QED BY <3>1, <3>2, <3>3
  <2>7. Right(f, v, 1, v + INS)
    BY <1>6, <2>3, <2>6 DEF Right
  <2> QED BY <1>2, <2>4, <2>7
<1>8. CASE o = Entries - 2
  <2>1. o # Entries - 1
    BY <1>1, <1>8
  <2>2. f = <<>> \o <<b>>
    BY <1>1, <1>2, <1>3, <2>1 DEF OpcodeOffsets
  <2>3. PICK t : t = <<b>>
    OBVIOUS
  <2>4. t \in Seq(Nat) /\ Len(t) = 1 /\ t[1] = b
    BY <1>3, <2>3
  <2>5. f = t
    BY <2>2, <2>3, <2>4, ConcatEmptySeq
  <2>6. FirstLength(v) = 2
    BY <1>1, <2>1 DEF FirstLength
  <2>7. ASSUME NEW k \in 1 .. 1, NEW a \in Nat, a = v + 2 + k - 1
        PROVE  a \div Entries = d /\ f[k] = Offset(a)
    <3>1. k = 1 /\ a = v + 2
      BY <2>7
    <3> QED BY <1>3, <1>5, <2>4, <2>5, <3>1
  <2>8. Right(f, v, 2, v + INS)
    BY <1>6, <2>4, <2>5, <2>7 DEF Right
  <2> QED BY <1>2, <2>6, <2>8
<1> QED BY <1>1, <1>7, <1>8

(* What VmReadGuestInstruction has after a page.                           *)
LEMMA OffsetsRight ==
    ASSUME NEW r, Shape(r), r.op = "instruction", r.pc = "copy", NEW n,
           n = IF r.out = <<>> THEN 0 ELSE FirstLength(r.va)
    PROVE  /\ Right(OpcodeOffsets(r.va, r.out = <<>>), r.va, n, Wanted(r))
           /\ Two(r) /\ r.out = <<>> => Len(OpcodeOffsets(r.va, r.out = <<>>)) = FirstLength(r.va)
           /\ n \in Nat /\ \E S : r.out \in Seq(S) /\ Len(r.out) = n
<1>1. PICK v : v = r.va /\ v \in Nat
  BY ShapeNat
<1>2. PICK f : f = OpcodeOffsets(r.va, r.out = <<>>)
  OBVIOUS
<1>3. CASE r.out = <<>>
  <2>1. n = 0 /\ Wanted(r) = v
    BY <1>1, <1>3 DEF Wanted
  <2>2. f = OpcodeOffsets(v, TRUE)
    BY <1>1, <1>2, <1>3 DEF OpcodeOffsets
  <2>3. Right(f, v, 0, v)
    BY <1>1, <2>2, OnePageRight, FirstPageRight
  <2>4. Two(r) => Len(f) = FirstLength(v)
    BY <1>1, <2>2, FirstPageRight DEF Two
  <2>5. r.out \in Seq({}) /\ Len(r.out) = 0
    BY <1>3, EmptySeq
  <2> QED BY <1>1, <1>2, <2>1, <2>3, <2>4, <2>5
<1>4. CASE r.out # <<>>
  <2>1. Two(r) /\ Begun(r)
    BY <1>4 DEF Shape
  <2>2. n = FirstLength(v) /\ Wanted(r) = v + INS
    BY <1>1, <1>4 DEF Wanted
  <2>3. f = OpcodeOffsets(v, FALSE)
    BY <1>1, <1>2, <1>4 DEF OpcodeOffsets
  <2>4. PagesSpanned(v) # 1
    BY <1>1, <2>1 DEF Two
  <2>5. Right(f, v, n, v + INS)
    BY <1>1, <2>2, <2>3, <2>4, SecondPageRight
  <2>6. PICK S : r.out \in Seq(S) /\ Len(r.out) = FirstLength(r.va) /\ FirstLength(r.va) \in {1, 2}
    BY <2>1, BegunIs
  <2>7. Len(r.out) = n /\ n \in Nat
    BY <1>1, <2>2, <2>6
  <2> QED BY <1>1, <1>2, <1>4, <2>2, <2>5, <2>6, <2>7
<1> QED BY <1>3, <1>4

(* The bytes read before, and the ones of this page.                       *)
Longer(r, q, n, offsets, page) ==
    /\ DOMAIN q.out = 1 .. n + Len(offsets)
    /\ q.out = [i \in 1 .. n + Len(offsets) |-> q.out[i]]
    /\ \A i \in 1 .. n : i \in DOMAIN r.out /\ q.out[i] = r.out[i]
    /\ \A i \in 1 .. Len(offsets) : q.out[n + i] = Byte(page, offsets[i])

LEMMA LongerIs ==
    ASSUME NEW r, NEW q, NEW n \in Nat, NEW offsets \in Seq(Nat), NEW page, NEW S,
           r.out \in Seq(S), Len(r.out) = n,
           q.out = r.out \o [i \in DOMAIN offsets |-> Byte(page, offsets[i])]
    PROVE  Longer(r, q, n, offsets, page)
<1>1. PICK f : f = [i \in DOMAIN offsets |-> Byte(page, offsets[i])]
  OBVIOUS
<1>2. PICK k \in Nat : k = Len(offsets) /\ DOMAIN offsets = 1 .. k
  OBVIOUS
<1>3. PICK T : T = S \cup {Byte(page, offsets[i]) : i \in 1 .. k}
  OBVIOUS
<1>4. f \in Seq(T) /\ Len(f) = k /\ \A i \in 1 .. k : f[i] = Byte(page, offsets[i])
  <2>1. f \in [1 .. k -> T]
    BY <1>1, <1>2, <1>3
  <2>2. \A i \in 1 .. k : f[i] = Byte(page, offsets[i])
    BY <1>1, <1>2
  <2>3. f \in Seq(T)
    BY <2>1
  <2>4. Len(f) = k
    BY <2>1
  <2> QED BY <2>2, <2>3, <2>4
<1>5. PICK o : o = r.out
  OBVIOUS
<1>6. o \in Seq(T) /\ Len(o) = n
  <2>1. o \in Seq(S)
    BY <1>5
  <2>2. o \in [1 .. n -> S]
    BY <1>5, <2>1
  <2>3. o \in [1 .. n -> T]
    BY <1>3, <2>2
  <2> QED BY <1>5, <2>3
<1>7. PICK p : p = q.out
  OBVIOUS
<1>8. /\ p \in Seq(T) /\ Len(p) = n + k
      /\ \A i \in 1 .. n + k : p[i] = IF i <= n THEN o[i] ELSE f[i - n]
  <2>1. p = o \o f
    BY <1>1, <1>5, <1>7
  <2>2. /\ o \o f \in Seq(T) /\ Len(o \o f) = Len(o) + Len(f)
        /\ \A i \in 1 .. Len(o) + Len(f) : (o \o f)[i] = IF i <= Len(o) THEN o[i] ELSE f[i - Len(o)]
    BY <1>4, <1>6, ConcatProperties
  <2> QED BY <1>4, <1>6, <2>1, <2>2
<1>9. DOMAIN p = 1 .. n + k /\ p = [i \in 1 .. n + k |-> p[i]]
  BY <1>8
<1>10. \A i \in 1 .. n : i \in DOMAIN o /\ p[i] = o[i]
  BY <1>2, <1>6, <1>8
<1>11. ASSUME NEW i \in 1 .. k PROVE p[n + i] = Byte(page, offsets[i])
  <2>1. PICK j : j = n + i
    OBVIOUS
  <2>2. j \in 1 .. n + k /\ ~(j <= n) /\ j - n = i
    BY <1>2, <2>1
  <2>3. p[j] = f[j - n]
    BY <1>8, <2>2
  <2>4. p[j] = f[i]
    BY <2>2, <2>3
  <2> QED BY <1>4, <2>1, <2>4
<1> QED BY <1>2, <1>5, <1>7, <1>9, <1>10, <1>11 DEF Longer

LEMMA LongerBytes ==
    ASSUME NEW m, NEW r, NEW q, Shape(r), q.va = r.va, q.cr3 = r.cr3, Bytes(m, r),
           NEW n \in Nat, NEW offsets, Right(offsets, r.va, n, Wanted(r)),
           Longer(r, q, n, offsets, Translate(m, r.cr3, Wanted(r)))
    PROVE  Bytes(m, q)
<1>1. PICK v : v = r.va /\ v \in Nat
  BY ShapeNat
<1>2. PICK w : w = Wanted(r) /\ w \in Reads
  BY WantedReads
<1>3. PICK k \in Nat : k = Len(offsets)
  BY DEF Right
<1>4. DOMAIN q.out = 1 .. n + k
  BY <1>3 DEF Longer
<1> SUFFICES ASSUME NEW i \in 1 .. n + k PROVE ByteOk(m, q, i)
  BY <1>4 DEF Bytes
<1>5. CASE i \in 1 .. n
  <2>1. i \in DOMAIN r.out /\ q.out[i] = r.out[i]
    BY <1>5 DEF Longer
  <2>2. ByteOk(m, r, i)
    BY <2>1 DEF Bytes
  <2> QED BY <2>1, <2>2 DEF ByteOk
<1>6. CASE i \notin 1 .. n
  <2>1. PICK j : j = i - n /\ j \in 1 .. k /\ i = n + j
    BY <1>6
  <2>2. PICK a : a = v + i - 1 /\ a \in Nat /\ a = v + n + j - 1
    BY <1>1, <2>1
  <2>3. a \div Entries = w \div Entries /\ offsets[j] = Offset(a)
    BY <1>1, <1>2, <1>3, <2>1, <2>2 DEF Right
  <2>4. q.out[i] = Byte(Translate(m, r.cr3, w), offsets[j])
    BY <1>2, <1>3, <2>1 DEF Longer
  <2>5. q.va + i - 1 = a
    BY <1>1, <2>2
  <2>6. (q.va + i - 1) \div Entries = w \div Entries
    BY <2>3, <2>5
  <2>7. q.out[i] = Byte(Translate(m, q.cr3, w), Offset(q.va + i - 1))
    BY <2>3, <2>4, <2>5
  <2>8. i \in Nat \ {0}
    OBVIOUS
  <2> QED BY <1>2, <2>6, <2>7, <2>8 DEF ByteOk
<1> QED BY <1>5, <1>6

(* What TdCopySiblingMemory has of a sibling on one page.                  *)
LEMMA SiblingIs ==
    ASSUME NEW c, NEW r, Len(r.held) = 1, NEW i \in DOMAIN SiblingCode(c, r),
           NEW v \in Nat, NEW e \in Nat, v = r.va, e = r.end
    PROVE  /\ i \in 1 .. e - v
           /\ SiblingCode(c, r)[i] = Byte(View(c, r.held[1]), Offset(v) + i - 1)
<1>1. PICK d : d = e - v /\ d \in Int
  OBVIOUS
<1>2. PICK p : p = View(c, r.held[1])
  OBVIOUS
<1>3. PICK f : f = SiblingCode(c, r)
  OBVIOUS
<1>4. f = [j \in 1 .. d |-> IF j <= d THEN Byte(p, Offset(v) + j - 1) ELSE <<>>]
  BY <1>1, <1>2, <1>3 DEF SiblingCode
<1>5. DOMAIN f = 1 .. d
  BY <1>4
<1>6. i \in 1 .. d /\ i <= d
  BY <1>1, <1>3, <1>5
<1>7. f[i] = Byte(p, Offset(v) + i - 1)
  BY <1>4, <1>6
<1> QED BY <1>1, <1>2, <1>3, <1>6, <1>7

LEMMA SiblingBytes ==
    ASSUME NEW m, NEW c, NEW r, NEW q, Shape(r), r.op = "sibling", Simple(r), Len(r.held) = 1,
           q.va = r.va, q.cr3 = r.cr3, q.out = SiblingCode(c, r),
           View(c, r.held[1]) = Translate(m, r.cr3, Wanted(r))
    PROVE  Bytes(m, q)
<1>1. PICK v : v = r.va /\ v \in Nat
  BY ShapeNat
<1>2. PICK e : e = r.end /\ e \in Nat
  BY DEF Shape
<1>3. PICK w : w = Wanted(r) /\ w \in Reads /\ w = PageOf(v)
  BY <1>1, WantedReads DEF Wanted
<1>4. PageOf(v) = PageOf(e)
  BY <1>1, <1>2 DEF Simple
<1> SUFFICES ASSUME NEW i \in DOMAIN SiblingCode(c, r) PROVE ByteOk(m, q, i)
  BY DEF Bytes
<1>5. i \in 1 .. e - v /\ SiblingCode(c, r)[i] = Byte(View(c, r.held[1]), Offset(v) + i - 1)
  BY <1>1, <1>2, SiblingIs
<1>6. PICK a : a = Offset(v) /\ a \in Nat /\ a < Entries /\ w + a = v /\ w \in Nat /\ Entries \in Nat
  BY <1>1, <1>3, PageIs, TableAssumption
<1>7. PICK b : b = Offset(e) /\ b \in Nat /\ b < Entries /\ w + b = e
  BY <1>2, <1>3, <1>4, PageIs
<1>8. PICK j : j = i - 1 /\ j \in Nat /\ i \in Nat \ {0} /\ a + j < Entries
  BY <1>1, <1>2, <1>5, <1>6, <1>7
<1>9. Offset(v) + j < Entries
  BY <1>6, <1>8
<1>10. Offset(v + j) = Offset(v) + j /\ (v + j) \div Entries = v \div Entries
  BY <1>1, <1>8, <1>9, InPage
<1>11. PICK k : k = v + j /\ k = q.va + i - 1
  BY <1>1, <1>8
<1>12. Offset(k) = Offset(v) + i - 1
  <2>1. Offset(k) = a + j
    BY <1>6, <1>10, <1>11
  <2>2. a + j = a + i - 1
    BY <1>6, <1>8
  <2> QED BY <1>6, <2>1, <2>2
<1>13. k \div Entries = w \div Entries
  <2>1. w \div Entries = v \div Entries
    BY <1>1, <1>3, PageIs
  <2> QED BY <1>10, <1>11, <2>1
<1>14. q.out[i] = Byte(Translate(m, q.cr3, w), Offset(k))
  BY <1>3, <1>5, <1>12
<1> QED BY <1>3, <1>8, <1>11, <1>13, <1>14 DEF ByteOk

LEMMA CopyGuest == \A c \in Cpus : Inv /\ GuestInv /\ Copy(c) => GuestInv'
<1> SUFFICES ASSUME NEW c \in Cpus, Inv, GuestInv, Copy(c) PROVE GuestInv'
  OBVIOUS
<1>1. PICK r : r = x[c]
  OBVIOUS
<1>2. PICK offsets : offsets = OpcodeOffsets(r.va, r.out = <<>>)
  OBVIOUS
<1>3. PICK page : page = View(c, r.held[1])
  OBVIOUS
<1>4. PICK out : out = IF r.op = "sibling" THEN SiblingCode(c, r)
                       ELSE r.out \o [i \in DOMAIN offsets |-> Byte(page, offsets[i])]
  OBVIOUS
<1>5. PICK q : q = [r EXCEPT !.pc = "unmap", !.out = out]
  OBVIOUS
<1>6. x' = [x EXCEPT ![c] = q]
  BY <1>1, <1>2, <1>3, <1>4, <1>5 DEF Copy, Goto
<1>7. /\ phase = "on" /\ r.pc = "copy" /\ UNCHANGED mem
      /\ tlb' = Loaded(c, {x[c].held[i] : i \in DOMAIN x[c].held})
  BY <1>1 DEF Copy, InRoot
<1>8. ExitOk(c, r) /\ IsExit(r) /\ Guest(mem, r)
  BY <1>1, ExitIs DEF GuestInv
<1>9. Built(mem) /\ TlbOk(tlb, mem)
  BY DEF Inv, Types, GuestInv
<1>10. TlbOk(tlb', mem')
  BY <1>7, <1>9, LoadedOk
<1>11. /\ q.pc = "unmap" /\ q.op = r.op /\ q.cr3 = r.cr3 /\ q.va = r.va /\ q.end = r.end
       /\ q.todo = r.todo /\ q.held = r.held /\ q.out = out /\ q.moved = r.moved
  BY <1>5, <1>8 DEF IsExit
<1>12. Guest(mem, q)
  <2> SUFFICES ASSUME Simple(r) PROVE Guest(mem, q)
    BY <1>11 DEF Guest, Simple
  <2>1. Shape(r) /\ (~r.moved => Track(mem, r))
    BY <1>7, <1>8 DEF Guest
  <2>2. Len(r.held) = 1 /\ r.todo = Rest(r) /\ (r.out = <<>> \/ (Two(r) /\ Begun(r)))
    BY <1>7, <2>1 DEF Shape
  <2>3. page = Pte(mem, Head(r.held))
    <3>1. r.held[1] = Head(r.held)
      OBVIOUS
    <3>2. r.held # <<>>
      BY <1>7, <1>8 DEF ExitOk
    <3>3. Head(r.held) \in Own(c)
      BY <1>8, <3>2, HeldShape DEF ExitOk
    <3> QED BY <1>3, <1>9, <3>1, <3>3, ViewIs
  <2>4. ~r.moved => page = Translate(mem, r.cr3, Wanted(r)) /\ Bytes(mem, r)
    BY <1>7, <2>1, <2>3 DEF Track
  <2>5. CASE r.op = "sibling"
    <3>1. Rest(r) = <<>>
      BY <2>5 DEF Rest, Two
    <3>2. Shape(q)
      BY <1>11, <2>1, <2>2, <2>5, <3>1 DEF Shape, Looking
    <3>3. q.out = SiblingCode(c, r)
      BY <1>4, <1>11, <2>5
    <3>4. ~r.moved => Bytes(mem, q)
      BY <1>3, <1>11, <2>1, <2>2, <2>4, <2>5, <3>3, SiblingBytes
    <3> QED BY <1>11, <3>2, <3>4 DEF Guest, Track
  <2>6. CASE r.op # "sibling"
    <3>1. r.op = "instruction"
      BY <2>1, <2>6 DEF Shape
    <3>2. PICK n : n = IF r.out = <<>> THEN 0 ELSE FirstLength(r.va)
      OBVIOUS
    <3>3. /\ Right(offsets, r.va, n, Wanted(r))
          /\ Two(r) /\ r.out = <<>> => Len(offsets) = FirstLength(r.va)
          /\ n \in Nat /\ \E S : r.out \in Seq(S) /\ Len(r.out) = n
      BY <1>2, <1>7, <2>1, <3>1, <3>2, OffsetsRight
    <3>4. PICK S : r.out \in Seq(S) /\ Len(r.out) = n
      BY <3>3
    <3>5. q.out = r.out \o [i \in DOMAIN offsets |-> Byte(page, offsets[i])]
      BY <1>4, <1>11, <2>6
    <3>6. offsets \in Seq(Nat)
      BY <3>3 DEF Right
    <3>7. Longer(r, q, n, offsets, page)
      BY <3>3, <3>4, <3>5, <3>6, LongerIs
    <3>8. ~r.moved => Bytes(mem, q)
      BY <1>11, <2>1, <2>4, <3>3, <3>7, LongerBytes
    <3>9. Two(r) /\ r.out = <<>> => Two(q) /\ Begun(q)
      <4> SUFFICES ASSUME Two(r), r.out = <<>> PROVE Two(q) /\ Begun(q)
        OBVIOUS
      <4>1. PICK k : k = FirstLength(r.va) /\ k \in Nat
        BY DEF FirstLength
      <4>2. n = 0 /\ Len(offsets) = k
        BY <3>2, <3>3, <4>1
      <4>3. n + Len(offsets) = k
        BY <4>1, <4>2
      <4>4. q.out = [i \in 1 .. n + Len(offsets) |-> q.out[i]]
        BY <3>7 DEF Longer
      <4>5. q.out = [i \in 1 .. k |-> q.out[i]]
        BY <4>3, <4>4
      <4> QED BY <1>11, <4>1, <4>5 DEF Two, Begun
    <3>10. Shape(q)
      <4>1. CASE Two(r) /\ r.out = <<>>
        <5>1. r.todo = <<r.va + INS>>
          BY <2>2, <4>1 DEF Rest
        <5> QED BY <1>11, <2>1, <2>2, <3>9, <4>1, <5>1 DEF Shape, Looking
      <4>2. CASE ~(Two(r) /\ r.out = <<>>)
        <5>1. r.todo = <<>>
          BY <2>2, <4>2 DEF Rest
        <5> QED BY <1>11, <2>1, <2>2, <5>1 DEF Shape, Looking
      <4> QED BY <4>1, <4>2
    <3> QED BY <1>11, <3>8, <3>10 DEF Guest, Track
  <2> QED BY <2>5, <2>6
<1>13. Guest(mem', q)
  BY <1>7, <1>12
<1> QED BY <1>6, <1>7, <1>9, <1>10, <1>13, GuestStep, SlottedSame

-----------------------------------------------------------------------------
LEMMA NextGuest == Inv /\ GuestInv /\ Inv' /\ [Next]_vars => GuestInv'
<1> SUFFICES ASSUME Inv, GuestInv, Inv', [Next]_vars PROVE GuestInv'
  OBVIOUS
<1>1. CASE MmuInitialize
  BY <1>1, GuestStays DEF MmuInitialize
<1>2. CASE Map
  BY <1>2, MapGuest
<1>3. CASE NoMap
  BY <1>3, GuestStays DEF NoMap
<1>4. CASE NoLock
  BY <1>4, GuestStays DEF NoLock
<1>5. CASE MmuFinalize
  BY <1>5, FinalizeGuest
<1>6. CASE Unload
  BY <1>6, GuestStays DEF Unload
<1>7. CASE Remap
  BY <1>7, RemapGuest
<1>8. CASE \E c \in Cpus : Step(c)
  <2>1. PICK c \in Cpus : Step(c)
    BY <1>8
  <2> QED BY <2>1, ReadGuest, CopySiblingGuest, PhysicalGuest, WalkMapGuest, WalkReadGuest,
             MapPageGuest, NullArrayGuest, CopyGuest, UnmapGuest, ResumeGuest DEF Step
<1>9. CASE UNCHANGED vars
  BY <1>9, GuestStays DEF vars
<1> QED BY <1>1, <1>2, <1>3, <1>4, <1>5, <1>6, <1>7, <1>8, <1>9 DEF Next

LEMMA GuestReads == Inv /\ GuestInv => ReadsTheGuest
<1> SUFFICES ASSUME Inv, GuestInv, NEW c \in Cpus, x[c].pc = "done", ~x[c].moved,
                    x[c].op = "instruction" \/ PageOf(x[c].va) = PageOf(x[c].end),
                    NEW i \in DOMAIN x[c].out
             PROVE  x[c].out[i] = GuestByte(x[c].cr3, x[c].va + i - 1)
  BY DEF ReadsTheGuest
<1>1. PICK r : r = x[c]
  OBVIOUS
<1>2. Guest(mem, r) /\ Simple(r) /\ r.pc # "idle" /\ ~r.moved
  BY <1>1 DEF GuestInv, Simple
<1>3. Shape(r) /\ ByteOk(mem, r, i)
  BY <1>1, <1>2 DEF Guest, Track, Bytes
<1>4. PICK v : v = r.va /\ v \in Nat
  BY <1>3, ShapeNat
<1>5. PICK a : a = v + i - 1 /\ a \in Nat
  BY <1>3, <1>4 DEF ByteOk
<1>6. PICK w \in Reads :
        /\ a \div Entries = w \div Entries
        /\ r.out[i] = Byte(Translate(mem, r.cr3, w), Offset(a))
  BY <1>3, <1>4, <1>5 DEF ByteOk
<1>7. Translate(mem, r.cr3, a) = Translate(mem, r.cr3, w)
  BY <1>5, <1>6, ReadsAreNat, SamePage
<1>8. r.out[i] = GuestByte(r.cr3, a)
  BY <1>6, <1>7 DEF GuestByte
<1> QED BY <1>1, <1>4, <1>5, <1>8

(* VmReadGuestInstruction (exits.c:190-265) and, for a sibling on one      *)
(* page, TdCopySiblingMemory (tsc.c:523-590): whatever was mapped in the   *)
(* slot before, the bytes an exit ends with are the ones the guest has at  *)
(* that address, unless the guest has changed its tables meanwhile.        *)
THEOREM BytesAreTheGuests == Spec => []ReadsTheGuest
<1>1. Init => Inv /\ GuestInv
  BY InitInv, InitGuest
<1>2. Inv /\ GuestInv /\ [Next]_vars => (Inv /\ GuestInv)'
  BY NextInv, NextGuest
<1>3. Inv /\ GuestInv => ReadsTheGuest
  BY GuestReads
<1> QED BY <1>1, <1>2, <1>3, PTL DEF Spec
=============================================================================
