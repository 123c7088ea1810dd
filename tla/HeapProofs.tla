----------------------------- MODULE HeapProofs -----------------------------
(***************************************************************************)
(* What holds of malloc, free and ksbrk for every size of the heap, every  *)
(* set of requests and every number of blocks, as long as no request meets *)
(* a free block that is too small for it.                                  *)
(***************************************************************************)
EXTENDS Heap, SequenceTheorems, FiniteSetTheorems, NaturalsInduction,
        WellFoundedInduction, TLAPS

Blocks == 1 .. Len(live)

(* Two blocks, of s units from a on and of t from b on, do not meet.       *)
Apart(a, s, b, t) == a + s < b \/ b + t < a

(* L holds the blocks of the list: each has its header, and the next one   *)
(* begins after its end.                                                   *)
Chain(L) ==
  /\ Heap \in L
  /\ \A a \in L :
       /\ header[a].magic
       /\ a + header[a].size < g_kbrk
       /\ header[a].next # NULL =>
            header[a].next \in L /\ a + header[a].size < header[a].next
  /\ \A a, b \in L : a < b => header[a].next # NULL /\ header[a].next <= b

(* The blocks clients hold have headers that say so, and are apart.        *)
Held ==
  /\ \A i \in Blocks :
       /\ header[live[i].at].used /\ header[live[i].at].magic
       /\ header[live[i].at].size = live[i].size
       /\ live[i].at + live[i].size < g_kbrk
  /\ \A i, j \in Blocks :
       i # j => Apart(live[i].at, live[i].size, live[j].at, live[j].size)

(* No block that is held reaches into a free one, or begins between one on *)
(* the list and the next.                                                  *)
Clear(L) ==
  \A a \in L, i \in Blocks :
    /\ ~header[a].used => Apart(a, header[a].size, live[i].at, live[i].size)
    /\ header[a].next # NULL => ~(a < live[i].at /\ live[i].at < header[a].next)

Shape(L) ==
  /\ heap_bottom = Heap /\ Heap < g_kbrk /\ g_kbrk < HeapTop
  /\ Chain(L) /\ Held /\ Clear(L)

(* malloc has found that every free block is large enough.                 *)
InMalloc(L) ==
  pc \in {"magic", "walk"} =>
    /\ size \in Sizes
    /\ m \in L \cup {NULL}
    /\ \A a \in L : ~header[a].used => header[a].size >= TotalSize(size)

(* The block that free was given is still in use and apart from all that   *)
(* are held.                                                               *)
Returned ==
  /\ m # NULL
  /\ header[m].used /\ header[m].magic
  /\ m + header[m].size < g_kbrk
  /\ \A i \in Blocks : Apart(m, header[m].size, live[i].at, live[i].size)
InFree(L) ==
  /\ pc = "find" => n \in L \cup {NULL} /\ Returned
  /\ pc = "coalesce" => m \in L \cup {NULL}

(* Not two neighbours are free, as far as free has come.                   *)
Parted(a) == header[a].next # NULL => header[a].used \/ header[header[a].next].used
Tidy(L) == \A a \in L : (pc = "coalesce" /\ m # NULL => a < m) => Parted(a)

Working(L) == Shape(L) /\ InMalloc(L) /\ InFree(L) /\ Tidy(L)

(* Before the first block, and after a first request that was refused.     *)
Blank ==
  /\ live = <<>>
  /\ ~header[Heap].magic /\ header[Heap].next = NULL
  /\ pc \in {"idle", "magic", "walk"}
  /\ pc # "idle" => m = heap_bottom /\ size \in Sizes
Unused == Blank /\ heap_bottom = NULL /\ g_kbrk = NULL
Refused == Blank /\ heap_bottom = Heap /\ g_kbrk = Heap /\ pc # "walk"

(* The inductive invariant.                                                *)
IInv == TypeOK /\ (Unused \/ Refused \/ \E L \in SUBSET Addr : Working(L))

-----------------------------------------------------------------------------
(* Numbers.                                                                *)

LEMMA Least ==
  ASSUME NEW T \in SUBSET Nat, T # {}
  PROVE  \E x \in T : \A y \in T : x <= y
  <1> DEFINE R == OpToRel(<, Nat)
  <1>1. IsWellFoundedOn(R, Nat)
    BY NatLessThanWellFounded
  <1>2. \A y, x \in Nat : y < x => <<y, x>> \in R
    BY DEF OpToRel
  <1> HIDE DEF R
  <1>3. PICK x \in T : \A y \in T : ~ (<<y, x>> \in R)
    BY <1>1, WFMin
  <1>4. \A y \in T : ~(y < x)
    BY <1>2, <1>3
  <1> QED
    BY <1>4

LEMMA Greatest ==
  ASSUME NEW T \in SUBSET Nat, T # {}, NEW b \in Nat, \A x \in T : x <= b
  PROVE  \E x \in T : \A y \in T : x >= y
  <1> DEFINE U == {b - x : x \in T}
  <1>1. U \in SUBSET Nat /\ U # {}
    <2>1. \A x \in T : b - x \in Nat
      OBVIOUS
    <2>2. \E x \in T : b - x \in U
      OBVIOUS
    <2> QED
      BY <2>1, <2>2
  <1>2. PICK u \in U : \A v \in U : u <= v
    BY <1>1, Least
  <1>3. PICK x \in T : u = b - x
    OBVIOUS
  <1>4. \A y \in T : b - y \in U
    OBVIOUS
  <1>5. \A y \in T : b - x <= b - y
    BY <1>2, <1>3, <1>4
  <1> HIDE DEF U
  <1>6. \A y \in T : x >= y
    BY <1>5
  <1> QED
    BY <1>6

LEMMA SmallRemainder ==
  ASSUME NEW x \in Nat, NEW k \in Nat, x < k PROVE x % k = x
  OBVIOUS

LEMMA Constants ==
  /\ MaxHeap \in Nat \ {0} /\ SizeBits \in Nat \ {0}
  /\ SizeMod \in Nat /\ 2^(SizeBits - 1) \in Nat
  /\ SizeMod = 2 * 2^(SizeBits - 1) /\ MaxHeap < 2^(SizeBits - 1)
  /\ SizeMod \div 2 = 2^(SizeBits - 1)
  /\ 1 < 2^(SizeBits - 1)
  <1>1. MaxHeap \in Nat \ {0} /\ SizeBits \in Nat /\ 2 * MaxHeap < 2^SizeBits
    BY HeapAssumption
  <1>2. SizeBits # 0
    <2>1. SUFFICES ASSUME SizeBits = 0 PROVE FALSE
      OBVIOUS
    <2>2. 2^SizeBits = 1
      BY <2>1, PowersAssumption
    <2> QED
      BY <1>1, <2>2
  <1> DEFINE half == 2^(SizeBits - 1)
             all  == 2^SizeBits
  <1>3. half \in Nat /\ all \in Nat /\ all = 2 * half
    <2>1. SizeBits \in 1 .. SizeBits /\ SizeBits \in 0 .. SizeBits
          /\ SizeBits - 1 \in 0 .. SizeBits
      BY <1>1, <1>2
    <2> QED
      BY <2>1, PowersAssumption
  <1>4. 2 * MaxHeap < all
    BY <1>1
  <1> HIDE DEF half, all
  <1>5. all \div 2 = half /\ MaxHeap < half /\ 1 < half
    BY <1>1, <1>3, <1>4
  <1> QED
    BY <1>1, <1>2, <1>3, <1>5 DEF half, all, SizeMod

(* Powers of two grow.                                                     *)
LEMMA PowersBelow ==
  ASSUME NEW k \in 0 .. SizeBits - 1
  PROVE  2^k \in Nat /\ 2^k <= 2^(SizeBits - 1)
  <1> DEFINE top == SizeBits - 1
             T == {d \in 0 .. top : ~(2^(top - d) <= 2^top)}
  <1>1. top \in Nat /\ k \in 0 .. top
    BY Constants
  <1>2. \A j \in 0 .. top : 2^j \in Nat
    BY Constants, PowersAssumption
  <1>3. T = {}
    <2> SUFFICES ASSUME T # {} PROVE FALSE
      OBVIOUS
    <2>1. PICK d \in T : \A e \in T : d <= e
      <3>1. T \in SUBSET Nat
        BY <1>1
      <3> HIDE DEF T
      <3> QED
        BY <3>1, Least
    <2> HIDE DEF T
    <2>2. d \in 0 .. top /\ ~(2^(top - d) <= 2^top)
      BY DEF T
    <2>3. d # 0
      <3>1. top - 0 = top /\ top \in 0 .. top
        BY <1>1
      <3> QED
        BY <2>2, <3>1, <1>2
    <2>4. d - 1 \in 0 .. top /\ d - 1 < d
      BY <1>1, <2>2, <2>3
    <2>5. d - 1 \notin T
      BY <1>1, <2>1, <2>2, <2>4
    <2>6. 2^(top - (d - 1)) <= 2^top
      BY <2>4, <2>5 DEF T
    <2> DEFINE j == top - (d - 1)
    <2>7. j \in 1 .. SizeBits /\ j - 1 = top - d /\ j \in 0 .. top /\ top - d \in 0 .. top
      BY <1>1, <2>2, <2>3, Constants
    <2>8. 2^j = 2 * 2^(j - 1) /\ 2^j <= 2^top
      BY <2>6, <2>7, PowersAssumption
    <2>9. 2^j = 2 * 2^(top - d) /\ 2^(top - d) \in Nat /\ 2^top \in Nat
      BY <2>7, <2>8, <1>1, <1>2
    <2> HIDE DEF j
    <2>10. 2^(top - d) <= 2^top
      BY <2>8, <2>9
    <2> QED
      BY <2>2, <2>10
  <1>4. top - k \in 0 .. top /\ top - (top - k) = k
    BY <1>1
  <1>5. top - k \notin T
    BY <1>3
  <1>6. 2^k <= 2^top
    BY <1>4, <1>5
  <1> QED
    BY <1>1, <1>2, <1>6

(* The power of two a request is rounded up to is not below it, and a      *)
(* header more does not wrap.                                              *)
LEMMA RoundedUp ==
  ASSUME NEW s \in Sizes
  PROVE  /\ s \in Nat \ {0}
         /\ next_power_of_two(s) \in Nat /\ s <= next_power_of_two(s)
         /\ next_power_of_two(s) <= 2^(SizeBits - 1)
  <1> DEFINE top == SizeBits - 1
             S == {p \in {2^k : k \in 0 .. top} : p >= s}
  <1>1. s \in 1 .. 2^top
    BY HeapAssumption
  <1>2. top \in 0 .. top /\ 2^top \in Nat
    BY Constants
  <1>3. \A p \in S : p \in Nat /\ p <= 2^top /\ s <= p
    BY PowersBelow
  <1>4. 2^top \in S
    BY <1>1, <1>2
  <1>5. next_power_of_two(s) = CHOOSE p \in S : \A q \in S : p <= q
    BY DEF next_power_of_two, Min
  <1> HIDE DEF S
  <1>6. \E p \in S : \A q \in S : p <= q
    <2>1. S \in SUBSET Nat /\ S # {}
      BY <1>3, <1>4
    <2> QED
      BY <2>1, Least
  <1>7. next_power_of_two(s) \in S
    BY <1>5, <1>6
  <1> QED
    BY <1>1, <1>3, <1>7

LEMMA TotalFacts ==
  ASSUME NEW s \in Sizes
  PROVE  /\ s \in Nat \ {0} /\ s < SizeMod
         /\ TotalSize(s) \in Nat /\ s < TotalSize(s)
         /\ TotalSize(s) = next_power_of_two(s) + 1
         /\ TotalSize(s) <= 2^(SizeBits - 1) + 1
  <1> DEFINE p == next_power_of_two(s)
             half == 2^(SizeBits - 1)
  <1>1. s \in Nat \ {0} /\ p \in Nat /\ s <= p /\ p <= half
    BY RoundedUp
  <1>2. half \in Nat /\ SizeMod \in Nat /\ SizeMod = 2 * half /\ 1 < half
    BY Constants
  <1> HIDE DEF p, half
  <1>3. p + 1 \in Nat /\ p + 1 < SizeMod /\ s < SizeMod
    BY <1>1, <1>2
  <1>4. (p + 1) % SizeMod = p + 1
    BY <1>2, <1>3, SmallRemainder
  <1>5. TotalSize(s) = p + 1
    BY <1>4 DEF TotalSize, p
  <1> QED
    BY <1>1, <1>2, <1>3, <1>5 DEF p, half

LEMMA NegativeBreak ==
  ASSUME NEW p \in Nat, NEW t \in Nat, NEW h \in Nat, p < h, t <= h + 1
  PROVE  p + (t - 2 * h) \in Int /\ p + (t - 2 * h) <= 1
  OBVIOUS

(* ksbrk grants only what the array has left, for a request that is no     *)
(* negative int.                                                           *)
LEMMA GrantedFacts ==
  ASSUME NEW s \in Sizes, NEW p, p = IF heap_bottom = NULL THEN Heap ELSE g_kbrk,
         p \in Heap .. HeapTop - 1, Granted(s)
  PROVE  /\ NewBrk(s) = p + TotalSize(s)
         /\ p < NewBrk(s) /\ NewBrk(s) < HeapTop
  <1> DEFINE half == 2^(SizeBits - 1)
             t == TotalSize(s)
  <1>1. t \in Nat /\ t <= half + 1 /\ 0 < t
    BY TotalFacts
  <1>2. /\ half \in Nat /\ SizeMod \in Nat /\ SizeMod = 2 * half
        /\ MaxHeap \in Nat /\ MaxHeap < half /\ SizeMod \div 2 = half
    BY Constants
  <1>3. NewBrk(s) = p + Signed(t)
    BY DEF NewBrk
  <1>4. Signed(t) = IF t >= half THEN t - SizeMod ELSE t
    BY <1>2 DEF Signed
  <1> HIDE DEF half, t
  <1>5. Heap < NewBrk(s) /\ NewBrk(s) < HeapTop
    BY DEF Granted
  <1>6. p \in Nat /\ p <= MaxHeap
    BY <1>2 DEF Heap, HeapTop
  <1>7. ~(t >= half)
    <2> SUFFICES ASSUME t >= half PROVE FALSE
      OBVIOUS
    <2>1. NewBrk(s) = p + (t - SizeMod)
      BY <1>3, <1>4
    <2>2. 1 < NewBrk(s)
      BY <1>5 DEF Heap
    <2>3. p \in Nat /\ t \in Nat /\ half \in Nat /\ p < half /\ t <= half + 1
      BY <1>1, <1>2, <1>6
    <2>4. p + (t - 2 * half) \in Int /\ p + (t - 2 * half) <= 1
      BY <2>3, NegativeBreak
    <2>5. SizeMod = 2 * half
      BY <1>2
    <2> QED
      BY <2>1, <2>2, <2>4, <2>5
  <1>8. NewBrk(s) = p + t
    BY <1>3, <1>4, <1>7
  <1> QED
    BY <1>1, <1>5, <1>6, <1>8 DEF t

(* There is a place for a header wherever there is heap.                   *)
LEMMA AddrFacts ==
  /\ Heap \in Nat /\ HeapTop \in Nat /\ Heap < HeapTop
  /\ Heap .. HeapTop \subseteq Addr
  /\ Addr \subseteq Nat /\ NULL \notin Addr
  /\ \A a \in Addr : Heap <= a
  <1> DEFINE T == {0} \cup {TotalSize(s) : s \in Sizes}
             b == 2^(SizeBits - 1) + 1
  <1>1. Heap \in Nat /\ HeapTop \in Nat /\ Heap < HeapTop
    BY Constants DEF Heap, HeapTop
  <1>2. b \in Nat
    BY Constants
  <1>3. T \in SUBSET Nat /\ T # {} /\ 0 \in T
    BY TotalFacts
  <1>4. \A t \in T : t <= b
    BY <1>2, TotalFacts
  <1>5. Max(T) = CHOOSE x \in T : \A y \in T : x >= y
    BY DEF Max
  <1> HIDE DEF T, b
  <1>6. Max(T) \in T
    BY <1>2, <1>3, <1>4, <1>5, Greatest
  <1>7. Max(T) \in Nat
    BY <1>3, <1>6
  <1>8. Addr = Heap .. HeapTop + Max(T)
    BY DEF Addr, T
  <1> QED
    BY <1>1, <1>7, <1>8 DEF NULL, Heap

-----------------------------------------------------------------------------
(* The list: Nth is defined by its recursion, Listed is contained in every *)
(* set that is closed under next, and a sound list is in it as a whole.    *)

LEMMA Typed ==
  ASSUME TypeOK, NEW a \in Addr
  PROVE  /\ header[a].size \in Nat /\ header[a].size < SizeMod
         /\ header[a].next \in Addr \cup {NULL}
         /\ header[a].magic \in BOOLEAN /\ header[a].used \in BOOLEAN
  BY Constants DEF TypeOK, Header

LEMMA NthExists ==
  ASSUME TypeOK
  PROVE  /\ Nth[0] = heap_bottom
         /\ \A k \in 1 .. Longest :
              Nth[k] = IF Nth[k - 1] = NULL THEN NULL ELSE header[Nth[k - 1]].next
  <1> DEFINE After(v) == IF v = NULL THEN NULL ELSE header[v].next
             Upto(f, k) == /\ f \in [0 .. k -> Addr \cup {NULL}]
                           /\ f[0] = heap_bottom
                           /\ \A j \in 1 .. k : f[j] = After(f[j - 1])
             T == {k \in 0 .. Longest : ~ \E f : Upto(f, k)}
  <1>1. Longest \in Nat
    BY Constants DEF Longest
  <1>2. \A v \in Addr \cup {NULL} : After(v) \in Addr \cup {NULL}
    BY Typed
  <1>3. heap_bottom \in Addr \cup {NULL}
    BY AddrFacts DEF TypeOK
  <1>4. Upto([j \in 0 .. 0 |-> heap_bottom], 0)
    BY <1>3
  <1>5. ASSUME NEW k \in Nat, NEW f, Upto(f, k) PROVE \E g : Upto(g, k + 1)
    <2> DEFINE g == [j \in 0 .. k + 1 |-> IF j <= k THEN f[j] ELSE After(f[k])]
    <2>1. f \in [0 .. k -> Addr \cup {NULL}] /\ f[0] = heap_bottom
          /\ \A j \in 1 .. k : f[j] = After(f[j - 1])
      BY <1>5
    <2>2. f[k] \in Addr \cup {NULL}
      BY <2>1
    <2>3. After(f[k]) \in Addr \cup {NULL}
      BY <1>2, <2>2
    <2> HIDE DEF After
    <2>4. g \in [0 .. k + 1 -> Addr \cup {NULL}] /\ g[0] = heap_bottom
      BY <2>1, <2>3
    <2>5. \A j \in 1 .. k + 1 : g[j] = After(g[j - 1])
      <3> SUFFICES ASSUME NEW j \in 1 .. k + 1 PROVE g[j] = After(g[j - 1])
        OBVIOUS
      <3>1. CASE j = k + 1
        <4>1. g[j] = After(f[k]) /\ j - 1 = k /\ g[k] = f[k]
          BY <3>1
        <4> QED
          BY <4>1
      <3>2. CASE j # k + 1
        <4>1. j \in 1 .. k /\ g[j] = f[j] /\ g[j - 1] = f[j - 1]
          BY <3>2
        <4> QED
          BY <2>1, <4>1
      <3> QED
        BY <3>1, <3>2
    <2> QED
      BY <2>4, <2>5
  <1> HIDE DEF Upto
  <1>6. T = {}
    <2> SUFFICES ASSUME T # {} PROVE FALSE
      OBVIOUS
    <2>1. T \in SUBSET Nat
      BY <1>1
    <2> HIDE DEF T
    <2>2. PICK k \in T : \A j \in T : k <= j
      BY <2>1, Least
    <2>3. k \in 0 .. Longest /\ ~ \E f : Upto(f, k)
      BY DEF T
    <2>4. k # 0
      BY <1>4, <2>3
    <2>5. k - 1 \in 0 .. Longest /\ k - 1 \in Nat /\ k - 1 < k /\ (k - 1) + 1 = k
      BY <1>1, <2>3, <2>4
    <2>6. k - 1 \notin T
      BY <2>1, <2>2, <2>5
    <2>7. PICK f : Upto(f, k - 1)
      BY <2>5, <2>6 DEF T
    <2> QED
      BY <1>5, <2>3, <2>5, <2>7
  <1>7. PICK f : Upto(f, Longest)
    BY <1>1, <1>6
  <1>8. f = [k \in 0 .. Longest |->
               IF k = 0 THEN heap_bottom
               ELSE IF f[k - 1] = NULL THEN NULL ELSE header[f[k - 1]].next]
    <2>1. f \in [0 .. Longest -> Addr \cup {NULL}] /\ f[0] = heap_bottom
          /\ \A j \in 1 .. Longest : f[j] = After(f[j - 1])
      BY <1>7 DEF Upto
    <2>2. \A k \in 0 .. Longest :
            f[k] = IF k = 0 THEN heap_bottom
                   ELSE IF f[k - 1] = NULL THEN NULL ELSE header[f[k - 1]].next
      <3> TAKE k \in 0 .. Longest
      <3>1. k # 0 => k \in 1 .. Longest
        BY <1>1
      <3> QED
        BY <2>1, <3>1
    <2> QED
      BY <2>1, <2>2
  <1>9. Nth = [k \in 0 .. Longest |->
               IF k = 0 THEN heap_bottom
               ELSE IF Nth[k - 1] = NULL THEN NULL ELSE header[Nth[k - 1]].next]
    BY <1>8 DEF Nth
  <1>10. 0 \in 0 .. Longest /\ \A k \in 1 .. Longest : k \in 0 .. Longest /\ k # 0
    BY <1>1
  <1> QED
    BY <1>9, <1>10

(* What is closed under next holds the list.                               *)
LEMMA ListedWithin ==
  ASSUME TypeOK, NEW S, heap_bottom \in S \cup {NULL},
         \A a \in S : header[a].next \in S \cup {NULL}
  PROVE  Listed \subseteq S
  <1> DEFINE T == {k \in 0 .. Longest : Nth[k] \notin S \cup {NULL}}
  <1>1. Longest \in Nat
    BY Constants DEF Longest
  <1>2. Nth[0] = heap_bottom /\ \A k \in 1 .. Longest :
          Nth[k] = IF Nth[k - 1] = NULL THEN NULL ELSE header[Nth[k - 1]].next
    BY NthExists
  <1>3. T = {}
    <2> SUFFICES ASSUME T # {} PROVE FALSE
      OBVIOUS
    <2>1. T \in SUBSET Nat
      BY <1>1
    <2> HIDE DEF T
    <2>2. PICK k \in T : \A j \in T : k <= j
      BY <2>1, Least
    <2>3. k \in 0 .. Longest /\ Nth[k] \notin S \cup {NULL}
      BY DEF T
    <2>4. k # 0
      BY <1>2, <2>3
    <2>5. k \in 1 .. Longest /\ k - 1 \in 0 .. Longest /\ k - 1 < k
          /\ k \in Nat /\ k - 1 \in Nat
      BY <1>1, <2>3, <2>4
    <2>6. k - 1 \notin T
      BY <2>2, <2>5
    <2>7. Nth[k - 1] \in S \cup {NULL}
      BY <2>5, <2>6 DEF T
    <2>8. Nth[k] \in S \cup {NULL}
      BY <1>2, <2>5, <2>7
    <2> QED
      BY <2>3, <2>8
  <1>4. \A k \in 0 .. Longest : Nth[k] \in S \cup {NULL}
    BY <1>3
  <1> QED
    BY <1>4 DEF Listed

LEMMA ListedIsChain ==
  ASSUME TypeOK, NEW L \in SUBSET Addr, Shape(L)
  PROVE  Listed = L
  <1>1. Longest \in Nat /\ Longest = MaxHeap
    BY Constants DEF Longest
  <1>2. Nth[0] = heap_bottom /\ \A k \in 1 .. Longest :
          Nth[k] = IF Nth[k - 1] = NULL THEN NULL ELSE header[Nth[k - 1]].next
    BY NthExists
  <1>3. \A a \in L : header[a].next \in L \cup {NULL}
    BY DEF Shape, Chain
  <1>4. heap_bottom = Heap /\ Heap \in L
    BY DEF Shape, Chain
  <1>5. Listed \subseteq L
    BY <1>3, <1>4, ListedWithin
  <1>6. \A k \in 0 .. Longest : Nth[k] \in L \cup {NULL}
    BY <1>5 DEF Listed
  <1>7. \A k \in 0 .. Longest : Nth[k] = NULL \/ Heap + k <= Nth[k]
    <2> DEFINE T == {k \in 0 .. Longest : ~(Nth[k] = NULL \/ Heap + k <= Nth[k])}
    <2>1. SUFFICES ASSUME T # {} PROVE FALSE
      OBVIOUS
    <2>2. T \in SUBSET Nat
      BY <1>1
    <2> HIDE DEF T
    <2>3. PICK k \in T : \A j \in T : k <= j
      BY <2>1, <2>2, Least
    <2>4. k \in 0 .. Longest /\ Nth[k] # NULL /\ ~(Heap + k <= Nth[k])
      BY DEF T
    <2>5. k # 0
      BY <1>2, <1>4, <2>4, AddrFacts
    <2>6. k \in 1 .. Longest /\ k - 1 \in 0 .. Longest /\ k - 1 < k
          /\ k \in Nat /\ k - 1 \in Nat
      BY <1>1, <2>4, <2>5
    <2>7. k - 1 \notin T
      BY <2>3, <2>6
    <2>8. Nth[k - 1] # NULL /\ Nth[k] = header[Nth[k - 1]].next
      BY <1>2, <2>4, <2>6
    <2>9. Nth[k - 1] \in L /\ Heap + (k - 1) <= Nth[k - 1]
      BY <1>6, <2>6, <2>7, <2>8 DEF T
    <2>10. Nth[k - 1] + header[Nth[k - 1]].size < Nth[k]
      BY <2>4, <2>8, <2>9 DEF Shape, Chain
    <2>11. Nth[k - 1] \in Nat /\ header[Nth[k - 1]].size \in Nat /\ Nth[k] \in Nat
      BY <1>6, <2>4, <2>9, AddrFacts, Typed
    <2>12. Heap + k <= Nth[k]
      BY <2>6, <2>9, <2>10, <2>11, AddrFacts
    <2> QED
      BY <2>4, <2>12
  <1>8. ASSUME NEW a \in L PROVE a \in Listed
    <2>1. a \in Nat /\ NULL \notin L
      BY AddrFacts
    <2>2. Heap \in Nat /\ Heap <= a /\ a < Heap + MaxHeap
      BY <2>1, AddrFacts, Typed DEF Shape, Chain, HeapTop, TypeOK
    <2> DEFINE T == {k \in 0 .. Longest : Nth[k] = NULL \/ a <= Nth[k]}
    <2>3. T \in SUBSET Nat /\ T # {}
      <3>1. Longest \in 0 .. Longest
        BY <1>1
      <3>2. Nth[Longest] = NULL \/ Heap + Longest <= Nth[Longest]
        BY <1>7, <3>1
      <3>3. Nth[Longest] = NULL \/ a <= Nth[Longest]
        <4> DEFINE c == Nth[Longest]
        <4>1. c = NULL \/ c \in Nat
          BY <1>6, <3>1, AddrFacts
        <4>2. c = NULL \/ Heap + MaxHeap <= c
          BY <1>1, <3>2
        <4> HIDE DEF c
        <4>3. MaxHeap \in Nat
          BY Constants
        <4>4. c = NULL \/ a <= c
          BY <2>1, <2>2, <4>1, <4>2, <4>3
        <4> QED
          BY <4>4 DEF c
      <3> QED
        BY <1>1, <3>1, <3>3
    <2> HIDE DEF T
    <2>4. PICK k \in T : \A j \in T : k <= j
      BY <2>3, Least
    <2>5. k \in 0 .. Longest /\ (Nth[k] = NULL \/ a <= Nth[k])
      BY DEF T
    <2>6. CASE k = 0
      <3>1. Nth[k] = Heap
        BY <2>6, <1>2, <1>4
      <3>2. a = Heap
        BY <3>1, <2>1, <2>2, <2>5, AddrFacts DEF NULL
      <3> QED
        BY <1>4, <2>5, <3>1, <3>2, AddrFacts DEF Listed
    <2>7. CASE k # 0
      <3>1. k \in 1 .. Longest /\ k - 1 \in 0 .. Longest /\ k - 1 < k
            /\ k \in Nat /\ k - 1 \in Nat
        BY <1>1, <2>5, <2>7
      <3>2. k - 1 \notin T
        BY <2>4, <3>1
      <3> DEFINE b == Nth[k - 1]
      <3>3. b # NULL /\ ~(a <= b)
        BY <3>1, <3>2 DEF T
      <3>4. b \in L /\ Nth[k] = header[b].next
        BY <1>2, <1>6, <3>1, <3>3
      <3> HIDE DEF b
      <3>5. b \in Nat /\ b < a
        BY <2>1, <3>3, <3>4, AddrFacts
      <3>6. Nth[k] # NULL /\ Nth[k] <= a
        BY <3>4, <3>5 DEF Shape, Chain
      <3>7. Nth[k] = a
        <4> DEFINE c == Nth[k]
        <4>1. c \in Nat /\ a <= c /\ c <= a
          BY <1>6, <2>5, <3>6, AddrFacts
        <4> HIDE DEF c
        <4>2. c = a
          BY <2>1, <4>1
        <4> QED
          BY <4>2 DEF c
      <3> QED
        BY <2>1, <2>5, <3>7 DEF Listed
    <2> QED
      BY <2>6, <2>7
  <1> QED
    BY <1>5, <1>8

-----------------------------------------------------------------------------
(* What the actions do to the blocks that are held.                        *)

Handed == [at : Addr, size : Sizes]

LEMMA HandedOut ==
  ASSUME live \in Seq(Handed), NEW b \in Addr, NEW s \in Sizes,
         live' = Append(live, [at |-> b, size |-> s])
  PROVE  /\ live' \in Seq(Handed) /\ Len(live') = Len(live) + 1
         /\ Blocks \subseteq Blocks' /\ Blocks' = Blocks \cup {Len(live')}
         /\ Len(live') \notin Blocks
         /\ \A i \in Blocks : live'[i] = live[i]
         /\ live'[Len(live')].at = b /\ live'[Len(live')].size = s
  <1> DEFINE e == [at |-> b, size |-> s]
  <1>1. e \in Handed /\ e.at = b /\ e.size = s
    BY DEF Handed
  <1> HIDE DEF e
  <1>2. live' = Append(live, e)
    BY DEF e
  <1>3. /\ live' \in Seq(Handed) /\ Len(live') = Len(live) + 1
        /\ \A i \in 1 .. Len(live) : live'[i] = live[i]
        /\ live'[Len(live) + 1] = e
    BY <1>1, <1>2, AppendProperties
  <1>4. Len(live) \in Nat
    BY LenProperties
  <1> QED
    BY <1>1, <1>3, <1>4 DEF Blocks

(* A sequence without its i-th element.                                    *)
Without(q, i) == SubSeq(q, 1, i - 1) \o SubSeq(q, i + 1, Len(q))

LEMMA Removed ==
  ASSUME NEW S, NEW q \in Seq(S), NEW i \in 1 .. Len(q), NEW r, r = Without(q, i)
  PROVE  /\ r \in Seq(S) /\ Len(r) = Len(q) - 1
         /\ \A j \in 1 .. Len(q) - 1 : r[j] = IF j < i THEN q[j] ELSE q[j + 1]
  <1> DEFINE l == Len(q)
             s == SubSeq(q, 1, i - 1)
             t == SubSeq(q, i + 1, l)
  <1>1. l \in Nat /\ i \in 1 .. l /\ \A j \in 1 .. l : q[j] \in S
    BY LenProperties
  <1>2. r = s \o t
    BY DEF Without
  <1> HIDE DEF l
  <1>3. /\ s \in Seq(S) /\ Len(s) = i - 1
        /\ \A j \in 1 .. i - 1 : s[j] = q[j]
    <2>1. \A j \in 1 .. i - 1 : j \in 1 .. l
      BY <1>1
    <2>2. /\ s \in Seq(S)
          /\ Len(s) = IF 1 <= i - 1 THEN (i - 1) - 1 + 1 ELSE 0
          /\ \A j \in 1 .. (i - 1) - 1 + 1 : s[j] = q[1 + j - 1]
      BY <1>1, <2>1, SubSeqProperties
    <2> HIDE DEF s
    <2>3. i \in Int /\ 1 <= i
      BY <1>1
    <2>4. \A j \in 1 .. i - 1 : 1 + j - 1 = j /\ j \in 1 .. (i - 1) - 1 + 1
      BY <2>3
    <2>5. Len(s) = i - 1
      BY <2>2, <2>3
    <2> QED
      BY <2>2, <2>4, <2>5
  <1>4. /\ t \in Seq(S) /\ Len(t) = l - i
        /\ \A j \in 1 .. l - i : t[j] = q[i + j]
    <2>1. \A j \in i + 1 .. l : j \in 1 .. l
      BY <1>1
    <2>2. i + 1 \in Int /\ l \in Int /\ \A j \in i + 1 .. l : q[j] \in S
      BY <1>1, <2>1
    <2>3. /\ t \in Seq(S)
          /\ Len(t) = IF i + 1 <= l THEN l - (i + 1) + 1 ELSE 0
          /\ \A j \in 1 .. l - (i + 1) + 1 : t[j] = q[(i + 1) + j - 1]
      BY <2>2, SubSeqProperties
    <2> HIDE DEF t
    <2>4. i \in Int /\ i <= l
      BY <1>1
    <2>5. \A j \in 1 .. l - i : (i + 1) + j - 1 = i + j /\ j \in 1 .. l - (i + 1) + 1
      BY <1>1, <2>4
    <2>6. Len(t) = l - i
      BY <1>1, <2>3, <2>4
    <2> QED
      BY <2>3, <2>5, <2>6
  <1> HIDE DEF s, t
  <1>5. /\ r \in Seq(S) /\ Len(r) = Len(s) + Len(t)
        /\ \A j \in 1 .. Len(s) + Len(t) :
             r[j] = IF j <= Len(s) THEN s[j] ELSE t[j - Len(s)]
    <2>1. s \in Seq(S) /\ t \in Seq(S)
      BY <1>3, <1>4
    <2>2. /\ s \o t \in Seq(S) /\ Len(s \o t) = Len(s) + Len(t)
          /\ \A j \in 1 .. Len(s) + Len(t) :
               (s \o t)[j] = IF j <= Len(s) THEN s[j] ELSE t[j - Len(s)]
      BY <2>1, ConcatProperties, Zenon
    <2> QED
      BY <1>2, <2>2, Zenon
  <1>6. (i - 1) + (l - i) = l - 1
    BY <1>1
  <1>7. /\ Len(r) = l - 1
        /\ \A j \in 1 .. l - 1 : r[j] = IF j <= i - 1 THEN s[j] ELSE t[j - (i - 1)]
    BY <1>3, <1>4, <1>5, <1>6
  <1>8. ASSUME NEW j \in 1 .. l - 1
        PROVE  r[j] = IF j < i THEN q[j] ELSE q[j + 1]
    <2>1. CASE j < i
      <3>1. j <= i - 1 /\ j \in 1 .. i - 1
        BY <1>1, <2>1
      <3> QED
        BY <1>3, <1>7, <2>1, <3>1
    <2>2. CASE ~(j < i)
      <3>1. ~(j <= i - 1) /\ j - (i - 1) \in 1 .. l - i /\ i + (j - (i - 1)) = j + 1
        BY <1>1, <2>2
      <3>2. r[j] = t[j - (i - 1)]
        BY <1>7, <3>1
      <3>3. t[j - (i - 1)] = q[j + 1]
        BY <1>4, <3>1
      <3> QED
        BY <2>2, <3>2, <3>3
    <2> QED
      BY <2>1, <2>2
  <1> QED
    BY <1>5, <1>7, <1>8 DEF l

(* Where a block that stays has been when the i-th is given back.          *)
Skip(i, j) == IF j < i THEN j ELSE j + 1

LEMMA GivenBack ==
  ASSUME live \in Seq(Handed), NEW i \in Blocks,
         live' = SubSeq(live, 1, i - 1) \o SubSeq(live, i + 1, Len(live))
  PROVE  /\ live' \in Seq(Handed)
         /\ \A j \in Blocks' : /\ Skip(i, j) \in Blocks /\ Skip(i, j) # i
                               /\ live'[j] = live[Skip(i, j)]
         /\ \A j, k \in Blocks' : j # k => Skip(i, j) # Skip(i, k)
  <1> DEFINE l == Len(live)
  <1>1. l \in Nat /\ i \in 1 .. l /\ Blocks = 1 .. l
    BY LenProperties DEF Blocks
  <1>2. /\ live' \in Seq(Handed) /\ Len(live') = l - 1
        /\ \A j \in 1 .. l - 1 :
             live'[j] = IF j < i THEN live[j] ELSE live[j + 1]
    <2>1. live \in Seq(Handed) /\ i \in 1 .. Len(live)
      BY DEF Blocks
    <2>2. live' = Without(live, i)
      BY Zenon DEF Without
    <2>3. /\ Without(live, i) \in Seq(Handed)
          /\ Len(Without(live, i)) = Len(live) - 1
          /\ \A j \in 1 .. Len(live) - 1 :
               Without(live, i)[j] = IF j < i THEN live[j] ELSE live[j + 1]
      BY <2>1, Removed
    <2> QED
      BY <2>2, <2>3
  <1>3. Blocks' = 1 .. l - 1
    BY <1>2 DEF Blocks
  <1> HIDE DEF l
  <1>4. \A j \in 1 .. l - 1 : Skip(i, j) \in 1 .. l /\ Skip(i, j) # i
    BY <1>1 DEF Skip
  <1>5. \A j, k \in 1 .. l - 1 : j # k => Skip(i, j) # Skip(i, k)
    BY <1>1 DEF Skip
  <1>6. \A j \in 1 .. l - 1 : live'[j] = live[Skip(i, j)]
    BY <1>2 DEF Skip
  <1> QED
    BY <1>1, <1>2, <1>3, <1>4, <1>5, <1>6, Zenon

LEMMA HeldTyped ==
  ASSUME TypeOK, NEW i \in Blocks
  PROVE  /\ live[i] \in Handed
         /\ live[i].at \in Addr /\ live[i].at \in Nat /\ live[i].at # NULL
         /\ live[i].size \in Sizes /\ live[i].size \in Nat
  <1>1. live[i] \in Handed
    BY ElementOfSeq DEF TypeOK, Blocks, Handed
  <1>2. live[i].at \in Addr /\ live[i].size \in Sizes
    BY <1>1 DEF Handed
  <1> QED
    BY <1>1, <1>2, AddrFacts, TotalFacts

(* Steps that leave the heap and the blocks held as they are.              *)
LEMMA SameHeap ==
  ASSUME UNCHANGED <<heap_bottom, g_kbrk, header, live>>, NEW L
  PROVE  /\ Shape(L) => Shape(L)'
         /\ \A a : Parted(a) => Parted(a)'
  BY DEF Shape, Chain, Held, Clear, Blocks, Apart, Parted

-----------------------------------------------------------------------------
(* One lemma for each action.                                              *)

LEMMA Initially == Init => IInv
  <1> SUFFICES ASSUME Init PROVE IInv
    OBVIOUS
  <1>1. Zero \in Header
    BY Constants DEF Zero, Header
  <1>2. header \in [Addr -> Header]
    BY <1>1 DEF Init
  <1>3. live \in Seq([at : Addr, size : Sizes])
    BY DEF Init
  <1>4. TypeOK
    BY <1>2, <1>3 DEF TypeOK, Init
  <1>5. Heap \in Addr
    BY AddrFacts
  <1>6. Unused
    BY <1>5 DEF Unused, Blank, Init, Zero
  <1> QED
    BY <1>4, <1>6 DEF IInv

LEMMA CallMallocStep ==
  ASSUME Fitting, IInv, NEW s \in Sizes, CallMalloc(s) PROVE IInv'
  <1>1. TypeOK'
    BY AddrFacts DEF IInv, TypeOK, CallMalloc
  <1>2. CASE Unused \/ Refused
    <2>1. Unused' \/ Refused'
      BY <1>2 DEF Unused, Refused, Blank, CallMalloc
    <2> QED
      BY <1>1, <2>1 DEF IInv
  <1>3. ASSUME NEW L \in SUBSET Addr, Working(L) PROVE Working(L)'
    <2>1. Shape(L)' /\ \A a : Parted(a) => Parted(a)'
      BY <1>3, SameHeap DEF Working, CallMalloc
    <2>2. Listed = L
      BY <1>3, ListedIsChain DEF IInv, Working
    <2>3. \A a \in L : ~header[a].used => header[a].size >= TotalSize(s)
      BY <1>3, <2>2 DEF CallMalloc, Serves, Working, Shape, Chain
    <2>4. InMalloc(L)'
      BY <1>3, <2>3 DEF InMalloc, CallMalloc, Working, Shape, Chain
    <2>5. InFree(L)'
      BY DEF InFree, CallMalloc
    <2>6. Tidy(L)'
      BY <1>3, <2>1 DEF Tidy, Working, CallMalloc
    <2> QED
      BY <2>1, <2>4, <2>5, <2>6 DEF Working
  <1> QED
    BY <1>1, <1>2, <1>3 DEF IInv

LEMMA CheckMagicStep == ASSUME IInv, CheckMagic PROVE IInv'
  <1>1. TypeOK'
    BY DEF IInv, TypeOK, CheckMagic
  <1>2. CASE Unused \/ Refused
    <2>1. Heap # NULL
      BY DEF Heap, NULL
    <2>2. Unused' \/ Refused'
      BY <1>2, <2>1 DEF Unused, Refused, Blank, CheckMagic
    <2> QED
      BY <1>1, <2>2 DEF IInv
  <1>3. ASSUME NEW L \in SUBSET Addr, Working(L) PROVE Working(L)'
    <2>1. Shape(L)' /\ \A a : Parted(a) => Parted(a)'
      BY <1>3, SameHeap DEF Working, CheckMagic
    <2>2. pc' = "walk"
      BY <1>3 DEF CheckMagic, Working, InMalloc, Shape, Chain
    <2>3. InMalloc(L)' /\ InFree(L)' /\ Tidy(L)'
      BY <1>3, <2>1, <2>2 DEF Working, CheckMagic, InMalloc, InFree, Tidy
    <2> QED
      BY <2>1, <2>3 DEF Working
  <1> QED
    BY <1>1, <1>2, <1>3 DEF IInv

LEMMA WalkStep == ASSUME IInv, Walk PROVE IInv'
  <1>1. PICK L \in SUBSET Addr : Working(L)
    BY DEF IInv, Unused, Refused, Blank, Walk
  <1>2. m \in L /\ header[m].next \in L \cup {NULL}
    BY <1>1 DEF Working, InMalloc, Walk, Shape, Chain
  <1>3. TypeOK'
    BY <1>2 DEF IInv, TypeOK, Walk
  <1>4. Shape(L)' /\ \A a : Parted(a) => Parted(a)'
    BY <1>1, SameHeap DEF Working, Walk
  <1>5. InMalloc(L)' /\ InFree(L)' /\ Tidy(L)'
    BY <1>1, <1>2, <1>4 DEF Working, Walk, InMalloc, InFree, Tidy
  <1>6. Working(L)'
    BY <1>4, <1>5 DEF Working
  <1> QED
    BY <1>3, <1>6 DEF IInv

(* A block of the list.                                                    *)
LEMMA Block ==
  ASSUME TypeOK, NEW L \in SUBSET Addr, Shape(L), NEW a \in L
  PROVE  /\ a \in Addr /\ a \in Nat /\ a # NULL /\ Heap <= a
         /\ header[a].size \in Nat /\ header[a].size < SizeMod
         /\ header[a].magic /\ header[a].used \in BOOLEAN
         /\ g_kbrk \in Nat /\ a + header[a].size < g_kbrk /\ g_kbrk < HeapTop
         /\ header[a].next # NULL =>
              /\ header[a].next \in L /\ header[a].next \in Nat
              /\ a + header[a].size < header[a].next
         /\ \A b \in L : a < b => header[a].next # NULL /\ header[a].next <= b
  <1>1. a \in Addr /\ a \in Nat /\ a # NULL /\ Heap <= a /\ L \subseteq Nat
    BY AddrFacts
  <1>2. header[a].size \in Nat /\ header[a].size < SizeMod /\ header[a].used \in BOOLEAN
    BY <1>1, Typed
  <1>3. g_kbrk \in Nat
    BY AddrFacts DEF TypeOK, Shape, NULL
  <1> QED
    BY <1>1, <1>2, <1>3 DEF Shape, Chain

LEMMA HeaderWritten ==
  ASSUME NEW h \in Header, NEW s \in 0 .. SizeMod - 1, NEW x \in Addr \cup {NULL}
  PROVE  [h EXCEPT !.size = s, !.next = x, !.used = TRUE] \in Header
  <1>1. [h EXCEPT !.size = s] \in Header
    BY DEF Header
  <1>2. \A g \in Header : [g EXCEPT !.next = x] \in Header
    BY DEF Header
  <1>3. \A g \in Header : [g EXCEPT !.used = TRUE] \in Header
    BY DEF Header
  <1>4. [h EXCEPT !.size = s, !.next = x, !.used = TRUE]
          = [[[h EXCEPT !.size = s] EXCEPT !.next = x] EXCEPT !.used = TRUE]
    OBVIOUS
  <1> QED
    BY <1>1, <1>2, <1>3, <1>4, Zenon

(* A block of h units from a on is cut after s and a header.               *)
LEMMA Cutting ==
  ASSUME NEW a \in Nat, NEW h \in Nat, NEW t \in Nat, NEW s \in Nat, NEW z \in Nat,
         s < t, h >= t, h < z
  PROVE  /\ a + t \in Nat /\ a < a + t /\ a + t <= a + h /\ a + t # a
         /\ a + s < a + t /\ h - t \in Nat /\ h - t < z
         /\ (a + t) + (h - t) = a + h /\ s < h
  OBVIOUS

(* What is apart from a block is apart from its beginning.                 *)
LEMMA ApartFront ==
  ASSUME NEW a \in Nat, NEW h \in Nat, NEW s \in Nat, NEW b \in Nat, NEW t \in Nat,
         s < h, a + h < b \/ b + t < a
  PROVE  Apart(a, s, b, t) /\ Apart(b, t, a, s)
  BY DEF Apart

(* Carving: the front of the free block m is handed out, its rest is a     *)
(* free block between m and the one that followed m.                       *)
LEMMA CarveStep == ASSUME IInv, Carve PROVE IInv'
  <1>1. PICK L \in SUBSET Addr : Working(L)
    BY DEF IInv, Unused, Refused, Blank, Carve
  <1>2. TypeOK /\ Shape(L)
    BY <1>1 DEF IInv, Working
  <1> DEFINE T    == TotalSize(size)
             rest == m + T
             hs   == header[m].size
             nx   == header[m].next
             k    == Len(live')
  <1>3. m \in L /\ ~header[m].used /\ hs >= T /\ size \in Sizes
    BY <1>1 DEF Working, InMalloc, Carve
  <1>4. T \in Nat /\ size \in Nat /\ size < T /\ size < SizeMod
    BY <1>3, TotalFacts
  <1>5. /\ m \in Addr /\ m \in Nat /\ m # NULL /\ Heap <= m
        /\ hs \in Nat /\ hs < SizeMod
        /\ g_kbrk \in Nat /\ m + hs < g_kbrk /\ g_kbrk < HeapTop
        /\ nx # NULL => nx \in L /\ nx \in Nat /\ m + hs < nx
        /\ \A b \in L : m < b => nx # NULL /\ nx <= b
        /\ nx \in Addr \cup {NULL}
    BY <1>2, <1>3, Block, Typed
  <1>6. Remainder(size) = rest
    BY DEF Remainder
  <1> PICK M : M = L \cup {rest}
    OBVIOUS
  <1> HIDE DEF T, hs, nx
  <1>7. /\ rest \in Nat /\ m < rest /\ rest <= m + hs /\ rest # m
        /\ m + size < rest /\ hs - T \in Nat /\ hs - T < SizeMod
        /\ rest + (hs - T) = m + hs /\ size < hs
    <2>1. SizeMod \in Nat /\ m \in Nat /\ hs \in Nat /\ T \in Nat /\ size \in Nat
          /\ size < T /\ hs >= T /\ hs < SizeMod
      BY <1>3, <1>4, <1>5, Constants
    <2> QED
      BY <2>1, Cutting
  <1>8. rest \in Addr
    BY <1>5, <1>7, AddrFacts
  <1>9. (hs - T) % SizeMod = hs - T
    BY <1>7, Constants, SmallRemainder
  <1>10. rest \notin L
    BY <1>5, <1>7
  <1> DEFINE cut == [header EXCEPT ![rest] =
                [size |-> hs - T, next |-> nx, magic |-> TRUE, used |-> FALSE]]
  <1>11. header' = [cut EXCEPT ![m].size = size, ![m].next = rest, ![m].used = TRUE]
    BY <1>6, <1>9 DEF Carve, T, hs, nx
  <1>12. header \in [Addr -> Header] /\ cut \in [Addr -> Header] /\ cut[m] = header[m]
    BY <1>2, <1>5, <1>7, <1>8, Constants DEF TypeOK, Header
  <1>13. [cut[m] EXCEPT !.size = size, !.next = rest, !.used = TRUE] \in Header
    <2>1. cut[m] \in Header /\ rest \in Addr \cup {NULL} /\ size \in 0 .. SizeMod - 1
      BY <1>4, <1>5, <1>8, <1>12, Constants
    <2> HIDE DEF cut, rest
    <2> QED
      BY <2>1, HeaderWritten
  <1> HIDE DEF rest
  <1>14. header' \in [Addr -> Header]
    BY <1>11, <1>12, <1>13
  <1>15. header'[m] = [cut[m] EXCEPT !.size = size, !.next = rest, !.used = TRUE]
    BY <1>5, <1>11, <1>12
  <1>16. /\ header'[m].size = size /\ header'[m].next = rest
         /\ header'[m].magic = header[m].magic /\ header'[m].used
    BY <1>5, <1>12, <1>15 DEF Header
  <1>17. /\ header'[rest].size = hs - T /\ header'[rest].next = nx
         /\ header'[rest].magic /\ ~header'[rest].used
    BY <1>7, <1>8, <1>11, <1>12
  <1>18. \A a \in Addr : a # m /\ a # rest => header'[a] = header[a]
    BY <1>11, <1>12
  <1> HIDE DEF cut
  <1>19. /\ live' \in Seq(Handed) /\ Blocks' = Blocks \cup {k} /\ k \notin Blocks
         /\ \A i \in Blocks : live'[i] = live[i]
         /\ live'[k].at = m /\ live'[k].size = size
    BY <1>2, <1>3, <1>5, HandedOut DEF Carve, TypeOK, Handed
  <1> HIDE DEF k
  <1>20. /\ pc' = "idle" /\ n' = rest /\ m' = m /\ size' = size
         /\ heap_bottom' = heap_bottom /\ g_kbrk' = g_kbrk
    BY <1>6 DEF Carve
  <1>21. TypeOK'
    BY <1>2, <1>8, <1>14, <1>19, <1>20 DEF TypeOK, Handed
  <1>22. ASSUME NEW i \in Blocks
         PROVE  /\ live[i].at \in Addr /\ live[i].at \in Nat /\ live[i].size \in Nat
                /\ m + hs < live[i].at \/ live[i].at + live[i].size < m
                /\ live[i].at # m /\ live[i].at # rest
                /\ header'[live[i].at] = header[live[i].at]
    <2>1. live[i].at \in Addr /\ live[i].at \in Nat /\ live[i].size \in Nat
      BY <1>2, HeldTyped
    <2>2. m + hs < live[i].at \/ live[i].at + live[i].size < m
      BY <1>2, <1>3 DEF Shape, Clear, Apart, hs
    <2>3. live[i].at # m /\ live[i].at # rest
      BY <1>5, <1>7, <2>1, <2>2
    <2> QED
      BY <1>18, <2>1, <2>2, <2>3
  <1>23. Chain(M)'
    <2>1. Heap \in M
      BY <1>2 DEF Shape, Chain
    <2>2. ASSUME NEW a \in M
          PROVE  /\ header'[a].magic
                 /\ a + header'[a].size < g_kbrk'
                 /\ header'[a].next # NULL =>
                      header'[a].next \in M /\ a + header'[a].size < header'[a].next
      <3>1. CASE a = m
        BY <1>2, <1>3, <1>4, <1>5, <1>7, <1>16, <1>20, <3>1, Block
      <3>2. CASE a = rest
        BY <1>5, <1>7, <1>17, <1>20, <3>2
      <3>3. CASE a # m /\ a # rest
        BY <1>2, <1>18, <1>20, <3>3, Block
      <3> QED
        BY <3>1, <3>2, <3>3
    <2>3. ASSUME NEW a \in M, NEW b \in M, a < b
          PROVE  header'[a].next # NULL /\ header'[a].next <= b
      <3>1. a \in Nat /\ b \in Nat
        BY <1>2, <1>7, Block
      <3>2. CASE a = m
        BY <1>5, <1>7, <1>16, <2>3, <3>1, <3>2 DEF NULL
      <3>3. CASE a = rest
        BY <1>5, <1>7, <1>17, <2>3, <3>1, <3>3
      <3>4. CASE a # m /\ a # rest
        <4>1. a \in L /\ header'[a] = header[a]
          BY <1>18, <3>4
        <4>2. CASE b # rest
          BY <1>2, <2>3, <4>1, <4>2, Block
        <4>3. CASE b = rest
          <5>1. a < m
            BY <1>5, <1>7, <2>3, <3>1, <3>4, <4>1, <4>3
          <5>2. header[a].next # NULL /\ header[a].next <= m /\ header[a].next \in Nat
            BY <1>2, <1>3, <4>1, <5>1, Block
          <5> QED
            BY <1>5, <1>7, <4>1, <4>3, <5>2
        <4> QED
          BY <4>2, <4>3
      <3> QED
        BY <3>2, <3>3, <3>4
    <2> QED
      BY <2>1, <2>2, <2>3 DEF Chain
  <1>24. Held'
    <2>1. ASSUME NEW i \in Blocks'
          PROVE  /\ header'[live'[i].at].used /\ header'[live'[i].at].magic
                 /\ header'[live'[i].at].size = live'[i].size
                 /\ live'[i].at + live'[i].size < g_kbrk'
      <3>1. CASE i \in Blocks
        BY <1>2, <1>19, <1>20, <1>22, <3>1 DEF Shape, Held
      <3>2. CASE i = k
        <4>1. header[m].magic
          BY <1>2, <1>3, Block
        <4>2. m + size < g_kbrk
          BY <1>4, <1>5, <1>7
        <4> QED
          BY <1>16, <1>19, <1>20, <3>2, <4>1, <4>2
      <3> QED
        BY <1>19, <3>1, <3>2
    <2>2. ASSUME NEW i \in Blocks', NEW j \in Blocks', i # j
          PROVE  Apart(live'[i].at, live'[i].size, live'[j].at, live'[j].size)
      <3>1. CASE i \in Blocks /\ j \in Blocks
        BY <1>2, <1>19, <2>2, <3>1 DEF Shape, Held
      <3>2. CASE i = k /\ j \in Blocks
        <4>1. Apart(m, size, live[j].at, live[j].size)
          BY <1>4, <1>5, <1>7, <1>22, <3>2, ApartFront
        <4> QED
          BY <1>19, <3>2, <4>1
      <3>3. CASE i \in Blocks /\ j = k
        <4>1. Apart(live[i].at, live[i].size, m, size)
          BY <1>4, <1>5, <1>7, <1>22, <3>3, ApartFront
        <4> QED
          BY <1>19, <3>3, <4>1
      <3> QED
        BY <1>19, <2>2, <3>1, <3>2, <3>3
    <2> QED
      BY <2>1, <2>2 DEF Held
  <1>25. Clear(M)'
    <2> SUFFICES ASSUME NEW a \in M, NEW i \in Blocks'
                 PROVE  /\ ~header'[a].used =>
                             Apart(a, header'[a].size, live'[i].at, live'[i].size)
                        /\ header'[a].next # NULL =>
                             ~(a < live'[i].at /\ live'[i].at < header'[a].next)
      BY DEF Clear
    <2>1. CASE i \in Blocks
      <3>1. live'[i] = live[i]
        BY <1>19, <2>1
      <3>2. CASE a = m
        BY <1>5, <1>7, <1>16, <1>22, <2>1, <3>1, <3>2
      <3>3. CASE a = rest
        <4>1. nx # NULL => ~(m < live[i].at /\ live[i].at < nx)
          BY <1>2, <1>3, <2>1 DEF Shape, Clear, nx
        <4> QED
          BY <1>5, <1>7, <1>17, <1>22, <2>1, <3>1, <3>3, <4>1 DEF Apart
      <3>4. CASE a # m /\ a # rest
        BY <1>2, <1>18, <2>1, <3>1, <3>4 DEF Shape, Clear
      <3> QED
        BY <3>2, <3>3, <3>4
    <2>2. CASE i = k
      <3>1. live'[i].at = m /\ live'[i].size = size
        BY <1>19, <2>2
      <3>2. CASE a = m
        BY <1>5, <1>16, <3>1, <3>2
      <3>3. CASE a = rest
        BY <1>5, <1>7, <1>17, <3>1, <3>3 DEF Apart
      <3>4. CASE a # m /\ a # rest
        <4>1. a \in L /\ a \in Nat /\ header'[a] = header[a]
          BY <1>2, <1>18, <3>4, Block
        <4>2. CASE a < m
          <5>1. /\ header[a].next # NULL /\ header[a].next <= m
                /\ header[a].next \in Nat /\ header[a].size \in Nat
                /\ a + header[a].size < header[a].next
            BY <1>2, <1>3, <4>1, <4>2, Block
          <5> QED
            BY <1>5, <3>1, <4>1, <5>1 DEF Apart
        <4>3. CASE ~(a < m)
          <5>1. m < a
            BY <1>5, <3>4, <4>1, <4>3
          <5>2. m + size < a
            BY <1>4, <1>5, <1>7, <4>1, <5>1
          <5> QED
            BY <1>5, <3>1, <4>1, <4>3, <5>2 DEF Apart
        <4> QED
          BY <4>2, <4>3
      <3> QED
        BY <3>2, <3>3, <3>4
    <2> QED
      BY <1>19, <2>1, <2>2
  <1>26. ASSUME NEW a \in M PROVE Parted(a)'
    <2>1. CASE a = m
      BY <1>16, <2>1 DEF Parted
    <2>2. CASE a = rest
      <3>1. Parted(m)
        BY <1>1, <1>3 DEF Working, Tidy, Carve
      <3>2. nx # NULL => nx # m /\ nx # rest /\ nx \in Addr
        BY <1>5, <1>7
      <3> QED
        BY <1>3, <1>17, <1>18, <2>2, <3>1, <3>2 DEF Parted, nx
    <2>3. CASE a # m /\ a # rest
      <3>1. a \in L /\ header'[a] = header[a]
        BY <1>18, <2>3
      <3>2. Parted(a)
        BY <1>1, <3>1 DEF Working, Tidy, Carve
      <3>3. header[a].next # NULL => header[a].next \in L /\ header[a].next # rest
        BY <1>2, <1>10, <3>1, Block
      <3> QED
        BY <1>16, <1>18, <3>1, <3>2, <3>3 DEF Parted
    <2> QED
      BY <2>1, <2>2, <2>3
  <1>27. M \in SUBSET Addr
    BY <1>8
  <1>28. Working(M)'
    <2>1. Shape(M)'
      BY <1>2, <1>20, <1>23, <1>24, <1>25 DEF Shape
    <2>2. InMalloc(M)' /\ InFree(M)' /\ Tidy(M)'
      BY <1>20, <1>26 DEF InMalloc, InFree, Tidy
    <2> QED
      BY <2>1, <2>2 DEF Working
  <1> QED
    BY <1>21, <1>27, <1>28 DEF IInv

(* A block from ksbrk begins where all others have ended.                  *)
LEMMA GrowStep == ASSUME IInv, Grow PROVE IInv'
  <1>0. PICK p : p = IF heap_bottom = NULL THEN Heap ELSE g_kbrk
    OBVIOUS
  <1>1. Unused \/ \E L \in SUBSET Addr : Working(L)
    BY DEF IInv, Refused, Grow
  <1>2. TypeOK /\ size \in Sizes
    BY <1>1 DEF IInv, Unused, Blank, Working, InMalloc, Grow
  <1>3. p \in Heap .. HeapTop - 1 /\ p \in Nat /\ p # NULL
    <2>1. CASE Unused
      BY <1>0, <2>1, AddrFacts DEF Unused, NULL, Heap
    <2>2. CASE \E L \in SUBSET Addr : Working(L)
      <3>1. heap_bottom = Heap /\ Heap < g_kbrk /\ g_kbrk < HeapTop
        BY <2>2 DEF Working, Shape
      <3>2. g_kbrk \in Nat
        BY <1>2, AddrFacts DEF TypeOK, NULL
      <3> QED
        BY <1>0, <3>1, <3>2, AddrFacts DEF NULL, Heap
    <2> QED
      BY <1>1, <2>1, <2>2
  <1>4. p \in Addr /\ p <= HeapTop
    BY <1>3, AddrFacts
  <1>5. heap_bottom' = Heap /\ pc' = "idle" /\ m' = m /\ n' = n /\ size' = size
    BY DEF Grow
  <1>6. CASE ~Granted(size)
    <2>1. g_kbrk' = p /\ header' = header /\ live' = live
      BY <1>0, <1>6 DEF Grow
    <2>2. TypeOK'
      <3>1. p \in Heap .. HeapTop
        BY <1>3, AddrFacts
      <3> QED
        BY <1>2, <1>5, <2>1, <3>1 DEF TypeOK
    <2>3. CASE Unused
      <3>1. Refused'
        BY <1>0, <1>5, <2>1, <2>3 DEF Refused, Unused, Blank
      <3> QED
        BY <2>2, <3>1 DEF IInv
    <2>4. ASSUME NEW L \in SUBSET Addr, Working(L) PROVE IInv'
      <3>1. heap_bottom = Heap /\ heap_bottom # NULL
        BY <2>4 DEF Working, Shape, Heap, NULL
      <3>2. UNCHANGED <<heap_bottom, g_kbrk, header, live>>
        BY <1>0, <1>5, <2>1, <3>1
      <3>3. Shape(L)' /\ \A a : Parted(a) => Parted(a)'
        BY <2>4, <3>2, SameHeap DEF Working
      <3>4. InMalloc(L)' /\ InFree(L)' /\ Tidy(L)'
        BY <1>5, <2>4, <3>3 DEF Working, InMalloc, InFree, Tidy, Grow
      <3> QED
        BY <2>2, <3>3, <3>4 DEF IInv, Working
    <2> QED
      BY <1>1, <2>3, <2>4
  <1>7. CASE Granted(size)
    <2> DEFINE k == Len(live')
               T == TotalSize(size)
    <2>1. /\ g_kbrk' = NewBrk(size)
          /\ header' = [header EXCEPT ![p] =
               [size |-> size, next |-> NULL, magic |-> TRUE, used |-> TRUE]]
          /\ live' = Append(live, [at |-> p, size |-> size])
      BY <1>0, <1>7 DEF Grow
    <2>2. T \in Nat /\ size \in Nat /\ size < T /\ size < SizeMod
      BY <1>2, TotalFacts
    <2>3. g_kbrk' = p + T /\ p < g_kbrk' /\ g_kbrk' < HeapTop
      BY <1>0, <1>2, <1>3, <1>7, <2>1, GrantedFacts
    <2> HIDE DEF T
    <2>4. header \in [Addr -> Header]
      BY <1>2 DEF TypeOK
    <2>5. [size |-> size, next |-> NULL, magic |-> TRUE, used |-> TRUE] \in Header
      BY <2>2, Constants DEF Header
    <2>6. /\ header' \in [Addr -> Header]
          /\ header'[p].size = size /\ header'[p].next = NULL
          /\ header'[p].magic /\ header'[p].used
          /\ \A a \in Addr : a # p => header'[a] = header[a]
      BY <1>4, <2>1, <2>4, <2>5
    <2>7. /\ live' \in Seq(Handed) /\ Blocks' = Blocks \cup {k} /\ k \notin Blocks
          /\ \A i \in Blocks : live'[i] = live[i]
          /\ live'[k].at = p /\ live'[k].size = size
      BY <1>2, <1>4, <2>1, HandedOut DEF TypeOK, Handed
    <2> HIDE DEF k
    <2>8. TypeOK'
      <3>1. g_kbrk' \in Heap .. HeapTop
        BY <1>3, <2>2, <2>3, AddrFacts
      <3> QED
        BY <1>2, <1>5, <2>6, <2>7, <3>1 DEF TypeOK, Handed
    <2>9. p + size < g_kbrk'
      BY <1>3, <2>2, <2>3
    <2>10. CASE Unused
      <3>1. p = Heap /\ Blocks = {}
        BY <1>0, <2>10 DEF Unused, Blank, Blocks
      <3>2. Chain({Heap})'
        BY <1>3, <2>6, <2>9, <3>1 DEF Chain
      <3>3. Held' /\ Clear({Heap})'
        BY <2>6, <2>7, <2>9, <3>1 DEF Held, Clear
      <3>4. Shape({Heap})'
        BY <1>5, <2>3, <3>1, <3>2, <3>3 DEF Shape
      <3>5. InMalloc({Heap})' /\ InFree({Heap})' /\ Tidy({Heap})'
        BY <1>5, <2>6, <3>1 DEF InMalloc, InFree, Tidy, Parted
      <3>6. {Heap} \in SUBSET Addr
        BY <1>4, <3>1
      <3> QED
        BY <2>8, <3>4, <3>5, <3>6 DEF IInv, Working
    <2>11. ASSUME NEW L \in SUBSET Addr, Working(L) PROVE IInv'
      <3>1. Shape(L) /\ heap_bottom = Heap
        BY <2>11 DEF Working, Shape
      <3>2. p = g_kbrk
        BY <1>0, <3>1 DEF Heap, NULL
      <3>3. \A a \in L : a # p /\ header'[a] = header[a]
        BY <1>2, <1>3, <2>6, <3>1, <3>2, Block
      <3>4. ASSUME NEW i \in Blocks
            PROVE  /\ live[i].at \in Addr /\ live[i].at \in Nat /\ live[i].size \in Nat
                   /\ live[i].at + live[i].size < p
                   /\ header'[live[i].at] = header[live[i].at]
        <4>1. live[i].at \in Addr /\ live[i].at \in Nat /\ live[i].size \in Nat
          BY <1>2, HeldTyped
        <4>2. live[i].at + live[i].size < p
          BY <3>1, <3>2 DEF Shape, Held
        <4> QED
          BY <1>3, <2>6, <4>1, <4>2
      <3>5. Chain(L)'
        <4>1. \A a \in L :
                /\ header'[a].magic
                /\ a + header'[a].size < g_kbrk'
                /\ header'[a].next # NULL =>
                     header'[a].next \in L /\ a + header'[a].size < header'[a].next
          <5> TAKE a \in L
          <5>1. a \in Nat /\ header[a].size \in Nat /\ a + header[a].size < g_kbrk
            BY <1>2, <3>1, Block
          <5>2. a + header[a].size < g_kbrk'
            BY <1>3, <2>2, <2>3, <3>2, <5>1
          <5> QED
            BY <3>1, <3>3, <5>2 DEF Shape, Chain
        <4>2. \A a, b \in L : a < b => header'[a].next # NULL /\ header'[a].next <= b
          BY <3>1, <3>3 DEF Shape, Chain
        <4> QED
          BY <3>1, <4>1, <4>2 DEF Shape, Chain
      <3>6. Held'
        <4>1. ASSUME NEW i \in Blocks'
              PROVE  /\ header'[live'[i].at].used /\ header'[live'[i].at].magic
                     /\ header'[live'[i].at].size = live'[i].size
                     /\ live'[i].at + live'[i].size < g_kbrk'
          <5>1. CASE i \in Blocks
            <6>1. live[i].at + live[i].size < g_kbrk'
              BY <1>3, <2>2, <2>3, <3>4, <5>1
            <6> QED
              BY <2>7, <3>1, <3>4, <5>1, <6>1 DEF Shape, Held
          <5>2. CASE i = k
            BY <2>6, <2>7, <2>9, <5>2
          <5> QED
            BY <2>7, <5>1, <5>2
        <4>2. ASSUME NEW i \in Blocks', NEW j \in Blocks', i # j
              PROVE  Apart(live'[i].at, live'[i].size, live'[j].at, live'[j].size)
          <5>1. CASE i \in Blocks /\ j \in Blocks
            BY <2>7, <3>1, <4>2, <5>1 DEF Shape, Held
          <5>2. CASE i = k /\ j \in Blocks
            BY <2>7, <3>4, <5>2 DEF Apart
          <5>3. CASE i \in Blocks /\ j = k
            BY <2>7, <3>4, <5>3 DEF Apart
          <5> QED
            BY <2>7, <4>2, <5>1, <5>2, <5>3
        <4> QED
          BY <4>1, <4>2 DEF Held
      <3>7. Clear(L)'
        <4> SUFFICES ASSUME NEW a \in L, NEW i \in Blocks'
                     PROVE  /\ ~header'[a].used =>
                                 Apart(a, header'[a].size, live'[i].at, live'[i].size)
                            /\ header'[a].next # NULL =>
                                 ~(a < live'[i].at /\ live'[i].at < header'[a].next)
          BY DEF Clear
        <4>1. CASE i \in Blocks
          BY <2>7, <3>1, <3>3, <4>1 DEF Shape, Clear
        <4>2. CASE i = k
          <5>1. a \in Nat /\ a + header[a].size < p
            BY <1>2, <3>1, <3>2, Block
          <5>2. header[a].next # NULL => header[a].next < p /\ header[a].next \in Nat
            BY <1>2, <1>3, <3>1, <3>2, Block
          <5> QED
            BY <1>3, <2>7, <3>3, <4>2, <5>1, <5>2 DEF Apart
        <4> QED
          BY <2>7, <4>1, <4>2
      <3>8. Shape(L)'
        <4>1. Heap < g_kbrk'
          BY <1>3, <2>2, <2>3, AddrFacts
        <4> QED
          BY <1>5, <2>3, <3>5, <3>6, <3>7, <4>1 DEF Shape
      <3>9. \A a \in L : Parted(a)'
        <4> TAKE a \in L
        <4>1. Parted(a)
          BY <2>11 DEF Working, Tidy, Grow
        <4>2. header[a].next # NULL => header[a].next \in L
          BY <3>1 DEF Shape, Chain
        <4> QED
          BY <3>3, <4>1, <4>2 DEF Parted
      <3>10. InMalloc(L)' /\ InFree(L)' /\ Tidy(L)'
        BY <1>5, <3>9 DEF InMalloc, InFree, Tidy
      <3> QED
        BY <2>8, <3>8, <3>10 DEF IInv, Working
    <2> QED
      BY <1>1, <2>10, <2>11
  <1> QED
    BY <1>6, <1>7

LEMMA CallFreeStep == ASSUME IInv, NEW i \in Blocks, CallFree(i) PROVE IInv'
  <1>1. PICK L \in SUBSET Addr : Working(L)
    <2>1. live # <<>>
      BY DEF Blocks
    <2> QED
      BY <2>1 DEF IInv, Unused, Refused, Blank
  <1>2. TypeOK /\ Shape(L)
    BY <1>1 DEF IInv, Working
  <1>3. /\ live' \in Seq(Handed)
        /\ \A j \in Blocks' : /\ Skip(i, j) \in Blocks /\ Skip(i, j) # i
                              /\ live'[j] = live[Skip(i, j)]
        /\ \A j, k \in Blocks' : j # k => Skip(i, j) # Skip(i, k)
    <2>1. live \in Seq(Handed)
      BY <1>2 DEF TypeOK, Handed
    <2>2. live' = SubSeq(live, 1, i - 1) \o SubSeq(live, i + 1, Len(live))
      BY DEF CallFree
    <2> QED
      BY <2>1, <2>2, GivenBack
  <1>4. /\ \A j \in Blocks' : /\ Skip(i, j) \in Blocks /\ Skip(i, j) # i
                              /\ live'[j] = live[Skip(i, j)]
        /\ \A j, k \in Blocks' : j # k => Skip(i, j) # Skip(i, k)
    BY <1>3
  <1>5. /\ m' = live[i].at /\ n' = heap_bottom /\ size' = size
        /\ heap_bottom' = heap_bottom /\ g_kbrk' = g_kbrk /\ header' = header
    BY DEF CallFree
  <1>6. m' \in Addr /\ m' # NULL
    BY <1>2, <1>5, HeldTyped
  <1>7. pc' = "find"
    BY <1>2, <1>5 DEF CallFree, Shape, Held
  <1>8. TypeOK'
    BY <1>2, <1>3, <1>5, <1>6, <1>7, AddrFacts DEF TypeOK, Handed
  <1>9. Chain(L)'
    BY <1>2, <1>5 DEF Shape, Chain
  <1>10. Held'
    BY <1>2, <1>4, <1>5 DEF Shape, Held
  <1>11. Clear(L)'
    BY <1>2, <1>4, <1>5 DEF Shape, Clear
  <1>12. Shape(L)'
    BY <1>2, <1>5, <1>9, <1>10, <1>11 DEF Shape
  <1>13. Returned'
    <2>1. /\ header[live[i].at].used /\ header[live[i].at].magic
          /\ header[live[i].at].size = live[i].size
          /\ live[i].at + live[i].size < g_kbrk
      BY <1>2 DEF Shape, Held
    <2>2. \A j \in Blocks' :
            Apart(live[i].at, live[i].size, live'[j].at, live'[j].size)
      BY <1>2, <1>4 DEF Shape, Held
    <2> QED
      BY <1>5, <1>6, <2>1, <2>2 DEF Returned
  <1>14. InMalloc(L)' /\ InFree(L)'
    BY <1>2, <1>5, <1>7, <1>13 DEF InMalloc, InFree, Shape, Chain
  <1>15. Tidy(L)'
    BY <1>1, <1>5, <1>7 DEF Working, Tidy, Parted, CallFree
  <1> QED
    BY <1>8, <1>12, <1>14, <1>15 DEF IInv, Working

(* What the loops of free look at on their way does not change.            *)
LEMMA FindStep == ASSUME IInv, Find PROVE IInv'
  <1>1. PICK L \in SUBSET Addr : Working(L)
    BY DEF IInv, Unused, Refused, Blank, Find
  <1>2. n \in L /\ header[n].next \in L \cup {NULL}
    BY <1>1 DEF Working, InFree, Find, Shape, Chain
  <1>3. TypeOK'
    BY <1>2 DEF IInv, TypeOK, Find
  <1>4. Shape(L)' /\ \A a : Parted(a) => Parted(a)'
    BY <1>1, SameHeap DEF Working, Find
  <1>5. InMalloc(L)' /\ InFree(L)' /\ Tidy(L)'
    BY <1>1, <1>2, <1>4
    DEF Working, Find, InMalloc, InFree, Returned, Blocks, Apart, Tidy
  <1> QED
    BY <1>3, <1>4, <1>5 DEF IInv, Working

LEMMA NotFoundStep == ASSUME IInv, NotFound PROVE IInv'
  <1>1. PICK L \in SUBSET Addr : Working(L)
    BY DEF IInv, Unused, Refused, Blank, NotFound
  <1>2. TypeOK'
    BY DEF IInv, TypeOK, NotFound
  <1>3. Shape(L)' /\ \A a : Parted(a) => Parted(a)'
    BY <1>1, SameHeap DEF Working, NotFound
  <1>4. InMalloc(L)' /\ InFree(L)' /\ Tidy(L)'
    BY <1>1, <1>3 DEF Working, NotFound, InMalloc, InFree, Tidy
  <1> QED
    BY <1>2, <1>3, <1>4 DEF IInv, Working

(* The block becomes free, and so do the units it had.                     *)
LEMMA FoundStep == ASSUME IInv, Found PROVE IInv'
  <1>1. PICK L \in SUBSET Addr : Working(L)
    BY DEF IInv, Unused, Refused, Blank, Found
  <1>2. TypeOK /\ Shape(L)
    BY <1>1 DEF IInv, Working
  <1>3. m \in L /\ Returned
    BY <1>1 DEF Working, InFree, Found
  <1>4. header \in [Addr -> Header] /\ m \in Addr /\ m \in Nat
    BY <1>2, <1>3, AddrFacts DEF TypeOK
  <1>5. header' = [header EXCEPT ![m].used = FALSE]
    BY DEF Found
  <1>6. \A h \in Header : [h EXCEPT !.used = FALSE] \in Header
    BY DEF Header
  <1>7. header' \in [Addr -> Header]
    BY <1>4, <1>5, <1>6
  <1>8. \A a \in Addr :
          /\ header'[a].size = header[a].size /\ header'[a].next = header[a].next
          /\ header'[a].magic = header[a].magic
          /\ a # m => header'[a].used = header[a].used
    BY <1>4, <1>5 DEF Header
  <1>9. /\ heap_bottom' = heap_bottom /\ g_kbrk' = g_kbrk /\ live' = live
        /\ n' = n /\ size' = size /\ m' = Heap /\ pc' = "coalesce"
    BY <1>2 DEF Found, Shape
  <1>10. TypeOK'
    BY <1>2, <1>7, <1>9, AddrFacts DEF TypeOK
  <1>11. Chain(L)'
    BY <1>2, <1>8, <1>9 DEF Shape, Chain
  <1>12. ASSUME NEW i \in Blocks
         PROVE  live[i].at \in Addr /\ live[i].at # m
    <2>1. live[i].at \in Addr /\ live[i].at \in Nat /\ live[i].size \in Nat
      BY <1>2, HeldTyped
    <2>2. m + header[m].size < live[i].at \/ live[i].at + live[i].size < m
      BY <1>3 DEF Returned, Apart
    <2>3. header[m].size \in Nat
      BY <1>2, <1>4, Typed
    <2> QED
      BY <1>4, <2>1, <2>2, <2>3
  <1>13. Held'
    BY <1>2, <1>8, <1>9, <1>12 DEF Shape, Held, Blocks, Apart
  <1>14. Clear(L)'
    <2> SUFFICES ASSUME NEW a \in L, NEW i \in Blocks
                 PROVE  /\ ~header'[a].used =>
                             Apart(a, header'[a].size, live[i].at, live[i].size)
                        /\ header'[a].next # NULL =>
                             ~(a < live[i].at /\ live[i].at < header'[a].next)
      BY <1>9 DEF Clear, Blocks, Apart
    <2>1. CASE a = m
      BY <1>2, <1>3, <1>8, <2>1 DEF Returned, Shape, Clear
    <2>2. CASE a # m
      BY <1>2, <1>8, <2>2 DEF Shape, Clear
    <2> QED
      BY <2>1, <2>2
  <1>15. Shape(L)'
    BY <1>2, <1>9, <1>11, <1>13, <1>14 DEF Shape
  <1>16. InMalloc(L)' /\ InFree(L)'
    BY <1>2, <1>9 DEF InMalloc, InFree, Shape, Chain
  <1>17. Tidy(L)'
    <2>1. \A a \in L : ~(a < Heap)
      BY AddrFacts
    <2>2. Heap # NULL
      BY DEF Heap, NULL
    <2> QED
      BY <1>9, <2>1, <2>2 DEF Tidy
  <1> QED
    BY <1>10, <1>15, <1>16, <1>17 DEF IInv, Working

LEMMA NextBlockStep == ASSUME IInv, NextBlock PROVE IInv'
  <1>1. PICK L \in SUBSET Addr : Working(L)
    BY DEF IInv, Unused, Refused, Blank, NextBlock
  <1>2. TypeOK /\ Shape(L)
    BY <1>1 DEF IInv, Working
  <1>3. m \in L /\ m \in Nat /\ header[m].next \in L \cup {NULL}
    BY <1>1, <1>2, Block DEF Working, InFree, NextBlock
  <1>4. TypeOK'
    BY <1>2, <1>3 DEF TypeOK, NextBlock
  <1>5. Shape(L)' /\ \A a : Parted(a) => Parted(a)'
    BY <1>1, SameHeap DEF Working, NextBlock
  <1>6. InMalloc(L)' /\ InFree(L)'
    BY <1>1, <1>3 DEF Working, NextBlock, InMalloc, InFree
  <1>7. Tidy(L)'
    <2> SUFFICES ASSUME NEW a \in L, m' # NULL => a < m' PROVE Parted(a)'
      BY DEF Tidy, NextBlock
    <2>1. CASE a = m
      BY <1>5, <2>1 DEF NextBlock, Mergeable, Parted
    <2>2. CASE a < m
      BY <1>1, <1>5, <2>2 DEF Working, Tidy, NextBlock
    <2>3. CASE m < a
      <3>1. header[m].next # NULL /\ header[m].next <= a /\ header[m].next \in Nat
        BY <1>2, <1>3, <2>3, Block
      <3>2. m' = header[m].next
        BY DEF NextBlock
      <3>3. a \in Nat
        BY AddrFacts
      <3> QED
        BY <3>1, <3>2, <3>3
    <2> QED
      BY <1>3, <2>1, <2>2, <2>3, AddrFacts
  <1> QED
    BY <1>4, <1>5, <1>6, <1>7 DEF IInv, Working

LEMMA EndFreeStep == ASSUME IInv, EndFree PROVE IInv'
  <1>1. PICK L \in SUBSET Addr : Working(L)
    BY DEF IInv, Unused, Refused, Blank, EndFree
  <1>2. TypeOK'
    BY DEF IInv, TypeOK, EndFree
  <1>3. Shape(L)' /\ \A a : Parted(a) => Parted(a)'
    BY <1>1, SameHeap DEF Working, EndFree
  <1>4. InMalloc(L)' /\ InFree(L)' /\ Tidy(L)'
    BY <1>1, <1>3 DEF Working, EndFree, InMalloc, InFree, Tidy
  <1> QED
    BY <1>2, <1>3, <1>4 DEF IInv, Working

(* A free block takes in the free block behind it, and what lies between   *)
(* them: no block that is held begins there.                               *)
LEMMA MergeStep == ASSUME IInv, Merge PROVE IInv'
  <1>1. PICK L \in SUBSET Addr : Working(L)
    BY DEF IInv, Unused, Refused, Blank, Merge
  <1>2. TypeOK /\ Shape(L)
    BY <1>1 DEF IInv, Working
  <1> PICK x : x = header[m].next
    OBVIOUS
  <1> PICK hm : hm = header[m].size
    OBVIOUS
  <1>3. /\ m \in L /\ ~header[m].used /\ x # NULL /\ ~header[x].used
    BY <1>1 DEF Working, InFree, Merge, Mergeable
  <1>4. /\ m \in Addr /\ m \in Nat /\ m # NULL /\ Heap <= m
        /\ hm \in Nat /\ m + hm < x /\ x \in L /\ x \in Nat
        /\ \A b \in L : m < b => x <= b
    BY <1>2, <1>3, Block
  <1> PICK hx : hx = header[x].size
    OBVIOUS
  <1> PICK y : y = header[x].next
    OBVIOUS
  <1>5. /\ x \in Addr /\ hx \in Nat /\ x + hx < g_kbrk
        /\ g_kbrk \in Nat /\ g_kbrk < HeapTop
        /\ y # NULL => y \in L /\ y \in Nat /\ x + hx < y
        /\ \A b \in L : x < b => y # NULL /\ y <= b
    BY <1>2, <1>4, Block
  <1>6. y \in Addr \cup {NULL}
    BY <1>2, <1>5, Typed
  <1> PICK ms : ms = hm + hx + 1
    OBVIOUS
  <1>7. ms \in Nat /\ m + ms <= x + hx /\ m + ms < g_kbrk
    BY <1>4, <1>5
  <1>8. ms < SizeMod
    <2>1. HeapTop = Heap + MaxHeap /\ Heap \in Nat
      BY AddrFacts DEF HeapTop
    <2>2. MaxHeap \in Nat /\ MaxHeap < SizeMod /\ SizeMod \in Nat
      BY Constants
    <2>3. ms < MaxHeap
      BY <1>4, <1>5, <1>7, <2>1, <2>2
    <2> QED
      BY <1>7, <2>2, <2>3
  <1>9. MergedSize(hm, hx) = ms
    BY <1>7, <1>8, Constants, SmallRemainder DEF MergedSize
  <1> PICK M : M = L \ {x}
    OBVIOUS
  <1>10. header \in [Addr -> Header]
    BY <1>2 DEF TypeOK
  <1>11. header' = [header EXCEPT ![m].size = ms, ![m].next = y]
    BY <1>9 DEF Merge, AfterMerge
  <1>12. [header[m] EXCEPT !.size = ms, !.next = y] \in Header
    <2>1. header[m] \in Header /\ ms \in 0 .. SizeMod - 1
      BY <1>4, <1>7, <1>8, <1>10, Constants
    <2> QED
      BY <1>6, <2>1 DEF Header
  <1>13. header' \in [Addr -> Header]
    BY <1>10, <1>11, <1>12
  <1>14. header'[m] = [header[m] EXCEPT !.size = ms, !.next = y]
    BY <1>4, <1>10, <1>11
  <1>15. /\ header'[m].size = ms /\ header'[m].next = y
         /\ header'[m].magic = header[m].magic /\ header'[m].used = header[m].used
    BY <1>4, <1>10, <1>14 DEF Header
  <1>16. \A a \in Addr : a # m => header'[a] = header[a]
    BY <1>10, <1>11
  <1>17. /\ heap_bottom' = heap_bottom /\ g_kbrk' = g_kbrk /\ live' = live
         /\ n' = n /\ size' = size /\ m' = m /\ pc' = pc /\ pc = "coalesce"
    BY DEF Merge
  <1>18. TypeOK'
    BY <1>2, <1>13, <1>17 DEF TypeOK
  <1>19. \A a \in M : a \in L /\ a # x /\ a \in Nat /\ a \in Addr
    BY AddrFacts
  <1>20. Chain(M)'
    <2>1. Heap \in M
      BY <1>2, <1>4, AddrFacts DEF Shape, Chain
    <2>2. ASSUME NEW a \in M
          PROVE  /\ header'[a].magic
                 /\ a + header'[a].size < g_kbrk'
                 /\ header'[a].next # NULL =>
                      header'[a].next \in M /\ a + header'[a].size < header'[a].next
      <3>1. CASE a = m
        <4>1. header[m].magic
          BY <1>2, <1>3, Block
        <4>2. y # NULL => y \in M /\ m + ms < y
          BY <1>4, <1>5, <1>7
        <4> QED
          BY <1>7, <1>15, <1>17, <3>1, <4>1, <4>2
      <3>2. CASE a # m
        <4>1. header'[a] = header[a]
          BY <1>16, <1>19, <3>2
        <4>2. /\ header[a].magic /\ a + header[a].size < g_kbrk
              /\ header[a].next # NULL =>
                   /\ header[a].next \in L /\ header[a].next \in Nat
                   /\ a + header[a].size < header[a].next
              /\ header[a].size \in Nat
              /\ \A b \in L : a < b => header[a].next # NULL /\ header[a].next <= b
          BY <1>2, <1>19, Block
        <4>3. header[a].next # x
          <5>1. CASE a < m
            BY <1>3, <1>4, <4>2, <5>1
          <5>2. CASE m < a
            <6> PICK z : z = header[a].next
              OBVIOUS
            <6>1. x <= a /\ x \in Nat /\ x # NULL /\ a \in Nat
              <7>1. m \in L /\ a \in L /\ header[m].next <= a
                BY <1>2, <1>3, <1>19, <5>2 DEF Shape, Chain
              <7> QED
                BY <1>3, <1>4, <1>19, <7>1
            <6>2. z # NULL => z \in Nat /\ a + header[a].size < z
              BY <4>2
            <6> PICK w : w = header[a].size
              OBVIOUS
            <6>3. w \in Nat /\ (z # NULL => z \in Nat /\ a + w < z)
              BY <4>2, <6>2
            <6>4. z # x
              BY <6>1, <6>3
            <6> QED
              BY <6>4
          <5> QED
            BY <1>4, <1>19, <3>2, <5>1, <5>2
        <4> QED
          BY <1>17, <4>1, <4>2, <4>3
      <3> QED
        BY <3>1, <3>2
    <2>3. ASSUME NEW a \in M, NEW b \in M, a < b
          PROVE  header'[a].next # NULL /\ header'[a].next <= b
      <3>1. CASE a = m
        <4>1. x < b
          BY <1>4, <1>19, <2>3, <3>1
        <4> QED
          BY <1>5, <1>15, <1>19, <3>1, <4>1
      <3>2. CASE a # m
        BY <1>2, <1>16, <1>19, <2>3, <3>2 DEF Shape, Chain
      <3> QED
        BY <3>1, <3>2
    <2> QED
      BY <2>1, <2>2, <2>3 DEF Chain
  <1>21. ASSUME NEW i \in Blocks
         PROVE  /\ live[i].at \in Addr /\ live[i].at \in Nat /\ live[i].size \in Nat
                /\ live[i].at # m /\ live[i].at # x
                /\ header'[live[i].at] = header[live[i].at]
    <2>1. live[i].at \in Addr /\ live[i].at \in Nat /\ live[i].size \in Nat
      BY <1>2, HeldTyped
    <2>2. header[live[i].at].used
      BY <1>2 DEF Shape, Held
    <2> QED
      BY <1>3, <1>16, <2>1, <2>2
  <1>22. Held'
    BY <1>2, <1>17, <1>21 DEF Shape, Held, Blocks, Apart
  <1>23. Clear(M)'
    <2> SUFFICES ASSUME NEW a \in M, NEW i \in Blocks
                 PROVE  /\ ~header'[a].used =>
                             Apart(a, header'[a].size, live[i].at, live[i].size)
                        /\ header'[a].next # NULL =>
                             ~(a < live[i].at /\ live[i].at < header'[a].next)
      BY <1>17 DEF Clear, Blocks, Apart
    <2> PICK b : b = live[i].at
      OBVIOUS
    <2> PICK s : s = live[i].size
      OBVIOUS
    <2>1. b \in Nat /\ s \in Nat /\ b # m /\ b # x
      BY <1>21
    <2>2. CASE a = m
      <3>1. /\ m + hm < b \/ b + s < m
            /\ x + hx < b \/ b + s < x
            /\ ~(m < b /\ b < x)
            /\ y # NULL => ~(x < b /\ b < y)
        BY <1>2, <1>3, <1>4 DEF Shape, Clear, Apart
      <3>2. m + ms < b \/ b + s < m
        BY <1>4, <1>5, <1>7, <2>1, <3>1
      <3>3. y # NULL => ~(m < b /\ b < y)
        BY <1>4, <1>5, <2>1, <3>1
      <3> QED
        BY <1>15, <2>2, <3>2, <3>3 DEF Apart
    <2>3. CASE a # m
      BY <1>2, <1>16, <1>19, <2>3 DEF Shape, Clear
    <2> QED
      BY <2>2, <2>3
  <1>24. Shape(M)'
    BY <1>2, <1>17, <1>20, <1>22, <1>23 DEF Shape
  <1>25. InMalloc(M)' /\ InFree(M)'
    BY <1>3, <1>4, <1>17 DEF InMalloc, InFree
  <1>26. Tidy(M)'
    <2> SUFFICES ASSUME NEW a \in M, a < m PROVE Parted(a)'
      BY <1>4, <1>17 DEF Tidy
    <2>1. Parted(a)
      BY <1>1, <1>17, <1>19 DEF Working, Tidy
    <2>2. a # m /\ header'[a] = header[a]
      BY <1>4, <1>16, <1>19
    <2>3. header[a].next # NULL => header[a].next \in Addr
      BY <1>2, <1>19, Typed
    <2>4. \A c \in Addr : header'[c].used = header[c].used
      BY <1>15, <1>16
    <2> QED
      BY <2>1, <2>2, <2>3, <2>4 DEF Parted
  <1>27. M \in SUBSET Addr
    BY <1>19
  <1> QED
    BY <1>18, <1>24, <1>25, <1>26, <1>27 DEF IInv, Working

-----------------------------------------------------------------------------
LEMMA Inductive ==
  ASSUME Fitting, IInv, [Next]_vars PROVE IInv'
  <1>1. CASE UNCHANGED vars
    <2>1. TypeOK'
      BY <1>1 DEF IInv, TypeOK, vars
    <2>2. CASE Unused \/ Refused
      BY <1>1, <2>1, <2>2 DEF IInv, Unused, Refused, Blank, vars
    <2>3. ASSUME NEW L \in SUBSET Addr, Working(L) PROVE Working(L)'
      <3>1. Shape(L)' /\ \A a : Parted(a) => Parted(a)'
        BY <1>1, <2>3, SameHeap DEF Working, vars
      <3>2. InMalloc(L)' /\ InFree(L)' /\ Tidy(L)'
        BY <1>1, <2>3, <3>1
        DEF Working, vars, InMalloc, InFree, Returned, Blocks, Apart, Tidy
      <3> QED
        BY <3>1, <3>2 DEF Working
    <2> QED
      BY <2>1, <2>2, <2>3 DEF IInv
  <1>2. ASSUME NEW s \in Sizes, CallMalloc(s) PROVE IInv'
    BY <1>2, CallMallocStep
  <1>3. ASSUME NEW i \in 1 .. Len(live), CallFree(i) PROVE IInv'
    BY <1>3, CallFreeStep DEF Blocks
  <1>4. CASE Inside
    BY <1>4, CheckMagicStep, WalkStep, CarveStep, GrowStep, FindStep, NotFoundStep,
       FoundStep, MergeStep, NextBlockStep, EndFreeStep DEF Inside
  <1> QED
    BY <1>1, <1>2, <1>3, <1>4 DEF Next

-----------------------------------------------------------------------------
(* The invariant holds in every reachable state, for clients whose         *)
(* requests fit.                                                           *)
THEOREM Invariance == ASSUME Fitting PROVE Spec => []IInv
  <1>1. IInv /\ [Next]_vars => IInv'
    BY Inductive
  <1> QED
    BY Initially, <1>1, PTL DEF Spec

(* malloc and free follow pointers only to places where a header can be,   *)
(* and ksbrk never hands out what is not in the heap array.                *)
THEOREM TypeCorrect == ASSUME Fitting PROVE Spec => []TypeOK
  <1>1. IInv => TypeOK
    BY DEF IInv
  <1> QED
    BY <1>1, Invariance, PTL

(* No two blocks that clients hold share a unit, whatever sequence of      *)
(* calls they make, and all of them lie in what ksbrk has handed out.      *)
THEOREM BlocksApart == ASSUME Fitting PROVE Spec => []LiveDisjoint
  <1>1. IInv => LiveDisjoint
    <2> SUFFICES ASSUME IInv PROVE LiveDisjoint
      OBVIOUS
    <2>1. CASE Unused \/ Refused
      BY <2>1 DEF Unused, Refused, Blank, LiveDisjoint
    <2>2. ASSUME NEW L \in SUBSET Addr, Working(L) PROVE LiveDisjoint
      <3>1. TypeOK /\ Held
        BY <2>2 DEF IInv, Working, Shape
      <3>2. ASSUME NEW i \in Blocks, NEW j \in Blocks, i # j
            PROVE  LiveExtent(i) \cap LiveExtent(j) = {}
        <4>1. Apart(live[i].at, live[i].size, live[j].at, live[j].size)
          BY <3>1, <3>2 DEF Held
        <4>2. /\ live[i].at \in Nat /\ live[i].size \in Nat
              /\ live[j].at \in Nat /\ live[j].size \in Nat
          BY <3>1, HeldTyped
        <4> QED
          BY <4>1, <4>2 DEF Apart, LiveExtent, Extent
      <3> QED
        BY <3>1, <3>2 DEF LiveDisjoint, Held, Blocks
    <2> QED
      BY <2>1, <2>2 DEF IInv
  <1> QED
    BY <1>1, Invariance, PTL

(* Between two calls the list is what free and malloc take it for: it goes *)
(* upwards, its blocks have headers and end before the next one begins,    *)
(* and no free block reaches into one that is held.                        *)
THEOREM ListStaysSound == ASSUME Fitting PROVE Spec => []HeapSound
  <1>1. IInv => HeapSound
    <2> SUFFICES ASSUME IInv, header[Heap].magic PROVE ListSound
      BY DEF HeapSound
    <2>1. PICK L \in SUBSET Addr : Working(L)
      BY DEF IInv, Unused, Refused, Blank
    <2>2. TypeOK /\ Shape(L)
      BY <2>1 DEF IInv, Working
    <2>3. Listed = L
      BY <2>2, ListedIsChain
    <2>4. ASSUME NEW a \in L, ~header[a].used, NEW i \in Blocks
          PROVE  Extent(a, header[a].size) \cap LiveExtent(i) = {}
      <3>1. Apart(a, header[a].size, live[i].at, live[i].size)
        BY <2>2, <2>4 DEF Shape, Clear
      <3>2. a \in Nat /\ header[a].size \in Nat
        BY <2>2, Block
      <3>3. live[i].at \in Nat /\ live[i].size \in Nat
        BY <2>2, HeldTyped
      <3> QED
        BY <3>1, <3>2, <3>3 DEF Apart, LiveExtent, Extent
    <2> QED
      BY <2>2, <2>3, <2>4 DEF ListSound, Shape, Chain, Held, Blocks
  <1> QED
    BY <1>1, Invariance, PTL

(* free leaves no two neighbours on the list both free.                    *)
THEOREM NeighboursMerged == ASSUME Fitting PROVE Spec => []Coalesced
  <1>1. IInv => Coalesced
    <2> SUFFICES ASSUME IInv, Idle PROVE \A a \in Listed : Parted(a)
      BY DEF Coalesced, Parted
    <2>1. CASE Unused
      <3> PICK S : S = {}
        OBVIOUS
      <3>1. /\ TypeOK /\ heap_bottom \in S \cup {NULL} /\ S \subseteq Addr
            /\ \A a \in S : header[a].next \in S \cup {NULL}
        BY <2>1 DEF IInv, Unused
      <3>2. Listed \subseteq S
        BY <3>1, ListedWithin
      <3> QED
        BY <3>2
    <2>2. CASE Refused
      <3>1. Listed \subseteq {Heap}
        BY <2>2, ListedWithin DEF IInv, Refused, Blank
      <3> QED
        BY <2>2, <3>1 DEF Refused, Blank, Parted
    <2>3. ASSUME NEW L \in SUBSET Addr, Working(L)
          PROVE  \A a \in Listed : Parted(a)
      <3>1. Listed = L
        BY <2>3, ListedIsChain DEF IInv, Working
      <3> QED
        BY <2>3, <3>1 DEF Working, Tidy, Idle
    <2> QED
      BY <2>1, <2>2, <2>3 DEF IInv
  <1> QED
    BY <1>1, Invariance, PTL
=============================================================================
