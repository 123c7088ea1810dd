----------------------------- MODULE KMemProofs -----------------------------
(***************************************************************************)
(* What holds of the page allocator for every number of flows of control,  *)
(* page size and range of memory, whether kinit2 exists or not.            *)
(***************************************************************************)
EXTENDS KMem, TLAPS

(* Only the boot flow calls the allocator before KInit2.                   *)
BootAlone == ~use_lock => \A q \in Procs : pc[q] # "idle" => q = Boot

(* The page given to kfree belongs to the caller until it is published;    *)
(* just before, its link word is the head of the list.  kalloc has read    *)
(* the head that is still there when it stores its successor.              *)
InTransit ==
  \A q \in Procs :
    /\ pc[q] \in {"scrub", "flock", "link", "head"} => arg[q] \in owned[q]
    /\ pc[q] = "head" => next[arg[q]] = freelist
    /\ pc[q] = "pop" => r[q] = freelist

(* The pages known so far are apart, fit in the range and lie below scan.  *)
Below ==
  /\ VStart <= scan
  /\ \A a \in Known : a + PageSize <= scan

(* The inductive invariant.                                                *)
IInv ==
  /\ TypeOK
  /\ Exclusion
  /\ BootAlone
  /\ InTransit
  /\ NoAliasing
  /\ FreelistSound
  /\ PagesFit
  /\ Below

-----------------------------------------------------------------------------
(* Facts about the list as a sequence: a page at the front, and one off it. *)

LEMMA PushFacts ==
  ASSUME NEW s \in Seq(Addr), NEW e \in Addr
  PROVE  /\ <<e>> \o s \in Seq(Addr)
         /\ Len(<<e>> \o s) = Len(s) + 1
         /\ (<<e>> \o s)[1] = e
         /\ \A i \in 1 .. Len(s) : (<<e>> \o s)[i + 1] = s[i]
         /\ \A i \in 2 .. Len(s) + 1 : (<<e>> \o s)[i] = s[i - 1]
  OBVIOUS

LEMMA PopFacts ==
  ASSUME NEW s \in Seq(Addr), s # <<>>
  PROVE  /\ Tail(s) \in Seq(Addr)
         /\ Len(s) \in Nat \ {0}
         /\ Len(Tail(s)) = Len(s) - 1
         /\ \A i \in 1 .. Len(s) - 1 : Tail(s)[i] = s[i + 1]
  OBVIOUS

(* kinit1's first page does not begin before the range it was given.       *)
LEMMA RoundUp == PGROUNDUP(VStart) \in Nat /\ VStart <= PGROUNDUP(VStart)
  BY KMemAssumption DEF PGROUNDUP

-----------------------------------------------------------------------------
(* After initlock and before the first turn of freerange the list is empty *)
(* and nobody holds a page.                                                *)
THEOREM Initially == Init => IInv
  <1> SUFFICES ASSUME Init PROVE IInv
    OBVIOUS
  <1> USE DEF Init
  <1>1. Free = {} /\ Known = {}
    BY DEF Free, Known
  <1>2. TypeOK
    <2>1. scan \in Nat
      BY RoundUp
    <2>2. next \in [Addr -> Addr \cup {NULL, Junk}]
      OBVIOUS
    <2>3. pc \in [Procs -> Labels] /\ owned \in [Procs -> SUBSET Addr]
      BY DEF Labels
    <2>4. chain \in Seq(Addr)
      OBVIOUS
    <2> QED
      BY <2>1, <2>2, <2>3, <2>4 DEF TypeOK
  <1>3. Exclusion /\ BootAlone /\ InTransit
    BY DEF Exclusion, BootAlone, InTransit, InList
  <1>4. NoAliasing /\ FreelistSound
    BY <1>1 DEF NoAliasing, FreelistSound
  <1>5. PagesFit /\ Below
    BY <1>1, RoundUp DEF PagesFit, Below
  <1> QED
    BY <1>2, <1>3, <1>4, <1>5 DEF IInv

-----------------------------------------------------------------------------
(* Steps that touch neither the list nor the pages: what is left to show   *)
(* is that the flow that moves keeps its place in the protocol.            *)

LEMMA ListUntouched ==
  ASSUME IInv, UNCHANGED <<scan, freelist, next, owned, chain>>
  PROVE  NoAliasing' /\ FreelistSound' /\ PagesFit' /\ Below'
  BY DEF IInv, NoAliasing, FreelistSound, PagesFit, Below, Free, Known

LEMMA KInit2Step == ASSUME IInv, KInit2 PROVE IInv'
  <1> USE DEF IInv, KInit2
  <1>1. TypeOK'
    BY DEF TypeOK
  <1>2. \A q \in Procs : ~use_lock => pc[q] = "idle"
    BY DEF BootAlone
  <1>3. Exclusion' /\ BootAlone' /\ InTransit'
    BY <1>2 DEF Exclusion, BootAlone, InTransit, InList, TypeOK
  <1> QED
    BY <1>1, <1>3, ListUntouched

LEMMA CallKfreeStep ==
  ASSUME IInv, NEW q \in Procs, NEW p \in Addr, CallKfree(q, p) PROVE IInv'
  <1> USE DEF IInv, CallKfree, MayCall, Goto
  <1>1. TypeOK'
    BY DEF TypeOK, Labels
  <1>2. Exclusion' /\ BootAlone' /\ InTransit'
    BY DEF Exclusion, BootAlone, InTransit, InList, TypeOK
  <1> QED
    BY <1>1, <1>2, ListUntouched

LEMMA CallKallocStep ==
  ASSUME IInv, NEW q \in Procs, CallKalloc(q) PROVE IInv'
  <1> USE DEF IInv, CallKalloc, MayCall, Goto
  <1>1. TypeOK'
    BY DEF TypeOK, Labels
  <1>2. Exclusion' /\ BootAlone' /\ InTransit'
    BY DEF Exclusion, BootAlone, InTransit, InList, TypeOK
  <1> QED
    BY <1>1, <1>2, ListUntouched

LEMMA AcquireStep ==
  ASSUME IInv, NEW q \in Procs, Acquire(q) PROVE IInv'
  <1> USE DEF IInv, Acquire, LockFree, Goto
  <1>1. TypeOK'
    BY DEF TypeOK, Labels
  <1>2. \A p \in Procs : pc[p] \notin InList
    BY DEF Exclusion, BootAlone, InList, TypeOK
  <1>3. Exclusion' /\ BootAlone' /\ InTransit'
    BY <1>2 DEF Exclusion, BootAlone, InTransit, InList, TypeOK
  <1> QED
    BY <1>1, <1>3, ListUntouched

LEMMA ReadHeadStep ==
  ASSUME IInv, NEW q \in Procs, ReadHead(q) PROVE IInv'
  <1> USE DEF IInv, ReadHead, Goto
  <1>1. TypeOK'
    BY DEF TypeOK, Labels
  <1>2. Exclusion' /\ BootAlone' /\ InTransit'
    BY DEF Exclusion, BootAlone, InTransit, InList, TypeOK
  <1> QED
    BY <1>1, <1>2, ListUntouched

LEMMA PopNothingStep ==
  ASSUME IInv, NEW q \in Procs, PopNothing(q) PROVE IInv'
  <1> USE DEF IInv, PopNothing, Goto
  <1>1. TypeOK'
    BY DEF TypeOK, Labels
  <1>2. Exclusion' /\ BootAlone' /\ InTransit'
    BY DEF Exclusion, BootAlone, InTransit, InList, TypeOK
  <1> QED
    BY <1>1, <1>2, ListUntouched

LEMMA ReleaseStep ==
  ASSUME IInv, NEW q \in Procs, Release(q) PROVE IInv'
  <1> USE DEF IInv, Release, Goto
  <1>1. TypeOK'
    BY DEF TypeOK, Labels
  <1>2. Exclusion' /\ BootAlone' /\ InTransit'
    BY DEF Exclusion, BootAlone, InTransit, InList, TypeOK
  <1> QED
    BY <1>1, <1>2, ListUntouched

-----------------------------------------------------------------------------
(* Steps that change the list or the pages.                                *)

(* freerange hands over a page that lies past all known ones.              *)
LEMMA FreeRangeStep == ASSUME IInv, FreeRange PROVE IInv'
  <1> USE DEF IInv, FreeRange, Goto
  <1>1. scan \in Addr /\ scan' = scan + PageSize
    BY KMemAssumption DEF TypeOK, Below, Scanned, Addr
  <1>2. Known' = Known \cup {scan} /\ Free' = Free
    BY KMemAssumption DEF Known, Free, TypeOK
  <1>3. scan \notin Known
    BY KMemAssumption DEF Below, TypeOK
  <1>4. TypeOK'
    BY <1>1, KMemAssumption DEF TypeOK, Labels, Addr
  <1>5. Exclusion' /\ BootAlone' /\ InTransit'
    BY KMemAssumption DEF Exclusion, BootAlone, InTransit, InList, TypeOK
  <1>6. NoAliasing'
    BY <1>2, <1>3 DEF NoAliasing, Known, TypeOK
  <1>7. FreelistSound'
    BY DEF FreelistSound
  <1>8. \A a \in Known : a \in Nat
    <2>1. chain \in Seq(Addr) /\ \A q \in Procs : owned[q] \subseteq Addr
      BY DEF TypeOK
    <2>2. Addr \subseteq Nat
      BY KMemAssumption DEF Addr
    <2>3. Free \subseteq Addr
      BY <2>1 DEF Free
    <2> QED
      BY <2>1, <2>2, <2>3 DEF Known
  <1>9. PagesFit' /\ Below'
    BY <1>1, <1>2, <1>8, KMemAssumption DEF PagesFit, Below, Scanned, TypeOK, Addr
  <1> QED
    BY <1>4, <1>5, <1>6, <1>7, <1>9

(* A write to a page somebody holds does not touch the list.               *)
LEMMA WriteOwnPage ==
  ASSUME IInv, NEW q \in Procs, NEW v, arg[q] \in owned[q],
         next' = [next EXCEPT ![arg[q]] = v],
         UNCHANGED <<scan, freelist, owned, chain>>
  PROVE  NoAliasing' /\ FreelistSound' /\ PagesFit' /\ Below'
  <1> USE DEF IInv
  <1>1. NoAliasing' /\ PagesFit' /\ Below'
    BY DEF NoAliasing, PagesFit, Below, Free, Known
  <1>2. \A i \in 1 .. Len(chain) : chain[i] \in Addr /\ chain[i] # arg[q]
    BY DEF NoAliasing, Free, TypeOK
  <1>3. FreelistSound'
    BY <1>2 DEF FreelistSound, TypeOK
  <1> QED
    BY <1>1, <1>3

LEMMA ScrubStep ==
  ASSUME IInv, NEW q \in Procs, Scrub(q) PROVE IInv'
  <1> USE DEF IInv, Scrub, Goto
  <1>1. TypeOK'
    BY DEF TypeOK, Labels
  <1>2. Exclusion' /\ BootAlone'
    BY DEF Exclusion, BootAlone, InList, TypeOK
  <1>3. \A p \in Procs \ {q} : arg[p] \in owned[p] => arg[p] # arg[q]
    BY DEF InTransit, NoAliasing
  <1>4. InTransit'
    BY <1>3 DEF InTransit, TypeOK
  <1> QED
    BY <1>1, <1>2, <1>4, WriteOwnPage DEF InTransit

LEMMA LinkStep ==
  ASSUME IInv, NEW q \in Procs, Link(q) PROVE IInv'
  <1> USE DEF IInv, Link, LinkWord, Goto
  <1>1. TypeOK'
    BY DEF TypeOK, Labels
  <1>2. Exclusion' /\ BootAlone'
    BY DEF Exclusion, BootAlone, InList, TypeOK
  <1>3. arg[q] \in Addr
    BY DEF InTransit, TypeOK
  <1>4. InTransit'
    BY <1>3 DEF InTransit, Exclusion, InList, TypeOK
  <1> QED
    BY <1>1, <1>2, <1>4, WriteOwnPage DEF InTransit

(* What the two stores to kmem.freelist do to the set of free pages.       *)

LEMMA PublishFree ==
  ASSUME IInv, NEW q \in Procs, Publish(q)
  PROVE  Free' = Free \cup {arg[q]}
  <1> DEFINE p == arg[q]
  <1>1. /\ Len(chain) \in Nat /\ Len(chain') = Len(chain) + 1
        /\ chain'[1] = p
        /\ \A i \in 1 .. Len(chain) : chain'[i + 1] = chain[i]
        /\ \A i \in 2 .. Len(chain) + 1 : chain'[i] = chain[i - 1]
    BY PushFacts DEF IInv, Publish, InTransit, TypeOK
  <1>2. ASSUME NEW x \in Free PROVE x \in Free'
    <2>1. PICK i \in 1 .. Len(chain) : x = chain[i]
      BY DEF Free
    <2>2. i + 1 \in 1 .. Len(chain') /\ x = chain'[i + 1]
      BY <1>1, <2>1
    <2> QED
      BY <2>2 DEF Free
  <1>3. p \in Free'
    BY <1>1 DEF Free
  <1>4. ASSUME NEW x \in Free', x # p PROVE x \in Free
    <2>1. PICK i \in 1 .. Len(chain') : x = chain'[i]
      BY DEF Free
    <2>2. i - 1 \in 1 .. Len(chain) /\ x = chain[i - 1]
      BY <1>1, <1>4, <2>1
    <2> QED
      BY <2>2 DEF Free
  <1> QED
    BY <1>2, <1>3, <1>4

LEMMA PopFree ==
  ASSUME IInv, NEW q \in Procs, Pop(q)
  PROVE  r[q] \in Addr /\ Free = Free' \cup {r[q]} /\ r[q] \notin Free'
  <1> DEFINE p == r[q]
  <1>1. chain # <<>> /\ p = chain[1] /\ p \in Addr
    BY DEF IInv, Pop, InTransit, FreelistSound, TypeOK
  <1>2. /\ Len(chain) \in Nat \ {0} /\ Len(chain') = Len(chain) - 1
        /\ \A i \in 1 .. Len(chain) - 1 : chain'[i] = chain[i + 1]
        /\ \A i, j \in 1 .. Len(chain) : chain[i] = chain[j] => i = j
    BY <1>1, PopFacts DEF IInv, Pop, TypeOK, NoAliasing
  <1>3. ASSUME NEW x \in Free' PROVE x \in Free /\ x # p
    <2>1. PICK i \in 1 .. Len(chain') : x = chain'[i]
      BY DEF Free
    <2>2. i + 1 \in 1 .. Len(chain) /\ i + 1 # 1 /\ x = chain[i + 1]
      BY <1>2, <2>1
    <2> QED
      BY <1>1, <1>2, <2>2 DEF Free
  <1>4. p \in Free
    BY <1>1, <1>2 DEF Free
  <1>5. ASSUME NEW x \in Free, x # p PROVE x \in Free'
    <2>1. PICK i \in 1 .. Len(chain) : x = chain[i]
      BY DEF Free
    <2>2. i - 1 \in 1 .. Len(chain') /\ x = chain'[i - 1]
      BY <1>1, <1>2, <1>5, <2>1
    <2> QED
      BY <2>2 DEF Free
  <1> QED
    BY <1>1, <1>3, <1>4, <1>5

LEMMA PublishStep ==
  ASSUME IInv, NEW q \in Procs, Publish(q) PROVE IInv'
  <1> DEFINE p == arg[q]
  <1>1. p \in Addr /\ p \in owned[q] /\ next[p] = freelist
    BY DEF IInv, Publish, InTransit, TypeOK
  <1>2. /\ chain \in Seq(Addr) /\ chain' \in Seq(Addr)
        /\ Len(chain) \in Nat /\ Len(chain') = Len(chain) + 1
        /\ chain'[1] = p
        /\ \A i \in 1 .. Len(chain) : chain'[i + 1] = chain[i]
        /\ \A i \in 2 .. Len(chain) + 1 : chain'[i] = chain[i - 1]
    BY <1>1, PushFacts DEF IInv, Publish, TypeOK
  <1>3. /\ owned' = [owned EXCEPT ![q] = owned[q] \ {p}]
        /\ freelist' = p /\ next' = next /\ scan' = scan
        /\ owned \in [Procs -> SUBSET Addr]
    BY DEF Publish, IInv, TypeOK
  <1>4. /\ \A i, j \in 1 .. Len(chain) : chain[i] = chain[j] => i = j
        /\ \A q1 \in Procs : owned[q1] \cap Free = {}
        /\ \A q1, q2 \in Procs : q1 # q2 => owned[q1] \cap owned[q2] = {}
    BY DEF IInv, NoAliasing
  <1>5. Free' = Free \cup {p}
    BY PublishFree
  <1>6. Known' = Known
    BY <1>1, <1>3, <1>5 DEF Known
  <1>7. TypeOK'
    BY <1>1, <1>2 DEF IInv, Publish, Goto, TypeOK, Labels
  <1>8. Exclusion' /\ BootAlone'
    BY DEF IInv, Publish, Goto, Exclusion, BootAlone, InList, TypeOK
  <1>9. InTransit'
    BY DEF IInv, Publish, Goto, InTransit, Exclusion, InList, TypeOK
  <1>10. NoAliasing'
    <2>1. \A i \in 1 .. Len(chain) : chain[i] # p
      BY <1>1, <1>4 DEF Free
    <2>2. \A i, j \in 1 .. Len(chain') : chain'[i] = chain'[j] => i = j
      <3> SUFFICES ASSUME NEW i \in 1 .. Len(chain'), NEW j \in 1 .. Len(chain'),
                          chain'[i] = chain'[j], i < j
                   PROVE  FALSE
        BY <1>2
      <3>1. j - 1 \in 1 .. Len(chain) /\ chain'[j] = chain[j - 1]
        BY <1>2
      <3>2. CASE i = 1
        BY <1>2, <2>1, <3>1, <3>2
      <3>3. CASE i # 1
        <4>1. i - 1 \in 1 .. Len(chain) /\ chain'[i] = chain[i - 1]
          BY <1>2, <3>3
        <4> QED
          BY <1>4, <3>1, <4>1
      <3> QED
        BY <3>2, <3>3
    <2>3. \A q1, q2 \in Procs : q1 # q2 => owned'[q1] \cap owned'[q2] = {}
      BY <1>3, <1>4
    <2>4. \A q1 \in Procs : owned'[q1] \cap Free' = {}
      BY <1>1, <1>3, <1>4, <1>5
    <2> QED
      BY <2>2, <2>3, <2>4 DEF NoAliasing
  <1>11. FreelistSound'
    <2>1. chain' # <<>> /\ freelist' = chain'[1]
      BY <1>2, <1>3
    <2>2. next'[chain'[1]] = (IF 1 = Len(chain') THEN NULL ELSE chain'[2])
      BY <1>1, <1>2, <1>3 DEF IInv, FreelistSound
    <2>3. \A i \in 2 .. Len(chain') :
            next'[chain'[i]] = (IF i = Len(chain') THEN NULL ELSE chain'[i + 1])
      BY <1>2, <1>3 DEF IInv, FreelistSound
    <2> QED
      BY <1>2, <2>1, <2>2, <2>3 DEF FreelistSound
  <1>12. PagesFit' /\ Below'
    BY <1>3, <1>6 DEF IInv, PagesFit, Below
  <1> QED
    BY <1>7, <1>8, <1>9, <1>10, <1>11, <1>12 DEF IInv

LEMMA PopStep ==
  ASSUME IInv, NEW q \in Procs, Pop(q) PROVE IInv'
  <1> DEFINE p == r[q]
  <1>1. chain # <<>> /\ p = chain[1] /\ p \in Addr
    BY DEF IInv, Pop, InTransit, FreelistSound, TypeOK
  <1>2. /\ chain \in Seq(Addr) /\ chain' \in Seq(Addr)
        /\ Len(chain) \in Nat \ {0} /\ Len(chain') = Len(chain) - 1
        /\ \A i \in 1 .. Len(chain) - 1 : chain'[i] = chain[i + 1]
    BY <1>1, PopFacts DEF IInv, Pop, TypeOK
  <1>3. /\ owned' = [owned EXCEPT ![q] = owned[q] \cup {p}]
        /\ freelist' = next[p] /\ next' = next /\ scan' = scan
        /\ owned \in [Procs -> SUBSET Addr]
    BY DEF Pop, AfterHead, IInv, TypeOK
  <1>4. /\ \A i, j \in 1 .. Len(chain) : chain[i] = chain[j] => i = j
        /\ \A q1 \in Procs : owned[q1] \cap Free = {}
        /\ \A q1, q2 \in Procs : q1 # q2 => owned[q1] \cap owned[q2] = {}
        /\ \A i \in 1 .. Len(chain) :
             next[chain[i]] = (IF i = Len(chain) THEN NULL ELSE chain[i + 1])
    BY DEF IInv, NoAliasing, FreelistSound
  <1>5. Free = Free' \cup {p} /\ p \notin Free'
    BY PopFree
  <1>6. Known' = Known
    BY <1>3, <1>5 DEF Known
  <1>7. freelist' = (IF chain' = <<>> THEN NULL ELSE chain'[1])
    <2>1. next[p] = IF 1 = Len(chain) THEN NULL ELSE chain[1 + 1]
      BY <1>1, <1>2, <1>4
    <2>2. CASE Len(chain) = 1
      BY <1>2, <1>3, <2>1, <2>2
    <2>3. CASE Len(chain) # 1
      BY <1>2, <1>3, <2>1, <2>3
    <2> QED
      BY <2>2, <2>3
  <1>8. TypeOK'
    <2>1. freelist' \in Addr \cup {NULL}
      BY <1>2, <1>7
    <2> QED
      BY <1>1, <1>2, <2>1 DEF IInv, Pop, Goto, TypeOK, Labels
  <1>9. Exclusion' /\ BootAlone'
    BY DEF IInv, Pop, Goto, Exclusion, BootAlone, InList, TypeOK
  <1>10. InTransit'
    BY DEF IInv, Pop, Goto, InTransit, Exclusion, InList, TypeOK
  <1>11. NoAliasing'
    <2>1. \A i, j \in 1 .. Len(chain') : chain'[i] = chain'[j] => i = j
      BY <1>2, <1>4
    <2>2. \A q1 \in Procs : owned[q1] \cap Free' = {} /\ p \notin owned[q1]
      BY <1>4, <1>5
    <2>3. \A q1, q2 \in Procs : q1 # q2 => owned'[q1] \cap owned'[q2] = {}
      BY <1>3, <1>4, <2>2
    <2>4. \A q1 \in Procs : owned'[q1] \cap Free' = {}
      BY <1>3, <1>5, <2>2
    <2> QED
      BY <2>1, <2>3, <2>4 DEF NoAliasing
  <1>12. FreelistSound'
    <2>1. ASSUME NEW i \in 1 .. Len(chain')
          PROVE  next'[chain'[i]] = (IF i = Len(chain') THEN NULL ELSE chain'[i + 1])
      <3>1. i + 1 \in 1 .. Len(chain) /\ chain'[i] = chain[i + 1]
        BY <1>2
      <3>2. next[chain[i + 1]] =
              (IF i + 1 = Len(chain) THEN NULL ELSE chain[(i + 1) + 1])
        BY <1>4, <3>1
      <3> QED
        BY <1>2, <1>3, <3>1, <3>2
    <2> QED
      BY <1>7, <2>1 DEF FreelistSound
  <1>13. PagesFit' /\ Below'
    BY <1>3, <1>6 DEF IInv, PagesFit, Below
  <1> QED
    BY <1>8, <1>9, <1>10, <1>11, <1>12, <1>13 DEF IInv

-----------------------------------------------------------------------------
(* Every step of Next keeps the inductive invariant.                       *)
LEMMA StutterStep == ASSUME IInv, UNCHANGED vars PROVE IInv'
  BY ListUntouched
  DEF IInv, vars, TypeOK, Exclusion, BootAlone, InTransit

LEMMA Inductive == ASSUME IInv, [Next]_vars PROVE IInv'
  <1>1. CASE FreeRange
    BY <1>1, FreeRangeStep
  <1>2. CASE KInit2
    BY <1>2, KInit2Step
  <1>3. CASE \E q \in Procs : Step(q)
    <2> PICK q \in Procs : Step(q)
      BY <1>3
    <2>1. CASE CallKalloc(q)
      BY <2>1, CallKallocStep
    <2>2. CASE \E p \in Addr : CallKfree(q, p)
      BY <2>2, CallKfreeStep
    <2>3. CASE Scrub(q)
      BY <2>3, ScrubStep
    <2>4. CASE Acquire(q)
      BY <2>4, AcquireStep
    <2>5. CASE Link(q)
      BY <2>5, LinkStep
    <2>6. CASE Publish(q)
      BY <2>6, PublishStep
    <2>7. CASE ReadHead(q)
      BY <2>7, ReadHeadStep
    <2>8. CASE Pop(q)
      BY <2>8, PopStep
    <2>9. CASE PopNothing(q)
      BY <2>9, PopNothingStep
    <2>10. CASE Release(q)
      BY <2>10, ReleaseStep
    <2> QED
      BY <2>1, <2>2, <2>3, <2>4, <2>5, <2>6, <2>7, <2>8, <2>9, <2>10 DEF Step
  <1>4. CASE UNCHANGED vars
    BY <1>4, StutterStep
  <1> QED
    BY <1>1, <1>2, <1>3, <1>4 DEF Next

(* The inductive invariant holds of every behaviour of kalloc and kfree.   *)
THEOREM Invariance == Spec => []IInv
  BY Initially, Inductive, PTL DEF Spec

(* Every variable of the allocator keeps its type; for the free list that  *)
(* says the link word kalloc follows is a page or NULL, never the pattern  *)
(* that kfree fills pages with.                                            *)
THEOREM TypeCorrect == Spec => []TypeOK
  <1>1. IInv => TypeOK
    BY DEF IInv
  <1> QED
    BY Invariance, <1>1, PTL

(* One flow at a time works on the list: kmem.lock, and the rule that the  *)
(* boot flow is alone until it is in use, are enough.                      *)
THEOREM MutualExclusion == Spec => []Exclusion
  <1>1. IInv => Exclusion
    BY DEF IInv
  <1> QED
    BY Invariance, <1>1, PTL

(* kalloc never hands out a page that somebody holds or that is free twice. *)
THEOREM PagesNeverAlias == Spec => []NoAliasing
  <1>1. IInv => NoAliasing
    BY DEF IInv
  <1> QED
    BY Invariance, <1>1, PTL

(* Pages lie within the range given to kinit1 and do not overlap, whatever *)
(* the page size and wherever the range begins and ends.                   *)
THEOREM PagesFitRange == Spec => []PagesFit
  <1>1. IInv => PagesFit
    BY DEF IInv
  <1> QED
    BY Invariance, <1>1, PTL

(* The link words always spell out the free pages, up to NULL.             *)
THEOREM FreelistCorrect == Spec => []FreelistSound
  <1>1. IInv => FreelistSound
    BY DEF IInv
  <1> QED
    BY Invariance, <1>1, PTL

-----------------------------------------------------------------------------
(* No page of the range is left out.  The arithmetic of multiples first.   *)

LEMMA DivMod ==
  ASSUME NEW a \in Nat
  PROVE  /\ a \div PageSize \in Nat /\ a % PageSize \in 0 .. PageSize - 1
         /\ a = PageSize * (a \div PageSize) + (a % PageSize)
  BY KMemAssumption

LEMMA NextMultiple ==
  ASSUME NEW i \in Nat, NEW j \in Nat,
         PageSize * i <= PageSize * j, PageSize * j < PageSize * i + PageSize
  PROVE  i = j
  <1>1. CASE i < j
    <2>1. j - i - 1 \in Nat
      BY <1>1
    <2>2. PageSize * (j - i - 1) \in Nat
      BY <2>1, KMemAssumption
    <2>3. PageSize * (j - i - 1) = PageSize * j - PageSize * i - PageSize
      BY KMemAssumption
    <2> QED
      BY <2>2, <2>3, KMemAssumption
  <1>2. CASE j < i
    <2>1. i - j - 1 \in Nat
      BY <1>2
    <2>2. PageSize * (i - j - 1) \in Nat
      BY <2>1, KMemAssumption
    <2>3. PageSize * (i - j - 1) = PageSize * i - PageSize * j - PageSize
      BY KMemAssumption
    <2> QED
      BY <2>2, <2>3, KMemAssumption
  <1> QED
    BY <1>1, <1>2

(* A product with the page size leaves no remainder, and of two multiples  *)
(* less than a page apart there is one.                                    *)
LEMMA ProductIsMultiple ==
  ASSUME NEW n \in Nat PROVE PageSize * n \in Nat /\ (PageSize * n) % PageSize = 0
  <1> DEFINE a == PageSize * n
  <1>1. a \in Nat
    BY KMemAssumption
  <1>2. /\ a \div PageSize \in Nat /\ a % PageSize \in 0 .. PageSize - 1
        /\ a = PageSize * (a \div PageSize) + (a % PageSize)
    BY <1>1, DivMod
  <1> DEFINE d == a \div PageSize
             m == a % PageSize
  <1>3. /\ d \in Nat /\ PageSize * d \in Nat /\ PageSize * n \in Nat
        /\ PageSize * n = PageSize * d + m /\ m \in 0 .. PageSize - 1
    BY <1>1, <1>2, KMemAssumption
  <1> HIDE DEF a, d, m
  <1>4. PageSize * d <= PageSize * n /\ PageSize * n < PageSize * d + PageSize
    BY <1>3, KMemAssumption
  <1>5. d = n
    BY <1>3, <1>4, NextMultiple
  <1>6. m = 0
    BY <1>3, <1>5, KMemAssumption
  <1> QED
    BY <1>1, <1>6 DEF a, m

LEMMA OneMultiple ==
  ASSUME NEW a \in Nat, NEW b \in Nat, a % PageSize = 0, b % PageSize = 0,
         a <= b, b < a + PageSize
  PROVE  a = b
  <1>1. /\ a \div PageSize \in Nat /\ a = PageSize * (a \div PageSize)
        /\ b \div PageSize \in Nat /\ b = PageSize * (b \div PageSize)
    BY DivMod, KMemAssumption
  <1>2. a \div PageSize = b \div PageSize
    BY <1>1, NextMultiple
  <1> QED
    BY <1>1, <1>2

LEMMA NextPage ==
  ASSUME NEW a \in Nat, a % PageSize = 0 PROVE (a + PageSize) % PageSize = 0
  <1>1. a \div PageSize + 1 \in Nat /\ a = PageSize * (a \div PageSize)
    BY DivMod, KMemAssumption
  <1>2. a + PageSize = PageSize * (a \div PageSize + 1)
    BY <1>1, KMemAssumption
  <1> QED
    BY <1>1, <1>2, ProductIsMultiple

(* PGROUNDUP gives the first page of the range.                            *)
LEMMA FirstPage ==
  /\ PGROUNDUP(VStart) % PageSize = 0
  /\ \A a \in WholePages : PGROUNDUP(VStart) <= a
  <1> DEFINE e == VStart + PageSize - 1
             f == PGROUNDUP(VStart)
  <1>1. e \in Nat /\ f \in Nat /\ f = e - (e % PageSize)
    BY RoundUp, KMemAssumption DEF PGROUNDUP
  <1>2. e \div PageSize \in Nat /\ f = PageSize * (e \div PageSize)
    BY <1>1, DivMod, KMemAssumption
  <1>3. f % PageSize = 0
    BY <1>2, ProductIsMultiple
  <1>4. e % PageSize \in Nat
    BY <1>1, DivMod
  <1>5. ASSUME NEW a \in WholePages, a < f PROVE FALSE
    <2>1. a \in Nat /\ a % PageSize = 0 /\ VStart <= a
      BY KMemAssumption DEF WholePages
    <2>2. f < a + PageSize
      BY <1>1, <1>4, <2>1, KMemAssumption
    <2> QED
      BY <1>1, <1>3, <1>5, <2>1, <2>2, OneMultiple
  <1> QED
    BY <1>1, <1>3, <1>5, KMemAssumption DEF WholePages

(* Every whole page below scan is in the system, and no other.             *)
Whole ==
  /\ scan % PageSize = 0
  /\ Known \subseteq WholePages
  /\ \A a \in WholePages : a < scan => a \in Known

LEMMA InitiallyWhole == Init => Whole
  <1> SUFFICES ASSUME Init PROVE Whole
    OBVIOUS
  <1>1. Known = {} /\ scan = PGROUNDUP(VStart)
    BY DEF Init, Known, Free
  <1> QED
    BY <1>1, FirstPage, RoundUp, KMemAssumption DEF Whole, WholePages

(* Pages change hands within the system.                                   *)
LEMMA SameKnown ==
  ASSUME IInv, [Next]_vars, ~FreeRange PROVE Known' = Known /\ scan' = scan
  <1>1. ASSUME NEW q \in Procs, Publish(q) PROVE Known' = Known /\ scan' = scan
    <2>1. Free' = Free \cup {arg[q]} /\ arg[q] \in owned[q]
      BY <1>1, PublishFree DEF IInv, InTransit, Publish
    <2>2. owned' = [owned EXCEPT ![q] = owned[q] \ {arg[q]}] /\ scan' = scan
      BY <1>1 DEF Publish
    <2>3. owned \in [Procs -> SUBSET Addr]
      BY DEF IInv, TypeOK
    <2> QED
      BY <2>1, <2>2, <2>3 DEF Known
  <1>2. ASSUME NEW q \in Procs, Pop(q) PROVE Known' = Known /\ scan' = scan
    <2>1. Free = Free' \cup {r[q]}
      BY <1>2, PopFree
    <2>2. owned' = [owned EXCEPT ![q] = owned[q] \cup {r[q]}] /\ scan' = scan
      BY <1>2 DEF Pop
    <2>3. owned \in [Procs -> SUBSET Addr]
      BY DEF IInv, TypeOK
    <2> QED
      BY <2>1, <2>2, <2>3 DEF Known
  <1>3. CASE UNCHANGED <<chain, owned, scan>>
    BY <1>3 DEF Known, Free
  <1>4. \/ \E q \in Procs : Publish(q) \/ Pop(q)
        \/ UNCHANGED <<chain, owned, scan>>
    BY DEF Next, Step, vars, KInit2, CallKalloc, CallKfree, Scrub, Acquire, Link,
           ReadHead, PopNothing, Release
  <1> QED
    BY <1>1, <1>2, <1>3, <1>4

LEMMA WholeStep == ASSUME IInv, Whole, [Next]_vars PROVE Whole'
  <1>1. CASE FreeRange
    <2>1. /\ scan \in Nat /\ VStart <= scan /\ scan + PageSize <= VEnd
          /\ scan' = scan + PageSize
      BY <1>1, KMemAssumption DEF IInv, TypeOK, Below, FreeRange, Scanned
    <2>2. Known' = Known \cup {scan}
      BY <1>1, KMemAssumption DEF FreeRange, Known, Free, IInv, TypeOK
    <2>3. scan \in WholePages
      BY <2>1, KMemAssumption DEF Whole, WholePages
    <2>4. scan' % PageSize = 0
      BY <2>1, NextPage DEF Whole
    <2>5. ASSUME NEW a \in WholePages, a < scan' PROVE a \in Known'
      <3>1. a \in Nat /\ a % PageSize = 0
        BY KMemAssumption DEF WholePages
      <3>2. CASE a < scan
        BY <2>2, <3>2 DEF Whole
      <3>3. CASE scan <= a
        <4>1. a = scan
          BY <2>1, <2>5, <3>1, <3>3, OneMultiple DEF Whole
        <4> QED
          BY <2>2, <4>1
      <3> QED
        BY <2>1, <3>1, <3>2, <3>3
    <2> QED
      BY <2>2, <2>3, <2>4, <2>5 DEF Whole
  <1>2. CASE ~FreeRange
    BY <1>2, SameKnown DEF Whole
  <1> QED
    BY <1>1, <1>2

(* freerange finds every whole page of the range, whatever the page size   *)
(* and wherever the range begins and ends, and no sequence of kalloc and   *)
(* kfree by any number of flows loses one or brings in another.            *)
THEOREM EveryPageKept == Spec => []NothingLost
  <1>1. IInv /\ Whole => NothingLost
    <2> SUFFICES ASSUME IInv, Whole, Scanned PROVE WholePages \subseteq Known
      BY DEF NothingLost, Whole
    <2>1. \A a \in WholePages : a \in Nat /\ a + PageSize <= VEnd
      BY KMemAssumption DEF WholePages
    <2>2. scan \in Nat /\ scan + PageSize > VEnd
      BY DEF IInv, TypeOK, Scanned
    <2>3. \A a \in WholePages : a < scan
      BY <2>1, <2>2, KMemAssumption
    <2> QED
      BY <2>3 DEF Whole
  <1>2. IInv /\ Whole /\ [Next]_vars => Whole'
    BY WholeStep
  <1> QED
    BY InitiallyWhole, Invariance, <1>1, <1>2, PTL DEF Spec

-----------------------------------------------------------------------------
(* Refinement of PagePool.                                                 *)

LEMMA PoolInit == Init => Pool!Init
  BY DEF Init, Pool!Init, Free

LEMMA PoolStep == ASSUME IInv, IInv', [Next]_vars PROVE [Pool!Next]_(Pool!vars)
  <1>1. CASE FreeRange
    <2>1. scan \in Addr /\ scan \notin Known
      BY <1>1, KMemAssumption DEF IInv, FreeRange, TypeOK, Below, Scanned, Addr
    <2>2. /\ owned' = [owned EXCEPT ![Boot] = owned[Boot] \cup {scan}]
          /\ Free' = Free /\ ret' = ret
      BY <1>1 DEF FreeRange, Free
    <2>3. Pool!Donate(Boot, scan)
      BY <2>1, <2>2 DEF Pool!Donate, Known
    <2> QED
      BY <2>1, <2>3, KMemAssumption DEF Pool!Next
  <1>2. CASE \E q \in Procs : Publish(q)
    <2> PICK q \in Procs : Publish(q)
      BY <1>2
    <2>1. arg[q] \in Addr /\ arg[q] \in owned[q]
      BY DEF IInv, Publish, InTransit, TypeOK
    <2>2. Free' = Free \cup {arg[q]}
      BY PublishFree
    <2>3. Pool!Give(q, arg[q])
      BY <2>1, <2>2 DEF Publish, Pool!Give
    <2> QED
      BY <2>1, <2>3 DEF Pool!Next
  <1>3. CASE \E q \in Procs : Pop(q)
    <2> PICK q \in Procs : Pop(q)
      BY <1>3
    <2>1. Free = Free' \cup {r[q]} /\ r[q] \notin Free' /\ r[q] \in Addr
      BY PopFree
    <2>2. Pool!Take(q, r[q])
      BY <2>1 DEF Pop, Pool!Take
    <2> QED
      BY <2>1, <2>2 DEF Pool!Next
  <1>4. CASE \E q \in Procs : PopNothing(q)
    <2> PICK q \in Procs : PopNothing(q)
      BY <1>4
    <2>1. chain = <<>>
      <3>1. freelist = NULL
        BY DEF IInv, InTransit, PopNothing
      <3>2. chain # <<>> => chain[1] \in Addr
        BY DEF IInv, TypeOK
      <3> QED
        BY <3>1, <3>2, KMemAssumption DEF IInv, FreelistSound, NULL, Addr
    <2>2. Free = {} /\ Free' = Free
      BY <2>1 DEF Free, PopNothing
    <2>3. Pool!Fail(q)
      BY <2>2 DEF PopNothing, Pool!Fail
    <2> QED
      BY <2>3 DEF Pool!Next
  <1>5. CASE UNCHANGED <<chain, owned, ret>>
    BY <1>5 DEF Pool!vars, Free
  <1>6. [Next]_vars =>
          \/ FreeRange \/ \E q \in Procs : Publish(q) \/ Pop(q) \/ PopNothing(q)
          \/ UNCHANGED <<chain, owned, ret>>
    BY DEF Next, Step, vars, KInit2, CallKalloc, CallKfree, Scrub, Acquire, Link,
           ReadHead, Release
  <1> QED
    BY <1>1, <1>2, <1>3, <1>4, <1>5, <1>6

(* The linked list under its lock implements the abstract pool: every step *)
(* of kalloc and kfree is invisible, or the pool's own.                    *)
THEOREM Refinement == Spec => ImplementsPool
  <1>1. Spec => Pool!Init /\ [][Pool!Next]_(Pool!vars)
    BY PoolInit, PoolStep, Invariance, PTL DEF Spec
  <1> QED
    BY <1>1 DEF ImplementsPool, Pool!Spec
=============================================================================
