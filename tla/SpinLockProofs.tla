--------------------------- MODULE SpinLockProofs ---------------------------
(***************************************************************************)
(* Mutual exclusion of acquire and release for every number of CPUs, locks *)
(* and frames, and the absence of self-deadlock as long as a frame holds   *)
(* one lock at a time.                                                     *)
(***************************************************************************)
EXTENDS SpinLock, FiniteSetTheorems, SequenceTheorems, TLAPS

Frames(c) == 1 .. Depth(c)
Held(c, i) == stack[c][i].held

(* Mutual exclusion, said of frames as indices into a stack.               *)
Exclusive ==
  /\ \A c, d \in CPUs : \A i \in Frames(c), j \in Frames(d) :
       Held(c, i) \cap Held(d, j) # {} => c = d /\ i = j
  /\ \A k \in Locks :
       locked[k] <=> \E c \in CPUs : \E i \in Frames(c) : k \in Held(c, i)

(* A release is in progress only for a lock its frame holds.               *)
ReleasesOwn ==
  \A c \in CPUs : \A i \in Frames(c) :
    stack[c][i].at = "store" => stack[c][i].lk \in Held(c, i)

Bounded == \A c \in CPUs : Depth(c) <= MaxDepth

IInv == TypeOK /\ Bounded /\ ReleasesOwn /\ Exclusive

-----------------------------------------------------------------------------
(* The three ways a step changes a stack.                                  *)

LEMMA TopFacts ==
  ASSUME TypeOK, NEW c \in CPUs
  PROVE  Depth(c) \in Nat \ {0} /\ Depth(c) \in Frames(c) /\ Top(c) \in Frame
  BY DEF TypeOK, Depth, Frames, Top

LEMMA RunFacts ==
  ASSUME TypeOK, NEW c \in CPUs, NEW f \in Frame, Run(c, f)
  PROVE  /\ stack' \in [CPUs -> Seq(Frame)]
         /\ \A d \in CPUs : stack'[d] # <<>>
         /\ \A d \in CPUs : Depth(d)' = Depth(d) /\ Frames(d)' = Frames(d)
         /\ \A d \in CPUs : \A i \in Frames(d) :
              stack'[d][i] = IF d = c /\ i = Depth(c) THEN f ELSE stack[d][i]
  <1>1. /\ stack \in [CPUs -> Seq(Frame)] /\ Depth(c) \in 1 .. Len(stack[c])
        /\ \A d \in CPUs : stack[d] # <<>>
    BY DEF TypeOK, Depth
  <1>2. stack' = [stack EXCEPT ![c] = [stack[c] EXCEPT ![Depth(c)] = f]]
    BY DEF Run
  <1>3. /\ [stack[c] EXCEPT ![Depth(c)] = f] \in Seq(Frame)
        /\ Len([stack[c] EXCEPT ![Depth(c)] = f]) = Len(stack[c])
        /\ \A i \in 1 .. Len(stack[c]) :
             [stack[c] EXCEPT ![Depth(c)] = f][i] =
               IF i = Depth(c) THEN f ELSE stack[c][i]
    BY <1>1
  <1>4. \A d \in CPUs : Len(stack'[d]) = Len(stack[d])
    BY <1>1, <1>2, <1>3
  <1>5. stack' \in [CPUs -> Seq(Frame)] /\ \A d \in CPUs : stack'[d] # <<>>
    BY <1>1, <1>2, <1>3
  <1>6. \A d \in CPUs : \A i \in 1 .. Len(stack[d]) :
          stack'[d][i] = IF d = c /\ i = Depth(c) THEN f ELSE stack[d][i]
    BY <1>1, <1>2, <1>3
  <1> QED
    BY <1>4, <1>5, <1>6 DEF Frames, Depth

LEMMA NewFrameFacts == NewFrame \in Frame /\ NewFrame.held = {} /\ NewFrame.at = "out"
  BY SpinLockAssumption DEF NewFrame, Frame, Labels

LEMMA InterruptFacts ==
  ASSUME TypeOK, NEW c \in CPUs, Interrupt(c)
  PROVE  /\ stack' \in [CPUs -> Seq(Frame)]
         /\ \A d \in CPUs : stack'[d] # <<>>
         /\ \A d \in CPUs : Depth(d)' = IF d = c THEN Depth(d) + 1 ELSE Depth(d)
         /\ \A d \in CPUs : \A i \in Frames(d) : stack'[d][i] = stack[d][i]
         /\ stack'[c][Depth(c) + 1] = NewFrame
  BY NewFrameFacts DEF TypeOK, Interrupt, Depth, Frames

LEMMA DropLast ==
  ASSUME NEW s \in Seq(Frame), Len(s) > 1
  PROVE  /\ SubSeq(s, 1, Len(s) - 1) \in Seq(Frame)
         /\ Len(SubSeq(s, 1, Len(s) - 1)) = Len(s) - 1
         /\ SubSeq(s, 1, Len(s) - 1) # <<>>
         /\ \A i \in 1 .. Len(s) - 1 : SubSeq(s, 1, Len(s) - 1)[i] = s[i]
  <1> DEFINE t == SubSeq(s, 1, Len(s) - 1)
  <1>1. Len(s) \in Nat /\ \A i \in 1 .. Len(s) - 1 : s[i] \in Frame
    OBVIOUS
  <1>2. /\ t \in Seq(Frame)
        /\ Len(t) = IF 1 <= Len(s) - 1 THEN Len(s) - 1 - 1 + 1 ELSE 0
        /\ \A i \in 1 .. Len(s) - 1 - 1 + 1 : t[i] = s[1 + i - 1]
    BY <1>1, SubSeqProperties
  <1> HIDE DEF t
  <1>3. Len(t) = Len(s) - 1 /\ \A i \in 1 .. Len(s) - 1 : t[i] = s[i]
    BY <1>1, <1>2
  <1>4. t # <<>>
    BY <1>1, <1>3
  <1> QED
    BY <1>2, <1>3, <1>4 DEF t

LEMMA ReturnFacts ==
  ASSUME TypeOK, NEW c \in CPUs, Return(c)
  PROVE  /\ stack' \in [CPUs -> Seq(Frame)]
         /\ \A d \in CPUs : stack'[d] # <<>>
         /\ \A d \in CPUs : Depth(d)' = IF d = c THEN Depth(d) - 1 ELSE Depth(d)
         /\ \A d \in CPUs : \A i \in Frames(d)' :
              i \in Frames(d) /\ stack'[d][i] = stack[d][i]
  <1>1. /\ stack \in [CPUs -> Seq(Frame)]
        /\ \A d \in CPUs : stack[d] # <<>>
        /\ Len(stack[c]) > 1
        /\ stack' = [stack EXCEPT ![c] = SubSeq(stack[c], 1, Len(stack[c]) - 1)]
    BY DEF TypeOK, Return, InHandler, Depth
  <1> DEFINE s == SubSeq(stack[c], 1, Len(stack[c]) - 1)
  <1>2. /\ s \in Seq(Frame) /\ s # <<>> /\ Len(s) = Len(stack[c]) - 1
        /\ \A i \in 1 .. Len(s) : s[i] = stack[c][i]
    BY <1>1, DropLast
  <1> HIDE DEF s
  <1>3. stack' = [stack EXCEPT ![c] = s]
    BY <1>1 DEF s
  <1>4. \A d \in CPUs : stack'[d] = IF d = c THEN s ELSE stack[d]
    BY <1>1, <1>3
  <1>5. /\ stack' \in [CPUs -> Seq(Frame)]
        /\ \A d \in CPUs : stack'[d] # <<>>
    BY <1>1, <1>2, <1>3, <1>4
  <1>6. \A d \in CPUs : Len(stack'[d]) = IF d = c THEN Len(stack[d]) - 1 ELSE Len(stack[d])
    BY <1>2, <1>4
  <1>7. \A d \in CPUs : \A i \in 1 .. Len(stack'[d]) :
          i \in 1 .. Len(stack[d]) /\ stack'[d][i] = stack[d][i]
    BY <1>1, <1>2, <1>4, <1>6
  <1> QED
    BY <1>5, <1>6, <1>7 DEF Depth, Frames

-----------------------------------------------------------------------------
(* The steps.                                                              *)

(* Only the place of a frame in acquire and release changes.               *)
LEMMA MoveStep ==
  ASSUME IInv, NEW c \in CPUs, NEW f \in Frame, Run(c, f),
         f.held = Top(c).held, f.at = "store" => f.lk \in f.held,
         locked' = locked, intr' \in [CPUs -> BOOLEAN]
  PROVE  IInv'
  <1>1. TypeOK /\ TypeOK'
    BY RunFacts DEF IInv, TypeOK
  <1>2. \A d \in CPUs : Depth(d)' = Depth(d) /\ Frames(d)' = Frames(d)
    BY <1>1, RunFacts
  <1>3. \A d \in CPUs : \A i \in Frames(d) : Held(d, i)' = Held(d, i)
    <2>1. \A d \in CPUs : \A i \in Frames(d) :
            stack'[d][i] = IF d = c /\ i = Depth(c) THEN f ELSE stack[d][i]
      BY <1>1, RunFacts
    <2>2. f.held = stack[c][Depth(c)].held
      BY DEF Top
    <2> QED
      BY <2>1, <2>2 DEF Held
  <1>4. Bounded'
    BY <1>2 DEF IInv, Bounded
  <1>5. ReleasesOwn'
    BY <1>1, <1>2, <1>3, RunFacts DEF IInv, ReleasesOwn, Held
  <1>6. Exclusive'
    BY <1>2, <1>3 DEF IInv, Exclusive
  <1> QED
    BY <1>1, <1>4, <1>5, <1>6 DEF IInv

LEMMA XchgStep == ASSUME IInv, NEW c \in CPUs, Xchg(c) PROVE IInv'
  <1> DEFINE k == Top(c).lk
             f == [Top(c) EXCEPT !.at = "out", !.held = @ \cup {k}]
  <1>1. /\ TypeOK /\ Top(c) \in Frame /\ Depth(c) \in Frames(c)
        /\ k \in Locks /\ f \in Frame /\ f.held = Top(c).held \cup {k}
        /\ f.at = "out" /\ Run(c, f) /\ ~locked[k]
        /\ locked' = [locked EXCEPT ![k] = TRUE] /\ intr' = intr
    BY TopFacts DEF IInv, Xchg, Won, Frame, Labels
  <1> HIDE DEF f, k
  <1>2. TypeOK'
    BY <1>1, RunFacts DEF TypeOK
  <1>3. \A d \in CPUs : Depth(d)' = Depth(d) /\ Frames(d)' = Frames(d)
    BY <1>1, RunFacts
  <1>4. \A d \in CPUs : \A i \in Frames(d) :
          Held(d, i)' = Held(d, i) \cup (IF d = c /\ i = Depth(c) THEN {k} ELSE {})
    BY <1>1, RunFacts DEF Held, Top
  <1>5. \A d \in CPUs : \A i \in Frames(d) : k \notin Held(d, i)
    BY <1>1 DEF IInv, Exclusive
  <1>6. Bounded'
    BY <1>3 DEF IInv, Bounded
  <1>7. ReleasesOwn'
    BY <1>1, <1>3, <1>4, RunFacts DEF IInv, ReleasesOwn, Held
  <1>8. Exclusive'
    <2>1. \A d, e \in CPUs : \A i \in Frames(d), j \in Frames(e) :
            (Held(d, i) \cap Held(e, j) # {} => d = e /\ i = j)'
      BY <1>3, <1>4, <1>5 DEF IInv, Exclusive
    <2>2. \A l \in Locks :
            locked'[l] <=> \E d \in CPUs : \E i \in Frames(d) : l \in Held(d, i)'
      <3>1. locked'[k] /\ \E i \in Frames(c) : k \in Held(c, i)'
        BY <1>1, <1>4 DEF TypeOK
      <3>2. \A l \in Locks \ {k} : locked'[l] = locked[l]
        BY <1>1 DEF TypeOK
      <3>3. \A l \in Locks \ {k} : \A d \in CPUs : \A i \in Frames(d) :
              l \in Held(d, i)' <=> l \in Held(d, i)
        BY <1>4
      <3> QED
        BY <1>1, <3>1, <3>2, <3>3 DEF IInv, Exclusive
    <2> QED
      BY <1>3, <2>1, <2>2 DEF Exclusive
  <1> QED
    BY <1>2, <1>6, <1>7, <1>8 DEF IInv

LEMMA StoreStep == ASSUME IInv, NEW c \in CPUs, Store(c) PROVE IInv'
  <1> DEFINE k == Top(c).lk
             f == [Top(c) EXCEPT !.at = "sti", !.held = @ \ {k}]
  <1>1. /\ TypeOK /\ Top(c) \in Frame /\ Depth(c) \in Frames(c)
        /\ k \in Locks /\ f \in Frame /\ f.held = Top(c).held \ {k}
        /\ f.at = "sti" /\ Run(c, f) /\ Top(c).at = "store"
        /\ locked' = [locked EXCEPT ![k] = FALSE] /\ intr' = intr
    BY TopFacts DEF IInv, Store, StoreFree, Frame, Labels
  <1> HIDE DEF f
  <1>2. TypeOK'
    BY <1>1, RunFacts DEF TypeOK
  <1>3. \A d \in CPUs : Depth(d)' = Depth(d) /\ Frames(d)' = Frames(d)
    BY <1>1, RunFacts
  <1>4. k \in Held(c, Depth(c))
    BY <1>1 DEF IInv, ReleasesOwn, Held, Top
  <1> HIDE DEF k
  <1>5. \A d \in CPUs : \A i \in Frames(d) :
          Held(d, i)' = Held(d, i) \ (IF d = c /\ i = Depth(c) THEN {k} ELSE {})
    BY <1>1, RunFacts DEF Held, Top
  <1>6. \A d \in CPUs : \A i \in Frames(d) : k \notin Held(d, i)'
    BY <1>1, <1>4, <1>5 DEF IInv, Exclusive
  <1>7. Bounded'
    BY <1>3 DEF IInv, Bounded
  <1>8. ReleasesOwn'
    BY <1>1, <1>3, <1>5, RunFacts DEF IInv, ReleasesOwn, Held
  <1>9. Exclusive'
    <2>1. \A d, e \in CPUs : \A i \in Frames(d), j \in Frames(e) :
            (Held(d, i) \cap Held(e, j) # {} => d = e /\ i = j)'
      BY <1>3, <1>5 DEF IInv, Exclusive
    <2>2. \A l \in Locks :
            locked'[l] <=> \E d \in CPUs : \E i \in Frames(d) : l \in Held(d, i)'
      <3>1. ~locked'[k]
        BY <1>1 DEF TypeOK
      <3>2. \A l \in Locks \ {k} : locked'[l] = locked[l]
        BY <1>1 DEF TypeOK
      <3>3. \A l \in Locks \ {k} : \A d \in CPUs : \A i \in Frames(d) :
              l \in Held(d, i)' <=> l \in Held(d, i)
        BY <1>5
      <3> QED
        BY <1>1, <1>6, <3>1, <3>2, <3>3 DEF IInv, Exclusive
    <2> QED
      BY <1>3, <2>1, <2>2 DEF Exclusive
  <1> QED
    BY <1>2, <1>7, <1>8, <1>9 DEF IInv

LEMMA InterruptStep == ASSUME IInv, NEW c \in CPUs, Interrupt(c) PROVE IInv'
  <1>1. TypeOK /\ TypeOK'
    BY InterruptFacts DEF IInv, TypeOK, Interrupt
  <1>2. \A d \in CPUs : Depth(d) \in Nat /\
          Frames(d)' = Frames(d) \cup (IF d = c THEN {Depth(c) + 1} ELSE {})
    BY <1>1, InterruptFacts, TopFacts DEF Frames
  <1>3. \A d \in CPUs : \A i \in Frames(d)' :
          IF i \in Frames(d) THEN stack'[d][i] = stack[d][i]
          ELSE d = c /\ i = Depth(c) + 1 /\ stack'[d][i] = NewFrame
    BY <1>1, <1>2, InterruptFacts
  <1>4. Bounded'
    <2>1. Depth(c) < MaxDepth /\ \A d \in CPUs : Depth(d) \in Nat /\ Depth(d) <= MaxDepth
      BY <1>1, TopFacts DEF IInv, Bounded, Interrupt
    <2>2. \A d \in CPUs : Depth(d)' = IF d = c THEN Depth(d) + 1 ELSE Depth(d)
      BY <1>1, InterruptFacts
    <2> QED
      BY <2>1, <2>2, SpinLockAssumption DEF Bounded
  <1>5. ReleasesOwn'
    BY <1>2, <1>3, NewFrameFacts DEF IInv, ReleasesOwn, Held
  <1>6. \A d \in CPUs : \A i \in Frames(d)' :
          IF i \in Frames(d) THEN Held(d, i)' = Held(d, i) ELSE Held(d, i)' = {}
    BY <1>3, NewFrameFacts DEF Held
  <1>7. locked' = locked /\ \A d \in CPUs : Frames(d) \subseteq Frames(d)'
    BY <1>2 DEF Interrupt
  <1>8. Exclusive'
    BY <1>6, <1>7 DEF IInv, Exclusive
  <1> QED
    BY <1>1, <1>4, <1>5, <1>8 DEF IInv

LEMMA ReturnStep == ASSUME IInv, NEW c \in CPUs, Return(c) PROVE IInv'
  <1>1. TypeOK /\ TypeOK'
    BY ReturnFacts DEF IInv, TypeOK, Return
  <1>2. \A d \in CPUs : \A i \in Frames(d)' :
          i \in Frames(d) /\ stack'[d][i] = stack[d][i]
    BY <1>1, ReturnFacts
  <1>3. \A d \in CPUs : \A i \in Frames(d) :
          i \in Frames(d)' \/ (d = c /\ i = Depth(c))
    BY <1>1, ReturnFacts, TopFacts DEF Frames
  <1>4. Held(c, Depth(c)) = {} /\ locked' = locked
    BY DEF Return, Held, Top
  <1>5. Bounded'
    BY <1>1, ReturnFacts, TopFacts, SpinLockAssumption DEF IInv, Bounded
  <1>6. ReleasesOwn'
    BY <1>2 DEF IInv, ReleasesOwn, Held
  <1>7. \A d \in CPUs : \A i \in Frames(d)' : Held(d, i)' = Held(d, i)
    BY <1>2 DEF Held
  <1>8. Exclusive'
    BY <1>2, <1>3, <1>4, <1>7 DEF IInv, Exclusive
  <1> QED
    BY <1>1, <1>5, <1>6, <1>8 DEF IInv

LEMMA Initially == Init => IInv
  <1> SUFFICES ASSUME Init PROVE IInv
    OBVIOUS
  <1>1. \A c \in CPUs : stack[c] = <<NewFrame>> /\ Depth(c) = 1
    BY DEF Init, Depth
  <1>2. stack \in [CPUs -> Seq(Frame)]
    BY NewFrameFacts DEF Init
  <1>3. TypeOK
    BY <1>1, <1>2 DEF Init, TypeOK
  <1>4. \A c \in CPUs : \A i \in Frames(c) : stack[c][i] = NewFrame
    BY <1>1 DEF Frames
  <1>5. Bounded /\ ReleasesOwn
    BY <1>1, <1>4, NewFrameFacts, SpinLockAssumption DEF Bounded, ReleasesOwn
  <1>6. Exclusive
    BY <1>4, NewFrameFacts DEF Init, Exclusive, Held
  <1> QED
    BY <1>3, <1>5, <1>6 DEF IInv

LEMMA Inductive == ASSUME IInv, [Next]_vars PROVE IInv'
  <1>1. ASSUME NEW c \in CPUs, NEW k \in Locks, CallAcquire(c, k) PROVE IInv'
    <2>1. Top(c) \in Frame /\ intr' \in [CPUs -> BOOLEAN]
      BY <1>1, TopFacts DEF IInv, TypeOK, CallAcquire
    <2> QED
      BY <1>1, <2>1, MoveStep DEF CallAcquire, Frame, Labels
  <1>2. ASSUME NEW c \in CPUs, Pushcli(c) PROVE IInv'
    <2>1. Top(c) \in Frame /\ intr' \in [CPUs -> BOOLEAN]
      BY <1>2, TopFacts DEF IInv, TypeOK, Pushcli, AfterPushcli
    <2> QED
      BY <1>2, <2>1, MoveStep DEF Pushcli, Frame, Labels
  <1>3. ASSUME NEW c \in CPUs, Check(c) PROVE IInv'
    <2>1. Top(c) \in Frame /\ intr' \in [CPUs -> BOOLEAN]
      BY <1>3, TopFacts DEF IInv, TypeOK, Check
    <2> QED
      BY <1>3, <2>1, MoveStep DEF Check, Frame, Labels
  <1>4. ASSUME NEW c \in CPUs, NEW k \in Locks, CallRelease(c, k) PROVE IInv'
    <2>1. Top(c) \in Frame /\ intr' \in [CPUs -> BOOLEAN]
      BY <1>4, TopFacts DEF IInv, TypeOK, CallRelease
    <2> QED
      BY <1>4, <2>1, MoveStep DEF CallRelease, Frame, Labels
  <1>5. ASSUME NEW c \in CPUs, Popcli(c) PROVE IInv'
    <2>1. Top(c) \in Frame /\ intr' \in [CPUs -> BOOLEAN]
      BY <1>5, TopFacts DEF IInv, TypeOK, Popcli
    <2> QED
      BY <1>5, <2>1, MoveStep DEF Popcli, Frame, Labels
  <1>6. CASE UNCHANGED vars
    BY <1>6 DEF vars, IInv, TypeOK, Bounded, ReleasesOwn, Exclusive, Frames, Held,
                Depth
  <1> QED
    BY <1>1, <1>2, <1>3, <1>4, <1>5, <1>6, XchgStep, StoreStep, InterruptStep,
       ReturnStep DEF Next, Inside, Release

(* The inductive invariant holds of all interleavings of CPUs and handlers. *)
THEOREM Invariance == Spec => []IInv
  BY Initially, Inductive, PTL DEF Spec

(* Stacks, flags and lock words keep their types on every CPU, and no CPU  *)
(* ever runs out of frames.                                                *)
THEOREM TypeCorrect == Spec => []TypeOK
  <1>1. IInv => TypeOK
    BY DEF IInv
  <1> QED
    BY Invariance, <1>1, PTL

(* At any moment at most one frame of one CPU holds a lock, and the lock's *)
(* word says so: xchg makes it exclusive whatever interrupts come in       *)
(* between pushcli and popcli.                                             *)
THEOREM LockIsExclusive == Spec => []MutualExclusion
  <1>1. IInv => MutualExclusion
    <2> SUFFICES ASSUME IInv PROVE MutualExclusion
      OBVIOUS
    <2>1. \A x \in FrameIds, k \in Locks :
            Holds(x, k) => x[1] \in CPUs /\ x[2] \in Frames(x[1])
                           /\ k \in Held(x[1], x[2]) /\ x = <<x[1], x[2]>>
      BY DEF FrameIds, Holds, Live, FrameOf, Frames, Held
    <2>2. ASSUME NEW k \in Locks, NEW c \in CPUs, NEW i \in Frames(c), k \in Held(c, i)
          PROVE  <<c, i>> \in FrameIds /\ Holds(<<c, i>>, k)
      <3>1. Depth(c) \in Nat /\ Depth(c) <= MaxDepth
        BY TopFacts DEF IInv, Bounded
      <3> QED
        BY <2>2, <3>1, SpinLockAssumption
        DEF FrameIds, Holds, Live, FrameOf, Frames, Held
    <2>3. ASSUME NEW k \in Locks, NEW x \in FrameIds, NEW y \in FrameIds,
                 Holds(x, k), Holds(y, k)
          PROVE  x = y
      <3>1. x[1] = y[1] /\ x[2] = y[2]
        BY <2>1, <2>3 DEF IInv, Exclusive
      <3> QED
        BY <2>1, <2>3, <3>1
    <2>4. ASSUME NEW k \in Locks
          PROVE  locked[k] <=> \E x \in FrameIds : Holds(x, k)
      <3>1. locked[k] <=> \E c \in CPUs : \E i \in Frames(c) : k \in Held(c, i)
        BY DEF IInv, Exclusive
      <3>2. ASSUME NEW x \in FrameIds, Holds(x, k) PROVE locked[k]
        BY <2>1, <3>1, <3>2
      <3>3. ASSUME NEW c \in CPUs, NEW i \in Frames(c), k \in Held(c, i)
            PROVE  \E x \in FrameIds : Holds(x, k)
        BY <2>2, <3>3
      <3>4. locked[k] \in BOOLEAN
        BY DEF IInv, TypeOK
      <3> QED
        BY <3>1, <3>2, <3>3, <3>4
    <2> QED
      BY <2>3, <2>4 DEF MutualExclusion
  <1> QED
    BY Invariance, <1>1, PTL

-----------------------------------------------------------------------------
(* Self-deadlock.  When a frame holds at most one lock, interrupts are off *)
(* from the pushcli of an acquire to the popcli of the release, so a frame *)
(* that is interrupted holds nothing.                                      *)

InterruptsOff ==
  \A c \in CPUs :
    /\ \A i \in Frames(c) : i # Depth(c) =>
         Held(c, i) = {} /\ stack[c][i].at \in {"out", "cli"}
    /\ intr[c] => Held(c, Depth(c)) = {} /\ Top(c).at \in {"out", "cli"}
    /\ Top(c).at \in {"cli", "check", "xchg", "sti"} => Held(c, Depth(c)) = {}
    /\ \A k, l \in Held(c, Depth(c)) : k = l

(* A frame that may take a lock while only one is allowed holds none.      *)
LEMMA NothingHeld ==
  ASSUME NEW S \in SUBSET Locks, Cardinality(S) < 1 PROVE S = {}
  <1>1. IsFiniteSet(S)
    BY SpinLockAssumption, FS_Subset
  <1>2. Cardinality(S) \in Nat
    BY <1>1, FS_CardinalityType
  <1>3. Cardinality(S) = 0
    BY <1>2
  <1> QED
    BY <1>1, <1>3, FS_EmptySet

(* A step of the running frame, described by what it leaves in the frame   *)
(* and in the interrupt flag.                                              *)
LEMMA RunKeepsOff ==
  ASSUME IInv, InterruptsOff, NEW c \in CPUs, NEW f \in Frame, Run(c, f),
         \A d \in CPUs \ {c} : intr'[d] = intr[d],
         intr'[c] => f.held = {} /\ f.at \in {"out", "cli"},
         f.at \in {"cli", "check", "xchg", "sti"} => f.held = {},
         \A k, l \in f.held : k = l
  PROVE  InterruptsOff'
  <1>1. TypeOK
    BY DEF IInv
  <1>2. \A d \in CPUs : Depth(d)' = Depth(d) /\ Frames(d)' = Frames(d)
    BY <1>1, RunFacts
  <1>3. \A d \in CPUs : \A i \in Frames(d) :
          stack'[d][i] = IF d = c /\ i = Depth(c) THEN f ELSE stack[d][i]
    BY <1>1, RunFacts
  <1>4. \A d \in CPUs : Depth(d) \in Frames(d)
    BY <1>1, TopFacts
  <1>5. ASSUME NEW d \in CPUs, d # c
        PROVE  /\ \A i \in Frames(d)' : i # Depth(d)' =>
                    Held(d, i)' = {} /\ stack'[d][i].at \in {"out", "cli"}
               /\ intr'[d] => Held(d, Depth(d))' = {} /\ Top(d)'.at \in {"out", "cli"}
               /\ Top(d)'.at \in {"cli", "check", "xchg", "sti"} =>
                    Held(d, Depth(d))' = {}
               /\ \A k, l \in Held(d, Depth(d))' : k = l
    BY <1>2, <1>3, <1>4, <1>5 DEF InterruptsOff, Held, Top
  <1>6. /\ \A i \in Frames(c)' : i # Depth(c)' =>
             Held(c, i)' = {} /\ stack'[c][i].at \in {"out", "cli"}
        /\ Top(c)' = f /\ Held(c, Depth(c))' = f.held
    BY <1>2, <1>3, <1>4 DEF InterruptsOff, Held, Top
  <1> QED
    BY <1>5, <1>6 DEF InterruptsOff

LEMMA InterruptKeepsOff ==
  ASSUME IInv, InterruptsOff, NEW c \in CPUs, Interrupt(c) PROVE InterruptsOff'
  <1>1. TypeOK /\ intr[c] /\ intr' = [intr EXCEPT ![c] = FALSE]
    BY DEF IInv, Interrupt
  <1>2. /\ \A d \in CPUs : Depth(d) \in Nat /\ Depth(d) \in Frames(d)
        /\ \A d \in CPUs : Depth(d)' = IF d = c THEN Depth(d) + 1 ELSE Depth(d)
        /\ \A d \in CPUs : \A i \in Frames(d) : stack'[d][i] = stack[d][i]
        /\ stack'[c][Depth(c) + 1] = NewFrame
    BY <1>1, InterruptFacts, TopFacts
  <1>3. ASSUME NEW d \in CPUs, d # c
        PROVE  /\ \A i \in Frames(d)' : i # Depth(d)' =>
                    Held(d, i)' = {} /\ stack'[d][i].at \in {"out", "cli"}
               /\ intr'[d] => Held(d, Depth(d))' = {} /\ Top(d)'.at \in {"out", "cli"}
               /\ Top(d)'.at \in {"cli", "check", "xchg", "sti"} =>
                    Held(d, Depth(d))' = {}
               /\ \A k, l \in Held(d, Depth(d))' : k = l
    <2>1. Depth(d)' = Depth(d) /\ Frames(d)' = Frames(d) /\ intr'[d] = intr[d]
      BY <1>1, <1>2, <1>3 DEF Frames, TypeOK
    <2> QED
      BY <1>2, <2>1 DEF InterruptsOff, Held, Top
  <1>4. Top(c)' = NewFrame /\ Held(c, Depth(c))' = {} /\ ~intr'[c]
    BY <1>1, <1>2, NewFrameFacts DEF Top, Held, TypeOK
  <1>5. ASSUME NEW i \in Frames(c)', i # Depth(c)'
        PROVE  Held(c, i)' = {} /\ stack'[c][i].at \in {"out", "cli"}
    <2>1. i \in Frames(c) /\ stack'[c][i] = stack[c][i]
      BY <1>2, <1>5 DEF Frames
    <2> QED
      BY <1>1, <2>1 DEF InterruptsOff, Held, Top
  <1> QED
    BY <1>3, <1>4, <1>5, NewFrameFacts DEF InterruptsOff

LEMMA ReturnKeepsOff ==
  ASSUME IInv, InterruptsOff, NEW c \in CPUs, Return(c) PROVE InterruptsOff'
  <1>1. TypeOK /\ intr' = [intr EXCEPT ![c] = TRUE] /\ Depth(c) > 1
    BY DEF IInv, Return, InHandler
  <1>2. /\ \A d \in CPUs : Depth(d) \in Nat /\ Depth(d) \in Frames(d)
        /\ \A d \in CPUs : Depth(d)' = IF d = c THEN Depth(d) - 1 ELSE Depth(d)
        /\ \A d \in CPUs : \A i \in Frames(d)' :
              i \in Frames(d) /\ stack'[d][i] = stack[d][i]
    BY <1>1, ReturnFacts, TopFacts
  <1>3. ASSUME NEW d \in CPUs, d # c
        PROVE  /\ \A i \in Frames(d)' : i # Depth(d)' =>
                    Held(d, i)' = {} /\ stack'[d][i].at \in {"out", "cli"}
               /\ intr'[d] => Held(d, Depth(d))' = {} /\ Top(d)'.at \in {"out", "cli"}
               /\ Top(d)'.at \in {"cli", "check", "xchg", "sti"} =>
                    Held(d, Depth(d))' = {}
               /\ \A k, l \in Held(d, Depth(d))' : k = l
    <2>1. Depth(d)' = Depth(d) /\ Frames(d)' = Frames(d) /\ intr'[d] = intr[d]
      BY <1>1, <1>2, <1>3 DEF Frames, TypeOK
    <2> QED
      BY <1>2, <2>1 DEF InterruptsOff, Held, Top
  <1>4. ASSUME NEW i \in Frames(c)'
        PROVE  Held(c, i)' = {} /\ stack'[c][i].at \in {"out", "cli"}
    <2>1. i \in Frames(c) /\ i # Depth(c) /\ stack'[c][i] = stack[c][i]
      BY <1>2, <1>4 DEF Frames
    <2> QED
      BY <2>1 DEF InterruptsOff, Held
  <1>5. Depth(c)' \in Frames(c)'
    BY <1>1, <1>2 DEF Frames
  <1>6. Held(c, Depth(c))' = {} /\ Top(c)'.at \in {"out", "cli"}
    BY <1>4, <1>5 DEF Held, Top
  <1> QED
    BY <1>3, <1>4, <1>6 DEF InterruptsOff

LEMMA OffInductive ==
  ASSUME Nesting = 1, IInv, InterruptsOff, [Next]_vars PROVE InterruptsOff'
  <1> DEFINE H(c) == Held(c, Depth(c))
  <1>0. /\ \A c \in CPUs : Top(c) \in Frame /\ Top(c).held = H(c)
        /\ intr \in [CPUs -> BOOLEAN]
    BY TopFacts DEF IInv, TypeOK, Held, Top
  <1>1. ASSUME NEW c \in CPUs, NEW k \in Locks, CallAcquire(c, k) PROVE InterruptsOff'
    <2>1. Top(c).held = {}
      BY <1>0, <1>1, NothingHeld DEF CallAcquire, Frame
    <2> QED
      BY <1>0, <1>1, <2>1, RunKeepsOff DEF CallAcquire, Frame, Labels
  <1>2. ASSUME NEW c \in CPUs, Pushcli(c) PROVE InterruptsOff'
    <2>1. Top(c).held = {}
      BY <1>0, <1>2 DEF Pushcli, InterruptsOff
    <2> QED
      BY <1>0, <1>2, <2>1, RunKeepsOff DEF Pushcli, AfterPushcli, Frame, Labels
  <1>3. ASSUME NEW c \in CPUs, Check(c) PROVE InterruptsOff'
    <2>1. Top(c).held = {} /\ ~intr[c]
      BY <1>0, <1>3 DEF Check, InterruptsOff
    <2> QED
      BY <1>0, <1>3, <2>1, RunKeepsOff DEF Check, Frame, Labels
  <1>4. ASSUME NEW c \in CPUs, Xchg(c) PROVE InterruptsOff'
    <2>1. Top(c).held = {} /\ ~intr[c]
      BY <1>0, <1>4 DEF Xchg, InterruptsOff
    <2> QED
      BY <1>0, <1>4, <2>1, RunKeepsOff DEF Xchg, Frame, Labels
  <1>5. ASSUME NEW c \in CPUs, NEW k \in Locks, CallRelease(c, k) PROVE InterruptsOff'
    <2>1. ~intr[c] /\ \A l, n \in Top(c).held : l = n
      BY <1>0, <1>5 DEF CallRelease, InterruptsOff
    <2> QED
      BY <1>0, <1>5, <2>1, RunKeepsOff DEF CallRelease, Frame, Labels
  <1>6. ASSUME NEW c \in CPUs, Store(c) PROVE InterruptsOff'
    <2>1. Top(c).lk \in Top(c).held
      BY <1>0, <1>6, TopFacts DEF Store, IInv, ReleasesOwn, Held, Top
    <2>2. ~intr[c] /\ Top(c).held \ {Top(c).lk} = {}
      BY <1>0, <1>6, <2>1 DEF Store, InterruptsOff
    <2> QED
      BY <1>0, <1>6, <2>2, RunKeepsOff DEF Store, Frame, Labels
  <1>7. ASSUME NEW c \in CPUs, Popcli(c) PROVE InterruptsOff'
    <2>1. Top(c).held = {}
      BY <1>0, <1>7 DEF Popcli, InterruptsOff
    <2> QED
      BY <1>0, <1>7, <2>1, RunKeepsOff DEF Popcli, Frame, Labels
  <1>8. CASE UNCHANGED vars
    BY <1>8 DEF vars, InterruptsOff, Frames, Held, Depth, Top
  <1> QED
    BY <1>1, <1>2, <1>3, <1>4, <1>5, <1>6, <1>7, <1>8, InterruptKeepsOff,
       ReturnKeepsOff DEF Next, Inside, Release

LEMMA InitiallyOff == Init => InterruptsOff
  <1> SUFFICES ASSUME Init PROVE InterruptsOff
    OBVIOUS
  <1>1. \A c \in CPUs : Depth(c) = 1 /\ Top(c) = NewFrame /\ Held(c, 1) = {}
    BY NewFrameFacts DEF Init, Depth, Top, Held
  <1> QED
    BY <1>1, NewFrameFacts DEF InterruptsOff, Frames

(* As long as a frame holds no more than one lock, as kalloc and kfree do, *)
(* no interrupt handler spins on a lock of the frame it interrupted.       *)
THEOREM HandlersNeverDeadlock ==
  ASSUME Nesting = 1 PROVE Spec => []NoSelfDeadlock
  <1>1. IInv /\ InterruptsOff => NoSelfDeadlock
    <2> SUFFICES ASSUME IInv, InterruptsOff, NEW c \in CPUs,
                        NEW i \in 1 .. Depth(c) - 1
                 PROVE  Top(c).lk \notin stack[c][i].held
      BY DEF NoSelfDeadlock
    <2>1. i \in Frames(c) /\ i # Depth(c)
      BY TopFacts DEF IInv, Frames
    <2> QED
      BY <2>1 DEF InterruptsOff, Held
  <1>2. IInv /\ InterruptsOff /\ [Next]_vars => InterruptsOff'
    BY OffInductive
  <1> QED
    BY InitiallyOff, Invariance, <1>1, <1>2, PTL DEF Spec

-----------------------------------------------------------------------------
(* Refinement of Mutex.                                                    *)

(* The frames that hold a lock, said of frames as indices into a stack.    *)
Owners(k) == {x \in FrameIds : x[2] \in Frames(x[1]) /\ k \in Held(x[1], x[2])}

LEMMA FrameIdFacts ==
  ASSUME IInv
  PROVE  /\ \A x \in FrameIds : x[1] \in CPUs /\ x[2] \in 1 .. MaxDepth /\ x = <<x[1], x[2]>>
         /\ \A c \in CPUs : \A i \in Frames(c) : <<c, i>> \in FrameIds
  <1>1. \A c \in CPUs : Depth(c) \in Nat /\ Depth(c) <= MaxDepth
    BY TopFacts DEF IInv, Bounded
  <1> QED
    BY <1>1, SpinLockAssumption DEF FrameIds, Frames

LEMMA HoldersAreOwners ==
  ASSUME IInv, NEW k \in Locks PROVE HoldersOf(k) = Owners(k)
  <1>1. \A c \in CPUs : Depth(c) \in Nat
    BY TopFacts DEF IInv
  <1>2. \A x \in FrameIds : Live(x) <=> x[2] \in Frames(x[1])
    BY <1>1, FrameIdFacts, SpinLockAssumption DEF Live, Frames
  <1> QED
    BY <1>2 DEF HoldersOf, Holds, FrameOf, Held, Owners

(* A lock that is free has no owner, and an owner is the only one.         *)
OneOwner ==
  \A k \in Locks :
    /\ HoldersOf(k) = Owners(k)
    /\ ~locked[k] => Owners(k) = {}
    /\ \A x \in Owners(k) : Owners(k) = {x}

LEMMA OwnersKnown == IInv => OneOwner
  <1> SUFFICES ASSUME IInv, NEW k \in Locks
               PROVE  /\ HoldersOf(k) = Owners(k)
                      /\ ~locked[k] => Owners(k) = {}
                      /\ \A x \in Owners(k) : Owners(k) = {x}
    BY DEF OneOwner
  <1>1. \A x \in Owners(k) : x \in FrameIds /\ x[2] \in Frames(x[1]) /\ k \in Held(x[1], x[2])
    BY DEF Owners
  <1>2. ~locked[k] => Owners(k) = {}
    BY <1>1, FrameIdFacts DEF IInv, Exclusive
  <1>3. ASSUME NEW x \in Owners(k), NEW y \in Owners(k) PROVE x = y
    <2>1. x[1] = y[1] /\ x[2] = y[2]
      BY <1>1, FrameIdFacts DEF IInv, Exclusive
    <2> QED
      BY <1>1, <2>1, FrameIdFacts
  <1> QED
    BY HoldersAreOwners, <1>2, <1>3

(* Steps that only move a frame within acquire and release, interrupts and *)
(* returns change no owner.                                                *)
LEMMA SameOwners ==
  ASSUME IInv, NEW c \in CPUs, NEW f \in Frame, Run(c, f), f.held = Top(c).held
  PROVE  \A k \in Locks : Owners(k)' = Owners(k)
  <1>1. TypeOK
    BY DEF IInv
  <1>2. \A d \in CPUs : Frames(d)' = Frames(d)
    BY <1>1, RunFacts
  <1>3. \A d \in CPUs : \A i \in Frames(d) : Held(d, i)' = Held(d, i)
    BY <1>1, RunFacts DEF Held, Top
  <1>4. \A x \in FrameIds : x[1] \in CPUs
    BY FrameIdFacts
  <1> QED
    BY <1>2, <1>3, <1>4 DEF Owners, FrameIds

LEMMA InterruptOwners ==
  ASSUME IInv, NEW c \in CPUs, Interrupt(c)
  PROVE  \A k \in Locks : Owners(k)' = Owners(k)
  <1>1. TypeOK
    BY DEF IInv
  <1>2. \A d \in CPUs : Depth(d) \in Nat /\
          Frames(d)' = Frames(d) \cup (IF d = c THEN {Depth(c) + 1} ELSE {})
    BY <1>1, InterruptFacts, TopFacts DEF Frames
  <1>3. \A d \in CPUs : \A i \in Frames(d)' :
          IF i \in Frames(d) THEN Held(d, i)' = Held(d, i) ELSE Held(d, i)' = {}
    BY <1>1, <1>2, InterruptFacts, NewFrameFacts DEF Held
  <1>4. \A x \in FrameIds : x[1] \in CPUs
    BY FrameIdFacts
  <1> QED
    BY <1>2, <1>3, <1>4 DEF Owners, FrameIds

LEMMA ReturnOwners ==
  ASSUME IInv, NEW c \in CPUs, Return(c)
  PROVE  \A k \in Locks : Owners(k)' = Owners(k)
  <1>1. TypeOK
    BY DEF IInv
  <1>2. \A d \in CPUs : \A i \in Frames(d)' : i \in Frames(d) /\ Held(d, i)' = Held(d, i)
    BY <1>1, ReturnFacts DEF Held
  <1>3. \A d \in CPUs : \A i \in Frames(d) : i \in Frames(d)' \/ Held(d, i) = {}
    <2>1. Held(c, Depth(c)) = {}
      BY DEF Return, Held, Top
    <2>2. \A d \in CPUs : \A i \in Frames(d) : i \in Frames(d)' \/ (d = c /\ i = Depth(c))
      BY <1>1, ReturnFacts, TopFacts DEF Frames
    <2> QED
      BY <2>1, <2>2
  <1>4. \A x \in FrameIds : x[1] \in CPUs
    BY FrameIdFacts
  <1> QED
    BY <1>2, <1>3, <1>4 DEF Owners, FrameIds

(* The exchange that finds 0 and the store of 0 change the owners of their *)
(* lock by the running frame.                                              *)
LEMMA XchgOwners ==
  ASSUME IInv, OneOwner', NEW c \in CPUs, Xchg(c), NEW l \in Locks, l = Top(c).lk,
         NEW x, x = <<c, Depth(c)>>
  PROVE  /\ ~locked[l]
         /\ x \in FrameIds
         /\ locked' = [locked EXCEPT ![l] = TRUE]
         /\ \A k \in Locks : Owners(k)' = IF k = l THEN {x} ELSE Owners(k)
  <1> DEFINE f == [Top(c) EXCEPT !.at = "out", !.held = @ \cup {l}]
  <1>1. /\ TypeOK /\ Top(c) \in Frame /\ Depth(c) \in Frames(c)
        /\ f \in Frame /\ f.held = Top(c).held \cup {l}
        /\ Run(c, f) /\ ~locked[l]
        /\ locked' = [locked EXCEPT ![l] = TRUE]
    BY TopFacts DEF IInv, Xchg, Won, Frame, Labels
  <1> HIDE DEF f
  <1>2. \A d \in CPUs : Frames(d)' = Frames(d)
    BY <1>1, RunFacts
  <1>3. \A d \in CPUs : \A i \in Frames(d) :
          Held(d, i)' = Held(d, i) \cup (IF d = c /\ i = Depth(c) THEN {l} ELSE {})
    BY <1>1, RunFacts DEF Held, Top
  <1>4. x \in FrameIds /\ \A y \in FrameIds : y[1] \in CPUs /\ y = <<y[1], y[2]>>
    BY <1>1, FrameIdFacts
  <1>5. x \in Owners(l)'
    BY <1>1, <1>2, <1>3, <1>4 DEF Owners, FrameIds
  <1>6. Owners(l)' = {x}
    BY <1>5 DEF OneOwner
  <1>7. \A k \in Locks \ {l} : Owners(k)' = Owners(k)
    BY <1>2, <1>3, <1>4 DEF Owners, FrameIds
  <1> QED
    BY <1>1, <1>4, <1>6, <1>7

LEMMA StoreOwners ==
  ASSUME IInv, OneOwner, OneOwner', NEW c \in CPUs, Store(c),
         NEW l \in Locks, l = Top(c).lk, NEW x, x = <<c, Depth(c)>>
  PROVE  /\ x \in FrameIds
         /\ Owners(l) = {x}
         /\ locked' = [locked EXCEPT ![l] = FALSE]
         /\ \A k \in Locks : Owners(k)' = IF k = l THEN {} ELSE Owners(k)
  <1> DEFINE f == [Top(c) EXCEPT !.at = "sti", !.held = @ \ {l}]
  <1>1. /\ TypeOK /\ Top(c) \in Frame /\ Depth(c) \in Frames(c)
        /\ f \in Frame /\ f.held = Top(c).held \ {l}
        /\ Run(c, f) /\ Top(c).at = "store"
        /\ locked' = [locked EXCEPT ![l] = FALSE]
    BY TopFacts DEF IInv, Store, StoreFree, Frame, Labels
  <1> HIDE DEF f
  <1>2. l \in Held(c, Depth(c))
    BY <1>1 DEF IInv, ReleasesOwn, Held, Top
  <1>3. \A d \in CPUs : Frames(d)' = Frames(d)
    BY <1>1, RunFacts
  <1>4. \A d \in CPUs : \A i \in Frames(d) :
          Held(d, i)' = Held(d, i) \ (IF d = c /\ i = Depth(c) THEN {l} ELSE {})
    BY <1>1, RunFacts DEF Held, Top
  <1>5. x \in FrameIds /\ \A y \in FrameIds : y[1] \in CPUs /\ y = <<y[1], y[2]>>
    BY <1>1, FrameIdFacts
  <1>6. x \in Owners(l)
    BY <1>1, <1>2, <1>5 DEF Owners
  <1>7. Owners(l) = {x}
    BY <1>6 DEF OneOwner
  <1>8. ~locked'[l]
    BY <1>1 DEF TypeOK
  <1>9. Owners(l)' = {}
    BY <1>8 DEF OneOwner
  <1>10. \A k \in Locks \ {l} : Owners(k)' = Owners(k)
    BY <1>3, <1>4, <1>5 DEF Owners, FrameIds
  <1> QED
    BY <1>1, <1>5, <1>7, <1>9, <1>10

LEMMA LockInit == Init => Lock!Init
  <1> SUFFICES ASSUME Init PROVE Lock!Init
    OBVIOUS
  <1>1. ASSUME NEW k \in Locks PROVE HoldersOf(k) = {}
    <2>1. OneOwner /\ ~locked[k]
      BY Initially, OwnersKnown DEF Init
    <2> QED
      BY <2>1 DEF OneOwner
  <1> QED
    BY <1>1 DEF Init, Lock!Init

LEMMA LockStep ==
  ASSUME IInv, OneOwner, OneOwner', [Next]_vars PROVE [Lock!Next]_(Lock!mutexVars)
  <1>1. \A k \in Locks : HoldersOf(k) = Owners(k) /\ HoldersOf(k)' = Owners(k)'
    BY DEF OneOwner
  <1>2. ASSUME locked' = locked, \A k \in Locks : Owners(k)' = Owners(k)
        PROVE  UNCHANGED Lock!mutexVars
    BY <1>1, <1>2 DEF Lock!mutexVars
  <1>3. ASSUME NEW c \in CPUs, Xchg(c) PROVE Lock!Next
    <2> DEFINE x == <<c, Depth(c)>>
    <2> PICK l \in Locks : l = Top(c).lk
      BY TopFacts DEF IInv, Frame
    <2>1. /\ ~locked[l] /\ x \in FrameIds
          /\ locked' = [locked EXCEPT ![l] = TRUE]
          /\ \A k \in Locks : Owners(k)' = IF k = l THEN {x} ELSE Owners(k)
      BY <1>3, XchgOwners
    <2> HIDE DEF x
    <2>2. Lock!Take(l, x)
      BY <1>1, <2>1 DEF Lock!Take
    <2> QED
      BY <2>1, <2>2 DEF Lock!Next
  <1>4. ASSUME NEW c \in CPUs, Store(c) PROVE Lock!Next
    <2> DEFINE x == <<c, Depth(c)>>
    <2> PICK l \in Locks : l = Top(c).lk
      BY TopFacts DEF IInv, Frame
    <2>1. /\ x \in FrameIds /\ Owners(l) = {x}
          /\ locked' = [locked EXCEPT ![l] = FALSE]
          /\ \A k \in Locks : Owners(k)' = IF k = l THEN {} ELSE Owners(k)
      BY <1>4, StoreOwners
    <2> HIDE DEF x
    <2>2. Lock!Give(l, x)
      BY <1>1, <2>1 DEF Lock!Give
    <2> QED
      BY <2>1, <2>2 DEF Lock!Next
  <1>5. ASSUME NEW c \in CPUs, NEW f \in Frame, Run(c, f), f.held = Top(c).held,
               locked' = locked
        PROVE  UNCHANGED Lock!mutexVars
    BY <1>2, <1>5, SameOwners
  <1>6. ASSUME NEW c \in CPUs
        PROVE  /\ \A k \in Locks : CallAcquire(c, k) => UNCHANGED Lock!mutexVars
               /\ Pushcli(c) => UNCHANGED Lock!mutexVars
               /\ Check(c) => UNCHANGED Lock!mutexVars
               /\ \A k \in Locks : CallRelease(c, k) => UNCHANGED Lock!mutexVars
               /\ Popcli(c) => UNCHANGED Lock!mutexVars
    <2>1. Top(c) \in Frame
      BY TopFacts DEF IInv
    <2>2. ASSUME NEW k \in Locks, CallAcquire(c, k) PROVE UNCHANGED Lock!mutexVars
      BY <1>5, <2>1, <2>2 DEF CallAcquire, Frame, Labels
    <2>3. ASSUME Pushcli(c) PROVE UNCHANGED Lock!mutexVars
      BY <1>5, <2>1, <2>3 DEF Pushcli, Frame, Labels
    <2>4. ASSUME Check(c) PROVE UNCHANGED Lock!mutexVars
      BY <1>5, <2>1, <2>4 DEF Check, Frame, Labels
    <2>5. ASSUME NEW k \in Locks, CallRelease(c, k) PROVE UNCHANGED Lock!mutexVars
      BY <1>5, <2>1, <2>5 DEF CallRelease, Frame, Labels
    <2>6. ASSUME Popcli(c) PROVE UNCHANGED Lock!mutexVars
      BY <1>5, <2>1, <2>6 DEF Popcli, Frame, Labels
    <2> QED
      BY <2>2, <2>3, <2>4, <2>5, <2>6
  <1>7. ASSUME NEW c \in CPUs, Interrupt(c) PROVE UNCHANGED Lock!mutexVars
    BY <1>2, <1>7, InterruptOwners DEF Interrupt
  <1>8. ASSUME NEW c \in CPUs, Return(c) PROVE UNCHANGED Lock!mutexVars
    BY <1>2, <1>8, ReturnOwners DEF Return
  <1>9. CASE UNCHANGED vars
    <2>1. \A k \in Locks : Owners(k)' = Owners(k)
      BY <1>9 DEF vars, Owners, Frames, Depth, Held
    <2> QED
      BY <1>2, <1>9, <2>1 DEF vars
  <1> QED
    BY <1>3, <1>4, <1>6, <1>7, <1>8, <1>9 DEF Next, Inside, Release

(* The exchange and the store implement the abstract lock, for any number  *)
(* of CPUs, locks and nested interrupts: every other step of acquire and   *)
(* release, and every interrupt, is invisible.                             *)
THEOREM Refinement == Spec => ImplementsMutex
  <1>1. Spec => Lock!Init /\ [][Lock!Next]_(Lock!mutexVars)
    BY LockInit, LockStep, OwnersKnown, Invariance, PTL DEF Spec
  <1> QED
    BY <1>1 DEF ImplementsMutex, Lock!Spec
=============================================================================
