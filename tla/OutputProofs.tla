---------------------------- MODULE OutputProofs ----------------------------
(***************************************************************************)
(* What holds of the kernel's output and the exceptions it reports: of the *)
(* exception path for every vector the kernel can get and every page fault *)
(* address, of the printing and its text for every width of an int and     *)
(* every number and time that is printed, and of the console for every     *)
(* size of the screen.                                                     *)
(***************************************************************************)
EXTENDS Exceptions, Terminal, SequenceTheorems, NaturalsInduction, WellFoundedInduction, TLAPS

-----------------------------------------------------------------------------
(* The exception path.                                                     *)

(* The stack, word by word, at each place of the path: isr_common_stub     *)
(* finds the same seven words whatever the vector is.                      *)
StackName == {"eflags", "cs", "eip", "err", "int_no", "pushal", "ds"}
StackWord == [what : StackName, val : Nat]
Holds(names) ==
  /\ Len(stack) = Len(names)
  /\ \A k \in 1 .. Len(names) : stack[k].what = names[k]

Frame == <<"eflags", "cs", "eip">>
FrameErr == <<"eflags", "cs", "eip", "err">>
Saved == <<"eflags", "cs", "eip", "err", "int_no", "pushal", "ds">>

OnStack ==
  /\ stack \in Seq(StackWord)
  /\ at = "thread" => stack = <<>>
  /\ at = "stub" /\ vector \in HasErrorCode => Holds(FrameErr)
  /\ at = "stub" /\ vector \notin HasErrorCode => Holds(Frame)
  /\ at \in {"call", "report", "dead"} => Holds(Saved) /\ stack[5].val = vector
  /\ at = "iret" => Holds(Frame)

(* The path's variables.                                                   *)
OnPath ==
  /\ at \in {"thread", "stub", "call", "report", "iret", "dead"}
  /\ vector \in 0 .. 17
  /\ cr2 \in 0 .. Word - 1
  /\ outside \in BOOLEAN

(* The exceptions the kernel can get are the ones for which its stubs know *)
(* whether the processor pushes an error code.                             *)
LEMMA StubsAgree ==
  ASSUME NEW v \in 0 .. 17 PROVE v \in ISR_ERRORCODE <=> v \in HasErrorCode
  BY DEF ISR_ERRORCODE, HasErrorCode

LEMMA Push ==
  ASSUME NEW s \in Seq(StackWord), NEW e \in StackWord
  PROVE  /\ s \o <<e>> \in Seq(StackWord)
         /\ Len(s \o <<e>>) = Len(s) + 1
         /\ (s \o <<e>>)[Len(s) + 1] = e
         /\ \A k \in 1 .. Len(s) : (s \o <<e>>)[k] = s[k]
  OBVIOUS

(* Three words, as the gate and the stub push them.                        *)
LEMMA PushThree ==
  ASSUME NEW s \in Seq(StackWord), NEW d \in StackWord, NEW e \in StackWord,
         NEW f \in StackWord
  PROVE  LET t == s \o <<d>> \o <<e>> \o <<f>> IN
         /\ t \in Seq(StackWord)
         /\ Len(t) = Len(s) + 3
         /\ t[Len(s) + 1] = d /\ t[Len(s) + 2] = e /\ t[Len(s) + 3] = f
         /\ \A k \in 1 .. Len(s) : t[k] = s[k]
  <1> DEFINE s1 == s \o <<d>>
             s2 == s1 \o <<e>>
             s3 == s2 \o <<f>>
  <1>1. /\ s1 \in Seq(StackWord) /\ Len(s1) = Len(s) + 1 /\ s1[Len(s) + 1] = d
        /\ \A k \in 1 .. Len(s) : s1[k] = s[k]
    BY Push
  <1> HIDE DEF s1
  <1>2. /\ s2 \in Seq(StackWord) /\ Len(s2) = Len(s1) + 1 /\ s2[Len(s1) + 1] = e
        /\ \A k \in 1 .. Len(s1) : s2[k] = s1[k]
    BY <1>1, Push
  <1> HIDE DEF s2
  <1>3. /\ s3 \in Seq(StackWord) /\ Len(s3) = Len(s2) + 1 /\ s3[Len(s2) + 1] = f
        /\ \A k \in 1 .. Len(s2) : s3[k] = s2[k]
    BY <1>2, Push
  <1>4. s \o <<d>> \o <<e>> \o <<f>> = s3
    BY DEF s1, s2
  <1> HIDE DEF s3
  <1>5. Len(s) \in Nat
    OBVIOUS
  <1>6. /\ s3 \in Seq(StackWord) /\ Len(s3) = Len(s) + 3
        /\ s3[Len(s) + 1] = d /\ s3[Len(s) + 2] = e /\ s3[Len(s) + 3] = f
        /\ \A k \in 1 .. Len(s) : s3[k] = s[k]
    BY <1>1, <1>2, <1>3, <1>5
  <1> QED
    BY <1>4, <1>6, Zenon

LEMMA Cut ==
  ASSUME NEW s \in Seq(StackWord), NEW k \in 0 .. Len(s)
  PROVE  /\ SubSeq(s, 1, k) \in Seq(StackWord)
         /\ Len(SubSeq(s, 1, k)) = k
         /\ \A j \in 1 .. k : SubSeq(s, 1, k)[j] = s[j]
  OBVIOUS

LEMMA Names ==
  /\ "eflags" \in StackName /\ "cs" \in StackName /\ "eip" \in StackName
  /\ "err" \in StackName /\ "int_no" \in StackName
  /\ "pushal" \in StackName /\ "ds" \in StackName
  /\ Len(Frame) = 3 /\ Frame[1] = "eflags" /\ Frame[2] = "cs" /\ Frame[3] = "eip"
  /\ Len(FrameErr) = 4 /\ FrameErr[1] = "eflags" /\ FrameErr[2] = "cs"
  /\ FrameErr[3] = "eip" /\ FrameErr[4] = "err"
  /\ Len(Saved) = 7 /\ Saved[1] = "eflags" /\ Saved[2] = "cs" /\ Saved[3] = "eip"
  /\ Saved[4] = "err" /\ Saved[5] = "int_no" /\ Saved[6] = "pushal" /\ Saved[7] = "ds"
  BY DEF Frame, FrameErr, Saved, StackName

(* isr_handler gets the vector the gate was entered with.                  *)
LEMMA RightVector ==
  ASSUME OnStack, at \in {"call", "report", "dead"} PROVE int_no = vector
  <1>1. Len(stack) = 7 /\ stack[5].val = vector
    BY Names DEF OnStack, Holds
  <1> QED
    BY <1>1 DEF int_no, Top

LEMMA OutsideThePath ==
  ASSUME OnStack, OnPath, UNCHANGED <<at, vector, cr2, stack>>, outside' \in BOOLEAN
  PROVE  OnStack' /\ OnPath'
  BY DEF OnStack, OnPath, Holds

LEMMA ExceptionPath ==
  ASSUME OnStack, OnPath, NEW v \in Vectors, Exception(v)
  PROVE  OnStack' /\ OnPath'
  <1>1. v \in 0 .. 17 /\ vector' = v /\ at' = "stub" /\ outside' = outside
    BY ExceptionsAssumption DEF Exception
  <1>2. cr2' \in 0 .. Word - 1
    BY ExceptionsAssumption DEF Exception, OnPath
  <1> DEFINE eflags == [what |-> "eflags", val |-> 0]
             cs == [what |-> "cs", val |-> 8]
             eip == [what |-> "eip", val |-> 0]
             err == [what |-> "err", val |-> 0]
             s == stack \o <<eflags>> \o <<cs>> \o <<eip>>
             s4 == s \o <<err>>
  <1>3. stack \in Seq(StackWord) /\ Len(stack) = 0
    BY DEF OnStack, Exception, Thread
  <1>4. /\ eflags \in StackWord /\ eflags.what = "eflags"
        /\ cs \in StackWord /\ cs.what = "cs"
        /\ eip \in StackWord /\ eip.what = "eip"
        /\ err \in StackWord /\ err.what = "err"
    BY DEF StackWord, StackName
  <1>5. stack' = s \o (IF v \in HasErrorCode THEN <<err>> ELSE <<>>)
    BY DEF Exception, Item
  <1> HIDE DEF eflags, cs, eip, err
  <1>6. /\ s \in Seq(StackWord) /\ Len(s) = 3
        /\ s[1] = eflags /\ s[2] = cs /\ s[3] = eip
    BY <1>3, <1>4, PushThree
  <1> HIDE DEF s
  <1>7. /\ s4 \in Seq(StackWord) /\ Len(s4) = 4 /\ s4[4] = err
        /\ s4[1] = eflags /\ s4[2] = cs /\ s4[3] = eip
    <2>1. /\ s4 \in Seq(StackWord) /\ Len(s4) = Len(s) + 1 /\ s4[Len(s) + 1] = err
          /\ \A k \in 1 .. Len(s) : s4[k] = s[k]
      BY <1>4, <1>6, Push
    <2> HIDE DEF s4
    <2> QED
      BY <1>6, <2>1
  <1>8. CASE v \in HasErrorCode
    <2>1. stack' = s4
      BY <1>5, <1>8
    <2> HIDE DEF s4
    <2>2. Holds(FrameErr)'
      BY <1>4, <1>7, <2>1, Names DEF Holds
    <2> QED
      BY <1>1, <1>2, <1>7, <1>8, <2>1, <2>2 DEF OnStack, OnPath
  <1>9. CASE v \notin HasErrorCode
    <2>1. stack' = s
      BY <1>5, <1>6, <1>9
    <2>2. Holds(Frame)'
      BY <1>4, <1>6, <2>1, Names DEF Holds
    <2> QED
      BY <1>1, <1>2, <1>6, <1>9, <2>1, <2>2 DEF OnStack, OnPath
  <1> QED
    BY <1>8, <1>9

(* After the stub there is a word for the error code in any case.          *)
LEMMA StubPath == ASSUME OnStack, OnPath, Stub PROVE OnStack' /\ OnPath'
  <1>1. vector \in 0 .. 17 /\ at = "stub" /\ at' = "call"
        /\ UNCHANGED <<vector, cr2, outside>>
    BY DEF OnPath, Stub
  <1> DEFINE err == [what |-> "err", val |-> 0]
             no == [what |-> "int_no", val |-> vector]
             regs == [what |-> "pushal", val |-> 0]
             ds == [what |-> "ds", val |-> 16]
             s == stack \o (IF vector \in ISR_ERRORCODE THEN <<>> ELSE <<err>>)
             t == s \o <<no>> \o <<regs>> \o <<ds>>
  <1>3. stack' = t
    BY DEF Stub, Item
  <1>4. /\ err \in StackWord /\ err.what = "err"
        /\ no \in StackWord /\ no.what = "int_no" /\ no.val = vector
        /\ regs \in StackWord /\ regs.what = "pushal"
        /\ ds \in StackWord /\ ds.what = "ds"
    BY <1>1 DEF StackWord, StackName
  <1> HIDE DEF err, no, regs, ds
  <1>2. /\ s \in Seq(StackWord) /\ Len(s) = 4
        /\ s[1].what = "eflags" /\ s[2].what = "cs" /\ s[3].what = "eip" /\ s[4].what = "err"
    <2>1. stack \in Seq(StackWord)
      BY DEF OnStack
    <2>2. CASE vector \in HasErrorCode
      <3>1. Holds(FrameErr)
        BY <1>1, <2>2 DEF OnStack
      <3>2. s = stack \o <<>>
        BY <1>1, <2>2, StubsAgree
      <3> HIDE DEF s
      <3>3. s = stack
        BY <2>1, <3>2
      <3> QED
        BY <2>1, <3>1, <3>3, Names DEF Holds
    <2>3. CASE vector \notin HasErrorCode
      <3>1. Holds(Frame)
        BY <1>1, <2>3 DEF OnStack
      <3>2. s = stack \o <<err>>
        BY <1>1, <2>3, StubsAgree
      <3>3. /\ Len(stack) = 3 /\ stack[1].what = "eflags" /\ stack[2].what = "cs"
            /\ stack[3].what = "eip"
        BY <3>1, Names DEF Holds
      <3> HIDE DEF s
      <3>4. /\ s \in Seq(StackWord) /\ Len(s) = Len(stack) + 1
            /\ s[Len(stack) + 1] = err
            /\ \A k \in 1 .. Len(stack) : s[k] = stack[k]
        BY <1>4, <2>1, <3>2, Push
      <3> QED
        BY <1>4, <3>3, <3>4
    <2> QED
      BY <2>2, <2>3
  <1> HIDE DEF s
  <1>5. /\ t \in Seq(StackWord) /\ Len(t) = 7
        /\ t[5] = no /\ t[6] = regs /\ t[7] = ds
        /\ \A k \in 1 .. 4 : t[k] = s[k]
    <2>1. /\ t \in Seq(StackWord) /\ Len(t) = Len(s) + 3
          /\ t[Len(s) + 1] = no /\ t[Len(s) + 2] = regs /\ t[Len(s) + 3] = ds
          /\ \A k \in 1 .. Len(s) : t[k] = s[k]
      BY <1>2, <1>4, PushThree
    <2> HIDE DEF t
    <2> QED
      BY <1>2, <2>1
  <1> HIDE DEF t
  <1>6. Holds(Saved)' /\ stack'[5].val = vector'
    BY <1>1, <1>2, <1>3, <1>4, <1>5, Names DEF Holds
  <1> QED
    BY <1>1, <1>3, <1>5, <1>6 DEF OnStack, OnPath

LEMMA HandlePath == ASSUME OnStack, OnPath, Handle PROVE OnStack' /\ OnPath'
  BY DEF Handle, OnStack, OnPath, Holds

LEMMA DiePath == ASSUME OnStack, OnPath, Die PROVE OnStack' /\ OnPath'
  BY DEF Die, OnStack, OnPath, Holds

LEMMA ReturnPath == ASSUME OnStack, OnPath, Return PROVE OnStack' /\ OnPath'
  <1>1. stack \in Seq(StackWord) /\ Holds(Saved) /\ Len(stack) = 7
    BY Names DEF OnStack, Return, Holds
  <1>2. stack' = SubSeq(stack, 1, 3)
    BY <1>1 DEF Return, Popped
  <1>3. /\ stack' \in Seq(StackWord) /\ Len(stack') = 3
        /\ \A j \in 1 .. 3 : stack'[j] = stack[j]
    BY <1>1, <1>2, Cut
  <1>4. Holds(Frame)'
    BY <1>1, <1>3, Names DEF Holds
  <1> QED
    BY <1>3, <1>4 DEF OnStack, OnPath, Return

LEMMA IretPath == ASSUME OnStack, OnPath, Iret PROVE OnStack' /\ OnPath'
  <1>1. stack \in Seq(StackWord) /\ Len(stack) = 3
    BY Names DEF OnStack, Iret, Holds
  <1>2. stack' = SubSeq(stack, 1, 0)
    BY <1>1 DEF Iret, Popped
  <1>3. stack' \in Seq(StackWord) /\ Len(stack') = 0
    BY <1>1, <1>2, Cut
  <1>4. stack' = <<>>
    BY <1>3
  <1> QED
    BY <1>3, <1>4 DEF OnStack, OnPath, Iret

LEMMA InitialPath == ASSUME Init PROVE OnStack /\ OnPath
  <1>1. at = "thread" /\ vector = 0 /\ cr2 = 0 /\ stack = <<>> /\ outside = FALSE
    BY DEF Init
  <1>2. 0 \in 0 .. Word - 1
    BY PrintfAssumption
  <1>3. OnPath
    <2>1. vector \in 0 .. 17
      BY <1>1
    <2>2. cr2 \in 0 .. Word - 1
      BY <1>1, <1>2
    <2>3. outside \in BOOLEAN
      BY <1>1
    <2> QED
      BY <1>1, <2>1, <2>2, <2>3 DEF OnPath
  <1>4. stack \in Seq(StackWord)
    BY <1>1
  <1> QED
    BY <1>1, <1>3, <1>4 DEF OnStack

LEMMA PathStep ==
  ASSUME OnStack, OnPath, [Next]_vars PROVE OnStack' /\ OnPath'
  <1>1. CASE UNCHANGED vars
    BY <1>1, OutsideThePath DEF vars, OnPath
  <1>2. CASE Thread /\ \E t \in Times : PrintTime(t)
    BY <1>2, OutsideThePath DEF PrintTime
  <1>3. CASE Thread /\ \E m \in Messages : Message(m)
    BY <1>3, OutsideThePath DEF Message
  <1>4. CASE \E v \in Vectors : Exception(v)
    BY <1>4, ExceptionPath
  <1>5. CASE Printing /\ UNCHANGED <<at, vector, cr2, stack, expected, outside>>
    BY <1>5, OutsideThePath DEF OnPath
  <1>6. CASE GoOn
    BY <1>6, OutsideThePath DEF GoOn
  <1> QED
    BY <1>1, <1>2, <1>3, <1>4, <1>5, <1>6, StubPath, HandlePath, DiePath,
       ReturnPath, IretPath DEF Next, Inside

(* What iretl finds is what the gate pushed: for each of the vectors 0 to  *)
(* 17 the macro of boot.S agrees with the processor about the error code.  *)
THEOREM FrameComesBack == Spec => []FrameRestored
  <1>1. OnStack => FrameRestored
    <2> SUFFICES ASSUME OnStack, at = "iret"
                 PROVE  [k \in 1 .. Len(stack) |-> stack[k].what] = <<"eflags", "cs", "eip">>
      BY DEF FrameRestored, OnStack
    <2> DEFINE names == [k \in 1 .. Len(stack) |-> stack[k].what]
    <2>1. Len(stack) = 3 /\ \A k \in 1 .. 3 : stack[k].what = Frame[k]
      BY Names DEF OnStack, Holds
    <2>2. names = [k \in 1 .. 3 |-> Frame[k]]
      BY <2>1
    <2>3. Frame = [k \in 1 .. 3 |-> Frame[k]]
      BY DEF Frame
    <2> QED
      BY <2>2, <2>3 DEF Frame
  <1> QED
    BY <1>1, InitialPath, PathStep, PTL DEF Spec

-----------------------------------------------------------------------------
(* Powers of 2, 10 and 16, as far as words and their digits go.            *)

(* A set of numbers has a least one; with it, induction over one set.      *)
LEMMA Least ==
  ASSUME NEW T \in SUBSET Nat, T # {}
  PROVE  \E x \in T : \A y \in T : x <= y
  <1> DEFINE R == OpToRel(<, Nat)
  <1>1. IsWellFoundedOn(R, Nat)
    BY NatLessThanWellFounded
  <1>2. \A y, x \in Nat : y < x => <<y, x>> \in R
    BY DEF OpToRel
  <1> HIDE DEF R
  <1>3. PICK x \in T : \A y \in T : ~ (<<y, x>> \in R)
    BY <1>1, WFMin
  <1>4. \A y \in T : ~(y < x)
    BY <1>2, <1>3
  <1> QED
    BY <1>4

(* What holds of 0, and of k + 1 if it does of k, holds up to m.           *)
LEMMA Climbing ==
  ASSUME NEW m \in Nat, NEW S, 0 \in S, \A k \in 0 .. m - 1 : k \in S => k + 1 \in S
  PROVE  0 .. m \subseteq S
  <1> DEFINE T == {k \in 0 .. m : k \notin S}
  <1> SUFFICES ASSUME T # {} PROVE FALSE
    OBVIOUS
  <1>1. PICK k \in T : \A l \in T : k <= l
    <2>1. T \in SUBSET Nat
      OBVIOUS
    <2> HIDE DEF T
    <2> QED
      BY <2>1, Least
  <1>2. k \in 0 .. m /\ k # 0 /\ k \notin S
    OBVIOUS
  <1>3. k - 1 \in 0 .. m - 1 /\ k - 1 \in 0 .. m /\ (k - 1) + 1 = k
    BY <1>2
  <1>4. k - 1 \in S
    BY <1>1, <1>3
  <1> QED
    BY <1>2, <1>3, <1>4

Bases == {2, 10, 16}
Most(b) == IF b = 2 THEN WordBits + 2 ELSE MostPlaces
Power(b, k) == b^k

LEMMA PlacesFacts ==
  /\ WordBits \in Nat /\ WordBits >= 8 /\ MostPlaces \in Nat \ {0}
  /\ 3 * MostPlaces <= WordBits + 2 /\ WordBits \div 4 \in Nat
  /\ 4 * (WordBits \div 4) = WordBits /\ WordBits \div 4 <= MostPlaces
  /\ \A k \in Nat : 3 * k < WordBits => k + 1 <= MostPlaces
  /\ \A b \in Bases : Most(b) \in Nat
  BY PrintfAssumption DEF MostPlaces, Most, Bases

(* The powers that are used are positive, and each is b times the last.    *)
LEMMA Powers ==
  ASSUME NEW b \in Bases
  PROVE  /\ Power(b, 0) = 1
         /\ \A k \in 0 .. Most(b) : Power(b, k) \in Nat \ {0}
         /\ \A k \in 0 .. Most(b) - 1 : Power(b, k + 1) = b * Power(b, k)
  <1>1. b^0 = 1 /\ \A k \in 1 .. Most(b) : b^k \in Nat /\ b^k = b * b^(k - 1)
    BY PowersAssumption DEF Bases, Most
  <1>2. Most(b) \in Nat
    BY PlacesFacts
  <1>3. Power(b, 0) = 1 /\ \A k \in 1 .. Most(b) : Power(b, k) = b * Power(b, k - 1)
    BY <1>1 DEF Power
  <1>4. ASSUME NEW k \in 0 .. Most(b) - 1 PROVE Power(b, k + 1) = b * Power(b, k)
    <2>1. k + 1 \in 1 .. Most(b) /\ (k + 1) - 1 = k
      BY <1>2
    <2> QED
      BY <1>3, <2>1
  <1> DEFINE S == {k \in 0 .. Most(b) : Power(b, k) \in Nat \ {0}}
  <1>5. 0 \in S
    BY <1>2, <1>3
  <1>6. ASSUME NEW k \in 0 .. Most(b) - 1, k \in S PROVE k + 1 \in S
    <2>1. k + 1 \in 0 .. Most(b) /\ Power(b, k) \in Nat \ {0}
      BY <1>2, <1>6
    <2>2. b \in Nat \ {0}
      BY DEF Bases
    <2>3. b * Power(b, k) \in Nat \ {0}
      BY <2>1 DEF Bases
    <2> QED
      BY <1>4, <2>1, <2>3
  <1> HIDE DEF S
  <1>7. 0 .. Most(b) \subseteq S
    BY <1>2, <1>5, <1>6, Climbing
  <1> QED
    BY <1>3, <1>4, <1>7 DEF S

LEMMA PowersGrow ==
  ASSUME NEW b \in Bases, NEW k \in 0 .. Most(b), NEW j \in 0 .. k
  PROVE  Power(b, j) <= Power(b, k)
  <1> DEFINE S == {m \in 0 .. Most(b) : \A l \in 0 .. m : Power(b, l) <= Power(b, m)}
  <1>1. Most(b) \in Nat
    BY PlacesFacts
  <1>2. 0 \in S
    <2>1. Power(b, 0) <= Power(b, 0)
      BY Powers
    <2> QED
      BY <1>1, <2>1
  <1>3. ASSUME NEW m \in 0 .. Most(b) - 1, m \in S PROVE m + 1 \in S
    <2>1. /\ m \in 0 .. Most(b) /\ m + 1 \in 0 .. Most(b)
          /\ \A l \in 0 .. m : Power(b, l) <= Power(b, m)
      BY <1>1, <1>3
    <2>2. /\ Power(b, m) \in Nat \ {0} /\ Power(b, m + 1) \in Nat
          /\ Power(b, m + 1) = b * Power(b, m)
      BY <2>1, Powers
    <2>3. Power(b, m) <= Power(b, m + 1)
      BY <2>2 DEF Bases
    <2>4. ASSUME NEW l \in 0 .. m + 1 PROVE Power(b, l) <= Power(b, m + 1)
      <3>1. CASE l = m + 1
        BY <2>2, <3>1
      <3>2. CASE l # m + 1
        <4>1. l \in 0 .. m /\ l \in 0 .. Most(b)
          BY <1>1, <3>2
        <4>2. Power(b, l) <= Power(b, m) /\ Power(b, l) \in Nat
          BY <2>1, <4>1, Powers
        <4> QED
          BY <2>2, <2>3, <4>2
      <3> QED
        BY <3>1, <3>2
    <2> QED
      BY <2>1, <2>4
  <1> HIDE DEF S
  <1>4. 0 .. Most(b) \subseteq S
    BY <1>1, <1>2, <1>3, Climbing
  <1> QED
    BY <1>4 DEF S

(* A digit of base 10 or 16 stands for at least three bits.                *)
LEMMA ThreeBits ==
  ASSUME NEW b \in {10, 16}, NEW k \in 0 .. MostPlaces
  PROVE  3 * k \in 0 .. Most(2) /\ Power(2, 3 * k) <= Power(b, k)
  <1> DEFINE S == {m \in 0 .. MostPlaces : Power(2, 3 * m) <= Power(b, m)}
  <1>1. /\ MostPlaces \in Nat /\ Most(2) \in Nat /\ Most(b) = MostPlaces
        /\ \A m \in 0 .. MostPlaces : 3 * m \in 0 .. Most(2)
    BY PlacesFacts DEF Most, Bases
  <1>2. b \in Bases /\ 2 \in Bases
    BY DEF Bases
  <1>3. 0 \in S
    <2>1. 3 * 0 = 0 /\ Power(2, 0) = 1 /\ Power(b, 0) = 1
      BY <1>2, Powers
    <2> QED
      BY <1>1, <2>1
  <1>4. ASSUME NEW m \in 0 .. MostPlaces - 1, m \in S PROVE m + 1 \in S
    <2>1. /\ m \in 0 .. MostPlaces /\ m + 1 \in 0 .. MostPlaces
          /\ m \in 0 .. Most(b) - 1 /\ m \in 0 .. Most(b)
          /\ Power(2, 3 * m) <= Power(b, m)
      BY <1>1, <1>4
    <2>2. Power(b, m) \in Nat /\ Power(b, m + 1) = b * Power(b, m)
      BY <1>2, <2>1, Powers
    <2>3. /\ 3 * m \in 0 .. Most(2) - 1 /\ 3 * m + 1 \in 0 .. Most(2) - 1
          /\ 3 * m + 2 \in 0 .. Most(2) - 1
          /\ (3 * m + 1) + 1 = 3 * m + 2 /\ (3 * m + 2) + 1 = 3 * (m + 1)
          /\ 3 * m \in 0 .. Most(2)
      BY <1>1, <2>1
    <2>4. /\ Power(2, 3 * m) \in Nat
          /\ Power(2, 3 * m + 1) = 2 * Power(2, 3 * m)
          /\ Power(2, 3 * m + 2) = 2 * Power(2, 3 * m + 1)
          /\ Power(2, 3 * (m + 1)) = 2 * Power(2, 3 * m + 2)
      BY <1>2, <2>3, Powers
    <2>5. Power(2, 3 * (m + 1)) = 8 * Power(2, 3 * m)
      BY <2>4
    <2>6. Power(2, 3 * (m + 1)) <= Power(b, m + 1)
      <3> DEFINE x == Power(2, 3 * m)
                 y == Power(b, m)
      <3>1. x \in Nat /\ y \in Nat /\ x <= y
        BY <2>1, <2>2, <2>4
      <3> HIDE DEF x, y
      <3>2. 8 * x <= b * y
        BY <3>1
      <3> QED
        BY <2>2, <2>5, <3>2 DEF x, y
    <2> QED
      BY <2>1, <2>6
  <1> HIDE DEF S
  <1>5. 0 .. MostPlaces \subseteq S
    BY <1>1, <1>3, <1>4, Climbing
  <1> QED
    BY <1>1, <1>5 DEF S

(* A digit of base 16 is four bits.                                        *)
LEMMA FourBits ==
  ASSUME NEW k \in 0 .. WordBits \div 4
  PROVE  4 * k \in 0 .. Most(2) /\ Power(2, 4 * k) = Power(16, k)
  <1> DEFINE q == WordBits \div 4
             S == {m \in 0 .. q : Power(2, 4 * m) = Power(16, m)}
  <1>1. /\ q \in Nat /\ Most(2) \in Nat /\ Most(16) = MostPlaces /\ q <= MostPlaces
        /\ MostPlaces \in Nat
        /\ \A m \in 0 .. q : 4 * m \in 0 .. Most(2)
    BY PlacesFacts DEF Most, Bases
  <1> HIDE DEF q
  <1>2. 16 \in Bases /\ 2 \in Bases
    BY DEF Bases
  <1>3. 0 \in S
    <2>1. 4 * 0 = 0 /\ Power(2, 0) = 1 /\ Power(16, 0) = 1
      BY <1>2, Powers
    <2> QED
      BY <1>1, <2>1
  <1>4. ASSUME NEW m \in 0 .. q - 1, m \in S PROVE m + 1 \in S
    <2>1. /\ m \in 0 .. q /\ m + 1 \in 0 .. q
          /\ m \in 0 .. Most(16) - 1 /\ m \in 0 .. Most(16)
          /\ Power(2, 4 * m) = Power(16, m)
      BY <1>1, <1>4
    <2>2. Power(16, m) \in Nat /\ Power(16, m + 1) = 16 * Power(16, m)
      BY <1>2, <2>1, Powers
    <2>3. /\ 4 * m \in 0 .. Most(2) - 1 /\ 4 * m + 1 \in 0 .. Most(2) - 1
          /\ 4 * m + 2 \in 0 .. Most(2) - 1 /\ 4 * m + 3 \in 0 .. Most(2) - 1
          /\ (4 * m + 1) + 1 = 4 * m + 2 /\ (4 * m + 2) + 1 = 4 * m + 3
          /\ (4 * m + 3) + 1 = 4 * (m + 1)
          /\ 4 * m \in 0 .. Most(2)
      BY <1>1, <2>1
    <2>4. /\ Power(2, 4 * m) \in Nat
          /\ Power(2, 4 * m + 1) = 2 * Power(2, 4 * m)
          /\ Power(2, 4 * m + 2) = 2 * Power(2, 4 * m + 1)
          /\ Power(2, 4 * m + 3) = 2 * Power(2, 4 * m + 2)
          /\ Power(2, 4 * (m + 1)) = 2 * Power(2, 4 * m + 3)
      BY <1>2, <2>3, Powers
    <2>5. Power(2, 4 * (m + 1)) = 16 * Power(2, 4 * m)
      BY <2>4
    <2> QED
      BY <2>1, <2>2, <2>5
  <1> HIDE DEF S
  <1>5. 0 .. q \subseteq S
    BY <1>1, <1>3, <1>4, Climbing
  <1> QED
    BY <1>1, <1>5 DEF S, q

-----------------------------------------------------------------------------
(* Digits by division.                                                     *)

LEMMA DivisionFacts ==
  ASSUME NEW x \in Nat, NEW d \in Nat \ {0}
  PROVE  /\ x \div d \in Nat /\ x % d \in 0 .. d - 1
         /\ x = d * (x \div d) + (x % d)
  OBVIOUS

LEMMA QuotientIs ==
  ASSUME NEW x \in Nat, NEW d \in Nat \ {0}, NEW q \in Nat, d * q <= x, x < d * (q + 1)
  PROVE  x \div d = q
  <1> DEFINE y == x \div d
             r == x % d
  <1>1. y \in Nat /\ r \in 0 .. d - 1 /\ x = d * y + r
    BY DivisionFacts
  <1> HIDE DEF y, r
  <1>2. ~(y < q)
    <2> SUFFICES ASSUME y < q PROVE FALSE
      OBVIOUS
    <2>1. y + 1 <= q
      BY <1>1
    <2>2. d * (y + 1) <= d * q
      BY <1>1, <2>1
    <2>3. d * (y + 1) = d * y + d
      BY <1>1
    <2> QED
      BY <1>1, <2>2, <2>3
  <1>3. ~(q < y)
    <2> SUFFICES ASSUME q < y PROVE FALSE
      OBVIOUS
    <2>1. q + 1 <= y
      BY <1>1
    <2>2. d * (q + 1) <= d * y
      BY <1>1, <2>1
    <2> QED
      BY <1>1, <2>2
  <1>4. y = q
    BY <1>1, <1>2, <1>3
  <1> QED
    BY <1>4 DEF y

(* Dividing by b once more.                                                *)
LEMMA DivideAgain ==
  ASSUME NEW x \in Nat, NEW d \in Nat \ {0}, NEW b \in {10, 16}
  PROVE  x \div (b * d) = (x \div d) \div b
  <1> DEFINE y == x \div d
             z == y \div b
  <1>1. y \in Nat /\ d * y <= x /\ x < d * (y + 1)
    <2>1. y \in Nat /\ x % d \in 0 .. d - 1 /\ x = d * y + (x % d)
      BY DivisionFacts
    <2> HIDE DEF y
    <2>2. d * (y + 1) = d * y + d
      BY <2>1
    <2> QED
      BY <2>1, <2>2
  <1> HIDE DEF y
  <1>2. z \in Nat /\ b * z <= y /\ y + 1 <= b * (z + 1)
    BY <1>1
  <1> HIDE DEF z
  <1>3. d * (b * z) <= d * y /\ d * (y + 1) <= d * (b * (z + 1))
    <2>1. b * z \in Nat /\ b * (z + 1) \in Nat
      BY <1>2
    <2>2. \A u, v \in Nat : u <= v => d * u <= d * v
      OBVIOUS
    <2> QED
      BY <1>1, <1>2, <2>1, <2>2
  <1>4. d * (b * z) = (b * d) * z /\ d * (b * (z + 1)) = (b * d) * (z + 1)
    BY <1>2
  <1>5. b * d \in Nat \ {0}
    OBVIOUS
  <1>6. (b * d) * z <= x /\ x < (b * d) * (z + 1)
    <2>1. d * y \in Nat /\ d * (y + 1) \in Nat /\ d * (b * z) \in Nat /\ d * (b * (z + 1)) \in Nat
      BY <1>1, <1>2
    <2> QED
      BY <1>1, <1>3, <1>4, <2>1
  <1>7. x \div (b * d) = z
    BY <1>2, <1>5, <1>6, QuotientIs
  <1> QED
    BY <1>7 DEF y, z

LEMMA SmallQuotient ==
  ASSUME NEW x \in Nat, NEW d \in Nat \ {0}
  PROVE  x \div d = 0 <=> x < d
  OBVIOUS

Drop(x, b, k) == x \div Power(b, k)

LEMMA Dropped ==
  ASSUME NEW x \in Nat, NEW b \in {10, 16}
  PROVE  /\ Drop(x, b, 0) = x
         /\ \A k \in 0 .. MostPlaces :
              Drop(x, b, k) \in Nat /\ (Drop(x, b, k) = 0 <=> x < Power(b, k))
         /\ \A k \in 0 .. MostPlaces - 1 : Drop(x, b, k + 1) = Drop(x, b, k) \div b
  <1>1. b \in Bases /\ Most(b) = MostPlaces /\ MostPlaces \in Nat
    BY PlacesFacts DEF Bases, Most
  <1>2. /\ Power(b, 0) = 1 /\ \A k \in 0 .. MostPlaces : Power(b, k) \in Nat \ {0}
        /\ \A k \in 0 .. MostPlaces - 1 : Power(b, k + 1) = b * Power(b, k)
    BY <1>1, Powers
  <1>3. x \div 1 = x
    OBVIOUS
  <1>4. Drop(x, b, 0) = x
    BY <1>2, <1>3 DEF Drop
  <1>5. ASSUME NEW k \in 0 .. MostPlaces
        PROVE  Drop(x, b, k) \in Nat /\ (Drop(x, b, k) = 0 <=> x < Power(b, k))
    BY <1>2, DivisionFacts, SmallQuotient DEF Drop
  <1>6. ASSUME NEW k \in 0 .. MostPlaces - 1 PROVE Drop(x, b, k + 1) = Drop(x, b, k) \div b
    <2>1. k \in 0 .. MostPlaces /\ Power(b, k) \in Nat \ {0}
      BY <1>1, <1>2
    <2>2. Power(b, k + 1) = b * Power(b, k)
      BY <1>2
    <2>3. x \div (b * Power(b, k)) = (x \div Power(b, k)) \div b
      BY <2>1, DivideAgain
    <2> QED
      BY <2>2, <2>3 DEF Drop
  <1> QED
    BY <1>4, <1>5, <1>6

(* A word that is not used up after k digits has another, and the          *)
(* definition of Numeral allows for it.                                    *)
LEMMA RoomForDigit ==
  ASSUME NEW x \in 0 .. Word - 1, NEW b \in {10, 16}, NEW k \in 0 .. MostPlaces,
         k > 0 => Drop(x, b, k) # 0
  PROVE  k + 1 <= MostPlaces
  <1>1. /\ WordBits \in Nat /\ MostPlaces \in Nat \ {0} /\ Most(2) = WordBits + 2
        /\ Most(b) = MostPlaces /\ b \in Bases /\ 2 \in Bases
        /\ \A m \in Nat : 3 * m < WordBits => m + 1 <= MostPlaces
    BY PlacesFacts DEF Bases, Most
  <1>2. Word = Power(2, WordBits) /\ Word \in Nat \ {0}
    BY PrintfAssumption DEF Word, Power
  <1>3. CASE k = 0
    BY <1>1, <1>3
  <1>4. CASE k # 0
    <2>1. Power(b, k) <= x /\ Power(b, k) \in Nat /\ x \in Nat /\ x < Word
      <3>1. ~(x < Power(b, k)) /\ x \in Nat /\ x < Word
        BY <1>2, <1>4, Dropped
      <3>2. Power(b, k) \in Nat
        BY <1>1, Powers
      <3> QED
        BY <3>1, <3>2
    <2>2. 3 * k \in 0 .. Most(2) /\ Power(2, 3 * k) <= Power(b, k) /\ Power(2, 3 * k) \in Nat
      BY <1>1, ThreeBits, Powers
    <2>3. ~(WordBits <= 3 * k)
      <3> SUFFICES ASSUME WordBits <= 3 * k PROVE FALSE
        OBVIOUS
      <3>1. WordBits \in 0 .. 3 * k
        BY <1>1, <2>2
      <3>2. Power(2, WordBits) <= Power(2, 3 * k)
        BY <1>1, <2>2, <3>1, PowersGrow
      <3> QED
        BY <1>2, <2>1, <2>2, <3>2
    <2> QED
      BY <1>1, <2>2, <2>3
  <1> QED
    BY <1>3, <1>4

(* There is one number of places.                                          *)
LEMMA PlacesAre ==
  ASSUME NEW x \in Nat, NEW b \in {10, 16}, NEW k \in 1 .. MostPlaces,
         x < Power(b, k), k = 1 \/ x >= Power(b, k - 1)
  PROVE  Places(x, b) = k
  <1> DEFINE Fit(l) == x < Power(b, l) /\ (l = 1 \/ x >= Power(b, l - 1))
  <1>1. MostPlaces \in Nat /\ Most(b) = MostPlaces /\ b \in Bases
    BY PlacesFacts DEF Bases, Most
  <1>2. ASSUME NEW j \in 1 .. MostPlaces, NEW l \in 1 .. MostPlaces, Fit(j), Fit(l), j < l
        PROVE  FALSE
    <2>1. j \in 0 .. l - 1 /\ l - 1 \in 0 .. Most(b) /\ j \in 0 .. Most(b) /\ l # 1
      BY <1>1, <1>2
    <2>2. Power(b, j) <= Power(b, l - 1) /\ Power(b, j) \in Nat /\ Power(b, l - 1) \in Nat
      BY <1>1, <2>1, PowersGrow, Powers
    <2> QED
      BY <1>2, <2>1, <2>2
  <1>3. \A l \in 1 .. MostPlaces : Fit(l) => l = k
    <2>1. Fit(k)
      OBVIOUS
    <2> HIDE DEF Fit
    <2>2. \A l \in 1 .. MostPlaces : Fit(l) => ~(l < k) /\ ~(k < l)
      BY <1>2, <2>1
    <2> QED
      BY <1>1, <2>2
  <1>4. Places(x, b) = CHOOSE l \in 1 .. MostPlaces : Fit(l)
    BY DEF Places, Power
  <1>5. Fit(k)
    OBVIOUS
  <1> HIDE DEF Fit
  <1> QED
    BY <1>3, <1>4, <1>5

(* The digits of a number from the k-th on.                                *)
LEMMA LowFacts ==
  ASSUME NEW x \in Nat, NEW b \in {10, 16}, NEW k \in 0 .. MostPlaces
  PROVE  /\ Len(LowDigits(x, b, k)) = k
         /\ \A j \in 1 .. k : LowDigits(x, b, k)[j] = Digit(Drop(x, b, k - j) % b)
  BY PlacesFacts DEF LowDigits, Drop, Power

-----------------------------------------------------------------------------
(* Formats, arguments and the text they make.                              *)

(* Every string that is a piece of a format, a name or a character.        *)
Text ==
  {"%", "s", "x", "d", "u", "c", ".", " ", ":", " UTC ", "\n", "z", "-", "(null)",
   "garbage", "Invalid Week", "Invalid Month", "Page Fault! ( ", "present ",
   ") at 0x", "Recieved interrupt:"}
  \cup {"Mon", "Tue", "Wed", "Thu", "Fri", "Sat", "Sun"}
  \cup {"Jan", "Feb", "Mar", "Apr", "May", "Jun", "Jul", "Aug", "Sept", "Oct", "Nov", "Dec"}
  \cup {"0", "1", "2", "3", "4", "5", "6", "7", "8", "9", "a", "b", "e", "f"}

Argument == [word : Int, str : Seq(Text)]

(* An int stands for itself only if it is one.                             *)
Fits(c, x) == c = "d" => x.word \in -(Word \div 2) .. (Word \div 2) - 1

(* A format, its arguments and the text they make.                         *)
Rendering == [fmt : Seq(Text), args : Seq(Argument), text : Seq(Text)]
Triple(f, a, t) == [fmt |-> f, args |-> a, text |-> t]

(* A set of lines that has, with each line, those with a piece or a        *)
(* conversion in front of it.                                              *)
Conversions == {"d", "u", "x", "s", "c"}

Closed(R) ==
  /\ Triple(<<>>, <<>>, <<>>) \in R
  /\ \A c \in Text \ {"%"}, r \in R :
       Triple(<<c>> \o r.fmt, r.args, <<c>> \o r.text) \in R
  /\ \A c \in Conversions, x \in Argument, r \in R :
       Fits(c, x) =>
         Triple(<<"%", c>> \o r.fmt, <<x>> \o r.args, Converted(c, x) \o r.text) \in R

(* The least such set: kprintf prints t for the format f with arguments a. *)
Renderings == {r \in Rendering : \A R \in SUBSET Rendering : Closed(R) => r \in R}
Prints(f, a, t) == Triple(f, a, t) \in Renderings

LEMMA DigitIsText == ASSUME NEW x \in 0 .. 15 PROVE Digit(x) \in Text
  <1> DEFINE t == <<"0", "1", "2", "3", "4", "5", "6", "7", "8", "9",
                    "a", "b", "c", "d", "e", "f">>
  <1>1. /\ "0" \in Text /\ "1" \in Text /\ "2" \in Text /\ "3" \in Text
        /\ "4" \in Text /\ "5" \in Text /\ "6" \in Text /\ "7" \in Text
        /\ "8" \in Text /\ "9" \in Text /\ "a" \in Text /\ "b" \in Text
        /\ "c" \in Text /\ "d" \in Text /\ "e" \in Text /\ "f" \in Text
    BY DEF Text
  <1>2. Len(t) = 16
    OBVIOUS
  <1>3. t \in Seq(Text)
    BY <1>1
  <1> HIDE DEF t
  <1>4. x + 1 \in 1 .. Len(t)
    BY <1>2
  <1>5. t[x + 1] \in Text
    BY <1>3, <1>4
  <1> QED
    BY <1>5 DEF Digit, t

LEMMA PiecesAreText ==
  /\ "%" \in Text /\ "s" \in Text /\ "x" \in Text /\ "d" \in Text /\ "u" \in Text
  /\ "c" \in Text /\ "." \in Text /\ " " \in Text /\ ":" \in Text
  /\ " UTC " \in Text /\ "\n" \in Text /\ "z" \in Text /\ "garbage" \in Text
  /\ "Invalid Week" \in Text /\ "Invalid Month" \in Text
  /\ "Page Fault! ( " \in Text /\ "present " \in Text /\ ") at 0x" \in Text
  /\ "Recieved interrupt:" \in Text /\ "-" \in Text /\ "(null)" \in Text
  BY DEF Text

LEMMA One ==
  ASSUME NEW S, NEW e \in S
  PROVE  <<e>> \in Seq(S) /\ Len(<<e>>) = 1 /\ <<e>>[1] = e /\ <<e>> # <<>>
  OBVIOUS

LEMMA Two ==
  ASSUME NEW S, NEW d \in S, NEW e \in S
  PROVE  /\ <<d, e>> \in Seq(S) /\ Len(<<d, e>>) = 2
         /\ <<d, e>>[1] = d /\ <<d, e>>[2] = e
  OBVIOUS

LEMMA Empty == \A S : <<>> \in Seq(S) /\ Len(<<>>) = 0
  OBVIOUS

LEMMA Concat ==
  ASSUME NEW S, NEW s \in Seq(S), NEW t \in Seq(S)
  PROVE  s \o t \in Seq(S) /\ s \o <<>> = s /\ <<>> \o s = s
  BY ConcatProperties, ConcatEmptySeq

LEMMA LowDigitsAreText ==
  ASSUME NEW x \in Nat, NEW b \in {10, 16}, NEW k \in 0 .. MostPlaces
  PROVE  LowDigits(x, b, k) \in Seq(Text)
  <1>1. ASSUME NEW j \in 1 .. k PROVE Digit(Drop(x, b, k - j) % b) \in Text
    <2>1. k - j \in 0 .. MostPlaces
      BY PlacesFacts
    <2>2. Drop(x, b, k - j) \in Nat
      BY <2>1, Dropped
    <2>3. Drop(x, b, k - j) % b \in 0 .. 15
      BY <2>2
    <2> QED
      BY <2>3, DigitIsText
  <1>2. LowDigits(x, b, k) = [j \in 1 .. k |-> Digit(Drop(x, b, k - j) % b)]
    BY DEF LowDigits, Drop, Power
  <1>3. k \in Nat
    BY PlacesFacts
  <1> QED
    BY <1>1, <1>2, <1>3

(* The highest digit comes first.                                          *)
LEMMA HighestFirst ==
  ASSUME NEW x \in Nat, NEW b \in {10, 16}, NEW k \in 0 .. MostPlaces - 1
  PROVE  LowDigits(x, b, k + 1) = <<Digit(Drop(x, b, k) % b)>> \o LowDigits(x, b, k)
  <1> DEFINE s == LowDigits(x, b, k + 1)
             t == LowDigits(x, b, k)
             c == Digit(Drop(x, b, k) % b)
             D(m) == Digit(Drop(x, b, m) % b)
  <1>1. k \in Nat /\ k \in 0 .. MostPlaces /\ k + 1 \in 0 .. MostPlaces
    BY PlacesFacts
  <1>2. /\ s \in Seq(Text) /\ t \in Seq(Text) /\ Len(s) = k + 1 /\ Len(t) = k
        /\ \A j \in 1 .. k + 1 : s[j] = D((k + 1) - j)
        /\ \A j \in 1 .. k : t[j] = D(k - j)
    <2>1. /\ s \in Seq(Text) /\ Len(s) = k + 1
          /\ \A j \in 1 .. k + 1 : s[j] = D((k + 1) - j)
      BY <1>1, LowDigitsAreText, LowFacts
    <2>2. t \in Seq(Text) /\ Len(t) = k /\ \A j \in 1 .. k : t[j] = D(k - j)
      BY <1>1, LowDigitsAreText, LowFacts
    <2> QED
      BY <2>1, <2>2, Zenon
  <1>3. c = D(k)
    OBVIOUS
  <1>4. s[1] = D(k)
    <2>1. 1 \in 1 .. k + 1 /\ (k + 1) - 1 = k
      BY <1>1
    <2> QED
      BY <1>2, <2>1
  <1>5. c \in Text
    <2>1. 1 \in 1 .. Len(s)
      BY <1>1, <1>2
    <2>2. s[1] \in Text
      BY <1>2, <2>1
    <2> QED
      BY <1>3, <1>4, <2>2
  <1> HIDE DEF s, t, c, D
  <1>6. ASSUME NEW j \in 1 .. k PROVE s[j + 1] = t[j]
    <2>1. j + 1 \in 1 .. k + 1 /\ (k + 1) - (j + 1) = k - j
      BY <1>1
    <2> QED
      BY <1>2, <2>1
  <1>7. s = <<c>> \o t
    BY <1>1, <1>2, <1>3, <1>4, <1>5, <1>6
  <1> QED
    BY <1>7 DEF s, t, c

LEMMA NumeralIs ==
  ASSUME NEW x \in 0 .. Word - 1, NEW b \in {10, 16}
  PROVE  Numeral(x, b) \in Seq(Text)
  <1> DEFINE T == {k \in 1 .. MostPlaces : x < Power(b, k)}
  <1>1. /\ MostPlaces \in Nat \ {0} /\ b \in Bases /\ Most(b) = MostPlaces
        /\ x \in Nat
    BY PlacesFacts, PrintfAssumption DEF Bases, Most
  <1>2. T # {}
    <2> SUFFICES ASSUME ~(x < Power(b, MostPlaces)) PROVE FALSE
      BY <1>1
    <2>1. MostPlaces \in 0 .. MostPlaces
      BY <1>1
    <2>2. Drop(x, b, MostPlaces) # 0
      BY <1>1, <2>1, Dropped
    <2>3. MostPlaces + 1 <= MostPlaces
      BY <2>1, <2>2, RoomForDigit
    <2> QED
      BY <1>1, <2>3
  <1>3. PICK k \in T : \A l \in T : k <= l
    <2>1. T \in SUBSET Nat
      BY <1>1
    <2> HIDE DEF T
    <2> QED
      BY <1>2, <2>1, Least
  <1>4. k \in 1 .. MostPlaces /\ x < Power(b, k)
    OBVIOUS
  <1>5. k = 1 \/ x >= Power(b, k - 1)
    <2> SUFFICES ASSUME k # 1 PROVE x >= Power(b, k - 1)
      OBVIOUS
    <2>1. k - 1 \in 1 .. MostPlaces /\ k - 1 < k /\ k - 1 \in 0 .. Most(b)
      BY <1>1, <1>4
    <2>2. ~(x < Power(b, k - 1))
      BY <1>3, <2>1
    <2>3. Power(b, k - 1) \in Nat
      BY <1>1, <2>1, Powers
    <2> QED
      BY <1>1, <2>2, <2>3
  <1>6. Places(x, b) = k
    BY <1>1, <1>4, <1>5, PlacesAre
  <1>7. k \in 0 .. MostPlaces
    BY <1>4
  <1> QED
    BY <1>1, <1>6, <1>7, LowDigitsAreText DEF Numeral

LEMMA WordFacts ==
  /\ Word \in Nat \ {0} /\ 0 \in 0 .. Word - 1 /\ 256 <= Word
  /\ WordBits \in Nat /\ 0 \in 0 .. WordBits - 4
  <1>1. WordBits \in Nat /\ WordBits >= 8 /\ Word \in Nat \ {0}
    BY PrintfAssumption
  <1>2. 8 \in 0 .. WordBits /\ WordBits \in 0 .. Most(2) /\ 2 \in Bases /\ 8 \in 0 .. Most(2)
    BY <1>1 DEF Most, Bases
  <1>3. Power(2, 8) <= Power(2, WordBits)
    BY <1>2, PowersGrow
  <1>4. Power(2, 8) = 256
    BY DEF Power
  <1> QED
    BY <1>1, <1>3, <1>4 DEF Word, Power

(* What a conversion prints is text.                                       *)
LEMMA Remainder ==
  ASSUME NEW x \in Int, NEW m \in Nat \ {0} PROVE x % m \in 0 .. m - 1
  OBVIOUS

LEMMA ConvertedText ==
  ASSUME NEW c \in Conversions, NEW x \in Argument, Fits(c, x)
  PROVE  Converted(c, x) \in Seq(Text)
  <1>1. x.word \in Int /\ x.str \in Seq(Text)
    BY DEF Argument
  <1>2. CASE c = "d"
    <2>1. /\ x.word < 0 => -x.word \in 0 .. Word - 1
          /\ ~(x.word < 0) => x.word \in 0 .. Word - 1
      BY <1>1, <1>2, WordFacts DEF Fits
    <2>2. <<"-">> \in Seq(Text)
      BY PiecesAreText, One
    <2>3. CASE x.word < 0
      <3>1. Converted(c, x) = <<"-">> \o Numeral(-x.word, 10)
        BY <1>2, <2>3 DEF Converted
      <3>2. Numeral(-x.word, 10) \in Seq(Text)
        BY <2>1, <2>3, NumeralIs
      <3> QED
        BY <2>2, <3>1, <3>2, Concat
    <2>4. CASE ~(x.word < 0)
      <3>1. Converted(c, x) = Numeral(x.word, 10)
        BY <1>2, <2>4 DEF Converted
      <3> QED
        BY <2>1, <2>4, <3>1, NumeralIs
    <2> QED
      BY <2>3, <2>4
  <1>3. CASE c \in {"u", "x"}
    <2>1. x.word % Word \in 0 .. Word - 1
      BY <1>1, WordFacts, Remainder
    <2>2. Converted(c, x) \in {Numeral(x.word % Word, 10), Numeral(x.word % Word, 16)}
      BY <1>3 DEF Converted
    <2> QED
      BY <2>1, <2>2, NumeralIs
  <1>4. CASE c = "s"
    <2>1. <<"(null)">> \in Seq(Text)
      BY PiecesAreText, One
    <2>2. Converted(c, x) \in {<<"(null)">>, x.str}
      BY <1>4 DEF Converted
    <2> QED
      BY <1>1, <2>1, <2>2
  <1>5. CASE c = "c"
    <2>1. Converted(c, x) = x.str
      BY <1>5 DEF Converted
    <2> QED
      BY <1>1, <2>1
  <1> QED
    BY <1>2, <1>3, <1>4, <1>5 DEF Conversions

LEMMA TripleFacts ==
  ASSUME NEW f, NEW a, NEW t
  PROVE  /\ Triple(f, a, t).fmt = f /\ Triple(f, a, t).args = a /\ Triple(f, a, t).text = t
         /\ Triple(f, a, t) \in Rendering
            <=> f \in Seq(Text) /\ a \in Seq(Argument) /\ t \in Seq(Text)
  BY DEF Triple, Rendering

LEMMA LineIsTriple ==
  ASSUME NEW r \in Rendering PROVE r = Triple(r.fmt, r.args, r.text)
  BY DEF Triple, Rendering

LEMMA PieceLine ==
  ASSUME NEW r \in Rendering, NEW c \in Text
  PROVE  Triple(<<c>> \o r.fmt, r.args, <<c>> \o r.text) \in Rendering
  <1>1. r.fmt \in Seq(Text) /\ r.args \in Seq(Argument) /\ r.text \in Seq(Text)
    BY DEF Rendering
  <1>2. <<c>> \in Seq(Text)
    BY One
  <1>3. <<c>> \o r.fmt \in Seq(Text) /\ <<c>> \o r.text \in Seq(Text)
    BY <1>1, <1>2, Concat
  <1> QED
    BY <1>1, <1>3, TripleFacts

LEMMA Assoc ==
  \A S : \A s, t, u \in Seq(S) : (s \o t) \o u = s \o (t \o u)
  BY ConcatAssociative

LEMMA ConversionFacts ==
  ASSUME NEW c \in Conversions
  PROVE  c \in Text /\ "%" \in Text /\ <<"%", c>> \in Seq(Text)
  <1>1. c \in Text /\ "%" \in Text
    BY PiecesAreText DEF Conversions
  <1> QED
    BY <1>1, Two

LEMMA ConversionLine ==
  ASSUME NEW r \in Rendering, NEW c \in Conversions, NEW x \in Argument, Fits(c, x)
  PROVE  Triple(<<"%", c>> \o r.fmt, <<x>> \o r.args, Converted(c, x) \o r.text) \in Rendering
  <1>1. r.fmt \in Seq(Text) /\ r.args \in Seq(Argument) /\ r.text \in Seq(Text)
    BY DEF Rendering
  <1>3. <<"%", c>> \in Seq(Text) /\ <<x>> \in Seq(Argument)
    BY ConversionFacts, One
  <1>4. Converted(c, x) \in Seq(Text)
    BY ConvertedText
  <1>5. /\ <<"%", c>> \o r.fmt \in Seq(Text) /\ <<x>> \o r.args \in Seq(Argument)
        /\ Converted(c, x) \o r.text \in Seq(Text)
    BY <1>1, <1>3, <1>4, Concat
  <1> QED
    BY <1>5, TripleFacts

LEMMA RenderingsClosed == Closed(Renderings)
  <1>1. Triple(<<>>, <<>>, <<>>) \in Renderings
    <2>1. Triple(<<>>, <<>>, <<>>) \in Rendering
      BY TripleFacts, Empty
    <2>2. \A R \in SUBSET Rendering : Closed(R) => Triple(<<>>, <<>>, <<>>) \in R
      BY DEF Closed
    <2> QED
      BY <2>1, <2>2 DEF Renderings
  <1>2. ASSUME NEW c \in Text \ {"%"}, NEW r \in Renderings
        PROVE  Triple(<<c>> \o r.fmt, r.args, <<c>> \o r.text) \in Renderings
    <2>1. r \in Rendering /\ \A R \in SUBSET Rendering : Closed(R) => r \in R
      BY DEF Renderings
    <2>2. Triple(<<c>> \o r.fmt, r.args, <<c>> \o r.text) \in Rendering
      BY <2>1, PieceLine
    <2>3. \A R \in SUBSET Rendering : Closed(R) =>
            Triple(<<c>> \o r.fmt, r.args, <<c>> \o r.text) \in R
      BY <2>1 DEF Closed
    <2> QED
      BY <2>2, <2>3 DEF Renderings
  <1>3. ASSUME NEW c \in Conversions, NEW x \in Argument, NEW r \in Renderings, Fits(c, x)
        PROVE  Triple(<<"%", c>> \o r.fmt, <<x>> \o r.args, Converted(c, x) \o r.text)
                  \in Renderings
    <2>1. r \in Rendering /\ \A R \in SUBSET Rendering : Closed(R) => r \in R
      BY DEF Renderings
    <2>2. Triple(<<"%", c>> \o r.fmt, <<x>> \o r.args, Converted(c, x) \o r.text) \in Rendering
      BY <1>3, <2>1, ConversionLine
    <2>3. \A R \in SUBSET Rendering : Closed(R) =>
            Triple(<<"%", c>> \o r.fmt, <<x>> \o r.args, Converted(c, x) \o r.text) \in R
      BY <1>3, <2>1 DEF Closed
    <2> QED
      BY <2>2, <2>3 DEF Renderings
  <1> QED
    BY <1>1, <1>2, <1>3 DEF Closed

LEMMA LeastRenderings ==
  ASSUME NEW R, R \subseteq Rendering, Closed(R) PROVE Renderings \subseteq R
  BY DEF Renderings

LEMMA PrintsTyped ==
  ASSUME NEW f, NEW a, NEW t, Prints(f, a, t)
  PROVE  f \in Seq(Text) /\ a \in Seq(Argument) /\ t \in Seq(Text)
  BY TripleFacts DEF Prints, Renderings

LEMMA PrintsNothing == Prints(<<>>, <<>>, <<>>)
  BY RenderingsClosed DEF Closed, Prints

(* A line is empty, or begins with a piece or with a conversion.           *)
BeginsWithPiece(f, a, t) ==
  \E c \in Text \ {"%"}, g \in Seq(Text), u \in Seq(Text) :
    Prints(g, a, u) /\ f = <<c>> \o g /\ t = <<c>> \o u

BeginsWithConversion(f, a, t) ==
  \E c \in Conversions, x \in Argument,
     g \in Seq(Text), b \in Seq(Argument), u \in Seq(Text) :
    /\ Fits(c, x) /\ Prints(g, b, u)
    /\ f = <<"%", c>> \o g /\ a = <<x>> \o b /\ t = Converted(c, x) \o u

(* A format that prints text is empty or begins in one of two ways.        *)
LEMMA LineBegins ==
  ASSUME NEW f, NEW a, NEW t, Prints(f, a, t)
  PROVE  \/ f = <<>> /\ a = <<>> /\ t = <<>>
         \/ BeginsWithPiece(f, a, t)
         \/ BeginsWithConversion(f, a, t)
  <1> DEFINE Begun(r) ==
        \/ r = Triple(<<>>, <<>>, <<>>)
        \/ \E c \in Text \ {"%"}, s \in Renderings :
             r = Triple(<<c>> \o s.fmt, s.args, <<c>> \o s.text)
        \/ \E c \in Conversions, x \in Argument, s \in Renderings :
             /\ Fits(c, x)
             /\ r = Triple(<<"%", c>> \o s.fmt, <<x>> \o s.args, Converted(c, x) \o s.text)
             R == {r \in Renderings : Begun(r)}
  <1>1. R \subseteq Rendering
    BY DEF Renderings
  <1>2. Closed(R)
    <2>1. Triple(<<>>, <<>>, <<>>) \in R
      BY RenderingsClosed DEF Closed
    <2>2. ASSUME NEW c \in Text \ {"%"}, NEW r \in R
          PROVE  Triple(<<c>> \o r.fmt, r.args, <<c>> \o r.text) \in R
      <3>1. r \in Renderings
        OBVIOUS
      <3>2. Triple(<<c>> \o r.fmt, r.args, <<c>> \o r.text) \in Renderings
        BY <3>1, RenderingsClosed DEF Closed
      <3>3. Begun(Triple(<<c>> \o r.fmt, r.args, <<c>> \o r.text))
        BY <3>1, Zenon
      <3> QED
        BY <3>2, <3>3
    <2>3. ASSUME NEW c \in Conversions, NEW x \in Argument, NEW r \in R, Fits(c, x)
          PROVE  Triple(<<"%", c>> \o r.fmt, <<x>> \o r.args, Converted(c, x) \o r.text) \in R
      <3>1. r \in Renderings
        OBVIOUS
      <3>2. Triple(<<"%", c>> \o r.fmt, <<x>> \o r.args, Converted(c, x) \o r.text) \in Renderings
        BY <2>3, <3>1, RenderingsClosed DEF Closed
      <3>3. Begun(Triple(<<"%", c>> \o r.fmt, <<x>> \o r.args, Converted(c, x) \o r.text))
        BY <2>3, <3>1, Zenon
      <3> QED
        BY <3>2, <3>3
    <2> HIDE DEF R
    <2> QED
      BY <2>1, <2>2, <2>3 DEF Closed
  <1>3. Triple(f, a, t) \in R
    <2> HIDE DEF R
    <2> QED
      BY <1>1, <1>2, LeastRenderings DEF Prints
  <1>4. Begun(Triple(f, a, t))
    BY <1>3
  <1>5. ASSUME NEW s \in Renderings PROVE Prints(s.fmt, s.args, s.text)
    <2>1. s = Triple(s.fmt, s.args, s.text)
      BY LineIsTriple DEF Renderings
    <2> QED
      BY <2>1 DEF Prints
  <1>6. CASE Triple(f, a, t) = Triple(<<>>, <<>>, <<>>)
    BY <1>6 DEF Triple
  <1>7. CASE \E c \in Text \ {"%"}, s \in Renderings :
               Triple(f, a, t) = Triple(<<c>> \o s.fmt, s.args, <<c>> \o s.text)
    <2>1. PICK c \in Text \ {"%"}, s \in Renderings :
               Triple(f, a, t) = Triple(<<c>> \o s.fmt, s.args, <<c>> \o s.text)
      BY <1>7
    <2>2. f = <<c>> \o s.fmt /\ a = s.args /\ t = <<c>> \o s.text
      BY <2>1 DEF Triple
    <2>3. Prints(s.fmt, s.args, s.text)
      BY <1>5
    <2>4. s.fmt \in Seq(Text) /\ s.text \in Seq(Text)
      BY <2>3, PrintsTyped
    <2> QED
      BY <2>2, <2>3, <2>4 DEF BeginsWithPiece
  <1>8. CASE \E c \in Conversions, x \in Argument, s \in Renderings :
               /\ Fits(c, x)
               /\ Triple(f, a, t) =
                    Triple(<<"%", c>> \o s.fmt, <<x>> \o s.args, Converted(c, x) \o s.text)
    <2>1. PICK c \in Conversions, x \in Argument, s \in Renderings :
               /\ Fits(c, x)
               /\ Triple(f, a, t) =
                    Triple(<<"%", c>> \o s.fmt, <<x>> \o s.args, Converted(c, x) \o s.text)
      BY <1>8
    <2>2. f = <<"%", c>> \o s.fmt /\ a = <<x>> \o s.args /\ t = Converted(c, x) \o s.text
      BY <2>1 DEF Triple
    <2>3. Prints(s.fmt, s.args, s.text)
      BY <1>5
    <2>4. s.fmt \in Seq(Text) /\ s.args \in Seq(Argument) /\ s.text \in Seq(Text)
      BY <2>3, PrintsTyped
    <2> QED
      BY <2>1, <2>2, <2>3, <2>4 DEF BeginsWithConversion
  <1> QED
    BY <1>4, <1>6, <1>7, <1>8

(* Renderings one behind the other.                                        *)
LEMMA TextAssoc ==
  ASSUME NEW s \in Seq(Text), NEW t \in Seq(Text), NEW u \in Seq(Text)
  PROVE  (s \o t) \o u = s \o (t \o u)
  BY Assoc

(* Brackets around concatenations may be moved.                            *)
Regrouped(r, s, t) == (r \o s) \o t = r \o (s \o t)

LEMMA TextRegroups ==
  \A r, s, t \in Seq(Text) : Regrouped(r, s, t)
  BY TextAssoc, Zenon DEF Regrouped
LEMMA ArgumentAssoc ==
  ASSUME NEW s \in Seq(Argument), NEW t \in Seq(Argument), NEW u \in Seq(Argument)
  PROVE  (s \o t) \o u = s \o (t \o u)
  BY Assoc

(* Two formats one behind the other print both texts.                      *)
LEMMA PrintsBoth ==
  ASSUME NEW f, NEW a, NEW t, NEW g, NEW b, NEW u, Prints(f, a, t), Prints(g, b, u)
  PROVE  Prints(f \o g, a \o b, t \o u)
  <1> DEFINE R == {r \in Renderings : Prints(r.fmt \o g, r.args \o b, r.text \o u)}
  <1>1. g \in Seq(Text) /\ b \in Seq(Argument) /\ u \in Seq(Text)
    BY PrintsTyped
  <1>2. Closed(R)
    <2>1. Triple(<<>>, <<>>, <<>>) \in R
      <3>1. Triple(<<>>, <<>>, <<>>) \in Renderings
        BY RenderingsClosed DEF Closed
      <3>2. <<>> \o g = g /\ <<>> \o b = b /\ <<>> \o u = u
        BY <1>1, Concat
      <3>3. Prints(<<>> \o g, <<>> \o b, <<>> \o u)
        BY <3>2
      <3> QED
        BY <3>1, <3>3, TripleFacts
    <2>2. ASSUME NEW c \in Text \ {"%"}, NEW r \in R
          PROVE  Triple(<<c>> \o r.fmt, r.args, <<c>> \o r.text) \in R
      <3>1. r \in Renderings /\ Prints(r.fmt \o g, r.args \o b, r.text \o u)
        OBVIOUS
      <3>2. r.fmt \in Seq(Text) /\ r.text \in Seq(Text)
        BY <3>1 DEF Renderings, Rendering
      <3>3. <<c>> \in Seq(Text)
        BY One
      <3>4. /\ (<<c>> \o r.fmt) \o g = <<c>> \o (r.fmt \o g)
            /\ (<<c>> \o r.text) \o u = <<c>> \o (r.text \o u)
        BY <1>1, <3>2, <3>3, TextAssoc, Zenon
      <3> DEFINE s == Triple(r.fmt \o g, r.args \o b, r.text \o u)
                 w == Triple(<<c>> \o r.fmt, r.args, <<c>> \o r.text)
      <3>5. s \in Renderings
        BY <3>1 DEF Prints
      <3>6. Triple(<<c>> \o s.fmt, s.args, <<c>> \o s.text) \in Renderings /\ w \in Renderings
        BY <3>1, <3>5, RenderingsClosed DEF Closed
      <3>7. Prints(<<c>> \o (r.fmt \o g), r.args \o b, <<c>> \o (r.text \o u))
        BY <3>6, TripleFacts DEF Prints
      <3>8. Prints(w.fmt \o g, w.args \o b, w.text \o u)
        <4>1. w.fmt = <<c>> \o r.fmt /\ w.args = r.args /\ w.text = <<c>> \o r.text
          BY DEF Triple
        <4> HIDE DEF w
        <4> QED
          BY <3>4, <3>7, <4>1
      <3> QED
        BY <3>6, <3>8
    <2>3. ASSUME NEW c \in Conversions, NEW x \in Argument, NEW r \in R, Fits(c, x)
          PROVE  Triple(<<"%", c>> \o r.fmt, <<x>> \o r.args, Converted(c, x) \o r.text) \in R
      <3>1. r \in Renderings /\ Prints(r.fmt \o g, r.args \o b, r.text \o u)
        OBVIOUS
      <3>2. r.fmt \in Seq(Text) /\ r.args \in Seq(Argument) /\ r.text \in Seq(Text)
        BY <3>1 DEF Renderings, Rendering
      <3>3. <<"%", c>> \in Seq(Text) /\ <<x>> \in Seq(Argument) /\ Converted(c, x) \in Seq(Text)
        BY <2>3, One, ConversionFacts, ConvertedText
      <3>4. /\ (<<"%", c>> \o r.fmt) \o g = <<"%", c>> \o (r.fmt \o g)
            /\ (<<x>> \o r.args) \o b = <<x>> \o (r.args \o b)
            /\ (Converted(c, x) \o r.text) \o u = Converted(c, x) \o (r.text \o u)
        <4>1. (<<"%", c>> \o r.fmt) \o g = <<"%", c>> \o (r.fmt \o g)
          <5>1. <<"%", c>> \in Seq(Text) /\ r.fmt \in Seq(Text) /\ g \in Seq(Text)
            BY <1>1, <3>2, <3>3
          <5>2. Regrouped(<<"%", c>>, r.fmt, g)
            BY <5>1, TextRegroups, Zenon
          <5> QED
            BY <5>2, Zenon DEF Regrouped
        <4>2. (<<x>> \o r.args) \o b = <<x>> \o (r.args \o b)
          BY <1>1, <3>2, <3>3, ArgumentAssoc, Zenon
        <4>3. (Converted(c, x) \o r.text) \o u = Converted(c, x) \o (r.text \o u)
          <5>1. Converted(c, x) \in Seq(Text) /\ r.text \in Seq(Text) /\ u \in Seq(Text)
            BY <1>1, <3>2, <3>3
          <5>2. Regrouped(Converted(c, x), r.text, u)
            BY <5>1, TextRegroups, Zenon
          <5> QED
            BY <5>2, Zenon DEF Regrouped
        <4> QED
          BY <4>1, <4>2, <4>3, Zenon
      <3> DEFINE s == Triple(r.fmt \o g, r.args \o b, r.text \o u)
                 w == Triple(<<"%", c>> \o r.fmt, <<x>> \o r.args, Converted(c, x) \o r.text)
      <3>5. s \in Renderings
        BY <3>1 DEF Prints
      <3>6. /\ Triple(<<"%", c>> \o s.fmt, <<x>> \o s.args, Converted(c, x) \o s.text)
                  \in Renderings
            /\ w \in Renderings
        BY <2>3, <3>1, <3>5, RenderingsClosed DEF Closed
      <3>7. Prints(<<"%", c>> \o (r.fmt \o g), <<x>> \o (r.args \o b),
                   Converted(c, x) \o (r.text \o u))
        BY <3>6, TripleFacts DEF Prints
      <3>8. Prints(w.fmt \o g, w.args \o b, w.text \o u)
        <4>1. /\ w.fmt = <<"%", c>> \o r.fmt /\ w.args = <<x>> \o r.args
              /\ w.text = Converted(c, x) \o r.text
          BY DEF Triple
        <4> HIDE DEF w
        <4> QED
          BY <3>4, <3>7, <4>1
      <3> QED
        BY <3>6, <3>8
    <2> HIDE DEF R
    <2> QED
      BY <2>1, <2>2, <2>3 DEF Closed
  <1>3. R \subseteq Rendering
    BY DEF Renderings
  <1>4. Triple(f, a, t) \in R
    <2> HIDE DEF R
    <2> QED
      BY <1>2, <1>3, LeastRenderings DEF Prints
  <1> QED
    BY <1>4, TripleFacts

LEMMA PrintsPiece ==
  ASSUME NEW c \in Text, c # "%" PROVE Prints(<<c>>, <<>>, <<c>>)
  <1> DEFINE r == Triple(<<>>, <<>>, <<>>)
  <1>1. r \in Renderings
    BY RenderingsClosed DEF Closed
  <1>2. Triple(<<c>> \o r.fmt, r.args, <<c>> \o r.text) \in Renderings
    BY <1>1, RenderingsClosed DEF Closed
  <1>3. <<c>> \o <<>> = <<c>>
    BY One, Concat
  <1>4. r.fmt = <<>> /\ r.args = <<>> /\ r.text = <<>>
    BY TripleFacts
  <1> HIDE DEF r
  <1> QED
    BY <1>2, <1>3, <1>4 DEF Prints

LEMMA PrintsConversion ==
  ASSUME NEW c \in Conversions, NEW x \in Argument, Fits(c, x)
  PROVE  Prints(<<"%", c>>, <<x>>, Converted(c, x))
  <1> DEFINE r == Triple(<<>>, <<>>, <<>>)
  <1>1. r \in Renderings
    BY RenderingsClosed DEF Closed
  <1>2. Triple(<<"%", c>> \o r.fmt, <<x>> \o r.args, Converted(c, x) \o r.text) \in Renderings
    BY <1>1, RenderingsClosed DEF Closed
  <1>3. <<"%", c>> \in Seq(Text) /\ <<x>> \in Seq(Argument) /\ Converted(c, x) \in Seq(Text)
    BY One, ConversionFacts, ConvertedText
  <1>4. /\ <<"%", c>> \o <<>> = <<"%", c>> /\ <<x>> \o <<>> = <<x>>
        /\ Converted(c, x) \o <<>> = Converted(c, x)
    BY <1>3, Concat
  <1>5. r.fmt = <<>> /\ r.args = <<>> /\ r.text = <<>>
    BY TripleFacts
  <1> HIDE DEF r
  <1> QED
    BY <1>2, <1>4, <1>5 DEF Prints

-----------------------------------------------------------------------------
(* What a turn of kprintf takes from a format and its arguments.           *)

LEMMA TailFacts ==
  ASSUME NEW S, NEW s \in Seq(S), s # <<>>
  PROVE  /\ Tail(s) \in Seq(S) /\ Head(s) \in S /\ Head(s) = s[1]
         /\ Len(s) \in Nat \ {0}
         /\ Len(Tail(s)) = Len(s) - 1
         /\ \A j \in 1 .. Len(s) - 1 : Tail(s)[j] = s[j + 1]
  OBVIOUS

LEMMA DropTwo ==
  ASSUME NEW S, NEW s \in Seq(S), Len(s) >= 2
  PROVE  /\ SubSeq(s, 3, Len(s)) \in Seq(S)
         /\ Len(SubSeq(s, 3, Len(s))) = Len(s) - 2
         /\ \A j \in 1 .. Len(s) - 2 : SubSeq(s, 3, Len(s))[j] = s[j + 2]
  <1> DEFINE t == SubSeq(s, 3, Len(s))
  <1>1. Len(s) \in Nat
    OBVIOUS
  <1>2. \A k \in 3 .. Len(s) : s[k] \in S
    OBVIOUS
  <1>3. t \in Seq(S)
    BY <1>1, <1>2, SubSeqProperties
  <1>4. Len(t) = Len(s) - 2
    <2>1. Len(t) = IF 3 <= Len(s) THEN Len(s) - 3 + 1 ELSE 0
      BY <1>1, <1>2, SubSeqProperties
    <2> HIDE DEF t
    <2> DEFINE k == Len(s)
               m == Len(t)
    <2>2. k \in Nat /\ k >= 2 /\ m = IF 3 <= k THEN k - 3 + 1 ELSE 0
      BY <1>1, <2>1
    <2> HIDE DEF k, m
    <2>3. m = k - 2
      BY <2>2
    <2> QED
      BY <2>3 DEF k, m
  <1>5. \A j \in 1 .. Len(s) - 2 : t[j] = s[3 + j - 1]
    BY <1>1, <1>2, <1>4, SubSeqProperties
  <1> HIDE DEF t
  <1>6. \A j \in 1 .. Len(s) - 2 : t[j] = s[j + 2]
    BY <1>1, <1>5
  <1> QED
    BY <1>3, <1>4, <1>6 DEF t

LEMMA FrontFacts ==
  ASSUME NEW S, NEW c \in S, NEW g \in Seq(S)
  PROVE  /\ <<c>> \o g # <<>> /\ Head(<<c>> \o g) = c /\ Tail(<<c>> \o g) = g
  <1>1. <<c>> \o g \in Seq(S) /\ Len(<<c>> \o g) = 1 + Len(g) /\ Len(g) \in Nat
    BY One, ConcatProperties
  <1>2. Head(<<c>> \o g) = c
    OBVIOUS
  <1>3. Tail(<<c>> \o g) = g
    OBVIOUS
  <1> QED
    BY <1>1, <1>2, <1>3

LEMMA PairFacts ==
  ASSUME NEW S, NEW c \in S, NEW d \in S, NEW g \in Seq(S)
  PROVE  LET s == <<c, d>> \o g IN
         /\ s # <<>> /\ Head(s) = c /\ s[2] = d /\ Len(s) >= 2
         /\ SubSeq(s, 3, Len(s)) = g
  <1> DEFINE s == <<c, d>> \o g
             h == SubSeq(s, 3, Len(s))
  <1>1. <<c, d>> \in Seq(S) /\ Len(<<c, d>>) = 2 /\ <<c, d>>[1] = c /\ <<c, d>>[2] = d
    BY Two
  <1>2. /\ s \in Seq(S) /\ Len(s) = 2 + Len(g) /\ Len(g) \in Nat
        /\ \A j \in 1 .. 2 + Len(g) : s[j] = IF j <= 2 THEN <<c, d>>[j] ELSE g[j - 2]
    BY <1>1, ConcatProperties
  <1> HIDE DEF s
  <1>3. s[1] = c /\ s[2] = d
    BY <1>1, <1>2
  <1>4. s # <<>> /\ Head(s) = s[1] /\ Len(s) >= 2
    BY <1>2
  <1>5. h \in Seq(S) /\ Len(h) = Len(s) - 2 /\ \A j \in 1 .. Len(s) - 2 : h[j] = s[j + 2]
    BY <1>2, <1>4, DropTwo
  <1> HIDE DEF h
  <1>6. Len(h) = Len(g)
    BY <1>2, <1>5
  <1>7. ASSUME NEW j \in 1 .. Len(g) PROVE h[j] = g[j]
    <2>1. j \in 1 .. Len(s) - 2 /\ j + 2 \in 1 .. 2 + Len(g) /\ ~(j + 2 <= 2) /\ (j + 2) - 2 = j
      BY <1>2
    <2> QED
      BY <1>2, <1>5, <2>1
  <1>8. h = g
    BY <1>5, <1>6, <1>7, SeqEqual
  <1> QED
    BY <1>3, <1>4, <1>8 DEF s, h

(* A format that begins with a piece prints it, and goes on.               *)
LEMMA TakePiece ==
  ASSUME NEW f, NEW a, NEW t, Prints(f, a, t), f # <<>>, Head(f) # "%"
  PROVE  \E u : Prints(Tail(f), a, u) /\ t = <<Head(f)>> \o u
  <1>1. CASE BeginsWithPiece(f, a, t)
    <2>1. PICK c \in Text \ {"%"}, g \in Seq(Text), u \in Seq(Text) :
            Prints(g, a, u) /\ f = <<c>> \o g /\ t = <<c>> \o u
      BY <1>1 DEF BeginsWithPiece
    <2>2. Head(f) = c /\ Tail(f) = g
      BY <2>1, PrintsTyped, FrontFacts
    <2> QED
      BY <2>1, <2>2
  <1>2. CASE BeginsWithConversion(f, a, t)
    <2>1. PICK c \in Conversions, x \in Argument,
                   g \in Seq(Text), b \in Seq(Argument), u \in Seq(Text) :
               /\ Fits(c, x) /\ Prints(g, b, u)
               /\ f = <<"%", c>> \o g /\ a = <<x>> \o b /\ t = Converted(c, x) \o u
      BY <1>2 DEF BeginsWithConversion
    <2>2. g \in Seq(Text) /\ c \in Text /\ "%" \in Text
      BY <2>1, PrintsTyped, ConversionFacts
    <2>3. Head(f) = "%"
      BY <2>1, <2>2, PairFacts
    <2> QED
      BY <2>3
  <1>3. ~(f = <<>> /\ a = <<>> /\ t = <<>>)
    OBVIOUS
  <1> QED
    BY <1>1, <1>2, <1>3, LineBegins, Zenon

(* A format that begins with a % goes on with a conversion, which finds an *)
(* argument.                                                               *)
LEMMA TakeConversion ==
  ASSUME NEW f, NEW a, NEW t, Prints(f, a, t), f # <<>>, Head(f) = "%"
  PROVE  /\ f[2] \in Conversions /\ Len(f) >= 2
         /\ a # <<>> /\ Head(a) \in Argument /\ Fits(f[2], Head(a))
         /\ \E u : /\ Prints(SubSeq(f, 3, Len(f)), Tail(a), u)
                   /\ t = Converted(f[2], Head(a)) \o u
  <1>1. CASE BeginsWithPiece(f, a, t)
    <2>1. PICK c \in Text \ {"%"}, g \in Seq(Text), u \in Seq(Text) :
            Prints(g, a, u) /\ f = <<c>> \o g /\ t = <<c>> \o u
      BY <1>1 DEF BeginsWithPiece
    <2>2. Head(f) = c
      BY <2>1, PrintsTyped, FrontFacts
    <2> QED
      BY <2>2
  <1>2. CASE BeginsWithConversion(f, a, t)
    <2>1. PICK c \in Conversions, x \in Argument,
                   g \in Seq(Text), b \in Seq(Argument), u \in Seq(Text) :
               /\ Fits(c, x) /\ Prints(g, b, u)
               /\ f = <<"%", c>> \o g /\ a = <<x>> \o b /\ t = Converted(c, x) \o u
      BY <1>2 DEF BeginsWithConversion
    <2>2. g \in Seq(Text) /\ b \in Seq(Argument) /\ c \in Text /\ "%" \in Text
      BY <2>1, PrintsTyped, ConversionFacts
    <2>3. f[2] = c /\ Len(f) >= 2 /\ SubSeq(f, 3, Len(f)) = g
      BY <2>1, <2>2, PairFacts
    <2>4. a # <<>> /\ Head(a) = x /\ Tail(a) = b
      BY <2>1, <2>2, FrontFacts
    <2> QED
      BY <2>1, <2>3, <2>4
  <1>3. ~(f = <<>> /\ a = <<>> /\ t = <<>>)
    OBVIOUS
  <1> QED
    BY <1>1, <1>2, <1>3, LineBegins, Zenon

LEMMA TakeNothing ==
  ASSUME NEW a, NEW t, Prints(<<>>, a, t) PROVE a = <<>> /\ t = <<>>
  <1>1. ASSUME BeginsWithPiece(<<>>, a, t) PROVE FALSE
    <2>1. PICK c \in Text \ {"%"}, g \in Seq(Text), u \in Seq(Text) : <<>> = <<c>> \o g
      BY <1>1 DEF BeginsWithPiece
    <2> QED
      BY <2>1, FrontFacts
  <1>2. ASSUME BeginsWithConversion(<<>>, a, t) PROVE FALSE
    <2>1. PICK c \in Conversions, g \in Seq(Text) : <<>> = <<"%", c>> \o g
      BY <1>2 DEF BeginsWithConversion
    <2>2. c \in Text /\ "%" \in Text
      BY ConversionFacts
    <2> QED
      BY <2>1, <2>2, PairFacts
  <1> QED
    BY <1>1, <1>2, LineBegins

-----------------------------------------------------------------------------
(* Calls, and the text they owe.                                           *)

(* A call, and the text it prints.                                         *)
GoodCalls ==
  {c \in [fn : {"kprintf", "terminal_write_hex"}, fmt : Seq(Text),
          args : Seq(Argument), n : Int] :
     c.fn = "terminal_write_hex" => c.n \in 0 .. Word - 1}

Says(c, t) ==
  IF c.fn = "kprintf" THEN Prints(c.fmt, c.args, t) ELSE t = Numeral(c.n, 16)

(* Calls that are still to be made and the text that is owed with them, in *)
(* the same way.                                                           *)
Debt == [calls : Seq(GoodCalls), text : Seq(Text)]
Both(s, t) == [calls |-> s, text |-> t]

ClosedDebts(R) ==
  /\ Both(<<>>, <<>>) \in R
  /\ \A c \in GoodCalls, t \in Seq(Text), r \in R :
       Says(c, t) => Both(<<c>> \o r.calls, t \o r.text) \in R

Debts == {r \in Debt : \A R \in SUBSET Debt : ClosedDebts(R) => r \in R}
Owed(s, t) == Both(s, t) \in Debts

LEMMA BothFacts ==
  ASSUME NEW s, NEW t
  PROVE  /\ Both(s, t).calls = s /\ Both(s, t).text = t
         /\ Both(s, t) \in Debt <=> s \in Seq(GoodCalls) /\ t \in Seq(Text)
  BY DEF Both, Debt

LEMMA DebtsClosed == ClosedDebts(Debts)
  <1>1. Both(<<>>, <<>>) \in Debts
    <2>1. Both(<<>>, <<>>) \in Debt
      BY BothFacts, Empty
    <2>2. \A R \in SUBSET Debt : ClosedDebts(R) => Both(<<>>, <<>>) \in R
      BY DEF ClosedDebts
    <2> QED
      BY <2>1, <2>2 DEF Debts
  <1>2. ASSUME NEW c \in GoodCalls, NEW t \in Seq(Text), NEW r \in Debts, Says(c, t)
        PROVE  Both(<<c>> \o r.calls, t \o r.text) \in Debts
    <2>1. r \in Debt /\ \A R \in SUBSET Debt : ClosedDebts(R) => r \in R
      BY DEF Debts
    <2>2. Both(<<c>> \o r.calls, t \o r.text) \in Debt
      <3>1. r.calls \in Seq(GoodCalls) /\ r.text \in Seq(Text)
        BY <2>1 DEF Debt
      <3>2. <<c>> \in Seq(GoodCalls)
        BY One
      <3>3. <<c>> \o r.calls \in Seq(GoodCalls) /\ t \o r.text \in Seq(Text)
        BY <3>1, <3>2, Concat
      <3> QED
        BY <3>3, BothFacts
    <2>3. \A R \in SUBSET Debt : ClosedDebts(R) => Both(<<c>> \o r.calls, t \o r.text) \in R
      BY <1>2, <2>1 DEF ClosedDebts
    <2> QED
      BY <2>2, <2>3 DEF Debts
  <1> QED
    BY <1>1, <1>2 DEF ClosedDebts

LEMMA LeastDebts ==
  ASSUME NEW R, R \subseteq Debt, ClosedDebts(R) PROVE Debts \subseteq R
  BY DEF Debts

LEMMA OwedTyped ==
  ASSUME NEW s, NEW t, Owed(s, t) PROVE s \in Seq(GoodCalls) /\ t \in Seq(Text)
  BY BothFacts DEF Owed, Debts

LEMMA OwedNothing == Owed(<<>>, <<>>)
  BY DebtsClosed DEF ClosedDebts, Owed

BeginsWithCall(s, t) ==
  \E c \in GoodCalls, r \in Seq(GoodCalls), u \in Seq(Text), v \in Seq(Text) :
    /\ Says(c, u) /\ Owed(r, v)
    /\ s = <<c>> \o r /\ t = u \o v

(* Calls that owe text are none, or begin with one that prints its part.   *)
LEMMA DebtBegins ==
  ASSUME NEW s, NEW t, Owed(s, t)
  PROVE  (s = <<>> /\ t = <<>>) \/ BeginsWithCall(s, t)
  <1> DEFINE Begun(r) ==
        \/ r = Both(<<>>, <<>>)
        \/ \E c \in GoodCalls, u \in Seq(Text), q \in Debts :
             Says(c, u) /\ r = Both(<<c>> \o q.calls, u \o q.text)
             R == {r \in Debts : Begun(r)}
  <1>1. R \subseteq Debt
    BY DEF Debts
  <1>2. ClosedDebts(R)
    <2>1. Both(<<>>, <<>>) \in R
      BY DebtsClosed DEF ClosedDebts
    <2>2. ASSUME NEW c \in GoodCalls, NEW u \in Seq(Text), NEW r \in R, Says(c, u)
          PROVE  Both(<<c>> \o r.calls, u \o r.text) \in R
      <3>1. r \in Debts
        OBVIOUS
      <3>2. Both(<<c>> \o r.calls, u \o r.text) \in Debts
        BY <2>2, <3>1, DebtsClosed DEF ClosedDebts
      <3>3. Begun(Both(<<c>> \o r.calls, u \o r.text))
        BY <2>2, <3>1, Zenon
      <3> QED
        BY <3>2, <3>3
    <2> HIDE DEF R
    <2> QED
      BY <2>1, <2>2 DEF ClosedDebts
  <1>3. Both(s, t) \in R
    <2> HIDE DEF R
    <2> QED
      BY <1>1, <1>2, LeastDebts DEF Owed
  <1>4. Begun(Both(s, t))
    BY <1>3
  <1>5. CASE Both(s, t) = Both(<<>>, <<>>)
    BY <1>5 DEF Both
  <1>6. CASE \E c \in GoodCalls, u \in Seq(Text), q \in Debts :
               Says(c, u) /\ Both(s, t) = Both(<<c>> \o q.calls, u \o q.text)
    <2>1. PICK c \in GoodCalls, u \in Seq(Text), q \in Debts :
               Says(c, u) /\ Both(s, t) = Both(<<c>> \o q.calls, u \o q.text)
      BY <1>6
    <2>2. s = <<c>> \o q.calls /\ t = u \o q.text
      BY <2>1 DEF Both
    <2>3. q \in Debt
      BY DEF Debts
    <2>4. q.calls \in Seq(GoodCalls) /\ q.text \in Seq(Text) /\ q = Both(q.calls, q.text)
      BY <2>3 DEF Debt, Both
    <2>5. Owed(q.calls, q.text)
      BY <2>4 DEF Owed
    <2> QED
      BY <2>1, <2>2, <2>4, <2>5 DEF BeginsWithCall
  <1> QED
    BY <1>4, <1>5, <1>6

LEMMA CallsAssoc ==
  ASSUME NEW s \in Seq(GoodCalls), NEW t \in Seq(GoodCalls), NEW u \in Seq(GoodCalls)
  PROVE  (s \o t) \o u = s \o (t \o u)
  BY Assoc

LEMMA OwedBoth ==
  ASSUME NEW s, NEW t, NEW q, NEW u, Owed(s, t), Owed(q, u)
  PROVE  Owed(s \o q, t \o u)
  <1> DEFINE R == {r \in Debts : Owed(r.calls \o q, r.text \o u)}
  <1>1. q \in Seq(GoodCalls) /\ u \in Seq(Text)
    BY OwedTyped
  <1>2. ClosedDebts(R)
    <2>1. Both(<<>>, <<>>) \in R
      <3>1. Both(<<>>, <<>>) \in Debts
        BY DebtsClosed DEF ClosedDebts
      <3>2. <<>> \o q = q /\ <<>> \o u = u
        BY <1>1, Concat
      <3>3. Owed(<<>> \o q, <<>> \o u)
        BY <3>2
      <3> QED
        BY <3>1, <3>3, BothFacts
    <2>2. ASSUME NEW c \in GoodCalls, NEW x \in Seq(Text), NEW r \in R, Says(c, x)
          PROVE  Both(<<c>> \o r.calls, x \o r.text) \in R
      <3>1. r \in Debts /\ Owed(r.calls \o q, r.text \o u)
        OBVIOUS
      <3>2. r.calls \in Seq(GoodCalls) /\ r.text \in Seq(Text)
        BY <3>1 DEF Debts, Debt
      <3>3. <<c>> \in Seq(GoodCalls)
        BY One
      <3>4. /\ (<<c>> \o r.calls) \o q = <<c>> \o (r.calls \o q)
            /\ (x \o r.text) \o u = x \o (r.text \o u)
        BY <1>1, <3>2, <3>3, CallsAssoc, TextAssoc, Zenon
      <3> DEFINE d == Both(r.calls \o q, r.text \o u)
                 w == Both(<<c>> \o r.calls, x \o r.text)
      <3>5. d \in Debts
        BY <3>1 DEF Owed
      <3>6. Both(<<c>> \o d.calls, x \o d.text) \in Debts /\ w \in Debts
        BY <2>2, <3>1, <3>5, DebtsClosed DEF ClosedDebts
      <3>7. Owed(<<c>> \o (r.calls \o q), x \o (r.text \o u))
        BY <3>6, BothFacts DEF Owed
      <3>8. Owed(w.calls \o q, w.text \o u)
        <4>1. w.calls = <<c>> \o r.calls /\ w.text = x \o r.text
          BY DEF Both
        <4> HIDE DEF w
        <4> QED
          BY <3>4, <3>7, <4>1
      <3> QED
        BY <3>6, <3>8
    <2> HIDE DEF R
    <2> QED
      BY <2>1, <2>2 DEF ClosedDebts
  <1>3. R \subseteq Debt
    BY DEF Debts
  <1>4. Both(s, t) \in R
    <2> HIDE DEF R
    <2> QED
      BY <1>2, <1>3, LeastDebts DEF Owed
  <1> QED
    BY <1>4, BothFacts

LEMMA OwedOne ==
  ASSUME NEW c \in GoodCalls, NEW t \in Seq(Text), Says(c, t)
  PROVE  Owed(<<c>>, t)
  <1> DEFINE r == Both(<<>>, <<>>)
  <1>1. r \in Debts
    BY DebtsClosed DEF ClosedDebts
  <1>2. Both(<<c>> \o r.calls, t \o r.text) \in Debts
    BY <1>1, DebtsClosed DEF ClosedDebts
  <1>3. <<c>> \o <<>> = <<c>> /\ t \o <<>> = t
    BY One, Concat
  <1>4. r.calls = <<>> /\ r.text = <<>>
    BY BothFacts
  <1> HIDE DEF r
  <1> QED
    BY <1>2, <1>3, <1>4 DEF Owed

(* The next call prints its text, and the others owe theirs.               *)
LEMMA TakeCall ==
  ASSUME NEW s, NEW t, Owed(s, t), s # <<>>
  PROVE  /\ Head(s) \in GoodCalls
         /\ \E u \in Seq(Text), v \in Seq(Text) :
              Says(Head(s), u) /\ Owed(Tail(s), v) /\ t = u \o v
  <1>1. BeginsWithCall(s, t)
    BY DebtBegins
  <1>2. PICK c \in GoodCalls, r \in Seq(GoodCalls), u \in Seq(Text), v \in Seq(Text) :
          Says(c, u) /\ Owed(r, v) /\ s = <<c>> \o r /\ t = u \o v
    BY <1>1 DEF BeginsWithCall
  <1>3. Head(s) = c /\ Tail(s) = r
    BY <1>2, FrontFacts
  <1> QED
    BY <1>2, <1>3

LEMMA TakeNoCall ==
  ASSUME NEW t, Owed(<<>>, t) PROVE t = <<>>
  <1>1. ASSUME BeginsWithCall(<<>>, t) PROVE FALSE
    <2>1. PICK c \in GoodCalls, r \in Seq(GoodCalls) : <<>> = <<c>> \o r
      BY <1>1 DEF BeginsWithCall
    <2> QED
      BY <2>1, FrontFacts
  <1> QED
    BY <1>1, DebtBegins

-----------------------------------------------------------------------------
(* Formats and calls from their beginning on.                              *)

(* Sequences are put together from the front.                              *)
Front(s, k) == SubSeq(s, 1, k)

LEMMA FrontIs ==
  ASSUME NEW S, NEW s \in Seq(S), NEW k \in 0 .. Len(s)
  PROVE  /\ Front(s, k) \in Seq(S) /\ Len(Front(s, k)) = k
         /\ \A j \in 1 .. k : Front(s, k)[j] = s[j]
  BY DEF Front

LEMMA FrontEnds ==
  ASSUME NEW S, NEW s \in Seq(S)
  PROVE  Front(s, 0) = <<>> /\ Front(s, Len(s)) = s
  <1>1. Len(s) \in Nat /\ 0 \in 0 .. Len(s) /\ Len(s) \in 0 .. Len(s)
    OBVIOUS
  <1>2. Front(s, 0) \in Seq(S) /\ Len(Front(s, 0)) = 0
    BY <1>1, FrontIs
  <1>3. /\ Front(s, Len(s)) \in Seq(S) /\ Len(Front(s, Len(s))) = Len(s)
        /\ \A j \in 1 .. Len(s) : Front(s, Len(s))[j] = s[j]
    BY <1>1, FrontIs
  <1>4. Front(s, Len(s)) = s
    BY <1>3, SeqEqual
  <1> QED
    BY <1>2, <1>4

LEMMA FrontGrows ==
  ASSUME NEW S, NEW s \in Seq(S), NEW k \in Nat, k + 1 <= Len(s)
  PROVE  Front(s, k + 1) = Front(s, k) \o <<s[k + 1]>>
  <1> DEFINE f == Front(s, k)
             g == Front(s, k + 1)
             h == f \o <<s[k + 1]>>
  <1>1. Len(s) \in Nat /\ k \in 0 .. Len(s) /\ k + 1 \in 0 .. Len(s) /\ s[k + 1] \in S
    OBVIOUS
  <1>2. f \in Seq(S) /\ Len(f) = k /\ \A j \in 1 .. k : f[j] = s[j]
    BY <1>1, FrontIs
  <1>3. g \in Seq(S) /\ Len(g) = k + 1 /\ \A j \in 1 .. k + 1 : g[j] = s[j]
    BY <1>1, FrontIs
  <1> HIDE DEF f, g
  <1>4. /\ h \in Seq(S) /\ Len(h) = k + 1
        /\ \A j \in 1 .. k + 1 : h[j] = IF j <= k THEN f[j] ELSE <<s[k + 1]>>[j - k]
    BY <1>1, <1>2, One, ConcatProperties
  <1>5. ASSUME NEW j \in 1 .. k + 1 PROVE g[j] = h[j]
    <2>1. CASE j <= k
      BY <1>2, <1>3, <1>4, <2>1
    <2>2. CASE ~(j <= k)
      <3>1. j = k + 1 /\ j - k = 1
        BY <2>2
      <3>2. h[j] = <<s[k + 1]>>[1]
        BY <1>4, <2>2, <3>1
      <3>3. h[j] = s[k + 1]
        BY <3>2
      <3> QED
        BY <1>3, <3>1, <3>3
    <2> QED
      BY <2>1, <2>2
  <1> HIDE DEF h
  <1>6. g = h
    BY <1>3, <1>4, <1>5, SeqEqual
  <1> QED
    BY <1>6 DEF f, g, h

LEMMA FrontGrowsTwo ==
  ASSUME NEW S, NEW s \in Seq(S), NEW k \in Nat, k + 2 <= Len(s)
  PROVE  Front(s, k + 2) = Front(s, k) \o <<s[k + 1], s[k + 2]>>
  <1> DEFINE f == Front(s, k)
             g == Front(s, k + 2)
             e == <<s[k + 1], s[k + 2]>>
             h == f \o e
  <1>1. /\ Len(s) \in Nat /\ k \in 0 .. Len(s) /\ k + 2 \in 0 .. Len(s)
        /\ s[k + 1] \in S /\ s[k + 2] \in S
    OBVIOUS
  <1>2. f \in Seq(S) /\ Len(f) = k /\ \A j \in 1 .. k : f[j] = s[j]
    BY <1>1, FrontIs
  <1>3. g \in Seq(S) /\ Len(g) = k + 2 /\ \A j \in 1 .. k + 2 : g[j] = s[j]
    BY <1>1, FrontIs
  <1>7. e \in Seq(S) /\ Len(e) = 2 /\ e[1] = s[k + 1] /\ e[2] = s[k + 2]
    BY <1>1, Two
  <1> HIDE DEF f, g, e
  <1>8. /\ h \in Seq(S) /\ Len(h) = Len(f) + Len(e)
        /\ \A j \in 1 .. Len(f) + Len(e) : h[j] = IF j <= Len(f) THEN f[j] ELSE e[j - Len(f)]
    <2>1. f \in Seq(S) /\ e \in Seq(S)
      BY <1>2, <1>7
    <2> QED
      BY <2>1, ConcatProperties
  <1>4. /\ h \in Seq(S) /\ Len(h) = k + 2
        /\ \A j \in 1 .. k + 2 : h[j] = IF j <= k THEN f[j] ELSE e[j - k]
    BY <1>2, <1>7, <1>8
  <1> HIDE DEF h
  <1>5. ASSUME NEW j \in 1 .. k + 2 PROVE g[j] = h[j]
    <2>1. CASE j <= k
      BY <1>2, <1>3, <1>4, <2>1
    <2>2. CASE j = k + 1
      <3>1. ~(j <= k) /\ j - k = 1
        BY <2>2
      <3> QED
        BY <1>3, <1>4, <1>7, <2>2, <3>1
    <2>3. CASE j = k + 2
      <3>1. ~(j <= k) /\ j - k = 2
        BY <2>3
      <3> QED
        BY <1>3, <1>4, <1>7, <2>3, <3>1
    <2>4. j <= k \/ j = k + 1 \/ j = k + 2
      OBVIOUS
    <2> QED
      BY <2>1, <2>2, <2>3, <2>4
  <1>6. g = h
    BY <1>3, <1>4, <1>5, SeqEqual
  <1> QED
    BY <1>6 DEF f, g, h, e

(* A format that is printed up to a piece or a conversion is printed up to *)
(* the end of it.                                                          *)
LEMMA PieceNext ==
  ASSUME NEW f \in Seq(Text), NEW k \in Nat, NEW l, l = k + 1, l <= Len(f),
         NEW c, f[l] = c, c # "%",
         NEW a, NEW t, Prints(Front(f, k), a, t)
  PROVE  Prints(Front(f, l), a, t \o <<c>>)
  <1>1. c \in Text
    OBVIOUS
  <1>2. Prints(<<c>>, <<>>, <<c>>)
    BY <1>1, PrintsPiece
  <1>3. Prints(Front(f, k) \o <<c>>, a \o <<>>, t \o <<c>>)
    BY <1>2, PrintsBoth
  <1>4. a \o <<>> = a
    BY PrintsTyped, Concat
  <1>5. Front(f, l) = Front(f, k) \o <<c>>
    BY FrontGrows
  <1> QED
    BY <1>3, <1>4, <1>5

LEMMA ConversionNext ==
  ASSUME NEW f \in Seq(Text), NEW k \in Nat, NEW l, l = k + 2, l <= Len(f),
         f[k + 1] = "%", NEW c \in Conversions, f[l] = c,
         NEW a \in Seq(Argument), NEW m \in Nat, NEW q, q = m + 1, q <= Len(a),
         NEW x, a[q] = x, Fits(c, x),
         NEW t, Prints(Front(f, k), Front(a, m), t)
  PROVE  Prints(Front(f, l), Front(a, q), t \o Converted(c, x))
  <1>1. x \in Argument
    OBVIOUS
  <1>2. Front(f, l) = Front(f, k) \o <<"%", c>>
    BY FrontGrowsTwo
  <1>3. Front(a, q) = Front(a, m) \o <<x>>
    BY FrontGrows
  <1>4. Prints(<<"%", c>>, <<x>>, Converted(c, x))
    BY <1>1, PrintsConversion
  <1>5. Prints(Front(f, k) \o <<"%", c>>, Front(a, m) \o <<x>>, t \o Converted(c, x))
    BY <1>4, PrintsBoth
  <1> QED
    BY <1>2, <1>3, <1>5

-----------------------------------------------------------------------------
(* The messages of the thread.                                             *)

LEMMA HexIsOwed ==
  ASSUME NEW x \in 0 .. Word - 1 PROVE Owed(<<Hex(x)>>, Numeral(x, 16))
  <1> DEFINE c == Hex(x)
             none == <<>>
  <1>1. none \in Seq(Text) /\ none \in Seq(Argument) /\ x \in Int
    BY WordFacts
  <1>2. c = [fn |-> "terminal_write_hex", fmt |-> none, args |-> none, n |-> x]
    BY DEF Hex
  <1> HIDE DEF none
  <1>3. /\ c \in [fn : {"kprintf", "terminal_write_hex"}, fmt : Seq(Text),
                  args : Seq(Argument), n : Int]
        /\ c.fn = "terminal_write_hex" /\ c.n = x
    BY <1>1, <1>2
  <1> HIDE DEF c
  <1>4. c \in GoodCalls
    BY <1>3 DEF GoodCalls
  <1>5. Says(c, Numeral(x, 16))
    BY <1>3 DEF Says
  <1>6. Numeral(x, 16) \in Seq(Text)
    BY NumeralIs
  <1>7. Owed(<<c>>, Numeral(x, 16))
    BY <1>4, <1>5, <1>6, OwedOne
  <1> QED
    BY <1>7 DEF c

LEMMA KprintfIsOwed ==
  ASSUME NEW f, NEW a, NEW t, Prints(f, a, t)
  PROVE  Owed(<<Kprintf(f, a)>>, t)
  <1> DEFINE c == Kprintf(f, a)
  <1>1. f \in Seq(Text) /\ a \in Seq(Argument) /\ t \in Seq(Text)
    BY PrintsTyped
  <1>2. /\ c \in [fn : {"kprintf", "terminal_write_hex"}, fmt : Seq(Text),
                  args : Seq(Argument), n : Int]
        /\ c.fn = "kprintf" /\ c.fmt = f /\ c.args = a
    BY <1>1 DEF Kprintf
  <1> HIDE DEF c
  <1>3. c \in GoodCalls
    BY <1>2 DEF GoodCalls
  <1>4. Says(c, t)
    BY <1>2 DEF Says
  <1>5. Owed(<<c>>, t)
    BY <1>1, <1>3, <1>4, OwedOne
  <1> QED
    BY <1>5 DEF c

LEMMA PlainIsOwed ==
  ASSUME NEW c \in Text, c # "%" PROVE Owed(<<Kprintf(<<c>>, <<>>)>>, <<c>>)
  BY PrintsPiece, KprintfIsOwed

LEMMA NumIsArgument ==
  ASSUME NEW x \in Int PROVE Num(x) \in Argument /\ Num(x).word = x
  BY DEF Num, Argument

LEMMA StrIsArgument ==
  ASSUME NEW c \in Text
  PROVE  /\ Str(<<c>>) \in Argument /\ Str(<<c>>).word = 1
         /\ Converted("s", Str(<<c>>)) = <<c>> /\ Converted("c", Str(<<c>>)) = <<c>>
  <1>1. <<c>> \in Seq(Text)
    BY One
  <1>2. Str(<<c>>).word = 1 /\ Str(<<c>>).str = <<c>>
    BY DEF Str
  <1>3. Str(<<c>>) \in Argument
    BY <1>1 DEF Str, Argument
  <1>4. Converted("s", Str(<<c>>)) = <<c>> /\ Converted("c", Str(<<c>>)) = <<c>>
    BY <1>2 DEF Converted
  <1> QED
    BY <1>2, <1>3, <1>4

LEMMA NumberPrints ==
  ASSUME NEW c \in {"d", "u", "x"}, NEW x \in -(Word \div 2) .. (Word \div 2) - 1
  PROVE  Prints(<<"%", c>>, <<Num(x)>>, Converted(c, Num(x)))
  <1>1. x \in Int
    BY WordFacts
  <1>2. Num(x) \in Argument /\ Fits(c, Num(x))
    BY <1>1, NumIsArgument DEF Fits
  <1>3. c \in Conversions
    BY DEF Conversions
  <1> QED
    BY <1>2, <1>3, PrintsConversion

(* A number of a message is an int.                                        *)
LEMMA NumbersFit == \A x \in Numbers : x \in -(Word \div 2) .. (Word \div 2) - 1
  BY ExceptionsAssumption

LEMMA Three ==
  ASSUME NEW S, NEW d \in S, NEW e \in S, NEW f \in S
  PROVE  /\ <<d, e, f>> \in Seq(S) /\ Len(<<d, e, f>>) = 3
         /\ <<d, e, f>>[1] = d /\ <<d, e, f>>[2] = e /\ <<d, e, f>>[3] = f
  OBVIOUS

LEMMA Four ==
  ASSUME NEW S, NEW d \in S, NEW e \in S, NEW f \in S, NEW g \in S
  PROVE  /\ <<d, e, f, g>> \in Seq(S) /\ Len(<<d, e, f, g>>) = 4
         /\ <<d, e, f, g>>[1] = d /\ <<d, e, f, g>>[2] = e
         /\ <<d, e, f, g>>[3] = f /\ <<d, e, f, g>>[4] = g
  OBVIOUS

(* A format is begun with nothing.                                         *)
LEMMA PrintsFront ==
  ASSUME NEW f \in Seq(Text), NEW a \in Seq(Argument)
  PROVE  Prints(Front(f, 0), Front(a, 0), <<>>)
  BY FrontEnds, PrintsNothing

LEMMA NumberMessage ==
  ASSUME NEW c \in {"d", "u", "x"}, NEW x \in Numbers
  PROVE  Prints(<<"%", c, ".">>, <<Num(x)>>, Converted(c, Num(x)) \o <<".">>)
  <1> DEFINE f == <<"%", c, ".">>
             a == <<Num(x)>>
             t == Converted(c, Num(x))
  <1>1. "%" \in Text /\ c \in Text /\ "." \in Text /\ c \in Conversions /\ "." # "%"
    BY PiecesAreText DEF Conversions
  <1>2. f \in Seq(Text) /\ Len(f) = 3 /\ f[1] = "%" /\ f[2] = c /\ f[3] = "."
    BY <1>1, Three
  <1>3. Prints(<<"%", c>>, a, t)
    BY NumbersFit, NumberPrints
  <1> HIDE DEF f, a, t
  <1>4. Front(f, 2) = <<"%", c>>
    <2>4. 0 \in Nat /\ 0 + 2 <= Len(f) /\ f \in Seq(Text)
      BY <1>2
    <2>1. Front(f, 0 + 2) = Front(f, 0) \o <<f[0 + 1], f[0 + 2]>>
      BY <2>4, FrontGrowsTwo
    <2>2. Front(f, 0) = <<>> /\ <<"%", c>> \in Seq(Text)
      BY <1>1, <1>2, FrontEnds, Two
    <2>3. <<>> \o <<"%", c>> = <<"%", c>>
      BY <2>2, Concat
    <2> QED
      BY <1>2, <2>1, <2>2, <2>3
  <1>5. Prints(Front(f, 2), a, t)
    BY <1>3, <1>4, Zenon
  <1>6. 2 \in Nat /\ 3 = 2 + 1 /\ 3 <= Len(f)
    BY <1>2
  <1>7. Prints(Front(f, 3), a, t \o <<".">>)
    BY <1>1, <1>2, <1>5, <1>6, PieceNext
  <1>8. Front(f, 3) = f
    BY <1>2, FrontEnds
  <1>9. Prints(f, a, t \o <<".">>)
    BY <1>7, <1>8, Zenon
  <1> QED
    BY <1>9 DEF f, a, t

LEMMA NullMessage ==
  Prints(<<"%", "s", "%", "c">>, <<Null, Str(<<"z">>)>>, <<"(null)", "z">>)
  <1> DEFINE f == <<"%", "s", "%", "c">>
             z == Str(<<"z">>)
             a == <<Null, z>>
             t == <<"(null)", "z">>
  <1>1. f \in Seq(Text) /\ Len(f) = 4 /\ f[1] = "%" /\ f[2] = "s" /\ f[3] = "%" /\ f[4] = "c"
    BY PiecesAreText, Four, Zenon
  <1>2. Null \in Argument /\ Null.word = 0
    BY NumIsArgument DEF Null
  <1>3. z \in Argument /\ Converted("c", z) = <<"z">>
    BY PiecesAreText, StrIsArgument, Zenon
  <1> HIDE DEF z
  <1>4. a \in Seq(Argument) /\ Len(a) = 2 /\ a[1] = Null /\ a[2] = z
    BY <1>2, <1>3, Two
  <1>5. t \in Seq(Text) /\ Len(t) = 2 /\ t[1] = "(null)" /\ t[2] = "z"
    BY PiecesAreText, Two, Zenon
  <1>6. "s" \in Conversions /\ "c" \in Conversions
    BY DEF Conversions
  <1>7. Converted("s", Null) = <<"(null)">>
    BY <1>2 DEF Converted
  <1>8. Fits("s", Null) /\ Fits("c", z)
    BY DEF Fits
  <1> HIDE DEF f, a, t
  <1>9. Prints(Front(f, 0), Front(a, 0), <<>>)
    BY <1>1, <1>4, PrintsFront
  <1>10. Prints(Front(f, 2), Front(a, 1), <<>> \o <<"(null)">>)
    <2>1. /\ 0 \in Nat /\ 2 = 0 + 2 /\ 2 <= Len(f) /\ f[0 + 1] = "%"
          /\ 1 = 0 + 1 /\ 1 <= Len(a)
      BY <1>1, <1>4
    <2>2. Prints(Front(f, 2), Front(a, 1), <<>> \o Converted("s", Null))
      BY <1>1, <1>4, <1>6, <1>8, <1>9, <2>1, ConversionNext
    <2> QED
      BY <1>7, <2>2
  <1>11. Prints(Front(f, 4), Front(a, 2), (<<>> \o <<"(null)">>) \o <<"z">>)
    <2>1. /\ 2 \in Nat /\ 4 = 2 + 2 /\ 4 <= Len(f) /\ f[2 + 1] = "%"
          /\ 1 \in Nat /\ 2 = 1 + 1 /\ 2 <= Len(a)
      BY <1>1, <1>4
    <2>2. Prints(Front(f, 4), Front(a, 2), (<<>> \o <<"(null)">>) \o Converted("c", z))
      BY <1>1, <1>4, <1>6, <1>8, <1>10, <2>1, ConversionNext
    <2> QED
      BY <1>3, <2>2
  <1>12. Front(f, 4) = f /\ Front(a, 2) = a
    BY <1>1, <1>4, FrontEnds
  <1>13. (<<>> \o <<"(null)">>) \o <<"z">> = t
    <2>1. Front(t, 0) = <<>> /\ Front(t, 2) = t
      BY <1>5, FrontEnds
    <2>2. Front(t, 0 + 1) = Front(t, 0) \o <<t[0 + 1]>>
      BY <1>5, FrontGrows
    <2>3. Front(t, 1 + 1) = Front(t, 1) \o <<t[1 + 1]>>
      BY <1>5, FrontGrows
    <2> QED
      BY <1>5, <2>1, <2>2, <2>3
  <1>14. Prints(f, a, t)
    BY <1>11, <1>12, <1>13
  <1> QED
    BY <1>14 DEF f, a, t, z

(* Whatever the thread prints is what it was to say.                       *)
LEMMA MessageIsOwed == ASSUME NEW m \in Messages PROVE Owed(<<m.call>>, m.text)
  <1>1. ASSUME NEW c, NEW t, m = Calling(c, t), Owed(<<c>>, t) PROVE Owed(<<m.call>>, m.text)
    <2>1. m.call = c /\ m.text = t
      BY <1>1 DEF Calling
    <2> QED
      BY <1>1, <2>1, Zenon
  <1>2. ASSUME NEW c \in {"d", "u", "x"}, NEW x \in Numbers
        PROVE  Owed(<<Kprintf(<<"%", c, ".">>, <<Num(x)>>)>>, Converted(c, Num(x)) \o <<".">>)
    BY NumberMessage, KprintfIsOwed, Zenon
  <1>3. ASSUME NEW x \in Numbers PROVE Owed(<<Hex(x % Word)>>, Numeral(x % Word, 16))
    <2>1. x % Word \in 0 .. Word - 1
      <3>1. x \in Int /\ Word \in Nat \ {0}
        BY NumbersFit, WordFacts
      <3> QED
        BY <3>1, Remainder, Zenon
    <2> QED
      BY <2>1, HexIsOwed
  <1>4. Owed(<<Kprintf(<<"%", "s", "%", "c">>, <<Null, Str(<<"z">>)>>)>>, <<"(null)", "z">>)
    BY NullMessage, KprintfIsOwed, Zenon
  <1>5. \/ \E c \in {"d", "u", "x"}, x \in Numbers :
             m = Calling(Kprintf(<<"%", c, ".">>, <<Num(x)>>), Converted(c, Num(x)) \o <<".">>)
        \/ \E x \in Numbers : m = Calling(Hex(x % Word), Numeral(x % Word, 16))
        \/ m = Calling(Kprintf(<<"%", "s", "%", "c">>, <<Null, Str(<<"z">>)>>), <<"(null)", "z">>)
    BY DEF Messages
  <1> QED
    BY <1>1, <1>2, <1>3, <1>4, <1>5, Zenon

-----------------------------------------------------------------------------
(* The time.                                                               *)

LEMMA NamesAreText ==
  ASSUME NEW k
  PROVE  Name(dates_str, k) \in Text /\ Name(months_str, k) \in Text
  <1>1. /\ "Mon" \in Text /\ "Tue" \in Text /\ "Wed" \in Text /\ "Thu" \in Text
        /\ "Fri" \in Text /\ "Sat" \in Text /\ "Sun" \in Text
    BY DEF Text
  <1>2. /\ "Jan" \in Text /\ "Feb" \in Text /\ "Mar" \in Text /\ "Apr" \in Text
        /\ "May" \in Text /\ "Jun" \in Text /\ "Jul" \in Text /\ "Aug" \in Text
        /\ "Sept" \in Text /\ "Oct" \in Text /\ "Nov" \in Text /\ "Dec" \in Text
    BY DEF Text
  <1>3. dates_str \in Seq(Text)
    BY <1>1 DEF dates_str
  <1>4. months_str \in Seq(Text)
    BY <1>2 DEF months_str
  <1>5. "garbage" \in Text
    BY DEF Text
  <1>6. ASSUME NEW s \in Seq(Text) PROVE Name(s, k) \in Text
    <2>1. CASE k \in 1 .. Len(s)
      BY <1>6, <2>1 DEF Name
    <2>2. CASE k \notin 1 .. Len(s)
      BY <1>5, <2>2 DEF Name
    <2> QED
      BY <2>1, <2>2
  <1> QED
    BY <1>3, <1>4, <1>6, Zenon

(* The name of a day is right from Monday on.                              *)
LEMMA RightDay ==
  ASSUME NEW k \in 2 .. 7 PROVE Name(dates_str, k - 1) = Name(DayName, k)
  <1>1. k = 2 \/ k = 3 \/ k = 4 \/ k = 5 \/ k = 6 \/ k = 7
    OBVIOUS
  <1>2. Len(dates_str) = 7 /\ Len(DayName) = 7
    BY DEF dates_str, DayName
  <1>3. Name(dates_str, k - 1) = dates_str[k - 1] /\ Name(DayName, k) = DayName[k]
    BY <1>2 DEF Name
  <1>4. /\ dates_str[1] = "Mon" /\ dates_str[2] = "Tue" /\ dates_str[3] = "Wed"
        /\ dates_str[4] = "Thu" /\ dates_str[5] = "Fri" /\ dates_str[6] = "Sat"
    BY DEF dates_str
  <1>5. /\ DayName[2] = "Mon" /\ DayName[3] = "Tue" /\ DayName[4] = "Wed"
        /\ DayName[5] = "Thu" /\ DayName[6] = "Fri" /\ DayName[7] = "Sat"
    BY DEF DayName
  <1> QED
    BY <1>1, <1>3, <1>4, <1>5

LEMMA ByteText ==
  ASSUME NEW x \in 0 .. 255
  PROVE  Num(x) \in Argument /\ Converted("x", Num(x)) = Numeral(x, 16)
  <1>1. x \in Int /\ x % Word = x
    BY WordFacts
  <1>2. Num(x) \in Argument /\ Num(x).word = x
    BY <1>1, NumIsArgument
  <1> QED
    BY <1>1, <1>2 DEF Converted

LEMMA TimeShape ==
  ASSUME NEW S, NEW c \in S, NEW s \in S, NEW x \in S, NEW space \in S, NEW colon \in S,
         NEW utc \in S, NEW newline \in S
  PROVE  <<c, s, space, c, s, space, c, x, colon, c, x, colon, c, x,
           utc, c, x, c, x, newline>> \in Seq(S)
  OBVIOUS

LEMMA SevenArguments ==
  ASSUME NEW a \in Argument, NEW b \in Argument, NEW c \in Argument, NEW d \in Argument,
         NEW e \in Argument, NEW f \in Argument, NEW g \in Argument
  PROVE  LET s == <<a, b, c, d, e, f, g>> IN
         /\ s \in Seq(Argument) /\ Len(s) = 7
         /\ s[1] = a /\ s[2] = b /\ s[3] = c /\ s[4] = d /\ s[5] = e /\ s[6] = f /\ s[7] = g
  OBVIOUS

LEMMA TimeFormatIs ==
  /\ TimeFormat \in Seq(Text) /\ Len(TimeFormat) = 20
  /\ TimeFormat[1] = "%" /\ TimeFormat[2] = "s" /\ TimeFormat[3] = " "
  /\ TimeFormat[4] = "%" /\ TimeFormat[5] = "s" /\ TimeFormat[6] = " "
  /\ TimeFormat[7] = "%" /\ TimeFormat[8] = "x" /\ TimeFormat[9] = ":"
  /\ TimeFormat[10] = "%" /\ TimeFormat[11] = "x" /\ TimeFormat[12] = ":"
  /\ TimeFormat[13] = "%" /\ TimeFormat[14] = "x" /\ TimeFormat[15] = " UTC "
  /\ TimeFormat[16] = "%" /\ TimeFormat[17] = "x"
  /\ TimeFormat[18] = "%" /\ TimeFormat[19] = "x"
  <1>1. TimeFormat \in Seq(Text)
    BY PiecesAreText, TimeShape, Zenon DEF TimeFormat
  <1> QED
    BY <1>1 DEF TimeFormat

LEMMA TimeFormatEnds == TimeFormat[20] = "\n" /\ "\n" # "%"
  BY DEF TimeFormat

(* One piece, or one conversion, of the format of the time.                *)
LEMMA TimePiece ==
  ASSUME NEW k \in Nat, NEW l, l = k + 1, l <= 20, NEW c, TimeFormat[l] = c, c # "%",
         NEW a, NEW t, Prints(Front(TimeFormat, k), a, t)
  PROVE  Prints(Front(TimeFormat, l), a, t \o <<c>>)
  <1> DEFINE f == TimeFormat
  <1>5. f \in Seq(Text) /\ Len(f) = 20
    BY TimeFormatIs, Zenon
  <1>1. f \in Seq(Text) /\ l <= Len(f)
    BY <1>5
  <1> HIDE DEF f
  <1>2. f[l] = c /\ Prints(Front(f, k), a, t)
    BY DEF f
  <1>3. Prints(Front(f, l), a, t \o <<c>>)
    BY <1>1, <1>2, PieceNext
  <1> QED
    BY <1>3 DEF f

LEMMA TimeConversion ==
  ASSUME NEW k \in Nat, NEW j, j = k + 1, NEW l, l = k + 2, l <= 20,
         TimeFormat[j] = "%", NEW c, c = "s" \/ c = "x", TimeFormat[l] = c,
         NEW a \in Seq(Argument), Len(a) = 7, NEW m \in Nat, NEW q, q = m + 1, q <= 7,
         NEW x, a[q] = x, NEW u, Converted(c, x) = u,
         NEW t, Prints(Front(TimeFormat, k), Front(a, m), t)
  PROVE  Prints(Front(TimeFormat, l), Front(a, q), t \o u)
  <1> DEFINE f == TimeFormat
  <1>5. f \in Seq(Text) /\ Len(f) = 20
    BY TimeFormatIs, Zenon
  <1>1. f \in Seq(Text) /\ l <= Len(f)
    BY <1>5
  <1> HIDE DEF f
  <1>2. f[k + 1] = "%" /\ f[l] = c /\ Prints(Front(f, k), Front(a, m), t)
    BY DEF f
  <1>3. c \in Conversions /\ Fits(c, x)
    BY DEF Conversions, Fits
  <1>4. Prints(Front(f, l), Front(a, q), t \o Converted(c, x))
    BY <1>1, <1>2, <1>3, ConversionNext
  <1> QED
    BY <1>4 DEF f

(* What the call of rtc_print_struct prints.                               *)
TimeArguments(d, e, hour, minute, second, century, year) ==
  <<Str(<<d>>), Str(<<e>>), Num(hour), Num(minute), Num(second), Num(century), Num(year)>>

TimeSaid(d, e, hour, minute, second, century, year) ==
  <<d, " ", e, " ">> \o Numeral(hour, 16) \o <<":">> \o Numeral(minute, 16)
  \o <<":">> \o Numeral(second, 16) \o <<" UTC ">> \o Numeral(century, 16)
  \o Numeral(year, 16) \o <<"\n">>

(* rtc_print_struct, conversion by conversion.                             *)
LEMMA TimePrints ==
  ASSUME NEW d \in Text, NEW e \in Text, NEW hour \in 0 .. 255, NEW minute \in 0 .. 255,
         NEW second \in 0 .. 255, NEW century \in 0 .. 255, NEW year \in 0 .. 255
  PROVE  Prints(TimeFormat, TimeArguments(d, e, hour, minute, second, century, year),
           TimeSaid(d, e, hour, minute, second, century, year))
  <1> DEFINE a == TimeArguments(d, e, hour, minute, second, century, year)
             t1 == <<>> \o <<d>>
             t2 == t1 \o <<" ">>
             t3 == t2 \o <<e>>
             t4 == t3 \o <<" ">>
             t5 == t4 \o Numeral(hour, 16)
             t6 == t5 \o <<":">>
             t7 == t6 \o Numeral(minute, 16)
             t8 == t7 \o <<":">>
             t9 == t8 \o Numeral(second, 16)
             t10 == t9 \o <<" UTC ">>
             t11 == t10 \o Numeral(century, 16)
             t12 == t11 \o Numeral(year, 16)
             f == TimeFormat
  <1>1. /\ Str(<<d>>) \in Argument /\ Str(<<e>>) \in Argument
        /\ Converted("s", Str(<<d>>)) = <<d>> /\ Converted("s", Str(<<e>>)) = <<e>>
    BY StrIsArgument, Zenon
  <1>2. \A x \in {hour, minute, second, century, year} :
          Num(x) \in Argument /\ Converted("x", Num(x)) = Numeral(x, 16)
    BY ByteText
  <1>3. /\ a \in Seq(Argument) /\ Len(a) = 7 /\ a[1] = Str(<<d>>) /\ a[2] = Str(<<e>>)
        /\ a[3] = Num(hour) /\ a[4] = Num(minute) /\ a[5] = Num(second)
        /\ a[6] = Num(century) /\ a[7] = Num(year)
    BY <1>1, <1>2, SevenArguments, Zenon DEF TimeArguments
  <1>4. " " # "%" /\ ":" # "%" /\ " UTC " # "%"
    OBVIOUS
  <1>5. t4 = <<d, " ", e, " ">>
    <2> DEFINE w == <<d, " ", e, " ">>
    <2>1. w \in Seq(Text) /\ Len(w) = 4 /\ w[1] = d /\ w[2] = " " /\ w[3] = e /\ w[4] = " "
      BY PiecesAreText, Four, Zenon
    <2> HIDE DEF w
    <2>2. Front(w, 0) = <<>> /\ Front(w, 4) = w
      BY <2>1, FrontEnds
    <2>3. ASSUME NEW k \in 0 .. 3 PROVE Front(w, k + 1) = Front(w, k) \o <<w[k + 1]>>
      <3>2. w \in Seq(Text) /\ Len(w) = 4
        BY <2>1, Zenon
      <3>1. w \in Seq(Text) /\ k \in Nat /\ k + 1 <= Len(w)
        BY <3>2
      <3> QED
        BY <3>1, FrontGrows
    <2>4. /\ Front(w, 1) = Front(w, 0) \o <<w[1]>> /\ Front(w, 2) = Front(w, 1) \o <<w[2]>>
          /\ Front(w, 3) = Front(w, 2) \o <<w[3]>> /\ Front(w, 4) = Front(w, 3) \o <<w[4]>>
      <3>1. /\ 0 \in 0 .. 3 /\ 1 \in 0 .. 3 /\ 2 \in 0 .. 3 /\ 3 \in 0 .. 3
            /\ 0 + 1 = 1 /\ 1 + 1 = 2 /\ 2 + 1 = 3 /\ 3 + 1 = 4
        OBVIOUS
      <3> QED
        BY <2>3, <3>1
    <2>5. w = t4
      BY <2>1, <2>2, <2>4, Zenon
    <2> QED
      BY <2>5 DEF w
  <1> HIDE DEF a, t1, t2, t3, t4, t5, t6, t7, t8, t9, t10, t11, t12
  <1>6. Prints(Front(f, 0), Front(a, 0), <<>>)
    BY <1>3, PrintsFront, TimeFormatIs
  <1>7. Prints(Front(f, 2), Front(a, 1), t1)
    <2>1. /\ 0 \in Nat /\ 1 = 0 + 1 /\ 2 = 0 + 2 /\ 2 <= 20
          /\ 0 \in Nat /\ 1 = 0 + 1 /\ 1 <= 7
      OBVIOUS
    <2>2. f[1] = "%" /\ f[2] = "s" /\ a \in Seq(Argument) /\ Len(a) = 7 /\ a[1] = Str(<<d>>)
      BY <1>3, TimeFormatIs, Zenon
    <2>3. Converted("s", Str(<<d>>)) = <<d>>
      BY <1>1, Zenon
    <2> QED
      BY <1>6, <2>1, <2>2, <2>3, TimeConversion, Zenon DEF t1
  <1>8. Prints(Front(f, 3), Front(a, 1), t2)
    <2>1. 2 \in Nat /\ 3 = 2 + 1 /\ 3 <= 20
      OBVIOUS
    <2> QED
      BY <1>4, <1>7, <2>1, TimePiece, TimeFormatIs, Zenon DEF t2
  <1>9. Prints(Front(f, 5), Front(a, 2), t3)
    <2>1. /\ 3 \in Nat /\ 4 = 3 + 1 /\ 5 = 3 + 2 /\ 5 <= 20
          /\ 1 \in Nat /\ 2 = 1 + 1 /\ 2 <= 7
      OBVIOUS
    <2>2. f[4] = "%" /\ f[5] = "s" /\ a \in Seq(Argument) /\ Len(a) = 7 /\ a[2] = Str(<<e>>)
      BY <1>3, TimeFormatIs, Zenon
    <2>3. Converted("s", Str(<<e>>)) = <<e>>
      BY <1>1, Zenon
    <2> QED
      BY <1>8, <2>1, <2>2, <2>3, TimeConversion, Zenon DEF t3
  <1>10. Prints(Front(f, 6), Front(a, 2), t4)
    <2>1. 5 \in Nat /\ 6 = 5 + 1 /\ 6 <= 20
      OBVIOUS
    <2> QED
      BY <1>4, <1>9, <2>1, TimePiece, TimeFormatIs, Zenon DEF t4
  <1>11. Prints(Front(f, 8), Front(a, 3), t5)
    <2>1. /\ 6 \in Nat /\ 7 = 6 + 1 /\ 8 = 6 + 2 /\ 8 <= 20
          /\ 2 \in Nat /\ 3 = 2 + 1 /\ 3 <= 7
      OBVIOUS
    <2>2. f[7] = "%" /\ f[8] = "x" /\ a \in Seq(Argument) /\ Len(a) = 7 /\ a[3] = Num(hour)
      BY <1>3, TimeFormatIs, Zenon
    <2>3. Converted("x", Num(hour)) = Numeral(hour, 16)
      BY <1>2, Zenon
    <2> QED
      BY <1>10, <2>1, <2>2, <2>3, TimeConversion, Zenon DEF t5
  <1>12. Prints(Front(f, 9), Front(a, 3), t6)
    <2>1. 8 \in Nat /\ 9 = 8 + 1 /\ 9 <= 20
      OBVIOUS
    <2> QED
      BY <1>4, <1>11, <2>1, TimePiece, TimeFormatIs, Zenon DEF t6
  <1>13. Prints(Front(f, 11), Front(a, 4), t7)
    <2>1. /\ 9 \in Nat /\ 10 = 9 + 1 /\ 11 = 9 + 2 /\ 11 <= 20
          /\ 3 \in Nat /\ 4 = 3 + 1 /\ 4 <= 7
      OBVIOUS
    <2>2. f[10] = "%" /\ f[11] = "x" /\ a \in Seq(Argument) /\ Len(a) = 7 /\ a[4] = Num(minute)
      BY <1>3, TimeFormatIs, Zenon
    <2>3. Converted("x", Num(minute)) = Numeral(minute, 16)
      BY <1>2, Zenon
    <2> QED
      BY <1>12, <2>1, <2>2, <2>3, TimeConversion, Zenon DEF t7
  <1>14. Prints(Front(f, 12), Front(a, 4), t8)
    <2>1. 11 \in Nat /\ 12 = 11 + 1 /\ 12 <= 20
      OBVIOUS
    <2> QED
      BY <1>4, <1>13, <2>1, TimePiece, TimeFormatIs, Zenon DEF t8
  <1>15. Prints(Front(f, 14), Front(a, 5), t9)
    <2>1. /\ 12 \in Nat /\ 13 = 12 + 1 /\ 14 = 12 + 2 /\ 14 <= 20
          /\ 4 \in Nat /\ 5 = 4 + 1 /\ 5 <= 7
      OBVIOUS
    <2>2. f[13] = "%" /\ f[14] = "x" /\ a \in Seq(Argument) /\ Len(a) = 7 /\ a[5] = Num(second)
      BY <1>3, TimeFormatIs, Zenon
    <2>3. Converted("x", Num(second)) = Numeral(second, 16)
      BY <1>2, Zenon
    <2> QED
      BY <1>14, <2>1, <2>2, <2>3, TimeConversion, Zenon DEF t9
  <1>16. Prints(Front(f, 15), Front(a, 5), t10)
    <2>1. 14 \in Nat /\ 15 = 14 + 1 /\ 15 <= 20
      OBVIOUS
    <2> QED
      BY <1>4, <1>15, <2>1, TimePiece, TimeFormatIs, Zenon DEF t10
  <1>17. Prints(Front(f, 17), Front(a, 6), t11)
    <2>1. /\ 15 \in Nat /\ 16 = 15 + 1 /\ 17 = 15 + 2 /\ 17 <= 20
          /\ 5 \in Nat /\ 6 = 5 + 1 /\ 6 <= 7
      OBVIOUS
    <2>2. f[16] = "%" /\ f[17] = "x" /\ a \in Seq(Argument) /\ Len(a) = 7 /\ a[6] = Num(century)
      BY <1>3, TimeFormatIs, Zenon
    <2>3. Converted("x", Num(century)) = Numeral(century, 16)
      BY <1>2, Zenon
    <2> QED
      BY <1>16, <2>1, <2>2, <2>3, TimeConversion, Zenon DEF t11
  <1>18. Prints(Front(f, 19), Front(a, 7), t12)
    <2>1. /\ 17 \in Nat /\ 18 = 17 + 1 /\ 19 = 17 + 2 /\ 19 <= 20
          /\ 6 \in Nat /\ 7 = 6 + 1 /\ 7 <= 7
      OBVIOUS
    <2>2. f[18] = "%" /\ f[19] = "x" /\ a \in Seq(Argument) /\ Len(a) = 7 /\ a[7] = Num(year)
      BY <1>3, TimeFormatIs, Zenon
    <2>3. Converted("x", Num(year)) = Numeral(year, 16)
      BY <1>2, Zenon
    <2> QED
      BY <1>17, <2>1, <2>2, <2>3, TimeConversion, Zenon DEF t12
  <1>19. Prints(Front(f, 20), Front(a, 7), t12 \o <<"\n">>)
    <2>1. 19 \in Nat /\ 20 = 19 + 1 /\ 20 <= 20
      OBVIOUS
    <2> QED
      BY <1>18, <2>1, TimePiece, TimeFormatEnds, Zenon
  <1>20. Front(f, 20) = f /\ Front(a, 7) = a
    BY <1>3, FrontEnds, TimeFormatIs
  <1>21. Prints(f, a, t12 \o <<"\n">>)
    BY <1>19, <1>20, Zenon
  <1> QED
    BY <1>5, <1>21, Zenon DEF TimeSaid, a, t5, t6, t7, t8, t9, t10, t11, t12

-----------------------------------------------------------------------------
(* Invalid names, and the report of an exception.                          *)

LEMMA InvalidIsOwed ==
  ASSUME NEW num \in Int, NEW last \in Int, NEW message \in Text, message # "%"
  PROVE  \E o : /\ Owed(Invalid(num, last, message), o)
                /\ num \in 1 .. last => o = <<>>
  <1>1. CASE num \in 1 .. last
    <2>1. ~(num < 1 \/ num > last)
      BY <1>1
    <2>2. Invalid(num, last, message) = <<>>
      BY <2>1, Zenon DEF Invalid
    <2> QED
      BY <2>2, OwedNothing, Zenon
  <1>2. CASE num \notin 1 .. last
    <2>1. num < 1 \/ num > last
      BY <1>2
    <2>2. Invalid(num, last, message) = <<Kprintf(<<message>>, <<>>)>>
      BY <2>1, Zenon DEF Invalid
    <2> QED
      BY <1>2, <2>2, PlainIsOwed, Zenon
  <1> QED
    BY <1>1, <1>2

(* What rtc_print_struct prints is what the time is to say, as long as its *)
(* names come from inside of the tables.                                   *)
NamesAreWrong(t) ==
  \/ DayEntry(t.day_of_week) \notin 1 .. Len(dates_str)
  \/ t.day_of_week \notin 1 .. Len(DayName)
  \/ MonthEntry(t.month) \notin 1 .. Len(months_str)

LEMMA TimeIsOwed ==
  ASSUME NEW t \in Times
  PROVE  \E o : Owed(rtc_print_struct(t), o) /\ (o = TimeText(t) \/ NamesAreWrong(t))
  <1> DEFINE d == date_to_text(t.day_of_week)
             e == month_to_text(t.month)
             a == TimeArguments(d, e, t.hour, t.minute, t.second, t.century, t.year)
             said(x) == TimeSaid(x, e, t.hour, t.minute, t.second, t.century, t.year)
             week == Invalid(t.day_of_week, 7, "Invalid Week")
             month == Invalid(t.month, 12, "Invalid Month")
  <1>1. t \in [day_of_week : Byte, month : Byte, hour : Byte, minute : Byte,
               second : Byte, century : Byte, year : Byte]
    BY ExceptionsAssumption
  <1>2. /\ t.day_of_week \in 0 .. 255 /\ t.month \in 0 .. 255
        /\ t.hour \in 0 .. 255 /\ t.minute \in 0 .. 255
        /\ t.second \in 0 .. 255 /\ t.century \in 0 .. 255 /\ t.year \in 0 .. 255
    BY <1>1 DEF Byte
  <1>3. d \in Text /\ e \in Text
    BY NamesAreText, Zenon DEF date_to_text, month_to_text
  <1>4. Prints(TimeFormat, a, said(d))
    BY <1>2, <1>3, TimePrints, ZenonT(40)
  <1>5. Owed(<<Kprintf(TimeFormat, a)>>, said(d))
    BY <1>4, KprintfIsOwed, Zenon
  <1>6. t.day_of_week \in Int /\ t.month \in Int /\ 7 \in Int /\ 12 \in Int
    BY <1>2
  <1>7. "Invalid Week" # "%" /\ "Invalid Month" # "%"
    OBVIOUS
  <1>8. PICK o : Owed(week, o) /\ (t.day_of_week \in 1 .. 7 => o = <<>>)
    BY <1>6, <1>7, PiecesAreText, InvalidIsOwed, Zenon
  <1>9. PICK q : Owed(month, q) /\ (t.month \in 1 .. 12 => q = <<>>)
    BY <1>6, <1>7, PiecesAreText, InvalidIsOwed, Zenon
  <1>10. rtc_print_struct(t) = (week \o month) \o <<Kprintf(TimeFormat, a)>>
    BY Zenon DEF rtc_print_struct, TimeArguments
  <1>11. TimeText(t) = said(Name(DayName, t.day_of_week))
    BY Zenon DEF TimeText, TimeSaid, month_to_text, MonthEntry
  <1>15. d = Name(dates_str, t.day_of_week - 1)
    BY Zenon DEF date_to_text, DayEntry
  <1> HIDE DEF d, e, a, said, week, month
  <1>12. Owed(rtc_print_struct(t), (o \o q) \o said(d))
    BY <1>5, <1>8, <1>9, <1>10, OwedBoth, Zenon
  <1>13. CASE NamesAreWrong(t)
    BY <1>12, <1>13, Zenon
  <1>14. CASE ~NamesAreWrong(t)
    <2>1. Len(dates_str) = 7 /\ Len(DayName) = 7 /\ Len(months_str) = 12
      BY DEF dates_str, DayName, months_str
    <2>2. t.day_of_week \in 2 .. 7 /\ t.day_of_week \in 1 .. 7 /\ t.month \in 1 .. 12
      BY <1>2, <1>14, <2>1 DEF NamesAreWrong, DayEntry, MonthEntry
    <2>3. o = <<>> /\ q = <<>>
      BY <1>8, <1>9, <2>2, Zenon
    <2>4. said(d) \in Seq(Text) /\ <<>> \in Seq(Text)
      BY <1>5, OwedTyped, Empty, Zenon
    <2>5. (<<>> \o <<>>) \o said(d) = said(d)
      <3>1. <<>> \o said(d) = said(d) /\ <<>> \o <<>> = <<>>
        BY <2>4, Concat, Zenon
      <3> QED
        BY <3>1, Zenon
    <2>6. d = Name(DayName, t.day_of_week)
      BY <1>15, <2>2, RightDay, Zenon
    <2>7. TimeText(t) = said(d)
      BY <1>11, <2>6, Zenon
    <2> QED
      BY <1>12, <2>3, <2>5, <2>7, Zenon
  <1> QED
    BY <1>13, <1>14

LEMMA OneMore ==
  ASSUME NEW S, NEW s \in Seq(S), NEW k \in Nat, NEW l, l = k + 1, l <= Len(s)
  PROVE  Front(s, l) = Front(s, k) \o <<s[l]>>
  BY FrontGrows

LEMMA Joined ==
  ASSUME NEW S, NEW c \in S, NEW d \in S, NEW e \in S
  PROVE  (<<c>> \o <<d>>) \o <<e>> = <<c, d, e>> /\ <<c>> \o <<d>> = <<c, d>>
  <1> DEFINE s == <<c, d, e>>
             w == <<c, d>>
  <1>1. s \in Seq(S) /\ Len(s) = 3 /\ s[1] = c /\ s[2] = d /\ s[3] = e
    BY Three
  <1>2. w \in Seq(S) /\ Len(w) = 2 /\ w[1] = c /\ w[2] = d
    BY Two
  <1>8. <<c>> \in Seq(S)
    BY One
  <1> HIDE DEF s, w
  <1>3. Front(s, 0) = <<>> /\ Front(s, 3) = s /\ Front(w, 0) = <<>> /\ Front(w, 2) = w
    BY <1>1, <1>2, FrontEnds
  <1>10. /\ 0 \in Nat /\ 1 = 0 + 1 /\ 1 <= Len(s) /\ 1 <= Len(w)
         /\ 1 \in Nat /\ 2 = 1 + 1 /\ 2 <= Len(s) /\ 2 <= Len(w)
         /\ 2 \in Nat /\ 3 = 2 + 1 /\ 3 <= Len(s)
    BY <1>1, <1>2
  <1>4. Front(s, 1) = Front(s, 0) \o <<s[1]>> /\ Front(w, 1) = Front(w, 0) \o <<w[1]>>
    BY <1>1, <1>2, OneMore, <1>10, Zenon
  <1>5. Front(s, 2) = Front(s, 1) \o <<s[2]>> /\ Front(w, 2) = Front(w, 1) \o <<w[2]>>
    BY <1>1, <1>2, OneMore, <1>10, Zenon
  <1>6. Front(s, 3) = Front(s, 2) \o <<s[3]>>
    BY <1>1, OneMore, <1>10, Zenon
  <1>7. <<>> \o <<c>> = <<c>>
    BY <1>8, Concat
  <1>9. s = (<<c>> \o <<d>>) \o <<e>> /\ w = <<c>> \o <<d>>
    BY <1>1, <1>2, <1>3, <1>4, <1>5, <1>6, <1>7, Zenon
  <1> QED
    BY <1>9 DEF s, w

LEMMA OwedThree ==
  ASSUME NEW c, NEW d, NEW e, NEW t, NEW u, NEW v,
         Owed(<<c>>, t), Owed(<<d>>, u), Owed(<<e>>, v)
  PROVE  Owed(<<c, d, e>>, (t \o u) \o v)
  <1>1. <<c>> \in Seq(GoodCalls) /\ <<d>> \in Seq(GoodCalls) /\ <<e>> \in Seq(GoodCalls)
    BY OwedTyped
  <1>2. c \in GoodCalls /\ d \in GoodCalls /\ e \in GoodCalls
    BY <1>1
  <1>3. (<<c>> \o <<d>>) \o <<e>> = <<c, d, e>>
    BY <1>2, Joined
  <1>4. Owed((<<c>> \o <<d>>) \o <<e>>, (t \o u) \o v)
    BY OwedBoth, Zenon
  <1> QED
    BY <1>3, <1>4, Zenon

LEMMA TextCloses == \A r, s \in Seq(Text) : r \o s \in Seq(Text)
  BY Concat, Zenon

FiveRegrouped(x, y, z, w, l) ==
  (x \o y) \o ((z \o w) \o l) = (((x \o y) \o z) \o w) \o l

LEMMA FiveJoined ==
  ASSUME NEW x \in Seq(Text), NEW y \in Seq(Text), NEW z \in Seq(Text),
         NEW w \in Seq(Text), NEW l \in Seq(Text)
  PROVE  FiveRegrouped(x, y, z, w, l)
  <1>1. x \o y \in Seq(Text)
    BY TextCloses, Zenon
  <1>2. z \o w \in Seq(Text)
    BY TextCloses, Zenon
  <1>3. Regrouped(x \o y, z \o w, l)
    BY <1>1, <1>2, TextRegroups, Zenon
  <1>4. Regrouped(x \o y, z, w)
    BY <1>1, TextRegroups, Zenon
  <1> QED
    BY <1>3, <1>4, Zenon DEF Regrouped, FiveRegrouped

(* What page_fault prints.                                                 *)
LEMMA FaultIsOwed ==
  ASSUME cr2 \in 0 .. Word - 1 PROVE Owed(page_fault, FaultText)
  <1> DEFINE x == <<"Page Fault! ( ">>
             y == <<"present ">>
             z == <<") at 0x">>
             w == Numeral(cr2, 16)
             l == <<"\n">>
             K(c) == Kprintf(<<c>>, <<>>)
  <1>1. "Page Fault! ( " # "%" /\ "present " # "%" /\ ") at 0x" # "%" /\ "\n" # "%"
    OBVIOUS
  <1>2. /\ Owed(<<K("Page Fault! ( ")>>, x) /\ Owed(<<K("present ")>>, y)
        /\ Owed(<<K(") at 0x")>>, z) /\ Owed(<<K("\n")>>, l)
    BY <1>1, PiecesAreText, PlainIsOwed, Zenon
  <1>3. Owed(<<Hex(cr2)>>, w)
    BY HexIsOwed
  <1>4. ErrCode % 2 = 0
    BY DEF ErrCode
  <1>5. page_fault = (<<K("Page Fault! ( ")>> \o <<K("present ")>>)
                     \o <<K(") at 0x"), Hex(cr2), K("\n")>>
    BY <1>4, Zenon DEF page_fault
  <1>6. FaultText = (<<"Page Fault! ( ", "present ", ") at 0x">> \o w) \o l
    BY Zenon DEF FaultText
  <1>7. (x \o y) \o z = <<"Page Fault! ( ", "present ", ") at 0x">>
    <2>1. ASSUME NEW c \in Text, NEW d \in Text, NEW e \in Text
          PROVE  (<<c>> \o <<d>>) \o <<e>> = <<c, d, e>>
      BY Joined
    <2> QED
      BY <2>1, PiecesAreText, Zenon
  <1> HIDE DEF x, y, z, w, l, K
  <1>8. Owed(page_fault, (x \o y) \o ((z \o w) \o l))
    BY <1>2, <1>3, <1>5, OwedBoth, OwedThree, Zenon
  <1>9. x \in Seq(Text) /\ y \in Seq(Text) /\ z \in Seq(Text) /\ w \in Seq(Text) /\ l \in Seq(Text)
    BY <1>2, <1>3, OwedTyped, Zenon
  <1>10. FiveRegrouped(x, y, z, w, l)
    BY <1>9, FiveJoined, Zenon
  <1> QED
    BY <1>6, <1>7, <1>8, <1>10, Zenon DEF FiveRegrouped

(* What isr_handler prints of vector v.                                    *)
LEMMA ReportIsOwed ==
  ASSUME NEW v \in 0 .. 31, cr2 \in 0 .. Word - 1
  PROVE  Owed(isr_handler(v),
           <<"Recieved interrupt:">> \o Numeral(v, 10) \o <<"\n">>
           \o (IF v = 14 THEN FaultText ELSE <<>>))
  <1> DEFINE K(c) == Kprintf(<<c>>, <<>>)
             N == Kprintf(<<"%", "d">>, <<Num(v)>>)
  <1>1. "Recieved interrupt:" # "%" /\ "\n" # "%"
    OBVIOUS
  <1>2. Owed(<<K("Recieved interrupt:")>>, <<"Recieved interrupt:">>) /\ Owed(<<K("\n")>>, <<"\n">>)
    BY <1>1, PiecesAreText, PlainIsOwed, Zenon
  <1>3. Owed(<<N>>, Numeral(v, 10))
    <2>1. v \in -(Word \div 2) .. (Word \div 2) - 1 /\ v \in Int /\ ~(v < 0)
      <3>1. 128 <= Word \div 2 /\ Word \div 2 \in Nat
        BY WordFacts
      <3> QED
        BY <3>1
    <2>2. Num(v).word = v
      BY <2>1, NumIsArgument
    <2>3. Converted("d", Num(v)) = Numeral(v, 10)
      BY <2>1, <2>2 DEF Converted
    <2>4. Prints(<<"%", "d">>, <<Num(v)>>, Converted("d", Num(v)))
      BY <2>1, NumberPrints
    <2> QED
      BY <2>3, <2>4, KprintfIsOwed, Zenon
  <1>4. Owed(IF v = 14 THEN page_fault ELSE <<>>, IF v = 14 THEN FaultText ELSE <<>>)
    BY FaultIsOwed, OwedNothing, Zenon
  <1>5. isr_handler(v) = <<K("Recieved interrupt:"), N, K("\n")>>
                         \o (IF v = 14 THEN page_fault ELSE <<>>)
    BY Zenon DEF isr_handler
  <1> HIDE DEF K, N
  <1> QED
    BY <1>2, <1>3, <1>4, <1>5, OwedBoth, OwedThree, Zenon

-----------------------------------------------------------------------------
(* What is due while a call is under way.                                  *)

(* What was to be printed is what has been printed, the rest of the piece  *)
(* or number in hand, of the format and of the calls.                      *)
Balanced(e, a, u, v, o) == e = a \o (u \o (v \o o))

LEMMA TextAndNothing ==
  \A s \in Seq(Text) : s \o <<>> = s /\ <<>> \o s = s
  BY Concat, Zenon

(* Text goes from what is in hand to what has been printed.                *)
LEMMA PrintedNow ==
  ASSUME NEW e, NEW a, NEW w, NEW u, NEW v, NEW o,
         a \in Seq(Text) /\ w \in Seq(Text) /\ u \in Seq(Text)
         /\ v \in Seq(Text) /\ o \in Seq(Text),
         Balanced(e, a, w \o u, v, o)
  PROVE  Balanced(e, a \o w, u, v, o)
  <1>1. v \o o \in Seq(Text)
    BY TextCloses, Zenon
  <1>2. u \o (v \o o) \in Seq(Text)
    BY <1>1, TextCloses, Zenon
  <1>3. Regrouped(w, u, v \o o)
    BY <1>1, TextRegroups, Zenon
  <1>4. Regrouped(a, w, u \o (v \o o))
    BY <1>2, TextRegroups, Zenon
  <1> QED
    BY <1>3, <1>4, Zenon DEF Balanced, Regrouped

(* Text goes from the rest of the format to what is in hand.               *)
LEMMA TakenInHand ==
  ASSUME NEW e, NEW a, NEW w, NEW v, NEW o,
         w \in Seq(Text) /\ v \in Seq(Text) /\ o \in Seq(Text),
         Balanced(e, a, <<>>, w \o v, o)
  PROVE  Balanced(e, a, w, v, o)
  <1>1. w \o v \in Seq(Text)
    BY TextCloses, Zenon
  <1>2. (w \o v) \o o \in Seq(Text)
    BY <1>1, TextCloses, Zenon
  <1>3. <<>> \o ((w \o v) \o o) = (w \o v) \o o
    BY <1>2, TextAndNothing, Zenon
  <1>4. Regrouped(w, v, o)
    BY TextRegroups, Zenon
  <1> QED
    BY <1>3, <1>4, Zenon DEF Balanced, Regrouped

(* A call begins, and its text is that of its format or in hand.           *)
LEMMA CallBegun ==
  ASSUME NEW e, NEW a, NEW w, NEW o, w \in Seq(Text) /\ o \in Seq(Text),
         Balanced(e, a, <<>>, <<>>, w \o o)
  PROVE  Balanced(e, a, <<>>, w, o) /\ Balanced(e, a, w, <<>>, o)
  <1>1. w \o o \in Seq(Text)
    BY TextCloses, Zenon
  <1>2. <<>> \o (w \o o) = w \o o /\ <<>> \o o = o
    BY <1>1, TextAndNothing, Zenon
  <1> QED
    BY <1>2, Zenon DEF Balanced

LEMMA AllOwed ==
  ASSUME NEW o \in Seq(Text) PROVE Balanced(o, <<>>, <<>>, <<>>, o)
  <1>1. <<>> \o o = o
    BY TextAndNothing, Zenon
  <1> QED
    BY <1>1, Zenon DEF Balanced

(* Nothing is due any more: what was due has been printed.                 *)
LEMMA NothingOwed ==
  ASSUME NEW e, NEW a \in Seq(Text), Balanced(e, a, <<>>, <<>>, <<>>) PROVE a = e
  <1>1. <<>> \o <<>> = <<>> /\ a \o <<>> = a
    BY TextAndNothing, Empty, Zenon
  <1> QED
    BY <1>1, Zenon DEF Balanced

(* The numbers being made.  itoa has made the m lowest digits of x behind  *)
(* the sign s; then it turns them round; terminal_write_hex has q + 1      *)
(* digits to go.                                                           *)
Made(t, s, x, b, m) ==
  /\ Len(t) = Len(s) + m
  /\ \A j \in 1 .. Len(s) : t[j] = s[j]
  /\ \A j \in 1 .. m : t[Len(s) + j] = Digit(Drop(x, b, j - 1) % b)

MakesDigits(u, x, s, m) ==
  /\ u = s \o Numeral(x, Divisor)
  /\ p1 = Len(s) + 1
  /\ Made(p, s, x, Divisor, m)
  /\ ud = Drop(x, Divisor, m)
  /\ m > 0 => ud # 0

Turned(t, u, f, l) ==
  /\ Len(t) = Len(u)
  /\ \A j \in 1 .. Len(u) :
       t[j] = IF f <= j /\ j <= l THEN u[f + l - j] ELSE u[j]

WritesNibbles(u, q) ==
  /\ i = 4 * q
  /\ noZeroes => n < Power(16, q + 1) /\ u = Numeral(n, 16)
  /\ ~noZeroes => u = LowDigits(n, 16, q + 1)

(* What is in hand.                                                        *)
InHand(u) ==
  /\ u \in Seq(Text)
  /\ pc \in {"return", "format"} => u = <<>>
  /\ pc = "itoa" =>
       \E x \in 0 .. Word - 1, s \in Seq(Text), m \in 0 .. MostPlaces : MakesDigits(u, x, s, m)
  /\ pc = "reverse" => Turned(p, u, p1, p2)
  /\ pc = "string" => p = u
  /\ pc = "hex" => \E q \in 0 .. (WordBits \div 4) - 1 : WritesNibbles(u, q)

Later == IF pc = "return" THEN todo ELSE Tail(todo)

Rest(u) ==
  \E v, o : /\ Prints(data, arg, v) /\ Owed(Later, o)
            /\ outside \/ Balanced(expected, out, u, v, o)

Due == out \in Seq(Text) /\ \E u : InHand(u) /\ Rest(u)

(* The calls and arguments, as far as their types go.                      *)
InPrintf ==
  /\ todo \in Seq(GoodCalls)
  /\ todo = <<>> => pc = "return"
  /\ data \in Seq(Text) /\ arg \in Seq(Argument)
  /\ pc \in {"return", "hex"} => data = <<>> /\ arg = <<>>

InItoa ==
  /\ p \in Seq(Text)
  /\ p1 \in Nat \ {0} /\ p2 \in Nat
  /\ pc = "reverse" => p2 <= Len(p)
  /\ ud \in 0 .. Word - 1
  /\ base \in {"d", "u", "x"}

InWriteHex ==
  /\ n \in 0 .. Word - 1
  /\ i \in 0 .. WordBits - 4 /\ i % 4 = 0
  /\ noZeroes \in BOOLEAN

PrintState ==
  /\ pc \in {"return", "format", "itoa", "reverse", "string", "hex"}
  /\ InPrintf
  /\ InItoa
  /\ InWriteHex

(* A step inside of a call that prints nothing, or that prints w.          *)
Quietly ==
  UNCHANGED <<data, arg, outside, expected>> /\ Later' = Later

LEMMA RestKept ==
  ASSUME NEW u, Rest(u), Quietly, out' = out PROVE Rest(u)'
  <1>1. PICK v, o : /\ Prints(data, arg, v) /\ Owed(Later, o)
                    /\ outside \/ Balanced(expected, out, u, v, o)
    BY DEF Rest
  <1>2. /\ Prints(data', arg', v) /\ Owed(Later', o)
        /\ outside' \/ Balanced(expected', out', u, v, o)
    BY <1>1, Zenon DEF Quietly
  <1> QED
    BY <1>2, Zenon DEF Rest, Prints, Owed, Balanced

LEMMA RestPrinted ==
  ASSUME NEW w \in Seq(Text), NEW u \in Seq(Text), out \in Seq(Text),
         Rest(w \o u), Quietly, out' = out \o w
  PROVE  Rest(u)' /\ out' \in Seq(Text)
  <1>1. PICK v, o : /\ Prints(data, arg, v) /\ Owed(Later, o)
                    /\ outside \/ Balanced(expected, out, w \o u, v, o)
    BY DEF Rest
  <1>2. v \in Seq(Text) /\ o \in Seq(Text)
    BY <1>1, PrintsTyped, OwedTyped, Zenon
  <1>3. outside \/ Balanced(expected, out \o w, u, v, o)
    BY <1>1, <1>2, PrintedNow, Zenon
  <1>4. /\ Prints(data', arg', v) /\ Owed(Later', o)
        /\ outside' \/ Balanced(expected', out', u, v, o)
    BY <1>1, <1>3, Zenon DEF Quietly
  <1>5. out' \in Seq(Text)
    BY TextCloses, Zenon
  <1> QED
    BY <1>4, <1>5, Zenon DEF Rest, Prints, Owed, Balanced

-----------------------------------------------------------------------------
(* The calls, and the loop of kprintf.                                     *)

(* The printing is not the step of a flow that sets the text that is due.  *)
OtherFlow == UNCHANGED <<outside, expected>>

LEMMA FormatInHand ==
  ASSUME Due, pc \in {"return", "format"} PROVE Rest(<<>>) /\ out \in Seq(Text)
  BY Zenon DEF Due, InHand

LEMMA NothingInHand ==
  ASSUME pc' \in {"return", "format"}, Rest(<<>>)', out' \in Seq(Text) PROVE Due'
  <1>1. pc' # "itoa" /\ pc' # "reverse" /\ pc' # "string" /\ pc' # "hex"
    OBVIOUS
  <1>2. InHand(<<>>)'
    BY <1>1, Empty, Zenon DEF InHand
  <1> QED
    BY <1>2, Zenon DEF Due

LEMMA LastCall == ASSUME data = <<>>, NEW v, Prints(data, arg, v) PROVE arg = <<>> /\ v = <<>>
  BY TakeNothing, Zenon

LEMMA CallKprintfDue ==
  ASSUME PrintState, Due, CallKprintf, OtherFlow PROVE Due'
  <1>1. /\ pc = "return" /\ todo # <<>> /\ Head(todo).fn = "kprintf" /\ pc' = "format"
        /\ data' = Head(todo).fmt /\ arg' = Head(todo).args /\ todo' = todo /\ out' = out
    BY DEF CallKprintf, Call
  <1>2. data = <<>> /\ arg = <<>>
    BY <1>1 DEF PrintState, InPrintf
  <1>3. Rest(<<>>) /\ out \in Seq(Text)
    BY <1>1, FormatInHand, Zenon
  <1>4. PICK v, o : /\ Prints(data, arg, v) /\ Owed(Later, o)
                    /\ outside \/ Balanced(expected, out, <<>>, v, o)
    BY <1>3 DEF Rest
  <1>5. v = <<>>
    BY <1>2, <1>4, LastCall, Zenon
  <1>6. Later = todo /\ Later' = Tail(todo)
    BY <1>1 DEF Later
  <1>7. PICK u \in Seq(Text), w \in Seq(Text) :
          Says(Head(todo), u) /\ Owed(Tail(todo), w) /\ o = u \o w
    <2>1. Owed(todo, o)
      BY <1>4, <1>6, Zenon
    <2>2. \E x \in Seq(Text), y \in Seq(Text) :
            Says(Head(todo), x) /\ Owed(Tail(todo), y) /\ o = x \o y
      BY <1>1, <2>1, TakeCall, SMTT(20)
    <2> QED
      BY <2>2
  <1>8. Prints(data', arg', u)
    BY <1>1, <1>7, Zenon DEF Says
  <1>9. outside' \/ Balanced(expected', out', <<>>, u, w)
    BY <1>1, <1>4, <1>5, <1>7, CallBegun, Zenon DEF OtherFlow
  <1>10. Rest(<<>>)'
    BY <1>6, <1>7, <1>8, <1>9, Zenon DEF Rest, Prints, Owed, Balanced
  <1> QED
    BY <1>1, <1>3, <1>10, NothingInHand

LEMMA CallWriteHexDue ==
  ASSUME PrintState, Due, CallWriteHex, OtherFlow PROVE Due'
  <1>1. /\ pc = "return" /\ todo # <<>> /\ Head(todo).fn = "terminal_write_hex" /\ pc' = "hex"
        /\ n' = Head(todo).n /\ noZeroes' = TRUE /\ i' = WordBits - 4
        /\ UNCHANGED <<todo, data, arg, out>>
    BY DEF CallWriteHex, Call, FirstShift
  <1>2. data = <<>> /\ arg = <<>>
    BY <1>1 DEF PrintState, InPrintf
  <1>3. Rest(<<>>) /\ out \in Seq(Text)
    BY <1>1, FormatInHand, Zenon
  <1>4. PICK v, o : /\ Prints(data, arg, v) /\ Owed(Later, o)
                    /\ outside \/ Balanced(expected, out, <<>>, v, o)
    BY <1>3 DEF Rest
  <1>5. v = <<>>
    BY <1>2, <1>4, LastCall, Zenon
  <1>6. Later = todo /\ Later' = Tail(todo)
    BY <1>1 DEF Later
  <1>7. PICK u \in Seq(Text), w \in Seq(Text) :
          Says(Head(todo), u) /\ Owed(Tail(todo), w) /\ o = u \o w
    <2>1. Owed(todo, o)
      BY <1>4, <1>6, Zenon
    <2>2. \E x \in Seq(Text), y \in Seq(Text) :
            Says(Head(todo), x) /\ Owed(Tail(todo), y) /\ o = x \o y
      BY <1>1, <2>1, TakeCall, SMTT(20)
    <2> QED
      BY <2>2
  <1>8. u = Numeral(n', 16)
    BY <1>1, <1>7 DEF Says
  <1>9. Prints(data', arg', v)
    BY <1>1, <1>4, Zenon
  <1>10. outside' \/ Balanced(expected', out', u, v, w)
    BY <1>1, <1>4, <1>5, <1>7, CallBegun, Zenon DEF OtherFlow
  <1>11. Rest(u)'
    BY <1>6, <1>7, <1>9, <1>10, Zenon DEF Rest, Prints, Owed, Balanced
  <1>12. InHand(u)'
    <2> DEFINE q == (WordBits \div 4) - 1
    <2>1. /\ q \in 0 .. (WordBits \div 4) - 1 /\ q + 1 = WordBits \div 4
          /\ WordBits - 4 = 4 * q /\ WordBits \div 4 \in 0 .. WordBits \div 4
      BY PlacesFacts
    <2>2. Power(16, q + 1) = Word
      BY <2>1, FourBits, PlacesFacts DEF Power, Word
    <2>3. n' < Word
      <3>1. Head(todo) \in GoodCalls
        BY <1>1, <1>4, <1>6, TakeCall, Zenon
      <3> QED
        BY <1>1, <3>1, WordFacts DEF GoodCalls
    <2> HIDE DEF q
    <2>4. WritesNibbles(u, q)'
      BY <1>1, <1>8, <2>1, <2>2, <2>3 DEF WritesNibbles
    <2>5. pc' # "return" /\ pc' # "format" /\ pc' # "itoa" /\ pc' # "reverse" /\ pc' # "string"
      BY <1>1
    <2> QED
      BY <1>7, <2>1, <2>4, <2>5 DEF InHand
  <1> QED
    BY <1>1, <1>3, <1>11, <1>12, Zenon DEF Due

LEMMA LiteralDue ==
  ASSUME PrintState, Due, Literal, OtherFlow PROVE Due'
  <1>1. /\ pc = "format" /\ data # <<>> /\ Head(data) # "%" /\ data' = Tail(data)
        /\ out' = Append(out, Head(data)) /\ UNCHANGED <<todo, pc, arg>>
    BY DEF Literal, putchar
  <1>2. Rest(<<>>) /\ out \in Seq(Text)
    BY <1>1, FormatInHand, Zenon
  <1>3. PICK v, o : /\ Prints(data, arg, v) /\ Owed(Later, o)
                    /\ outside \/ Balanced(expected, out, <<>>, v, o)
    BY <1>2 DEF Rest
  <1>4. PICK u : Prints(Tail(data), arg, u) /\ v = <<Head(data)>> \o u
    <2>1. Prints(data, arg, v) /\ data # <<>> /\ Head(data) # "%"
      BY <1>1, <1>3, Zenon
    <2>2. \E u : Prints(Tail(data), arg, u) /\ v = <<Head(data)>> \o u
      BY <2>1, TakePiece
    <2> QED
      BY <2>2, Zenon
  <1>5. u \in Seq(Text) /\ o \in Seq(Text)
    BY <1>3, <1>4, PrintsTyped, OwedTyped, Zenon
  <1>6. Head(data) \in Text
    BY <1>1, TailFacts DEF PrintState, InPrintf
  <1>7. PICK w : w = <<Head(data)>>
    OBVIOUS
  <1>8. w \in Seq(Text) /\ out' = out \o w
    BY <1>1, <1>2, <1>6, <1>7, One
  <1>9. w \o <<>> = w /\ <<>> \in Seq(Text)
    BY <1>8, TextAndNothing, Empty, Zenon
  <1>10. outside \/ Balanced(expected, out, w \o <<>>, u, o)
    BY <1>3, <1>4, <1>5, <1>7, <1>8, <1>9, TakenInHand, Zenon
  <1>11. outside' \/ Balanced(expected', out', <<>>, u, o)
    BY <1>2, <1>5, <1>8, <1>9, <1>10, PrintedNow, Zenon DEF OtherFlow
  <1>12. Later' = Later
    BY <1>1 DEF Later
  <1>13. Prints(data', arg', u) /\ Owed(Later', o)
    BY <1>1, <1>3, <1>4, <1>12, Zenon
  <1>14. Rest(<<>>)'
    BY <1>11, <1>13, Zenon DEF Rest, Prints, Owed, Balanced
  <1>15. out' \in Seq(Text)
    BY <1>2, <1>8, TextCloses, Zenon
  <1>16. pc' \in {"return", "format"}
    BY <1>1
  <1> QED
    BY <1>14, <1>15, <1>16, NothingInHand, Zenon

(* A function that returns, and whose text has been printed.               *)
LEMMA EndedDue ==
  ASSUME data = <<>>, Rest(<<>>), out \in Seq(Text), pc # "return", Ended, OtherFlow, out' = out
  PROVE  Due'
  <1>1. todo' = Tail(todo) /\ pc' = "return" /\ data' = <<>> /\ arg' = <<>>
    BY DEF Ended
  <1>2. PICK v, o : /\ Prints(data, arg, v) /\ Owed(Later, o)
                    /\ outside \/ Balanced(expected, out, <<>>, v, o)
    BY DEF Rest
  <1>3. arg = <<>> /\ v = <<>>
    BY <1>2, LastCall, Zenon
  <1>4. Later' = Later
    BY <1>1 DEF Later
  <1>5. UNCHANGED <<data, arg, outside, expected>>
    BY <1>1, <1>3, Zenon DEF OtherFlow
  <1>6. Rest(<<>>)'
    BY <1>4, <1>5, RestKept DEF Quietly
  <1> QED
    BY <1>1, <1>6, NothingInHand

LEMMA EndKprintfDue ==
  ASSUME PrintState, Due, EndKprintf, OtherFlow PROVE Due'
  <1>1. pc = "format" /\ data = <<>> /\ Ended /\ out' = out
    BY DEF EndKprintf
  <1>2. Rest(<<>>) /\ out \in Seq(Text) /\ pc # "return"
    BY <1>1, FormatInHand
  <1> QED
    BY <1>1, <1>2, EndedDue

(* At a % there is an argument, which fits.                                *)
LEMMA DueFits ==
  ASSUME Due, pc = "format", data # <<>>, Head(data) = "%"
  PROVE  /\ data[2] \in Conversions /\ Len(data) >= 2
         /\ arg # <<>> /\ Head(arg) \in Argument /\ Fits(data[2], Head(arg))
  <1>1. Rest(<<>>)
    BY FormatInHand
  <1>2. PICK v, o : Prints(data, arg, v)
    BY <1>1 DEF Rest
  <1> QED
    BY <1>2, TakeConversion

LEMMA Converts ==
  ASSUME Due, NEW c, Conversion(c), arg' = NextArg, OtherFlow, todo' = todo, pc' # "return",
         out' = out, NEW x, x = Head(arg)
  PROVE  /\ c \in Conversions /\ x \in Argument /\ Fits(c, x)
         /\ Converted(c, x) \in Seq(Text) /\ Rest(Converted(c, x))' /\ out \in Seq(Text)
  <1>1. /\ pc = "format" /\ data # <<>> /\ Head(data) = "%" /\ data[2] = c
        /\ data' = SubSeq(data, 3, Len(data)) /\ arg' = Tail(arg)
    BY DEF Conversion, NextArg
  <1>2. Rest(<<>>) /\ out \in Seq(Text)
    BY <1>1, FormatInHand
  <1>3. c \in Conversions /\ x \in Argument /\ Fits(c, x)
    BY <1>1, DueFits
  <1>4. Converted(c, x) \in Seq(Text)
    BY <1>3, ConvertedText
  <1>5. PICK v, o : /\ Prints(data, arg, v) /\ Owed(Later, o)
                    /\ outside \/ Balanced(expected, out, <<>>, v, o)
    BY <1>2 DEF Rest
  <1>6. PICK u : Prints(SubSeq(data, 3, Len(data)), Tail(arg), u) /\ v = Converted(c, x) \o u
    <2>1. Prints(data, arg, v) /\ data # <<>> /\ Head(data) = "%"
      BY <1>1, <1>5, Zenon
    <2>2. \E u : /\ Prints(SubSeq(data, 3, Len(data)), Tail(arg), u)
                 /\ v = Converted(data[2], Head(arg)) \o u
      BY <2>1, TakeConversion
    <2> QED
      BY <1>1, <2>2
  <1>7. u \in Seq(Text) /\ o \in Seq(Text)
    BY <1>5, <1>6, PrintsTyped, OwedTyped, Zenon
  <1>8. outside \/ Balanced(expected, out, Converted(c, x), u, o)
    BY <1>4, <1>5, <1>6, <1>7, TakenInHand, Zenon
  <1>9. Later' = Later
    BY <1>1 DEF Later
  <1>10. /\ Prints(data', arg', u) /\ Owed(Later', o)
         /\ outside' \/ Balanced(expected', out', Converted(c, x), u, o)
    BY <1>1, <1>5, <1>6, <1>8, <1>9, Zenon DEF OtherFlow
  <1>11. Rest(Converted(c, x))'
    BY <1>10, Zenon DEF Rest, Prints, Owed, Balanced
  <1> QED
    BY <1>2, <1>3, <1>4, <1>11, Zenon

-----------------------------------------------------------------------------
(* Strings, characters and the numbers itoa is given.                      *)

LEMMA StringInHand ==
  ASSUME NEW u \in Seq(Text), pc' = "string", p' = u, Rest(u)', out' \in Seq(Text) PROVE Due'
  <1>1. pc' # "return" /\ pc' # "format" /\ pc' # "itoa" /\ pc' # "reverse" /\ pc' # "hex"
    OBVIOUS
  <1>2. InHand(u)'
    BY <1>1, Zenon DEF InHand
  <1> QED
    BY <1>2, Zenon DEF Due

(* case s: the string, or (null) for a null pointer.                       *)
LEMMA StringDue ==
  ASSUME PrintState, Due, String, OtherFlow PROVE Due'
  <1>1. /\ Conversion("s") /\ arg' = NextArg /\ pc' = "string"
        /\ p' = IF Head(arg).word = 0 THEN <<"(null)">> ELSE Head(arg).str
        /\ UNCHANGED <<todo, out>>
    BY DEF String
  <1>2. PICK x : x = Head(arg)
    OBVIOUS
  <1>3. pc' # "return"
    BY <1>1
  <1>4. Converted("s", x) \in Seq(Text) /\ Rest(Converted("s", x))' /\ out \in Seq(Text)
    BY <1>1, <1>2, <1>3, Converts, Zenon
  <1>5. p' = Converted("s", x)
    BY <1>1, <1>2 DEF Converted
  <1> QED
    BY <1>1, <1>4, <1>5, StringInHand, Zenon

LEMMA TextInHand ==
  ASSUME Due, pc = "string" PROVE Rest(p) /\ p \in Seq(Text) /\ out \in Seq(Text)
  <1>1. PICK u : InHand(u) /\ Rest(u)
    BY DEF Due
  <1>2. p = u /\ u \in Seq(Text)
    BY <1>1, Zenon DEF InHand
  <1> QED
    BY <1>1, <1>2, Zenon DEF Due

LEMMA PutStringDue ==
  ASSUME PrintState, Due, PutString, OtherFlow PROVE Due'
  <1>1. /\ pc = "string" /\ p # <<>> /\ p' = Tail(p) /\ out' = Append(out, Head(p))
        /\ UNCHANGED <<todo, pc, data, arg>>
    BY DEF PutString, putchar
  <1>2. Rest(p) /\ p \in Seq(Text) /\ out \in Seq(Text)
    BY <1>1, TextInHand
  <1>3. PICK c, u : c = Head(p) /\ u = Tail(p)
    OBVIOUS
  <1>4. c \in Text /\ u \in Seq(Text) /\ <<c>> \in Seq(Text)
    BY <1>1, <1>2, <1>3, TailFacts
  <1>5. p = <<c>> \o u
    BY <1>1, <1>2, <1>3
  <1>6. out' = out \o <<c>>
    BY <1>1, <1>2, <1>3, <1>4
  <1>7. Quietly
    BY <1>1 DEF Quietly, Later, OtherFlow
  <1>8. Rest(<<c>> \o u)
    BY <1>2, <1>5, Zenon
  <1>9. Rest(u)' /\ out' \in Seq(Text)
    BY <1>2, <1>4, <1>6, <1>7, <1>8, RestPrinted
  <1> QED
    BY <1>1, <1>3, <1>4, <1>9, StringInHand

LEMMA EndStringDue ==
  ASSUME PrintState, Due, EndString, OtherFlow PROVE Due'
  <1>1. pc = "string" /\ p = <<>> /\ pc' = "format" /\ UNCHANGED <<todo, data, arg, out>>
    BY DEF EndString
  <1>2. Rest(<<>>) /\ out \in Seq(Text)
    BY <1>1, TextInHand, Zenon
  <1>3. Quietly
    BY <1>1 DEF Quietly, Later, OtherFlow
  <1>4. Rest(<<>>)'
    BY <1>1, <1>2, <1>3, RestKept
  <1> QED
    BY <1>1, <1>2, <1>4, NothingInHand

(* A character is printed as it is converted.                              *)
LEMMA CharacterDue ==
  ASSUME PrintState, Due, Character, OtherFlow PROVE Due'
  <1>1. /\ Conversion("c") /\ arg' = NextArg /\ out' = out \o Head(arg).str
        /\ UNCHANGED <<todo, pc>>
    BY DEF Character
  <1>2. /\ pc = "format" /\ data # <<>> /\ Head(data) = "%" /\ data[2] = "c"
        /\ data' = SubSeq(data, 3, Len(data)) /\ arg' = Tail(arg)
    BY <1>1 DEF Conversion, NextArg
  <1>3. Rest(<<>>) /\ out \in Seq(Text)
    BY <1>2, FormatInHand
  <1>4. PICK v, o : /\ Prints(data, arg, v) /\ Owed(Later, o)
                    /\ outside \/ Balanced(expected, out, <<>>, v, o)
    BY <1>3 DEF Rest
  <1>5. PICK x : x = Converted("c", Head(arg))
    OBVIOUS
  <1>6. x \in Seq(Text)
    <2>1. "c" \in Conversions /\ Head(arg) \in Argument /\ Fits("c", Head(arg))
      BY <1>2, DueFits
    <2> QED
      BY <1>5, <2>1, ConvertedText
  <1>7. PICK u : Prints(SubSeq(data, 3, Len(data)), Tail(arg), u) /\ v = x \o u
    <2>1. Prints(data, arg, v) /\ data # <<>> /\ Head(data) = "%"
      BY <1>2, <1>4, Zenon
    <2>2. \E u : /\ Prints(SubSeq(data, 3, Len(data)), Tail(arg), u)
                 /\ v = Converted(data[2], Head(arg)) \o u
      BY <2>1, TakeConversion
    <2> QED
      BY <1>2, <1>5, <2>2
  <1>8. u \in Seq(Text) /\ o \in Seq(Text)
    BY <1>4, <1>7, PrintsTyped, OwedTyped, Zenon
  <1>9. out' = out \o x
    BY <1>1, <1>5 DEF Converted
  <1>10. x \o <<>> = x /\ <<>> \in Seq(Text)
    BY <1>6, TextAndNothing, Empty, Zenon
  <1>11. outside \/ Balanced(expected, out, x \o <<>>, u, o)
    BY <1>4, <1>6, <1>7, <1>8, <1>10, TakenInHand, Zenon
  <1>12. outside' \/ Balanced(expected', out', <<>>, u, o)
    BY <1>3, <1>6, <1>8, <1>9, <1>10, <1>11, PrintedNow, Zenon DEF OtherFlow
  <1>13. Later' = Later
    BY <1>1 DEF Later
  <1>14. Prints(data', arg', u) /\ Owed(Later', o)
    BY <1>2, <1>4, <1>7, <1>13, Zenon
  <1>15. Rest(<<>>)'
    BY <1>12, <1>14, Zenon DEF Rest, Prints, Owed, Balanced
  <1>16. out' \in Seq(Text) /\ pc' \in {"return", "format"}
    BY <1>1, <1>2, <1>3, <1>6, <1>9, TextCloses
  <1> QED
    BY <1>15, <1>16, NothingInHand, Zenon

(* itoa is given a sign, and the rest of the number.                       *)
Sign(c, d) == IF Negative(c, d) THEN <<"-">> ELSE <<>>
Amount(c, d) == (IF Negative(c, d) THEN -d ELSE d) % Word
BaseOf(c) == IF c = "x" THEN 16 ELSE 10

LEMMA NumberText ==
  ASSUME NEW c \in {"d", "u", "x"}, NEW x \in Argument, Fits(c, x)
  PROVE  /\ Sign(c, x.word) \in Seq(Text) /\ Amount(c, x.word) \in 0 .. Word - 1
         /\ BaseOf(c) \in {10, 16}
         /\ Converted(c, x) = Sign(c, x.word) \o Numeral(Amount(c, x.word), BaseOf(c))
  <1> DEFINE d == x.word
             s == Sign(c, d)
             y == Amount(c, d)
             b == BaseOf(c)
  <1>1. d \in Int /\ b \in {10, 16} /\ Word \in Nat \ {0}
    BY WordFacts DEF Argument, BaseOf
  <1>2. <<"-">> \in Seq(Text) /\ <<>> \in Seq(Text)
    BY PiecesAreText, One, Empty, Zenon
  <1>3. y \in 0 .. Word - 1
    <2> DEFINE z == IF Negative(c, d) THEN -d ELSE d
    <2>1. z \in Int
      BY <1>1
    <2> HIDE DEF z
    <2>2. z % Word \in 0 .. Word - 1
      BY <1>1, <2>1, Remainder
    <2> QED
      BY <2>2 DEF z, Amount
  <1>4. Numeral(y, b) \in Seq(Text)
    BY <1>1, <1>3, NumeralIs
  <1>5. <<>> \o Numeral(y, b) = Numeral(y, b)
    BY <1>4, TextAndNothing, Zenon
  <1>6. s \in Seq(Text)
    BY <1>2, Zenon DEF Sign
  <1>7. CASE c = "d" /\ d < 0
    <2>1. -d \in 0 .. Word - 1 /\ Negative(c, d) /\ b = 10
      BY <1>1, <1>7 DEF Fits, Negative, BaseOf
    <2>2. (-d) % Word = -d
      BY <2>1, <1>1
    <2>3. Converted(c, x) = <<"-">> \o Numeral(-d, 10)
      BY <1>7 DEF Converted
    <2>4. y = -d /\ s = <<"-">>
      BY <2>1, <2>2 DEF Sign, Amount
    <2> QED
      BY <1>1, <1>3, <1>6, <2>1, <2>3, <2>4, Zenon
  <1>8. CASE c = "d" /\ ~(d < 0)
    <2>1. d \in 0 .. Word - 1 /\ ~Negative(c, d) /\ b = 10
      BY <1>1, <1>8 DEF Fits, Negative, BaseOf
    <2>2. d % Word = d
      BY <2>1, <1>1
    <2>3. Converted(c, x) = Numeral(d, 10)
      BY <1>8 DEF Converted
    <2>4. y = d /\ s = <<>>
      BY <2>1, <2>2 DEF Sign, Amount
    <2> QED
      BY <1>1, <1>3, <1>5, <1>6, <2>1, <2>3, <2>4, Zenon
  <1>9. CASE c \in {"u", "x"}
    <2>1. ~Negative(c, d)
      BY <1>9 DEF Negative
    <2>2. y = d % Word /\ s = <<>>
      BY <2>1 DEF Sign, Amount
    <2>3. Converted(c, x) = Numeral(d % Word, b)
      BY <1>9 DEF Converted, BaseOf
    <2> QED
      BY <1>1, <1>3, <1>5, <1>6, <2>2, <2>3, Zenon
  <1> QED
    BY <1>7, <1>8, <1>9

(* case d, u or x: nothing of the number is made but its sign.             *)
LEMMA NumberDue ==
  ASSUME PrintState, Due, Number, OtherFlow PROVE Due'
  <1>1. PICK c \in {"d", "u", "x"} :
          LET d == Head(arg).word IN
          /\ Conversion(c)
          /\ arg' = NextArg
          /\ base' = c
          /\ ud' = (IF Negative(c, d) THEN -d ELSE d) % Word
          /\ p' = IF Negative(c, d) THEN <<"-">> ELSE <<>>
          /\ p1' = Len(p') + 1
          /\ pc' = "itoa"
          /\ UNCHANGED <<todo, p2, n, i, noZeroes, out>>
    BY DEF Number
  <1>2. PICK x, d, s, y, b : /\ x = Head(arg) /\ d = x.word
                             /\ s = Sign(c, d) /\ y = Amount(c, d) /\ b = BaseOf(c)
    OBVIOUS
  <1>3. pc' # "return" /\ todo' = todo /\ out' = out
    BY <1>1
  <1>4. /\ c \in Conversions /\ x \in Argument /\ Fits(c, x) /\ Converted(c, x) \in Seq(Text)
        /\ Rest(Converted(c, x))' /\ out \in Seq(Text)
    BY <1>1, <1>2, <1>3, Converts, Zenon
  <1>5. /\ s \in Seq(Text) /\ y \in 0 .. Word - 1 /\ b \in {10, 16}
        /\ Converted(c, x) = s \o Numeral(y, b)
    BY <1>2, <1>4, NumberText, Zenon
  <1>6. p' = s /\ ud' = y /\ Divisor' = b /\ p1' = Len(s) + 1 /\ pc' = "itoa"
    BY <1>1, <1>2, Zenon DEF Divisor, Sign, Amount, BaseOf
  <1>7. Drop(y, b, 0) = y /\ Len(s) \in Nat
    BY <1>5, Dropped
  <1>8. MakesDigits(Converted(c, x), y, s, 0)'
    BY <1>5, <1>6, <1>7 DEF MakesDigits, Made
  <1>9. 0 \in 0 .. MostPlaces
    BY PlacesFacts
  <1>10. pc' # "format" /\ pc' # "reverse" /\ pc' # "string" /\ pc' # "hex"
    BY <1>6
  <1>11. InHand(Converted(c, x))'
    BY <1>3, <1>4, <1>5, <1>8, <1>9, <1>10, Zenon DEF InHand
  <1> QED
    BY <1>3, <1>4, <1>11, Zenon DEF Due

-----------------------------------------------------------------------------
(* The loops of itoa.                                                      *)

(* A step within a call that prints nothing and takes no argument.         *)
LEMMA RestWithin ==
  ASSUME NEW u, Rest(u), UNCHANGED <<todo, data, arg, out>>, OtherFlow,
         pc # "return", pc' # "return"
  PROVE  Rest(u)'
  <1>1. Later' = Later
    BY DEF Later
  <1> QED
    BY <1>1, RestKept DEF Quietly, OtherFlow

(* The last digit that is made is the first of the numeral.                *)
LEMMA AllDigits ==
  ASSUME NEW x \in Nat, NEW b \in {10, 16}, NEW m \in 0 .. MostPlaces - 1,
         m > 0 => Drop(x, b, m) # 0, Drop(x, b, m + 1) = 0
  PROVE  Numeral(x, b) = LowDigits(x, b, m + 1)
  <1>1. m + 1 \in 1 .. MostPlaces /\ m \in 0 .. MostPlaces /\ m + 1 \in 0 .. MostPlaces
    BY PlacesFacts
  <1>2. x < Power(b, m + 1)
    BY <1>1, Dropped
  <1>3. m + 1 = 1 \/ x >= Power(b, (m + 1) - 1)
    <2>1. CASE m = 0
      BY <2>1
    <2>2. CASE m > 0
      <3>1. ~(x < Power(b, m))
        <4>1. Drop(x, b, m) # 0
          BY <2>2
        <4> QED
          BY <1>1, <4>1, Dropped, ZenonT(40)
      <3>2. Power(b, m) \in Nat /\ (m + 1) - 1 = m
        BY <1>1, Powers DEF Bases, Most
      <3> QED
        BY <3>1, <3>2
    <2> QED
      BY <1>1, <2>1, <2>2
  <1>4. Places(x, b) = m + 1
    BY <1>1, <1>2, <1>3, PlacesAre
  <1> QED
    BY <1>4 DEF Numeral

LEMMA AppendIs ==
  ASSUME NEW S, NEW s \in Seq(S), NEW c \in S
  PROVE  /\ Append(s, c) \in Seq(S) /\ Len(Append(s, c)) = Len(s) + 1
         /\ Append(s, c)[Len(s) + 1] = c
         /\ \A j \in 1 .. Len(s) : Append(s, c)[j] = s[j]
  OBVIOUS

(* One more digit.                                                         *)
LEMMA DigitMade ==
  ASSUME NEW x \in 0 .. Word - 1, NEW b \in {10, 16}, NEW m \in 0 .. MostPlaces,
         NEW s \in Seq(Text), NEW r \in Seq(Text), Made(r, s, x, b, m),
         m > 0 => Drop(x, b, m) # 0,
         NEW t, t = Append(r, Digit(Drop(x, b, m) % b))
  PROVE  /\ m + 1 \in 0 .. MostPlaces /\ m \in 0 .. MostPlaces - 1
         /\ Drop(x, b, m + 1) = Drop(x, b, m) \div b
         /\ t \in Seq(Text) /\ Made(t, s, x, b, m + 1)
  <1>9. /\ Len(r) = Len(s) + m
        /\ \A j \in 1 .. Len(s) : r[j] = s[j]
        /\ \A j \in 1 .. m : r[Len(s) + j] = Digit(Drop(x, b, j - 1) % b)
    BY DEF Made
  <1>1. m + 1 <= MostPlaces
    BY RoomForDigit
  <1>2. m \in 0 .. MostPlaces - 1 /\ m + 1 \in 0 .. MostPlaces /\ x \in Nat /\ m \in Nat
    BY <1>1, PlacesFacts, WordFacts
  <1>3. Drop(x, b, m + 1) = Drop(x, b, m) \div b /\ Drop(x, b, m) \in Nat
    BY <1>2, Dropped, ZenonT(40)
  <1> DEFINE c == Digit(Drop(x, b, m) % b)
  <1>4. c \in Text
    <2>2. \A y \in Nat : y % b \in 0 .. 15
      OBVIOUS
    <2>1. Drop(x, b, m) % b \in 0 .. 15
      BY <1>3, <2>2, Zenon
    <2> QED
      BY <2>1, DigitIsText
  <1> HIDE DEF c
  <1>5. /\ t \in Seq(Text) /\ Len(t) = Len(r) + 1 /\ t[Len(r) + 1] = c
        /\ \A j \in 1 .. Len(r) : t[j] = r[j]
    BY <1>4, AppendIs DEF c
  <1>6. Len(s) \in Nat /\ Len(t) = Len(s) + (m + 1)
    BY <1>2, <1>5, <1>9
  <1>7. ASSUME NEW j \in 1 .. Len(s) PROVE t[j] = s[j]
    BY <1>2, <1>5, <1>6, <1>9
  <1>8. ASSUME NEW j \in 1 .. m + 1 PROVE t[Len(s) + j] = Digit(Drop(x, b, j - 1) % b)
    <2>1. CASE j = m + 1
      <3>1. Len(s) + j = Len(r) + 1 /\ j - 1 = m
        BY <1>2, <1>6, <1>9, <2>1
      <3> QED
        BY <1>5, <3>1 DEF c
    <2>2. CASE j # m + 1
      <3>1. j \in 1 .. m /\ Len(s) + j \in 1 .. Len(r)
        BY <1>2, <1>6, <1>9, <2>2
      <3> QED
        BY <1>5, <1>9, <3>1
    <2> QED
      BY <2>1, <2>2
  <1> QED
    BY <1>2, <1>3, <1>5, <1>6, <1>7, <1>8 DEF Made

(* All the digits, in the wrong order.                                     *)
LEMMA DigitsBackwards ==
  ASSUME NEW x \in Nat, NEW b \in {10, 16}, NEW k \in 1 .. MostPlaces,
         Numeral(x, b) = LowDigits(x, b, k),
         NEW s \in Seq(Text), NEW u, u = s \o Numeral(x, b),
         NEW t, Made(t, s, x, b, k),
         NEW f, f = Len(s) + 1, NEW l, l = Len(t)
  PROVE  Turned(t, u, f, l)
  <1> DEFINE e == LowDigits(x, b, k)
  <1>1. k \in 0 .. MostPlaces /\ k \in Nat /\ Len(s) \in Nat
    BY PlacesFacts
  <1>2. e \in Seq(Text) /\ Len(e) = k /\ \A j \in 1 .. k : e[j] = Digit(Drop(x, b, k - j) % b)
    BY <1>1, LowDigitsAreText, LowFacts
  <1>3. u = s \o e
    OBVIOUS
  <1> HIDE DEF e
  <1>4. /\ Len(u) = Len(s) + Len(e)
        /\ \A j \in 1 .. Len(s) + Len(e) : u[j] = IF j <= Len(s) THEN s[j] ELSE e[j - Len(s)]
    <2>1. e \in Seq(Text)
      BY <1>2
    <2> QED
      BY <1>3, <2>1, ConcatProperties
  <1>8. /\ Len(t) = Len(s) + k
        /\ \A j \in 1 .. Len(s) : t[j] = s[j]
        /\ \A j \in 1 .. k : t[Len(s) + j] = Digit(Drop(x, b, j - 1) % b)
    BY DEF Made
  <1>5. Len(u) = Len(s) + k /\ l = Len(s) + k
    BY <1>2, <1>4, <1>8
  <1>6. ASSUME NEW j \in 1 .. Len(u), ~(f <= j /\ j <= l) PROVE t[j] = u[j]
    <2>1. j \in 1 .. Len(s) /\ j <= Len(s) /\ j \in 1 .. Len(s) + Len(e)
      BY <1>1, <1>2, <1>5, <1>6
    <2> QED
      BY <1>4, <1>8, <2>1
  <1>7. ASSUME NEW j \in 1 .. Len(u), f <= j, j <= l PROVE t[j] = u[f + l - j]
    <2> DEFINE h == j - Len(s)
               g == (k + 1) - h
    <2>1. h \in 1 .. k /\ g \in 1 .. k /\ Len(s) + h = j /\ k - g = h - 1
      BY <1>1, <1>5, <1>7
    <2>2. f + l - j = Len(s) + g /\ Len(s) + g \in 1 .. Len(s) + Len(e)
          /\ ~(Len(s) + g <= Len(s)) /\ (Len(s) + g) - Len(s) = g
      BY <1>1, <1>2, <1>5, <1>7
    <2> HIDE DEF h, g
    <2>3. t[j] = Digit(Drop(x, b, h - 1) % b)
      BY <1>8, <2>1
    <2>4. u[f + l - j] = e[g]
      BY <1>4, <2>2
    <2>5. e[g] = Digit(Drop(x, b, h - 1) % b)
      BY <1>2, <2>1
    <2> QED
      BY <2>3, <2>4, <2>5
  <1> QED
    BY <1>5, <1>6, <1>7, <1>8 DEF Turned

(* A turn of the division loop: the last one leaves the digits to turn.    *)
LEMMA DivideDue ==
  ASSUME PrintState, Due, Divide, OtherFlow PROVE Due'
  <1>1. /\ pc = "itoa" /\ p' = Append(p, Digit(ud % Divisor)) /\ ud' = ud \div Divisor
        /\ UNCHANGED <<todo, data, arg, base, p1, out>>
        /\ \/ ud' # 0 /\ UNCHANGED <<pc, p2>>
           \/ ud' = 0 /\ pc' = "reverse" /\ p2' = Len(p')
    BY DEF Divide, MoreDigits
  <1>2. PICK u : InHand(u) /\ Rest(u)
    BY DEF Due
  <1>3. u \in Seq(Text) /\ \E x \in 0 .. Word - 1, s \in Seq(Text), m \in 0 .. MostPlaces :
                             MakesDigits(u, x, s, m)
    BY <1>1, <1>2, Zenon DEF InHand
  <1>4. PICK x \in 0 .. Word - 1, s \in Seq(Text), m \in 0 .. MostPlaces :
          MakesDigits(u, x, s, m)
    BY <1>3
  <1>5. PICK b : b = Divisor
    OBVIOUS
  <1>6. b \in {10, 16} /\ Divisor' = b
    BY <1>1, <1>5 DEF Divisor
  <1>7. PICK r, t : r = p /\ t = p'
    OBVIOUS
  <1>8. r \in Seq(Text)
    BY <1>7 DEF PrintState, InItoa
  <1>9. /\ u = s \o Numeral(x, b) /\ p1 = Len(s) + 1 /\ Made(r, s, x, b, m)
        /\ ud = Drop(x, b, m) /\ (m > 0 => Drop(x, b, m) # 0)
    BY <1>4, <1>5, <1>7, Zenon DEF MakesDigits
  <1>10. t = Append(r, Digit(Drop(x, b, m) % b))
    BY <1>1, <1>5, <1>7, <1>9, Zenon
  <1>11. /\ m + 1 \in 0 .. MostPlaces /\ m \in 0 .. MostPlaces - 1
         /\ Drop(x, b, m + 1) = Drop(x, b, m) \div b
         /\ t \in Seq(Text) /\ Made(t, s, x, b, m + 1)
    <2>1. /\ b \in {10, 16} /\ r \in Seq(Text) /\ Made(r, s, x, b, m)
          /\ (m > 0 => Drop(x, b, m) # 0) /\ t = Append(r, Digit(Drop(x, b, m) % b))
      BY <1>6, <1>8, <1>9, <1>10, Zenon
    <2> QED
      BY <2>1, DigitMade, ZenonT(40)
  <1>12. ud' = Drop(x, b, m + 1) /\ p1' = Len(s) + 1 /\ p' = t
    BY <1>1, <1>5, <1>7, <1>9, <1>11, Zenon
  <1>13. pc # "return" /\ pc' # "return"
    BY <1>1
  <1>14. Rest(u)' /\ out' \in Seq(Text)
    BY <1>1, <1>2, <1>13, RestWithin DEF Due
  <1>15. CASE ud' # 0 /\ UNCHANGED <<pc, p2>>
    <2>1. MakesDigits(u, x, s, m + 1)'
      BY <1>6, <1>9, <1>11, <1>12, <1>15, Zenon DEF MakesDigits
    <2>2. pc' # "format" /\ pc' # "reverse" /\ pc' # "string" /\ pc' # "hex"
      BY <1>1, <1>15
    <2>3. InHand(u)'
      BY <1>3, <1>11, <1>13, <2>1, <2>2, Zenon DEF InHand
    <2> QED
      BY <1>14, <2>3, Zenon DEF Due
  <1>16. CASE ud' = 0 /\ pc' = "reverse" /\ p2' = Len(p')
    <2>1. x \in Nat /\ m + 1 \in 1 .. MostPlaces
      BY <1>11, WordFacts
    <2>2. Numeral(x, b) = LowDigits(x, b, m + 1)
      BY <1>6, <1>9, <1>11, <1>12, <1>16, <2>1, AllDigits
    <2>3. PICK f, l : f = p1' /\ l = p2'
      OBVIOUS
    <2>4. f = Len(s) + 1 /\ l = Len(t)
      BY <1>12, <1>16, <2>3
    <2>5. Turned(t, u, f, l)
      BY <1>6, <1>9, <1>11, <2>1, <2>2, <2>4, DigitsBackwards
    <2>6. Turned(p, u, p1, p2)'
      BY <1>12, <2>3, <2>5, Zenon DEF Turned
    <2>7. pc' # "format" /\ pc' # "itoa" /\ pc' # "string" /\ pc' # "hex"
      BY <1>16
    <2>8. InHand(u)'
      BY <1>3, <1>13, <2>6, <2>7, Zenon DEF InHand
    <2> QED
      BY <1>14, <2>8, Zenon DEF Due
  <1> QED
    BY <1>1, <1>15, <1>16

LEMMA SwapIs ==
  ASSUME NEW s \in Seq(Text), NEW j \in 1 .. Len(s), NEW k \in 1 .. Len(s)
  PROVE  LET t == [s EXCEPT ![j] = s[k], ![k] = s[j]] IN
         /\ t \in Seq(Text) /\ Len(t) = Len(s) /\ t[k] = s[j] /\ (j # k => t[j] = s[k])
         /\ \A l \in 1 .. Len(s) : l # j /\ l # k => t[l] = s[l]
  <1> DEFINE r == [s EXCEPT ![j] = s[k]]
             t == [r EXCEPT ![k] = s[j]]
  <1>1. s[j] \in Text /\ s[k] \in Text
    OBVIOUS
  <1>2. /\ r \in Seq(Text) /\ Len(r) = Len(s) /\ r[j] = s[k]
        /\ \A l \in 1 .. Len(s) : l # j => r[l] = s[l]
    BY <1>1, ExceptSeq
  <1> HIDE DEF r
  <1>3. /\ t \in Seq(Text) /\ Len(t) = Len(r) /\ t[k] = s[j]
        /\ \A l \in 1 .. Len(r) : l # k => t[l] = r[l]
    BY <1>1, <1>2, ExceptSeq
  <1>4. t = [s EXCEPT ![j] = s[k], ![k] = s[j]]
    BY DEF r
  <1> HIDE DEF t
  <1>5. /\ t \in Seq(Text) /\ Len(t) = Len(s) /\ t[k] = s[j] /\ (j # k => t[j] = s[k])
        /\ \A l \in 1 .. Len(s) : l # j /\ l # k => t[l] = s[l]
    BY <1>2, <1>3
  <1> QED
    BY <1>4, <1>5, Zenon

(* A swap brings two more characters to their places.                      *)
LEMMA TurnedFurther ==
  ASSUME NEW r \in Seq(Text), NEW u, NEW f \in Nat \ {0}, NEW l \in Nat, f < l, l <= Len(r),
         Turned(r, u, f, l), NEW t, t = [r EXCEPT ![f] = r[l], ![l] = r[f]]
  PROVE  Turned(t, u, f + 1, l - 1)
  <1>1. Len(r) = Len(u) /\ Len(r) \in Nat
    BY DEF Turned
  <1>2. \A j \in 1 .. Len(u) : r[j] = IF f <= j /\ j <= l THEN u[f + l - j] ELSE u[j]
    BY DEF Turned
  <1>3. f \in 1 .. Len(r) /\ l \in 1 .. Len(r) /\ f # l
    BY <1>1
  <1>4. /\ Len(t) = Len(r) /\ t[f] = r[l] /\ t[l] = r[f]
        /\ \A j \in 1 .. Len(r) : j # f /\ j # l => t[j] = r[j]
    BY <1>3, SwapIs
  <1>5. r[l] = u[f] /\ r[f] = u[l]
    <2>1. f + l - l = f /\ f + l - f = l
      OBVIOUS
    <2>2. f <= l /\ f <= f /\ l <= l
      OBVIOUS
    <2> QED
      BY <1>1, <1>2, <1>3, <2>1, <2>2
  <1>6. ASSUME NEW j \in 1 .. Len(u)
        PROVE  t[j] = IF f + 1 <= j /\ j <= l - 1 THEN u[(f + 1) + (l - 1) - j] ELSE u[j]
    <2>1. CASE j = f
      BY <1>4, <1>5, <2>1
    <2>2. CASE j = l
      BY <1>4, <1>5, <2>2
    <2>3. CASE j # f /\ j # l
      <3>1. t[j] = r[j]
        BY <1>1, <1>4, <2>3
      <3>2. (f + 1 <= j /\ j <= l - 1) <=> (f <= j /\ j <= l)
        BY <1>1, <2>3
      <3>3. (f + 1) + (l - 1) - j = f + l - j
        BY <1>1
      <3> QED
        BY <1>2, <3>1, <3>2, <3>3, Zenon
    <2> QED
      BY <2>1, <2>2, <2>3
  <1> QED
    BY <1>1, <1>4, <1>6 DEF Turned

(* When the pointers meet the digits are in their order.                   *)
LEMMA TurnedEnough ==
  ASSUME NEW r \in Seq(Text), NEW u \in Seq(Text), NEW f \in Nat, NEW l \in Nat, f >= l,
         Turned(r, u, f, l)
  PROVE  r = u
  <1>1. Len(r) = Len(u)
    BY DEF Turned
  <1>2. ASSUME NEW j \in 1 .. Len(u) PROVE r[j] = u[j]
    <2>1. r[j] = IF f <= j /\ j <= l THEN u[f + l - j] ELSE u[j]
      BY DEF Turned
    <2>2. f <= j /\ j <= l => f + l - j = j
      OBVIOUS
    <2> QED
      BY <2>1, <2>2, Zenon
  <1> QED
    BY <1>1, <1>2, SeqEqual

LEMMA TurningInHand ==
  ASSUME NEW u, InHand(u), pc = "reverse" PROVE u \in Seq(Text) /\ Turned(p, u, p1, p2)
  BY Zenon DEF InHand

(* A turn of the reversal, and its end.                                    *)
LEMMA SwapDue ==
  ASSUME PrintState, Due, Swap, OtherFlow PROVE Due'
  <1>1. /\ pc = "reverse" /\ p1 < p2 /\ p' = [p EXCEPT ![p1] = p[p2], ![p2] = p[p1]]
        /\ p1' = p1 + 1 /\ p2' = p2 - 1 /\ UNCHANGED <<todo, pc, data, arg, out>>
    BY DEF Swap
  <1>2. PICK u : InHand(u) /\ Rest(u)
    BY DEF Due
  <1>3. u \in Seq(Text) /\ Turned(p, u, p1, p2)
    BY <1>1, <1>2, TurningInHand
  <1>4. p \in Seq(Text) /\ p1 \in Nat \ {0} /\ p2 \in Nat /\ p2 <= Len(p)
    BY <1>1 DEF PrintState, InItoa
  <1>5. PICK r, t, f, l : r = p /\ t = p' /\ f = p1 /\ l = p2
    OBVIOUS
  <1>6. /\ r \in Seq(Text) /\ f \in Nat \ {0} /\ l \in Nat /\ f < l /\ l <= Len(r)
        /\ Turned(r, u, f, l) /\ t = [r EXCEPT ![f] = r[l], ![l] = r[f]]
        /\ p1' = f + 1 /\ p2' = l - 1
    BY <1>1, <1>3, <1>4, <1>5, Zenon
  <1>7. Turned(t, u, f + 1, l - 1)
    BY <1>6, TurnedFurther
  <1>8. Turned(p, u, p1, p2)'
    BY <1>5, <1>6, <1>7, Zenon DEF Turned
  <1>9. pc' = "reverse" /\ pc' # "return" /\ pc' # "format" /\ pc' # "itoa" /\ pc' # "string"
        /\ pc' # "hex" /\ pc # "return"
    BY <1>1
  <1>10. InHand(u)'
    BY <1>3, <1>8, <1>9, Zenon DEF InHand
  <1>11. Rest(u)' /\ out' \in Seq(Text)
    BY <1>1, <1>2, <1>9, RestWithin DEF Due
  <1> QED
    BY <1>10, <1>11, Zenon DEF Due

LEMMA ReversedDue ==
  ASSUME PrintState, Due, Reversed, OtherFlow PROVE Due'
  <1>1. /\ pc = "reverse" /\ p1 >= p2 /\ pc' = "string"
        /\ UNCHANGED <<todo, data, arg, p, out>>
    BY DEF Reversed
  <1>2. PICK u : InHand(u) /\ Rest(u)
    BY DEF Due
  <1>3. u \in Seq(Text) /\ Turned(p, u, p1, p2)
    BY <1>1, <1>2, TurningInHand
  <1>4. p \in Seq(Text) /\ p1 \in Nat /\ p2 \in Nat
    BY DEF PrintState, InItoa
  <1>5. p = u
    BY <1>1, <1>3, <1>4, TurnedEnough
  <1>6. Rest(u)' /\ out' \in Seq(Text)
    BY <1>1, <1>2, RestWithin DEF Due
  <1> QED
    BY <1>1, <1>3, <1>5, <1>6, StringInHand, Zenon

-----------------------------------------------------------------------------
(* The loop of terminal_write_hex.                                         *)

(* The nibble at shift 4 * q.                                              *)
LEMMA NibbleIs ==
  ASSUME PrintState, NEW q \in 0 .. (WordBits \div 4) - 1, i = 4 * q
  PROVE  /\ Nibble = Drop(n, 16, q) % 16 /\ Nibble \in 0 .. 15
         /\ n \in Nat /\ q \in 0 .. MostPlaces - 1 /\ q \in 0 .. MostPlaces
         /\ q + 1 \in 0 .. MostPlaces /\ Drop(n, 16, q) \in Nat
         /\ Drop(n, 16, q + 1) = Drop(n, 16, q) \div 16
  <1>1. /\ q \in 0 .. MostPlaces - 1 /\ q \in 0 .. MostPlaces /\ q + 1 \in 0 .. MostPlaces
        /\ q \in 0 .. WordBits \div 4
    BY PlacesFacts
  <1>2. n \in Nat
    BY WordFacts DEF PrintState, InWriteHex
  <1>3. 2^i = Power(16, q)
    BY <1>1, FourBits DEF Power
  <1>4. Nibble = Drop(n, 16, q) % 16
    BY <1>3 DEF Nibble, Drop
  <1>5. Drop(n, 16, q) \in Nat /\ Drop(n, 16, q + 1) = Drop(n, 16, q) \div 16
    BY <1>1, <1>2, Dropped
  <1>6. Drop(n, 16, q) % 16 \in 0 .. 15
    <2>1. \A y \in Nat : y % 16 \in 0 .. 15
      OBVIOUS
    <2> QED
      BY <1>5, <2>1, Zenon
  <1> QED
    BY <1>1, <1>2, <1>4, <1>5, <1>6

LEMMA NibblesInHand ==
  ASSUME Due, pc = "hex"
  PROVE  \E u, q : /\ q \in 0 .. (WordBits \div 4) - 1 /\ u \in Seq(Text)
                   /\ WritesNibbles(u, q) /\ Rest(u) /\ out \in Seq(Text)
  <1>1. PICK u : InHand(u) /\ Rest(u)
    BY DEF Due
  <1>2. u \in Seq(Text) /\ \E q \in 0 .. (WordBits \div 4) - 1 : WritesNibbles(u, q)
    BY <1>1, Zenon DEF InHand
  <1> QED
    BY <1>1, <1>2, Zenon DEF Due

LEMMA StillWriting ==
  ASSUME pc' = "hex", NEW u \in Seq(Text), NEW q \in 0 .. (WordBits \div 4) - 1,
         WritesNibbles(u, q)', Rest(u)', out' \in Seq(Text)
  PROVE  Due'
  <1>1. pc' # "return" /\ pc' # "format" /\ pc' # "itoa" /\ pc' # "reverse" /\ pc' # "string"
    OBVIOUS
  <1>2. InHand(u)'
    BY <1>1, Zenon DEF InHand
  <1> QED
    BY <1>2, Zenon DEF Due

LEMMA NextShiftIs ==
  ASSUME NEW q \in 0 .. (WordBits \div 4) - 1, i = 4 * q, i > 0, i' = NextShift
  PROVE  /\ q - 1 \in 0 .. (WordBits \div 4) - 1 /\ i' = 4 * (q - 1) /\ (q - 1) + 1 = q /\ q > 0
  BY PlacesFacts DEF NextShift

(* A leading zero is passed over: the numeral does not have it.            *)
LEMMA SkipZeroDue ==
  ASSUME PrintState, Due, SkipZero, OtherFlow PROVE Due'
  <1>1. /\ pc = "hex" /\ i > 0 /\ Nibble = 0 /\ noZeroes /\ i' = NextShift
        /\ UNCHANGED <<todo, pc, data, arg, n, noZeroes, out>>
    BY DEF SkipZero, Skipped
  <1>2. PICK u, q : /\ q \in 0 .. (WordBits \div 4) - 1 /\ u \in Seq(Text)
                    /\ WritesNibbles(u, q) /\ Rest(u) /\ out \in Seq(Text)
    BY <1>1, NibblesInHand
  <1>3. i = 4 * q /\ n < Power(16, q + 1) /\ u = Numeral(n, 16)
    BY <1>1, <1>2, Zenon DEF WritesNibbles
  <1>4. /\ Nibble = Drop(n, 16, q) % 16 /\ n \in Nat /\ q \in 0 .. MostPlaces
        /\ q + 1 \in 0 .. MostPlaces /\ Drop(n, 16, q) \in Nat
        /\ Drop(n, 16, q + 1) = Drop(n, 16, q) \div 16
    BY <1>2, <1>3, NibbleIs
  <1>5. n < Power(16, q)
    <2>1. Drop(n, 16, q + 1) = 0
      BY <1>3, <1>4, Dropped
    <2>2. Drop(n, 16, q) \div 16 = 0 /\ Drop(n, 16, q) % 16 = 0
      BY <1>1, <1>4, <2>1
    <2>3. Drop(n, 16, q) = 0
      BY <1>4, <2>2
    <2> QED
      BY <1>4, <2>3, Dropped
  <1>6. q - 1 \in 0 .. (WordBits \div 4) - 1 /\ i' = 4 * (q - 1) /\ (q - 1) + 1 = q
    BY <1>1, <1>2, <1>3, NextShiftIs
  <1>7. WritesNibbles(u, q - 1)'
    BY <1>1, <1>3, <1>5, <1>6, Zenon DEF WritesNibbles
  <1>8. Rest(u)' /\ out' \in Seq(Text)
    BY <1>1, <1>2, RestWithin
  <1> QED
    BY <1>1, <1>2, <1>6, <1>7, <1>8, StillWriting

(* The highest digit is the first one due, if the number starts here.      *)
LEMMA NibbleFirst ==
  ASSUME PrintState, NEW q \in 0 .. (WordBits \div 4) - 1, NEW u, WritesNibbles(u, q),
         Nibble # 0 \/ ~noZeroes \/ q = 0
  PROVE  u = <<Digit(Nibble)>> \o LowDigits(n, 16, q)
  <1>1. i = 4 * q
    BY Zenon DEF WritesNibbles
  <1>2. /\ Nibble = Drop(n, 16, q) % 16 /\ n \in Nat /\ q \in 0 .. MostPlaces - 1
        /\ q \in 0 .. MostPlaces
        /\ q + 1 \in 0 .. MostPlaces /\ Drop(n, 16, q) \in Nat
    BY <1>1, NibbleIs
  <1>3. LowDigits(n, 16, q + 1) = <<Digit(Nibble)>> \o LowDigits(n, 16, q)
    BY <1>2, HighestFirst
  <1>4. CASE ~noZeroes
    BY <1>3, <1>4, Zenon DEF WritesNibbles
  <1>5. CASE noZeroes
    <2>1. n < Power(16, q + 1) /\ u = Numeral(n, 16)
      BY <1>5, Zenon DEF WritesNibbles
    <2>2. Drop(n, 16, q + 1) = 0
      BY <1>2, <2>1, Dropped
    <2>3. q > 0 => Drop(n, 16, q) # 0
      BY <1>2, <1>5
    <2>4. Numeral(n, 16) = LowDigits(n, 16, q + 1)
      BY <1>2, <2>2, <2>3, AllDigits
    <2> QED
      BY <1>3, <2>1, <2>4, Zenon
  <1> QED
    BY <1>4, <1>5

(* A digit is put out: it is the next one of the numeral.                  *)
LEMMA PutNibbleDue ==
  ASSUME PrintState, Due, PutNibble, OtherFlow PROVE Due'
  <1>1. /\ pc = "hex" /\ i > 0 /\ (Nibble # 0 \/ ~noZeroes) /\ i' = NextShift
        /\ noZeroes' = FALSE /\ out' = Append(out, Digit(Nibble))
        /\ UNCHANGED <<todo, pc, data, arg, n>>
    BY DEF PutNibble, Skipped, putchar
  <1>2. PICK u, q : /\ q \in 0 .. (WordBits \div 4) - 1 /\ u \in Seq(Text)
                    /\ WritesNibbles(u, q) /\ Rest(u) /\ out \in Seq(Text)
    BY <1>1, NibblesInHand
  <1>3. i = 4 * q
    BY <1>2, Zenon DEF WritesNibbles
  <1>4. n \in Nat /\ q \in 0 .. MostPlaces /\ Nibble \in 0 .. 15
    BY <1>2, <1>3, NibbleIs
  <1>5. PICK c, w : c = Digit(Nibble) /\ w = LowDigits(n, 16, q)
    OBVIOUS
  <1>6. c \in Text /\ <<c>> \in Seq(Text) /\ w \in Seq(Text)
    <2>1. c \in Text
      BY <1>4, <1>5, DigitIsText
    <2>2. w \in Seq(Text)
      BY <1>4, <1>5, LowDigitsAreText
    <2> QED
      BY <2>1, <2>2, One
  <1>7. u = <<c>> \o w
    BY <1>1, <1>2, <1>5, NibbleFirst, Zenon
  <1>8. out' = out \o <<c>>
    BY <1>1, <1>2, <1>5, <1>6
  <1>9. Quietly
    BY <1>1 DEF Quietly, Later, OtherFlow
  <1>10. Rest(w)' /\ out' \in Seq(Text)
    <2>1. Rest(<<c>> \o w)
      BY <1>2, <1>7, Zenon
    <2> QED
      BY <1>2, <1>6, <1>8, <1>9, <2>1, RestPrinted
  <1>11. q - 1 \in 0 .. (WordBits \div 4) - 1 /\ i' = 4 * (q - 1) /\ (q - 1) + 1 = q
    BY <1>1, <1>2, <1>3, NextShiftIs
  <1>12. w = LowDigits(n', 16, (q - 1) + 1)
    BY <1>1, <1>5, <1>11, Zenon
  <1>13. WritesNibbles(w, q - 1)'
    BY <1>1, <1>11, <1>12, Zenon DEF WritesNibbles
  <1> QED
    BY <1>1, <1>6, <1>10, <1>11, <1>13, StillWriting

(* The last digit is put out even if it is zero.                           *)
LEMMA LastNibbleDue ==
  ASSUME PrintState, Due, LastNibble, OtherFlow PROVE Due'
  <1>1. /\ pc = "hex" /\ i = 0 /\ out' = Append(out, Digit(n % 16))
        /\ todo' = Tail(todo) /\ pc' = "return" /\ data' = <<>> /\ arg' = <<>>
    BY DEF LastNibble, Ended, putchar
  <1>2. PICK u, q : /\ q \in 0 .. (WordBits \div 4) - 1 /\ u \in Seq(Text)
                    /\ WritesNibbles(u, q) /\ Rest(u) /\ out \in Seq(Text)
    BY <1>1, NibblesInHand
  <1>3. i = 4 * q
    BY <1>2, Zenon DEF WritesNibbles
  <1>4. q = 0
    BY <1>1, <1>2, <1>3
  <1>5. n \in Nat /\ Nibble = Drop(n, 16, 0) % 16 /\ Nibble \in 0 .. 15
    BY <1>2, <1>3, <1>4, NibbleIs
  <1>6. Nibble = n % 16
    BY <1>5, Dropped
  <1>7. PICK c : c = Digit(Nibble)
    OBVIOUS
  <1>8. c \in Text /\ <<c>> \in Seq(Text)
    <2>1. c \in Text
      BY <1>5, <1>7, DigitIsText
    <2> QED
      BY <2>1, One
  <1>9. LowDigits(n, 16, 0) = <<>>
    <2>1. Len(LowDigits(n, 16, 0)) = 0 /\ LowDigits(n, 16, 0) \in Seq(Text)
      BY <1>5, PlacesFacts, LowFacts, LowDigitsAreText
    <2> QED
      BY <2>1
  <1>10. u = <<c>> \o <<>>
    BY <1>2, <1>4, <1>7, <1>9, NibbleFirst, Zenon
  <1>11. out' = out \o <<c>>
    BY <1>1, <1>2, <1>6, <1>7, <1>8
  <1>12. Quietly
    <2>1. data = <<>> /\ arg = <<>>
      BY <1>1 DEF PrintState, InPrintf
    <2> QED
      BY <1>1, <2>1 DEF Quietly, Later, OtherFlow
  <1>13. Rest(<<>>)' /\ out' \in Seq(Text)
    <2>1. Rest(<<c>> \o <<>>) /\ <<>> \in Seq(Text)
      BY <1>2, <1>10, Empty, Zenon
    <2> QED
      BY <1>2, <1>8, <1>11, <1>12, <2>1, RestPrinted
  <1> QED
    BY <1>1, <1>13, NothingInHand

(* The text that is due is the same after a step of the printing.          *)
LEMMA PrintingDue ==
  ASSUME PrintState, Due, Printing, OtherFlow PROVE Due'
  BY CallKprintfDue, LiteralDue, EndKprintfDue, NumberDue, DivideDue, SwapDue, ReversedDue,
     StringDue, PutStringDue, EndStringDue, CharacterDue, CallWriteHexDue, SkipZeroDue,
     PutNibbleDue, LastNibbleDue DEF Printing

-----------------------------------------------------------------------------
(* The variables of the printing functions.                                *)

LEMMA ZeroRemainder == 0 % 4 = 0
  OBVIOUS

LEMMA Divided ==
  ASSUME NEW m \in Nat \ {0}, NEW x \in 0 .. m - 1, NEW d \in {10, 16}
  PROVE  x % d \in 0 .. 15 /\ x \div d \in 0 .. m - 1
  OBVIOUS

(* A function that returns leaves the rest of the calls, and no text.      *)
LEMMA EndedState == ASSUME PrintState, todo # <<>>, Ended PROVE PrintState'
  <1>1. InPrintf'
    <2>1. todo' \in Seq(GoodCalls)
      BY TailFacts DEF PrintState, InPrintf, Ended
    <2>2. pc' = "return" /\ data' = <<>> /\ arg' = <<>>
      BY DEF Ended
    <2>3. data' \in Seq(Text) /\ arg' \in Seq(Argument)
      BY <2>2
    <2> QED
      BY <2>1, <2>2, <2>3 DEF InPrintf
  <1>2. InItoa'
    <2>1. /\ pc' = "return" /\ base' = "d" /\ ud' = 0 /\ p1' = 1 /\ p2' = 1
          /\ p' = <<>>
      BY DEF Ended
    <2>2. p' \in Seq(Text)
      BY <2>1
    <2>3. ud' \in 0 .. Word - 1
      BY <2>1, WordFacts
    <2> QED
      BY <2>1, <2>2, <2>3 DEF InItoa
  <1>3. InWriteHex'
    <2>1. n' = 0 /\ i' = 0 /\ noZeroes' = TRUE
      BY DEF Ended
    <2>2. noZeroes' \in BOOLEAN
      BY <2>1
    <2> QED
      BY <2>1, <2>2, WordFacts, ZeroRemainder DEF InWriteHex
  <1> QED
    BY <1>1, <1>2, <1>3 DEF PrintState, Ended

LEMMA CallsMade ==
  ASSUME PrintState, NothingToPrint, NEW calls \in Seq(GoodCalls), MakeCalls(calls)
  PROVE  PrintState'
  <1>1. UNCHANGED <<pc, data, arg, base, ud, p1, p2, p, n, i, noZeroes>> /\ todo' = calls
    BY DEF MakeCalls
  <1>2. InItoa' /\ InWriteHex'
    BY <1>1 DEF PrintState, InItoa, InWriteHex
  <1>3. InPrintf'
    BY <1>1 DEF PrintState, InPrintf, NothingToPrint
  <1> QED
    BY <1>1, <1>2, <1>3 DEF PrintState

(* Steps of itoa and of the loop over a string leave the format alone.     *)
LEMMA FormatKept ==
  ASSUME InPrintf, todo # <<>>, UNCHANGED <<todo, data, arg>>,
         pc' \in {"return", "hex"} => pc \in {"return", "hex"}
  PROVE  InPrintf'
  BY DEF InPrintf

LEMMA HexKept ==
  ASSUME InWriteHex, UNCHANGED <<n, i, noZeroes>> PROVE InWriteHex'
  BY DEF InWriteHex

LEMMA ItoaKept ==
  ASSUME InItoa, UNCHANGED <<p, p1, p2, ud, base>>, pc' # "reverse" PROVE InItoa'
  BY DEF InItoa

(* Inside a function there is a call that is not through.                  *)
LEMMA Busy == ASSUME PrintState, pc # "return" PROVE todo # <<>>
  BY DEF PrintState, InPrintf

LEMMA CallKprintfStep == ASSUME PrintState, CallKprintf PROVE PrintState'
  <1>1. /\ todo # <<>> /\ Head(todo).fn = "kprintf" /\ pc' = "format"
        /\ data' = Head(todo).fmt /\ arg' = Head(todo).args
        /\ UNCHANGED <<todo, base, ud, p1, p2, p, n, i, noZeroes>>
    BY DEF CallKprintf, Call
  <1>2. Head(todo) \in GoodCalls
    BY <1>1, TailFacts DEF PrintState, InPrintf
  <1>3. data' \in Seq(Text) /\ arg' \in Seq(Argument)
    BY <1>1, <1>2 DEF GoodCalls
  <1>4. InPrintf'
    BY <1>1, <1>3 DEF PrintState, InPrintf
  <1>5. InItoa' /\ InWriteHex'
    BY <1>1, ItoaKept, HexKept DEF PrintState
  <1> QED
    BY <1>1, <1>4, <1>5 DEF PrintState

LEMMA LiteralStep == ASSUME PrintState, Literal PROVE PrintState'
  <1>1. /\ pc = "format" /\ data # <<>> /\ Head(data) # "%" /\ data' = Tail(data)
        /\ UNCHANGED <<todo, pc, arg, base, ud, p1, p2, p, n, i, noZeroes>>
    BY DEF Literal
  <1>2. data' \in Seq(Text)
    BY <1>1, TailFacts DEF PrintState, InPrintf
  <1>3. InPrintf'
    BY <1>1, <1>2, Busy DEF PrintState, InPrintf
  <1>4. InItoa' /\ InWriteHex'
    BY <1>1, ItoaKept, HexKept DEF PrintState
  <1> QED
    BY <1>1, <1>3, <1>4 DEF PrintState

LEMMA EndKprintfStep == ASSUME PrintState, EndKprintf PROVE PrintState'
  BY EndedState, Busy DEF EndKprintf

(* What all conversions do: take two characters and an argument.           *)
LEMMA ConversionState ==
  ASSUME PrintState, Due, NEW c, Conversion(c), arg' = NextArg, todo' = todo,
         pc' \notin {"return", "hex"}
  PROVE  pc = "format" /\ Head(arg) \in Argument /\ InPrintf'
  <1>1. /\ pc = "format" /\ data # <<>> /\ Head(data) = "%"
        /\ data' = SubSeq(data, 3, Len(data)) /\ arg' = Tail(arg)
    BY DEF Conversion, NextArg
  <1>2. todo # <<>>
    BY <1>1, Busy
  <1>3. Len(data) >= 2 /\ arg # <<>> /\ Head(arg) \in Argument
    BY <1>1, DueFits
  <1>4. data \in Seq(Text) /\ arg \in Seq(Argument)
    BY DEF PrintState, InPrintf
  <1>5. data' \in Seq(Text)
    BY <1>1, <1>3, <1>4, DropTwo
  <1>6. arg' \in Seq(Argument)
    BY <1>1, <1>3, <1>4, TailFacts
  <1>7. InPrintf'
    BY <1>2, <1>5, <1>6 DEF PrintState, InPrintf
  <1> QED
    BY <1>1, <1>3, <1>7

LEMMA NumberStep == ASSUME PrintState, Due, Number PROVE PrintState'
  <1>1. PICK c \in {"d", "u", "x"} :
          LET d == Head(arg).word IN
          /\ Conversion(c)
          /\ arg' = NextArg
          /\ base' = c
          /\ ud' = (IF Negative(c, d) THEN -d ELSE d) % Word
          /\ p' = IF Negative(c, d) THEN <<"-">> ELSE <<>>
          /\ p1' = Len(p') + 1
          /\ pc' = "itoa"
          /\ UNCHANGED <<todo, p2, n, i, noZeroes, out>>
    BY DEF Number
  <1>2. Head(arg) \in Argument /\ InPrintf'
    <2>1. pc' \notin {"return", "hex"}
      BY <1>1
    <2> QED
      BY <1>1, <2>1, ConversionState, Zenon
  <1>3. Head(arg).word \in Int
    BY <1>2 DEF Argument
  <1>4. ud' \in 0 .. Word - 1
    <2> DEFINE x == IF Negative(c, Head(arg).word) THEN -Head(arg).word ELSE Head(arg).word
    <2>1. x \in Int
      BY <1>3
    <2>2. ud' = x % Word
      BY <1>1
    <2> HIDE DEF x
    <2> QED
      BY <2>1, <2>2, WordFacts, Remainder
  <1>5. p' \in Seq(Text)
    <2>1. "-" \in Text
      BY DEF Text
    <2>2. <<"-">> \in Seq(Text) /\ <<>> \in Seq(Text)
      BY <2>1
    <2> QED
      BY <1>1, <2>2
  <1>6. p1' \in Nat \ {0}
    BY <1>1, <1>5
  <1>7. InItoa'
    BY <1>1, <1>4, <1>5, <1>6 DEF PrintState, InItoa
  <1>8. InWriteHex'
    BY <1>1, HexKept DEF PrintState
  <1> QED
    BY <1>1, <1>2, <1>7, <1>8 DEF PrintState

LEMMA DivideStep == ASSUME PrintState, Divide PROVE PrintState'
  <1>1. /\ pc = "itoa" /\ p' = Append(p, Digit(ud % Divisor)) /\ ud' = ud \div Divisor
        /\ \/ UNCHANGED <<pc, p2>>
           \/ pc' = "reverse" /\ p2' = Len(p')
        /\ UNCHANGED <<todo, data, arg, base, p1, n, i, noZeroes>>
    BY DEF Divide
  <1>2. Divisor \in {10, 16}
    BY DEF Divisor
  <1>3. ud \in 0 .. Word - 1 /\ p \in Seq(Text)
    BY DEF PrintState, InItoa
  <1>4. ud % Divisor \in 0 .. 15 /\ ud \div Divisor \in 0 .. Word - 1
    BY <1>2, <1>3, WordFacts, Divided
  <1>5. Digit(ud % Divisor) \in Text
    BY <1>4, DigitIsText
  <1>6. p' \in Seq(Text) /\ Len(p') \in Nat
    BY <1>1, <1>3, <1>5, AppendIs
  <1>7. InItoa'
    BY <1>1, <1>4, <1>6 DEF PrintState, InItoa
  <1>8. InPrintf' /\ InWriteHex'
    BY <1>1, Busy, FormatKept, HexKept DEF PrintState
  <1> QED
    BY <1>1, <1>7, <1>8 DEF PrintState

(* The two pointers of itoa's reversal stay inside of the string.          *)
LEMMA SwapStep == ASSUME PrintState, Swap PROVE PrintState'
  <1>1. /\ pc = "reverse" /\ p1 < p2 /\ p' = [p EXCEPT ![p1] = p[p2], ![p2] = p[p1]]
        /\ p1' = p1 + 1 /\ p2' = p2 - 1
        /\ UNCHANGED <<todo, pc, data, arg, base, ud, n, i, noZeroes>>
    BY DEF Swap
  <1>2. /\ p \in Seq(Text) /\ p1 \in Nat \ {0} /\ p2 \in Nat /\ p2 <= Len(p)
        /\ Len(p) \in Nat
    BY <1>1 DEF PrintState, InItoa
  <1>3. p1 \in 1 .. Len(p) /\ p2 \in 1 .. Len(p)
    BY <1>1, <1>2
  <1>4. p' \in Seq(Text) /\ Len(p') = Len(p)
    BY <1>1, <1>2, <1>3, SwapIs
  <1>5. p1' \in Nat \ {0} /\ p2' \in Nat /\ p2' <= Len(p')
    BY <1>1, <1>2, <1>4
  <1>6. InItoa'
    BY <1>1, <1>4, <1>5 DEF PrintState, InItoa
  <1>7. InPrintf' /\ InWriteHex'
    BY <1>1, Busy, FormatKept, HexKept DEF PrintState
  <1> QED
    BY <1>1, <1>6, <1>7 DEF PrintState

LEMMA ReversedStep == ASSUME PrintState, Reversed PROVE PrintState'
  <1>1. /\ pc = "reverse" /\ pc' = "string"
        /\ UNCHANGED <<todo, data, arg, base, ud, p1, p2, p, n, i, noZeroes>>
    BY DEF Reversed
  <1>2. InPrintf' /\ InItoa' /\ InWriteHex'
    BY <1>1, Busy, FormatKept, ItoaKept, HexKept DEF PrintState
  <1> QED
    BY <1>1, <1>2 DEF PrintState

LEMMA StringStep == ASSUME PrintState, Due, String PROVE PrintState'
  <1>1. /\ Conversion("s") /\ arg' = NextArg /\ pc' = "string"
        /\ p' = IF Head(arg).word = 0 THEN <<"(null)">> ELSE Head(arg).str
        /\ UNCHANGED <<todo, base, ud, p1, p2, n, i, noZeroes>>
    BY DEF String
  <1>2. Head(arg) \in Argument /\ InPrintf'
    <2>1. pc' \notin {"return", "hex"}
      BY <1>1
    <2> QED
      BY <1>1, <2>1, ConversionState, Zenon
  <1>3. p' \in Seq(Text)
    <2>1. "(null)" \in Text
      BY DEF Text
    <2>2. <<"(null)">> \in Seq(Text) /\ Head(arg).str \in Seq(Text)
      BY <1>2, <2>1 DEF Argument
    <2> QED
      BY <1>1, <2>2
  <1>4. InItoa' /\ InWriteHex'
    BY <1>1, <1>3, HexKept DEF PrintState, InItoa
  <1> QED
    BY <1>1, <1>2, <1>4 DEF PrintState

LEMMA PutStringStep == ASSUME PrintState, PutString PROVE PrintState'
  <1>1. /\ pc = "string" /\ p # <<>> /\ p' = Tail(p)
        /\ UNCHANGED <<todo, pc, data, arg, base, ud, p1, p2, n, i, noZeroes>>
    BY DEF PutString
  <1>2. p' \in Seq(Text)
    BY <1>1, TailFacts DEF PrintState, InItoa
  <1>3. InItoa'
    BY <1>1, <1>2 DEF PrintState, InItoa
  <1>4. InPrintf' /\ InWriteHex'
    BY <1>1, Busy, FormatKept, HexKept DEF PrintState
  <1> QED
    BY <1>1, <1>3, <1>4 DEF PrintState

LEMMA EndStringStep == ASSUME PrintState, EndString PROVE PrintState'
  <1>1. /\ pc = "string" /\ pc' = "format"
        /\ UNCHANGED <<todo, data, arg, base, ud, p1, p2, p, n, i, noZeroes>>
    BY DEF EndString
  <1>2. InPrintf' /\ InItoa' /\ InWriteHex'
    BY <1>1, Busy, FormatKept, ItoaKept, HexKept DEF PrintState
  <1> QED
    BY <1>1, <1>2 DEF PrintState

LEMMA CharacterStep == ASSUME PrintState, Due, Character PROVE PrintState'
  <1>1. /\ Conversion("c") /\ arg' = NextArg
        /\ UNCHANGED <<todo, pc, base, ud, p1, p2, p, n, i, noZeroes>>
    BY DEF Character
  <1>2. pc = "format" /\ InPrintf'
    <2>1. pc = "format"
      BY <1>1 DEF Conversion
    <2>2. pc' \notin {"return", "hex"}
      BY <1>1, <2>1
    <2> QED
      BY <1>1, <2>1, <2>2, ConversionState, Zenon
  <1>3. InItoa' /\ InWriteHex'
    BY <1>1, <1>2, ItoaKept, HexKept DEF PrintState
  <1> QED
    BY <1>1, <1>2, <1>3 DEF PrintState

LEMMA CallWriteHexStep == ASSUME PrintState, CallWriteHex PROVE PrintState'
  <1>1. /\ pc = "return" /\ todo # <<>> /\ Head(todo).fn = "terminal_write_hex" /\ pc' = "hex"
        /\ n' = Head(todo).n /\ noZeroes' = TRUE /\ i' = FirstShift
        /\ UNCHANGED <<todo, data, arg, base, ud, p1, p2, p>>
    BY DEF CallWriteHex, Call
  <1>2. Head(todo) \in GoodCalls
    BY <1>1, TailFacts DEF PrintState, InPrintf
  <1>3. n' \in 0 .. Word - 1
    BY <1>1, <1>2 DEF GoodCalls
  <1>4. FirstShift \in 0 .. WordBits - 4 /\ FirstShift % 4 = 0
    BY PrintfAssumption DEF FirstShift
  <1>5. noZeroes' \in BOOLEAN
    BY <1>1
  <1>6. InWriteHex'
    BY <1>1, <1>3, <1>4, <1>5 DEF InWriteHex
  <1>7. InPrintf' /\ InItoa'
    BY <1>1, FormatKept, ItoaKept DEF PrintState
  <1> QED
    BY <1>1, <1>6, <1>7 DEF PrintState

LEMMA ShiftFacts ==
  ASSUME InWriteHex, i > 0 PROVE NextShift \in 0 .. WordBits - 4 /\ NextShift % 4 = 0
  BY PrintfAssumption DEF InWriteHex, NextShift

LEMMA SkipZeroStep == ASSUME PrintState, SkipZero PROVE PrintState'
  <1>1. /\ pc = "hex" /\ i > 0 /\ i' = NextShift
        /\ UNCHANGED <<todo, pc, data, arg, base, ud, p1, p2, p, n, noZeroes>>
    BY DEF SkipZero
  <1>2. InWriteHex'
    BY <1>1, ShiftFacts DEF PrintState, InWriteHex
  <1>3. InPrintf' /\ InItoa'
    BY <1>1, Busy, FormatKept, ItoaKept DEF PrintState
  <1> QED
    BY <1>1, <1>2, <1>3 DEF PrintState

LEMMA PutNibbleStep == ASSUME PrintState, PutNibble PROVE PrintState'
  <1>1. /\ pc = "hex" /\ i > 0 /\ i' = NextShift /\ noZeroes' = FALSE
        /\ UNCHANGED <<todo, pc, data, arg, base, ud, p1, p2, p, n>>
    BY DEF PutNibble
  <1>2. noZeroes' \in BOOLEAN
    BY <1>1
  <1>3. InWriteHex'
    BY <1>1, <1>2, ShiftFacts DEF PrintState, InWriteHex
  <1>4. InPrintf' /\ InItoa'
    BY <1>1, Busy, FormatKept, ItoaKept DEF PrintState
  <1> QED
    BY <1>1, <1>3, <1>4 DEF PrintState

LEMMA LastNibbleStep == ASSUME PrintState, LastNibble PROVE PrintState'
  BY EndedState, Busy DEF LastNibble

LEMMA PrintingStep == ASSUME PrintState, Due, Printing PROVE PrintState'
  BY CallKprintfStep, LiteralStep, EndKprintfStep, NumberStep, DivideStep,
     SwapStep, ReversedStep, StringStep, PutStringStep, EndStringStep,
     CharacterStep, CallWriteHexStep, SkipZeroStep, PutNibbleStep,
     LastNibbleStep DEF Printing

-----------------------------------------------------------------------------
(* The printing between the steps of the exception path.                   *)

LEMMA InitialPrinting == ASSUME Init PROVE PrintState
  <1>1. /\ todo = <<>> /\ pc = "return" /\ data = <<>> /\ arg = <<>>
        /\ base = "d" /\ ud = 0 /\ p1 = 1 /\ p2 = 1 /\ p = <<>>
        /\ n = 0 /\ i = 0 /\ noZeroes = TRUE
    BY DEF Init, PrintfInit
  <1>2. InPrintf
    <2>1. todo \in Seq(GoodCalls) /\ data \in Seq(Text) /\ arg \in Seq(Argument)
      BY <1>1
    <2> QED
      BY <1>1, <2>1 DEF InPrintf
  <1>3. InItoa
    <2>1. p \in Seq(Text)
      BY <1>1
    <2>2. ud \in 0 .. Word - 1
      BY <1>1, WordFacts
    <2> QED
      BY <1>1, <2>1, <2>2 DEF InItoa
  <1>4. InWriteHex
    <2>1. noZeroes \in BOOLEAN
      BY <1>1
    <2> QED
      BY <1>1, <2>1, WordFacts, ZeroRemainder DEF InWriteHex
  <1> QED
    BY <1>1, <1>2, <1>3, <1>4 DEF PrintState

LEMMA InitiallyDue == ASSUME Init PROVE Due
  <1>1. /\ todo = <<>> /\ pc = "return" /\ data = <<>> /\ arg = <<>> /\ out = <<>>
        /\ expected = <<>>
    BY DEF Init, PrintfInit
  <1>2. pc # "itoa" /\ pc # "reverse" /\ pc # "string" /\ pc # "hex"
    BY <1>1
  <1>3. InHand(<<>>)
    BY <1>2, Empty, Zenon DEF InHand
  <1>4. Prints(data, arg, <<>>) /\ Owed(Later, <<>>)
    BY <1>1, PrintsNothing, OwedNothing, Zenon DEF Later
  <1>5. Balanced(expected, out, <<>>, <<>>, <<>>) /\ out \in Seq(Text)
    BY <1>1, AllOwed, Empty, Zenon
  <1> QED
    BY <1>3, <1>4, <1>5, Zenon DEF Due, Rest

LEMMA PrintingKept == ASSUME PrintState, UNCHANGED printing PROVE PrintState'
  BY DEF printing, PrintState, InPrintf, InItoa, InWriteHex

(* What is due depends on nothing but the printing and what is expected.   *)
LEMMA DueKept ==
  ASSUME Due, UNCHANGED <<printing, expected, outside>> PROVE Due'
  <1>1. PICK u : InHand(u) /\ Rest(u)
    BY DEF Due
  <1>2. /\ UNCHANGED <<todo, pc, data, arg, base, ud, p1, p2, p, n, i, noZeroes, out>>
        /\ UNCHANGED <<outside, expected>>
    BY DEF printing
  <1>3. Divisor' = Divisor /\ Later' = Later
    BY <1>2 DEF Divisor, Later
  <1>4. InHand(u)'
    BY <1>1, <1>2, <1>3, ZenonT(40) DEF InHand, MakesDigits, Made, Turned, WritesNibbles
  <1>5. Rest(u)'
    BY <1>1, <1>2, <1>3, RestKept DEF Quietly
  <1> QED
    BY <1>2, <1>4, <1>5, Zenon DEF Due

(* New calls owe the text that is due for them.                            *)
LEMMA CallsDue ==
  ASSUME PrintState, NothingToPrint, NEW calls, NEW o, Owed(calls, o), MakeCalls(calls),
         outside' \/ expected' = o
  PROVE  Due'
  <1>1. /\ todo' = calls /\ out' = <<>> /\ UNCHANGED <<pc, data, arg>>
    BY DEF MakeCalls
  <1>2. pc = "return" /\ data = <<>> /\ arg = <<>>
    BY DEF PrintState, InPrintf, NothingToPrint
  <1>3. Later' = calls
    BY <1>1, <1>2 DEF Later
  <1>4. Prints(data', arg', <<>>) /\ Owed(Later', o)
    BY <1>1, <1>2, <1>3, PrintsNothing, Zenon
  <1>5. o \in Seq(Text)
    BY OwedTyped, Zenon
  <1>6. outside' \/ Balanced(expected', out', <<>>, <<>>, o)
    BY <1>1, <1>5, AllOwed, Zenon
  <1>7. Rest(<<>>)'
    BY <1>4, <1>6, Zenon DEF Rest, Prints, Owed, Balanced
  <1>8. out' \in Seq(Text) /\ pc' \in {"return", "format"}
    BY <1>1, <1>2, Empty
  <1> QED
    BY <1>7, <1>8, NothingInHand, Zenon

(* Nothing is printed between the thread and the handler.                  *)
Quiet == at \in {"stub", "call"} => NothingToPrint

LEMMA PrintsACall == ASSUME PrintState, Printing PROVE ~NothingToPrint
  <1>1. CASE CallKprintf \/ CallWriteHex
    BY <1>1 DEF CallKprintf, CallWriteHex, Call, NothingToPrint
  <1>2. CASE Literal \/ EndKprintf \/ Number \/ String \/ Character
    <2>1. pc # "return"
      BY <1>2 DEF Literal, EndKprintf, Number, String, Character, Conversion
    <2> QED
      BY <2>1, Busy DEF NothingToPrint
  <1>3. CASE \/ Divide \/ Swap \/ Reversed \/ PutString \/ EndString
             \/ SkipZero \/ PutNibble \/ LastNibble
    <2>1. pc # "return"
      BY <1>3 DEF Divide, Swap, Reversed, PutString, EndString, SkipZero, PutNibble, LastNibble
    <2> QED
      BY <2>1, Busy DEF NothingToPrint
  <1> QED
    BY <1>1, <1>2, <1>3 DEF Printing

PrintInv == PrintState /\ Due /\ Quiet

LEMMA PrintInvKept ==
  ASSUME PrintInv, UNCHANGED <<printing, expected, outside>>,
         at' \in {"stub", "call"} => at \in {"stub", "call"} \/ NothingToPrint
  PROVE  PrintInv'
  <1>1. PrintState' /\ Due'
    BY PrintingKept, DueKept DEF PrintInv
  <1>2. Quiet'
    BY DEF PrintInv, Quiet, NothingToPrint, printing
  <1> QED
    BY <1>1, <1>2 DEF PrintInv

LEMMA PrintInvCalls ==
  ASSUME PrintInv, NothingToPrint, NEW calls, NEW o, Owed(calls, o), MakeCalls(calls),
         outside' \/ expected' = o, at' \notin {"stub", "call"}
  PROVE  PrintInv'
  <1>1. calls \in Seq(GoodCalls)
    BY OwedTyped, Zenon
  <1>2. PrintState'
    BY <1>1, CallsMade DEF PrintInv
  <1>3. Due'
    BY CallsDue DEF PrintInv
  <1> QED
    BY <1>2, <1>3 DEF PrintInv, Quiet

(* One step of the thread, of the printing or of the exception path.       *)
LEMMA PrintStep ==
  ASSUME OnStack, OnPath, PrintInv, [Next]_vars PROVE PrintInv'
  <1>1. CASE UNCHANGED vars
    BY <1>1, PrintInvKept DEF vars
  <1>2. ASSUME Thread, NEW t \in Times, PrintTime(t) PROVE PrintInv'
    <2>1. /\ NothingToPrint /\ at' \notin {"stub", "call"}
          /\ MakeCalls(rtc_print_struct(t)) /\ expected' = TimeText(t)
          /\ outside' = NamesAreWrong(t)
      BY <1>2 DEF PrintTime, PrintNext, Thread, NamesAreWrong
    <2>2. PICK o : Owed(rtc_print_struct(t), o) /\ (o = TimeText(t) \/ NamesAreWrong(t))
      BY TimeIsOwed
    <2>3. outside' \/ expected' = o
      BY <2>1, <2>2, Zenon
    <2> QED
      BY <2>1, <2>2, <2>3, PrintInvCalls, Zenon
  <1>3. ASSUME Thread, NEW m \in Messages, Message(m) PROVE PrintInv'
    <2>1. /\ NothingToPrint /\ at' \notin {"stub", "call"}
          /\ MakeCalls(<<m.call>>) /\ expected' = m.text
      BY <1>3 DEF Message, PrintNext, Thread
    <2> QED
      BY <2>1, MessageIsOwed, PrintInvCalls, Zenon
  <1>4. ASSUME NEW v \in Vectors, Exception(v) PROVE PrintInv'
    BY <1>4, PrintInvKept DEF Exception, Thread
  <1>5. CASE Printing /\ UNCHANGED <<at, vector, cr2, stack, expected, outside>>
    <2>1. PrintState' /\ Due'
      BY <1>5, PrintingStep, PrintingDue DEF PrintInv, OtherFlow
    <2>2. ~NothingToPrint
      BY <1>5, PrintsACall DEF PrintInv
    <2>3. Quiet'
      BY <1>5, <2>2 DEF PrintInv, Quiet
    <2> QED
      BY <2>1, <2>3 DEF PrintInv
  <1>6. CASE GoOn
    <2>1. /\ NothingToPrint /\ at' \notin {"stub", "call"}
          /\ MakeCalls(<<>>) /\ expected' = <<>>
      BY <1>6 DEF GoOn, PrintNext
    <2> QED
      BY <2>1, OwedNothing, PrintInvCalls, Zenon
  <1>7. CASE Stub
    BY <1>7, PrintInvKept DEF Stub
  <1>8. CASE Handle
    <2>1. /\ at = "call" /\ at' \notin {"stub", "call"} /\ MakeCalls(isr_handler(int_no))
          /\ expected' = <<"Recieved interrupt:">> \o Numeral(vector, 10) \o <<"\n">>
                         \o (IF vector = 14 THEN FaultText ELSE <<>>)
      BY <1>8 DEF Handle, PrintNext
    <2>2. int_no = vector /\ vector \in 0 .. 17 /\ cr2 \in 0 .. Word - 1
      BY <2>1, RightVector DEF OnPath
    <2>3. NothingToPrint
      BY <2>1 DEF PrintInv, Quiet
    <2>4. vector \in 0 .. 31
      BY <2>2
    <2>5. Owed(isr_handler(int_no), expected')
      BY <2>1, <2>2, <2>4, ReportIsOwed, Zenon
    <2> QED
      BY <2>1, <2>3, <2>5, PrintInvCalls, Zenon
  <1>9. CASE Die
    BY <1>9, PrintInvKept DEF Die
  <1>10. CASE Return
    BY <1>10, PrintInvKept DEF Return
  <1>11. CASE Iret
    BY <1>11, PrintInvKept DEF Iret
  <1> QED
    BY <1>1, <1>2, <1>3, <1>4, <1>5, <1>6, <1>7, <1>8, <1>9, <1>10, <1>11
    DEF Next, Inside

(* The inductive invariant: the stack and the variables of the path, and   *)
(* for each message what is printed of it, what is in hand and what the    *)
(* rest of the format and of the calls is going to print.                  *)
IInv == OnStack /\ OnPath /\ PrintInv

(* Wherever the printing and the exception path are, IInv holds.           *)
THEOREM Invariance == Spec => []IInv
  <1>1. Init => IInv
    <2> SUFFICES ASSUME Init PROVE IInv
      OBVIOUS
    <2>1. Quiet
      BY DEF Init, Quiet
    <2> QED
      BY <2>1, InitialPath, InitialPrinting, InitiallyDue DEF IInv, PrintInv
  <1>2. IInv /\ [Next]_vars => IInv'
    BY PathStep, PrintStep DEF IInv
  <1> QED
    BY <1>1, <1>2, PTL DEF Spec

(* The variables of kprintf, itoa and terminal_write_hex stay in their     *)
(* ranges: the shift of a nibble is never negative, the pointers of the    *)
(* reversal never pass the ends of the string.                             *)
THEOREM TypeCorrect == Spec => []TypeOK
  <1>1. IInv => TypeOK
    <2> SUFFICES ASSUME IInv PROVE TypeOK
      OBVIOUS
    <2>1. PrintfTypeOK
      BY DEF IInv, PrintInv, PrintState, InItoa, InWriteHex, PrintfTypeOK
    <2>2. vector \in 0 .. 31
      BY DEF IInv, OnPath
    <2> QED
      BY <2>1, <2>2 DEF IInv, OnPath, TypeOK
  <1> QED
    BY <1>1, Invariance, PTL

(* kprintf takes no argument it was not given, and reads nothing behind    *)
(* the end of a format: at every % it meets, a character follows and an    *)
(* argument is left, for each call the kernel makes.                       *)
ArgumentLeft ==
  pc = "format" /\ data # <<>> /\ Head(data) = "%" => Len(data) >= 2 /\ arg # <<>>

THEOREM ArgumentsSuffice == Spec => []ArgumentLeft
  <1>1. IInv => ArgumentLeft
    BY DueFits DEF IInv, PrintInv, ArgumentLeft
  <1> QED
    BY <1>1, Invariance, PTL

(* What has been printed when a message is through is what it was to say,  *)
(* whatever the width of an int and the number, time, vector or address    *)
(* it is about: each number in its base, with its sign and neither a digit *)
(* too many nor one too few, each argument once and in its place.          *)
THEOREM EveryTextExact == Spec => []TextExact
  <1>1. IInv => TextExact
    <2> SUFFICES ASSUME IInv, NothingToPrint, ~outside PROVE out = expected
      BY DEF TextExact
    <2>1. pc = "return" /\ data = <<>> /\ todo = <<>>
      BY DEF IInv, PrintInv, PrintState, InPrintf, NothingToPrint
    <2>2. Rest(<<>>) /\ out \in Seq(Text)
      BY <2>1, FormatInHand DEF IInv, PrintInv
    <2>3. PICK v, o : /\ Prints(data, arg, v) /\ Owed(Later, o)
                      /\ Balanced(expected, out, <<>>, v, o)
      BY <2>2 DEF Rest
    <2>4. v = <<>>
      BY <2>1, <2>3, LastCall, Zenon
    <2>5. Later = <<>>
      BY <2>1 DEF Later
    <2>6. o = <<>>
      BY <2>3, <2>5, TakeNoCall, Zenon
    <2> QED
      BY <2>2, <2>3, <2>4, <2>6, NothingOwed, Zenon
  <1> QED
    BY <1>1, Invariance, PTL

-----------------------------------------------------------------------------
(* The console: it stays within the video memory, and its rows move as     *)
(* wholes.                                                                 *)

LEMMA RowInside ==
  ASSUME NEW r \in 0 .. H - 1
  PROVE  r * W \in Nat /\ r * W + W <= W * H
  <1>1. r \in Nat /\ W \in Nat /\ H \in Nat /\ H - 1 - r \in Nat
    BY TerminalAssumption
  <1>2. (H - 1 - r) * W \in Nat
    BY <1>1
  <1>3. (H - 1 - r) * W = H * W - W - r * W
    BY <1>1
  <1> QED
    BY <1>1, <1>2, <1>3

LEMMA ScreenSize == W \in Nat /\ H \in Nat /\ 2 <= H /\ H < W /\ W * H \in Nat
              /\ W * (H + 1) = W * H + W /\ (H - 1) * W = W * H - W
  BY TerminalAssumption

(* Where a character goes from a position on the screen.                   *)
LEMMA NextPlace ==
  ASSUME OnScreen, NEW c \in Chars
  PROVE  /\ PutRow(c) \in 0 .. H /\ PutColumn(c) \in 0 .. W - 1
         /\ PutRow(c) = H => PutColumn(c) = 0
         /\ NextRow(c) \in 0 .. H + 1 /\ NextColumn(c) \in 0 .. W - 1
  <1>1. RowOf(c) \in 0 .. H /\ ColumnOf(c) \in 0 .. W - 1
        /\ (RowOf(c) = H => ColumnOf(c) = 0)
    BY ScreenSize DEF OnScreen, RowOf, ColumnOf
  <1>2. PutRow(c) = RowOf(c) /\ PutColumn(c) = ColumnOf(c)
    BY <1>1, ScreenSize DEF PutRow, PutColumn
  <1> QED
    BY <1>1, <1>2, ScreenSize DEF NextRow, NextColumn, Wraps

LEMMA IndexFits ==
  ASSUME OnScreen, NEW c \in Chars
  PROVE  Index(c) \in Nat /\ Index(c) <= W * H
  <1>1. CASE PutRow(c) = H
    <2>1. Index(c) = H * W
      BY <1>1, NextPlace, ScreenSize DEF Index
    <2> QED
      BY <2>1, ScreenSize
  <1>2. CASE PutRow(c) # H
    <2>1. PutRow(c) \in 0 .. H - 1 /\ PutColumn(c) \in 0 .. W - 1
      BY <1>2, NextPlace, ScreenSize
    <2>2. PutRow(c) * W \in Nat /\ PutRow(c) * W + W <= W * H
      BY <2>1, RowInside
    <2> QED
      BY <2>1, <2>2, ScreenSize DEF Index
  <1> QED
    BY <1>1, <1>2

LEMMA FirstOnScreen == TerminalInit => OnScreen
  <1> SUFFICES ASSUME TerminalInit PROVE OnScreen
    OBVIOUS
  <1>1. Blank \in Chars
    BY TerminalAssumption DEF Chars
  <1>2. buffer \in [Memory -> Chars]
    BY <1>1 DEF TerminalInit
  <1>3. row \in 0 .. H - 1 /\ column \in 0 .. W - 1 /\ cursor \in Nat
    BY ScreenSize DEF TerminalInit
  <1> QED
    BY <1>2, <1>3 DEF OnScreen

LEMMA ScrolledType ==
  ASSUME NEW b \in [Memory -> Chars] PROVE Scrolled(b) \in [Memory -> Chars]
  <1>1. Blank \in Chars
    BY TerminalAssumption DEF Chars
  <1>2. \A k \in Memory : k < (H - 1) * W => k + W \in Memory
    BY ScreenSize DEF Memory
  <1>3. \A k \in Memory :
          (IF k < (H - 1) * W THEN b[k + W] ELSE IF k < H * W THEN Blank ELSE b[k])
            \in Chars
    BY <1>1, <1>2
  <1> QED
    BY <1>3 DEF Scrolled

LEMMA PutStep ==
  ASSUME OnScreen, NEW c \in Chars, terminal_putchar(c) PROVE OnScreen'
  <1> DEFINE written == [buffer EXCEPT ![Index(c)] = c]
  <1>1. written \in [Memory -> Chars]
    BY DEF OnScreen
  <1>2. NextRow(c) \in Nat /\ NextColumn(c) \in 0 .. W - 1
    BY NextPlace, ScreenSize
  <1>3. buffer' \in [Memory -> Chars]
    BY <1>1, ScrolledType DEF terminal_putchar
  <1>4. row' \in 0 .. H - 1
    BY <1>2, ScreenSize DEF terminal_putchar, Scrolls
  <1>5. cursor' \in Nat /\ column' \in 0 .. W - 1
    BY <1>2, ScreenSize DEF terminal_putchar
  <1> QED
    BY <1>3, <1>4, <1>5 DEF OnScreen

(* Between two characters the position is on the screen, and no character  *)
(* is ever stored beyond the first cell behind it, whatever was printed    *)
(* before, newlines and returns included.                                  *)
THEOREM TerminalTypeCorrect == TerminalSpec => []TerminalTypeOK
  <1>1. OnScreen /\ [TerminalNext]_console => OnScreen'
    <2> SUFFICES ASSUME OnScreen, [TerminalNext]_console PROVE OnScreen'
      OBVIOUS
    <2>1. CASE TerminalNext
      BY <2>1, PutStep DEF TerminalNext
    <2>2. CASE UNCHANGED console
      BY <2>2 DEF console, OnScreen
    <2> QED
      BY <2>1, <2>2
  <1>2. OnScreen => TerminalTypeOK
    BY IndexFits DEF TerminalTypeOK
  <1> QED
    BY FirstOnScreen, <1>1, <1>2, PTL DEF TerminalSpec

-----------------------------------------------------------------------------
(* The rows of the screen are a sequence of H lines.                       *)
LEMMA RowsSeq ==
  ASSUME NEW b
  PROVE  \E S : /\ Rows(b) \in Seq(S) /\ EmptyLine \in S
                /\ Len(Rows(b)) = H
                /\ \A r \in 1 .. H : Rows(b)[r] = Line(b, r - 1)
  <1> DEFINE S == {Line(b, r - 1) : r \in 1 .. H} \cup {EmptyLine}
  <1>1. Rows(b) \in [1 .. H -> S]
    BY DEF Rows
  <1>2. H \in Nat
    BY ScreenSize
  <1> HIDE DEF S
  <1>3. Rows(b) \in Seq(S) /\ Len(Rows(b)) = H
    BY <1>1, <1>2
  <1>4. \A r \in 1 .. H : Rows(b)[r] = Line(b, r - 1)
    BY DEF Rows
  <1>5. EmptyLine \in S
    BY DEF S
  <1> QED
    BY <1>3, <1>4, <1>5

(* A cell of a row is a cell of the screen.                                *)
LEMMA CellOnScreen ==
  ASSUME NEW r \in 0 .. H - 1, NEW x \in 0 .. W - 1
  PROVE  /\ r * W + x \in Screen /\ r * W + x \in Memory
         /\ (r + 1) * W + x = r * W + x + W
         /\ r < H - 1 => r * W + x < (H - 1) * W
         /\ r = H - 1 => r * W + x >= (H - 1) * W
  <1>1. r \in Nat /\ x \in Nat /\ x < W /\ W \in Nat /\ H \in Nat
    BY ScreenSize
  <1>2. r * W \in Nat /\ r * W + W <= W * H
    BY RowInside
  <1>3. (r + 1) * W = r * W + W
    BY <1>1
  <1>4. ASSUME r < H - 1 PROVE r * W + W <= (H - 1) * W
    <2>1. r + 1 \in 0 .. H - 1
      BY <1>1, <1>4
    <2>2. (r + 1) * W + W <= W * H
      BY <2>1, RowInside
    <2> QED
      BY <2>2, <1>3, <1>2, ScreenSize
  <1>5. r * W + x \in Nat /\ r * W + x < W * H
    BY <1>1, <1>2, ScreenSize
  <1>6. r * W + x \in Screen /\ r * W + x \in Memory
    BY <1>5, ScreenSize DEF Screen, Memory
  <1>7. r < H - 1 => r * W + x < (H - 1) * W
    BY <1>1, <1>2, <1>4, ScreenSize
  <1>8. r = H - 1 => r * W + x >= (H - 1) * W
    BY <1>1, <1>2, ScreenSize
  <1> QED
    BY <1>1, <1>2, <1>3, <1>6, <1>7, <1>8

(* A row of the screen after scroll is the row that was under it, and the  *)
(* last one is blank.                                                      *)
LEMMA ScrolledLine ==
  ASSUME NEW b, NEW r \in 0 .. H - 1
  PROVE  Line(Scrolled(b), r) = IF r < H - 1 THEN Line(b, r + 1) ELSE EmptyLine
  <1>1. r \in Nat /\ H \in Nat
    BY ScreenSize
  <1>2. \A x \in 0 .. W - 1 :
          Scrolled(b)[r * W + x]
            = IF r * W + x < (H - 1) * W THEN b[r * W + x + W]
              ELSE IF r * W + x < H * W THEN Blank ELSE b[r * W + x]
    BY CellOnScreen DEF Scrolled
  <1>3. CASE r < H - 1
    <2>1. \A x \in 0 .. W - 1 : Scrolled(b)[r * W + x] = b[(r + 1) * W + x]
      <3> TAKE x \in 0 .. W - 1
      <3>1. r * W + x < (H - 1) * W /\ (r + 1) * W + x = r * W + x + W
        BY <1>3, CellOnScreen
      <3> QED
        BY <1>2, <3>1
    <2> QED
      BY <1>3, <2>1 DEF Line
  <1>4. CASE r = H - 1
    <2>1. \A x \in 0 .. W - 1 : Scrolled(b)[r * W + x] = Blank
      <3> TAKE x \in 0 .. W - 1
      <3>1. r * W + x \in Screen /\ r * W + x >= (H - 1) * W
        BY <1>4, CellOnScreen
      <3>2. r * W + x < H * W /\ ~(r * W + x < (H - 1) * W)
        BY <3>1, ScreenSize DEF Screen
      <3> QED
        BY <1>2, <3>2
    <2>2. ~(r < H - 1)
      BY <1>1, <1>4
    <2> QED
      BY <2>1, <2>2 DEF Line, EmptyLine
  <1> QED
    BY <1>1, <1>3, <1>4

(* scroll drops the first row and adds an empty one at the end.            *)
LEMMA ScrolledRows ==
  ASSUME NEW b
  PROVE  Rows(Scrolled(b)) = Append(Tail(Rows(b)), EmptyLine)
  <1> DEFINE rows  == Rows(b)
             after == Rows(Scrolled(b))
             up    == Append(Tail(rows), EmptyLine)
  <1>1. PICK S : /\ rows \in Seq(S) /\ EmptyLine \in S /\ Len(rows) = H
                 /\ \A r \in 1 .. H : rows[r] = Line(b, r - 1)
    BY RowsSeq
  <1>2. /\ Len(after) = H
        /\ \A r \in 1 .. H : after[r] = Line(Scrolled(b), r - 1)
    BY RowsSeq
  <1>3. H \in Nat /\ 2 <= H
    BY ScreenSize
  <1> HIDE DEF rows
  <1>4. rows # << >>
    BY <1>1, <1>3
  <1>5. /\ Tail(rows) \in Seq(S) /\ Len(Tail(rows)) = H - 1
        /\ \A k \in 1 .. H - 1 : Tail(rows)[k] = rows[k + 1]
    BY <1>1, <1>4, HeadTailProperties
  <1>6. /\ up \in Seq(S) /\ Len(up) = H - 1 + 1
        /\ \A k \in 1 .. H - 1 : up[k] = Tail(rows)[k]
        /\ up[H - 1 + 1] = EmptyLine
    BY <1>1, <1>5, AppendProperties
  <1> HIDE DEF up
  <1>7. \A r \in 1 .. H : after[r] = up[r]
    <2> SUFFICES ASSUME NEW r \in 1 .. H PROVE after[r] = up[r]
      OBVIOUS
    <2>1. r - 1 \in 0 .. H - 1
      BY <1>3
    <2>2. after[r] = IF r - 1 < H - 1 THEN Line(b, r - 1 + 1) ELSE EmptyLine
      BY <1>2, <2>1, ScrolledLine
    <2>3. CASE r = H
      <3>1. ~(r - 1 < H - 1) /\ r = H - 1 + 1
        BY <2>3, <1>3
      <3> QED
        BY <2>2, <3>1, <1>6
    <2>4. CASE r # H
      <3>1. r \in 1 .. H - 1 /\ r + 1 \in 1 .. H /\ r - 1 < H - 1
            /\ r - 1 + 1 = r /\ r + 1 - 1 = r
        BY <2>4, <1>3
      <3>2. up[r] = rows[r + 1]
        BY <3>1, <1>5, <1>6
      <3>3. rows[r + 1] = Line(b, r + 1 - 1)
        BY <3>1, <1>1
      <3> QED
        BY <2>2, <3>1, <3>2, <3>3
    <2> QED
      BY <2>3, <2>4
  <1>8. after \in [1 .. H -> {Line(Scrolled(b), r - 1) : r \in 1 .. H}]
    BY DEF Rows
  <1> HIDE DEF after
  <1>9. DOMAIN after = 1 .. H /\ after = [k \in 1 .. H |-> after[k]]
    BY <1>8
  <1>10. up \in [1 .. H -> S]
    BY <1>6, <1>3, LenProperties
  <1> QED
    BY <1>7, <1>9, <1>10 DEF after, up, rows

(* Where a glyph is after the scroll, if there was one: the row it is in   *)
(* may have moved.                                                         *)
LEMMA GlyphBeforeNext ==
  ASSUME OnScreen, NEW c \in Glyphs, terminal_putchar(c)
  PROVE  buffer'[row' * W + column' - 1] = c
  <1> DEFINE written == [buffer EXCEPT ![Index(c)] = c]
  <1>1. /\ row \in Nat /\ row <= H - 1 /\ column \in Nat /\ column <= W - 1
        /\ row \in 0 .. H - 1 /\ column \in 0 .. W - 1
    BY ScreenSize DEF OnScreen
  <1>2. c # "backspace" /\ c # "return" /\ c # "newline" /\ c \in Chars
    BY GlyphsAssumption DEF Controls, Chars
  <1>3. RowOf(c) = row /\ ColumnOf(c) = column
    BY <1>2 DEF RowOf, ColumnOf
  <1>4. PutRow(c) = row /\ PutColumn(c) = column
    BY <1>1, <1>3, ScreenSize DEF PutRow, PutColumn
  <1>5. Index(c) = row * W + column /\ Index(c) \in Memory
    BY <1>1, <1>4, CellOnScreen DEF Index
  <1>6. written[Index(c)] = c
    BY <1>5 DEF OnScreen
  <1>7. row * W \in Nat
    BY <1>1, RowInside
  <1>8. CASE column + 1 # W
    <2>1. NextRow(c) = row /\ NextColumn(c) = column + 1
      BY <1>4, <1>8 DEF NextRow, NextColumn, Wraps
    <2>2. ~Scrolls(NextRow(c))
      BY <1>1, <2>1, ScreenSize DEF Scrolls
    <2>3. buffer' = written /\ row' = row /\ column' = column + 1
      BY <2>1, <2>2 DEF terminal_putchar
    <2>4. row * W + (column + 1) - 1 = Index(c)
      BY <1>1, <1>5, <1>7
    <2> QED
      BY <1>6, <2>3, <2>4
  <1>9. CASE column + 1 = W /\ row + 1 # H
    <2>1. NextRow(c) = row + 1 /\ NextColumn(c) = 0
      BY <1>4, <1>9 DEF NextRow, NextColumn, Wraps
    <2>2. ~Scrolls(NextRow(c))
      BY <1>1, <1>9, <2>1, ScreenSize DEF Scrolls
    <2>3. buffer' = written /\ row' = row + 1 /\ column' = 0
      BY <2>1, <2>2 DEF terminal_putchar
    <2>4. (row + 1) * W = row * W + W
      BY <1>1, ScreenSize
    <2>5. (row + 1) * W + 0 - 1 = Index(c)
      BY <1>1, <1>5, <1>7, <1>9, <2>4, ScreenSize
    <2> QED
      BY <1>6, <2>3, <2>5
  <1>10. CASE column + 1 = W /\ row + 1 = H
    <2>1. NextRow(c) = row + 2 /\ NextColumn(c) = 0
      BY <1>4, <1>10 DEF NextRow, NextColumn, Wraps
    <2>2. Scrolls(NextRow(c))
      BY <1>1, <1>10, <2>1, ScreenSize DEF Scrolls
    <2>3. buffer' = Scrolled(written) /\ row' = H - 1 /\ column' = 0
      BY <2>1, <2>2 DEF terminal_putchar
    <2>4. row = H - 1 /\ column = W - 1
      BY <1>1, <1>10, ScreenSize
    <2>5. Index(c) = W * H - 1
      BY <1>5, <2>4, ScreenSize
    <2> DEFINE k == (H - 1) * W + 0 - 1
    <2>6. (H - 1) * W \in Nat /\ (H - 1) * W >= W
      <3>1. 0 \in 0 .. H - 2 /\ H - 2 \in 0 .. H - 1 /\ H - 2 \in Nat
        BY ScreenSize
      <3>2. (H - 2) * W \in Nat
        BY <3>1, RowInside
      <3>3. (H - 1) * W = (H - 2) * W + W
        BY ScreenSize
      <3> QED
        BY <3>2, <3>3, ScreenSize
    <2>7. k \in Memory /\ k < (H - 1) * W /\ k + W = Index(c)
      BY <2>5, <2>6, ScreenSize DEF Memory
    <2> HIDE DEF k
    <2>8. Scrolled(written)[k] = written[k + W]
      BY <2>7 DEF Scrolled
    <2>9. Scrolled(written)[k] = c
      BY <2>7, <2>8, <1>6
    <2> QED
      BY <2>3, <2>9 DEF k
  <1> QED
    BY <1>8, <1>9, <1>10

LEMMA RowsMove ==
  ASSUME OnScreen, NEW c \in Chars, terminal_putchar(c)
  PROVE  Moved(Rows([buffer EXCEPT ![Index(c)] = c]))
  <1> DEFINE written == [buffer EXCEPT ![Index(c)] = c]
  <1>1. buffer' = written \/ buffer' = Scrolled(written)
    BY DEF terminal_putchar
  <1>2. Rows(Scrolled(written)) = Append(Tail(Rows(written)), EmptyLine)
    BY ScrolledRows
  <1> HIDE DEF written
  <1>3. Moved(Rows(written))
    BY <1>1, <1>2 DEF Moved
  <1> QED
    BY <1>3 DEF written

(* The rows of the screen stay or move up together, whatever is printed,   *)
(* and a glyph is afterwards in the cell before the next position.         *)
THEOREM RowsStayWhole == TerminalSpec => RowsMoveWhole
  <1> DEFINE Whole == \A c \in Chars : terminal_putchar(c) =>
                 /\ Moved(Rows([buffer EXCEPT ![Index(c)] = c]))
                 /\ c \in Glyphs => buffer'[row' * W + column' - 1] = c
  <1>1. OnScreen /\ [TerminalNext]_console => OnScreen'
    <2> SUFFICES ASSUME OnScreen, [TerminalNext]_console PROVE OnScreen'
      OBVIOUS
    <2>1. CASE TerminalNext
      BY <2>1, PutStep DEF TerminalNext
    <2>2. CASE UNCHANGED console
      BY <2>2 DEF console, OnScreen
    <2> QED
      BY <2>1, <2>2
  <1>2. OnScreen => Whole
    <2> SUFFICES ASSUME OnScreen, NEW c \in Chars, terminal_putchar(c)
                 PROVE  /\ Moved(Rows([buffer EXCEPT ![Index(c)] = c]))
                        /\ c \in Glyphs => buffer'[row' * W + column' - 1] = c
      OBVIOUS
    <2>1. c \in Glyphs => buffer'[row' * W + column' - 1] = c
      BY GlyphBeforeNext
    <2> QED
      BY RowsMove, <2>1
  <1> HIDE DEF Whole
  <1>3. TerminalSpec => [][Whole]_console
    BY FirstOnScreen, <1>1, <1>2, PTL DEF TerminalSpec
  <1> QED
    BY <1>3 DEF RowsMoveWhole, Whole
=============================================================================
