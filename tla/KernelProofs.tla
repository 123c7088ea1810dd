---------------------------- MODULE KernelProofs ----------------------------
(***************************************************************************)
(* What holds of the boot thread and its interrupts whatever lines the     *)
(* devices raise, wherever the stubs are linked and however long sleep is. *)
(***************************************************************************)
EXTENDS Kernel, SequenceTheorems, TLAPS

(* The program, one operation after the other: the number of each is the   *)
(* value pc has before it.                                                 *)
LEMMA ProgramLength == Len(Program) = 51 /\ Main = 14
  BY SMT DEF Program, Main, load_start, boot_start, kernel_main, enable_paging, gdt,
             idt, irq_remap, Setup, init_timer, rtc_install, sleep, Finish, Op, Outb,
             Divisor

LEMMA ProgramText ==
  /\ Program[1].op = "orl_cr4" /\ Program[2].op = "movl_cr3"
  /\ Program[3].op = "orl_cr0" /\ Program[4].op = "jmp_start_high"
  /\ Program[5].op = "movl_entrypgdir" /\ Program[6].op = "invlpg"
  /\ Program[7].op = "movl_esp" /\ Program[8].op = "jmp_kernel_main"
  /\ Program[9].op = "orl_cr4" /\ Program[10].op = "movl_cr3"
  /\ Program[11].op = "orl_cr0" /\ Program[12].op = "movl_esp"
  /\ Program[13].op = "jmp_kernel_main" /\ Program[14].op = "lgdt"
  /\ Program[15].op = "movw_segments" /\ Program[16].op = "ljmp"
  /\ Program[17].op = "clear_id"
  /\ Program[18].op = "outb" /\ Program[18].v = 17 /\ Program[18].port = 32
  /\ Program[19].op = "outb" /\ Program[19].v = 17 /\ Program[19].port = 160
  /\ Program[20].op = "outb" /\ Program[20].v = 32 /\ Program[20].port = 33
  /\ Program[21].op = "outb" /\ Program[21].v = 40 /\ Program[21].port = 161
  /\ Program[22].op = "outb" /\ Program[22].v = 4 /\ Program[22].port = 33
  /\ Program[23].op = "outb" /\ Program[23].v = 2 /\ Program[23].port = 161
  /\ Program[24].op = "outb" /\ Program[24].v = 1 /\ Program[24].port = 33
  /\ Program[25].op = "outb" /\ Program[25].v = 1 /\ Program[25].port = 161
  /\ Program[26].op = "outb" /\ Program[26].v = 0 /\ Program[26].port = 33
  /\ Program[27].op = "outb" /\ Program[27].v = 0 /\ Program[27].port = 161
  /\ Program[28].op = "isr_gates" /\ Program[29].op = "irq_gates"
  /\ Program[30].op = "lidt" /\ Program[31].op = "clear_handlers"
  /\ Program[32].op = "kinit1" /\ Program[33].op = "terminal_initialize"
  /\ Program[34].op = "sti" /\ Program[35].op = "call"
  /\ Program[36].op = "register_timer"
  /\ Program[37].op = "outb" /\ Program[37].v = 54 /\ Program[37].port = 64
  /\ Program[38].op = "outb" /\ Program[38].v = 169 /\ Program[38].port = 64
  /\ Program[39].op = "outb" /\ Program[39].v = 4 /\ Program[39].port = 64
  /\ Program[40].op = "outb" /\ Program[40].v = 11 /\ Program[40].port = 112
  /\ Program[41].op = "read_status"
  /\ Program[42].op = "outb" /\ Program[42].v = 11 /\ Program[42].port = 112
  /\ Program[43].op = "write_status"
  /\ Program[44].op = "outb" /\ Program[44].v = 12 /\ Program[44].port = 112
  /\ Program[45].op = "read_C" /\ Program[46].op = "set_end"
  /\ Program[47].op = "while_tick_below_end" /\ Program[48].op = "rtc_handler"
  /\ Program[49].op = "rtc_print_struct" /\ Program[50].op = "paging_install"
  /\ Program[51].op = "die"
  BY SMTT(60) DEF Program, load_start, boot_start, kernel_main, enable_paging, gdt, idt,
             irq_remap, Setup, init_timer, rtc_install, sleep, Finish, Op, Outb,
             Divisor

-----------------------------------------------------------------------------
(* The inductive invariant, part by part.                                  *)

Frame == IrqFrame \cup FaultFrame

(* The running handler is at one of these places.                          *)
HandlerAt(places) == frame # <<>> /\ frame[1].at \in places

(* Interrupts are on in the thread once it has executed sti, and off in a  *)
(* handler up to its own sti, whose shadow lasts until iretl.  A page fault *)
(* comes in rtc_print_struct or in paging_install.                         *)
Handling ==
  /\ Len(frame) <= 1
  /\ frame = <<>> => (intr <=> pc > 34) /\ (shadow => pc = 35)
  /\ frame # <<>> => pc > 34 /\ (intr <=> HandlerAt({"iret"}))
                             /\ (shadow <=> HandlerAt({"iret"}))
  /\ HandlerAt({"die"}) => pc \in {49, 50}

(* The bits in service are those of the frame whose EOIs are not all sent. *)
Service ==
  /\ pic["slave"].isr =
       IF HandlerAt({"slave_eoi"}) /\ frame[1].vec >= 40
       THEN {frame[1].vec - 40} ELSE {}
  /\ pic["master"].isr =
       IF HandlerAt({"slave_eoi", "master_eoi"})
       THEN {IF frame[1].vec < 40 THEN frame[1].vec - 32 ELSE 2} ELSE {}

(* The lines that devices raise are those of the PIT, the keyboard and the *)
(* RTC.                                                                    *)
Raised == pic["master"].irr \subseteq {0, 1} /\ pic["slave"].irr \subseteq {0}

(* How far the initialization of the two 8259s has come.                   *)
Remapped ==
  /\ pc \in {19, 20} => pic["master"].icw = 2
  /\ pc \in {21, 22} => pic["master"].icw = 3
  /\ pc \in {23, 24} => pic["master"].icw = 4
  /\ pc \notin 19 .. 24 => pic["master"].icw = 0
  /\ pc \in {20, 21} => pic["slave"].icw = 2
  /\ pc \in {22, 23} => pic["slave"].icw = 3
  /\ pc \in {24, 25} => pic["slave"].icw = 4
  /\ pc \notin 20 .. 25 => pic["slave"].icw = 0
  /\ pc > 20 => pic["master"].base = 32
  /\ pc > 21 => pic["slave"].base = 40
  /\ pc > 18 => pic["master"].mask = {}
  /\ pc > 19 => pic["slave"].mask = {}

(* How far the tables have come.                                           *)
Installed ==
  /\ pc > 28 => 0 .. 31 \subseteq gate
  /\ pc > 29 => 32 .. 47 \subseteq gate
  /\ pc > 30 => idtr
  /\ \A v \in 33 .. 47 : handler[v] = "none"
  /\ handler[32] = IF pc > 36 THEN "timer_callback" ELSE "none"

(* A pulse that timer_callback has not counted yet.  There is none when the *)
(* thread has executed something since the last one.  They are not counted *)
(* once the CPU is halted in page_fault.                                   *)
Ticking ==
  /\ HandlerAt({"slave_eoi", "master_eoi", "dispatch", "timer_callback"})
  /\ frame[1].vec = 32
Pending == 0 \in pic["master"].irr \/ Ticking

Counting ==
  /\ lag = IF pc > 36 /\ Pending /\ ~HandlerAt({"die"}) THEN 1 ELSE 0
  /\ pc > 36 => ~(0 \in pic["master"].irr /\ Ticking)
  /\ pc > 36 /\ rested /\ ~HandlerAt({"die"}) => ~Pending
  /\ HandlerAt({"timer_callback"}) => frame[1].vec = 32 /\ pc > 36

(* The pulses counted or pending since init_timer are at most one for each *)
(* operation of the thread; in sleep, where turns of the loop come without *)
(* a bound, they are counted from its start.                               *)
Unrested == IF rested THEN 0 ELSE 1

Sleeping ==
  /\ pc <= 36 => tick = 0
  /\ pc \in 37 .. 46 => tick + lag <= pc - 37 + Unrested
  /\ pc = 47 => /\ end <= SleepTicks + 10
                /\ tick + lag = end - SleepTicks + elapsed
                /\ tick + lag <= end + Unrested
  /\ pc = 48 => elapsed >= SleepTicks

(* The three bytes that reach channel 0 of the PIT.                        *)
Loading ==
  /\ pc <= 37 => ~pit.half
  /\ pc = 38 => pit.half /\ pit.low = 54
  /\ pc = 39 => ~pit.half
  /\ pc > 38 => pit.reload = 54 + 256 * 169

(* What is set up when, in either _start and in gdt().                     *)
Up == {"PSE", "CR3", "PG", "high", "stack"}

Booted ==
  /\ pc \in {1, 9}  => machine = {"low"}
  /\ pc \in {2, 10} => machine = {"low", "PSE"}
  /\ pc \in {3, 11} => machine = {"low", "PSE", "CR3"}
  /\ pc \in {4, 12} => machine = {"low", "PSE", "CR3", "PG"}
  /\ pc = 5  => machine = {"low", "PSE", "CR3", "PG", "high"}
  /\ pc = 6  => machine = {"stale", "PSE", "CR3", "PG", "high"}
  /\ pc = 7  => machine = {"PSE", "CR3", "PG", "high"}
  /\ pc = 8  => machine = Up
  /\ pc = 13 => machine = {"low", "PSE", "CR3", "PG", "stack"}
  /\ pc > 13 => Up \subseteq machine /\ "stale" \notin machine
  /\ pc > 13 => ("gp" \in machine <=> pc > 14)
  /\ pc > 13 => ("data" \in machine <=> pc > 15)
  /\ pc > 13 => ("code" \in machine <=> pc > 16)

IInv ==
  /\ TypeOK
  /\ Handling
  /\ Service
  /\ Raised
  /\ Remapped
  /\ Installed
  /\ Counting
  /\ Sleeping
  /\ Loading
  /\ Booted

-----------------------------------------------------------------------------
(* Facts about numbers, bits and descriptors.                              *)

LEMMA MinFacts ==
  ASSUME NEW S \in SUBSET (0 .. 7), S # {}
  PROVE  Min(S) \in S /\ \A x \in S : Min(S) <= x
  <1>1. S \subseteq Nat
    OBVIOUS
  <1>2. PICK k \in S : TRUE
    OBVIOUS
  <1>3. \E n \in Nat : n \in S /\ \A m \in 0 .. n - 1 : m \notin S
    <2>1. CASE 0 \in S
      BY <2>1
    <2>2. CASE 0 \notin S /\ 1 \in S
      BY <2>2
    <2>3. CASE {0, 1} \cap S = {} /\ 2 \in S
      BY <2>3
    <2>4. CASE {0, 1, 2} \cap S = {} /\ 3 \in S
      BY <2>4
    <2>5. CASE {0, 1, 2, 3} \cap S = {} /\ 4 \in S
      BY <2>5
    <2>6. CASE {0, 1, 2, 3, 4} \cap S = {} /\ 5 \in S
      BY <2>6
    <2>7. CASE {0, 1, 2, 3, 4, 5} \cap S = {} /\ 6 \in S
      BY <2>7
    <2>8. CASE {0, 1, 2, 3, 4, 5, 6} \cap S = {} /\ 7 \in S
      BY <2>8
    <2> QED
      BY <1>2, <2>1, <2>2, <2>3, <2>4, <2>5, <2>6, <2>7, <2>8
  <1>4. PICK n \in S : \A m \in 0 .. n - 1 : m \notin S
    BY <1>3
  <1>5. \A y \in S : n <= y
    BY <1>1, <1>4
  <1> QED
    BY <1>5 DEF Min

LEMMA MinSingleton == ASSUME NEW x \in Int PROVE Min({x}) = x
  BY DEF Min

LEMMA CommandBits == Bits(0) = {} /\ 4 \in Bits(17) /\ 4 \notin Bits(32)
  <1>1. 2^4 = 16
    OBVIOUS
  <1>2. /\ 2^0 = 1 /\ 2^1 = 2 /\ 2^2 = 4 /\ 2^3 = 8
        /\ 2^5 = 32 /\ 2^6 = 64 /\ 2^7 = 128
    OBVIOUS
  <1>3. \A i \in 0 .. 7 : (0 \div 2^i) % 2 = 0
    <2>1. \A i \in 0 .. 7 : i \in {0, 1, 2, 3, 4, 5, 6, 7}
      OBVIOUS
    <2>2. /\ (0 \div 1) % 2 = 0 /\ (0 \div 2) % 2 = 0 /\ (0 \div 4) % 2 = 0
          /\ (0 \div 8) % 2 = 0 /\ (0 \div 16) % 2 = 0 /\ (0 \div 32) % 2 = 0
          /\ (0 \div 64) % 2 = 0 /\ (0 \div 128) % 2 = 0
      OBVIOUS
    <2> QED
      BY <1>1, <1>2, <2>1, <2>2, ZenonT(30)
  <1>4. Bits(0) = {}
    <2> DEFINE bit(i) == (0 \div 2^i) % 2
    <2>1. \A i \in 0 .. 7 : bit(i) = 0
      BY <1>3
    <2>2. Bits(0) = {i \in 0 .. 7 : bit(i) = 1}
      BY DEF Bits
    <2> HIDE DEF bit
    <2> QED
      BY <2>1, <2>2
  <1>5. 4 \in Bits(17) /\ 4 \notin Bits(32)
    BY <1>1, SMT DEF Bits
  <1> QED
    BY <1>4, <1>5

(* Segments and gates as the processor reads them.                         *)
LEMMA Segments == FlatCode(Selected(8)) /\ FlatData(Selected(16))
  <1>1. Selected(8) = gp[2] /\ Selected(16) = gp[3]
    BY DEF Selected
  <1>2. gp[2] = set_gdt(Zero, AllOnes, 154, 207) /\ gp[3] = set_gdt(Zero, AllOnes, 146, 207)
    BY DEF gp
  <1>3. /\ SubSeq(Zero, 1, 2) \o <<Zero[3], Zero[4]>> = Zero
        /\ SubSeq(AllOnes, 1, 2) = <<255, 255>>
    <2>1. Zero \in Seq(Nat) /\ Len(Zero) = 4 /\ AllOnes \in Seq(Nat) /\ Len(AllOnes) = 4
      BY DEF Zero, AllOnes
    <2>2. \A i \in 1 .. 4 : Zero[i] = 0 /\ AllOnes[i] = 255
      BY DEF Zero, AllOnes
    <2>3. ASSUME NEW t \in Seq(Nat), NEW x \in Nat, Len(t) = 4, t[1] = x, t[2] = x
          PROVE  SubSeq(t, 1, 2) = <<x, x>>
      <3>1. SubSeq(t, 1, 2) \in Seq(Nat) /\ Len(SubSeq(t, 1, 2)) = 2
        BY <2>3
      <3>2. \A i \in 1 .. 2 : SubSeq(t, 1, 2)[i] = <<x, x>>[i]
        BY <2>3
      <3>3. <<x, x>> \in Seq(Nat) /\ Len(<<x, x>>) = 2
        BY <2>3
      <3> HIDE <2>3
      <3> QED
        BY <3>1, <3>2, <3>3, SeqEqual
    <2>4. SubSeq(Zero, 1, 2) = <<0, 0>> /\ SubSeq(AllOnes, 1, 2) = <<255, 255>>
      BY <2>1, <2>2, <2>3
    <2>5. <<0, 0>> \o <<0, 0>> = Zero
      <3> DEFINE z == <<0, 0>> \o <<0, 0>>
      <3>1. z \in Seq(Nat) /\ Len(z) = 4
        OBVIOUS
      <3>2. \A i \in 1 .. 4 : z[i] = 0
        OBVIOUS
      <3> HIDE DEF z
      <3>3. \A i \in 1 .. Len(z) : z[i] = Zero[i]
        BY <2>2, <3>1, <3>2
      <3>4. z = Zero
        BY <2>1, <3>1, <3>3, SeqEqual
      <3> QED
        BY <3>4 DEF z
    <2> QED
      BY <2>2, <2>4, <2>5
  <1>4. (255 % 16) + 16 * (207 \div 16) = 207
    OBVIOUS
  <1>5. AllOnes[3] = 255
    BY DEF AllOnes
  <1>7. /\ Bit(154, 7) = 1 /\ Bit(154, 4) = 1 /\ Bit(154, 3) = 1
        /\ Bit(146, 7) = 1 /\ Bit(146, 4) = 1 /\ Bit(146, 3) = 0 /\ Bit(146, 1) = 1
        /\ Bit(207, 7) = 1 /\ Bit(207, 6) = 1
    BY DEF Bit
  <1>8. 207 % 16 = 15
    OBVIOUS
  <1>9. ASSUME NEW d, NEW access \in {154, 146}, d = set_gdt(Zero, AllOnes, access, 207)
        PROVE  Flat(d) /\ d.access = access /\ d.granularity = 207
    <2>1. /\ d.base_low \o <<d.base_middle, d.base_high>> = Zero
          /\ d.limit_low = <<255, 255>> /\ d.granularity = 207
          /\ d.access = access
      BY <1>3, <1>4, <1>5, <1>9 DEF set_gdt
    <2>2. Bit(d.access, 7) = 1 /\ Bit(d.access, 4) = 1
      BY <1>7, <2>1
    <2> QED
      BY <1>7, <1>8, <2>1, <2>2 DEF Flat
  <1>10. FlatCode(gp[2])
    BY <1>2, <1>7, <1>9 DEF FlatCode
  <1>11. FlatData(gp[3])
    BY <1>2, <1>7, <1>9 DEF FlatData
  <1> QED
    BY <1>1, <1>10, <1>11

LEMMA GateFacts ==
  ASSUME NEW v \in 0 .. 47
  PROVE  /\ Gate(v).selector = 8 /\ Present(Gate(v)) /\ InterruptGate(Gate(v))
         /\ Offset(Gate(v)) = StubAt[v]
  <1>1. StubAt[v] \in [1 .. 4 -> 0 .. 255]
    <2>1. StubAt \in [0 .. 47 -> [1 .. 4 -> 0 .. 255]]
      BY KernelAssumption, Zenon
    <2> QED
      BY <2>1, Zenon
  <1>2. OrDpl3(142) = 238
    <2>1. 2^5 = 32 /\ 2^6 = 64
      OBVIOUS
    <2>2. (142 \div 32) % 2 = 0 /\ (142 \div 64) % 2 = 0
      OBVIOUS
    <2>3. Bit(142, 5) = 0 /\ Bit(142, 6) = 0
      BY <2>1, <2>2, Zenon DEF Bit
    <2>4. 142 + 32 * (1 - 0) + 64 * (1 - 0) = 238
      OBVIOUS
    <2> QED
      BY <2>3, <2>4 DEF OrDpl3
  <1>3. Gate(v).flags = 238 /\ Gate(v).selector = 8
    BY <1>2 DEF Gate, set_idt
  <1>4. Present(Gate(v)) /\ InterruptGate(Gate(v))
    BY <1>3, SMT DEF Present, InterruptGate, Bit
  <1>5. Offset(Gate(v)) = SubSeq(StubAt[v], 1, 2) \o SubSeq(StubAt[v], 3, 4)
    BY DEF Offset, Gate, set_idt
  <1>6. \A s \in [1 .. 4 -> 0 .. 255] : SubSeq(s, 1, 2) \o SubSeq(s, 3, 4) = s
    OBVIOUS
  <1> QED
    BY <1>1, <1>3, <1>4, <1>5, <1>6

LEMMA LeadsToItself ==
  ASSUME NEW v \in 0 .. 47, NEW w \in 0 .. 47
  PROVE  <<v, w>> \in Leads <=> v = w
  <1>1. <<v, w>> \in Leads <=> StubAt[v] = StubAt[w]
    BY GateFacts, Segments DEF Leads
  <1> QED
    BY <1>1, KernelAssumption

-----------------------------------------------------------------------------
(* Where the thread is when it executes an operation.                      *)

LEMMA Positions ==
  ASSUME pc \in 1 .. 51
  PROVE  /\ Now.op = "jmp_kernel_main" => pc \in {8, 13}
         /\ Now.op = "clear_id" => pc = 17
         /\ Now.op = "isr_gates" => pc = 28
         /\ Now.op = "irq_gates" => pc = 29
         /\ Now.op = "lidt" => pc = 30
         /\ Now.op = "clear_handlers" => pc = 31
         /\ Now.op = "kinit1" => pc = 32
         /\ Now.op = "terminal_initialize" => pc = 33
         /\ Now.op = "sti" => pc = 34
         /\ Now.op = "call" => pc = 35
         /\ Now.op = "register_timer" => pc = 36
         /\ Now.op = "read_status" => pc = 41
         /\ Now.op = "write_status" => pc = 43
         /\ Now.op = "read_C" => pc = 45
         /\ Now.op = "set_end" => pc = 46
         /\ Now.op = "while_tick_below_end" => pc = 47
         /\ Now.op = "rtc_handler" => pc = 48
         /\ Now.op = "rtc_print_struct" => pc = 49
         /\ Now.op = "paging_install" => pc = 50
         /\ Now.op = "die" => pc = 51
         /\ Now.op = "outb" => pc \in (18 .. 27) \cup (37 .. 40) \cup {42, 44}
  BY ProgramText, SMT DEF Now

-----------------------------------------------------------------------------
(* What an interrupt frame is, and how it moves on.                        *)

LEMMA Constants ==
  SleepTicks \in Nat /\ SleepTicks > 0 /\ TickMod \in Nat /\ TickMod > SleepTicks + 11
  <1>1. SleepTicks \in Nat \ {0} /\ TickMod \in Nat /\ TickMod > SleepTicks + 11
    BY KernelAssumption, PTL
  <1> QED
    BY <1>1

LEMMA Numbers ==
  ASSUME IInv
  PROVE  /\ pc \in Nat /\ 1 <= pc /\ pc <= 51
         /\ tick \in Nat /\ tick < TickMod /\ end \in Nat /\ end < TickMod
         /\ lag \in Int /\ elapsed \in Nat
  <1>1. pc \in 1 .. Len(Program)
    BY PTL DEF IInv, TypeOK
  <1>2. tick \in 0 .. TickMod - 1 /\ end \in 0 .. TickMod - 1
    BY PTL DEF IInv, TypeOK
  <1>3. lag \in Int /\ elapsed \in Nat
    BY PTL DEF IInv, TypeOK
  <1> QED
    BY <1>1, <1>2, <1>3, ProgramLength, Constants

LEMMA Types ==
  ASSUME IInv
  PROVE  frame \in Seq(Frame) /\ pic \in [Chips -> Chip]
  BY PTL DEF IInv, TypeOK, Frame

LEMMA Flags ==
  ASSUME IInv
  PROVE  rested \in BOOLEAN /\ intr \in BOOLEAN /\ shadow \in BOOLEAN
  BY PTL DEF IInv, TypeOK

LEMMA OneFrame ==
  ASSUME IInv, frame # <<>>
  PROVE  Len(frame) = 1 /\ frame[1] \in Frame /\ Running = frame[1]
  <1>1. frame \in Seq(Frame) /\ Len(frame) <= 1
    BY Types DEF IInv, Handling
  <1>2. Len(frame) = 1
    BY <1>1
  <1> QED
    BY <1>1, <1>2 DEF Running

LEMMA GotoFacts ==
  ASSUME NEW at \in {"slave_eoi", "master_eoi", "dispatch", "timer_callback", "sti", "iret"},
         IInv, frame # <<>>, Running.at # "die", Goto(at)
  PROVE  /\ frame' \in Seq(Frame) /\ Len(frame') = 1 /\ frame' # <<>>
         /\ frame'[1].vec = frame[1].vec /\ frame'[1].at = at
  <1>1. Len(frame) = 1 /\ frame[1] \in IrqFrame /\ frame \in Seq(Frame)
    BY OneFrame, Types DEF Frame, FaultFrame
  <1>2. frame' = [frame EXCEPT ![1].at = at]
    BY <1>1 DEF Goto
  <1>3. [frame[1] EXCEPT !.at = at] \in Frame
    BY <1>1 DEF Frame, IrqFrame
  <1>4. frame' = [frame EXCEPT ![1] = [frame[1] EXCEPT !.at = at]]
    BY <1>1, <1>2
  <1>5. frame' \in Seq(Frame) /\ Len(frame') = 1
    BY <1>1, <1>3, <1>4, ExceptSeq
  <1>6. frame'[1] = [frame[1] EXCEPT !.at = at]
    BY <1>1, <1>4
  <1> QED
    BY <1>1, <1>5, <1>6 DEF IrqFrame

(* The processor is halted in page_fault.                                  *)
LEMMA HaltedFacts == ASSUME IInv PROVE Halted <=> HandlerAt({"die"})
  BY OneFrame DEF Halted, HandlerAt

-----------------------------------------------------------------------------
(* The 8259s.                                                              *)

LEMMA RaiseFacts ==
  ASSUME NEW l \in {0, 1, 8}, pic \in [Chips -> Chip], Raise(l)
  PROVE  /\ pic' \in [Chips -> Chip]
         /\ \A c \in Chips : /\ pic'[c].isr = pic[c].isr /\ pic'[c].icw = pic[c].icw
                             /\ pic'[c].mask = pic[c].mask /\ pic'[c].base = pic[c].base
         /\ pic'["master"].irr = pic["master"].irr \cup (IF l = 8 THEN {} ELSE {l})
         /\ pic'["slave"].irr = pic["slave"].irr \cup (IF l = 8 THEN {0} ELSE {})
  <1> DEFINE c == ChipOf(l)
             new == [pic[c] EXCEPT !.irr = @ \cup {l % 8}]
  <1>1. c \in Chips /\ (l = 8 => c = "slave") /\ (l # 8 => c = "master")
    BY DEF ChipOf, Chips
  <1>2. l % 8 = IF l = 8 THEN 0 ELSE l
    OBVIOUS
  <1>3. pic' = [pic EXCEPT ![c] = new]
    BY <1>1 DEF Raise
  <1>4. /\ new \in Chip /\ new.irr = pic[c].irr \cup {IF l = 8 THEN 0 ELSE l}
        /\ new.isr = pic[c].isr /\ new.icw = pic[c].icw
        /\ new.mask = pic[c].mask /\ new.base = pic[c].base
    BY <1>1, <1>2 DEF Chip
  <1> HIDE DEF c, new
  <1> QED
    BY <1>1, <1>3, <1>4 DEF Chips

(* With both chips initialized, nothing masked and nothing in service, a   *)
(* request goes straight through.                                          *)
LEMMA OpenPic ==
  ASSUME IInv, frame = <<>>, pc > 34
  PROVE  /\ \A c \in Chips : pic[c].isr = {} /\ pic[c].mask = {} /\ pic[c].icw = 0
         /\ SlaveInputs = pic["slave"].irr
         /\ MasterInputs = pic["master"].irr \cup IF pic["slave"].irr = {} THEN {} ELSE {2}
  <1>1. \A c \in Chips : pic[c].isr = {} /\ pic[c].mask = {} /\ pic[c].icw = 0
    <2>1. Service /\ Remapped /\ pc \in Nat
      BY Numbers DEF IInv
    <2>2. pic["master"].isr = {} /\ pic["slave"].isr = {}
      BY <2>1 DEF Service, HandlerAt
    <2>3. /\ pic["master"].mask = {} /\ pic["slave"].mask = {}
          /\ pic["master"].icw = 0 /\ pic["slave"].icw = 0
      BY <2>1 DEF Remapped
    <2> QED
      BY <2>2, <2>3 DEF Chips
  <1>2. \A c \in Chips : \A requests : Passing(c, requests) = requests
    BY <1>1 DEF Passing
  <1>3. "slave" \in Chips /\ "master" \in Chips
    BY DEF Chips
  <1>4. SlaveInputs = pic["slave"].irr
    BY <1>2, <1>3 DEF SlaveInputs
  <1> QED
    BY <1>1, <1>2, <1>3, <1>4 DEF MasterInputs

(* The thread runs: no request is left, or interrupts were off up to now.  *)
LEMMA Undisturbed ==
  ASSUME IInv, frame = <<>>, ~Due
  PROVE  /\ pic["master"].isr = {} /\ pic["slave"].isr = {}
         /\ pc > 35 => pic["master"].irr = {} /\ pic["slave"].irr = {}
         /\ lag = 0
  <1>1. pic["master"].isr = {} /\ pic["slave"].isr = {}
    BY DEF IInv, Service, HandlerAt
  <1>2. pc \in Nat
    BY Numbers
  <1>3. ASSUME pc > 35
        PROVE  pic["master"].irr = {} /\ pic["slave"].irr = {}
    <2>1. intr /\ ~shadow
      BY <1>2, <1>3 DEF IInv, Handling
    <2>2. MasterInputs = {}
      BY <2>1 DEF Due
    <2> QED
      BY <1>2, <1>3, <2>2, OpenPic
  <1>4. lag = 0
    BY <1>2, <1>3 DEF IInv, Counting, Pending, Ticking, HandlerAt
  <1> QED
    BY <1>1, <1>3, <1>4

-----------------------------------------------------------------------------
(* The types, in the groups that the steps change together.                *)

CpuTypes ==
  /\ pc \in 1 .. Len(Program)
  /\ intr \in BOOLEAN /\ shadow \in BOOLEAN
  /\ frame \in Seq(Frame)

TableTypes ==
  /\ machine \subseteq {"PSE", "CR3", "PG", "low", "stale", "high", "stack",
                  "gp", "data", "code"}
  /\ idtr \in BOOLEAN
  /\ gate \subseteq 0 .. 47
  /\ handler \in [32 .. 47 -> {"none", "timer_callback"}]

PicTypes == pic \in [Chips -> Chip]
PitTypes == pit \in [reload : Reload, half : BOOLEAN, low : Byte]
FlagTypes == rested \in BOOLEAN /\ obf \in BOOLEAN

TimerTypes ==
  /\ tick \in 0 .. TickMod - 1 /\ end \in 0 .. TickMod - 1
  /\ lag \in Int /\ elapsed \in Nat

RtcTypes ==
  /\ cmos \in Nat
  /\ status \subseteq Signals /\ regB \subseteq Signals /\ regC \subseteq Events

LEMMA TypeGroups ==
  TypeOK <=> /\ CpuTypes /\ TableTypes /\ PicTypes /\ PitTypes /\ FlagTypes
             /\ TimerTypes /\ RtcTypes
  BY PTL DEF TypeOK, Frame, CpuTypes, TableTypes, PicTypes, PitTypes, FlagTypes, TimerTypes,
             RtcTypes

(* A part of the invariant holds on if the step leaves its state alone.    *)
LEMMA KeptCpu ==
  ASSUME IInv, UNCHANGED cpu
  PROVE  CpuTypes' /\ Handling'
  <1>1. CpuTypes /\ Handling
    BY TypeGroups DEF IInv
  <1>2. pc' = pc /\ intr' = intr /\ shadow' = shadow /\ frame' = frame
    BY DEF cpu
  <1>3. CpuTypes'
    BY <1>1, <1>2 DEF CpuTypes
  <1>4. Handling'
    BY <1>1, <1>2 DEF Handling, HandlerAt
  <1> QED
    BY <1>3, <1>4

LEMMA KeptTables ==
  ASSUME IInv, UNCHANGED <<pc, tables>>
  PROVE  TableTypes' /\ Installed' /\ Booted'
  <1>1. TableTypes /\ Installed /\ Booted
    BY TypeGroups DEF IInv
  <1>2. /\ pc' = pc /\ machine' = machine /\ idtr' = idtr /\ gate' = gate
        /\ handler' = handler
    BY DEF tables
  <1>3. TableTypes'
    BY <1>1, <1>2 DEF TableTypes
  <1>4. Installed'
    BY <1>1, <1>2 DEF Installed
  <1>5. Booted'
    BY <1>1, <1>2 DEF Booted
  <1> QED
    BY <1>3, <1>4, <1>5

LEMMA KeptPit ==
  ASSUME IInv, UNCHANGED <<pc, pit>>
  PROVE  PitTypes' /\ Loading'
  <1>1. PitTypes /\ Loading
    BY TypeGroups DEF IInv
  <1>2. pc' = pc /\ pit' = pit
    OBVIOUS
  <1>3. PitTypes'
    BY <1>1, <1>2 DEF PitTypes
  <1>4. Loading'
    BY <1>1, <1>2 DEF Loading
  <1> QED
    BY <1>3, <1>4

LEMMA KeptRtc == ASSUME IInv, UNCHANGED rtc PROVE RtcTypes'
  BY TypeGroups DEF IInv, RtcTypes, rtc

(* Raising a line leaves what is in service and the initialization alone.  *)
LEMMA KeptPic ==
  ASSUME IInv, UNCHANGED <<pc, frame>>,
         UNCHANGED pic \/ \E l \in {0, 1, 8} : Raise(l)
  PROVE  PicTypes' /\ Service' /\ Raised' /\ Remapped'
  <1>1. pic \in [Chips -> Chip] /\ Service /\ Raised /\ Remapped
    BY Types DEF IInv
  <1>2. CASE UNCHANGED pic
    BY <1>1, <1>2 DEF PicTypes, Service, Raised, Remapped, HandlerAt
  <1>3. CASE \E l \in {0, 1, 8} : Raise(l)
    <2>1. PICK l \in {0, 1, 8} : Raise(l)
      BY <1>3
    <2>2. /\ pic' \in [Chips -> Chip]
          /\ \A c \in {"master", "slave"} :
               /\ pic'[c].isr = pic[c].isr /\ pic'[c].icw = pic[c].icw
               /\ pic'[c].mask = pic[c].mask /\ pic'[c].base = pic[c].base
          /\ pic'["master"].irr = pic["master"].irr \cup (IF l = 8 THEN {} ELSE {l})
          /\ pic'["slave"].irr = pic["slave"].irr \cup (IF l = 8 THEN {0} ELSE {})
      BY <1>1, <2>1, RaiseFacts DEF Chips
    <2>3. Service'
      BY <1>1, <2>2 DEF Service, HandlerAt
    <2>4. Raised'
      BY <1>1, <2>2 DEF Raised
    <2>5. Remapped'
      BY <1>1, <2>2 DEF Remapped
    <2> QED
      BY <2>2, <2>3, <2>4, <2>5 DEF PicTypes
  <1> QED
    BY <1>2, <1>3

LEMMA TypesNext ==
  ASSUME CpuTypes', TableTypes', PicTypes', PitTypes', FlagTypes', TimerTypes', RtcTypes'
  PROVE  TypeOK'
  BY TypeGroups, PTL

-----------------------------------------------------------------------------
(* The devices.                                                            *)

LEMMA PitPulseStep == ASSUME IInv, PitPulse PROVE IInv'
  <1> DEFINE registered == handler[32] # "none"
  <1>1. /\ UNCHANGED <<cpu, tables, pit, tick, end, rtc, obf>>
        /\ rested /\ rested' = FALSE /\ Raise(0)
        /\ lag' = IF registered /\ ~Halted THEN lag + 1 ELSE 0
        /\ elapsed' = IF Now.op = "while_tick_below_end" /\ elapsed <= SleepTicks
                      THEN elapsed + 1 ELSE elapsed
    BY DEF PitPulse
  <1>2. pc' = pc /\ frame' = frame
    BY <1>1 DEF cpu
  <1>3. /\ pc \in Nat /\ 1 <= pc /\ pc <= 51 /\ tick \in Nat /\ end \in Nat
        /\ lag \in Int /\ elapsed \in Nat /\ SleepTicks \in Nat
    BY Numbers, Constants
  <1>4. registered <=> pc > 36
    BY DEF IInv, Installed
  <1>5. pc > 36 => lag = 0
    BY <1>1 DEF IInv, Counting
  <1>6. lag' = IF pc > 36 /\ ~HandlerAt({"die"}) THEN 1 ELSE 0
    BY <1>1, <1>4, <1>5, HaltedFacts
  <1>7. pc = 47 <=> Now.op = "while_tick_below_end"
    BY <1>3, Positions, ProgramText DEF Now
  <1>8. elapsed' = IF pc = 47 /\ elapsed <= SleepTicks THEN elapsed + 1 ELSE elapsed
    BY <1>1, <1>7
  <1>9. CpuTypes' /\ Handling'
    BY <1>1, KeptCpu
  <1>10. TableTypes' /\ Installed' /\ Booted'
    BY <1>1, <1>2, KeptTables
  <1>11. PitTypes' /\ Loading'
    BY <1>1, <1>2, KeptPit
  <1>12. PicTypes' /\ Service' /\ Raised' /\ Remapped'
    BY <1>1, <1>2, KeptPic
  <1>13. RtcTypes'
    BY <1>1, KeptRtc
  <1>14. FlagTypes'
    BY <1>1, TypeGroups DEF IInv, FlagTypes
  <1>15. TimerTypes'
    BY <1>1, <1>3, <1>6, <1>8, TypeGroups DEF IInv, TimerTypes
  <1>16. 0 \in pic'["master"].irr
    BY <1>1, Types, RaiseFacts
  <1>17. Counting'
    BY <1>1, <1>2, <1>6, <1>16 DEF IInv, Counting, Pending, Ticking, HandlerAt
  <1>18. Sleeping'
    <2>1. Sleeping /\ Unrested = 0 /\ Unrested' = 1 /\ tick' = tick /\ end' = end
      BY <1>1 DEF IInv, Unrested
    <2>2. pc <= 48 => ~HandlerAt({"die"})
      BY <1>3 DEF IInv, Handling
    <2> QED
      BY <1>2, <1>3, <1>5, <1>6, <1>8, <2>1, <2>2 DEF Sleeping
  <1> QED
    BY <1>9, <1>10, <1>11, <1>12, <1>13, <1>14, <1>15, <1>17, <1>18, TypesNext DEF IInv

(* The other devices do not raise line 0.                                  *)
LEMMA KeptTimer ==
  ASSUME IInv, UNCHANGED <<pc, frame, rested, timer>>,
         UNCHANGED pic \/ \E l \in {1, 8} : Raise(l)
  PROVE  TimerTypes' /\ Counting' /\ Sleeping'
  <1>1. /\ pc' = pc /\ frame' = frame /\ rested' = rested
        /\ tick' = tick /\ end' = end /\ lag' = lag /\ elapsed' = elapsed
    BY DEF timer
  <1>2. 0 \in pic'["master"].irr <=> 0 \in pic["master"].irr
    <2>1. CASE UNCHANGED pic
      BY <2>1
    <2>2. CASE \E l \in {1, 8} : Raise(l)
      BY <2>2, Types, RaiseFacts
    <2> QED
      BY <2>1, <2>2
  <1>3. (Pending' <=> Pending) /\ (Ticking' <=> Ticking)
    BY <1>1, <1>2 DEF Pending, Ticking, HandlerAt
  <1>4. TimerTypes /\ Counting /\ Sleeping
    BY TypeGroups DEF IInv
  <1>5. TimerTypes'
    BY <1>1, <1>4 DEF TimerTypes
  <1>6. Counting'
    BY <1>1, <1>2, <1>3, <1>4 DEF Counting, HandlerAt
  <1>7. Sleeping'
    BY <1>1, <1>4 DEF Sleeping, Unrested
  <1> QED
    BY <1>5, <1>6, <1>7

LEMMA RtcEventStep == ASSUME IInv, NEW e \in Events, RtcEvent(e) PROVE IInv'
  <1>1. /\ UNCHANGED <<cpu, tables, pit, rested, timer, cmos, status, regB, obf>>
        /\ regC' = regC \cup {e}
        /\ UNCHANGED pic \/ Raise(8)
    BY DEF RtcEvent
  <1>2. pc' = pc /\ frame' = frame
    BY <1>1 DEF cpu
  <1>3. CpuTypes' /\ Handling'
    BY <1>1, KeptCpu
  <1>4. TableTypes' /\ Installed' /\ Booted'
    BY <1>1, <1>2, KeptTables
  <1>5. PitTypes' /\ Loading'
    BY <1>1, <1>2, KeptPit
  <1>6. PicTypes' /\ Service' /\ Raised' /\ Remapped'
    BY <1>1, <1>2, KeptPic
  <1>7. RtcTypes'
    BY <1>1, TypeGroups DEF IInv, RtcTypes
  <1>8. FlagTypes'
    BY <1>1, TypeGroups DEF IInv, FlagTypes
  <1>9. TimerTypes' /\ Counting' /\ Sleeping'
    BY <1>1, <1>2, KeptTimer
  <1> QED
    BY <1>3, <1>4, <1>5, <1>6, <1>7, <1>8, <1>9, TypesNext DEF IInv

LEMMA KeyStep == ASSUME IInv, Key PROVE IInv'
  <1>1. /\ UNCHANGED <<cpu, tables, pit, rested, timer, rtc>>
        /\ obf' = TRUE
        /\ Raise(1)
    BY DEF Key
  <1>2. pc' = pc /\ frame' = frame
    BY <1>1 DEF cpu
  <1>3. CpuTypes' /\ Handling'
    BY <1>1, KeptCpu
  <1>4. TableTypes' /\ Installed' /\ Booted'
    BY <1>1, <1>2, KeptTables
  <1>5. PitTypes' /\ Loading'
    BY <1>1, <1>2, KeptPit
  <1>6. PicTypes' /\ Service' /\ Raised' /\ Remapped'
    BY <1>1, <1>2, KeptPic
  <1>7. RtcTypes'
    BY <1>1, KeptRtc
  <1>8. FlagTypes'
    BY <1>1, TypeGroups DEF IInv, FlagTypes
  <1>9. TimerTypes' /\ Counting' /\ Sleeping'
    BY <1>1, <1>2, KeptTimer
  <1> QED
    BY <1>3, <1>4, <1>5, <1>6, <1>7, <1>8, <1>9, TypesNext DEF IInv

-----------------------------------------------------------------------------
(* The steps of the IRQ path.                                              *)

(* What a handler leaves alone.                                            *)
LEMMA KeptByHandler ==
  ASSUME IInv, UNCHANGED <<pc, tables, pit, rested, rtc, obf>>
  PROVE  /\ TableTypes' /\ Installed' /\ Booted' /\ PitTypes' /\ Loading' /\ RtcTypes'
         /\ FlagTypes'
  <1>1. TableTypes' /\ Installed' /\ Booted'
    BY KeptTables
  <1>2. PitTypes' /\ Loading'
    BY KeptPit
  <1>3. RtcTypes'
    BY KeptRtc
  <1>4. FlagTypes'
    BY TypeGroups DEF IInv, FlagTypes
  <1> QED
    BY <1>1, <1>2, <1>3, <1>4

(* A non-specific end of interrupt, with one input in service.             *)
LEMMA EoiFacts ==
  ASSUME NEW chip \in Chip, NEW i \in 0 .. 7, chip.isr = {i}
  PROVE  Command(chip, 32) = [chip EXCEPT !.isr = {}]
  <1>1. Command(chip, 32) = [chip EXCEPT !.isr = @ \ {Min(@)}]
    BY CommandBits DEF Command
  <1>2. Min(chip.isr) = i
    BY MinSingleton
  <1> QED
    BY <1>1, <1>2 DEF Chip

LEMMA EoiSlaveStep == ASSUME IInv, EoiSlave PROVE IInv'
  <1>1. /\ UNCHANGED <<pc, tables, pit, rested, rtc, obf>> /\ UNCHANGED timer
        /\ frame # <<>> /\ Running.at = "slave_eoi" /\ Goto("master_eoi")
        /\ pic' = IF FromSlavePic(Running.vec) THEN PicWrite(160, 32) ELSE pic
        /\ shadow' = FALSE /\ intr' = intr
    BY DEF EoiSlave, Handler, NoIf
  <1>2. frame[1] \in Frame /\ Running = frame[1]
    BY <1>1, OneFrame
  <1>3. /\ frame' \in Seq(Frame) /\ Len(frame') = 1 /\ frame' # <<>>
        /\ frame'[1].vec = frame[1].vec /\ frame'[1].at = "master_eoi"
    BY <1>1, GotoFacts
  <1>4. frame[1].at = "slave_eoi" /\ frame[1].vec \in 32 .. 47
    BY <1>1, <1>2 DEF Frame, IrqFrame, FaultFrame
  <1>5. pic \in [Chips -> Chip] /\ Service /\ Handling
    BY Types DEF IInv
  <1>6. /\ pic' \in [Chips -> Chip] /\ pic'["slave"].isr = {}
        /\ pic'["master"] = pic["master"]
        /\ pic'["slave"].irr = pic["slave"].irr /\ pic'["slave"].icw = pic["slave"].icw
        /\ pic'["slave"].mask = pic["slave"].mask /\ pic'["slave"].base = pic["slave"].base
    <2>1. CASE frame[1].vec >= 40
      <3>1. pic["slave"].isr = {frame[1].vec - 40} /\ pic["slave"] \in Chip
        BY <1>1, <1>4, <1>5, <2>1 DEF Service, HandlerAt, Chips
      <3>2. pic' = [pic EXCEPT !["slave"] = Command(pic["slave"], 32)]
        BY <1>1, <1>2, <2>1 DEF FromSlavePic, PicWrite
      <3>3. Command(pic["slave"], 32) = [pic["slave"] EXCEPT !.isr = {}]
        <4>1. frame[1].vec - 40 \in 0 .. 7
          BY <1>4, <2>1
        <4> QED
          BY <3>1, <4>1, EoiFacts
      <3>4. pic' = [pic EXCEPT !["slave"] = [pic["slave"] EXCEPT !.isr = {}]]
        BY <3>2, <3>3
      <3>5. [pic["slave"] EXCEPT !.isr = {}] \in Chip
        BY <3>1 DEF Chip
      <3> QED
        BY <1>5, <3>1, <3>4, <3>5 DEF Chips, Chip
    <2>2. CASE ~(frame[1].vec >= 40)
      BY <1>1, <1>2, <1>4, <1>5, <2>2 DEF FromSlavePic, Service
    <2> QED
      BY <2>1, <2>2
  <1>7. /\ TableTypes' /\ Installed' /\ Booted' /\ PitTypes' /\ Loading' /\ RtcTypes'
        /\ FlagTypes'
    BY <1>1, KeptByHandler
  <1>8. CpuTypes'
    BY <1>1, <1>3, TypeGroups DEF IInv, CpuTypes
  <1>9. Handling'
    BY <1>1, <1>3, <1>4, <1>5 DEF Handling, HandlerAt
  <1>10. Service'
    BY <1>1, <1>3, <1>4, <1>5, <1>6 DEF Service, HandlerAt
  <1>11. Raised' /\ Remapped'
    <2>1. Raised /\ Remapped
      BY DEF IInv
    <2>2. Raised'
      BY <1>1, <1>6, <2>1 DEF Raised
    <2>3. Remapped'
      BY <1>1, <1>6, <2>1 DEF Remapped
    <2> QED
      BY <2>2, <2>3
  <1>12. TimerTypes' /\ Sleeping'
    BY <1>1, TypeGroups DEF IInv, TimerTypes, Sleeping, timer, Unrested
  <1>13. Counting'
    BY <1>1, <1>3, <1>4, <1>6 DEF IInv, Counting, Pending, Ticking, HandlerAt, timer
  <1> QED
    BY <1>6, <1>7, <1>8, <1>9, <1>10, <1>11, <1>12, <1>13, TypesNext DEF IInv, PicTypes

LEMMA EoiMasterStep == ASSUME IInv, EoiMaster PROVE IInv'
  <1>1. /\ UNCHANGED <<pc, tables, pit, rested, rtc, obf>> /\ UNCHANGED timer
        /\ frame # <<>> /\ Running.at = "master_eoi" /\ Goto("dispatch")
        /\ pic' = PicWrite(32, 32)
        /\ shadow' = FALSE /\ intr' = intr
    BY DEF EoiMaster, Handler, NoIf
  <1>2. frame[1] \in Frame /\ Running = frame[1]
    BY <1>1, OneFrame
  <1>3. /\ frame' \in Seq(Frame) /\ Len(frame') = 1 /\ frame' # <<>>
        /\ frame'[1].vec = frame[1].vec /\ frame'[1].at = "dispatch"
    BY <1>1, GotoFacts
  <1>4. frame[1].at = "master_eoi" /\ frame[1].vec \in 32 .. 47
    BY <1>1, <1>2 DEF Frame, IrqFrame, FaultFrame
  <1>5. pic \in [Chips -> Chip] /\ Service /\ Handling
    BY Types DEF IInv
  <1>6. /\ pic' \in [Chips -> Chip] /\ pic'["master"].isr = {}
        /\ pic'["slave"] = pic["slave"]
        /\ pic'["master"].irr = pic["master"].irr /\ pic'["master"].icw = pic["master"].icw
        /\ pic'["master"].mask = pic["master"].mask
        /\ pic'["master"].base = pic["master"].base
    <2> DEFINE i == IF frame[1].vec < 40 THEN frame[1].vec - 32 ELSE 2
    <2>1. i \in 0 .. 7
      BY <1>4
    <2>2. pic["master"].isr = {i} /\ pic["master"] \in Chip
      BY <1>1, <1>4, <1>5 DEF Service, HandlerAt, Chips
    <2>3. pic' = [pic EXCEPT !["master"] = Command(pic["master"], 32)]
      BY <1>1 DEF PicWrite
    <2> HIDE DEF i
    <2>4. Command(pic["master"], 32) = [pic["master"] EXCEPT !.isr = {}]
      BY <2>1, <2>2, EoiFacts
    <2>5. pic' = [pic EXCEPT !["master"] = [pic["master"] EXCEPT !.isr = {}]]
      BY <2>3, <2>4
    <2>6. [pic["master"] EXCEPT !.isr = {}] \in Chip
      BY <2>2 DEF Chip
    <2> QED
      BY <1>5, <2>2, <2>5, <2>6 DEF Chips, Chip
  <1>7. /\ TableTypes' /\ Installed' /\ Booted' /\ PitTypes' /\ Loading' /\ RtcTypes'
        /\ FlagTypes'
    BY <1>1, KeptByHandler
  <1>8. CpuTypes'
    BY <1>1, <1>3, TypeGroups DEF IInv, CpuTypes
  <1>9. Handling'
    BY <1>1, <1>3, <1>4, <1>5 DEF Handling, HandlerAt
  <1>10. Service'
    BY <1>1, <1>3, <1>4, <1>5, <1>6 DEF Service, HandlerAt
  <1>11. Raised' /\ Remapped'
    BY <1>1, <1>6 DEF IInv, Raised, Remapped
  <1>12. TimerTypes' /\ Sleeping'
    BY <1>1, TypeGroups DEF IInv, TimerTypes, Sleeping, timer, Unrested
  <1>13. Counting'
    BY <1>1, <1>3, <1>4, <1>6 DEF IInv, Counting, Pending, Ticking, HandlerAt, timer
  <1> QED
    BY <1>6, <1>7, <1>8, <1>9, <1>10, <1>11, <1>12, <1>13, TypesNext DEF IInv, PicTypes

LEMMA DispatchStep == ASSUME IInv, Dispatch PROVE IInv'
  <1> DEFINE next == Callee(Running.vec)
  <1>1. /\ UNCHANGED <<pc, tables, pit, rested, rtc, obf>> /\ UNCHANGED <<pic, timer>>
        /\ frame # <<>> /\ Running.at = "dispatch" /\ Goto(next)
        /\ shadow' = FALSE /\ intr' = intr
    BY DEF Dispatch, Handler, NoIf
  <1>2. frame[1] \in Frame /\ Running = frame[1]
    BY <1>1, OneFrame
  <1>3. frame[1].at = "dispatch" /\ frame[1].vec \in 32 .. 47
    BY <1>1, <1>2 DEF Frame, IrqFrame, FaultFrame
  <1>4. next = IF frame[1].vec = 32 /\ pc > 36 THEN "timer_callback" ELSE "sti"
    <2>1. CASE frame[1].vec = 32
      BY <1>2, <2>1 DEF IInv, Installed, Callee
    <2>2. CASE frame[1].vec # 32
      <3>1. frame[1].vec \in 33 .. 47
        BY <1>3, <2>2
      <3> QED
        BY <1>2, <2>2, <3>1 DEF IInv, Installed, Callee
    <2> QED
      BY <2>1, <2>2
  <1> HIDE DEF next
  <1>5. /\ frame' \in Seq(Frame) /\ Len(frame') = 1 /\ frame' # <<>>
        /\ frame'[1].vec = frame[1].vec /\ frame'[1].at = next
    <2>1. next \in {"slave_eoi", "master_eoi", "dispatch", "timer_callback", "sti", "iret"}
      BY <1>4
    <2> QED
      BY <1>1, <2>1, GotoFacts
  <1>6. pic \in [Chips -> Chip] /\ Service /\ Handling
    BY Types DEF IInv
  <1>7. /\ TableTypes' /\ Installed' /\ Booted' /\ PitTypes' /\ Loading' /\ RtcTypes'
        /\ FlagTypes'
    BY <1>1, KeptByHandler
  <1>8. CpuTypes'
    BY <1>1, <1>5, TypeGroups DEF IInv, CpuTypes
  <1>9. Handling'
    BY <1>1, <1>3, <1>4, <1>5, <1>6 DEF Handling, HandlerAt
  <1>10. Service'
    BY <1>1, <1>3, <1>4, <1>5, <1>6 DEF Service, HandlerAt
  <1>11. PicTypes' /\ Raised' /\ Remapped'
    BY <1>1, <1>6 DEF IInv, Raised, Remapped, PicTypes
  <1>12. TimerTypes' /\ Sleeping'
    BY <1>1, TypeGroups DEF IInv, TimerTypes, Sleeping, timer, Unrested
  <1>13. Counting'
    <2>1. /\ pc' = pc /\ pic' = pic /\ rested' = rested /\ lag' = lag
      BY <1>1 DEF timer
    <2>2. pc > 36 => (Ticking <=> frame[1].vec = 32) /\ (Ticking' <=> frame[1].vec = 32)
      BY <1>1, <1>3, <1>4, <1>5 DEF Ticking, HandlerAt
    <2>3. Counting
      BY DEF IInv
    <2> QED
      BY <1>3, <1>4, <1>5, <2>1, <2>2, <2>3 DEF Counting, Pending, HandlerAt
  <1> QED
    BY <1>7, <1>8, <1>9, <1>10, <1>11, <1>12, <1>13, TypesNext DEF IInv

LEMMA TimerCallbackStep == ASSUME IInv, TimerCallback PROVE IInv'
  <1>1. /\ UNCHANGED <<pc, tables, pit, rested, rtc, obf>>
        /\ UNCHANGED <<end, elapsed, pic>>
        /\ frame # <<>> /\ Running.at = "timer_callback" /\ Goto("sti")
        /\ tick' = (tick + 1) % TickMod /\ lag' = lag - 1
        /\ shadow' = FALSE /\ intr' = intr
    BY DEF TimerCallback, Handler, NoIf, NextTick
  <1>2. frame[1] \in Frame /\ Running = frame[1]
    BY <1>1, OneFrame
  <1>3. frame[1].at = "timer_callback"
    BY <1>1, <1>2
  <1>4. frame[1].vec = 32 /\ pc > 36
    BY <1>1, <1>3 DEF IInv, Counting, HandlerAt
  <1>5. /\ frame' \in Seq(Frame) /\ Len(frame') = 1 /\ frame' # <<>>
        /\ frame'[1].vec = frame[1].vec /\ frame'[1].at = "sti"
    BY <1>1, GotoFacts
  <1>6. /\ pc \in Nat /\ 1 <= pc /\ pc <= 51 /\ tick \in Nat /\ end \in Nat
        /\ tick < TickMod /\ lag \in Int /\ elapsed \in Nat /\ SleepTicks \in Nat
        /\ TickMod \in Nat /\ TickMod > SleepTicks + 11
    BY Numbers, Constants
  <1>7. Ticking /\ 0 \notin pic["master"].irr /\ lag = 1
    BY <1>1, <1>3, <1>4 DEF IInv, Counting, Pending, Ticking, HandlerAt
  <1>8. ~rested
    BY <1>4, <1>7 DEF IInv, Counting, Pending
  <1>9. Sleeping /\ Unrested = 1
    BY <1>8 DEF IInv, Unrested
  <1>10. pc <= 47 => tick' = tick + 1
    <2>1. pc <= 47 => tick + 1 < TickMod
      BY <1>4, <1>6, <1>7, <1>9 DEF Sleeping
    <2> QED
      BY <1>1, <1>6, <2>1
  <1>11. /\ TableTypes' /\ Installed' /\ Booted' /\ PitTypes' /\ Loading' /\ RtcTypes'
         /\ FlagTypes'
    BY <1>1, KeptByHandler
  <1>12. CpuTypes'
    BY <1>1, <1>5, TypeGroups DEF IInv, CpuTypes
  <1>13. Handling'
    BY <1>1, <1>3, <1>5 DEF IInv, Handling, HandlerAt
  <1>14. Service'
    BY <1>1, <1>3, <1>5 DEF IInv, Service, HandlerAt
  <1>15. PicTypes' /\ Raised' /\ Remapped'
    BY <1>1, Types DEF IInv, Raised, Remapped, PicTypes
  <1>16. TimerTypes'
    <2>1. tick' \in 0 .. TickMod - 1
      BY <1>1, <1>6
    <2> QED
      BY <1>1, <1>7, <2>1, TypeGroups DEF IInv, TimerTypes
  <1>17. Sleeping'
    <2>1. Unrested' = Unrested /\ pc' = pc /\ end' = end /\ elapsed' = elapsed /\ lag' = 0
      BY <1>1, <1>7 DEF Unrested
    <2> QED
      BY <1>4, <1>6, <1>7, <1>9, <1>10, <2>1 DEF Sleeping
  <1>18. Counting'
    BY <1>1, <1>5, <1>7 DEF IInv, Counting, Pending, Ticking, HandlerAt
  <1> QED
    BY <1>11, <1>12, <1>13, <1>14, <1>15, <1>16, <1>17, <1>18, TypesNext DEF IInv

LEMMA StubStiStep == ASSUME IInv, StubSti PROVE IInv'
  <1>1. /\ UNCHANGED <<pc, tables, pit, rested, rtc, obf>> /\ UNCHANGED <<pic, timer>>
        /\ frame # <<>> /\ Running.at = "sti" /\ Goto("iret")
        /\ intr' = TRUE /\ shadow' = ~intr
    BY DEF StubSti, Handler, Delayed
  <1>2. frame[1] \in Frame /\ Running = frame[1]
    BY <1>1, OneFrame
  <1>3. frame[1].at = "sti"
    BY <1>1, <1>2
  <1>4. /\ frame' \in Seq(Frame) /\ Len(frame') = 1 /\ frame' # <<>>
        /\ frame'[1].vec = frame[1].vec /\ frame'[1].at = "iret"
    BY <1>1, GotoFacts
  <1>5. ~intr /\ pc > 34
    BY <1>1, <1>3 DEF IInv, Handling, HandlerAt
  <1>6. /\ TableTypes' /\ Installed' /\ Booted' /\ PitTypes' /\ Loading' /\ RtcTypes'
        /\ FlagTypes'
    BY <1>1, KeptByHandler
  <1>7. CpuTypes'
    BY <1>1, <1>4, <1>5, TypeGroups DEF IInv, CpuTypes
  <1>8. Handling'
    <2>1. shadow' = TRUE
      BY <1>1, <1>5, Zenon
    <2> QED
      BY <1>1, <1>4, <1>5, <2>1 DEF Handling, HandlerAt
  <1>9. Service'
    BY <1>1, <1>3, <1>4 DEF IInv, Service, HandlerAt
  <1>10. PicTypes' /\ Raised' /\ Remapped'
    BY <1>1, Types DEF IInv, Raised, Remapped, PicTypes
  <1>11. TimerTypes' /\ Sleeping'
    BY <1>1, TypeGroups DEF IInv, TimerTypes, Sleeping, timer, Unrested
  <1>12. Counting'
    BY <1>1, <1>3, <1>4 DEF IInv, Counting, Pending, Ticking, HandlerAt, timer
  <1> QED
    BY <1>6, <1>7, <1>8, <1>9, <1>10, <1>11, <1>12, TypesNext DEF IInv

LEMMA IretStep == ASSUME IInv, Iret PROVE IInv'
  <1>1. /\ UNCHANGED <<pc, tables, pit, rested, rtc, obf>> /\ UNCHANGED <<pic, timer>>
        /\ frame # <<>> /\ Running.at = "iret"
        /\ frame' = SubSeq(frame, 1, Len(frame) - 1)
        /\ intr' = TRUE /\ shadow' = FALSE
    BY DEF Iret, Handler
  <1>2. frame[1] \in Frame /\ Running = frame[1] /\ Len(frame) = 1
    BY <1>1, OneFrame
  <1>3. frame[1].at = "iret"
    BY <1>1, <1>2
  <1>4. frame' = <<>>
    BY <1>1, <1>2
  <1>5. pc > 34
    BY <1>1 DEF IInv, Handling
  <1>6. /\ TableTypes' /\ Installed' /\ Booted' /\ PitTypes' /\ Loading' /\ RtcTypes'
        /\ FlagTypes'
    BY <1>1, KeptByHandler
  <1>7. CpuTypes'
    <2>1. frame' \in Seq(Frame)
      BY <1>4
    <2> QED
      BY <1>1, <2>1, TypeGroups DEF IInv, CpuTypes
  <1>8. Handling'
    <2>1. ~HandlerAt({"die"})' /\ Len(frame') = 0
      BY <1>4 DEF HandlerAt
    <2> QED
      BY <1>1, <1>4, <1>5, <2>1 DEF Handling
  <1>9. Service'
    BY <1>1, <1>3, <1>4 DEF IInv, Service, HandlerAt
  <1>10. PicTypes' /\ Raised' /\ Remapped'
    BY <1>1, Types DEF IInv, Raised, Remapped, PicTypes
  <1>11. TimerTypes' /\ Sleeping'
    BY <1>1, TypeGroups DEF IInv, TimerTypes, Sleeping, timer, Unrested
  <1>12. Counting'
    BY <1>1, <1>3, <1>4 DEF IInv, Counting, Pending, Ticking, HandlerAt, timer
  <1> QED
    BY <1>6, <1>7, <1>8, <1>9, <1>10, <1>11, <1>12, TypesNext DEF IInv

(* A chip with other requests and other inputs in service.                 *)
With(chip, irr, isr) == [chip EXCEPT !.isr = isr, !.irr = irr]

LEMMA WithFacts ==
  ASSUME NEW chip \in Chip, NEW irr \in SUBSET (0 .. 7), NEW isr \in SUBSET (0 .. 7)
  PROVE  /\ With(chip, irr, isr) \in Chip
         /\ With(chip, irr, isr).irr = irr /\ With(chip, irr, isr).isr = isr
         /\ With(chip, irr, isr).icw = chip.icw /\ With(chip, irr, isr).mask = chip.mask
         /\ With(chip, irr, isr).base = chip.base
  BY DEF With, Chip

(* The line an interrupt comes from, its vector, and what acknowledging it *)
(* makes of the 8259s.                                                     *)
LEMMA Arrival ==
  ASSUME IInv, Due
  PROVE  /\ frame = <<>> /\ pc > 34
         /\ \E l \in {0, 1, 8} :
              /\ NextLine = l /\ NextVector = 32 + l
              /\ l = 8 \/ l \in pic["master"].irr
              /\ Acknowledge \in [Chips -> Chip]
              /\ Acknowledge["master"].isr = {IF l < 8 THEN l ELSE 2}
              /\ Acknowledge["slave"].isr = IF l = 8 THEN {0} ELSE {}
              /\ Acknowledge["master"].irr = pic["master"].irr \ {l}
              /\ Acknowledge["slave"].irr = pic["slave"].irr \ (IF l = 8 THEN {0} ELSE {})
              /\ \A c \in {"master", "slave"} : /\ Acknowledge[c].icw = pic[c].icw
                                                /\ Acknowledge[c].mask = pic[c].mask
                                                /\ Acknowledge[c].base = pic[c].base
  <1> DEFINE m == pic["master"]
             s == pic["slave"]
  <1>1. intr /\ ~shadow /\ MasterInputs # {}
    BY DEF Due
  <1>2. frame = <<>> /\ pc > 34
    BY <1>1 DEF IInv, Handling, HandlerAt
  <1>3. /\ m.isr = {} /\ s.isr = {}
        /\ SlaveInputs = s.irr /\ MasterInputs = m.irr \cup IF s.irr = {} THEN {} ELSE {2}
    BY <1>2, OpenPic DEF Chips
  <1>4. /\ pic \in [Chips -> Chip] /\ m \in Chip /\ s \in Chip
        /\ m.irr \subseteq {0, 1} /\ s.irr \subseteq {0}
    BY Types DEF IInv, Raised, Chips
  <1>5. m.base = 32 /\ s.base = 40
    BY <1>2, Numbers DEF IInv, Remapped
  <1>6. MasterInputs \subseteq 0 .. 7
    BY <1>3, <1>4
  <1>7. Min(MasterInputs) \in MasterInputs /\ \A x \in MasterInputs : Min(MasterInputs) <= x
    BY <1>1, <1>6, MinFacts
  <1>8. Min({0}) = 0
    BY MinSingleton
  <1>9. CASE Min(MasterInputs) = 2
    <2>1. s.irr = {0} /\ 2 \notin m.irr /\ m.irr = {}
      BY <1>3, <1>4, <1>7, <1>9
    <2>2. FromSlave /\ Min(SlaveInputs) = 0
      BY <1>3, <1>8, <1>9, <2>1 DEF FromSlave
    <2>3. NextLine = 8 /\ NextVector = 40
      BY <1>5, <2>2 DEF NextLine, NextVector
    <2>4. Acknowledge = [pic EXCEPT !["master"] = With(m, m.irr, {2}),
                                    !["slave"] = With(s, {}, {0})]
      <3>1. Acknowledge = [pic EXCEPT !["master"].isr = @ \cup {2},
                                      !["slave"].isr = @ \cup {0},
                                      !["slave"].irr = @ \ {0}]
        BY <2>2 DEF Acknowledge
      <3>2. s.isr \cup {0} = {0} /\ s.irr \ {0} = {} /\ m.isr \cup {2} = {2}
        BY <1>3, <2>1
      <3>3. With(m, m.irr, {2}) = [m EXCEPT !.isr = m.isr \cup {2}]
        BY <1>4, <3>2 DEF With, Chip
      <3>4. With(s, {}, {0}) = [s EXCEPT !.isr = s.isr \cup {0}, !.irr = s.irr \ {0}]
        BY <3>2 DEF With
      <3> QED
        BY <1>4, <3>1, <3>3, <3>4 DEF Chips, Chip
    <2>5. /\ {2} \in SUBSET (0 .. 7) /\ {0} \in SUBSET (0 .. 7) /\ {} \in SUBSET (0 .. 7)
          /\ m.irr \in SUBSET (0 .. 7)
      BY <1>4
    <2>6. /\ Acknowledge \in [Chips -> Chip]
          /\ Acknowledge["master"] = With(m, m.irr, {2})
          /\ Acknowledge["slave"] = With(s, {}, {0})
      <3>1. With(m, m.irr, {2}) \in Chip /\ With(s, {}, {0}) \in Chip
        BY <1>4, <2>5, WithFacts
      <3> QED
        BY <1>4, <2>4, <3>1 DEF Chips
    <2>7. m.irr \ {8} = m.irr /\ s.irr \ {0} = {}
      BY <1>4, <2>1
    <2> HIDE DEF m, s
    <2>8. /\ Acknowledge["master"].isr = {2} /\ Acknowledge["master"].irr = m.irr
          /\ Acknowledge["slave"].isr = {0} /\ Acknowledge["slave"].irr = {}
          /\ Acknowledge["master"].icw = m.icw /\ Acknowledge["slave"].icw = s.icw
          /\ Acknowledge["master"].mask = m.mask /\ Acknowledge["slave"].mask = s.mask
          /\ Acknowledge["master"].base = m.base /\ Acknowledge["slave"].base = s.base
      BY <1>4, <2>5, <2>6, WithFacts
    <2> QED
      BY <1>2, <2>3, <2>6, <2>7, <2>8 DEF m, s
  <1>10. CASE Min(MasterInputs) # 2
    <2>1. PICK l \in {0, 1} : l = Min(MasterInputs) /\ l \in m.irr
      BY <1>3, <1>4, <1>7, <1>10
    <2>2. ~FromSlave
      BY <1>10 DEF FromSlave
    <2>3. NextLine = l /\ NextVector = 32 + l
      BY <1>5, <2>1, <2>2 DEF NextLine, NextVector
    <2>4. Acknowledge = [pic EXCEPT !["master"] = With(m, m.irr \ {l}, {l})]
      <3>1. Acknowledge = [pic EXCEPT !["master"].isr = @ \cup {l}, !["master"].irr = @ \ {l}]
        BY <2>1, <2>2 DEF Acknowledge
      <3>2. m.isr \cup {l} = {l}
        BY <1>3
      <3>3. With(m, m.irr \ {l}, {l}) = [m EXCEPT !.isr = m.isr \cup {l}, !.irr = m.irr \ {l}]
        BY <3>2 DEF With
      <3> QED
        BY <1>4, <3>1, <3>3 DEF Chips, Chip
    <2>5. {l} \in SUBSET (0 .. 7) /\ m.irr \ {l} \in SUBSET (0 .. 7)
      BY <1>4
    <2>6. /\ Acknowledge \in [Chips -> Chip]
          /\ Acknowledge["master"] = With(m, m.irr \ {l}, {l})
          /\ Acknowledge["slave"] = s
      <3>1. With(m, m.irr \ {l}, {l}) \in Chip
        BY <1>4, <2>5, WithFacts
      <3> QED
        BY <1>4, <2>4, <3>1 DEF Chips
    <2> HIDE DEF m, s
    <2>7. /\ Acknowledge["master"].isr = {l} /\ Acknowledge["master"].irr = m.irr \ {l}
          /\ Acknowledge["slave"].isr = {} /\ Acknowledge["slave"].irr = s.irr
          /\ Acknowledge["master"].icw = m.icw /\ Acknowledge["slave"].icw = s.icw
          /\ Acknowledge["master"].mask = m.mask /\ Acknowledge["slave"].mask = s.mask
          /\ Acknowledge["master"].base = m.base /\ Acknowledge["slave"].base = s.base
      BY <1>3, <1>4, <2>5, <2>6, WithFacts
    <2>8. l \in {0, 1, 8} /\ l # 8 /\ l < 8
      BY <2>1
    <2> QED
      BY <1>2, <2>1, <2>3, <2>6, <2>7, <2>8 DEF m, s
  <1> QED
    BY <1>9, <1>10

LEMMA InterruptStep == ASSUME IInv, Interrupt PROVE IInv'
  <1>1. /\ UNCHANGED <<pc, shadow, tables, pit, rested, timer, rtc, obf>>
        /\ Due /\ pic' = Acknowledge /\ intr' = FALSE
    BY DEF Interrupt
  <1>2. frame = <<>> /\ pc > 34 /\ ~shadow
    BY <1>1, Arrival DEF Due
  <1>3. PICK l \in {0, 1, 8} :
          /\ NextLine = l /\ NextVector = 32 + l
          /\ l = 8 \/ l \in pic["master"].irr
          /\ pic' \in [Chips -> Chip]
          /\ pic'["master"].isr = {IF l < 8 THEN l ELSE 2}
          /\ pic'["slave"].isr = IF l = 8 THEN {0} ELSE {}
          /\ pic'["master"].irr = pic["master"].irr \ {l}
          /\ pic'["slave"].irr = pic["slave"].irr \ (IF l = 8 THEN {0} ELSE {})
          /\ \A c \in {"master", "slave"} : /\ pic'[c].icw = pic[c].icw
                                            /\ pic'[c].mask = pic[c].mask
                                            /\ pic'[c].base = pic[c].base
    BY <1>1, Arrival
  <1>4. PICK stub \in 32 .. 47 :
          Lands(NextVector, stub) /\ frame' = Append(frame, [vec |-> stub, at |-> "slave_eoi"])
    BY DEF Interrupt
  <1>5. stub = 32 + l
    <2>1. <<32 + l, stub>> \in Leads
      BY <1>3, <1>4 DEF Lands
    <2>2. 32 + l \in 0 .. 47 /\ stub \in 0 .. 47
      BY <1>3, <1>4
    <2> QED
      BY <2>1, <2>2, LeadsToItself
  <1>6. /\ frame' \in Seq(Frame) /\ Len(frame') = 1 /\ frame' # <<>>
        /\ frame'[1].vec = 32 + l /\ frame'[1].at = "slave_eoi"
    <2> DEFINE f == [vec |-> 32 + l, at |-> "slave_eoi"]
    <2>1. f \in Frame /\ f.vec = 32 + l /\ f.at = "slave_eoi"
      BY <1>3 DEF Frame, IrqFrame
    <2> HIDE DEF f
    <2>2. frame' = <<f>>
      BY <1>2, <1>4, <1>5 DEF f
    <2> QED
      BY <2>1, <2>2
  <1>7. /\ TableTypes' /\ Installed' /\ Booted' /\ PitTypes' /\ Loading' /\ RtcTypes'
        /\ FlagTypes'
    BY <1>1, KeptByHandler
  <1>8. CpuTypes'
    BY <1>1, <1>6, TypeGroups DEF IInv, CpuTypes
  <1>9. Handling'
    BY <1>1, <1>2, <1>6 DEF Handling, HandlerAt
  <1>10. Service'
    <2>1. HandlerAt({"slave_eoi"})' /\ HandlerAt({"slave_eoi", "master_eoi"})'
      BY <1>6 DEF HandlerAt
    <2>2. CASE l = 8
      <3>1. frame'[1].vec = 40
        BY <1>6, <2>2
      <3>2. pic'["slave"].isr = {0} /\ pic'["master"].isr = {2}
        BY <1>3, <2>2
      <3> QED
        BY <2>1, <3>1, <3>2 DEF Service
    <2>3. CASE l \in {0, 1}
      <3>1. frame'[1].vec = 32 + l /\ frame'[1].vec < 40
        BY <1>6, <2>3
      <3>2. pic'["slave"].isr = {} /\ pic'["master"].isr = {l}
        BY <1>3, <2>3
      <3>3. frame'[1].vec - 32 = l /\ ~(frame'[1].vec >= 40)
        BY <2>3, <3>1
      <3> QED
        BY <2>1, <3>1, <3>2, <3>3 DEF Service
    <2> QED
      BY <2>2, <2>3
  <1>11. PicTypes' /\ Raised' /\ Remapped'
    <2>1. Raised /\ Remapped
      BY DEF IInv
    <2> QED
      BY <1>1, <1>3, <2>1 DEF Raised, Remapped, PicTypes
  <1>12. TimerTypes' /\ Sleeping'
    BY <1>1, TypeGroups DEF IInv, TimerTypes, Sleeping, timer, Unrested
  <1>13. Counting'
    <2>1. pc' = pc /\ lag' = lag /\ rested' = rested
      BY <1>1 DEF timer
    <2>2. Ticking' <=> l = 0
      BY <1>6 DEF Ticking, HandlerAt
    <2>3. Pending <=> 0 \in pic["master"].irr
      BY <1>2 DEF Pending, Ticking, HandlerAt
    <2>4. Counting
      BY DEF IInv
    <2> QED
      BY <1>2, <1>3, <1>6, <2>1, <2>2, <2>3, <2>4 DEF Counting, Pending, HandlerAt
  <1> QED
    BY <1>7, <1>8, <1>9, <1>10, <1>11, <1>12, <1>13, TypesNext DEF IInv

-----------------------------------------------------------------------------
(* A page fault and what comes after it.                                   *)

LEMMA WildPlaces == ASSUME IInv, Now.op \in Wild PROVE pc \in {49, 50}
  BY Numbers, Positions DEF Wild

LEMMA PageFaultStep == ASSUME IInv, PageFault PROVE IInv'
  <1>1. /\ UNCHANGED <<pc, shadow, tables, pic, pit, timer, rtc, obf>>
        /\ Now.op \in Wild /\ frame = <<>> /\ ~Due
        /\ frame' = <<[vec |-> 14, at |-> "die"]>>
        /\ intr' = FALSE /\ rested' = TRUE
    BY DEF PageFault
  <1>2. pc \in {49, 50}
    BY <1>1, WildPlaces
  <1>3. lag = 0 /\ ~shadow
    BY <1>1, <1>2, Undisturbed DEF IInv, Handling
  <1>4. frame' \in Seq(Frame) /\ Len(frame') = 1 /\ frame' # <<>> /\ frame'[1].at = "die"
    <2>1. [vec |-> 14, at |-> "die"] \in Frame
      BY DEF Frame, FaultFrame
    <2> QED
      BY <1>1, <2>1
  <1>5. \A places : HandlerAt(places)' <=> "die" \in places
    BY <1>4 DEF HandlerAt
  <1>6. TableTypes' /\ Installed' /\ Booted' /\ PitTypes' /\ Loading' /\ RtcTypes'
    BY <1>1, KeptTables, KeptPit, KeptRtc
  <1>7. FlagTypes'
    BY <1>1, TypeGroups DEF IInv, FlagTypes
  <1>8. CpuTypes'
    BY <1>1, <1>4, TypeGroups DEF IInv, CpuTypes
  <1>9. Handling'
    <2>1. shadow' = shadow /\ pc' = pc
      BY <1>1
    <2>2. ~HandlerAt({"iret"})'
      BY <1>5
    <2> QED
      BY <1>1, <1>2, <1>3, <1>4, <2>1, <2>2 DEF Handling
  <1>10. Service'
    <2>1. ~HandlerAt({"slave_eoi"})' /\ ~HandlerAt({"slave_eoi", "master_eoi"})'
      BY <1>5
    <2>2. pic' = pic /\ pic["master"].isr = {} /\ pic["slave"].isr = {}
      BY <1>1, Undisturbed
    <2> QED
      BY <2>1, <2>2 DEF Service
  <1>11. PicTypes' /\ Raised' /\ Remapped'
    BY <1>1, Types DEF IInv, Raised, Remapped, PicTypes
  <1>12. tick' = tick /\ end' = end /\ lag' = lag /\ elapsed' = elapsed
    BY <1>1 DEF timer
  <1>13. TimerTypes' /\ Sleeping'
    BY <1>1, <1>2, <1>12, TypeGroups DEF IInv, TimerTypes, Sleeping
  <1>14. Counting'
    <2>1. ~HandlerAt({"timer_callback"})' /\ HandlerAt({"die"})' /\ ~Ticking'
      BY <1>5 DEF Ticking
    <2> QED
      BY <1>3, <1>12, <2>1 DEF Counting
  <1> QED
    BY <1>6, <1>7, <1>8, <1>9, <1>10, <1>11, <1>13, <1>14, TypesNext DEF IInv

LEMMA HaltStep == ASSUME IInv, Halt PROVE IInv'
  <1>1. /\ UNCHANGED <<cpu, tables, pic, pit, timer, rtc, obf>>
        /\ HandlerAt({"die"}) /\ rested' = TRUE
    BY HaltedFacts DEF Halt
  <1>2. pc' = pc /\ frame' = frame
    BY <1>1 DEF cpu
  <1>3. pc \in {49, 50}
    BY <1>1 DEF IInv, Handling
  <1>4. CpuTypes' /\ Handling'
    BY <1>1, KeptCpu
  <1>5. TableTypes' /\ Installed' /\ Booted' /\ PitTypes' /\ Loading' /\ RtcTypes'
    BY <1>1, <1>2, KeptTables, KeptPit, KeptRtc
  <1>6. PicTypes' /\ Service' /\ Raised' /\ Remapped'
    BY <1>1, <1>2, KeptPic
  <1>7. FlagTypes'
    BY <1>1, TypeGroups DEF IInv, FlagTypes
  <1>8. tick' = tick /\ end' = end /\ lag' = lag /\ elapsed' = elapsed
    BY <1>1 DEF timer
  <1>9. TimerTypes' /\ Sleeping'
    BY <1>2, <1>3, <1>8, TypeGroups DEF IInv, TimerTypes, Sleeping
  <1>10. Counting'
    BY <1>1, <1>2, <1>8 DEF IInv, Counting, Pending, Ticking, HandlerAt
  <1> QED
    BY <1>4, <1>5, <1>6, <1>7, <1>9, <1>10, TypesNext DEF IInv

-----------------------------------------------------------------------------
(* The steps of the thread: what most of them leave alone.                 *)

(* The thread executes an operation and goes on to the next one.           *)
Execute ==
  /\ frame = <<>> /\ frame' = frame /\ ~Due
  /\ rested' = TRUE /\ obf' = obf
Advance == Execute /\ pc' = pc + 1 /\ shadow' = FALSE /\ intr' = intr

LEMMA AdvanceCpu ==
  ASSUME IInv, Advance, pc < 51, pc # 34
  PROVE  CpuTypes' /\ Handling' /\ FlagTypes'
  <1>1. pc \in Nat /\ 1 <= pc
    BY Numbers
  <1>2. CpuTypes /\ Handling /\ FlagTypes
    BY TypeGroups DEF IInv
  <1>3. CpuTypes'
    <2>1. pc' \in 1 .. Len(Program)
      BY <1>1, ProgramLength DEF Advance
    <2> QED
      BY <1>2, <2>1 DEF CpuTypes, Advance, Execute
  <1>4. Handling'
    BY <1>1, <1>2 DEF Handling, HandlerAt, Advance, Execute
  <1>5. FlagTypes'
    BY <1>2 DEF FlagTypes, Advance, Execute
  <1> QED
    BY <1>3, <1>4, <1>5

LEMMA AdvanceTables ==
  ASSUME IInv, pc' = pc + 1, UNCHANGED tables, pc >= 17, pc \notin {28, 29, 30, 36}
  PROVE  TableTypes' /\ Installed' /\ Booted'
  <1>1. pc \in Nat
    BY Numbers
  <1>2. TableTypes /\ Installed /\ Booted
    BY TypeGroups DEF IInv
  <1>3. /\ machine' = machine /\ idtr' = idtr /\ gate' = gate /\ handler' = handler
    BY DEF tables
  <1>4. TableTypes'
    BY <1>2, <1>3 DEF TableTypes
  <1>5. Installed'
    BY <1>1, <1>2, <1>3 DEF Installed
  <1>6. Booted'
    BY <1>1, <1>2, <1>3 DEF Booted
  <1> QED
    BY <1>4, <1>5, <1>6

LEMMA AdvancePit ==
  ASSUME IInv, pc' = pc + 1, UNCHANGED pit, pc \notin {37, 38, 39}
  PROVE  PitTypes' /\ Loading'
  <1>1. pc \in Nat
    BY Numbers
  <1>2. PitTypes /\ Loading
    BY TypeGroups DEF IInv
  <1>3. PitTypes'
    BY <1>2 DEF PitTypes
  <1>4. Loading'
    BY <1>1, <1>2 DEF Loading
  <1> QED
    BY <1>3, <1>4

LEMMA AdvancePic ==
  ASSUME IInv, Advance, pc \notin 18 .. 27, UNCHANGED pic \/ Raise(8)
  PROVE  /\ PicTypes' /\ Service' /\ Raised' /\ Remapped'
         /\ pc > 35 => 0 \notin pic'["master"].irr
  <1>1. pc \in Nat /\ frame = <<>> /\ frame' = <<>> /\ pc' = pc + 1
    BY Numbers DEF Advance, Execute
  <1>2. pic \in [Chips -> Chip] /\ Raised /\ Remapped
    BY Types DEF IInv
  <1>3. /\ pic["master"].isr = {} /\ pic["slave"].isr = {}
        /\ pc > 35 => pic["master"].irr = {} /\ pic["slave"].irr = {}
    BY Undisturbed DEF Advance, Execute
  <1>4. /\ pic' \in [Chips -> Chip]
        /\ \A c \in {"master", "slave"} :
             /\ pic'[c].isr = pic[c].isr /\ pic'[c].icw = pic[c].icw
             /\ pic'[c].mask = pic[c].mask /\ pic'[c].base = pic[c].base
        /\ pic'["master"].irr = pic["master"].irr
        /\ pic'["slave"].irr \subseteq pic["slave"].irr \cup {0}
    <2>1. CASE UNCHANGED pic
      BY <1>2, <2>1
    <2>2. CASE Raise(8)
      BY <1>2, <2>2, RaiseFacts DEF Chips
    <2> QED
      BY <2>1, <2>2
  <1>5. Service'
    BY <1>1, <1>3, <1>4 DEF Service, HandlerAt
  <1>6. Raised'
    BY <1>2, <1>4 DEF Raised
  <1>7. Remapped'
    <2>1. /\ pc' \notin 19 .. 28 /\ pc' \in Nat
          /\ pc' > 20 <=> pc > 20
          /\ pc' > 21 <=> pc > 21
          /\ pc' > 18 <=> pc > 18
          /\ pc' > 19 <=> pc > 19
      BY <1>1
    <2>2. pc \notin 19 .. 25
      BY <1>1
    <2> QED
      BY <1>2, <1>4, <2>1, <2>2 DEF Remapped
  <1> QED
    BY <1>3, <1>4, <1>5, <1>6, <1>7 DEF PicTypes

LEMMA AdvanceTimer ==
  ASSUME IInv, Advance, UNCHANGED timer, pc \notin {46, 47},
         pc > 35 => 0 \notin pic'["master"].irr
  PROVE  TimerTypes' /\ Counting' /\ Sleeping'
  <1>1. pc \in Nat /\ frame' = <<>> /\ pc' = pc + 1 /\ rested' = TRUE
    BY Numbers DEF Advance, Execute
  <1>2. tick' = tick /\ end' = end /\ lag' = lag /\ elapsed' = elapsed
    BY DEF timer
  <1>3. lag = 0
    BY Undisturbed DEF Advance, Execute
  <1>4. TimerTypes /\ Sleeping
    BY TypeGroups DEF IInv
  <1>5. TimerTypes'
    BY <1>2, <1>4 DEF TimerTypes
  <1>6. Counting'
    BY <1>1, <1>2, <1>3 DEF Counting, Pending, Ticking, HandlerAt
  <1>7. Sleeping'
    <2>1. Unrested' = 0 /\ Unrested \in {0, 1}
      BY <1>1 DEF Unrested
    <2>2. tick \in Nat
      BY Numbers
    <2> QED
      BY <1>1, <1>2, <1>3, <1>4, <2>1, <2>2 DEF Sleeping
  <1> QED
    BY <1>5, <1>6, <1>7

-----------------------------------------------------------------------------
(* The steps of the thread, one by one.                                    *)

LEMMA ElsewhereStep == ASSUME IInv, Elsewhere PROVE IInv'
  <1>1. /\ Advance /\ UNCHANGED <<tables, pic, pit, timer, rtc>>
        /\ Now.op \in {"kinit1", "terminal_initialize", "rtc_handler",
                       "rtc_print_struct", "paging_install", "call"}
    BY DEF Elsewhere, Thread, GoOn, NoIf, Advance, Execute
  <1>2. pc \in {32, 33, 35, 48, 49, 50}
    BY <1>1, Numbers, Positions
  <1>3. CpuTypes' /\ Handling' /\ FlagTypes'
    BY <1>1, <1>2, AdvanceCpu
  <1>4. TableTypes' /\ Installed' /\ Booted'
    BY <1>1, <1>2, AdvanceTables DEF Advance
  <1>5. PitTypes' /\ Loading'
    BY <1>1, <1>2, AdvancePit DEF Advance
  <1>6. /\ PicTypes' /\ Service' /\ Raised' /\ Remapped'
        /\ pc > 35 => 0 \notin pic'["master"].irr
    BY <1>1, <1>2, AdvancePic
  <1>7. TimerTypes' /\ Counting' /\ Sleeping'
    BY <1>1, <1>2, <1>6, AdvanceTimer
  <1>8. RtcTypes'
    BY <1>1, KeptRtc
  <1> QED
    BY <1>3, <1>4, <1>5, <1>6, <1>7, <1>8, TypesNext DEF IInv

LEMMA TablesStep == ASSUME IInv, Tables PROVE IInv'
  <1>1. /\ Advance /\ UNCHANGED <<machine, pic, pit, timer, rtc>>
        /\ Now.op \in {"clear_id", "isr_gates", "irq_gates", "lidt", "clear_handlers"}
    BY DEF Tables, Table, Thread, GoOn, NoIf, Advance, Execute
  <1>2. pc \in {17, 28, 29, 30, 31}
    BY <1>1, Numbers, Positions
  <1>3. \/ pc = 17 /\ idtr' = idtr /\ gate' = {} /\ handler' = handler
        \/ pc = 28 /\ idtr' = idtr /\ gate' = gate \cup 0 .. 31 /\ handler' = handler
        \/ pc = 29 /\ idtr' = idtr /\ gate' = gate \cup set_irq /\ handler' = handler
        \/ pc = 30 /\ idtr' = TRUE /\ gate' = gate /\ handler' = handler
        \/ pc = 31 /\ idtr' = idtr /\ gate' = gate /\ handler' = NoHandlers
    <2>1. \/ /\ Now.op = "clear_id"
             /\ idtr' = idtr /\ gate' = {} /\ handler' = handler
          \/ /\ Now.op = "isr_gates"
             /\ idtr' = idtr /\ gate' = gate \cup 0 .. 31 /\ handler' = handler
          \/ /\ Now.op = "irq_gates"
             /\ idtr' = idtr /\ gate' = gate \cup set_irq /\ handler' = handler
          \/ /\ Now.op = "lidt"
             /\ idtr' = TRUE /\ gate' = gate /\ handler' = handler
          \/ /\ Now.op = "clear_handlers"
             /\ idtr' = idtr /\ gate' = gate /\ handler' = NoHandlers
      BY DEF Tables, Table, Thread
    <2>2. /\ Now.op = "clear_id" => pc = 17
          /\ Now.op = "isr_gates" => pc = 28
          /\ Now.op = "irq_gates" => pc = 29
          /\ Now.op = "lidt" => pc = 30
          /\ Now.op = "clear_handlers" => pc = 31
      BY Numbers, Positions
    <2> QED
      BY <2>1, <2>2
  <1>4. CpuTypes' /\ Handling' /\ FlagTypes'
    BY <1>1, <1>2, AdvanceCpu
  <1>5. TableTypes /\ Installed /\ Booted /\ pc' = pc + 1 /\ machine' = machine
    BY <1>1, TypeGroups DEF IInv, Advance
  <1>6. TableTypes'
    <2>1. gate' \subseteq 0 .. 47
      <3> DEFINE low == 0 .. 31
                 all == 0 .. 47
      <3>1. gate \subseteq all /\ low \subseteq all /\ set_irq \subseteq all
        BY <1>5 DEF TableTypes, set_irq
      <3>2. gate' \in {{}, gate, gate \cup low, gate \cup set_irq}
        BY <1>3
      <3> HIDE DEF low, all
      <3>3. gate' \subseteq all
        BY <3>1, <3>2
      <3> QED
        BY <3>3 DEF all
    <2>2. handler' \in [32 .. 47 -> {"none", "timer_callback"}]
      BY <1>3, <1>5 DEF TableTypes, NoHandlers
    <2>3. idtr' \in BOOLEAN
      BY <1>3, <1>5 DEF TableTypes
    <2> QED
      BY <1>5, <2>1, <2>2, <2>3 DEF TableTypes
  <1>7. Installed'
    BY <1>2, <1>3, <1>5 DEF Installed, set_irq, NoHandlers
  <1>8. Booted'
    BY <1>2, <1>5 DEF Booted
  <1>9. PitTypes' /\ Loading'
    BY <1>1, <1>2, AdvancePit DEF Advance
  <1>10. /\ PicTypes' /\ Service' /\ Raised' /\ Remapped'
         /\ pc > 35 => 0 \notin pic'["master"].irr
    BY <1>1, <1>2, AdvancePic
  <1>11. TimerTypes' /\ Counting' /\ Sleeping'
    BY <1>1, <1>2, <1>10, AdvanceTimer
  <1>12. RtcTypes'
    BY <1>1, KeptRtc
  <1> QED
    BY <1>4, <1>6, <1>7, <1>8, <1>9, <1>10, <1>11, <1>12, TypesNext DEF IInv

LEMMA RegisterTimerStep == ASSUME IInv, RegisterTimer PROVE IInv'
  <1>1. /\ Advance /\ UNCHANGED <<machine, idtr, gate, pic, pit, timer, rtc>>
        /\ Now.op = "register_timer"
        /\ handler' = [handler EXCEPT ![32] = "timer_callback"]
    BY DEF RegisterTimer, Thread, GoOn, NoIf, Advance, Execute
  <1>2. pc = 36
    BY <1>1, Numbers, Positions
  <1>3. CpuTypes' /\ Handling' /\ FlagTypes'
    BY <1>1, <1>2, AdvanceCpu
  <1>4. TableTypes /\ Installed /\ Booted /\ pc' = 37
    BY <1>1, <1>2, TypeGroups DEF IInv, Advance
  <1>5. handler \in [32 .. 47 -> {"none", "timer_callback"}]
    BY <1>4 DEF TableTypes
  <1>6. /\ handler' \in [32 .. 47 -> {"none", "timer_callback"}]
        /\ handler'[32] = "timer_callback" /\ \A v \in 33 .. 47 : handler'[v] = handler[v]
    BY <1>1, <1>5
  <1>7. TableTypes'
    BY <1>1, <1>4, <1>6 DEF TableTypes
  <1>8. Installed'
    BY <1>1, <1>2, <1>4, <1>6 DEF Installed
  <1>9. Booted'
    BY <1>1, <1>2, <1>4 DEF Booted
  <1>10. PitTypes' /\ Loading'
    BY <1>1, <1>2, AdvancePit DEF Advance
  <1>11. /\ PicTypes' /\ Service' /\ Raised' /\ Remapped'
         /\ pc > 35 => 0 \notin pic'["master"].irr
    BY <1>1, <1>2, AdvancePic
  <1>12. TimerTypes' /\ Counting' /\ Sleeping'
    BY <1>1, <1>2, <1>11, AdvanceTimer
  <1>13. RtcTypes'
    BY <1>1, KeptRtc
  <1> QED
    BY <1>3, <1>7, <1>8, <1>9, <1>10, <1>11, <1>12, <1>13, TypesNext DEF IInv

LEMMA StiStep == ASSUME IInv, Sti PROVE IInv'
  <1>1. /\ Execute /\ UNCHANGED <<tables, pic, pit, timer, rtc>>
        /\ Now.op = "sti" /\ pc' = pc + 1 /\ intr' = TRUE /\ shadow' = ~intr
    BY DEF Sti, Thread, GoOn, Execute
  <1>2. pc = 34 /\ pc' = 35 /\ frame = <<>> /\ frame' = <<>> /\ rested' = TRUE
    <2>1. pc = 34
      BY <1>1, Numbers, Positions
    <2> QED
      BY <1>1, <2>1 DEF Execute
  <1>3. shadow' \in BOOLEAN
    BY <1>1
  <1>4. CpuTypes' /\ FlagTypes'
    BY <1>1, <1>2, <1>3, ProgramLength, TypeGroups DEF IInv, CpuTypes, FlagTypes, Execute
  <1>5. Handling'
    BY <1>1, <1>2 DEF Handling, HandlerAt
  <1>6. TableTypes' /\ Installed' /\ Booted'
    BY <1>1, <1>2, AdvanceTables
  <1>7. PitTypes' /\ Loading'
    BY <1>1, <1>2, AdvancePit
  <1>8. PicTypes' /\ Service' /\ Raised' /\ Remapped'
    BY <1>1, <1>2, Types DEF IInv, PicTypes, Service, HandlerAt, Raised, Remapped
  <1>9. TimerTypes' /\ Counting' /\ Sleeping'
    BY <1>1, <1>2, TypeGroups DEF IInv, TimerTypes, Counting, Sleeping, HandlerAt, timer
  <1>10. RtcTypes'
    BY <1>1, KeptRtc
  <1> QED
    BY <1>4, <1>5, <1>6, <1>7, <1>8, <1>9, <1>10, TypesNext DEF IInv

(* A byte that irq_remap writes is at the place the chips have reached.    *)
LEMMA OutPicStep == ASSUME IInv, OutPic PROVE IInv'
  <1>1. /\ Advance /\ UNCHANGED <<tables, pit, timer, rtc>>
        /\ Now.op = "outb" /\ Now.port \in {32, 33, 160, 161}
        /\ pic' = PicWrite(Now.port, Now.v)
    BY DEF OutPic, Thread, GoOn, NoIf, Advance, Execute
  <1>2. /\ pc \in 18 .. 27
        /\ Now.v = CASE pc \in {18, 19} -> 17 [] pc = 20 -> 32 [] pc = 21 -> 40
                     [] pc = 22 -> 4 [] pc = 23 -> 2 [] pc \in {24, 25} -> 1
                     [] OTHER -> 0
        /\ Now.port = CASE pc = 18 -> 32 [] pc = 19 -> 160
                        [] pc \in {20, 22, 24, 26} -> 33 [] OTHER -> 161
    <2>1. pc \in (18 .. 27) \cup (37 .. 40) \cup {42, 44}
      BY <1>1, Numbers, Positions
    <2>2. pc \in 18 .. 27
      BY <1>1, <2>1, ProgramText DEF Now
    <2> QED
      BY <2>2, ProgramText DEF Now
  <1> DEFINE m == pic["master"]
             s == pic["slave"]
  <1>3. /\ pic \in [Chips -> Chip] /\ m \in Chip /\ s \in Chip
        /\ m.isr = {} /\ s.isr = {} /\ Raised /\ Remapped
        /\ frame = <<>> /\ frame' = <<>> /\ pc' = pc + 1
    BY <1>1, Undisturbed, Types DEF IInv, Chips, Advance, Execute
  <1>4. /\ pic' \in [Chips -> Chip]
        /\ pic'["master"].isr = {} /\ pic'["slave"].isr = {}
        /\ Raised' /\ Remapped'
    <2>1. CASE pc = 18
      <3>1. pic' = [pic EXCEPT !["master"] = Command(m, 17)]
        BY <1>1, <1>2, <2>1 DEF PicWrite
      <3>2. Command(m, 17) = [m EXCEPT !.icw = 2, !.mask = {}, !.irr = {}, !.isr = {}]
        BY CommandBits DEF Command
      <3>3. /\ pic' \in [Chips -> Chip] /\ pic'["slave"] = s
            /\ pic'["master"].icw = 2 /\ pic'["master"].base = m.base
            /\ pic'["master"].mask = {} /\ pic'["master"].irr = {}
            /\ pic'["master"].isr = {}
        BY <1>3, <3>1, <3>2 DEF Chips, Chip
      <3> QED
        BY <1>3, <2>1, <3>3 DEF Raised, Remapped
    <2>2. CASE pc = 19
      <3>1. pic' = [pic EXCEPT !["slave"] = Command(s, 17)]
        BY <1>1, <1>2, <2>2 DEF PicWrite
      <3>2. Command(s, 17) = [s EXCEPT !.icw = 2, !.mask = {}, !.irr = {}, !.isr = {}]
        BY CommandBits DEF Command
      <3>3. /\ pic' \in [Chips -> Chip] /\ pic'["master"] = m
            /\ pic'["slave"].icw = 2 /\ pic'["slave"].base = s.base
            /\ pic'["slave"].mask = {} /\ pic'["slave"].irr = {}
            /\ pic'["slave"].isr = {}
        BY <1>3, <3>1, <3>2 DEF Chips, Chip
      <3> QED
        BY <1>3, <2>2, <3>3 DEF Raised, Remapped
    <2>3. CASE pc = 20
      <3>1. pic' = [pic EXCEPT !["master"] = Data(m, 32)]
        BY <1>1, <1>2, <2>3 DEF PicWrite
      <3>2. Data(m, 32) = [m EXCEPT !.icw = 3, !.base = 32]
        BY <1>3, <2>3 DEF Data, Remapped
      <3>3. /\ pic' \in [Chips -> Chip] /\ pic'["slave"] = s
            /\ pic'["master"].icw = 3 /\ pic'["master"].base = 32
            /\ pic'["master"].mask = m.mask /\ pic'["master"].irr = m.irr
            /\ pic'["master"].isr = m.isr
        <4> DEFINE n == [m EXCEPT !.icw = 3, !.base = 32]
        <4>1. n \in Chip
          BY <1>3 DEF Chip
        <4>2. /\ n.icw = 3 /\ n.base = 32
              /\ n.mask = m.mask /\ n.irr = m.irr /\ n.isr = m.isr
          BY <1>3 DEF Chip
        <4>3. pic' = [pic EXCEPT !["master"] = n]
          BY <3>1, <3>2
        <4> HIDE DEF n
        <4> QED
          BY <1>3, <4>1, <4>2, <4>3 DEF Chips
      <3> QED
        BY <1>3, <2>3, <3>3 DEF Raised, Remapped
    <2>4. CASE pc = 21
      <3>1. pic' = [pic EXCEPT !["slave"] = Data(s, 40)]
        BY <1>1, <1>2, <2>4 DEF PicWrite
      <3>2. Data(s, 40) = [s EXCEPT !.icw = 3, !.base = 40]
        BY <1>3, <2>4 DEF Data, Remapped
      <3>3. /\ pic' \in [Chips -> Chip] /\ pic'["master"] = m
            /\ pic'["slave"].icw = 3 /\ pic'["slave"].base = 40
            /\ pic'["slave"].mask = s.mask /\ pic'["slave"].irr = s.irr
            /\ pic'["slave"].isr = s.isr
        <4> DEFINE n == [s EXCEPT !.icw = 3, !.base = 40]
        <4>1. n \in Chip
          BY <1>3 DEF Chip
        <4>2. /\ n.icw = 3 /\ n.base = 40
              /\ n.mask = s.mask /\ n.irr = s.irr /\ n.isr = s.isr
          BY <1>3 DEF Chip
        <4>3. pic' = [pic EXCEPT !["slave"] = n]
          BY <3>1, <3>2
        <4> HIDE DEF n
        <4> QED
          BY <1>3, <4>1, <4>2, <4>3 DEF Chips
      <3> QED
        BY <1>3, <2>4, <3>3 DEF Raised, Remapped
    <2>5. CASE pc = 22
      <3>1. pic' = [pic EXCEPT !["master"] = Data(m, 4)]
        BY <1>1, <1>2, <2>5 DEF PicWrite
      <3>2. Data(m, 4) = [m EXCEPT !.icw = 4]
        BY <1>3, <2>5 DEF Data, Remapped
      <3> QED
        BY <1>3, <2>5, <3>1, <3>2 DEF Chips, Chip, Raised, Remapped
    <2>6. CASE pc = 23
      <3>1. pic' = [pic EXCEPT !["slave"] = Data(s, 2)]
        BY <1>1, <1>2, <2>6 DEF PicWrite
      <3>2. Data(s, 2) = [s EXCEPT !.icw = 4]
        BY <1>3, <2>6 DEF Data, Remapped
      <3> QED
        BY <1>3, <2>6, <3>1, <3>2 DEF Chips, Chip, Raised, Remapped
    <2>7. CASE pc = 24
      <3>1. pic' = [pic EXCEPT !["master"] = Data(m, 1)]
        BY <1>1, <1>2, <2>7 DEF PicWrite
      <3>2. Data(m, 1) = [m EXCEPT !.icw = 0]
        BY <1>3, <2>7 DEF Data, Remapped
      <3> QED
        BY <1>3, <2>7, <3>1, <3>2 DEF Chips, Chip, Raised, Remapped
    <2>8. CASE pc = 25
      <3>1. pic' = [pic EXCEPT !["slave"] = Data(s, 1)]
        BY <1>1, <1>2, <2>8 DEF PicWrite
      <3>2. Data(s, 1) = [s EXCEPT !.icw = 0]
        BY <1>3, <2>8 DEF Data, Remapped
      <3> QED
        BY <1>3, <2>8, <3>1, <3>2 DEF Chips, Chip, Raised, Remapped
    <2>9. CASE pc = 26
      <3>1. pic' = [pic EXCEPT !["master"] = Data(m, 0)]
        BY <1>1, <1>2, <2>9 DEF PicWrite
      <3>2. Data(m, 0) = [m EXCEPT !.mask = {}]
        <4>1. m.icw = 0
          BY <1>3, <2>9 DEF Remapped
        <4> QED
          BY <4>1, CommandBits DEF Data
      <3> QED
        BY <1>3, <2>9, <3>1, <3>2 DEF Chips, Chip, Raised, Remapped
    <2>10. CASE pc = 27
      <3>1. pic' = [pic EXCEPT !["slave"] = Data(s, 0)]
        BY <1>1, <1>2, <2>10 DEF PicWrite
      <3>2. Data(s, 0) = [s EXCEPT !.mask = {}]
        <4>1. s.icw = 0
          BY <1>3, <2>10 DEF Remapped
        <4> QED
          BY <4>1, CommandBits DEF Data
      <3> QED
        BY <1>3, <2>10, <3>1, <3>2 DEF Chips, Chip, Raised, Remapped
    <2> QED
      BY <1>2, <2>1, <2>2, <2>3, <2>4, <2>5, <2>6, <2>7, <2>8, <2>9, <2>10
  <1>5. Service'
    BY <1>3, <1>4 DEF Service, HandlerAt
  <1>6. CpuTypes' /\ Handling' /\ FlagTypes'
    BY <1>1, <1>2, AdvanceCpu
  <1>7. TableTypes' /\ Installed' /\ Booted'
    BY <1>1, <1>2, AdvanceTables DEF Advance
  <1>8. PitTypes' /\ Loading'
    BY <1>1, <1>2, AdvancePit DEF Advance
  <1>9. TimerTypes' /\ Counting' /\ Sleeping'
    BY <1>1, <1>2, AdvanceTimer
  <1>10. RtcTypes'
    BY <1>1, KeptRtc
  <1> QED
    BY <1>4, <1>5, <1>6, <1>7, <1>8, <1>9, <1>10, TypesNext DEF IInv, PicTypes

LEMMA OutPitStep == ASSUME IInv, OutPit PROVE IInv'
  <1>1. /\ Advance /\ UNCHANGED <<tables, pic, timer, rtc>>
        /\ Now.op = "outb" /\ Now.port = 64
        /\ pit' = PitWrite(Now.v)
    BY DEF OutPit, Thread, GoOn, NoIf, Advance, Execute
  <1>2. /\ pc \in {37, 38, 39}
        /\ Now.v = CASE pc = 37 -> 54 [] pc = 38 -> 169 [] OTHER -> 4
    <2>1. pc \in (18 .. 27) \cup (37 .. 40) \cup {42, 44}
      BY <1>1, Numbers, Positions
    <2>2. pc \in {37, 38, 39}
      BY <1>1, <2>1, ProgramText DEF Now
    <2> QED
      BY <2>2, ProgramText DEF Now
  <1>3. PitTypes /\ Loading /\ pc' = pc + 1
    BY <1>1, TypeGroups DEF IInv, Advance
  <1>4. PitTypes' /\ Loading'
    <2>1. {54, 169, 4, 0} \subseteq Byte
      BY DEF Byte
    <2>2. 54 + 256 * 169 \in Reload
      BY DEF Reload
    <2>3. pit \in [reload : Reload, half : BOOLEAN, low : Byte]
      BY <1>3 DEF PitTypes
    <2>4. CASE pc \in {37, 39}
      <3>1. ~pit.half
        BY <1>3, <2>4 DEF Loading
      <3>2. pit' = [pit EXCEPT !.half = TRUE, !.low = Now.v]
        BY <1>1, <3>1 DEF PitWrite
      <3>3. Now.v \in Byte /\ (pc = 37 => Now.v = 54)
        BY <1>2, <2>1, <2>4
      <3>4. /\ pit' \in [reload : Reload, half : BOOLEAN, low : Byte]
            /\ pit'.reload = pit.reload /\ pit'.half = TRUE /\ pit'.low = Now.v
        BY <2>3, <3>2, <3>3
      <3> QED
        BY <1>3, <2>4, <3>3, <3>4 DEF PitTypes, Loading
    <2>5. CASE pc = 38
      <3>1. pit.half /\ pit.low = 54 /\ Now.v = 169
        BY <1>2, <1>3, <2>5 DEF Loading
      <3>2. pit' = [reload |-> 54 + 256 * 169, half |-> FALSE, low |-> 0]
        BY <1>1, <3>1 DEF PitWrite
      <3> QED
        BY <1>3, <2>1, <2>2, <2>5, <3>2 DEF PitTypes, Loading
    <2> QED
      BY <1>2, <2>4, <2>5
  <1>5. CpuTypes' /\ Handling' /\ FlagTypes'
    BY <1>1, <1>2, AdvanceCpu
  <1>6. TableTypes' /\ Installed' /\ Booted'
    BY <1>1, <1>2, AdvanceTables DEF Advance
  <1>7. /\ PicTypes' /\ Service' /\ Raised' /\ Remapped'
        /\ pc > 35 => 0 \notin pic'["master"].irr
    BY <1>1, <1>2, AdvancePic
  <1>8. TimerTypes' /\ Counting' /\ Sleeping'
    BY <1>1, <1>2, <1>7, AdvanceTimer
  <1>9. RtcTypes'
    BY <1>1, KeptRtc
  <1> QED
    BY <1>4, <1>5, <1>6, <1>7, <1>8, <1>9, TypesNext DEF IInv

(* The four operations on the registers of the RTC.                        *)
Registers == OutCmos \/ ReadStatus \/ WriteStatus \/ ReadC

LEMMA RegistersStep == ASSUME IInv, Registers PROVE IInv'
  <1>1. /\ Advance /\ UNCHANGED <<tables, pit, timer>>
        /\ UNCHANGED pic \/ Raise(8)
        /\ \/ Now.op = "outb" /\ Now.port = 112
           \/ Now.op \in {"read_status", "write_status", "read_C"}
    BY DEF Registers, OutCmos, ReadStatus, WriteStatus, ReadC, Thread, GoOn, NoIf,
           Advance, Execute
  <1>2. pc \in {40, 41, 42, 43, 44, 45}
    <2>1. CASE Now.op = "outb" /\ Now.port = 112
      <3>1. pc \in (18 .. 27) \cup (37 .. 40) \cup {42, 44}
        BY <2>1, Numbers, Positions
      <3> QED
        BY <2>1, <3>1, ProgramText DEF Now
    <2>2. CASE Now.op \in {"read_status", "write_status", "read_C"}
      BY <2>2, Numbers, Positions
    <2> QED
      BY <1>1, <2>1, <2>2
  <1>3. CpuTypes' /\ Handling' /\ FlagTypes'
    BY <1>1, <1>2, AdvanceCpu
  <1>4. TableTypes' /\ Installed' /\ Booted'
    BY <1>1, <1>2, AdvanceTables DEF Advance
  <1>5. PitTypes' /\ Loading'
    BY <1>1, <1>2, AdvancePit DEF Advance
  <1>6. /\ PicTypes' /\ Service' /\ Raised' /\ Remapped'
        /\ pc > 35 => 0 \notin pic'["master"].irr
    BY <1>1, <1>2, AdvancePic
  <1>7. TimerTypes' /\ Counting' /\ Sleeping'
    BY <1>1, <1>2, <1>6, AdvanceTimer
  <1>8. RtcTypes
    BY TypeGroups DEF IInv
  <1>9. RtcTypes'
    <2>1. CASE OutCmos
      <3>1. Now.op = "outb"
        BY <2>1 DEF OutCmos, Thread
      <3>2. pc \in {40, 42, 44}
        BY <1>2, <3>1, ProgramText DEF Now
      <3>3. Now.v \in Nat
        BY <3>2, ProgramText DEF Now
      <3> QED
        BY <1>8, <2>1, <3>3 DEF RtcTypes, OutCmos
    <2>2. CASE ReadStatus
      BY <1>8, <2>2 DEF RtcTypes, ReadStatus
    <2>3. CASE WriteStatus
      BY <1>8, <2>3 DEF RtcTypes, WriteStatus, NewStatus, Signals
    <2>4. CASE ReadC
      BY <1>8, <2>4 DEF RtcTypes, ReadC
    <2> QED
      BY <2>1, <2>2, <2>3, <2>4 DEF Registers
  <1> QED
    BY <1>3, <1>4, <1>5, <1>6, <1>7, <1>9, TypesNext DEF IInv

LEMMA SleepEnterStep == ASSUME IInv, SleepEnter PROVE IInv'
  <1>1. /\ Advance /\ UNCHANGED <<tables, pic, pit, tick, lag, rtc>>
        /\ Now.op = "set_end"
        /\ end' = (tick + SleepTicks) % TickMod /\ elapsed' = 0
    BY DEF SleepEnter, Thread, GoOn, NoIf, Advance, Execute
  <1>2. pc = 46
    BY <1>1, Numbers, Positions
  <1>3. pc' = 47 /\ frame' = <<>> /\ rested' = TRUE
    BY <1>1, <1>2 DEF Advance, Execute
  <1>4. CpuTypes' /\ Handling' /\ FlagTypes'
    BY <1>1, <1>2, AdvanceCpu
  <1>5. TableTypes' /\ Installed' /\ Booted'
    BY <1>1, <1>2, AdvanceTables DEF Advance
  <1>6. PitTypes' /\ Loading'
    BY <1>1, <1>2, AdvancePit DEF Advance
  <1>7. /\ PicTypes' /\ Service' /\ Raised' /\ Remapped'
        /\ 0 \notin pic'["master"].irr
    BY <1>1, <1>2, AdvancePic
  <1>8. RtcTypes'
    BY <1>1, KeptRtc
  <1>9. /\ tick \in Nat /\ tick < TickMod /\ SleepTicks \in Nat /\ TickMod \in Nat
        /\ TickMod > SleepTicks + 11
    BY Numbers, Constants
  <1>10. lag = 0 /\ lag' = 0 /\ tick' = tick
    BY <1>1, Undisturbed DEF Advance, Execute
  <1>11. tick <= 10
    <2>1. tick + lag <= pc - 37 + Unrested
      BY <1>2 DEF IInv, Sleeping
    <2>2. Unrested \in {0, 1}
      BY DEF Unrested
    <2> QED
      BY <1>2, <1>9, <1>10, <2>1, <2>2
  <1>12. end' = tick + SleepTicks
    BY <1>1, <1>9, <1>11
  <1>13. TimerTypes'
    <2>1. tick' \in 0 .. TickMod - 1 /\ end' \in 0 .. TickMod - 1
      BY <1>9, <1>10, <1>11, <1>12
    <2> QED
      BY <1>1, <1>10, <2>1 DEF TimerTypes
  <1>14. Counting'
    BY <1>3, <1>7, <1>10 DEF Counting, Pending, Ticking, HandlerAt
  <1>15. Sleeping'
    BY <1>1, <1>3, <1>9, <1>10, <1>11, <1>12 DEF Sleeping, Unrested
  <1> QED
    BY <1>4, <1>5, <1>6, <1>7, <1>8, <1>13, <1>14, <1>15, TypesNext DEF IInv

(* The state of sleep's loop when it tests its condition.                  *)
LEMMA SleepTurnStep == ASSUME IInv, SleepTurn PROVE IInv'
  <1>1. /\ Execute /\ UNCHANGED <<tables, pic, pit, timer, rtc>>
        /\ Now.op = "while_tick_below_end"
        /\ shadow' = FALSE /\ intr' = intr
        /\ IF tick >= end THEN pc' = pc + 1 ELSE pc' = pc
    BY DEF SleepTurn, Thread, GoOn, NoIf, Execute, Awake
  <1>2. pc = 47
    BY <1>1, Numbers, Positions
  <1>3. lag = 0 /\ pic["master"].irr = {}
    BY <1>1, <1>2, Undisturbed DEF Execute
  <1>4. frame = <<>> /\ frame' = <<>> /\ rested' = TRUE
    BY <1>1 DEF Execute
  <1>5. tick' = tick /\ end' = end /\ lag' = lag /\ elapsed' = elapsed
    BY <1>1 DEF timer
  <1>6. CASE tick >= end
    <2>1. Advance /\ pc' = 48
      BY <1>1, <1>2, <1>6 DEF Advance
    <2>2. CpuTypes' /\ Handling' /\ FlagTypes'
      BY <1>2, <2>1, AdvanceCpu
    <2>3. TableTypes' /\ Installed' /\ Booted'
      BY <1>1, <1>2, <2>1, AdvanceTables
    <2>4. PitTypes' /\ Loading'
      BY <1>1, <1>2, <2>1, AdvancePit
    <2>5. PicTypes' /\ Service' /\ Raised' /\ Remapped'
      BY <1>1, <1>2, <2>1, AdvancePic
    <2>6. TimerTypes' /\ Counting'
      BY <1>1, <1>3, <1>4, <1>5, TypeGroups
         DEF IInv, TimerTypes, Counting, Pending, Ticking, HandlerAt
    <2>7. Sleeping'
      <3>1. /\ tick + lag = end - SleepTicks + elapsed /\ tick \in Nat /\ end \in Nat
            /\ SleepTicks \in Nat /\ elapsed \in Nat
        BY <1>2, Numbers, Constants DEF IInv, Sleeping
      <3>2. elapsed' >= SleepTicks
        BY <1>3, <1>5, <1>6, <3>1
      <3> QED
        BY <2>1, <3>2 DEF Sleeping
    <2>8. RtcTypes'
      BY <1>1, KeptRtc
    <2> QED
      BY <2>2, <2>3, <2>4, <2>5, <2>6, <2>7, <2>8, TypesNext DEF IInv
  <1>7. CASE ~(tick >= end)
    <2>1. pc' = pc
      BY <1>1, <1>7
    <2>2. intr' = intr /\ shadow' = shadow
      <3>1. ~shadow
        BY <1>2, <1>4 DEF IInv, Handling
      <3>2. shadow \in BOOLEAN
        BY Flags
      <3> QED
        BY <1>1, <3>1, <3>2
    <2>3. UNCHANGED cpu
      BY <1>4, <2>1, <2>2 DEF cpu
    <2>4. CpuTypes' /\ Handling'
      BY <2>3, KeptCpu
    <2>5. TableTypes' /\ Installed' /\ Booted'
      BY <1>1, <2>1, KeptTables
    <2>6. PitTypes' /\ Loading'
      BY <1>1, <2>1, KeptPit
    <2>7. PicTypes' /\ Service' /\ Raised' /\ Remapped'
      BY <1>1, <1>4, <2>1, KeptPic
    <2>8. FlagTypes' /\ RtcTypes'
      BY <1>1, KeptRtc, TypeGroups DEF IInv, FlagTypes, Execute
    <2>9. TimerTypes' /\ Counting'
      BY <1>1, <1>3, <1>4, <1>5, TypeGroups
         DEF IInv, TimerTypes, Counting, Pending, Ticking, HandlerAt
    <2>10. Sleeping'
      <3>1. /\ tick + lag = end - SleepTicks + elapsed /\ tick \in Nat /\ end \in Nat
            /\ end <= SleepTicks + 10
        BY <1>2, Numbers DEF IInv, Sleeping
      <3>2. tick + lag <= end
        BY <1>3, <1>7, <3>1
      <3> QED
        BY <1>2, <1>4, <1>5, <2>1, <3>1, <3>2 DEF Sleeping, Unrested
    <2> QED
      BY <2>4, <2>5, <2>6, <2>7, <2>8, <2>9, <2>10, TypesNext DEF IInv
  <1> QED
    BY <1>6, <1>7

LEMMA DieStep == ASSUME IInv, Die PROVE IInv'
  <1>1. /\ Execute /\ UNCHANGED <<pc, tables, pic, pit, timer, rtc>>
        /\ Now.op = "die" /\ shadow' = FALSE /\ intr' = intr
    BY DEF Die, Thread, NoIf, Execute
  <1>2. pc = 51
    BY <1>1, Numbers, Positions
  <1>3. lag = 0 /\ pic["master"].irr = {}
    BY <1>1, <1>2, Undisturbed DEF Execute
  <1>4. frame = <<>> /\ frame' = <<>> /\ rested' = TRUE
    BY <1>1 DEF Execute
  <1>5. UNCHANGED cpu
    <2>1. ~shadow
      BY <1>2, <1>4 DEF IInv, Handling
    <2>2. shadow \in BOOLEAN
      BY Flags
    <2>3. shadow' = shadow
      BY <1>1, <2>1, <2>2
    <2> QED
      BY <1>1, <1>4, <2>3 DEF cpu
  <1>6. CpuTypes' /\ Handling'
    BY <1>5, KeptCpu
  <1>7. TableTypes' /\ Installed' /\ Booted'
    BY <1>1, KeptTables
  <1>8. PitTypes' /\ Loading'
    BY <1>1, KeptPit
  <1>9. PicTypes' /\ Service' /\ Raised' /\ Remapped'
    BY <1>1, <1>4, KeptPic
  <1>10. FlagTypes' /\ RtcTypes'
    BY <1>1, KeptRtc, TypeGroups DEF IInv, FlagTypes, Execute
  <1>11. tick' = tick /\ end' = end /\ lag' = lag /\ elapsed' = elapsed
    BY <1>1 DEF timer
  <1>12. TimerTypes' /\ Counting'
    BY <1>1, <1>3, <1>4, <1>11, TypeGroups
       DEF IInv, TimerTypes, Counting, Pending, Ticking, HandlerAt
  <1>13. Sleeping'
    BY <1>1, <1>2 DEF Sleeping
  <1> QED
    BY <1>6, <1>7, <1>8, <1>9, <1>10, <1>12, <1>13, TypesNext DEF IInv

LEMMA SetUpStep == ASSUME IInv, SetUp PROVE IInv'
  <1>1. /\ Execute /\ UNCHANGED <<idtr, gate, handler, pic, pit, timer, rtc>>
        /\ pc < Main + Len(gdt)
        /\ machine' = Becomes(Now.op)
        /\ IF Now.op = "jmp_kernel_main" THEN pc' = Main ELSE pc' = pc + 1
        /\ shadow' = FALSE /\ intr' = intr
    BY DEF SetUp, Thread, GoOn, NoIf, Execute
  <1>2. pc \in 1 .. 16
    <2>1. Len(gdt) = 3
      BY DEF gdt
    <2> QED
      BY <1>1, <2>1, Numbers, ProgramLength
  <1>3. pc' = IF pc \in {8, 13} THEN 14 ELSE pc + 1
    <2>1. Now.op = "jmp_kernel_main" => pc \in {8, 13}
      BY <1>2, Positions
    <2>2. pc \in {8, 13} => Now.op = "jmp_kernel_main"
      BY ProgramText DEF Now
    <2> QED
      BY <1>1, <2>1, <2>2, ProgramLength
  <1>4. pc' \in 1 .. 17
    BY <1>2, <1>3
  <1>5. /\ pc \in {1, 9} => machine' = machine \cup {"PSE"}
        /\ pc \in {2, 10} => machine' = machine \cup {"CR3"}
        /\ pc \in {3, 11} => machine' = machine \cup {"PG"}
        /\ pc = 4 => machine' = machine \cup {"high"}
        /\ pc = 5 => machine' = (machine \ {"low"}) \cup {"stale"}
        /\ pc = 6 => machine' = machine \ {"stale"}
        /\ pc \in {7, 12} => machine' = machine \cup {"stack"}
        /\ pc \in {8, 13} => machine' = machine \cup {"high"}
        /\ pc = 14 => machine' = machine \cup {"gp"}
        /\ pc = 15 => machine' = machine \cup {"data"}
        /\ pc = 16 => machine' = machine \cup {"code"}
    <2>1. /\ pc \in {1, 9} => Now.op = "orl_cr4"
          /\ pc \in {2, 10} => Now.op = "movl_cr3"
          /\ pc \in {3, 11} => Now.op = "orl_cr0"
          /\ pc = 4 => Now.op = "jmp_start_high"
          /\ pc = 5 => Now.op = "movl_entrypgdir"
          /\ pc = 6 => Now.op = "invlpg"
          /\ pc \in {7, 12} => Now.op = "movl_esp"
          /\ pc \in {8, 13} => Now.op = "jmp_kernel_main"
          /\ pc = 14 => Now.op = "lgdt"
          /\ pc = 15 => Now.op = "movw_segments"
          /\ pc = 16 => Now.op = "ljmp"
      BY ProgramText DEF Now
    <2>2. Now.op = "orl_cr4" => machine' = machine \cup {"PSE"}
      BY <1>1 DEF Becomes
    <2>3. Now.op = "movl_cr3" => machine' = machine \cup {"CR3"}
      BY <1>1 DEF Becomes
    <2>4. Now.op = "orl_cr0" => machine' = machine \cup {"PG"}
      BY <1>1 DEF Becomes
    <2>5. Now.op = "jmp_start_high" => machine' = machine \cup {"high"}
      BY <1>1 DEF Becomes
    <2>6. Now.op = "movl_entrypgdir" => machine' = (machine \ {"low"}) \cup {"stale"}
      BY <1>1 DEF Becomes
    <2>7. Now.op = "invlpg" => machine' = machine \ {"stale"}
      BY <1>1 DEF Becomes
    <2>8. Now.op = "movl_esp" => machine' = machine \cup {"stack"}
      BY <1>1 DEF Becomes
    <2>9. Now.op = "jmp_kernel_main" => machine' = machine \cup {"high"}
      BY <1>1 DEF Becomes
    <2>10. Now.op = "lgdt" => machine' = machine \cup {"gp"}
      BY <1>1 DEF Becomes
    <2>11. Now.op = "movw_segments" => machine' = machine \cup {"data"}
      BY <1>1 DEF Becomes
    <2>12. Now.op = "ljmp" => machine' = machine \cup {"code"}
      BY <1>1 DEF Becomes
    <2> QED
      BY <2>1, <2>2, <2>3, <2>4, <2>5, <2>6, <2>7, <2>8, <2>9, <2>10, <2>11, <2>12
  <1>6. Booted
    BY DEF IInv
  <1>7. Booted'
    <2>1. CASE pc \in {1, 9}
      BY <1>3, <1>5, <1>6, <2>1 DEF Booted, Up
    <2>2. CASE pc \in {2, 10}
      BY <1>3, <1>5, <1>6, <2>2 DEF Booted, Up
    <2>3. CASE pc \in {3, 11}
      BY <1>3, <1>5, <1>6, <2>3 DEF Booted, Up
    <2>4. CASE pc = 4
      BY <1>3, <1>5, <1>6, <2>4 DEF Booted, Up
    <2>5. CASE pc = 5
      BY <1>3, <1>5, <1>6, <2>5 DEF Booted, Up
    <2>6. CASE pc = 6
      BY <1>3, <1>5, <1>6, <2>6 DEF Booted, Up
    <2>7. CASE pc = 7
      BY <1>3, <1>5, <1>6, <2>7 DEF Booted, Up
    <2>8. CASE pc = 12
      BY <1>3, <1>5, <1>6, <2>8 DEF Booted, Up
    <2>9. CASE pc \in {8, 13}
      BY <1>3, <1>5, <1>6, <2>9 DEF Booted, Up
    <2>10. CASE pc \in {14, 15, 16}
      BY <1>3, <1>5, <1>6, <2>10 DEF Booted, Up
    <2> QED
      BY <1>2, <2>1, <2>2, <2>3, <2>4, <2>5, <2>6, <2>7, <2>8, <2>9, <2>10
  <1>8. frame = <<>> /\ frame' = <<>> /\ rested' = TRUE /\ obf' = obf
    BY <1>1 DEF Execute
  <1>9. TableTypes'
    <2>1. machine' \subseteq {"PSE", "CR3", "PG", "low", "stale", "high", "stack", "gp",
                              "data", "code"}
      BY <1>2, <1>5, TypeGroups DEF IInv, TableTypes
    <2> QED
      BY <1>1, <2>1, TypeGroups DEF IInv, TableTypes
  <1>10. CpuTypes'
    <2>1. pc' \in 1 .. Len(Program)
      BY <1>4, ProgramLength
    <2> QED
      BY <1>1, <1>8, <2>1, TypeGroups DEF IInv, CpuTypes
  <1>11. Handling'
    BY <1>1, <1>2, <1>4, <1>8 DEF IInv, Handling, HandlerAt
  <1>12. Installed'
    BY <1>1, <1>2, <1>4 DEF IInv, Installed
  <1>13. PitTypes' /\ Loading'
    BY <1>1, <1>2, <1>4, TypeGroups DEF IInv, PitTypes, Loading
  <1>14. PicTypes' /\ Service' /\ Raised'
    BY <1>1, <1>8, Types DEF IInv, PicTypes, Service, HandlerAt, Raised
  <1>15. Remapped'
    <2>1. pic["master"].icw = 0 /\ pic["slave"].icw = 0
      BY <1>2 DEF IInv, Remapped
    <2> QED
      <3>1. pc' \in Nat /\ pc' <= 17
        BY <1>4
      <3>2. pic' = pic
        BY <1>1
      <3> QED
        BY <2>1, <3>1, <3>2 DEF Remapped
  <1>16. FlagTypes' /\ RtcTypes'
    BY <1>1, <1>8, KeptRtc, TypeGroups DEF IInv, FlagTypes
  <1>17. tick' = tick /\ end' = end /\ lag' = lag /\ elapsed' = elapsed
    BY <1>1 DEF timer
  <1>18. TimerTypes'
    BY <1>17, TypeGroups DEF IInv, TimerTypes
  <1>19. Counting'
    BY <1>2, <1>4, <1>8, <1>17 DEF IInv, Counting, HandlerAt
  <1>20. Sleeping'
    BY <1>2, <1>4, <1>17 DEF IInv, Sleeping
  <1> QED
    BY <1>7, <1>9, <1>10, <1>11, <1>12, <1>13, <1>14, <1>15, <1>16, <1>18, <1>19, <1>20,
       TypesNext DEF IInv

-----------------------------------------------------------------------------
(* The invariant holds at first, and every step keeps it.                  *)

LEMMA InitInvariant == ASSUME Init PROVE IInv
  <1>1. pc \in {1, 9}
    <2>1. Len(load_start) = 8
      BY DEF load_start, enable_paging
    <2> QED
      BY <2>1 DEF Init
  <1>2. /\ machine = {"low"} /\ gate = {} /\ handler = [n \in 32 .. 47 |-> "none"]
        /\ pit = [reload |-> 65536, half |-> FALSE, low |-> 0]
        /\ frame = <<>> /\ tick = 0 /\ end = 0 /\ lag = 0 /\ elapsed = 0
    BY PTL DEF Init
  <1>3. /\ intr = FALSE /\ shadow = FALSE /\ idtr = FALSE
        /\ rested = TRUE /\ obf = FALSE
    BY PTL DEF Init
  <1>4. cmos = 0 /\ status = {} /\ regB \in SUBSET Events /\ regC = {}
    BY PTL DEF Init
  <1>5. PICK mask \in {{}, 0 .. 7} :
          pic = [c \in Chips |-> [base |-> IF c = "master" THEN 8 ELSE 112,
                                  icw |-> 0, mask |-> mask, irr |-> {}, isr |-> {}]]
    BY PTL DEF Init
  <1>6. CpuTypes
    <2>1. frame \in Seq(Frame)
      BY <1>2
    <2>2. pc \in 1 .. Len(Program)
      BY <1>1, ProgramLength
    <2>3. intr \in BOOLEAN /\ shadow \in BOOLEAN
      BY <1>3
    <2> QED
      BY <2>1, <2>2, <2>3 DEF CpuTypes
  <1>7. TableTypes
    <2>1. handler \in [32 .. 47 -> {"none", "timer_callback"}]
      BY <1>2
    <2>2. idtr \in BOOLEAN
      BY <1>3
    <2> QED
      BY <1>2, <2>1, <2>2 DEF TableTypes
  <1>8. PicTypes
    BY <1>5 DEF PicTypes, Chip
  <1>9. PitTypes
    <2>1. 65536 \in Reload /\ 0 \in Byte
      BY DEF Reload, Byte
    <2> QED
      BY <1>2, <2>1 DEF PitTypes
  <1>10. FlagTypes
    BY <1>3 DEF FlagTypes
  <1>11. TimerTypes
    BY <1>2, Constants DEF TimerTypes
  <1>12. RtcTypes
    <2>1. Events \subseteq Signals
      BY KernelAssumption, PTL
    <2> QED
      BY <1>4, <2>1 DEF RtcTypes
  <1>13. TypeOK
    BY <1>6, <1>7, <1>8, <1>9, <1>10, <1>11, <1>12, TypeGroups
  <1>14. Handling
    BY <1>1, <1>2, <1>3 DEF Handling, HandlerAt
  <1>15. Service /\ Raised /\ Remapped
    BY <1>1, <1>2, <1>5 DEF Service, HandlerAt, Raised, Remapped, Chips
  <1>16. Installed
    BY <1>1, <1>2 DEF Installed
  <1>17. Counting
    BY <1>1, <1>2 DEF Counting, HandlerAt
  <1>18. Sleeping
    BY <1>1, <1>2 DEF Sleeping
  <1>19. Loading
    BY <1>1, <1>2 DEF Loading
  <1>20. Booted
    BY <1>1, <1>2 DEF Booted
  <1> QED
    BY <1>13, <1>14, <1>15, <1>16, <1>17, <1>18, <1>19, <1>20 DEF IInv

LEMMA StutterStep == ASSUME IInv, UNCHANGED vars PROVE IInv'
  <1>1. /\ UNCHANGED <<pc, frame, rested, timer>> /\ UNCHANGED cpu /\ UNCHANGED pic
        /\ UNCHANGED <<pc, tables>> /\ UNCHANGED <<pc, pit>> /\ UNCHANGED rtc
        /\ rested' = rested /\ obf' = obf
    BY DEF vars, cpu
  <1>2. FlagTypes'
    BY <1>1, TypeGroups DEF IInv, FlagTypes
  <1> QED
    BY <1>1, <1>2, KeptCpu, KeptTables, KeptPit, KeptPic, KeptTimer, KeptRtc, TypesNext
       DEF IInv

LEMMA Inductive == ASSUME IInv, [Next]_vars PROVE IInv'
  <1>1. CASE ThreadStep
    BY <1>1, SetUpStep, ElsewhereStep, TablesStep, StiStep, RegisterTimerStep, OutPicStep,
       OutPitStep, RegistersStep, SleepEnterStep, SleepTurnStep, DieStep
       DEF ThreadStep, Registers
  <1>2. CASE Interrupt
    BY <1>2, InterruptStep
  <1>3. CASE HandlerStep
    BY <1>3, EoiSlaveStep, EoiMasterStep, DispatchStep, TimerCallbackStep, StubStiStep,
       IretStep
       DEF HandlerStep
  <1>4. CASE PitPulse
    BY <1>4, PitPulseStep
  <1>5. CASE \E e \in Events : RtcEvent(e)
    BY <1>5, RtcEventStep
  <1>6. CASE Key
    BY <1>6, KeyStep
  <1>7. CASE UNCHANGED vars
    BY <1>7, StutterStep
  <1>8. CASE PageFault
    BY <1>8, PageFaultStep
  <1>9. CASE Halt
    BY <1>9, HaltStep
  <1> QED
    BY <1>1, <1>2, <1>3, <1>4, <1>5, <1>6, <1>7, <1>8, <1>9 DEF Next, Cpu

THEOREM Invariance == Spec => []IInv
  BY InitInvariant, Inductive, PTL DEF Spec

-----------------------------------------------------------------------------
(* What the invariant means.                                               *)

(* Every value stays in its type: an interrupt is at a place of the IRQ    *)
(* path and never at a null entry of interrupt_descriptors, and the only   *)
(* exception that comes is the page fault that ends in die().              *)
THEOREM TypeCorrect == Spec => []TypeOK
  <1>1. IInv => TypeOK
    BY DEF IInv
  <1> QED
    BY <1>1, Invariance, PTL

(* However the requests of the devices fall, the 4 KB stack of boot.S never *)
(* holds more than one frame, although the EOIs come before the handler,   *)
(* and a page fault finds it empty.                                        *)
THEOREM NeverNested == Spec => []NoNesting
  <1>1. IInv => NoNesting
    BY DEF IInv, Handling, NoNesting
  <1> QED
    BY <1>1, Invariance, PTL

(* The frames that wait for an end of interrupt, when there is at most one. *)
LEMMA WaitingFacts ==
  ASSUME IInv, NEW at
  PROVE  Waiting(at) = IF HandlerAt(at) THEN {frame[1].vec - 32} ELSE {}
  <1>1. CASE frame = <<>>
    BY <1>1 DEF Waiting, HandlerAt
  <1>2. CASE frame # <<>>
    <2>1. Len(frame) = 1
      BY <1>2, OneFrame
    <2>2. {j \in 1 .. Len(frame) : frame[j].at \in at} = IF HandlerAt(at) THEN {1} ELSE {}
      BY <1>2, <2>1 DEF HandlerAt
    <2> QED
      BY <2>2 DEF Waiting
  <1> QED
    BY <1>1, <1>2

(* The in-service bits of the two 8259s are those of the one interrupt     *)
(* whose end-of-interrupt the stub still has to send.                      *)
THEOREM ServiceExact == Spec => []InServiceExact
  <1>1. ASSUME IInv PROVE InServiceExact
    <2>1. Service
      BY <1>1 DEF IInv
    <2>2. CASE HandlerAt({"slave_eoi"})
      <3>1. HandlerAt({"slave_eoi", "master_eoi"}) /\ frame # <<>>
        BY <2>2 DEF HandlerAt
      <3>2. frame[1].vec \in 32 .. 47
        BY <2>2, <3>1, <1>1, OneFrame DEF HandlerAt, Frame, IrqFrame, FaultFrame
      <3>3. /\ Waiting({"slave_eoi"}) = {frame[1].vec - 32}
            /\ Waiting({"slave_eoi", "master_eoi"}) = {frame[1].vec - 32}
        BY <2>2, <3>1, <1>1, WaitingFacts
      <3>4. pic["slave"].isr = IF frame[1].vec >= 40 THEN {frame[1].vec - 40} ELSE {}
        BY <2>1, <2>2, <3>1 DEF Service
      <3>5. pic["master"].isr = {IF frame[1].vec < 40 THEN frame[1].vec - 32 ELSE 2}
        BY <2>1, <3>1 DEF Service
      <3> QED
        BY <3>2, <3>3, <3>4, <3>5 DEF InServiceExact
    <2>3. CASE ~HandlerAt({"slave_eoi"}) /\ HandlerAt({"slave_eoi", "master_eoi"})
      <3>1. frame[1].vec \in 32 .. 47
        BY <2>3, <1>1, OneFrame DEF HandlerAt, Frame, IrqFrame, FaultFrame
      <3>2. /\ Waiting({"slave_eoi"}) = {}
            /\ Waiting({"slave_eoi", "master_eoi"}) = {frame[1].vec - 32}
        BY <2>3, <1>1, WaitingFacts
      <3>3. pic["slave"].isr = {}
        BY <2>1, <2>3 DEF Service
      <3>4. pic["master"].isr = {IF frame[1].vec < 40 THEN frame[1].vec - 32 ELSE 2}
        BY <2>1, <2>3 DEF Service
      <3> QED
        BY <3>1, <3>2, <3>3, <3>4 DEF InServiceExact
    <2>4. CASE ~HandlerAt({"slave_eoi", "master_eoi"})
      <3>1. ~HandlerAt({"slave_eoi"})
        BY <2>4 DEF HandlerAt
      <3>2. Waiting({"slave_eoi"}) = {} /\ Waiting({"slave_eoi", "master_eoi"}) = {}
        BY <2>4, <3>1, <1>1, WaitingFacts
      <3> QED
        BY <2>1, <2>4, <3>1, <3>2 DEF Service, InServiceExact
    <2> QED
      BY <2>2, <2>3, <2>4
  <1> QED
    BY <1>1, Invariance, PTL

(* After init_timer, tick lacks at most the one pulse that is still in the *)
(* PIC or on its way to timer_callback, as long as the CPU is not halted.  *)
THEOREM TicksExact == Spec => []TicksCounted
  <1>1. ASSUME IInv PROVE TicksCounted
    <2>1. handler[32] # "none" => pc > 36
      BY <1>1 DEF IInv, Installed
    <2>2. ~Halted => lag = IF pc > 36 /\ Pending THEN 1 ELSE 0
      BY <1>1, HaltedFacts DEF IInv, Counting
    <2>3. Ticking <=> \E i \in 1 .. Len(frame) :
                        frame[i].vec = 32 /\ frame[i].at \notin {"sti", "iret"}
      <3>1. CASE frame = <<>>
        BY <3>1 DEF Ticking, HandlerAt
      <3>2. CASE frame # <<>>
        <4>1. Len(frame) = 1 /\ frame[1] \in Frame
          BY <3>2, <1>1, OneFrame
        <4> QED
          BY <3>2, <4>1 DEF Ticking, HandlerAt, Frame, IrqFrame, FaultFrame
      <3> QED
        BY <3>1, <3>2
    <2> QED
      BY <2>1, <2>2, <2>3 DEF TicksCounted, Pending
  <1> QED
    BY <1>1, Invariance, PTL

(* sleep does not return before its whole periods of channel 0 have gone by *)
(* but one, at the rate the bytes of init_timer give it.                   *)
THEOREM SleepsLongEnough == Spec => []SleepLongEnough
  <1>1. ASSUME IInv, Now.op = "rtc_handler"
        PROVE  /\ elapsed >= SleepTicks
               /\ pit.reload * (elapsed - 1) >= Divisor * (SleepTicks - 1)
    <2>1. pc = 48
      BY <1>1, Numbers, Positions
    <2>2. elapsed >= SleepTicks /\ pit.reload = 43318
      BY <1>1, <2>1 DEF IInv, Sleeping, Loading
    <2>3. Divisor = 1193
      BY DEF Divisor
    <2>4. elapsed \in Nat /\ SleepTicks \in Nat /\ SleepTicks > 0
      BY <1>1, Numbers, Constants
    <2>5. 43318 * (elapsed - 1) >= 1193 * (SleepTicks - 1)
      BY <2>2, <2>4
    <2> QED
      BY <2>2, <2>3, <2>5
  <1>2. IInv => SleepLongEnough
    BY <1>1 DEF SleepLongEnough
  <1> QED
    BY <1>2, Invariance, PTL

-----------------------------------------------------------------------------
(* Where control and memory accesses go.                                   *)

(* Every address that the boot code touches is in the first 4 MB or in the *)
(* 4 MB page entrypgdir maps at 0x80000000.                                *)
LEMMA Pages ==
  /\ PDE(Linked) = 512 /\ PDE(Loaded) = 0 /\ PDE(<<255, 255, 63, 128>>) = 512
  /\ PDE(<<0, 128, 11, 128>>) = 512 /\ PDE(<<159, 143, 11, 128>>) = 512
  BY DEF PDE, Linked, Loaded

LEMMA Setting ==
  ASSUME IInv
  PROVE  /\ "PG" \in machine => {"PSE", "CR3"} \subseteq machine
         /\ {"high", "stack"} \cap machine # {} => "PG" \in machine
         /\ "PG" \in machine => "low" \in machine \/ "high" \in machine
         /\ pc = 5 => "low" \in machine
         /\ "data" \in machine \/ "code" \in machine => "gp" \in machine
  <1>1. Booted /\ pc \in Nat /\ 1 <= pc
    BY Numbers DEF IInv
  <1>2. CASE pc \in {1, 9}
    BY <1>1, <1>2 DEF Booted, Up
  <1>3. CASE pc \in {2, 10}
    BY <1>1, <1>3 DEF Booted, Up
  <1>4. CASE pc \in {3, 11}
    BY <1>1, <1>4 DEF Booted, Up
  <1>5. CASE pc \in {4, 12}
    BY <1>1, <1>5 DEF Booted, Up
  <1>6. CASE pc = 5
    BY <1>1, <1>6 DEF Booted, Up
  <1>7. CASE pc \in {6, 7}
    BY <1>1, <1>7 DEF Booted, Up
  <1>8. CASE pc = 8
    BY <1>1, <1>8 DEF Booted, Up
  <1>9. CASE pc = 13
    BY <1>1, <1>9 DEF Booted, Up
  <1>10. CASE pc > 13
    BY <1>1, <1>10 DEF Booted, Up
  <1> QED
    BY <1>1, <1>2, <1>3, <1>4, <1>5, <1>6, <1>7, <1>8, <1>9, <1>10

LEMMA TouchedMapped == ASSUME IInv PROVE \A a \in Touched : Mapped(a)
  <1> SUFFICES ASSUME NEW a \in Touched, "PG" \in machine
               PROVE  PDE(a) \in entrypgdir
    BY DEF Mapped
  <1>1. \/ a \in {Linked, <<255, 255, 63, 128>>, <<0, 128, 11, 128>>, <<159, 143, 11, 128>>}
        \/ a = Loaded /\ ("high" \notin machine \/ Now.op = "movl_entrypgdir")
    BY DEF Touched
  <1>2. CASE a \in {Linked, <<255, 255, 63, 128>>, <<0, 128, 11, 128>>, <<159, 143, 11, 128>>}
    BY <1>2, Pages DEF entrypgdir
  <1>3. CASE a = Loaded /\ ("high" \notin machine \/ Now.op = "movl_entrypgdir")
    <2>1. Now.op = "movl_entrypgdir" => pc = 5
      BY Numbers, ProgramText, SMTT(30) DEF Now
    <2>2. "low" \in machine
      BY <1>3, <2>1, Setting
    <2> QED
      BY <1>3, <2>2, Pages DEF entrypgdir
  <1> QED
    BY <1>1, <1>2, <1>3

LEMMA DueLands ==
  ASSUME IInv, Due
  PROVE  "code" \in machine /\ Lands(NextVector, 32 + NextLine)
  <1>1. pc \in Nat /\ pc > 34
    BY Arrival, Numbers
  <1>2. PICK l \in {0, 1, 8} : NextLine = l /\ NextVector = 32 + l
    BY Arrival
  <1>3. "code" \in machine
    BY <1>1 DEF IInv, Booted
  <1>4. idtr /\ 32 .. 47 \subseteq gate
    BY <1>1 DEF IInv, Installed
  <1>5. 32 + l \in 32 .. 47 /\ 32 + l \in 0 .. 47
    BY <1>2
  <1>6. <<32 + l, 32 + l>> \in Leads
    BY <1>5, LeadsToItself
  <1> QED
    BY <1>2, <1>3, <1>4, <1>5, <1>6 DEF Lands

(* The page fault of an operation with a wild pointer.                     *)
LEMMA FaultLands ==
  ASSUME IInv, Now.op \in Wild
  PROVE  "code" \in machine /\ Lands(14, 14)
  <1>1. pc \in {49, 50}
    BY WildPlaces
  <1>2. "code" \in machine
    BY <1>1 DEF IInv, Booted
  <1>3. idtr /\ 0 .. 31 \subseteq gate
    BY <1>1 DEF IInv, Installed
  <1>4. 14 \in 0 .. 47 /\ 14 \in gate
    BY <1>3
  <1>5. <<14, 14>> \in Leads
    BY <1>4, LeadsToItself
  <1> QED
    BY <1>2, <1>3, <1>4, <1>5 DEF Lands

(* Whatever the CPU does next, its code, its stack and the memory it       *)
(* touches are mapped and its segments are those of gp, but for what a wild *)
(* pointer reaches, whose page fault ends in its stub; and whenever the CPU *)
(* is about to take an interrupt, the request of line l comes through a    *)
(* gate that ends in the stub of l, with interrupts off.                   *)
THEOREM ControlAlwaysLands == Spec => []ControlLands
  <1>1. ASSUME IInv PROVE ControlLands
    <2>1. /\ "PG" \in machine => {"PSE", "CR3"} \subseteq machine
          /\ {"high", "stack"} \cap machine # {} => "PG" \in machine
      BY <1>1, Setting
    <2>2. \A a \in Touched : Mapped(a)
      BY <1>1, TouchedMapped
    <2>3. InMain => {"high", "stack"} \subseteq machine /\ "stale" \notin machine
      BY <1>1, Numbers, ProgramLength DEF IInv, Booted, Up, InMain
    <2>4. "data" \in machine \/ "code" \in machine => "gp" \in machine
      BY <1>1, Setting
    <2>5. Due => "code" \in machine /\ Lands(NextVector, 32 + NextLine)
      BY <1>1, DueLands
    <2>6. Now.op \in Wild => "code" \in machine /\ Lands(14, 14)
      BY <1>1, FaultLands
    <2> QED
      BY <2>1, <2>2, <2>3, <2>4, <2>5, <2>6, Segments DEF ControlLands
  <1> QED
    BY <1>1, Invariance, PTL

=============================================================================
