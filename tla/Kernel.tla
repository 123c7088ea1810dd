------------------------------- MODULE Kernel -------------------------------
(***************************************************************************)
(* The kernel from _start, in boot.S or in load.S, through kernel_main to   *)
(* die(), interleaved with the hardware interrupts it turns on: paging and *)
(* the GDT (io/gdt.c), the IDT (io/idt.c), the two 8259s (io/irq.c), the   *)
(* IRQ path (boot.S, io/isrs.c), the PIT and sleep (io/timer.c) and the    *)
(* interrupts of the real time clock (drivers/rtc/clock.c).                *)
(*                                                                         *)
(* The program is the sequence of operations it and its callees perform,   *)
(* one step of the CPU each; an interrupt may come in between any two.     *)
(* What kinit1, rtc_handler, rtc_print_struct and paging_install compute is *)
(* in KMem, Rtc, Exceptions and Paging; here they are single operations,   *)
(* of which the last two may end in a page fault.                          *)
(***************************************************************************)
EXTENDS Descriptors, FiniteSetsExt, SequencesExt

CONSTANTS
  Lines,       (* the IRQ lines that a device of the machine raises         *)
  Events,      (* what the RTC signals: "update", "alarm", "periodic"       *)
  SleepTicks,  (* the argument of sleep, 40 in the code                     *)
  TickMod,     (* tick is a u32: 2^32 in the code                           *)
  StubAt       (* where the linker puts the stub of each vector             *)

(* The interrupts that register B of the RTC has an enable bit for.        *)
Signals == {"update", "alarm", "periodic"}

ASSUME KernelAssumption ==
  /\ Lines \subseteq 0 .. 15
  /\ Events \subseteq Signals
  /\ SleepTicks \in Nat \ {0}
  /\ TickMod \in Nat
  /\ TickMod > SleepTicks + 11   (* room for the ticks before sleep, too    *)
  /\ StubAt \in [0 .. 47 -> [1 .. 4 -> 0 .. 255]]
  /\ \A v, w \in 0 .. 47 : StubAt[v] = StubAt[w] => v = w

VARIABLES
  pc,        (* the next operation of the program                           *)
  machine,   (* what is set up: control registers, directory, segments      *)
  intr,      (* IF of eflags                                                *)
  shadow,    (* sti has just executed: no interrupt before the next one     *)
  frame,     (* the interrupt frames on the stack, the running one last     *)
  idtr,      (* lidt has loaded the IDT                                     *)
  gate,      (* the vectors whose entry of id[] is set                      *)
  handler,   (* interrupt_descriptors of the IRQ vectors                    *)
  pic,       (* the master and the slave 8259                               *)
  pit,       (* channel 0 of the PIT: its reload value and byte flip-flop   *)
  rested,    (* the thread went on, or stood halted, since the last pulse   *)
  tick,      (* tick of timer.c                                             *)
  end,       (* end of sleep                                                *)
  cmos,      (* the register number last written to port 0x70               *)
  status,    (* status of rtc_install: the interrupts enabled in it         *)
  regB,      (* the interrupts enabled in register B of the RTC             *)
  regC,      (* the flags set in register C                                 *)
  obf,       (* the keyboard controller holds a byte nobody has read        *)
  lag,       (* history: PIT pulses since init_timer that tick lacks, as    *)
             (* long as there is a thread that reads it                     *)
  elapsed    (* history: PIT pulses since sleep was entered                 *)

cpu == <<pc, intr, shadow, frame>>
tables == <<machine, idtr, gate, handler>>
timer == <<tick, end, lag, elapsed>>
rtc == <<cmos, status, regB, regC>>
vars == <<cpu, tables, pic, pit, rested, timer, rtc, obf>>

-----------------------------------------------------------------------------
(* The program.                                                            *)

Op(name) == [op |-> name, v |-> 0, port |-> 0]

(* _start, in boot.S and in load.S.                                        *)
enable_paging == <<Op("orl_cr4"), Op("movl_cr3"), Op("orl_cr0")>>
boot_start == enable_paging \o <<Op("movl_esp"), Op("jmp_kernel_main")>>
load_start ==
  enable_paging \o
  <<Op("jmp_start_high"), Op("movl_entrypgdir"), Op("invlpg"),
    Op("movl_esp"), Op("jmp_kernel_main")>>

Outb(v, port) == [op |-> "outb", v |-> v, port |-> port]

irq_remap ==
  <<Outb(17, 32), Outb(17, 160), Outb(32, 33), Outb(40, 161), Outb(4, 33),
    Outb(2, 161), Outb(1, 33), Outb(1, 161), Outb(0, 33), Outb(0, 161)>>

(* memset of id, the remapping, the 32 exception gates, set_irq, lidt and  *)
(* the memset of interrupt_descriptors.                                    *)
idt ==
  <<Op("clear_id")>> \o irq_remap \o
  <<Op("isr_gates"), Op("irq_gates"), Op("lidt"), Op("clear_handlers")>>

Divisor == 1193180 \div 1000

(* The call itself executes in the shadow of the sti before it.            *)
init_timer ==
  <<Op("call"), Op("register_timer"), Outb(54, 64), Outb(Divisor % 256, 64),
    Outb((Divisor \div 256) % 256, 64)>>

rtc_install ==
  <<Outb(11, 112), Op("read_status"), Outb(11, 112), Op("write_status"),
    Outb(12, 112), Op("read_C")>>

gdt == <<Op("lgdt"), Op("movw_segments"), Op("ljmp")>>

sleep == <<Op("set_end"), Op("while_tick_below_end")>>

Setup == <<Op("kinit1"), Op("terminal_initialize"), Op("sti")>>
Finish ==
  <<Op("rtc_handler"), Op("rtc_print_struct"), Op("paging_install"), Op("die")>>

kernel_main_TimerFirst ==
  gdt \o init_timer \o idt \o Setup \o rtc_install \o sleep \o Finish

kernel_main ==
  gdt \o idt \o Setup \o init_timer \o rtc_install \o sleep \o Finish

Program == load_start \o boot_start \o kernel_main
Main == Len(load_start \o boot_start) + 1
InMain == pc >= Main
Now == Program[pc]

(* Where kernel_main turns interrupts on.                                  *)
StiAt == CHOOSE i \in 1 .. Len(Program) : Program[i].op = "sti"

-----------------------------------------------------------------------------
(* The 8259 pair.  Line l of the machine is input l % 8 of its chip; the   *)
(* slave's output is input 2 of the master.                                *)

Chips == {"master", "slave"}
ChipOf(l) == IF l < 8 THEN "master" ELSE "slave"
Bits(v) == {i \in 0 .. 7 : (v \div 2^i) % 2 = 1}

(* The inputs of a chip that get through its mask and are not held back by *)
(* an equal or higher priority in service, and the first of them.          *)
Passing(c, requests) ==
  IF pic[c].icw # 0 THEN {}
  ELSE {i \in requests \ pic[c].mask : \A j \in pic[c].isr : i < j}

SlaveInputs == Passing("slave", pic["slave"].irr)
MasterInputs ==
  Passing("master", pic["master"].irr \cup IF SlaveInputs = {} THEN {} ELSE {2})

FromSlave == Min(MasterInputs) = 2
NextVector ==
  IF FromSlave THEN pic["slave"].base + Min(SlaveInputs)
  ELSE pic["master"].base + Min(MasterInputs)
NextLine ==
  IF FromSlave THEN 8 + Min(SlaveInputs) ELSE Min(MasterInputs)

(* The PIC asks for an interrupt and the CPU will take it at once.         *)
Due == intr /\ ~shadow /\ MasterInputs # {}

Raise(l) == pic' = [pic EXCEPT ![ChipOf(l)].irr = @ \cup {l % 8}]

(* INTA: the request becomes in service, on both chips for a slave line.   *)
Acknowledge ==
  IF FromSlave
  THEN LET j == Min(SlaveInputs) IN
       [pic EXCEPT !["master"].isr = @ \cup {2},
                   !["slave"].isr = @ \cup {j},
                   !["slave"].irr = @ \ {j}]
  ELSE LET i == Min(MasterInputs) IN
       [pic EXCEPT !["master"].isr = @ \cup {i},
                   !["master"].irr = @ \ {i}]

(* A byte written to the command port of a chip: ICW1 or a non-specific    *)
(* end of interrupt, which clears the highest priority in service.         *)
Command(chip, v) ==
  IF 4 \in Bits(v)
  THEN [chip EXCEPT !.icw = 2, !.mask = {}, !.irr = {}, !.isr = {}]
  ELSE IF v = 32 /\ chip.isr # {}
  THEN [chip EXCEPT !.isr = @ \ {Min(@)}]
  ELSE chip

(* A byte written to its data port: ICW2, ICW3 and ICW4 in that order      *)
(* after an ICW1, and the interrupt mask otherwise.                        *)
Data(chip, v) ==
  CASE chip.icw = 2 -> [chip EXCEPT !.icw = 3, !.base = v - (v % 8)]
    [] chip.icw = 3 -> [chip EXCEPT !.icw = 4]
    [] chip.icw = 4 -> [chip EXCEPT !.icw = 0]
    [] chip.icw = 0 -> [chip EXCEPT !.mask = Bits(v)]

PicWrite(port, v) ==
  CASE port = 32  -> [pic EXCEPT !["master"] = Command(@, v)]
    [] port = 33  -> [pic EXCEPT !["master"] = Data(@, v)]
    [] port = 160 -> [pic EXCEPT !["slave"] = Command(@, v)]
    [] port = 161 -> [pic EXCEPT !["slave"] = Data(@, v)]

(* Channel 0 takes a low byte and then a high byte at port 0x40.           *)
PitWrite(v) ==
  IF pit.half THEN [reload |-> pit.low + 256 * v, half |-> FALSE, low |-> 0]
  ELSE [pit EXCEPT !.half = TRUE, !.low = v]

(* Register C's flags, enabled in register B, drive line 8.                *)
Irq8Edge(b, c) == b \cap c # {} /\ regB \cap regC = {}

-----------------------------------------------------------------------------
(* GRUB enters _start at its physical address, paging and interrupts off,  *)
(* in whichever of the two files is linked.                                *)
Init ==
  /\ pc \in {1, Len(load_start) + 1}
  /\ machine = {"low"}
  /\ intr = FALSE /\ shadow = FALSE
  /\ frame = <<>>
  /\ idtr = FALSE /\ gate = {}
  /\ handler = [n \in 32 .. 47 |-> "none"]
  /\ \E mask \in {{}, 0 .. 7} :
       pic = [c \in Chips |-> [base |-> IF c = "master" THEN 8 ELSE 112,
                               icw |-> 0, mask |-> mask, irr |-> {}, isr |-> {}]]
  /\ pit = [reload |-> 65536, half |-> FALSE, low |-> 0]
  /\ rested = TRUE
  /\ tick = 0 /\ end = 0
  /\ cmos = 0 /\ status = {} /\ regB \in SUBSET Events /\ regC = {}
  /\ obf = FALSE
  /\ lag = 0 /\ elapsed = 0

(* The thread executes its next operation: no handler is running and no    *)
(* interrupt is due.                                                       *)
Thread(name) ==
  /\ Now.op = name
  /\ frame = <<>>
  /\ ~Due
  /\ rested' = TRUE
  /\ UNCHANGED <<frame, obf>>

(* hlt with IF clear: die() within page_fault.                             *)
Running == frame[Len(frame)]
Halted == frame # <<>> /\ Running.at = "die"

GoOn == pc' = pc + 1
NoIf == shadow' = FALSE /\ UNCHANGED intr

(* Operations that touch nothing modelled here, when they return.          *)
Elsewhere ==
  /\ \E name \in {"kinit1", "terminal_initialize", "rtc_handler",
                  "rtc_print_struct", "paging_install", "call"} : Thread(name)
  /\ GoOn /\ NoIf
  /\ UNCHANGED <<tables, pic, pit, timer, rtc>>

(* "low" and "stale": entry 0 of entrypgdir maps the first 4 MB at their   *)
(* physical address, or only the TLB may still do so.  "high": eip is      *)
(* where the kernel is linked.                                             *)
Becomes(name) ==
  CASE name = "orl_cr4"             -> machine \cup {"PSE"}
    [] name = "movl_cr3"            -> machine \cup {"CR3"}
    [] name = "orl_cr0"             -> machine \cup {"PG"}
    [] name = "jmp_start_high"      -> machine \cup {"high"}
    [] name = "movl_entrypgdir"     -> (machine \ {"low"}) \cup {"stale"}
    [] name = "invlpg"              -> machine \ {"stale"}
    [] name = "movl_esp"            -> machine \cup {"stack"}
    [] name = "jmp_kernel_main"     -> machine \cup {"high"}
    [] name = "lgdt"                -> machine \cup {"gp"}
    [] name = "movw_segments"       -> machine \cup {"data"}
    [] name = "ljmp"                -> machine \cup {"code"}

SetUp ==
  /\ pc < Main + Len(gdt)
  /\ Thread(Now.op)
  /\ machine' = Becomes(Now.op)
  /\ IF Now.op = "jmp_kernel_main"
     THEN pc' = Main ELSE GoOn
  /\ NoIf
  /\ UNCHANGED <<idtr, gate, handler, pic, pit, timer, rtc>>

Table(name, newIdtr, newGate, newHandler) ==
  /\ Thread(name)
  /\ GoOn /\ NoIf
  /\ idtr' = newIdtr /\ gate' = newGate /\ handler' = newHandler
  /\ UNCHANGED <<machine, pic, pit, timer, rtc>>

NoHandlers == [n \in 32 .. 47 |-> "none"]

set_irq == 32 .. 47

(* What idt and set_irq put into an entry; the rest of id[] is zeroes.     *)
Gate(v) == set_idt(StubAt[v], 8, 142)

Tables ==
  \/ Table("clear_id", idtr, {}, handler)
  \/ Table("isr_gates", idtr, gate \cup 0 .. 31, handler)
  \/ Table("irq_gates", idtr, gate \cup set_irq, handler)
  \/ Table("lidt", TRUE, gate, handler)
  \/ Table("clear_handlers", idtr, gate, NoHandlers)

Sti ==
  /\ Thread("sti")
  /\ GoOn
  /\ intr' = TRUE
  /\ shadow' = ~intr
  /\ UNCHANGED <<tables, pic, pit, timer, rtc>>

(* register_interrupt_handler(32, &timer_callback)                         *)
RegisterTimer ==
  /\ Thread("register_timer")
  /\ GoOn /\ NoIf
  /\ handler' = [handler EXCEPT ![32] = "timer_callback"]
  /\ UNCHANGED <<machine, idtr, gate, pic, pit, timer, rtc>>

OutPic ==
  /\ Thread("outb") /\ Now.port \in {32, 33, 160, 161}
  /\ GoOn /\ NoIf
  /\ pic' = PicWrite(Now.port, Now.v)
  /\ UNCHANGED <<tables, pit, timer, rtc>>

OutPit ==
  /\ Thread("outb") /\ Now.port = 64
  /\ GoOn /\ NoIf
  /\ pit' = PitWrite(Now.v)
  /\ UNCHANGED <<tables, pic, timer, rtc>>

OutCmos ==
  /\ Thread("outb") /\ Now.port = 112
  /\ GoOn /\ NoIf
  /\ cmos' = Now.v
  /\ UNCHANGED <<tables, pic, pit, timer, status, regB, regC>>

ReadStatus ==
  /\ Thread("read_status")
  /\ GoOn /\ NoIf
  /\ status' = regB
  /\ UNCHANGED <<tables, pic, pit, timer, cmos, regB, regC>>

(* Update-ended interrupts on, alarm and periodic interrupts off.  The     *)
(* write may raise line 8 for a flag that is already set.                  *)
NewStatus == (status \cup {"update"}) \ {"alarm", "periodic"}

WriteStatus ==
  /\ Thread("write_status")
  /\ GoOn /\ NoIf
  /\ regB' = NewStatus
  /\ IF Irq8Edge(NewStatus, regC) THEN Raise(8) ELSE UNCHANGED pic
  /\ UNCHANGED <<tables, pit, timer, cmos, status, regC>>

(* Reading register C clears it, and lets line 8 rise again.               *)
ReadC ==
  /\ Thread("read_C")
  /\ GoOn /\ NoIf
  /\ regC' = {}
  /\ UNCHANGED <<tables, pic, pit, timer, cmos, status, regB>>

SleepEnter ==
  /\ Thread("set_end")
  /\ GoOn /\ NoIf
  /\ end' = (tick + SleepTicks) % TickMod
  /\ elapsed' = 0
  /\ UNCHANGED <<tables, pic, pit, tick, lag, rtc>>

(* One turn of the loop of sleep.                                          *)
Awake_Early == tick + 1 >= end
Awake == tick >= end

SleepTurn ==
  /\ Thread("while_tick_below_end")
  /\ IF Awake THEN GoOn ELSE UNCHANGED pc
  /\ NoIf
  /\ UNCHANGED <<tables, pic, pit, timer, rtc>>

(* hlt; jmp die: the thread wakes for each interrupt and halts again.      *)
Die ==
  /\ Thread("die")
  /\ NoIf
  /\ UNCHANGED <<pc, tables, pic, pit, timer, rtc>>

ThreadStep ==
  \/ SetUp \/ Elsewhere \/ Tables \/ Sti \/ RegisterTimer
  \/ OutPic \/ OutPit \/ OutCmos
  \/ ReadStatus \/ WriteStatus \/ ReadC
  \/ SleepEnter \/ SleepTurn \/ Die

-----------------------------------------------------------------------------
(* Interrupts and page faults.                                             *)

(* The stub an entry leads to, for the entries that are interrupt gates.   *)
Leads ==
  {e \in (0 .. 47) \X (0 .. 47) :
     LET g == Gate(e[1]) IN
     /\ Present(g) /\ InterruptGate(g)
     /\ FlatCode(Selected(g.selector))
     /\ Offset(g) = StubAt[e[2]]}

Lands(vector, stub) == idtr /\ vector \in gate /\ <<vector, stub>> \in Leads

(* For some days and months rtc_print_struct copies a string whose address *)
(* it takes from outside of dates_str or months_str; pagewalk clears page  *)
(* 0 when the pool is empty, and mappages stores through a pointer it      *)
(* never sets.  What they reach there may not be mapped.                   *)
Wild == {"rtc_print_struct", "paging_install"}

(* The page fault goes through gate 14, which clears IF.  isr_handler and  *)
(* page_fault print and end in die(), which never returns to the thread.   *)
PageFault ==
  /\ Now.op \in Wild
  /\ frame = <<>>
  /\ ~Due
  /\ Lands(14, 14)
  /\ frame' = <<[vec |-> 14, at |-> "die"]>>
  /\ intr' = FALSE
  /\ rested' = TRUE
  /\ UNCHANGED <<pc, shadow, tables, pic, pit, timer, rtc, obf>>

(* No interrupt ends this hlt.  Time goes by.                              *)
Halt ==
  /\ Halted
  /\ rested' = TRUE
  /\ UNCHANGED <<cpu, tables, pic, pit, timer, rtc, obf>>

(* The CPU takes the interrupt through the gate of its vector, which clears *)
(* IF, and gets to the stub at the gate's offset: it pushes its own number. *)
Interrupt ==
  /\ Due
  /\ \E stub \in 32 .. 47 :
       Lands(NextVector, stub) /\ frame' = Append(frame, [vec |-> stub, at |-> "slave_eoi"])
  /\ pic' = Acknowledge
  /\ intr' = FALSE
  /\ UNCHANGED <<pc, shadow, tables, pit, rested, timer, rtc, obf>>

Handler(at) ==
  /\ frame # <<>>
  /\ Running.at = at
  /\ ~Due
  /\ UNCHANGED <<pc, tables, pit, rested, rtc, obf>>

Goto(at) == frame' = [frame EXCEPT ![Len(frame)].at = at]

(* if (regs.int_no >= 40) outb(0x20, 0xA0)                                 *)
FromSlavePic_Late(vec) == vec > 40
FromSlavePic(vec) == vec >= 40

EoiSlave ==
  /\ Handler("slave_eoi")
  /\ pic' = IF FromSlavePic(Running.vec) THEN PicWrite(160, 32) ELSE pic
  /\ Goto("master_eoi")
  /\ NoIf
  /\ UNCHANGED timer

EoiMaster ==
  /\ Handler("master_eoi")
  /\ pic' = PicWrite(32, 32)
  /\ Goto("dispatch")
  /\ NoIf
  /\ UNCHANGED timer

(* handler = interrupt_descriptors[regs.int_no]; if (handler) ...          *)
Callee_Unchecked(vec) == handler[vec]
Callee(vec) == IF handler[vec] = "none" THEN "sti" ELSE handler[vec]

Dispatch ==
  /\ Handler("dispatch")
  /\ Goto(Callee(Running.vec))
  /\ NoIf
  /\ UNCHANGED <<pic, timer>>

NextTick == (tick + 1) % TickMod

TimerCallback ==
  /\ Handler("timer_callback")
  /\ tick' = NextTick
  /\ lag' = lag - 1
  /\ Goto("sti")
  /\ NoIf
  /\ UNCHANGED <<end, elapsed, pic>>

(* sti holds interrupts off for one more instruction if they were off: the *)
(* iretl, which follows it at once.  With addl in between it would be over.*)
Delayed_StiBeforeAddl == FALSE
Delayed == ~intr

StubSti ==
  /\ Handler("sti")
  /\ intr' = TRUE
  /\ shadow' = Delayed
  /\ Goto("iret")
  /\ UNCHANGED <<pic, timer>>

(* iretl restores the flags of the interrupted code, which had IF set.     *)
Iret ==
  /\ Handler("iret")
  /\ frame' = SubSeq(frame, 1, Len(frame) - 1)
  /\ intr' = TRUE
  /\ shadow' = FALSE
  /\ UNCHANGED <<pic, timer>>

HandlerStep ==
  EoiSlave \/ EoiMaster \/ Dispatch \/ TimerCallback \/ StubSti \/ Iret

-----------------------------------------------------------------------------
(* The devices.                                                            *)

(* The PIT's period is far longer than any operation or turn of a loop of  *)
(* the thread: the thread executes something between two pulses.           *)
PitPulse ==
  /\ 0 \in Lines
  /\ rested
  /\ rested' = FALSE
  /\ Raise(0)
  /\ lag' = IF handler[32] = "none" \/ Halted THEN 0 ELSE lag + 1
  /\ elapsed' = IF Now.op = "while_tick_below_end" /\ elapsed <= SleepTicks
                THEN elapsed + 1 ELSE elapsed
  /\ UNCHANGED <<cpu, tables, pit, tick, end, rtc, obf>>

RtcEvent(e) ==
  /\ 8 \in Lines
  /\ e \notin regC
  /\ regC' = regC \cup {e}
  /\ IF Irq8Edge(regB, regC') THEN Raise(8) ELSE UNCHANGED pic
  /\ UNCHANGED <<cpu, tables, pit, rested, timer, cmos, status, regB, obf>>

(* The keyboard controller raises line 1 when it has a byte and not again  *)
(* before somebody reads it, which no code of the kernel does.             *)
Key ==
  /\ 1 \in Lines
  /\ ~obf
  /\ obf' = TRUE
  /\ Raise(1)
  /\ UNCHANGED <<cpu, tables, pit, rested, timer, rtc>>

Cpu == ThreadStep \/ PageFault \/ Halt \/ Interrupt \/ HandlerStep

Next ==
  \/ Cpu
  \/ PitPulse
  \/ \E e \in Events : RtcEvent(e)
  \/ Key

(* The CPU executes, unless it stands halted, and the PIT keeps running.   *)
Fairness == WF_vars(Cpu) /\ WF_vars(PitPulse)

Spec == Init /\ [][Next]_vars
FairSpec == Spec /\ Fairness

-----------------------------------------------------------------------------
Byte == 0 .. 255
Reload == 0 .. 65536
Chip == [base : Nat, icw : {0, 2, 3, 4}, mask : SUBSET (0 .. 7),
         irr : SUBSET (0 .. 7), isr : SUBSET (0 .. 7)]

(* Types; an interrupt is at a place of irq_common_stub, of irq_handler or *)
(* of the one handler there is, and never at a null interrupt_descriptors  *)
(* entry; and the only exception that comes is the page fault.             *)
IrqFrame ==
  [vec : 32 .. 47,
   at : {"slave_eoi", "master_eoi", "dispatch", "timer_callback", "sti", "iret"}]
FaultFrame == [vec : {14}, at : {"die"}]

TypeOK ==
  /\ pc \in 1 .. Len(Program)
  /\ machine \subseteq {"PSE", "CR3", "PG", "low", "stale", "high", "stack",
                  "gp", "data", "code"}
  /\ intr \in BOOLEAN /\ shadow \in BOOLEAN
  /\ frame \in Seq(IrqFrame \cup FaultFrame)
  /\ idtr \in BOOLEAN
  /\ gate \subseteq 0 .. 47
  /\ handler \in [32 .. 47 -> {"none", "timer_callback"}]
  /\ pic \in [Chips -> Chip]
  /\ pit \in [reload : Reload, half : BOOLEAN, low : Byte]
  /\ rested \in BOOLEAN /\ obf \in BOOLEAN
  /\ tick \in 0 .. TickMod - 1 /\ end \in 0 .. TickMod - 1
  /\ cmos \in Nat
  /\ status \subseteq Signals /\ regB \subseteq Signals /\ regC \subseteq Events
  /\ lag \in Int /\ elapsed \in Nat

(* The 4 MB pages entrypgdir maps, and the addresses operations use.       *)
entrypgdir == {512} \cup (IF "low" \in machine THEN {0} ELSE {})
PDE(a) == 4 * a[4] + a[3] \div 64
Mapped(a) == "PG" \in machine => PDE(a) \in entrypgdir

Linked == <<0, 0, 16, 128>>
Loaded == <<0, 0, 16, 0>>
Touched ==
  {IF "high" \in machine THEN Linked ELSE Loaded} \cup
  (IF "stack" \in machine THEN {Linked} ELSE {}) \cup
  CASE Now.op = "movl_entrypgdir"     -> {Loaded}
    [] Now.op = "kinit1"              -> {Linked, <<255, 255, 63, 128>>}
    [] Now.op = "paging_install"      -> {Linked, <<255, 255, 63, 128>>}
    [] Now.op = "terminal_initialize" -> {<<0, 128, 11, 128>>, <<159, 143, 11, 128>>}
    [] OTHER                          -> {}

(* Whatever the CPU does next, its code, its stack and the memory it       *)
(* touches are mapped and its segments are those of gp, in both files that *)
(* have a _start; what an operation of Wild reaches through its pointer    *)
(* need not be, and gate 14 then ends in the stub of page faults; and      *)
(* whenever the CPU is about to take an interrupt, the request of line l   *)
(* comes through a gate that ends in the stub of l, with interrupts off:   *)
(* the order of _start, kernel_main and idt, and every field of the        *)
(* descriptors.                                                            *)
ControlLands ==
  /\ "PG" \in machine => {"PSE", "CR3"} \subseteq machine
  /\ {"high", "stack"} \cap machine # {} => "PG" \in machine
  /\ \A a \in Touched : Mapped(a)
  /\ InMain => {"high", "stack"} \subseteq machine /\ "stale" \notin machine
  /\ "data" \in machine => "gp" \in machine /\ FlatData(Selected(16))
  /\ "code" \in machine => "gp" \in machine /\ FlatCode(Selected(8))
  /\ Now.op \in Wild => "code" \in machine /\ Lands(14, 14)
  /\ Due => "code" \in machine /\ Lands(NextVector, 32 + NextLine)

(* The in-service bits of the two 8259s are those of the one interrupt     *)
(* whose end-of-interrupt is still to be sent: no EOI is missing, doubled  *)
(* or sent to the wrong chip, whatever comes in meanwhile.                 *)
Waiting(at) == {frame[i].vec - 32 : i \in {j \in 1 .. Len(frame) : frame[j].at \in at}}
InServiceExact ==
  /\ pic["slave"].isr = {l - 8 : l \in {w \in Waiting({"slave_eoi"}) : w >= 8}}
  /\ pic["master"].isr =
       {IF l < 8 THEN l ELSE 2 : l \in Waiting({"slave_eoi", "master_eoi"})}

(* The EOIs are sent before the handler runs, and yet no interrupt ever    *)
(* arrives on top of another or of a page fault: the 4 KB stack of boot.S  *)
(* holds one frame.                                                        *)
NoNesting == Len(frame) <= 1

(* After init_timer, tick lacks at most the one pulse that is still in the *)
(* PIC or on its way to timer_callback, as long as the CPU is not halted.  *)
TicksCounted ==
  handler[32] # "none" /\ ~Halted =>
    lag = (IF \/ 0 \in pic["master"].irr
              \/ \E i \in 1 .. Len(frame) :
                   /\ frame[i].vec = 32
                   /\ frame[i].at \notin {"sti", "iret"}
           THEN 1 ELSE 0)

(* sleep(n) does not return before n - 1 milliseconds have gone by, whole  *)
(* periods of channel 0 at the rate the bytes of init_timer give it.       *)
SleepLongEnough ==
  Now.op = "rtc_handler" =>
    elapsed >= SleepTicks /\ pit.reload * (elapsed - 1) >= Divisor * (SleepTicks - 1)

(* Sleep does return, and the boot thread gets to paging_install unless    *)
(* rtc_print_struct has faulted.                                           *)
ReachesPaging == <>(Now.op = "paging_install" \/ Halted)

(* A device that raises its line once interrupts are on, and before a page *)
(* fault has halted the CPU, is served: no stuck EOI and no stream of timer *)
(* interrupts keeps it waiting for ever, and the thread does not run into  *)
(* its fault with the request still in the PIC.  A line that rises after   *)
(* the fault is never served.  That each pulse of the PIT is served in     *)
(* time is part of TicksCounted.                                           *)
LineServed ==
  \A l \in Lines \ {0} :
    (pc > StiAt /\ ~Halted /\ l % 8 \in pic[ChipOf(l)].irr) ~>
      (\E i \in 1 .. Len(frame) : frame[i].vec = 32 + l)
=============================================================================
