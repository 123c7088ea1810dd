----------------------------- MODULE Exceptions -----------------------------
(***************************************************************************)
(* What the kernel prints, and the exceptions it prints about.  The thread *)
(* prints the time with rtc_print_struct (drivers/rtc/clock.c) or anything *)
(* with kprintf; an exception takes it through a gate, one of the stubs    *)
(* and isr_common_stub of boot.S to isr_handler (io/isrs.c), and for a     *)
(* page fault to page_fault (mmu/mmu.c), and back.  The printing itself is *)
(* in Printf.  An exception comes between two messages of the thread.      *)
(***************************************************************************)
EXTENDS Printf

CONSTANTS
  Vectors,    (* the exceptions the processor raises                        *)
  Addresses,  (* the addresses of page faults                               *)
  Times,      (* what current_time may hold                                 *)
  Numbers     (* the integers kprintf is given                              *)

Byte == 0 .. 255

(* The exceptions from 18 on have to be enabled in CR4, where the kernel   *)
(* sets PSE only; the fields of a time are bytes.                          *)
ASSUME ExceptionsAssumption ==
  /\ Vectors \subseteq 0 .. 17
  /\ Times \subseteq [day_of_week : Byte, month : Byte, hour : Byte, minute : Byte,
                     second : Byte, century : Byte, year : Byte]
  /\ Addresses \subseteq 0 .. Word - 1
  /\ Numbers \subseteq -(Word \div 2) .. (Word \div 2) - 1

VARIABLES
  at,         (* "thread", or how far the exception has come                *)
  vector,     (* the gate the exception went through                        *)
  cr2,        (* the address of the last page fault                         *)
  stack,      (* what has been pushed on the thread's stack, the top last   *)
  expected,   (* history: the text that is due                              *)
  outside     (* history: a name was read from outside of its table, or it  *)
              (* is the name of a day that no week has                      *)

vars == <<printing, at, vector, cr2, stack, expected, outside>>

-----------------------------------------------------------------------------
(* The messages.                                                           *)

dates_str == <<"Mon", "Tue", "Wed", "Thu", "Fri", "Sat", "Sun">>
months_str == <<"Jan", "Feb", "Mar", "Apr", "May", "Jun", "Jul",
                "Aug", "Sept", "Oct", "Nov", "Dec">>

(* dates_str[num-2] and months_str[num-1].                                 *)
DayEntry(num) == num - 1
MonthEntry(num) == num

(* Outside of a table there may be anything.                               *)
Name(table, k) == IF k \in 1 .. Len(table) THEN table[k] ELSE "garbage"

date_to_text(num) == Name(dates_str, DayEntry(num))
month_to_text(num) == Name(months_str, MonthEntry(num))

Invalid(num, last, message) ==
  IF num < 1 \/ num > last THEN <<Kprintf(<<message>>, <<>>)>> ELSE <<>>

TimeFormat ==
  <<"%", "s", " ", "%", "s", " ", "%", "x", ":", "%", "x", ":", "%", "x",
    " UTC ", "%", "x", "%", "x", "\n">>

rtc_print_struct(t) ==
  Invalid(t.day_of_week, 7, "Invalid Week") \o
  Invalid(t.month, 12, "Invalid Month") \o
  <<Kprintf(TimeFormat,
      <<Str(<<date_to_text(t.day_of_week)>>), Str(<<month_to_text(t.month)>>),
        Num(t.hour), Num(t.minute), Num(t.second), Num(t.century), Num(t.year)>>)>>

(* page_fault looks at the error code in regs of boot.h, a variable nobody *)
(* writes, and not at the one on the stack.                                *)
ErrCode == 0

page_fault ==
  <<Kprintf(<<"Page Fault! ( ">>, <<>>)>> \o
  (IF ErrCode % 2 = 0 THEN <<Kprintf(<<"present ">>, <<>>)>> ELSE <<>>) \o
  <<Kprintf(<<") at 0x">>, <<>>), Hex(cr2), Kprintf(<<"\n">>, <<>>)>>

isr_handler(int_no) ==
  <<Kprintf(<<"Recieved interrupt:">>, <<>>),
    Kprintf(<<"%", "d">>, <<Num(int_no)>>), Kprintf(<<"\n">>, <<>>)>>
  \o (IF int_no = 14 THEN page_fault ELSE <<>>)

-----------------------------------------------------------------------------
(* The stack.  pushal's eight registers count as one word.                 *)

Item(what, val) == <<[what |-> what, val |-> val]>>
Top(k) == stack[Len(stack) - k]
Popped(k) == SubSeq(stack, 1, Len(stack) - k)

(* The vectors with which the processor pushes an error code, and those    *)
(* whose stub relies on it.                                                *)
HasErrorCode == {8, 10, 11, 12, 13, 14, 17, 21, 29, 30}
ISR_ERRORCODE_From15 == {8} \cup 10 .. 31
ISR_ERRORCODE == {8} \cup 10 .. 14 \cup 17 .. 31

(* isr_common_stub has pushed ds and pushal; the vector lies below them.   *)
int_no == Top(2).val

Init ==
  /\ PrintfInit
  /\ at = "thread"
  /\ vector = 0 /\ cr2 = 0
  /\ stack = <<>>
  /\ expected = <<>>
  /\ outside = FALSE

Thread == at = "thread" /\ NothingToPrint /\ expected = <<>>
PrintNext(calls, text) == MakeCalls(calls) /\ expected' = text

(* The names by the numbers of the clock, whose week begins on Sunday.     *)
DayName == <<"Sun", "Mon", "Tue", "Wed", "Thu", "Fri", "Sat">>

TimeText(t) ==
  <<Name(DayName, t.day_of_week), " ", Name(months_str, t.month), " ">> \o
  Numeral(t.hour, 16) \o <<":">> \o Numeral(t.minute, 16) \o <<":">> \o
  Numeral(t.second, 16) \o <<" UTC ">> \o
  Numeral(t.century, 16) \o Numeral(t.year, 16) \o <<"\n">>

PrintTime(t) ==
  /\ PrintNext(rtc_print_struct(t), TimeText(t))
  /\ outside' = (\/ DayEntry(t.day_of_week) \notin 1 .. Len(dates_str)
                 \/ t.day_of_week \notin 1 .. Len(DayName)
                 \/ MonthEntry(t.month) \notin 1 .. Len(months_str))
  /\ UNCHANGED <<at, vector, cr2, stack>>

(* Any other call of kprintf or terminal_write_hex.                        *)
Message(m) ==
  /\ PrintNext(<<m.call>>, m.text)
  /\ outside' = FALSE
  /\ UNCHANGED <<at, vector, cr2, stack>>

Calling(c, t) == [call |-> c, text |-> t]

Messages ==
  {Calling(Kprintf(<<"%", c, ".">>, <<Num(x)>>), Converted(c, Num(x)) \o <<".">>) :
     c \in {"d", "u", "x"}, x \in Numbers}
  \cup {Calling(Hex(x % Word), Numeral(x % Word, 16)) : x \in Numbers}
  \cup {Calling(Kprintf(<<"%", "s", "%", "c">>, <<Null, Str(<<"z">>)>>), <<"(null)", "z">>)}

(* The thread goes on after a message: what was printed is not kept.       *)
GoOn ==
  /\ at = "thread" /\ NothingToPrint
  /\ expected # <<>>
  /\ PrintNext(<<>>, <<>>)
  /\ outside' = FALSE
  /\ UNCHANGED <<at, vector, cr2, stack>>

(* The gate: eflags, cs and eip, and for some vectors an error code.       *)
Exception(v) ==
  /\ Thread
  /\ vector' = v
  /\ cr2' \in IF v = 14 THEN Addresses ELSE {cr2}
  /\ stack' = stack \o Item("eflags", 0) \o Item("cs", 8) \o Item("eip", 0)
                    \o (IF v \in HasErrorCode THEN Item("err", 0) ELSE <<>>)
  /\ at' = "stub"
  /\ UNCHANGED <<printing, expected, outside>>

(* ISR_NOERRORCODE or ISR_ERRORCODE, and isr_common_stub up to its call.   *)
Stub ==
  /\ at = "stub"
  /\ stack' = stack \o (IF vector \in ISR_ERRORCODE THEN <<>> ELSE Item("err", 0))
                    \o Item("int_no", vector) \o Item("pushal", 0) \o Item("ds", 16)
  /\ at' = "call"
  /\ UNCHANGED <<printing, vector, cr2, expected, outside>>

FaultText == <<"Page Fault! ( ", "present ", ") at 0x">> \o Numeral(cr2, 16) \o <<"\n">>

Handle ==
  /\ at = "call"
  /\ PrintNext(isr_handler(int_no),
               <<"Recieved interrupt:">> \o Numeral(vector, 10) \o <<"\n">>
               \o (IF vector = 14 THEN FaultText ELSE <<>>))
  /\ outside' = FALSE
  /\ at' = "report"
  /\ UNCHANGED <<vector, cr2, stack>>

(* page_fault ends in die().                                               *)
Die ==
  /\ at = "report" /\ NothingToPrint
  /\ int_no = 14
  /\ at' = "dead"
  /\ UNCHANGED <<printing, vector, cr2, stack, expected, outside>>

(* popl, popal and addl $8; sti and iretl follow.                          *)
Return ==
  /\ at = "report" /\ NothingToPrint
  /\ int_no # 14
  /\ stack' = Popped(4)
  /\ at' = "iret"
  /\ UNCHANGED <<printing, vector, cr2, expected, outside>>

Iret ==
  /\ at = "iret"
  /\ stack' = Popped(3)
  /\ at' = "thread"
  /\ vector' = 0
  /\ UNCHANGED <<printing, cr2, expected, outside>>

Inside ==
  \/ Printing /\ UNCHANGED <<at, vector, cr2, stack, expected, outside>>
  \/ GoOn \/ Stub \/ Handle \/ Die \/ Return \/ Iret

Next ==
  \/ Thread /\ \E t \in Times : PrintTime(t)
  \/ Thread /\ \E m \in Messages : Message(m)
  \/ \E v \in Vectors : Exception(v)
  \/ Inside

Spec == Init /\ [][Next]_vars

(* Neither the printing loops nor the exception path wait for anything.    *)
FairSpec == Spec /\ WF_vars(Inside)

-----------------------------------------------------------------------------
(* Types; the variables of the loops stay in their ranges.                 *)
TypeOK ==
  /\ PrintfTypeOK
  /\ at \in {"thread", "stub", "call", "report", "iret", "dead"}
  /\ vector \in 0 .. 31
  /\ cr2 \in 0 .. Word - 1
  /\ outside \in BOOLEAN

(* What has been printed when a message is through is what it was to say:  *)
(* every number in its own place, sign and base, without a digit too many  *)
(* or too few, each argument once, and the vector and the address of the   *)
(* exception that came.                                                    *)
TextExact == NothingToPrint /\ ~outside => out = expected

(* iretl finds the interrupted code's eip, cs and eflags on the stack: the *)
(* stub of every vector agrees with the processor about the error code.    *)
FrameRestored ==
  /\ at = "iret" => [k \in 1 .. Len(stack) |-> stack[k].what] = <<"eflags", "cs", "eip">>
  /\ at = "thread" => stack = <<>>

(* A message or the report of an exception comes to its end.               *)
ReportsEnd == (~Thread /\ at # "dead") ~> (Thread \/ at = "dead")
=============================================================================
