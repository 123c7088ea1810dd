-------------------------------- MODULE Rtc --------------------------------
(***************************************************************************)
(* rtc_handler and rtc_print_struct of drivers/rtc/clock.c against a real  *)
(* time clock that goes on counting while its registers are read one by    *)
(* one.  The calendar's sizes are constants; months have equal length and  *)
(* a year always has twelve of them.                                       *)
(***************************************************************************)
EXTENDS Integers, Sequences

CONSTANTS
  SecondsPerMinute, MinutesPerHour, HoursPerDay,   (* 60, 60 and 24         *)
  DaysPerMonth, YearsPerCentury,                   (* 28 to 31, and 100     *)
  Starts,        (* the times at which rtc_handler may be called            *)
  MaxTicks       (* bound: seconds that end during a read and before it     *)

(* The times the chip keeps, two decimal digits to a field.                *)
Clocks ==
  [second : 0 .. SecondsPerMinute - 1, minute : 0 .. MinutesPerHour - 1,
   hour : 0 .. HoursPerDay - 1, day_of_week : 1 .. 7,
   day_of_month : 1 .. DaysPerMonth, month : 1 .. 12,
   year : 0 .. YearsPerCentury - 1, century : 0 .. 99]

ASSUME RtcAssumption ==
  /\ {SecondsPerMinute, MinutesPerHour, HoursPerDay, DaysPerMonth,
      YearsPerCentury, MaxTicks} \subseteq Nat \ {0}
  /\ \A size \in {SecondsPerMinute, MinutesPerHour, HoursPerDay, YearsPerCentury} :
       size <= 100
  /\ DaysPerMonth < 100
  /\ Starts \subseteq Clocks

VARIABLES
  clock,         (* the time the chip keeps                                 *)
  binary,        (* the chip counts in binary and not in BCD                *)
  uip,           (* it is in an update cycle                                *)
  pc,            (* registers read so far, and then what follows            *)
  current_time,  (* the variable of that name                               *)
  first,         (* history: the clock when the first register was read     *)
  ticks,         (* history: seconds that have ended since then              *)
  garbled        (* history: a register was read during an update           *)

vars == <<clock, binary, uip, pc, current_time, first, ticks, garbled>>

(* The order of the eight read_register calls.                             *)
Order_MsbFirst ==
  <<"hour", "minute", "second", "month", "year",
    "day_of_week", "day_of_month", "century">>
Order ==
  <<"second", "minute", "hour", "month", "year",
    "day_of_week", "day_of_month", "century">>

Fields == {"second", "minute", "hour", "month", "year",
           "day_of_week", "day_of_month", "century"}

(* The register numbers rtc_handler asks for, and what the chip keeps in   *)
(* the registers of those numbers.                                         *)
Number_DaysSwapped ==
  [second |-> 0, minute |-> 2, hour |-> 4, month |-> 8, year |-> 9,
   day_of_week |-> 7, day_of_month |-> 6, century |-> 50]
Number ==
  [second |-> 0, minute |-> 2, hour |-> 4, month |-> 8, year |-> 9,
   day_of_week |-> 6, day_of_month |-> 7, century |-> 50]

Content(number) ==
  CASE number = 0 -> "second"      [] number = 2 -> "minute"
    [] number = 4 -> "hour"        [] number = 6 -> "day_of_week"
    [] number = 7 -> "day_of_month" [] number = 8 -> "month"
    [] number = 9 -> "year"        [] number = 50 -> "century"

(* A second later.  Each field moves on when the one below it starts over. *)
Advance(t) ==
  LET minute  == t.second = SecondsPerMinute - 1
      hour    == minute /\ t.minute = MinutesPerHour - 1
      day     == hour /\ t.hour = HoursPerDay - 1
      month   == day /\ t.day_of_month = DaysPerMonth
      year    == month /\ t.month = 12
      century == year /\ t.year = YearsPerCentury - 1
      Up(carry, x, size) == IF carry THEN (x + 1) % size ELSE x
  IN [second       |-> (t.second + 1) % SecondsPerMinute,
      minute       |-> Up(minute, t.minute, MinutesPerHour),
      hour         |-> Up(hour, t.hour, HoursPerDay),
      day_of_week  |-> IF day THEN (t.day_of_week % 7) + 1 ELSE t.day_of_week,
      day_of_month |-> IF day THEN (t.day_of_month % DaysPerMonth) + 1
                       ELSE t.day_of_month,
      month        |-> IF month THEN (t.month % 12) + 1 ELSE t.month,
      year         |-> Up(year, t.year, YearsPerCentury),
      century      |-> Up(century, t.century, 100)]

(* A register as the processor sees it.                                    *)
Bcd(x) == 16 * (x \div 10) + (x % 10)
Register(t, f) == IF binary THEN t[f] ELSE Bcd(t[f])
Shown(t) == [f \in Fields |-> Register(t, f)]

Init ==
  /\ clock \in Starts
  /\ binary \in BOOLEAN
  /\ uip = FALSE
  /\ pc = 0
  /\ current_time = [f \in Fields |-> 0]
  /\ first = clock
  /\ ticks = 0
  /\ garbled = FALSE

Reading == pc < Len(Order)

(* One update cycle a second, whatever the processor does.                 *)
BeginUpdate ==
  /\ ~uip
  /\ Reading
  /\ ticks < MaxTicks
  /\ uip' = TRUE
  /\ UNCHANGED <<clock, binary, pc, current_time, first, ticks, garbled>>

EndUpdate ==
  /\ uip
  /\ uip' = FALSE
  /\ clock' = Advance(clock)
  /\ ticks' = ticks + 1
  /\ UNCHANGED <<binary, pc, current_time, first, garbled>>

(* One assignment of the loop of rtc_handler.  The update-in-progress flag *)
(* of register A is not asked for, and what the chip returns during an     *)
(* update is undefined: Undefined stands for it.                           *)
Undefined == 255

ReadRegister ==
  LET f == Order[pc + 1] IN
  /\ Reading
  /\ current_time' =
       [current_time EXCEPT ![f] = IF uip THEN Undefined
                               ELSE Register(clock, Content(Number[f]))]
  /\ first' = IF pc = 0 THEN clock ELSE first
  /\ garbled' = (garbled \/ uip)
  /\ ticks' = IF pc = 0 THEN 0 ELSE ticks
  /\ pc' = pc + 1
  /\ UNCHANGED <<clock, binary, uip>>

(* The loop compares curr and last.  No turn of it assigns to curr: the    *)
(* two differ before the first turn, where last is all 0xFF and curr.year  *)
(* is 0, and are equal after it, so the registers are read once.           *)
Returned == pc = Len(Order)

Next == BeginUpdate \/ EndUpdate \/ ReadRegister

Spec == Init /\ [][Next]_vars

-----------------------------------------------------------------------------
Byte == 0 .. 255

(* What the registers of each field can hold, and what a field can hold    *)
(* once it has been read.                                                  *)
Kept ==
  [second |-> 0 .. SecondsPerMinute - 1, minute |-> 0 .. MinutesPerHour - 1,
   hour |-> 0 .. HoursPerDay - 1, day_of_week |-> 1 .. 7,
   day_of_month |-> 1 .. DaysPerMonth, month |-> 1 .. 12,
   year |-> 0 .. YearsPerCentury - 1, century |-> 0 .. 99]

HasRead(f) == \E i \in 1 .. pc : Order[i] = f
Fits(f) ==
  \/ current_time[f] = Undefined
  \/ \E v \in Kept[f] : current_time[f] = IF binary THEN v ELSE Bcd(v)

(* Types; a field that has been read holds a value of its own register, or *)
(* what the chip returned during an update, even if seconds ended between  *)
(* the reads: rtc_print_struct indexes its tables with two of the fields.  *)
TypeOK ==
  /\ clock \in Clocks
  /\ binary \in BOOLEAN /\ uip \in BOOLEAN /\ garbled \in BOOLEAN
  /\ pc \in 0 .. Len(Order)
  /\ current_time \in [Fields -> Byte]
  /\ \A f \in Fields : HasRead(f) => Fits(f)
  /\ first \in Clocks
  /\ ticks \in 0 .. MaxTicks

HourLength == SecondsPerMinute * MinutesPerHour
DayLength == HourLength * HoursPerDay
TimeOfDay(t) == t.second + SecondsPerMinute * t.minute + HourLength * t.hour

Decoded(v) == IF binary THEN v ELSE 10 * (v \div 16) + (v % 16)
TimeRead == TimeOfDay([f \in Fields |-> Decoded(current_time[f])])

(* A read that no update cycle overlaps may be torn between registers, and *)
(* still the time of day it returns is not before the call and less than   *)
(* an hour after it: the least significant register is read first.         *)
NeverBehind ==
  Returned /\ ~garbled =>
    (TimeRead - TimeOfDay(first)) % DayLength < ticks + HourLength

(* When no second ends during the read, every field comes from its own     *)
(* register and the time returned is the time of the clock.                *)
QuietReadExact == Returned /\ ~garbled /\ ticks = 0 => current_time = Shown(clock)

(* "Keep reading time until we get the same values twice": the time        *)
(* returned is one that the clock showed during the call.                  *)
ReturnsATimeShown ==
  Returned /\ ~garbled => current_time \in {Shown(first), Shown(clock)}
=============================================================================
