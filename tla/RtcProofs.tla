------------------------------ MODULE RtcProofs ------------------------------
(***************************************************************************)
(* What holds of the time rtc_handler returns for every calendar whose     *)
(* fields have two decimal digits, every start and any number of seconds   *)
(* that end during the read, in BCD and in binary.                         *)
(***************************************************************************)
EXTENDS Rtc, TLAPS

(* The clock began an update only while the bound allowed one.             *)
Updating == uip => ticks < MaxTicks

(* The clock is ticks seconds ahead of first, whole days left out.         *)
Now == TimeOfDay(first) + ticks
Elapsed ==
  \E days \in Nat : Now = DayLength * days + TimeOfDay(clock)

(* Without a tick the clock has not moved, and what has been read is what  *)
(* it shows.                                                               *)
Still == ticks = 0 => clock = first
Quiet ==
  ~garbled /\ ticks = 0 =>
    \A i \in 1 .. pc : current_time[Order[i]] = Register(clock, Order[i])

(* The minute and the hour returned were shown at a moment x and at a      *)
(* moment y, in seconds since the midnight before first.                   *)
MinuteSeen(x) ==
  \E hours \in Nat, s \in 0 .. SecondsPerMinute - 1 :
    \E m \in 0 .. MinutesPerHour - 1 :
      /\ x = HourLength * hours + SecondsPerMinute * m + s
      /\ Decoded(current_time.minute) = m
HourSeen(y) ==
  \E days \in Nat, h \in 0 .. HoursPerDay - 1, rest \in 0 .. HourLength - 1 :
    /\ y = DayLength * days + HourLength * h + rest
    /\ Decoded(current_time.hour) = h

(* The three were read one after the other, the second first of all.       *)
Seen ==
  ~garbled =>
    /\ pc >= 1 => Decoded(current_time.second) = first.second
    /\ pc >= 2 => \E x \in TimeOfDay(first) .. Now :
                    /\ MinuteSeen(x)
                    /\ pc >= 3 => \E y \in x .. Now : HourSeen(y)

(* The inductive invariant.                                                *)
IInv == TypeOK /\ Updating /\ Elapsed /\ Still /\ Quiet /\ Seen

-----------------------------------------------------------------------------
(* Arithmetic: products of sizes, and remainders.                          *)

LEMMA Product ==
  ASSUME NEW a \in Nat \ {0}, NEW b \in Nat \ {0} PROVE a * b \in Nat \ {0}
  OBVIOUS

LEMMA Distribute ==
  ASSUME NEW a \in Int, NEW b \in Int, NEW c \in Int
  PROVE  a * (b + c) = a * b + a * c
  OBVIOUS

LEMMA Times ==
  ASSUME NEW a \in Nat, NEW b \in Nat PROVE a * b \in Nat
  OBVIOUS

LEMMA Associate ==
  ASSUME NEW a \in Int, NEW b \in Int, NEW c \in Int
  PROVE  (a * b) * c = a * (b * c)
  OBVIOUS

LEMMA Monotone ==
  ASSUME NEW a \in Nat, NEW b \in Int, NEW c \in Int, b <= c
  PROVE  a * b <= a * c
  OBVIOUS

(* A field that moves on stays below its size.                             *)
LEMMA Turn ==
  ASSUME NEW size \in Nat \ {0}, NEW x \in 0 .. size - 1
  PROVE  /\ (x + 1) % size \in 0 .. size - 1
         /\ x = size - 1 => (x + 1) % size = 0
         /\ x # size - 1 => (x + 1) % size = x + 1
  OBVIOUS

LEMMA Cycle ==
  ASSUME NEW size \in Nat \ {0}, NEW x \in 1 .. size
  PROVE  (x % size) + 1 \in 1 .. size
  OBVIOUS

(* Whole days do not count in a remainder, and what is left of a number    *)
(* that is not negative is not more than the number.                       *)
LEMMA Modulo ==
  ASSUME NEW n \in Nat \ {0}, NEW x \in Int, NEW q \in Int,
         x + n * q >= 0
  PROVE  x % n <= x + n * q
  <1> DEFINE r == x % n
             d == x \div n
  <1>1. r \in 0 .. n - 1 /\ d \in Int /\ x = n * d + r
    OBVIOUS
  <1> HIDE DEF r, d
  <1>2. x + n * q = n * (d + q) + r
    BY <1>1, Distribute
  <1>3. CASE d + q >= 0
    <2>1. n * (d + q) >= n * 0
      BY <1>1, <1>3, Monotone
    <2> QED
      BY <1>1, <1>2, <2>1 DEF r
  <1>4. CASE d + q < 0
    <2>1. n * (d + q) <= n * (-1)
      BY <1>1, <1>4, Monotone
    <2>2. n * (-1) = -n
      OBVIOUS
    <2> QED
      BY <1>1, <1>2, <2>1, <2>2
  <1> QED
    BY <1>1, <1>3, <1>4

-----------------------------------------------------------------------------
(* The calendar.                                                           *)

LEMMA Sizes ==
  /\ SecondsPerMinute \in Nat \ {0} /\ SecondsPerMinute <= 100
  /\ MinutesPerHour \in Nat \ {0} /\ MinutesPerHour <= 100
  /\ HoursPerDay \in Nat \ {0} /\ HoursPerDay <= 100
  /\ DaysPerMonth \in Nat \ {0} /\ DaysPerMonth < 100
  /\ YearsPerCentury \in Nat \ {0} /\ YearsPerCentury <= 100
  /\ MaxTicks \in Nat \ {0}
  BY RtcAssumption

LEMMA Lengths ==
  HourLength \in Nat \ {0} /\ DayLength \in Nat \ {0}
  BY Sizes, Product DEF HourLength, DayLength

LEMMA ClockFields ==
  ASSUME NEW t \in Clocks
  PROVE  /\ t.second \in 0 .. SecondsPerMinute - 1
         /\ t.minute \in 0 .. MinutesPerHour - 1
         /\ t.hour \in 0 .. HoursPerDay - 1
         /\ t.day_of_week \in 1 .. 7
         /\ t.day_of_month \in 1 .. DaysPerMonth
         /\ t.month \in 1 .. 12
         /\ t.year \in 0 .. YearsPerCentury - 1
         /\ t.century \in 0 .. 99
  BY DEF Clocks

(* Two digits suffice for every field.                                     *)
LEMMA TwoDigits ==
  ASSUME NEW t \in Clocks, NEW f \in Fields PROVE t[f] \in Nat /\ t[f] <= 99
  BY ClockFields, Sizes DEF Fields

LEMMA TimeIsNat ==
  ASSUME NEW t \in Clocks PROVE TimeOfDay(t) \in Nat
  <1>1. t.second \in Nat /\ t.minute \in Nat /\ t.hour \in Nat
    BY ClockFields, Sizes
  <1>2. SecondsPerMinute * t.minute \in Nat /\ HourLength * t.hour \in Nat
    BY <1>1, Sizes, Lengths, Times
  <1> QED
    BY <1>1, <1>2 DEF TimeOfDay

(* The seconds and the minutes of a time do not make an hour.              *)
LEMMA BelowTheHour ==
  ASSUME NEW s \in 0 .. SecondsPerMinute - 1, NEW m \in 0 .. MinutesPerHour - 1
  PROVE  /\ SecondsPerMinute * m \in Nat
         /\ SecondsPerMinute * m + s \in 0 .. HourLength - 1
  <1>1. SecondsPerMinute * m \in Nat
    BY Sizes, Times
  <1>2. SecondsPerMinute * m <= SecondsPerMinute * (MinutesPerHour - 1)
    BY Sizes, Monotone
  <1>3. SecondsPerMinute * (MinutesPerHour - 1) = HourLength - SecondsPerMinute
    <2>1. SecondsPerMinute * (MinutesPerHour + (-1))
            = SecondsPerMinute * MinutesPerHour + SecondsPerMinute * (-1)
      BY Sizes, Distribute
    <2> QED
      BY <2>1, Sizes DEF HourLength
  <1> QED
    BY <1>1, <1>2, <1>3, Sizes, Lengths

(* A second later every field is a field of the calendar again.            *)
LEMMA AdvanceFields ==
  ASSUME NEW t \in Clocks
  PROVE  /\ Advance(t).second = (t.second + 1) % SecondsPerMinute
         /\ Advance(t).minute =
              IF t.second = SecondsPerMinute - 1
              THEN (t.minute + 1) % MinutesPerHour ELSE t.minute
         /\ Advance(t).hour =
              IF t.second = SecondsPerMinute - 1 /\ t.minute = MinutesPerHour - 1
              THEN (t.hour + 1) % HoursPerDay ELSE t.hour
  BY DEF Advance

LEMMA AdvanceInClocks == ASSUME NEW t \in Clocks PROVE Advance(t) \in Clocks
  <1> DEFINE a == Advance(t)
  <1>1. /\ (t.second + 1) % SecondsPerMinute \in 0 .. SecondsPerMinute - 1
        /\ (t.minute + 1) % MinutesPerHour \in 0 .. MinutesPerHour - 1
        /\ (t.hour + 1) % HoursPerDay \in 0 .. HoursPerDay - 1
        /\ (t.year + 1) % YearsPerCentury \in 0 .. YearsPerCentury - 1
    BY ClockFields, Sizes, Turn
  <1>2. (t.century + 1) % 100 \in 0 .. 99
    BY ClockFields
  <1>3. /\ (t.day_of_week % 7) + 1 \in 1 .. 7
        /\ (t.month % 12) + 1 \in 1 .. 12
    BY ClockFields
  <1>4. (t.day_of_month % DaysPerMonth) + 1 \in 1 .. DaysPerMonth
    BY ClockFields, Sizes, Cycle
  <1>5. a.second \in 0 .. SecondsPerMinute - 1
    BY <1>1 DEF Advance
  <1>6. a.minute \in 0 .. MinutesPerHour - 1 /\ a.hour \in 0 .. HoursPerDay - 1
    BY <1>1, ClockFields DEF Advance
  <1>7. a.day_of_week \in 1 .. 7 /\ a.day_of_month \in 1 .. DaysPerMonth
    BY <1>3, <1>4, ClockFields DEF Advance
  <1>8. a.month \in 1 .. 12
    BY <1>3, ClockFields DEF Advance
  <1>9. a.year \in 0 .. YearsPerCentury - 1 /\ a.century \in 0 .. 99
    BY <1>1, <1>2, ClockFields DEF Advance
  <1>10. a = [second |-> a.second, minute |-> a.minute, hour |-> a.hour,
              day_of_week |-> a.day_of_week, day_of_month |-> a.day_of_month,
              month |-> a.month, year |-> a.year, century |-> a.century]
    BY DEF Advance
  <1> HIDE DEF a
  <1>11. a \in Clocks
    BY <1>5, <1>6, <1>7, <1>8, <1>9, <1>10 DEF Clocks
  <1> QED
    BY <1>11 DEF a

(* The time of day is a second later, or starts over.                      *)
LEMMA AdvanceTime ==
  ASSUME NEW t \in Clocks
  PROVE  \/ TimeOfDay(Advance(t)) = TimeOfDay(t) + 1
         \/ TimeOfDay(t) + 1 = DayLength /\ TimeOfDay(Advance(t)) = 0
  <1> DEFINE S == SecondsPerMinute
             M == MinutesPerHour
             H == HoursPerDay
             a == Advance(t)
  <1>1. /\ t.second \in 0 .. S - 1 /\ t.minute \in 0 .. M - 1 /\ t.hour \in 0 .. H - 1
        /\ S \in Nat \ {0} /\ M \in Nat \ {0} /\ H \in Nat \ {0}
        /\ HourLength \in Nat
    BY ClockFields, Sizes, Lengths
  <1>2. /\ S * (t.minute + 1) = S * t.minute + S * 1
        /\ HourLength * (t.hour + 1) = HourLength * t.hour + HourLength * 1
    BY <1>1, Distribute
  <1>3. S * 1 = S /\ S * 0 = 0 /\ HourLength * 1 = HourLength /\ HourLength * 0 = 0
    BY <1>1
  <1>4. S * t.minute \in Nat /\ HourLength * t.hour \in Nat
    BY <1>1, Times
  <1>5. HourLength = S * M /\ DayLength = HourLength * H
    BY DEF HourLength, DayLength
  <1>6. TimeOfDay(t) = t.second + S * t.minute + HourLength * t.hour
    BY DEF TimeOfDay
  <1>7. TimeOfDay(a) = a.second + S * a.minute + HourLength * a.hour
    BY DEF TimeOfDay
  <1>8. /\ a.second = (t.second + 1) % S
        /\ a.minute = IF t.second = S - 1 THEN (t.minute + 1) % M ELSE t.minute
        /\ a.hour = IF t.second = S - 1 /\ t.minute = M - 1
                    THEN (t.hour + 1) % H ELSE t.hour
    BY AdvanceFields
  <1> HIDE DEF S, M, H, a
  <1>9. CASE t.second # S - 1
    <2>1. a.second = t.second + 1 /\ a.minute = t.minute /\ a.hour = t.hour
      BY <1>1, <1>8, <1>9, Turn
    <2>2. TimeOfDay(a) = TimeOfDay(t) + 1
      BY <1>1, <1>4, <1>6, <1>7, <2>1
    <2> QED
      BY <2>2 DEF a
  <1>10. CASE t.second = S - 1 /\ t.minute # M - 1
    <2>1. a.second = 0 /\ a.minute = t.minute + 1 /\ a.hour = t.hour
      BY <1>1, <1>8, <1>10, Turn
    <2>2. TimeOfDay(a) = TimeOfDay(t) + 1
      BY <1>1, <1>2, <1>3, <1>4, <1>6, <1>7, <1>10, <2>1
    <2> QED
      BY <2>2 DEF a
  <1>11. CASE t.second = S - 1 /\ t.minute = M - 1 /\ t.hour # H - 1
    <2>1. a.second = 0 /\ a.minute = 0 /\ a.hour = t.hour + 1
      BY <1>1, <1>8, <1>11, Turn
    <2>2. S * (t.minute + 1) = HourLength
      BY <1>1, <1>5, <1>11
    <2>3. TimeOfDay(a) = TimeOfDay(t) + 1
      BY <1>1, <1>2, <1>3, <1>4, <1>6, <1>7, <1>11, <2>1, <2>2
    <2> QED
      BY <2>3 DEF a
  <1>12. CASE t.second = S - 1 /\ t.minute = M - 1 /\ t.hour = H - 1
    <2>1. a.second = 0 /\ a.minute = 0 /\ a.hour = 0
      BY <1>1, <1>8, <1>12, Turn
    <2>2. S * (t.minute + 1) = HourLength /\ HourLength * (t.hour + 1) = DayLength
      BY <1>1, <1>5, <1>12
    <2>3. TimeOfDay(t) + 1 = DayLength
      BY <1>1, <1>2, <1>3, <1>4, <1>6, <1>12, <2>2
    <2>4. TimeOfDay(a) = 0
      BY <1>3, <1>7, <2>1
    <2> QED
      BY <2>3, <2>4 DEF a
  <1> QED
    BY <1>9, <1>10, <1>11, <1>12

LEMMA InRange ==
  ASSUME NEW n \in Nat, NEW x \in Nat, x <= n PROVE x \in 0 .. n
  OBVIOUS

LEMMA ByteIs == ASSUME NEW x \in Nat, x <= 255 PROVE x \in Byte
  <1>1. \A n \in Nat : x <= n => x \in 0 .. n
    BY InRange
  <1>2. 255 \in Nat
    OBVIOUS
  <1> QED
    BY <1>1, <1>2, Zenon DEF Byte

(* A register holds a byte, and its digits make the value again.           *)
LEMMA BcdFacts ==
  ASSUME NEW x \in Nat, x <= 99
  PROVE  Bcd(x) \in Nat /\ Bcd(x) <= 255 /\ 10 * (Bcd(x) \div 16) + (Bcd(x) % 16) = x
  <1> DEFINE q == x \div 10
             r == x % 10
  <1>1. q \in Nat /\ q <= 9 /\ r \in Nat /\ r <= 9 /\ x = 10 * q + r
    OBVIOUS
  <1> HIDE DEF q, r
  <1>2. (16 * q + r) \div 16 = q /\ (16 * q + r) % 16 = r
    BY <1>1
  <1>3. Bcd(x) = 16 * q + r
    BY DEF Bcd, q, r
  <1> QED
    BY <1>1, <1>2, <1>3

LEMMA RegisterFacts ==
  ASSUME NEW t \in Clocks, NEW f \in Fields
  PROVE  Register(t, f) \in Byte /\ Decoded(Register(t, f)) = t[f]
  <1>1. t[f] \in Nat /\ t[f] <= 99
    BY TwoDigits
  <1> DEFINE v == t[f]
  <1> HIDE DEF v
  <1>2. v \in Nat /\ v <= 99
    BY <1>1 DEF v
  <1>3. CASE binary
    <2>1. v \in Byte
      BY <1>2, ByteIs
    <2> QED
      BY <1>3, <2>1 DEF Register, Decoded, v
  <1>4. CASE ~binary
    <2>1. /\ Bcd(v) \in Nat /\ Bcd(v) <= 255
          /\ 10 * (Bcd(v) \div 16) + (Bcd(v) % 16) = v
      BY <1>2, BcdFacts
    <2>2. Bcd(v) \in Byte
      BY <2>1, ByteIs
    <2> QED
      BY <1>4, <2>1, <2>2 DEF Register, Decoded, v
  <1> QED
    BY <1>3, <1>4

(* What has been read stays as it is while the clock goes on.              *)
FieldsFit == \A f \in Fields : HasRead(f) => Fits(f)

LEMMA FitsStay ==
  ASSUME FieldsFit, UNCHANGED <<pc, current_time, binary>> PROVE FieldsFit'
  BY DEF FieldsFit, HasRead, Fits

LEMMA RegisterFits ==
  ASSUME NEW t \in Clocks, NEW f \in Fields
  PROVE  \E v \in Kept[f] : Register(t, f) = IF binary THEN v ELSE Bcd(v)
  <1>1. t[f] \in Kept[f]
    <2>1. /\ Kept["second"] = 0 .. SecondsPerMinute - 1
          /\ Kept["minute"] = 0 .. MinutesPerHour - 1
          /\ Kept["hour"] = 0 .. HoursPerDay - 1
          /\ Kept["day_of_week"] = 1 .. 7 /\ Kept["day_of_month"] = 1 .. DaysPerMonth
          /\ Kept["month"] = 1 .. 12 /\ Kept["year"] = 0 .. YearsPerCentury - 1
          /\ Kept["century"] = 0 .. 99
      BY DEF Kept
    <2>2. /\ t["second"] \in Kept["second"] /\ t["minute"] \in Kept["minute"]
          /\ t["hour"] \in Kept["hour"] /\ t["day_of_week"] \in Kept["day_of_week"]
          /\ t["day_of_month"] \in Kept["day_of_month"] /\ t["month"] \in Kept["month"]
          /\ t["year"] \in Kept["year"] /\ t["century"] \in Kept["century"]
      BY <2>1, ClockFields
    <2> HIDE DEF Kept
    <2> QED
      BY <2>2, Zenon DEF Fields
  <1> QED
    BY <1>1 DEF Register

(* The registers are read each once, and each is asked for by its number.  *)
LEMMA OrderFacts ==
  /\ Len(Order) = 8
  /\ \A i \in 1 .. 8 : Order[i] \in Fields
  /\ \A i, j \in 1 .. 8 : Order[i] = Order[j] => i = j
  /\ \A f \in Fields : \E i \in 1 .. 8 : f = Order[i]
  /\ Order[1] = "second" /\ Order[2] = "minute" /\ Order[3] = "hour"
  /\ \A f \in Fields : Content(Number[f]) = f
  <1>1. Len(Order) = 8
    BY DEF Order
  <1>2. /\ Order[1] = "second" /\ Order[2] = "minute" /\ Order[3] = "hour"
        /\ Order[4] = "month" /\ Order[5] = "year" /\ Order[6] = "day_of_week"
        /\ Order[7] = "day_of_month" /\ Order[8] = "century"
    BY DEF Order
  <1>3. 1 .. 8 = {1, 2, 3, 4, 5, 6, 7, 8}
    OBVIOUS
  <1>4. /\ \A i \in 1 .. 8 : Order[i] \in Fields
        /\ \A i, j \in 1 .. 8 : Order[i] = Order[j] => i = j
        /\ \A f \in Fields : \E i \in 1 .. 8 : f = Order[i]
    BY <1>2, <1>3 DEF Fields
  <1>5. \A f \in Fields : Content(Number[f]) = f
    BY DEF Fields, Number, Content
  <1> QED
    BY <1>1, <1>2, <1>4, <1>5

-----------------------------------------------------------------------------
(* What the steps leave alone.                                             *)

LEMMA ReadingUntouched ==
  ASSUME IInv, UNCHANGED <<binary, pc, current_time, first, garbled, clock, ticks>>
  PROVE  Elapsed' /\ Still' /\ Quiet' /\ Seen'
  BY DEF IInv, Elapsed, Still, Quiet, Seen, Now, MinuteSeen, HourSeen, Decoded, Register

(* Time goes on: what was seen was seen up to now.                         *)
LEMMA SeenStays ==
  ASSUME TypeOK, Seen, ticks' \in Nat, ticks' >= ticks,
         UNCHANGED <<binary, pc, current_time, first, garbled>>
  PROVE  Seen'
  <1>1. TimeOfDay(first) \in Nat /\ ticks \in Nat
    BY TimeIsNat, Sizes DEF TypeOK
  <1>2. Now \in Nat /\ Now' \in Nat /\ Now <= Now'
    BY <1>1 DEF Now
  <1> SUFFICES ASSUME ~garbled'
               PROVE  /\ pc >= 1 => Decoded(current_time.second)' = first.second
                      /\ pc >= 2 => \E x \in TimeOfDay(first) .. Now' :
                                      /\ MinuteSeen(x)'
                                      /\ pc >= 3 => \E y \in x .. Now' : HourSeen(y)'
    BY DEF Seen
  <1>3. pc >= 1 => Decoded(current_time.second)' = first.second
    BY DEF Seen, Decoded
  <1>4. ASSUME pc >= 2
        PROVE  \E x \in TimeOfDay(first) .. Now' :
                 /\ MinuteSeen(x)'
                 /\ pc >= 3 => \E y \in x .. Now' : HourSeen(y)'
    <2>1. PICK x \in TimeOfDay(first) .. Now :
            /\ MinuteSeen(x)
            /\ pc >= 3 => \E y \in x .. Now : HourSeen(y)
      BY <1>4 DEF Seen
    <2>2. x \in TimeOfDay(first) .. Now'
      BY <1>1, <1>2
    <2>3. MinuteSeen(x)'
      BY <2>1 DEF MinuteSeen, Decoded
    <2>4. pc >= 3 => \E y \in x .. Now' : HourSeen(y)'
      BY <1>1, <1>2, <2>1 DEF HourSeen, Decoded
    <2> QED
      BY <2>2, <2>3, <2>4
  <1> QED
    BY <1>3, <1>4

THEOREM Initially == Init => IInv
  <1> SUFFICES ASSUME Init PROVE IInv
    OBVIOUS
  <1>1. clock \in Clocks
    BY RtcAssumption DEF Init
  <1>2. TypeOK
    <2>1. 0 \in Byte
      BY ByteIs
    <2>2. current_time \in [Fields -> Byte]
      BY <2>1 DEF Init
    <2>3. pc \in 0 .. Len(Order) /\ ticks \in 0 .. MaxTicks
      BY OrderFacts, Sizes DEF Init
    <2>4. binary \in BOOLEAN /\ uip \in BOOLEAN /\ garbled \in BOOLEAN
      BY DEF Init
    <2>5. first \in Clocks
      BY <1>1 DEF Init
    <2>6. FieldsFit
      BY DEF Init, FieldsFit, HasRead
    <2> QED
      BY <1>1, <2>2, <2>3, <2>4, <2>5, <2>6 DEF TypeOK, FieldsFit
  <1>3. Updating /\ Still
    BY DEF Init, Updating, Still
  <1>4. Elapsed
    <2>1. TimeOfDay(clock) \in Nat
      BY <1>1, TimeIsNat
    <2>2. TimeOfDay(first) + 0 = DayLength * 0 + TimeOfDay(clock)
      BY <2>1, Lengths DEF Init
    <2> QED
      BY <2>2 DEF Init, Elapsed, Now
  <1>5. Quiet /\ Seen
    BY DEF Init, Quiet, Seen
  <1> QED
    BY <1>2, <1>3, <1>4, <1>5 DEF IInv

LEMMA BeginUpdateStep == ASSUME IInv, BeginUpdate PROVE IInv'
  <1>1. FieldsFit'
    BY FitsStay DEF IInv, TypeOK, FieldsFit, BeginUpdate
  <1>2. TypeOK' /\ Updating'
    BY <1>1 DEF IInv, TypeOK, FieldsFit, Updating, BeginUpdate
  <1> QED
    BY <1>2, ReadingUntouched DEF IInv, BeginUpdate

LEMMA EndUpdateStep == ASSUME IInv, EndUpdate PROVE IInv'
  <1>1. clock \in Clocks /\ first \in Clocks /\ ticks \in 0 .. MaxTicks
    BY DEF IInv, TypeOK
  <1>2. ticks' \in 1 .. MaxTicks /\ ticks' = ticks + 1
    BY <1>1, Sizes DEF IInv, Updating, EndUpdate
  <1>3. TypeOK'
    <2>1. clock' \in Clocks
      BY <1>1, AdvanceInClocks DEF EndUpdate
    <2>2. ticks' \in 0 .. MaxTicks
      BY <1>2, Sizes
    <2>3. uip' \in BOOLEAN
      BY DEF EndUpdate
    <2>4. FieldsFit'
      BY FitsStay DEF IInv, TypeOK, FieldsFit, EndUpdate
    <2> QED
      BY <2>1, <2>2, <2>3, <2>4 DEF IInv, TypeOK, FieldsFit, EndUpdate
  <1>4. Updating' /\ Still' /\ Quiet'
    BY <1>2, Sizes DEF EndUpdate, Updating, Still, Quiet
  <1>5. Elapsed'
    <2>1. PICK days \in Nat : Now = DayLength * days + TimeOfDay(clock)
      BY DEF IInv, Elapsed
    <2>2. TimeOfDay(first) \in Nat /\ TimeOfDay(clock) \in Nat
      BY <1>1, TimeIsNat
    <2>3. Now' = Now + 1
      BY <1>1, <1>2, <2>2, Sizes DEF Now, EndUpdate
    <2>4. DayLength * days \in Nat /\ DayLength * (days + 1) = DayLength * days + DayLength
      BY Lengths, Times, Distribute
    <2>5. CASE TimeOfDay(Advance(clock)) = TimeOfDay(clock) + 1
      BY <2>1, <2>2, <2>3, <2>4, <2>5 DEF Elapsed, EndUpdate
    <2>6. CASE TimeOfDay(clock) + 1 = DayLength /\ TimeOfDay(Advance(clock)) = 0
      <3>1. Now' = DayLength * (days + 1) + TimeOfDay(clock')
        BY <2>1, <2>2, <2>3, <2>4, <2>6 DEF EndUpdate
      <3> QED
        BY <3>1 DEF Elapsed
    <2> QED
      BY <1>1, <2>5, <2>6, AdvanceTime
  <1>6. Seen'
    <2>1. ticks' \in Nat /\ ticks' >= ticks
      BY <1>1, <1>2, Sizes
    <2>2. UNCHANGED <<binary, pc, current_time, first, garbled>>
      BY DEF EndUpdate
    <2> QED
      BY <2>1, <2>2, SeenStays DEF IInv
  <1> QED
    BY <1>3, <1>4, <1>5, <1>6 DEF IInv

(* The moment at which a register is read is told by the clock.            *)
LEMMA MomentOfMinute ==
  ASSUME NEW t \in Clocks, NEW days \in Nat
  PROVE  \E hours \in Nat :
           DayLength * days + TimeOfDay(t)
             = HourLength * hours + SecondsPerMinute * t.minute + t.second
  <1>1. /\ HoursPerDay * days \in Nat /\ t.hour \in Nat
        /\ HourLength \in Nat /\ DayLength * days \in Nat
        /\ SecondsPerMinute * t.minute \in Nat /\ t.second \in Nat
        /\ HourLength * t.hour \in Nat
    BY ClockFields, Sizes, Lengths, Times
  <1>2. HourLength * (HoursPerDay * days + t.hour)
          = HourLength * (HoursPerDay * days) + HourLength * t.hour
    BY <1>1, Distribute
  <1>3. DayLength * days = HourLength * (HoursPerDay * days)
    BY Sizes, Lengths, Associate DEF DayLength
  <1>4. DayLength * days + TimeOfDay(t)
          = HourLength * (HoursPerDay * days + t.hour)
              + SecondsPerMinute * t.minute + t.second
    BY <1>1, <1>2, <1>3 DEF TimeOfDay
  <1>5. HoursPerDay * days + t.hour \in Nat
    BY <1>1
  <1> QED
    BY <1>4, <1>5

LEMMA MomentOfHour ==
  ASSUME NEW t \in Clocks, NEW days \in Nat
  PROVE  \E rest \in 0 .. HourLength - 1 :
           DayLength * days + TimeOfDay(t)
             = DayLength * days + HourLength * t.hour + rest
  <1>1. t.second \in 0 .. SecondsPerMinute - 1 /\ t.minute \in 0 .. MinutesPerHour - 1
    BY ClockFields
  <1>2. /\ SecondsPerMinute * t.minute \in Nat
        /\ SecondsPerMinute * t.minute + t.second \in 0 .. HourLength - 1
    BY <1>1, BelowTheHour
  <1>3. /\ DayLength * days \in Nat /\ t.hour \in Nat /\ t.second \in Nat
        /\ HourLength * t.hour \in Nat
    BY ClockFields, Sizes, Lengths, Times
  <1>4. DayLength * days + TimeOfDay(t)
          = DayLength * days + HourLength * t.hour
              + (SecondsPerMinute * t.minute + t.second)
    BY <1>2, <1>3 DEF TimeOfDay
  <1> QED
    BY <1>2, <1>4

(* One turn of the read: what is stored where.                             *)
LEMMA ReadFacts ==
  ASSUME IInv, ReadRegister
  PROVE  /\ pc \in 0 .. 7 /\ pc' = pc + 1
         /\ Order[pc + 1] \in Fields
         /\ ~uip => current_time'[Order[pc + 1]] = Register(clock, Order[pc + 1])
         /\ uip => current_time'[Order[pc + 1]] = Undefined
         /\ \A g \in Fields : g # Order[pc + 1] => current_time'[g] = current_time[g]
         /\ current_time' \in [Fields -> Byte]
         /\ UNCHANGED <<clock, binary, uip>>
         /\ pc # 0 => UNCHANGED <<first, ticks>>
         /\ pc = 0 => first' = clock /\ ticks' = 0
         /\ ~garbled' => ~garbled /\ ~uip
  <1> DEFINE f == Order[pc + 1]
             v == IF uip THEN Undefined ELSE Register(clock, Content(Number[f]))
  <1>1. pc \in 0 .. 7 /\ pc' = pc + 1
    BY OrderFacts DEF IInv, TypeOK, ReadRegister, Reading
  <1>2. f \in Fields
    BY <1>1, OrderFacts
  <1>3. Content(Number[f]) = f
    BY <1>2, OrderFacts
  <1>4. clock \in Clocks /\ current_time \in [Fields -> Byte]
    BY DEF IInv, TypeOK
  <1>5. v \in Byte
    <2>1. Undefined \in Byte
      BY ByteIs DEF Undefined
    <2> QED
      BY <1>2, <1>3, <1>4, <2>1, RegisterFacts
  <1>6. current_time' = [current_time EXCEPT ![f] = v]
    BY DEF ReadRegister
  <1>7. (~uip => v = Register(clock, f)) /\ (uip => v = Undefined)
    BY <1>3
  <1>8. /\ UNCHANGED <<clock, binary, uip>>
        /\ pc # 0 => UNCHANGED <<first, ticks>>
        /\ pc = 0 => first' = clock /\ ticks' = 0
        /\ ~garbled' => ~garbled /\ ~uip
    BY DEF ReadRegister
  <1> HIDE DEF f, v
  <1>9. /\ current_time'[f] = v
        /\ \A g \in Fields : g # f => current_time'[g] = current_time[g]
        /\ current_time' \in [Fields -> Byte]
    BY <1>2, <1>4, <1>5, <1>6
  <1> QED
    BY <1>1, <1>2, <1>7, <1>8, <1>9 DEF f

LEMMA ReadSeen == ASSUME IInv, ReadRegister, ~garbled' PROVE
                    /\ pc' >= 1 => Decoded(current_time.second)' = first'.second
                    /\ pc' >= 2 => \E x \in TimeOfDay(first') .. Now' :
                                     /\ MinuteSeen(x)'
                                     /\ pc' >= 3 => \E y \in x .. Now' : HourSeen(y)'
  <1>1. /\ pc \in 0 .. 7 /\ pc' = pc + 1
        /\ current_time'[Order[pc + 1]] = Register(clock, Order[pc + 1])
        /\ \A g \in Fields : g # Order[pc + 1] => current_time'[g] = current_time[g]
        /\ UNCHANGED <<clock, binary, uip>>
        /\ pc # 0 => UNCHANGED <<first, ticks>>
        /\ pc = 0 => first' = clock /\ ticks' = 0
        /\ ~garbled
    BY ReadFacts
  <1>2. clock \in Clocks /\ first \in Clocks /\ ticks \in Nat
    BY Sizes DEF IInv, TypeOK
  <1>3. "second" \in Fields /\ "minute" \in Fields /\ "hour" \in Fields
    BY DEF Fields
  <1>4. \A f \in Fields : Decoded(Register(clock, f)) = clock[f]
    BY <1>2, RegisterFacts
  <1>5. \A v : Decoded(v)' = Decoded(v')
    BY <1>1 DEF Decoded
  <1>6. PICK days \in Nat : Now = DayLength * days + TimeOfDay(clock)
    BY DEF IInv, Elapsed
  <1>7. TimeOfDay(first) \in Nat /\ Now \in Nat /\ Now >= TimeOfDay(first)
    BY <1>2, TimeIsNat DEF Now
  <1>10. PICK now \in Nat : now = Now
    BY <1>7
  <1>8. CASE pc = 0
    <2>1. current_time'.second = Register(clock, "second")
      BY <1>1, <1>8, OrderFacts
    <2>2. Decoded(current_time.second)' = clock.second
      BY <1>1, <1>3, <1>4, <2>1 DEF Decoded
    <2> QED
      BY <1>1, <1>8, <2>2
  <1>9. CASE pc # 0
    <2>1. Now' = Now /\ first' = first
      BY <1>1, <1>9 DEF Now
    <2>2. Order[pc + 1] # "second"
      BY <1>1, <1>9, OrderFacts
    <2>3. Decoded(current_time.second)' = first.second
      BY <1>1, <1>3, <1>9, <2>2 DEF IInv, Seen, Decoded
    <2>4. CASE pc = 1
      <3>1. current_time'.minute = Register(clock, "minute")
        BY <1>1, <2>4, OrderFacts
      <3>2. Decoded(current_time.minute)' = clock.minute
        BY <1>1, <1>3, <1>4, <3>1 DEF Decoded
      <3>3. PICK hours \in Nat :
              Now = HourLength * hours + SecondsPerMinute * clock.minute + clock.second
        BY <1>2, <1>6, MomentOfMinute
      <3>4. MinuteSeen(now)'
        BY <1>2, <1>10, <3>2, <3>3, ClockFields DEF MinuteSeen
      <3> QED
        BY <1>1, <1>7, <1>10, <2>1, <2>3, <2>4, <3>4
    <2>5. CASE pc >= 2
      <3>1. Order[pc + 1] # "minute"
        BY <1>1, <2>5, OrderFacts
      <3>2. current_time'.minute = current_time.minute
        BY <1>1, <1>3, <3>1
      <3>3. PICK x \in TimeOfDay(first) .. Now :
              /\ MinuteSeen(x)
              /\ pc >= 3 => \E y \in x .. Now : HourSeen(y)
        BY <1>1, <2>5 DEF IInv, Seen
      <3>4. MinuteSeen(x)'
        BY <1>1, <3>2, <3>3 DEF MinuteSeen, Decoded
      <3>5. CASE pc = 2
        <4>1. current_time'.hour = Register(clock, "hour")
          BY <1>1, <3>5, OrderFacts
        <4>2. Decoded(current_time.hour)' = clock.hour
          BY <1>1, <1>3, <1>4, <4>1 DEF Decoded
        <4>3. PICK rest \in 0 .. HourLength - 1 :
                Now = DayLength * days + HourLength * clock.hour + rest
          BY <1>2, <1>6, MomentOfHour
        <4>4. HourSeen(now)'
          BY <1>2, <1>10, <4>2, <4>3, ClockFields DEF HourSeen
        <4>5. now \in x .. Now
          BY <1>7, <1>10
        <4> QED
          BY <2>1, <2>3, <3>4, <4>4, <4>5
      <3>6. CASE pc >= 3
        <4>1. Order[pc + 1] # "hour"
          BY <1>1, <3>6, OrderFacts
        <4>2. current_time'.hour = current_time.hour
          BY <1>1, <1>3, <4>1
        <4>3. PICK y \in x .. Now : HourSeen(y)
          BY <3>3, <3>6
        <4>4. HourSeen(y)'
          BY <1>1, <4>2, <4>3 DEF HourSeen, Decoded
        <4> QED
          BY <2>1, <2>3, <3>4, <4>3, <4>4
      <3> QED
        BY <1>1, <2>5, <3>5, <3>6
    <2> QED
      BY <1>1, <1>9, <2>4, <2>5
  <1> QED
    BY <1>8, <1>9

LEMMA ReadRegisterStep == ASSUME IInv, ReadRegister PROVE IInv'
  <1>1. /\ pc \in 0 .. 7 /\ pc' = pc + 1
        /\ Order[pc + 1] \in Fields
        /\ ~uip => current_time'[Order[pc + 1]] = Register(clock, Order[pc + 1])
        /\ uip => current_time'[Order[pc + 1]] = Undefined
        /\ \A g \in Fields : g # Order[pc + 1] => current_time'[g] = current_time[g]
        /\ current_time' \in [Fields -> Byte]
        /\ UNCHANGED <<clock, binary, uip>>
        /\ pc # 0 => UNCHANGED <<first, ticks>>
        /\ pc = 0 => first' = clock /\ ticks' = 0
        /\ ~garbled' => ~garbled /\ ~uip
    BY ReadFacts
  <1>2. clock \in Clocks /\ first \in Clocks /\ ticks \in 0 .. MaxTicks
    BY DEF IInv, TypeOK
  <1>3. TypeOK'
    <2>1. pc' \in 0 .. Len(Order)
      BY <1>1, OrderFacts
    <2>2. first' \in Clocks /\ ticks' \in 0 .. MaxTicks
      BY <1>1, <1>2, Sizes
    <2>3. garbled' \in BOOLEAN
      BY DEF IInv, TypeOK, ReadRegister
    <2>4. FieldsFit'
      <3> SUFFICES ASSUME NEW f \in Fields, HasRead(f)' PROVE Fits(f)'
        BY DEF FieldsFit
      <3>1. binary' = binary
        BY <1>1
      <3>2. CASE f = Order[pc + 1]
        <4>1. CASE uip
          BY <1>1, <3>2, <4>1 DEF Fits
        <4>2. CASE ~uip
          BY <1>1, <1>2, <3>1, <3>2, <4>2, RegisterFits DEF Fits
        <4> QED
          BY <4>1, <4>2
      <3>3. CASE f # Order[pc + 1]
        <4>1. HasRead(f)
          BY <1>1, <3>3 DEF HasRead
        <4>2. Fits(f)
          BY <4>1 DEF IInv, TypeOK
        <4> QED
          BY <1>1, <3>1, <3>3, <4>2 DEF Fits
      <3> QED
        BY <3>2, <3>3
    <2> QED
      BY <1>1, <2>1, <2>2, <2>3, <2>4 DEF IInv, TypeOK, FieldsFit
  <1>4. Updating'
    BY <1>1, Sizes DEF IInv, Updating
  <1>5. Elapsed'
    <2>1. CASE pc = 0
      <3>1. TimeOfDay(clock) + 0 = DayLength * 0 + TimeOfDay(clock)
        BY <1>2, TimeIsNat, Lengths
      <3> QED
        BY <1>1, <2>1, <3>1 DEF Elapsed, Now
    <2>2. CASE pc # 0
      BY <1>1, <2>2 DEF IInv, Elapsed, Now
    <2> QED
      BY <2>1, <2>2
  <1>6. Still'
    BY <1>1 DEF IInv, Still
  <1>7. Quiet'
    <2> SUFFICES ASSUME ~garbled', ticks' = 0, NEW i \in 1 .. pc'
                 PROVE  current_time'[Order[i]] = Register(clock, Order[i])'
      BY DEF Quiet
    <2>1. Register(clock, Order[i])' = Register(clock, Order[i])
      BY <1>1 DEF Register
    <2>2. CASE i = pc + 1
      BY <1>1, <2>1, <2>2
    <2>3. CASE i # pc + 1
      <3>1. i \in 1 .. pc /\ i \in 1 .. 8 /\ pc + 1 \in 1 .. 8
        BY <1>1, <2>3
      <3>2. Order[i] # Order[pc + 1] /\ Order[i] \in Fields
        BY <2>3, <3>1, OrderFacts
      <3>3. pc # 0
        BY <1>1, <3>1
      <3>4. current_time[Order[i]] = Register(clock, Order[i])
        BY <1>1, <3>1, <3>3 DEF IInv, Quiet
      <3> QED
        BY <1>1, <2>1, <3>2, <3>4
    <2> QED
      BY <2>2, <2>3
  <1>8. Seen'
    BY ReadSeen DEF Seen
  <1> QED
    BY <1>3, <1>4, <1>5, <1>6, <1>7, <1>8 DEF IInv

THEOREM Inductive == IInv /\ [Next]_vars => IInv'
  <1> SUFFICES ASSUME IInv, [Next]_vars PROVE IInv'
    OBVIOUS
  <1>1. CASE UNCHANGED vars
    <2>1. UNCHANGED <<clock, binary, uip, pc, current_time, first, ticks, garbled>>
      BY <1>1 DEF vars
    <2>2. FieldsFit'
      BY <2>1, FitsStay DEF IInv, TypeOK, FieldsFit
    <2>3. TypeOK' /\ Updating'
      BY <2>1, <2>2 DEF IInv, TypeOK, FieldsFit, Updating
    <2> QED
      BY <2>1, <2>3, ReadingUntouched DEF IInv
  <1>2. CASE Next
    BY <1>2, BeginUpdateStep, EndUpdateStep, ReadRegisterStep DEF Next
  <1> QED
    BY <1>1, <1>2

-----------------------------------------------------------------------------
(* What the caller gets.                                                   *)

LEMMA SmallerFactor ==
  ASSUME NEW a \in Nat \ {0}, NEW b \in Int, NEW c \in Int,
         a * b < a * c
  PROVE  b < c
  BY Monotone

(* Second, minute and hour in the order of the read: the time they make is *)
(* not before the second was read, for the hour and the minute are from    *)
(* later, and it has the hour of the moment y and less than an hour more.  *)
LEMMA TornTime ==
  ASSUME IInv, Returned, ~garbled
  PROVE  (TimeRead - TimeOfDay(first)) % DayLength < ticks + HourLength
  <1> DEFINE S == SecondsPerMinute
             M == MinutesPerHour
             HL == HourLength
             DL == DayLength
             H == HoursPerDay
             F == TimeOfDay(first)
             sec == first.second
  <1>1. pc = 8
    BY OrderFacts DEF Returned
  <1>2. PICK x \in F .. Now : MinuteSeen(x) /\ \E y \in x .. Now : HourSeen(y)
    BY <1>1 DEF IInv, Seen
  <1>3. PICK y \in x .. Now : HourSeen(y)
    BY <1>2
  <1>4. PICK hours \in Nat, s \in 0 .. S - 1, m \in 0 .. M - 1 :
          x = HL * hours + S * m + s /\ Decoded(current_time.minute) = m
    BY <1>2 DEF MinuteSeen
  <1>5. PICK days \in Nat, h \in 0 .. H - 1, rest \in 0 .. HL - 1 :
          y = DL * days + HL * h + rest /\ Decoded(current_time.hour) = h
    BY <1>3 DEF HourSeen
  <1>6. TimeRead = sec + S * m + HL * h
    <2>1. Decoded(current_time.second) = sec
      BY <1>1 DEF IInv, Seen
    <2>2. "second" \in Fields /\ "minute" \in Fields /\ "hour" \in Fields
      BY DEF Fields
    <2> QED
      BY <1>4, <1>5, <2>1, <2>2 DEF TimeRead, TimeOfDay
  <1>7. first \in Clocks /\ ticks \in Nat
    BY Sizes DEF IInv, TypeOK
  <1>8. /\ sec \in 0 .. S - 1 /\ first.minute \in Nat /\ first.hour \in Nat
        /\ S \in Nat \ {0} /\ M \in Nat \ {0} /\ H \in Nat \ {0}
        /\ HL \in Nat \ {0} /\ DL \in Nat \ {0} /\ F \in Nat /\ Now = F + ticks
    BY <1>7, ClockFields, Sizes, Lengths, TimeIsNat DEF Now
  <1>9. HL = S * M /\ DL = HL * H
    BY DEF HourLength, DayLength
  <1>10. F = sec + S * first.minute + HL * first.hour
    BY DEF TimeOfDay
  <1>11. S * m \in Nat /\ S * m + sec \in 0 .. HL - 1 /\ S * m + s \in 0 .. HL - 1
    BY <1>8, BelowTheHour
  <1> HIDE DEF S, M, HL, DL, H, F, sec
  <1> DEFINE q == H * days + h
  <1>12. /\ q \in Nat /\ h \in Nat /\ m \in Nat /\ s \in Nat /\ rest \in Nat
         /\ HL * q \in Nat /\ DL * days \in Nat /\ HL * h \in Nat
         /\ HL * hours \in Nat
    BY <1>8, Times
  <1>13. DL * days + HL * h = HL * q
    <2>1. HL * q = HL * (H * days) + HL * h
      BY <1>8, <1>12, Times, Distribute
    <2>2. DL * days = HL * (H * days)
      BY <1>8, <1>9, Associate
    <2> QED
      BY <2>1, <2>2
  <1> HIDE DEF q
  <1>14. HL * (q + 1) = HL * q + HL
    BY <1>8, <1>12, Distribute
  <1>15. hours <= q
    <2>1. HL * hours < HL * (q + 1)
      BY <1>4, <1>5, <1>8, <1>11, <1>12, <1>13, <1>14
    <2>2. hours < q + 1
      BY <2>1, <1>8, <1>12, SmallerFactor
    <2> QED
      BY <2>2, <1>12
  <1> DEFINE R == HL * q + S * m + sec
  <1>16. R >= F
    <2>1. CASE hours < q
      <3>1. HL * (hours + 1) <= HL * q
        BY <2>1, <1>8, <1>12, Monotone
      <3>2. HL * (hours + 1) = HL * hours + HL
        BY <1>8, <1>12, Distribute
      <3> QED
        BY <3>1, <3>2, <1>4, <1>8, <1>11, <1>12
    <2>2. CASE hours = q
      <3> DEFINE k0 == M * first.hour + first.minute
                 k1 == M * q + m
      <3>1. /\ M * first.hour \in Nat /\ M * q \in Nat
            /\ k0 \in Nat /\ k1 \in Nat
        BY <1>8, <1>12, Times
      <3>2. S * k0 = S * (M * first.hour) + S * first.minute
        BY <3>1, <1>8, Distribute
      <3>3. S * k1 = S * (M * q) + S * m
        BY <3>1, <1>8, <1>12, Distribute
      <3>4. S * (M * first.hour) = HL * first.hour /\ S * (M * q) = HL * q
        BY <1>8, <1>9, <1>12, Associate
      <3> HIDE DEF k0, k1
      <3>5. S * k0 \in Nat /\ S * k1 \in Nat /\ HL * first.hour \in Nat /\ S * first.minute \in Nat
        BY <3>1, <1>8, Times
      <3>6. F = S * k0 + sec /\ x = S * k1 + s /\ R = S * k1 + sec
        <4>1. F = S * k0 + sec
          BY <3>2, <3>4, <3>5, <1>8, <1>10
        <4>2. S * k1 = HL * q + S * m
          BY <3>3, <3>4
        <4>3. x = S * k1 + s
          BY <4>2, <2>2, <1>4
        <4>4. R = S * k1 + sec
          BY <4>2
        <4> QED
          BY <4>1, <4>3, <4>4
      <3>7. S * (k1 + 1) = S * k1 + S
        BY <3>1, <1>8, Distribute
      <3>8. S * k0 < S * (k1 + 1)
        BY <3>5, <3>6, <3>7, <1>8, <1>12
      <3>9. k0 <= k1
        BY <3>1, <3>8, <1>8, SmallerFactor
      <3>10. S * k0 <= S * k1
        BY <3>1, <3>9, <1>8, Monotone
      <3> QED
        BY <3>5, <3>6, <3>10, <1>8
    <2> QED
      BY <1>12, <1>15, <2>1, <2>2
  <1>17. R < Now + HL
    BY <1>5, <1>8, <1>11, <1>12, <1>13
  <1>18. R = TimeRead + DL * days
    BY <1>6, <1>8, <1>11, <1>12, <1>13
  <1>19. TimeRead \in Int /\ R \in Int
    BY <1>6, <1>8, <1>11, <1>12
  <1> HIDE DEF R
  <1>20. (TimeRead - F) + DL * days = R - F /\ TimeRead - F \in Int
    BY <1>8, <1>12, <1>18, <1>19
  <1>21. (TimeRead - F) % DL <= R - F
    <2>1. (TimeRead - F) + DL * days >= 0
      BY <1>8, <1>16, <1>19, <1>20
    <2> DEFINE z == TimeRead - F
    <2>2. z \in Int /\ z + DL * days >= 0 /\ DL \in Nat \ {0} /\ days \in Int
      BY <2>1, <1>8, <1>20
    <2> HIDE DEF z
    <2>3. z % DL <= z + DL * days
      BY <2>2, Modulo
    <2> QED
      BY <2>3, <1>20 DEF z
  <1>22. (TimeRead - F) % DL \in Int
    BY <1>8, <1>20
  <1>23. (TimeRead - F) % DL < ticks + HL
    BY <1>7, <1>8, <1>17, <1>19, <1>21, <1>22
  <1> QED
    BY <1>23 DEF F, DL, HL

(* The invariant holds in every reachable state.                           *)
THEOREM Invariance == Spec => []IInv
  <1> QED
    BY Initially, Inductive, PTL DEF Spec

(* The clock stays within the calendar whatever starts over, and a field   *)
(* that rtc_handler has read holds a value of its own register, in BCD and *)
(* in binary, or what the chip returned during an update.                  *)
THEOREM TypeCorrect == Spec => []TypeOK
  <1>1. IInv => TypeOK
    BY DEF IInv
  <1> QED
    BY <1>1, Invariance, PTL

(* However many seconds end between the register reads, the time of day is *)
(* never before the call of rtc_handler and less than an hour ahead.       *)
THEOREM TimeNeverBehind == Spec => []NeverBehind
  <1>1. IInv => NeverBehind
    BY TornTime DEF NeverBehind
  <1> QED
    BY <1>1, Invariance, PTL

(* Without a tick during the read all eight fields are those of the clock. *)
THEOREM QuietReads == Spec => []QuietReadExact
  <1>1. IInv => QuietReadExact
    <2> SUFFICES ASSUME IInv, Returned, ~garbled, ticks = 0
                 PROVE  current_time = Shown(clock)
      BY DEF QuietReadExact
    <2>1. pc = 8 /\ current_time \in [Fields -> Byte]
      BY OrderFacts DEF IInv, TypeOK, Returned
    <2>2. \A f \in Fields : current_time[f] = Register(clock, f)
      BY <2>1, OrderFacts DEF IInv, Quiet
    <2> QED
      BY <2>1, <2>2 DEF Shown
  <1> QED
    BY <1>1, Invariance, PTL

=============================================================================
