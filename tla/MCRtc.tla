------------------------------- MODULE MCRtc -------------------------------
(* Rtc for TLC: every time of day, on every weekday, in the last month of  *)
(* one digit, the first of two, and the last, around the turn of the       *)
(* century and of the year.                                                *)
EXTENDS Rtc

MCStarts ==
  [second : 0 .. SecondsPerMinute - 1, minute : 0 .. MinutesPerHour - 1,
   hour : 0 .. HoursPerDay - 1, day_of_week : 1 .. 7,
   day_of_month : 1 .. DaysPerMonth, month : {9, 10, 12},
   year : {YearsPerCentury - 1}, century : {20}]
=============================================================================
