---------------------------- MODULE MCExceptions ----------------------------
(* Exceptions for TLC: all integers of 12 bits, and times of a clock in    *)
(* BCD and in binary, the months of two digits included.                   *)
EXTENDS Exceptions

MCTimes ==
  [day_of_week : 1 .. 8, month : {1, 9, 12, 16, 18}, hour : {0, 9, 35},
   minute : {0, 89}, second : {5, 16}, century : {32}, year : {0, 37}]
MCNumbers == -2048 .. 2047
=============================================================================
