------------------------------ MODULE MCKernel ------------------------------
(* Kernel for TLC: the PIT on line 0, the keyboard on 1, the clock on 8.   *)
EXTENDS Kernel

PitKbdRtc == {0, 1, 8}
Update == {"update"}

(* Stubs of 12 bytes, one behind the other, across a multiple of 256.      *)
Stubs == [v \in 0 .. 47 |-> <<(12 * v) % 256, 16 + ((12 * v) \div 256), 16, 128>>]
=============================================================================
