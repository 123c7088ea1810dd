------------------------------- MODULE MCIde -------------------------------
(* Ide for TLC: the standard ports, by themselves and as 0, one drive on   *)
(* either channel, and the pair that ends the range of registers behind HOB. *)
EXTENDS Ide

Standard == {<<496, 1014, 368, 886, 0>>, <<0, 0, 0, 0, 0>>}
OneDrive == {{0}, {1}}
LastPair == {5}
TwoBytes == {{}, {0}}
SomeErrors == {{2}, {0, 7}}
=============================================================================
