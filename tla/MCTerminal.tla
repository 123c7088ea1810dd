----------------------------- MODULE MCTerminal -----------------------------
(* Terminal for TLC.  A small screen is explored completely; a larger one  *)
(* as long as no more than MaxMarks of its cells are not blank.            *)
EXTENDS Terminal, FiniteSets

CONSTANT MaxMarks

TwoGlyphs == {" ", "a"}
FewMarks == Cardinality({i \in Screen : buffer[i] # Blank}) <= MaxMarks
=============================================================================
