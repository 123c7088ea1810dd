------------------------------ MODULE Terminal ------------------------------
(***************************************************************************)
(* The VGA text console of monitor.c: the video memory, the position of    *)
(* the next character and the hardware cursor, under any sequence of       *)
(* characters given to terminal_putchar.  Colours are left out: a cell     *)
(* holds a character code.  Memory one row past the screen is part of the  *)
(* model, because the code writes there.                                   *)
(***************************************************************************)
EXTENDS Integers, Sequences

CONSTANTS
  W,          (* VGA_WIDTH, 80 in the code                                  *)
  H,          (* VGA_HEIGHT, 25 in the code                                 *)
  Glyphs,     (* the characters from ' ' on                                 *)
  Blank       (* ' ' itself                                                 *)

ASSUME TerminalAssumption ==
  /\ W \in Nat /\ H \in Nat
  /\ 2 <= H /\ H < W
  /\ Blank \in Glyphs

Controls == {"backspace", "return", "newline"}

(* A glyph is no control character.                                        *)
ASSUME GlyphsAssumption == Glyphs \cap Controls = {}

Chars == Glyphs \cup Controls

VARIABLES
  buffer,     (* terminal_buffer, the screen and what follows it            *)
  row,        (* terminal_row                                               *)
  column,     (* terminal_column                                            *)
  cursor      (* the location the CRT controller was last given             *)

console == <<buffer, row, column, cursor>>

Screen == 0 .. W * H - 1
Memory == 0 .. W * (H + 1) - 1

(* terminal_initialize does not touch the hardware cursor, which is where  *)
(* the boot loader left it, or the memory behind the screen.               *)
TerminalInit ==
  /\ \E junk \in Chars : buffer = [i \in Memory |-> IF i \in Screen THEN Blank ELSE junk]
  /\ row = 0
  /\ column = 0
  /\ cursor \in {0, W * H - 1}

-----------------------------------------------------------------------------
(* Where terminal_putchar writes c: what the control characters do to the  *)
(* row and the column.  The test of terminal_row against 80, the width,    *)
(* comes after them.                                                       *)
RowOf(c) ==
  CASE c = "backspace" -> IF row # 0 THEN row - 1 ELSE row
    [] c = "return"    -> 0
    [] c = "newline"   -> row + 1
    [] OTHER           -> row

ColumnOf(c) == IF c = "newline" THEN 0 ELSE column

PutRow(c) == IF RowOf(c) >= W THEN RowOf(c) + 1 ELSE RowOf(c)
PutColumn(c) == IF RowOf(c) >= W THEN 0 ELSE ColumnOf(c)

(* Every character is stored, control characters too, and the column moves *)
(* on.  Past the last column of the last row the row grows by two.         *)
Index(c) == PutRow(c) * W + PutColumn(c)

Wraps_Late(c) == PutColumn(c) = W
Wraps(c) == PutColumn(c) + 1 = W

NextColumn(c) == IF Wraps(c) THEN 0 ELSE PutColumn(c) + 1
NextRow(c) ==
  IF ~Wraps(c) THEN PutRow(c)
  ELSE IF PutRow(c) + 1 = H THEN PutRow(c) + 2
  ELSE PutRow(c) + 1

(* scroll: everything moves up by one row and the last row becomes blank.  *)
Scrolled_ShortCopy(b) ==
  [i \in Memory |-> IF i < (H - 1) * W - 1 THEN b[i + W]
                    ELSE IF i < H * W /\ i >= (H - 1) * W THEN Blank
                    ELSE b[i]]
Scrolled(b) ==
  [i \in Memory |-> IF i < (H - 1) * W THEN b[i + W]
                    ELSE IF i < H * W THEN Blank
                    ELSE b[i]]

Scrolls_Late(r) == r > H
Scrolls(r) == r >= H

(* terminal_putchar: move_cursor is called before scroll.                  *)
terminal_putchar(c) ==
  LET written == [buffer EXCEPT ![Index(c)] = c] IN
  /\ cursor' = NextRow(c) * W + NextColumn(c)
  /\ column' = NextColumn(c)
  /\ IF Scrolls(NextRow(c))
     THEN buffer' = Scrolled(written) /\ row' = H - 1
     ELSE buffer' = written /\ row' = NextRow(c)

TerminalNext == \E c \in Chars : terminal_putchar(c)

TerminalSpec == TerminalInit /\ [][TerminalNext]_console

-----------------------------------------------------------------------------
(* Types; between two characters the position is on the screen.            *)
OnScreen ==
  /\ buffer \in [Memory -> Chars]
  /\ row \in 0 .. H - 1
  /\ column \in 0 .. W - 1
  /\ cursor \in Nat

(* Types; and the next character is stored on the screen or, for a newline *)
(* in the last row, in the first cell behind it, and never further.        *)
TerminalTypeOK ==
  /\ OnScreen
  /\ \A c \in Chars : Index(c) <= W * H

(* The rows of the screen, from the top.                                   *)
Line(b, r) == [x \in 0 .. W - 1 |-> b[r * W + x]]
Rows(b) == [r \in 1 .. H |-> Line(b, r - 1)]

EmptyLine == [x \in 0 .. W - 1 |-> Blank]
Moved(rows) ==
  \/ Rows(buffer') = rows
  \/ Rows(buffer') = Append(Tail(rows), EmptyLine)

(* What one character does to the screen as a reader sees it: it is set at *)
(* its place and then the rows stay where they are, or all move up by one  *)
(* and an empty row follows: no row is lost, doubled or half moved.  And a *)
(* glyph is on the screen afterwards, in the cell before the position of   *)
(* the next character, also when it filled the last row and the screen     *)
(* moved up under it.                                                      *)
RowsMoveWhole ==
  [][ \A c \in Chars : terminal_putchar(c) =>
        /\ Moved(Rows([buffer EXCEPT ![Index(c)] = c]))
        /\ c \in Glyphs => buffer'[row' * W + column' - 1] = c ]_console
=============================================================================
