------------------------------- MODULE Printf -------------------------------
(***************************************************************************)
(* kprintf, itoa and terminal_write_hex of monitor.c: what they give to    *)
(* terminal_putchar, one turn of a loop at a time.  A piece of a format or *)
(* of a string without a % counts as one character.                        *)
(***************************************************************************)
EXTENDS Integers, Sequences

CONSTANT
  WordBits   (* the width of an int, 32 in the code                         *)

Word == 2^WordBits

ASSUME PrintfAssumption ==
  /\ WordBits \in Nat /\ WordBits >= 8 /\ WordBits % 4 = 0
  /\ Word \in Nat \ {0}

(* Enough digits for a word in base 10 or 16.                              *)
MostPlaces == (WordBits + 2) \div 3

(* What a power is, as far as words and their digits go.                   *)
ASSUME PowersAssumption ==
  \A b \in {2, 10, 16} :
    /\ b^0 = 1
    /\ \A k \in 1 .. IF b = 2 THEN WordBits + 2 ELSE MostPlaces :
         b^k \in Nat /\ b^k = b * b^(k - 1)

VARIABLES
  todo,      (* the calls the running flow still has to make                *)
  pc,        (* where the first of them is                                  *)
  data,      (* what is left of the format                                  *)
  arg,       (* the arguments not used yet                                  *)
  base,      (* the argument of itoa of that name                           *)
  ud,        (* ud of itoa                                                  *)
  p1, p2,    (* p1 and p2 of itoa                                           *)
  p,         (* the string being made, and then what is left to print of it *)
  n, i,      (* the variables of terminal_write_hex of those names          *)
  noZeroes,
  out        (* history: what terminal_putchar got since todo was set       *)

printing == <<todo, pc, data, arg, base, ud, p1, p2, p, n, i, noZeroes, out>>

-----------------------------------------------------------------------------
(* Calls.  An argument is a word and the string it points to, if it does.  *)

Kprintf(fmt, args) == [fn |-> "kprintf", fmt |-> fmt, args |-> args, n |-> 0]
Hex(x) == [fn |-> "terminal_write_hex", fmt |-> <<>>, args |-> <<>>, n |-> x]

Num(x) == [word |-> x, str |-> <<>>]
Str(s) == [word |-> 1, str |-> s]
Null == Num(0)

Digit(x) ==
  <<"0", "1", "2", "3", "4", "5", "6", "7", "8", "9",
    "a", "b", "c", "d", "e", "f">>[x + 1]

PrintfInit ==
  /\ todo = <<>> /\ pc = "return" /\ out = <<>>
  /\ data = <<>> /\ arg = <<>>
  /\ base = "d" /\ ud = 0 /\ p1 = 1 /\ p2 = 1 /\ p = <<>>
  /\ n = 0 /\ i = 0 /\ noZeroes = TRUE

(* The flow makes these calls next.                                        *)
MakeCalls(calls) ==
  /\ todo' = calls
  /\ out' = <<>>
  /\ UNCHANGED <<pc, data, arg, base, ud, p1, p2, p, n, i, noZeroes>>

NothingToPrint == todo = <<>>

putchar(c) == out' = Append(out, c)

Call(fn) == pc = "return" /\ todo # <<>> /\ Head(todo).fn = fn

(* The function returns, and its local variables are gone.                 *)
Ended ==
  /\ todo' = Tail(todo) /\ pc' = "return"
  /\ data' = <<>> /\ arg' = <<>>
  /\ base' = "d" /\ ud' = 0 /\ p1' = 1 /\ p2' = 1 /\ p' = <<>>
  /\ n' = 0 /\ i' = 0 /\ noZeroes' = TRUE

-----------------------------------------------------------------------------
(* kprintf                                                                 *)

CallKprintf ==
  /\ Call("kprintf")
  /\ data' = Head(todo).fmt
  /\ arg' = Head(todo).args
  /\ pc' = "format"
  /\ UNCHANGED <<todo, base, ud, p1, p2, p, n, i, noZeroes, out>>

Literal ==
  /\ pc = "format"
  /\ data # <<>> /\ Head(data) # "%"
  /\ putchar(Head(data))
  /\ data' = Tail(data)
  /\ UNCHANGED <<todo, pc, arg, base, ud, p1, p2, p, n, i, noZeroes>>

EndKprintf ==
  /\ pc = "format"
  /\ data = <<>>
  /\ Ended
  /\ UNCHANGED out

(* A % and the character after it, which is c; formats end in no %.        *)
Conversion(c) ==
  /\ pc = "format"
  /\ data # <<>> /\ Head(data) = "%"
  /\ data[2] = c
  /\ data' = SubSeq(data, 3, Len(data))

NextArg == Tail(arg)

(* case 'd', 'u' or 'x', up to the loop of itoa.  The string after a minus *)
(* sign is made, and reversed, from its second character on.               *)
Negative(c, d) == c = "d" /\ d < 0

Number ==
  \E c \in {"d", "u", "x"} :
    LET d == Head(arg).word IN
    /\ Conversion(c)
    /\ arg' = NextArg
    /\ base' = c
    /\ ud' = (IF Negative(c, d) THEN -d ELSE d) % Word
    /\ p' = IF Negative(c, d) THEN <<"-">> ELSE <<>>
    /\ p1' = Len(p') + 1
    /\ pc' = "itoa"
    /\ UNCHANGED <<todo, p2, n, i, noZeroes, out>>

Divisor == IF base = "x" THEN 16 ELSE 10

(* A turn of do ... while (ud /= divisor).                                 *)
MoreDigits_OneShort == ud \div Divisor > Divisor
MoreDigits == ud \div Divisor # 0

Divide ==
  /\ pc = "itoa"
  /\ p' = Append(p, Digit(ud % Divisor))
  /\ ud' = ud \div Divisor
  /\ IF MoreDigits
     THEN UNCHANGED <<pc, p2>>
     ELSE pc' = "reverse" /\ p2' = Len(p')
  /\ UNCHANGED <<todo, data, arg, base, p1, n, i, noZeroes, out>>

Swap ==
  /\ pc = "reverse"
  /\ p1 < p2
  /\ p' = [p EXCEPT ![p1] = p[p2], ![p2] = p[p1]]
  /\ p1' = p1 + 1
  /\ p2' = p2 - 1
  /\ UNCHANGED <<todo, pc, data, arg, base, ud, n, i, noZeroes, out>>

Reversed ==
  /\ pc = "reverse"
  /\ p1 >= p2
  /\ pc' = "string"
  /\ UNCHANGED <<todo, data, arg, base, ud, p1, p2, p, n, i, noZeroes, out>>

String ==
  /\ Conversion("s")
  /\ arg' = NextArg
  /\ p' = IF Head(arg).word = 0 THEN <<"(null)">> ELSE Head(arg).str
  /\ pc' = "string"
  /\ UNCHANGED <<todo, base, ud, p1, p2, n, i, noZeroes, out>>

(* The characters of p, one by one.                                        *)
PutString ==
  /\ pc = "string"
  /\ p # <<>>
  /\ putchar(Head(p))
  /\ p' = Tail(p)
  /\ UNCHANGED <<todo, pc, data, arg, base, ud, p1, p2, n, i, noZeroes>>

EndString ==
  /\ pc = "string"
  /\ p = <<>>
  /\ pc' = "format"
  /\ UNCHANGED <<todo, data, arg, base, ud, p1, p2, p, n, i, noZeroes, out>>

(* default: the argument is the character.                                 *)
Character ==
  /\ Conversion("c")
  /\ out' = out \o Head(arg).str
  /\ arg' = NextArg
  /\ UNCHANGED <<todo, pc, base, ud, p1, p2, p, n, i, noZeroes>>

-----------------------------------------------------------------------------
(* terminal_write_hex                                                      *)

FirstShift_Word == WordBits
FirstShift == WordBits - 4

CallWriteHex ==
  /\ Call("terminal_write_hex")
  /\ n' = Head(todo).n
  /\ noZeroes' = TRUE
  /\ i' = FirstShift
  /\ pc' = "hex"
  /\ UNCHANGED <<todo, data, arg, base, ud, p1, p2, p, out>>

(* A turn of the loop; leading zeroes are passed over.                     *)
Nibble == (n \div 2^i) % 16

Skipped == Nibble = 0 /\ noZeroes

NextShift_Same == IF Nibble = 0 THEN i ELSE i - 4
NextShift == i - 4

SkipZero ==
  /\ pc = "hex" /\ i > 0
  /\ Skipped
  /\ i' = NextShift
  /\ UNCHANGED <<todo, pc, data, arg, base, ud, p1, p2, p, n, noZeroes, out>>

PutNibble ==
  /\ pc = "hex" /\ i > 0
  /\ ~Skipped
  /\ noZeroes' = FALSE
  /\ putchar(Digit(Nibble))
  /\ i' = NextShift
  /\ UNCHANGED <<todo, pc, data, arg, base, ud, p1, p2, p, n>>

LastNibble ==
  /\ pc = "hex" /\ i = 0
  /\ putchar(Digit(n % 16))
  /\ Ended

-----------------------------------------------------------------------------
Printing ==
  \/ CallKprintf \/ Literal \/ EndKprintf
  \/ Number \/ Divide \/ Swap \/ Reversed
  \/ String \/ PutString \/ EndString \/ Character
  \/ CallWriteHex \/ SkipZero \/ PutNibble \/ LastNibble

PrintfTypeOK ==
  /\ pc \in {"return", "format", "itoa", "reverse", "string", "hex"}
  /\ base \in {"d", "u", "x"}
  /\ ud \in 0 .. Word - 1 /\ n \in 0 .. Word - 1
  /\ i \in 0 .. WordBits - 4
  /\ noZeroes \in BOOLEAN
  /\ p1 \in Nat /\ p2 \in Nat

(* The text a call stands for, by positions and not by its loops.          *)
Places(x, b) == CHOOSE k \in 1 .. MostPlaces : x < b^k /\ (k = 1 \/ x >= b^(k - 1))
LowDigits(x, b, k) == [j \in 1 .. k |-> Digit((x \div b^(k - j)) % b)]
Numeral(x, b) == LowDigits(x, b, Places(x, b))

Converted(c, a) ==
  CASE c = "d" -> IF a.word < 0 THEN <<"-">> \o Numeral(-a.word, 10)
                  ELSE Numeral(a.word, 10)
    [] c = "u" -> Numeral(a.word % Word, 10)
    [] c = "x" -> Numeral(a.word % Word, 16)
    [] c = "s" -> IF a.word = 0 THEN <<"(null)">> ELSE a.str
    [] c = "c" -> a.str
=============================================================================
