---------------------------- MODULE Descriptors ----------------------------
(***************************************************************************)
(* The descriptors of io/gdt.c and io/idt.c: how set_gdt and set_idt spread *)
(* their arguments over the fields of an entry, and how the processor puts *)
(* the fields together again.  A u32 is the sequence of its four bytes, the *)
(* lowest first.                                                           *)
(***************************************************************************)
EXTENDS Integers, Sequences

Bit(v, i) == (v \div 2^i) % 2
Zero == <<0, 0, 0, 0>>
AllOnes == <<255, 255, 255, 255>>

(* One entry of gp[].                                                      *)
set_gdt(base, limit, access, gran) ==
  [limit_low |-> SubSeq(limit, 1, 2),
   base_low |-> SubSeq(base, 1, 2), base_middle |-> base[3], base_high |-> base[4],
   granularity |-> (limit[3] % 16) + 16 * (gran \div 16),
   access |-> access]

(* gp[6]: the null descriptor, code and data of the kernel, code and data  *)
(* of user mode, and an entry nobody sets.                                 *)
gp ==
  <<set_gdt(Zero, Zero, 0, 0),
    set_gdt(Zero, AllOnes, 154, 207), set_gdt(Zero, AllOnes, 146, 207),
    set_gdt(Zero, AllOnes, 250, 207), set_gdt(Zero, AllOnes, 242, 207),
    set_gdt(Zero, Zero, 0, 0)>>

(* What a selector stands for: index and requested privilege.              *)
Selected(selector) == gp[selector \div 8 + 1]

(* The segment is present and is the whole address space from 0 on: limit  *)
(* 0xFFFFF in pages.                                                       *)
Flat(d) ==
  /\ Bit(d.access, 7) = 1 /\ Bit(d.access, 4) = 1
  /\ d.base_low \o <<d.base_middle, d.base_high>> = Zero
  /\ d.limit_low = <<255, 255>> /\ d.granularity % 16 = 15
  /\ Bit(d.granularity, 7) = 1

FlatCode(d) == Flat(d) /\ Bit(d.access, 3) = 1 /\ Bit(d.granularity, 6) = 1
FlatData(d) == Flat(d) /\ Bit(d.access, 3) = 0 /\ Bit(d.access, 1) = 1

-----------------------------------------------------------------------------
(* flags | 0x60                                                            *)
OrDpl3(flags) == flags + 32 * (1 - Bit(flags, 5)) + 64 * (1 - Bit(flags, 6))

set_idt_LowTwice(offset, selector, flags) ==
  [offset_low |-> SubSeq(offset, 1, 2), offset_high |-> SubSeq(offset, 1, 2),
   selector |-> selector, zero |-> 0, flags |-> OrDpl3(flags)]

(* One entry of id[].                                                      *)
set_idt(offset, selector, flags) ==
  [offset_low |-> SubSeq(offset, 1, 2), offset_high |-> SubSeq(offset, 3, 4),
   selector |-> selector, zero |-> 0, flags |-> OrDpl3(flags)]

Offset(g) == g.offset_low \o g.offset_high
Present(g) == Bit(g.flags, 7) = 1

(* Type 0xE: the gate clears IF; 0xF, a trap gate, would not.              *)
InterruptGate(g) == g.flags % 32 = 14
=============================================================================
