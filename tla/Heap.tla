-------------------------------- MODULE Heap --------------------------------
(***************************************************************************)
(* malloc, free and ksbrk of mmu/umalloc.c, under any client that frees    *)
(* only what malloc gave it and has not freed yet.  Sizes and addresses    *)
(* are counted in units of sizeof(header_t), 16 bytes; requests round up   *)
(* to a power of two of at least one unit, so that headers stay aligned.   *)
(* The loops of malloc and free take one step per turn.                    *)
(***************************************************************************)
EXTENDS Integers, Sequences, FiniteSetsExt

CONSTANTS
  MaxHeap,   (* MAX_HEAP                                                    *)
  SizeBits,  (* the width of a size in units: 28 in the code, a u32 of bytes *)
  Sizes,     (* the sizes clients ask for                                   *)
  Fitting,   (* clients call malloc only when every free block is big       *)
             (* enough for the request and a header: malloc never looks     *)
  MaxLive    (* bound: blocks the clients hold at the same time             *)

SizeMod == 2^SizeBits

ASSUME HeapAssumption ==
  /\ MaxHeap \in Nat \ {0}
  /\ SizeBits \in Nat /\ 2 * MaxHeap < 2^SizeBits
  /\ Sizes \subseteq 1 .. 2^(SizeBits - 1)
  /\ Fitting \in BOOLEAN
  /\ MaxLive \in Nat

(* What a power of two is, for the widths that come up.                    *)
ASSUME PowersAssumption ==
  /\ 2^0 = 1
  /\ \A k \in 0 .. SizeBits : 2^k \in Nat \ {0}
  /\ \A k \in 1 .. SizeBits : 2^k = 2 * 2^(k - 1)

NULL == 0
Heap == 1                   (* the address of the array heap of ksbrk       *)
HeapTop == Heap + MaxHeap

(* The power of two not below v.  The code gets it from the exponent of a  *)
(* float; a v above half of the range of a u32 is left out.                *)
next_power_of_two(v) ==
  Min({p \in {2^k : k \in 0 .. SizeBits - 1} : p >= v})

TotalSize(s) == (next_power_of_two(s) + 1) % SizeMod

(* Where malloc may come to write a header.                                *)
Addr == Heap .. HeapTop + Max({0} \cup {TotalSize(s) : s \in Sizes})

VARIABLES
  heap_bottom,   (* NULL before the first call of ksbrk                     *)
  g_kbrk,        (* the end of what ksbrk has handed out                    *)
  header,        (* the header_t at each address                            *)
  pc,            (* where the current call of malloc or free is             *)
  m, n,          (* the pointers of those names                             *)
  size,          (* the argument of malloc                                  *)
  live           (* history: the blocks handed out, in the order of calls   *)

vars == <<heap_bottom, g_kbrk, header, pc, m, n, size, live>>

Header == [size : 0 .. SizeMod - 1, next : Addr \cup {NULL},
           magic : BOOLEAN, used : BOOLEAN]

(* The array is in .bss.  The code's is_hole is 1 for a block in use.      *)
Zero == [size |-> 0, next |-> NULL, magic |-> FALSE, used |-> FALSE]

Init ==
  /\ heap_bottom = NULL
  /\ g_kbrk = NULL
  /\ header = [a \in Addr |-> Zero]
  /\ pc = "idle"
  /\ m = NULL /\ n = NULL
  /\ size = 0
  /\ live = <<>>

(* The blocks on the list, from heap_bottom on; no sound list has more of  *)
(* them than the heap has units.                                           *)
Longest == MaxHeap
Nth[k \in 0 .. Longest] ==
  IF k = 0 THEN heap_bottom
  ELSE IF Nth[k - 1] = NULL THEN NULL ELSE header[Nth[k - 1]].next
Listed == {Nth[k] : k \in 0 .. Longest} \ {NULL}

-----------------------------------------------------------------------------
(* malloc                                                                  *)

Serves(s) ==
  Fitting => \A a \in Listed :
    header[a].magic => header[a].used \/ header[a].size >= TotalSize(s)

CallMalloc(s) ==
  /\ pc = "idle"
  /\ Len(live) < MaxLive
  /\ Serves(s)
  /\ size' = s
  /\ m' = heap_bottom
  /\ pc' = "magic"
  /\ UNCHANGED <<heap_bottom, g_kbrk, header, n, live>>

CheckMagic ==
  /\ pc = "magic"
  /\ pc' = IF m # NULL /\ ~header[m].magic THEN "idle" ELSE "walk"
  /\ UNCHANGED <<heap_bottom, g_kbrk, header, m, n, size, live>>

Walk ==
  /\ pc = "walk"
  /\ m # NULL
  /\ header[m].used
  /\ m' = header[m].next
  /\ UNCHANGED <<heap_bottom, g_kbrk, header, pc, n, size, live>>

(* The first block that is not in use is cut at m + total_size, whatever   *)
(* its size is, and its front part returned.                               *)
Remainder_NoHeader(s) == m + next_power_of_two(s)
Remainder(s) == m + TotalSize(s)

Carve ==
  LET rest == Remainder(size)
      cut == [header EXCEPT ![rest] =
                [size |-> (header[m].size - TotalSize(size)) % SizeMod,
                 next |-> header[m].next, magic |-> TRUE, used |-> FALSE]]
  IN
  /\ pc = "walk"
  /\ m # NULL
  /\ ~header[m].used
  /\ n' = rest
  /\ header' = [cut EXCEPT ![m].size = size, ![m].next = rest, ![m].used = TRUE]
  /\ live' = Append(live, [at |-> m, size |-> size])
  /\ pc' = "idle"
  /\ UNCHANGED <<heap_bottom, g_kbrk, m, size>>

(* allocate is an int.                                                     *)
Signed(x) == IF x >= SizeMod \div 2 THEN x - SizeMod ELSE x

(* ksbrk: the first call sets heap_bottom, also when it then refuses.      *)
NewBrk(s) ==
  (IF heap_bottom = NULL THEN Heap ELSE g_kbrk) + Signed(TotalSize(s))

Granted_AtTop(s) == Heap < NewBrk(s) /\ NewBrk(s) <= HeapTop + 2
Granted(s) == Heap < NewBrk(s) /\ NewBrk(s) < HeapTop

(* A block from ksbrk is not linked to the blocks before it.               *)
Grow ==
  LET p == IF heap_bottom = NULL THEN Heap ELSE g_kbrk IN
  /\ pc = "walk"
  /\ m = NULL
  /\ heap_bottom' = Heap
  /\ IF Granted(size)
     THEN /\ g_kbrk' = NewBrk(size)
          /\ header' = [header EXCEPT ![p] =
               [size |-> size, next |-> NULL, magic |-> TRUE, used |-> TRUE]]
          /\ live' = Append(live, [at |-> p, size |-> size])
     ELSE /\ g_kbrk' = p
          /\ UNCHANGED <<header, live>>
  /\ pc' = "idle"
  /\ UNCHANGED <<m, n, size>>

-----------------------------------------------------------------------------
(* free, of the i-th block handed out.                                     *)

CallFree(i) ==
  /\ pc = "idle"
  /\ m' = live[i].at
  /\ n' = heap_bottom
  /\ live' = SubSeq(live, 1, i - 1) \o SubSeq(live, i + 1, Len(live))
  /\ pc' = IF header[m'].magic THEN "find" ELSE "idle"
  /\ UNCHANGED <<heap_bottom, g_kbrk, header, size>>

Find ==
  /\ pc = "find"
  /\ n # NULL /\ n # m
  /\ n' = header[n].next
  /\ UNCHANGED <<heap_bottom, g_kbrk, header, pc, m, size, live>>

NotFound ==
  /\ pc = "find"
  /\ n = NULL
  /\ pc' = "idle"
  /\ UNCHANGED <<heap_bottom, g_kbrk, header, m, n, size, live>>

Found ==
  /\ pc = "find"
  /\ n # NULL /\ n = m
  /\ header' = [header EXCEPT ![m].used = FALSE]
  /\ m' = heap_bottom
  /\ pc' = "coalesce"
  /\ UNCHANGED <<heap_bottom, g_kbrk, n, size, live>>

(* m and the block after it are both free.  The code reads m->next->is_hole *)
(* before it compares m->next with NULL: the read of low memory is harmless *)
(* and the comparison decides.                                             *)
Mergeable_Never == FALSE
Mergeable ==
  /\ ~header[m].used
  /\ header[m].next # NULL
  /\ ~header[header[m].next].used

MergedSize_Twice(a, b) == (a + b + 2) % SizeMod
MergedSize(a, b) == (a + b + 1) % SizeMod

AfterMerge_Same(x) == x
AfterMerge(x) == header[x].next

Merge ==
  LET x == header[m].next IN
  /\ pc = "coalesce"
  /\ m # NULL
  /\ Mergeable
  /\ header' = [header EXCEPT
       ![m].size = MergedSize(header[m].size, header[x].size),
       ![m].next = AfterMerge(x)]
  /\ UNCHANGED <<heap_bottom, g_kbrk, pc, m, n, size, live>>

NextBlock ==
  /\ pc = "coalesce"
  /\ m # NULL
  /\ ~Mergeable
  /\ m' = header[m].next
  /\ UNCHANGED <<heap_bottom, g_kbrk, header, pc, n, size, live>>

EndFree ==
  /\ pc = "coalesce"
  /\ m = NULL
  /\ pc' = "idle"
  /\ UNCHANGED <<heap_bottom, g_kbrk, header, m, n, size, live>>

Inside ==
  \/ CheckMagic \/ Walk \/ Carve \/ Grow
  \/ Find \/ NotFound \/ Found \/ Merge \/ NextBlock \/ EndFree

Next ==
  \/ \E s \in Sizes : CallMalloc(s)
  \/ \E i \in 1 .. Len(live) : CallFree(i)
  \/ Inside

Spec == Init /\ [][Next]_vars

(* The caller's processor executes the call it is in.                      *)
FairSpec == Spec /\ WF_vars(Inside)

-----------------------------------------------------------------------------
(* Types; the break of ksbrk stays within the heap array, and the pointers *)
(* that malloc and free follow stay where a header can be.                 *)
TypeOK ==
  /\ heap_bottom \in {NULL, Heap}
  /\ g_kbrk \in {NULL} \cup (Heap .. HeapTop)
  /\ header \in [Addr -> Header]
  /\ pc \in {"idle", "magic", "walk", "find", "coalesce"}
  /\ m \in Addr \cup {NULL} /\ n \in Addr \cup {NULL}
  /\ size \in Sizes \cup {0}
  /\ live \in Seq([at : Addr, size : Sizes])

Idle == pc = "idle"

(* The memory a block takes up: its header and what was asked for.         *)
Extent(a, s) == a .. a + s
LiveExtent(i) == Extent(live[i].at, live[i].size)

(* No two blocks that clients hold overlap, headers included, and all lie  *)
(* within what ksbrk has handed out: a free block that is cut is never cut *)
(* into its neighbour, and no block is given out twice.                    *)
LiveDisjoint ==
  \A i \in 1 .. Len(live) :
    /\ live[i].at + live[i].size < g_kbrk
    /\ \A j \in 1 .. Len(live) : i # j => LiveExtent(i) \cap LiveExtent(j) = {}

(* The list goes upwards through the heap without overlaps or circles, no  *)
(* free block reaches into a block in use, and the headers of the blocks   *)
(* in use say so.                                                          *)
ListSound ==
  /\ \A a \in Listed :
       /\ header[a].magic
       /\ header[a].next # NULL => a + header[a].size < header[a].next
       /\ a + header[a].size < g_kbrk
       /\ ~header[a].used => \A i \in 1 .. Len(live) :
            Extent(a, header[a].size) \cap LiveExtent(i) = {}
  /\ \A i \in 1 .. Len(live) : header[live[i].at].used
HeapSound == Idle /\ header[Heap].magic => ListSound

(* A call of free leaves no two neighbours on the list both free.          *)
Coalesced ==
  Idle => \A a \in Listed :
    header[a].next # NULL => header[a].used \/ header[header[a].next].used

(* Every call returns: no loop over the list runs for ever.                *)
CallsReturn == ~Idle ~> Idle
=============================================================================
