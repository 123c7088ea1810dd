------------------------------- MODULE Paging -------------------------------
(***************************************************************************)
(* paging_install of mmu/mmu.c: pagetable_init takes a page for the page   *)
(* directory and calls mappages for each entry of kmap, and mappages calls *)
(* pagewalk for one page after another.  The pool of kalloc is the one     *)
(* PagePool specifies; the boot thread is the only client here.            *)
(*                                                                         *)
(* mappages never assigns its local pte: the condition of its first if     *)
(* stores the result of a comparison through it.  The word it happens to   *)
(* point to is chosen when mappages is entered: not mapped, which faults,  *)
(* or some word of memory that holds no page table and no free list link.  *)
(***************************************************************************)
EXTENDS Integers, Sequences, FiniteSets

CONSTANTS
  Pages,      (* the free pages when paging_install is called               *)
  PageSize,   (* PAGE_SIZE                                                  *)
  Entries,    (* PAGES_PER_TABLE                                            *)
  Tables,     (* PAGES_PER_DIR                                              *)
  kmap        (* the ranges to map: a sequence of [virt, size]              *)

(* Virtual addresses are u32.                                              *)
Space == PageSize * Entries * Tables

ASSUME PagingAssumption ==
  /\ {PageSize, Entries, Tables} \subseteq Nat \ {0}
  /\ kmap \in Seq([virt : Nat, size : Nat])
  /\ \A i \in 1 .. Len(kmap) :
       /\ kmap[i].virt \in 0 .. Space - 1
       /\ kmap[i].size \in 1 .. Space - kmap[i].virt

NULL == "null"
ASSUME NoPageIsNull == NULL \notin Pages

VARIABLES
  pool,       (* the pages kalloc can still hand out                        *)
  pgdir,      (* the page of the directory                                  *)
  pde,        (* the entries of the directory                               *)
  pc,
  k,          (* which entry of kmap                                        *)
  start, end, (* start and end of mappages                                  *)
  slot,       (* what mappages's pte points to                              *)
  result,     (* what pagewalk returned: is it the null pointer?            *)
  taken       (* history: the pages pagewalk got from kalloc                *)

vars == <<pool, pgdir, pde, pc, k, start, end, slot, result, taken>>

PDE(va) == (va \div (PageSize * Entries)) % Tables
PTE(va) == (va \div PageSize) % Entries

Init ==
  /\ pool = Pages
  /\ pgdir = NULL
  /\ pde = [d \in 0 .. Tables - 1 |-> [table |-> NULL, present |-> FALSE]]
  /\ pc = "pagetable_init"
  /\ k = 1
  /\ start = 0 /\ end = 0
  /\ slot = "elsewhere"
  /\ result = FALSE
  /\ taken = {}

(* kalloc: a page of the pool, or 0 when there is none.                    *)
Kalloc_NotTaken(page) ==
  IF pool = {} THEN page = NULL /\ UNCHANGED pool
  ELSE page \in pool /\ UNCHANGED pool
Kalloc(page) ==
  IF pool = {} THEN page = NULL /\ UNCHANGED pool
  ELSE page \in pool /\ pool' = pool \ {page}

AllocateDirectory ==
  /\ pc = "pagetable_init"
  /\ \E page \in Pages \cup {NULL} :
       /\ Kalloc(page)
       /\ pgdir' = page
       /\ pc' = IF page = NULL THEN "returned" ELSE "kmap"
  /\ UNCHANGED <<pde, k, start, end, slot, result, taken>>

(* The last byte of a range, computed without a carry out of 32 bits.      *)
LastByte_PastEnd(i) == kmap[i].virt + kmap[i].size
LastByte(i) == kmap[i].virt + kmap[i].size - 1

EnterMappages ==
  /\ pc = "kmap"
  /\ k <= Len(kmap)
  /\ start' = kmap[k].virt
  /\ end' = LastByte(k)
  /\ slot' \in {"unmapped", "elsewhere"}
  /\ pc' = "pagewalk"
  /\ UNCHANGED <<pool, pgdir, pde, k, result, taken>>

(* The flags pagewalk sets in a directory entry: PAGE_PRESENT is 0 << 1,   *)
(* and none of the others is PTE_P.                                        *)
PresentFlag == FALSE

(* Bit 0 of a directory entry, PTE_P, is all pagewalk looks at.            *)
HasTable(d) == pde[d].present

(* The address of entry PTE(start) of a table at address 0 is 0 only for   *)
(* the first entry.                                                        *)
IsNull_Unchecked(table) == FALSE
IsNull(table) == table = NULL /\ PTE(start) = 0

(* What kalloc returns is not looked at before it is cleared and entered:  *)
(* without a page the first 4 KB of memory are cleared, if the _start that *)
(* is linked has left them mapped.                                         *)
pagewalk ==
  LET d == PDE(start) IN
  /\ pc = "pagewalk"
  /\ IF HasTable(d)
     THEN /\ result' = IsNull(pde[d].table)
          /\ UNCHANGED <<pool, pde, taken>>
     ELSE \E page \in Pages \cup {NULL} :
            /\ Kalloc(page)
            /\ pde' = [pde EXCEPT ![d] = [table |-> page, present |-> PresentFlag]]
            /\ taken' = taken \cup ({page} \ {NULL})
            /\ result' = IsNull(page)
  /\ pc' = "store"
  /\ UNCHANGED <<pgdir, k, start, end, slot>>

(* load.S has unmapped them.  page_fault prints and calls die().           *)
ClearNull ==
  /\ pc = "pagewalk"
  /\ ~HasTable(PDE(start))
  /\ pool = {}
  /\ pc' = "dead"
  /\ UNCHANGED <<pool, pgdir, pde, k, start, end, slot, result, taken>>

Fault ==
  /\ pc = "store"
  /\ slot = "unmapped"
  /\ pc' = "dead"
  /\ UNCHANGED <<pool, pgdir, pde, k, start, end, slot, result, taken>>

(* *pte = (pagewalk(...) == 0) is 1 for a null pointer: return -1, which   *)
(* as a u32 is not less than 0, and pagetable_init goes on.                *)
Failed ==
  /\ pc = "store"
  /\ slot = "elsewhere"
  /\ result
  /\ k' = k + 1
  /\ pc' = "kmap"
  /\ UNCHANGED <<pool, pgdir, pde, start, end, slot, result, taken>>

NextPage(va) == (va + PageSize) % Space

(* It is 0 otherwise, "remapped" does not come up, and the entry is stored *)
(* through the same pte.  start and end both move on by a page.            *)
Stored ==
  /\ pc = "store"
  /\ slot = "elsewhere"
  /\ ~result
  /\ IF start = end
     THEN /\ k' = k + 1
          /\ pc' = "kmap"
          /\ UNCHANGED <<start, end>>
     ELSE /\ start' = NextPage(start)
          /\ end' = NextPage(end)
          /\ pc' = "pagewalk"
          /\ UNCHANGED k
  /\ UNCHANGED <<pool, pgdir, pde, slot, result, taken>>

Return ==
  /\ pc = "kmap"
  /\ k > Len(kmap)
  /\ pc' = "returned"
  /\ UNCHANGED <<pool, pgdir, pde, k, start, end, slot, result, taken>>

Next ==
  \/ AllocateDirectory \/ EnterMappages \/ pagewalk \/ ClearNull
  \/ Fault \/ Failed \/ Stored \/ Return

Spec == Init /\ [][Next]_vars

(* Interrupts return, so the thread executes on.                           *)
FairSpec == Spec /\ WF_vars(Next)

-----------------------------------------------------------------------------
Directory == 0 .. Tables - 1

(* Types; start and end of mappages stay virtual addresses, and pages come *)
(* only from the pool of kalloc.                                           *)
TypeOK ==
  /\ pool \subseteq Pages /\ taken \subseteq Pages
  /\ pgdir \in Pages \cup {NULL}
  /\ pde \in [Directory -> [table : Pages \cup {NULL}, present : BOOLEAN]]
  /\ pc \in {"pagetable_init", "kmap", "pagewalk", "store", "returned", "dead"}
  /\ k \in 1 .. Len(kmap) + 1
  /\ start \in 0 .. Space - 1 /\ end \in 0 .. Space - 1
  /\ slot \in {"unmapped", "elsewhere"}
  /\ result \in BOOLEAN

(* A page serves one purpose: the directory is not also a table, no two    *)
(* entries share a table, and none of these pages is still in the pool of  *)
(* kalloc.                                                                 *)
InUse == {pgdir} \cup {pde[d].table : d \in Directory}
OnePurpose ==
  /\ pgdir # NULL => \A d \in Directory : pde[d].table # pgdir
  /\ \A d, e \in Directory :
       pde[d].table = pde[e].table => d = e \/ pde[d].table = NULL
  /\ InUse \cap pool = {}

(* paging_install comes to an end: the loop of mappages, whose start and   *)
(* end move on together, stops at the latest when kalloc has no page left. *)
Returns == <>(pc \in {"returned", "dead"})

(* "If not present then, Page Table hasn't been allocated" (mmu.c:15): a   *)
(* table is allocated only for an entry that has none, so every page that  *)
(* pagewalk took is the table of some entry.                               *)
TablesKept == \A page \in taken : \E d \in Directory : pde[d].table = page
=============================================================================
