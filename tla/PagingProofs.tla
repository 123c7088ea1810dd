---------------------------- MODULE PagingProofs ----------------------------
(***************************************************************************)
(* What holds of paging_install for every set of free pages, every shape   *)
(* of the page tables and every kmap: the pages it takes are kept apart.   *)
(***************************************************************************)
EXTENDS Paging, TLAPS

(* Until pagetable_init has its page no page serves any purpose.           *)
Fresh ==
  pc = "pagetable_init" =>
    /\ pgdir = NULL
    /\ \A d \in Directory : pde[d].table = NULL

(* mappages works on an entry of kmap that exists.                         *)
InKmap == pc \in {"pagewalk", "store"} => k <= Len(kmap)

(* The inductive invariant.                                                *)
IInv == TypeOK /\ OnePurpose /\ Fresh /\ InKmap

-----------------------------------------------------------------------------
(* The address space has at least one byte, and kmap a length.             *)

LEMMA Sizes ==
  /\ PageSize \in Nat \ {0} /\ Entries \in Nat \ {0} /\ Tables \in Nat \ {0}
  /\ Len(kmap) \in Nat
  BY PagingAssumption

LEMMA Product ==
  ASSUME NEW a \in Nat \ {0}, NEW b \in Nat \ {0} PROVE a * b \in Nat \ {0}
  OBVIOUS

LEMMA SpaceFacts == PageSize * Entries \in Nat \ {0} /\ Space \in Nat \ {0}
  <1>1. PageSize * Entries \in Nat \ {0}
    BY Sizes, Product
  <1>2. (PageSize * Entries) * Tables \in Nat \ {0}
    BY <1>1, Sizes, Product
  <1> QED
    BY <1>1, <1>2 DEF Space

(* A remainder lies below its divisor.                                     *)
LEMMA Remainder ==
  ASSUME NEW x \in Nat, NEW n \in Nat \ {0} PROVE x % n \in 0 .. n - 1
  OBVIOUS

(* A virtual address has its entry in the directory: PDE does not leave it.*)
LEMMA EntryExists ==
  ASSUME NEW va \in 0 .. Space - 1 PROVE PDE(va) \in Directory
  <1> DEFINE span == PageSize * Entries
  <1>1. span \in Nat \ {0}
    BY SpaceFacts
  <1>2. va \in Nat
    BY SpaceFacts
  <1> HIDE DEF span
  <1>3. va \div span \in Nat
    BY <1>1, <1>2
  <1>4. (va \div span) % Tables \in 0 .. Tables - 1
    BY <1>3, Sizes, Remainder
  <1> QED
    BY <1>4 DEF PDE, Directory, span

(* The step of mappages wraps around at the end of the address space.      *)
LEMMA NextPageInside ==
  ASSUME NEW va \in 0 .. Space - 1 PROVE NextPage(va) \in 0 .. Space - 1
  <1>1. va + PageSize \in Nat
    BY SpaceFacts, Sizes
  <1> QED
    BY <1>1, SpaceFacts, Remainder DEF NextPage

(* Both ends of an entry of kmap are addresses.                            *)
LEMMA RangeInside ==
  ASSUME NEW i \in 1 .. Len(kmap)
  PROVE  kmap[i].virt \in 0 .. Space - 1 /\ LastByte(i) \in 0 .. Space - 1
  <1>1. /\ kmap[i].virt \in 0 .. Space - 1
        /\ kmap[i].size \in 1 .. Space - kmap[i].virt
    BY PagingAssumption
  <1> QED
    BY <1>1, SpaceFacts DEF LastByte

(* The last entry of the loop over kmap is followed by the end of it.      *)
LEMMA NextEntry ==
  ASSUME NEW i \in 1 .. Len(kmap) + 1, i <= Len(kmap)
  PROVE  i \in 1 .. Len(kmap) /\ i + 1 \in 1 .. Len(kmap) + 1
  BY Sizes

-----------------------------------------------------------------------------
(* What kalloc returns is no page in use, and it stays out of the pool.    *)

LEMMA KallocFacts ==
  ASSUME pool \subseteq Pages, NEW page \in Pages \cup {NULL}, Kalloc(page)
  PROVE  /\ pool' \subseteq pool
         /\ page \notin pool'
         /\ page # NULL => page \in pool
  BY NoPageIsNull DEF Kalloc

(* Steps that leave every page where it is.                                *)
LEMMA PagesUntouched ==
  ASSUME OnePurpose, UNCHANGED <<pool, pgdir, pde>> PROVE OnePurpose'
  BY DEF OnePurpose, InUse

THEOREM Initially == Init => IInv
  <1> SUFFICES ASSUME Init PROVE IInv
    OBVIOUS
  <1>1. TypeOK
    <2>1. 0 \in 0 .. Space - 1 /\ 1 \in 1 .. Len(kmap) + 1
      BY SpaceFacts, Sizes
    <2>2. pde \in [Directory -> [table : Pages \cup {NULL}, present : BOOLEAN]]
      BY DEF Init, Directory
    <2> QED
      BY <2>1, <2>2 DEF Init, TypeOK
  <1>2. OnePurpose
    BY NoPageIsNull DEF Init, OnePurpose, InUse, Directory
  <1>3. Fresh /\ InKmap
    BY DEF Init, Fresh, InKmap, Directory
  <1> QED
    BY <1>1, <1>2, <1>3 DEF IInv

LEMMA AllocateDirectoryStep == ASSUME IInv, AllocateDirectory PROVE IInv'
  <1>1. PICK page \in Pages \cup {NULL} : Kalloc(page) /\ pgdir' = page
    BY DEF AllocateDirectory
  <1>2. TypeOK'
    BY <1>1, KallocFacts DEF IInv, TypeOK, AllocateDirectory
  <1>3. \A d \in Directory : pde'[d].table = NULL
    BY DEF IInv, Fresh, AllocateDirectory
  <1>4. NULL \notin pool'
    BY <1>2, NoPageIsNull DEF TypeOK
  <1>5. OnePurpose'
    BY <1>1, <1>3, <1>4, KallocFacts DEF IInv, TypeOK, OnePurpose, InUse
  <1>6. Fresh' /\ InKmap'
    BY DEF Fresh, InKmap, AllocateDirectory
  <1> QED
    BY <1>2, <1>5, <1>6 DEF IInv

LEMMA EnterMappagesStep == ASSUME IInv, EnterMappages PROVE IInv'
  <1>1. k \in 1 .. Len(kmap)
    BY NextEntry DEF IInv, TypeOK, EnterMappages
  <1>2. TypeOK'
    BY <1>1, RangeInside DEF IInv, TypeOK, EnterMappages
  <1>3. OnePurpose'
    BY PagesUntouched DEF IInv, EnterMappages
  <1>4. Fresh' /\ InKmap'
    BY DEF Fresh, InKmap, EnterMappages
  <1> QED
    BY <1>2, <1>3, <1>4 DEF IInv

(* A table that pagewalk takes was in the pool: it is neither the          *)
(* directory nor the table of another entry.                               *)
LEMMA pagewalkStep == ASSUME IInv, pagewalk PROVE IInv'
  <1> DEFINE d == PDE(start)
  <1>1. d \in Directory
    BY EntryExists DEF IInv, TypeOK
  <1> HIDE DEF d
  <1>2. Fresh' /\ InKmap'
    BY DEF IInv, InKmap, Fresh, pagewalk
  <1>3. CASE HasTable(d)
    <2>1. /\ result' = IsNull(pde[d].table)
          /\ UNCHANGED <<pool, pgdir, pde, taken, k, start, end, slot>>
          /\ pc' = "store"
      BY <1>3 DEF pagewalk, d
    <2>2. TypeOK'
      BY <2>1 DEF IInv, TypeOK, IsNull
    <2>3. OnePurpose'
      BY <2>1, PagesUntouched DEF IInv
    <2> QED
      BY <1>2, <2>2, <2>3 DEF IInv
  <1>4. CASE ~HasTable(d)
    <2>1. PICK page \in Pages \cup {NULL} :
            /\ Kalloc(page)
            /\ pde' = [pde EXCEPT ![d] = [table |-> page, present |-> PresentFlag]]
            /\ taken' = taken \cup ({page} \ {NULL})
            /\ result' = IsNull(page)
      BY <1>4 DEF pagewalk, d
    <2>2. UNCHANGED <<pgdir, k, start, end, slot>> /\ pc' = "store"
      BY DEF pagewalk
    <2>3. pool \subseteq Pages /\ pde \in [Directory -> [table : Pages \cup {NULL}, present : BOOLEAN]]
      BY DEF IInv, TypeOK
    <2>4. /\ pool' \subseteq pool
          /\ page \notin pool'
          /\ page # NULL => page \in pool
      BY <2>1, <2>3, KallocFacts
    <2>5. /\ pde' \in [Directory -> [table : Pages \cup {NULL}, present : BOOLEAN]]
          /\ pde'[d].table = page
          /\ \A e \in Directory : e # d => pde'[e].table = pde[e].table
      BY <1>1, <2>1, <2>3 DEF PresentFlag
    <2>6. TypeOK'
      BY <2>1, <2>2, <2>4, <2>5 DEF IInv, TypeOK, IsNull
    <2>7. OnePurpose'
      <3>1. pgdir \notin pool /\ \A e \in Directory : pde[e].table \notin pool
        BY DEF IInv, OnePurpose, InUse
      <3>2. pgdir' # NULL => \A e \in Directory : pde'[e].table # pgdir'
        BY <2>2, <2>4, <2>5, <3>1 DEF IInv, OnePurpose
      <3>3. \A e, f \in Directory :
              pde'[e].table = pde'[f].table => e = f \/ pde'[e].table = NULL
        BY <2>4, <2>5, <3>1 DEF IInv, OnePurpose
      <3>4. InUse' \cap pool' = {}
        BY <2>2, <2>4, <2>5, <3>1 DEF InUse
      <3> QED
        BY <3>2, <3>3, <3>4 DEF OnePurpose
    <2> QED
      BY <1>2, <2>6, <2>7 DEF IInv
  <1> QED
    BY <1>3, <1>4

LEMMA ClearNullStep == ASSUME IInv, ClearNull PROVE IInv'
  <1>1. TypeOK' /\ Fresh' /\ InKmap'
    BY DEF IInv, TypeOK, Fresh, InKmap, ClearNull
  <1>2. OnePurpose'
    BY PagesUntouched DEF IInv, ClearNull
  <1> QED
    BY <1>1, <1>2 DEF IInv

LEMMA FaultStep == ASSUME IInv, Fault PROVE IInv'
  <1>1. TypeOK' /\ Fresh' /\ InKmap'
    BY DEF IInv, TypeOK, Fresh, InKmap, Fault
  <1>2. OnePurpose'
    BY PagesUntouched DEF IInv, Fault
  <1> QED
    BY <1>1, <1>2 DEF IInv

LEMMA FailedStep == ASSUME IInv, Failed PROVE IInv'
  <1>1. k + 1 \in 1 .. Len(kmap) + 1
    BY NextEntry DEF IInv, InKmap, TypeOK, Failed
  <1>2. TypeOK' /\ Fresh' /\ InKmap'
    BY <1>1 DEF IInv, TypeOK, Fresh, InKmap, Failed
  <1>3. OnePurpose'
    BY PagesUntouched DEF IInv, Failed
  <1> QED
    BY <1>2, <1>3 DEF IInv

LEMMA StoredStep == ASSUME IInv, Stored PROVE IInv'
  <1>1. k + 1 \in 1 .. Len(kmap) + 1
    BY NextEntry DEF IInv, InKmap, TypeOK, Stored
  <1>2. NextPage(start) \in 0 .. Space - 1 /\ NextPage(end) \in 0 .. Space - 1
    BY NextPageInside DEF IInv, TypeOK
  <1>3. TypeOK'
    BY <1>1, <1>2 DEF IInv, TypeOK, Stored
  <1>4. Fresh' /\ InKmap'
    BY DEF IInv, Fresh, InKmap, Stored
  <1>5. OnePurpose'
    BY PagesUntouched DEF IInv, Stored
  <1> QED
    BY <1>3, <1>4, <1>5 DEF IInv

LEMMA ReturnStep == ASSUME IInv, Return PROVE IInv'
  <1>1. TypeOK' /\ Fresh' /\ InKmap'
    BY DEF IInv, TypeOK, Fresh, InKmap, Return
  <1>2. OnePurpose'
    BY PagesUntouched DEF IInv, Return
  <1> QED
    BY <1>1, <1>2 DEF IInv

THEOREM Inductive == IInv /\ [Next]_vars => IInv'
  <1> SUFFICES ASSUME IInv, [Next]_vars PROVE IInv'
    OBVIOUS
  <1>1. CASE UNCHANGED vars
    BY <1>1, PagesUntouched DEF IInv, TypeOK, Fresh, InKmap, vars
  <1>2. CASE Next
    BY <1>2, AllocateDirectoryStep, EnterMappagesStep, pagewalkStep, ClearNullStep, FaultStep,
       FailedStep, StoredStep, ReturnStep DEF Next
  <1> QED
    BY <1>1, <1>2

-----------------------------------------------------------------------------
(* The invariant holds in every reachable state.                           *)
THEOREM Invariance == Spec => []IInv
  <1> QED
    BY Initially, Inductive, PTL DEF Spec

(* start and end stay virtual addresses and the index of kmap in bounds    *)
(* whatever ranges paging_install maps.                                    *)
THEOREM TypeCorrect == Spec => []TypeOK
  <1>1. IInv => TypeOK
    BY DEF IInv
  <1> QED
    BY <1>1, Invariance, PTL

(* However many pages there are and however often pagewalk runs for the    *)
(* same entry, the directory and the tables are pages of their own and     *)
(* kalloc has none of them to give away.                                   *)
THEOREM PagesApart == Spec => []OnePurpose
  <1>1. IInv => OnePurpose
    BY DEF IInv
  <1> QED
    BY <1>1, Invariance, PTL
=============================================================================
