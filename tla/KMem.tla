-------------------------------- MODULE KMem --------------------------------
(***************************************************************************)
(* The physical page allocator of mmu/kmalloc.c: a LIFO list of free pages *)
(* threaded through the first word of each free page, filled at boot by    *)
(* kinit1/freerange and used by kalloc and kfree.  Every load and store of *)
(* the list is a step of its own, so that the role of kmem.lock shows.     *)
(* Addresses are numbers, as in the code; the word that struct run         *)
(* overlays on a page at address a is next[a].                             *)
(***************************************************************************)
EXTENDS Integers, Sequences

CONSTANTS
  Procs,     (* the flows of control that call kalloc and kfree             *)
  Boot,      (* the one that runs kernel_main, and so kinit1                *)
  UseLock,   (* does kinit2, declared in boot.h and defined nowhere, run?   *)
  PageSize,  (* PAGE_SIZE                                                   *)
  VStart,    (* the arguments of kinit1: &end ...                           *)
  VEnd       (* ... and P2V(4MB)                                            *)

NULL == 0

(* memset(p, 1, PAGE_SIZE) leaves 0x01010101 in the link word, which is    *)
(* neither NULL nor the address of a page of this range.                   *)
Junk == -1

ASSUME KMemAssumption ==
  /\ Boot \in Procs
  /\ UseLock \in BOOLEAN
  /\ PageSize \in Nat \ {0}
  /\ VStart \in Nat \ {0}
  /\ VEnd \in Nat

(* (P + PAGE_SIZE - 1) & ~(PAGE_SIZE - 1)                                  *)
PGROUNDUP(a) == (a + PageSize - 1) - ((a + PageSize - 1) % PageSize)

Addr == 1 .. VEnd

VARIABLES
  scan,      (* p of freerange                                              *)
  freelist,  (* kmem.freelist                                               *)
  next,      (* the link word of the page at each address                   *)
  use_lock,  (* kmem.use_lock                                               *)
  locked,    (* kmem.lock.locked                                            *)
  pc,        (* where each flow of control is in kalloc or kfree            *)
  arg,       (* p of kfree                                                  *)
  r,         (* r of kalloc                                                 *)
  ret,       (* what the last kalloc of each flow returned                  *)
  owned,     (* history: the pages each flow may use                        *)
  chain      (* history: the free pages, in list order                      *)

vars == <<scan, freelist, next, use_lock, locked, pc, arg, r, ret, owned, chain>>

Labels == {"idle", "scrub", "flock", "link", "head",
           "alock", "read", "pop", "unlock"}

(* kinit1 up to the loop of freerange: initlock, use_lock = 0 and the      *)
(* rounded start address.                                                  *)
Init ==
  /\ scan = PGROUNDUP(VStart)
  /\ freelist = NULL
  /\ next = [a \in Addr |-> Junk]
  /\ use_lock = FALSE
  /\ locked = FALSE
  /\ pc = [q \in Procs |-> "idle"]
  /\ arg = [q \in Procs |-> NULL]
  /\ r = [q \in Procs |-> NULL]
  /\ ret = [q \in Procs |-> NULL]
  /\ owned = [q \in Procs |-> {}]
  /\ chain = <<>>

Goto(q, label) == pc' = [pc EXCEPT ![q] = label]

(* The loop condition of freerange, p + PAGE_SIZE <= vend, no longer holds. *)
Scanned_PartialPage == scan >= VEnd
Scanned == scan + PageSize > VEnd

(* What kfree stores in r->next, and kalloc in kmem.freelist.              *)
LinkWord_Scrubbed(q) == next[arg[q]]
LinkWord(q) == freelist

AfterHead_Same(q) == r[q]
AfterHead(q) == next[r[q]]

-----------------------------------------------------------------------------
(* One turn of freerange: kfree(p), p += PAGE_SIZE.                        *)
FreeRange ==
  /\ pc[Boot] = "idle"
  /\ ~Scanned
  /\ arg' = [arg EXCEPT ![Boot] = scan]
  /\ owned' = [owned EXCEPT ![Boot] = @ \cup {scan}]
  /\ scan' = scan + PageSize
  /\ Goto(Boot, "scrub")
  /\ UNCHANGED <<freelist, next, use_lock, locked, r, ret, chain>>

(* The second half of initialisation: from here on other processors may    *)
(* call the allocator and the lock is used.                                *)
KInit2 ==
  /\ UseLock
  /\ Scanned
  /\ pc[Boot] = "idle"
  /\ use_lock' = TRUE
  /\ UNCHANGED <<scan, freelist, next, locked, pc, arg, r, ret, owned, chain>>

(* Before KInit2 only the boot flow exists.                                *)
MayCall(q) ==
  /\ pc[q] = "idle"
  /\ Scanned
  /\ q = Boot \/ use_lock

CallKfree(q, p) ==
  /\ MayCall(q)
  /\ p \in owned[q]
  /\ arg' = [arg EXCEPT ![q] = p]
  /\ Goto(q, "scrub")
  /\ UNCHANGED <<scan, freelist, next, use_lock, locked, r, ret, owned, chain>>

CallKalloc(q) ==
  /\ MayCall(q)
  /\ Goto(q, "alock")
  /\ UNCHANGED <<scan, freelist, next, use_lock, locked, arg, r, ret, owned, chain>>

(* memset(p, 1, PAGE_SIZE), before the lock is taken.                      *)
Scrub(q) ==
  /\ pc[q] = "scrub"
  /\ next' = [next EXCEPT ![arg[q]] = Junk]
  /\ Goto(q, "flock")
  /\ UNCHANGED <<scan, freelist, use_lock, locked, arg, r, ret, owned, chain>>

(* if (kmem.use_lock) acquire(&kmem.lock): xchg keeps spinning while the   *)
(* lock is held.  SpinLock models acquire and release themselves.          *)
LockFree_NoSpin == TRUE
LockFree == use_lock => ~locked

Acquire(q) ==
  /\ pc[q] \in {"flock", "alock"}
  /\ LockFree
  /\ locked' = (use_lock \/ locked)
  /\ Goto(q, IF pc[q] = "flock" THEN "link" ELSE "read")
  /\ UNCHANGED <<scan, freelist, next, use_lock, arg, r, ret, owned, chain>>

(* r->next = kmem.freelist                                                 *)
Link(q) ==
  /\ pc[q] = "link"
  /\ next' = [next EXCEPT ![arg[q]] = LinkWord(q)]
  /\ Goto(q, "head")
  /\ UNCHANGED <<scan, freelist, use_lock, locked, arg, r, ret, owned, chain>>

(* kmem.freelist = r                                                       *)
Publish(q) ==
  /\ pc[q] = "head"
  /\ freelist' = arg[q]
  /\ owned' = [owned EXCEPT ![q] = @ \ {arg[q]}]
  /\ chain' = <<arg[q]>> \o chain
  /\ Goto(q, "unlock")
  /\ UNCHANGED <<scan, next, use_lock, locked, arg, r, ret>>

(* r = kmem.freelist                                                       *)
ReadHead(q) ==
  /\ pc[q] = "read"
  /\ r' = [r EXCEPT ![q] = freelist]
  /\ Goto(q, "pop")
  /\ UNCHANGED <<scan, freelist, next, use_lock, locked, arg, ret, owned, chain>>

(* if (r) kmem.freelist = r->next                                          *)
Pop(q) ==
  /\ pc[q] = "pop"
  /\ r[q] # NULL
  /\ freelist' = AfterHead(q)
  /\ ret' = [ret EXCEPT ![q] = r[q]]
  /\ owned' = [owned EXCEPT ![q] = @ \cup {r[q]}]
  /\ chain' = Tail(chain)
  /\ Goto(q, "unlock")
  /\ UNCHANGED <<scan, next, use_lock, locked, arg, r>>

(* The list was empty: kalloc will return NULL.                            *)
PopNothing(q) ==
  /\ pc[q] = "pop"
  /\ r[q] = NULL
  /\ ret' = [ret EXCEPT ![q] = NULL]
  /\ Goto(q, "unlock")
  /\ UNCHANGED <<scan, freelist, next, use_lock, locked, arg, r, owned, chain>>

(* if (kmem.use_lock) release(&kmem.lock), and return                      *)
Release(q) ==
  /\ pc[q] = "unlock"
  /\ locked' = (locked /\ ~use_lock)
  /\ Goto(q, "idle")
  /\ UNCHANGED <<scan, freelist, next, use_lock, arg, r, ret, owned, chain>>

Step(q) ==
  \/ CallKalloc(q)
  \/ \E p \in Addr : CallKfree(q, p)
  \/ Scrub(q) \/ Acquire(q) \/ Link(q) \/ Publish(q)
  \/ ReadHead(q) \/ Pop(q) \/ PopNothing(q) \/ Release(q)

Next ==
  \/ FreeRange
  \/ KInit2
  \/ \E q \in Procs : Step(q)

Spec == Init /\ [][Next]_vars

-----------------------------------------------------------------------------
(* The free pages, and every page in the system.                           *)
Free == {chain[i] : i \in 1 .. Len(chain)}
Known == Free \cup UNION {owned[q] : q \in Procs}

(* Every whole page of the range given to kinit1, by arithmetic and not by *)
(* the loop of freerange.                                                  *)
WholePages == {a \in VStart .. VEnd : a % PageSize = 0 /\ a + PageSize <= VEnd}

(* Types; for the list: a link word that kalloc follows is NULL or a page, *)
(* never the 1s that kfree fills a page with before it links it.           *)
TypeOK ==
  /\ scan \in Nat
  /\ freelist \in Addr \cup {NULL}
  /\ next \in [Addr -> Addr \cup {NULL, Junk}]
  /\ use_lock \in BOOLEAN
  /\ locked \in BOOLEAN
  /\ pc \in [Procs -> Labels]
  /\ arg \in [Procs -> Addr \cup {NULL}]
  /\ r \in [Procs -> Addr \cup {NULL}]
  /\ ret \in [Procs -> Addr \cup {NULL}]
  /\ owned \in [Procs -> SUBSET Addr]
  /\ chain \in Seq(Addr)

(* At most one flow works on the list at a time, and when the lock is in   *)
(* use it is taken exactly then.                                           *)
InList == {"link", "head", "read", "pop", "unlock"}
Exclusion ==
  /\ \A q1, q2 \in Procs : pc[q1] \in InList /\ pc[q2] \in InList => q1 = q2
  /\ locked <=> use_lock /\ \E q \in Procs : pc[q] \in InList

(* A page is never free twice, free while somebody holds it, or held by    *)
(* two flows: what goes wrong when two pops of kalloc interleave.          *)
NoAliasing ==
  /\ \A i, j \in 1 .. Len(chain) : chain[i] = chain[j] => i = j
  /\ \A q \in Procs : owned[q] \cap Free = {}
  /\ \A q1, q2 \in Procs : q1 # q2 => owned[q1] \cap owned[q2] = {}

(* Pages do not overlap and lie within the range kinit1 was given, however *)
(* its ends are aligned (freerange's rounding and loop bound).             *)
PagesFit ==
  /\ \A a \in Known : VStart <= a /\ a + PageSize <= VEnd
  /\ \A a, b \in Known : a # b => a + PageSize <= b \/ b + PageSize <= a

(* Following kmem.freelist through the link words visits exactly the free  *)
(* pages and ends in NULL, also while a flow is inside kalloc or kfree.    *)
FreelistSound ==
  /\ freelist = (IF chain = <<>> THEN NULL ELSE chain[1])
  /\ \A i \in 1 .. Len(chain) :
       next[chain[i]] = (IF i = Len(chain) THEN NULL ELSE chain[i + 1])

(* Only whole pages of the range come into the system, and once freerange  *)
(* is through, the pages free and held are always all of them: however the *)
(* ends of the range are aligned, none is left out, lost or invented.      *)
NothingLost ==
  /\ Known \subseteq WholePages
  /\ Scanned => Known = WholePages

(* The allocator implements the abstract pool: the store to kmem.freelist  *)
(* is the moment a page changes hands.                                     *)
Pool == INSTANCE PagePool
          WITH Clients <- Procs, Pages <- Addr, NoPage <- NULL,
               pool <- Free, held <- owned
ImplementsPool == Pool!Spec
=============================================================================
