------------------------------ MODULE PagePool ------------------------------
(***************************************************************************)
(* What the physical page allocator of mmu/kmalloc.c promises, without the *)
(* free list and the lock that implement it: a page is in the pool or with *)
(* exactly one client, kalloc hands out some page of the pool and fails    *)
(* only when the pool is empty.  KMem implements this specification.       *)
(***************************************************************************)
CONSTANTS
  Clients,  (* whoever calls kalloc and kfree                 *)
  Pages,    (* every page that could ever be managed          *)
  NoPage    (* what a failing kalloc returns                  *)

VARIABLES
  pool,     (* the pages nobody holds                         *)
  held,     (* held[c]: the pages client c holds              *)
  ret       (* ret[c]: what the last kalloc of c returned     *)

vars == <<pool, held, ret>>

Init ==
  /\ pool = {}
  /\ held = [c \in Clients |-> {}]
  /\ ret = [c \in Clients |-> NoPage]

(* A page nobody knows of yet comes into the system in the hands of c.     *)
Donate(c, p) ==
  /\ p \notin pool
  /\ \A d \in Clients : p \notin held[d]
  /\ held' = [held EXCEPT ![c] = @ \cup {p}]
  /\ UNCHANGED <<pool, ret>>

Take(c, p) ==
  /\ p \in pool
  /\ pool' = pool \ {p}
  /\ held' = [held EXCEPT ![c] = @ \cup {p}]
  /\ ret' = [ret EXCEPT ![c] = p]

Fail(c) ==
  /\ pool = {}
  /\ ret' = [ret EXCEPT ![c] = NoPage]
  /\ UNCHANGED <<pool, held>>

Give(c, p) ==
  /\ p \in held[c]
  /\ pool' = pool \cup {p}
  /\ held' = [held EXCEPT ![c] = @ \ {p}]
  /\ UNCHANGED ret

Next ==
  \E c \in Clients :
    \/ \E p \in Pages : Donate(c, p) \/ Take(c, p) \/ Give(c, p)
    \/ Fail(c)

Spec == Init /\ [][Next]_vars
=============================================================================
