------------------------------ MODULE SpinLock ------------------------------
(***************************************************************************)
(* acquire and release of mmu/spinlock.c, with the interrupt flag that     *)
(* pushcli and popcli clear and set.  Each CPU runs a stack of frames: the *)
(* thread at the bottom and the interrupt handlers that came in above it;  *)
(* only the top frame runs.  What frames do with the locks is left open:   *)
(* they take and give back locks in any order, at most Nesting at a time.  *)
(***************************************************************************)
EXTENDS Integers, Sequences, FiniteSets

CONSTANTS
  CPUs,
  Locks,
  MaxDepth,   (* bound: frames on one CPU's stack                 *)
  Nesting     (* bound: locks one frame holds at the same time    *)

ASSUME SpinLockAssumption ==
  /\ Locks # {} /\ IsFiniteSet(Locks)
  /\ MaxDepth \in Nat \ {0}
  /\ Nesting \in Nat \ {0}

VARIABLES
  locked,     (* lk->locked, of every lock                        *)
  intr,       (* IF of each CPU's eflags                          *)
  stack       (* each CPU's frames, the running one last          *)

vars == <<locked, intr, stack>>

Labels == {"out", "cli", "check", "xchg", "store", "sti"}

(* lk is the argument of the acquire or release in progress; held are the  *)
(* locks the frame's acquires have returned with and no release has taken. *)
Frame == [at : Labels, lk : Locks, held : SUBSET Locks]

NewFrame == [at |-> "out", lk |-> CHOOSE k \in Locks : TRUE, held |-> {}]

Depth(c) == Len(stack[c])
Top(c) == stack[c][Depth(c)]

(* The top frame of c becomes f.                                           *)
Run(c, f) == stack' = [stack EXCEPT ![c][Depth(c)] = f]

(* initlock, with the interrupts already on.                               *)
Init ==
  /\ locked = [k \in Locks |-> FALSE]
  /\ intr = [c \in CPUs |-> TRUE]
  /\ stack = [c \in CPUs |-> <<NewFrame>>]

(* holding(lk)                                                             *)
Holding(k) == locked[k]

-----------------------------------------------------------------------------
CallAcquire(c, k) ==
  /\ Top(c).at = "out"
  /\ k \notin Top(c).held
  /\ Cardinality(Top(c).held) < Nesting
  /\ Run(c, [Top(c) EXCEPT !.at = "cli", !.lk = k])
  /\ UNCHANGED <<locked, intr>>

(* What pushcli leaves in IF.                                              *)
AfterPushcli_Kept(c) == intr[c]
AfterPushcli(c) == FALSE

Pushcli(c) ==
  /\ Top(c).at = "cli"
  /\ intr' = [intr EXCEPT ![c] = AfterPushcli(c)]
  /\ Run(c, [Top(c) EXCEPT !.at = "check"])
  /\ UNCHANGED locked

(* if (holding(lk)) kprintf(...): a message, and on to the loop.           *)
Check(c) ==
  /\ Top(c).at = "check"
  /\ Run(c, [Top(c) EXCEPT !.at = "xchg"])
  /\ UNCHANGED <<locked, intr>>

(* while (xchg(&lk->locked, 1) != 0): a turn that finds the lock taken     *)
(* writes the 1 that was there and changes nothing.                        *)
Won_Always(k) == TRUE
Won(k) == ~locked[k]

Xchg(c) ==
  LET k == Top(c).lk IN
  /\ Top(c).at = "xchg"
  /\ Won(k)
  /\ locked' = [locked EXCEPT ![k] = TRUE]
  /\ Run(c, [Top(c) EXCEPT !.at = "out", !.held = @ \cup {k}])
  /\ UNCHANGED intr

CallRelease(c, k) ==
  /\ Top(c).at = "out"
  /\ k \in Top(c).held
  /\ Run(c, [Top(c) EXCEPT !.at = "store", !.lk = k])
  /\ UNCHANGED <<locked, intr>>

(* movl $0, lk->locked                                                     *)
StoreFree_Forgotten(k) == locked
StoreFree(k) == [locked EXCEPT ![k] = FALSE]

Store(c) ==
  LET k == Top(c).lk IN
  /\ Top(c).at = "store"
  /\ locked' = StoreFree(k)
  /\ Run(c, [Top(c) EXCEPT !.at = "sti", !.held = @ \ {k}])
  /\ UNCHANGED intr

(* popcli: sti whatever the flag was before the acquire.                   *)
Popcli(c) ==
  /\ Top(c).at = "sti"
  /\ intr' = [intr EXCEPT ![c] = TRUE]
  /\ Run(c, [Top(c) EXCEPT !.at = "out"])
  /\ UNCHANGED locked

(* An interrupt gate clears IF.                                            *)
Interrupt(c) ==
  /\ intr[c]
  /\ Depth(c) < MaxDepth
  /\ stack' = [stack EXCEPT ![c] = Append(@, NewFrame)]
  /\ intr' = [intr EXCEPT ![c] = FALSE]
  /\ UNCHANGED locked

InHandler_Always(c) == TRUE
InHandler(c) == Depth(c) > 1

(* The end of irq_common_stub: sti, and iretl, which restores the eflags   *)
(* of a frame that could be interrupted.                                   *)
Return(c) ==
  /\ InHandler(c)
  /\ Top(c).at = "out"
  /\ Top(c).held = {}
  /\ stack' = [stack EXCEPT ![c] = SubSeq(@, 1, Depth(c) - 1)]
  /\ intr' = [intr EXCEPT ![c] = TRUE]
  /\ UNCHANGED locked

(* The way to the next point where the frame holds one lock less.          *)
Release(c) ==
  \/ \E k \in Locks : CallRelease(c, k)
  \/ Store(c)
  \/ Popcli(c)

Inside(c) == Pushcli(c) \/ Check(c) \/ Xchg(c)

Next ==
  \E c \in CPUs :
    \/ \E k \in Locks : CallAcquire(c, k)
    \/ Inside(c)
    \/ Release(c)
    \/ Interrupt(c)
    \/ Return(c)

(* A CPU keeps executing instructions, and whoever holds a lock gives it   *)
(* back in the end, as kalloc and kfree do.                                *)
Fairness == \A c \in CPUs : WF_vars(Inside(c)) /\ WF_vars(Release(c))

Spec == Init /\ [][Next]_vars

FairSpec == Spec /\ Fairness

-----------------------------------------------------------------------------
(* Types; every CPU always has its thread's frame at the bottom of the     *)
(* stack: no return path pops more than an interrupt pushed.               *)
TypeOK ==
  /\ locked \in [Locks -> BOOLEAN]
  /\ intr \in [CPUs -> BOOLEAN]
  /\ stack \in [CPUs -> Seq(Frame)]
  /\ \A c \in CPUs : stack[c] # <<>>

(* Frame i of CPU c.                                                       *)
FrameIds == {<<c, i>> : c \in CPUs, i \in 1 .. MaxDepth}
Live(id) == id[2] <= Depth(id[1])
FrameOf(id) == stack[id[1]][id[2]]

Holds(id, k) == Live(id) /\ k \in FrameOf(id).held

(* The word in memory is 1 exactly while some frame is between the end of  *)
(* an acquire and the store of its release, and two frames never are, be   *)
(* they on two CPUs or a thread and the handler that interrupted it.       *)
MutualExclusion ==
  \A k \in Locks :
    /\ \A x, y \in FrameIds : Holds(x, k) /\ Holds(y, k) => x = y
    /\ locked[k] <=> \E x \in FrameIds : Holds(x, k)

(* A handler never spins on a lock that a frame it interrupted on the same *)
(* CPU holds: the deadlock that disabling the interrupts is there to avoid.*)
NoSelfDeadlock ==
  \A c \in CPUs :
    Top(c).at \in {"check", "xchg"} =>
      \A i \in 1 .. Depth(c) - 1 : Top(c).lk \notin stack[c][i].held

(* The loop of exchanges and the store implement the abstract lock, whose  *)
(* clients are the frames: an acquire returns to one frame at a time, and  *)
(* only that frame's release makes the lock free, whatever other CPUs and  *)
(* handlers do between the two.                                            *)
HoldersOf(k) == {x \in FrameIds : Holds(x, k)}
Lock == INSTANCE Mutex WITH
  Clients <- FrameIds, taken <- locked, holders <- [k \in Locks |-> HoldersOf(k)]
ImplementsMutex == Lock!Spec

(* A lock that is taken becomes free again, however the CPUs interleave    *)
(* and whenever interrupts come.                                           *)
TakenIsFreed == \A k \in Locks : locked[k] ~> ~locked[k]
=============================================================================
