------------------------------- MODULE Mutex -------------------------------
(***************************************************************************)
(* What acquire and release promise: a lock belongs to one client from the *)
(* moment it is taken to the moment that client gives it back.             *)
(***************************************************************************)
CONSTANTS Locks, Clients

VARIABLES
  taken,      (* the locks that are taken                                  *)
  holders     (* the clients that hold each lock                           *)

mutexVars == <<taken, holders>>

Init ==
  /\ taken = [k \in Locks |-> FALSE]
  /\ holders = [k \in Locks |-> {}]

Take(k, x) ==
  /\ ~taken[k]
  /\ taken' = [taken EXCEPT ![k] = TRUE]
  /\ holders' = [holders EXCEPT ![k] = {x}]

(* Only who holds the lock gives it back.                                  *)
Give(k, x) ==
  /\ holders[k] = {x}
  /\ taken' = [taken EXCEPT ![k] = FALSE]
  /\ holders' = [holders EXCEPT ![k] = {}]

Next == \E k \in Locks, x \in Clients : Take(k, x) \/ Give(k, x)

Spec == Init /\ [][Next]_mutexVars
=============================================================================
