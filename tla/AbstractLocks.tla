--------------------------- MODULE AbstractLocks ---------------------------
(***************************************************************************)
(* What a lock on a database file promises to the tools of the suite: a    *)
(* file is granted to a process only when nobody else holds it, it is      *)
(* given back by its holder, and the death of a process gives back         *)
(* everything it held.  CommonioLock, the protocol of lib/commonio.c, is   *)
(* shown to implement this specification.                                  *)
(***************************************************************************)
CONSTANTS Procs, Files

VARIABLE holders   \* [Files -> SUBSET Procs], the processes that hold a file

AInit == holders = [f \in Files |-> {}]

Acquire(p, f) ==
  /\ holders[f] = {}
  /\ holders' = [holders EXCEPT ![f] = {p}]

Release(p, f) ==
  /\ p \in holders[f]
  /\ holders' = [holders EXCEPT ![f] = @ \ {p}]

Vanish(p) == holders' = [f \in Files |-> holders[f] \ {p}]

ANext == \E p \in Procs : Vanish(p) \/ \E f \in Files : Acquire(p, f) \/ Release(p, f)

ASpec == AInit /\ [][ANext]_holders
=============================================================================
