------------------------------- MODULE LifeCycle -------------------------------
(***************************************************************************)
(* What a manager of jobs, tasks or plugins promises of each of them: its  *)
(* status changes along the arrows of the status enumeration and no other  *)
(* way.  Managers with stores, caches, crashes and threads implement it.   *)
(***************************************************************************)
CONSTANTS
  Things,    \* what lives
  Initial,   \* the status before the creation
  Arrows     \* the pairs of statuses a change may lead from and to

VARIABLE status

LifeInit == status = [x \in Things |-> Initial]

Change(x, s) ==
  /\ <<status[x], s>> \in Arrows
  /\ status' = [status EXCEPT ![x] = s]

LifeNext == \E x \in Things : \E arrow \in Arrows : Change(x, arrow[2])

LifeSpec == LifeInit /\ [][LifeNext]_status
=============================================================================
