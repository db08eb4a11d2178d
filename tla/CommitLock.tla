----------------------------- MODULE CommitLock -----------------------------
(***************************************************************************)
(* What the commitment counter of a vault promises, without the program:   *)
(* a lock on how the vault is arranged (its table, its weights, whether it *)
(* is in business at all).  At most one depositor holds it; whoever does   *)
(* has a fixed number of shares reserved until the lock is released; and   *)
(* the arrangement changes only while nobody holds it.                     *)
(***************************************************************************)
EXTENDS Naturals

CONSTANTS Investor, Nobody, Arrangement

VARIABLES holder, reserved, arrangement

lockVars == <<holder, reserved, arrangement>>

Init == /\ holder = Nobody
        /\ reserved = 0
        /\ arrangement \in Arrangement

Acquire(i) == /\ holder = Nobody
              /\ holder' = i
              /\ reserved' \in Nat
              /\ UNCHANGED arrangement

Release == /\ holder # Nobody
           /\ holder' = Nobody
           /\ reserved' = 0
           /\ UNCHANGED arrangement

Rearrange == /\ holder = Nobody
             /\ arrangement' \in Arrangement
             /\ UNCHANGED <<holder, reserved>>

Next == (\E i \in Investor : Acquire(i)) \/ Release \/ Rearrange

Spec == Init /\ [][Next]_lockVars
=============================================================================
