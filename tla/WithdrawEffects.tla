--------------------------- MODULE WithdrawEffects --------------------------
(***************************************************************************)
(* What withdrawals do to the state that deposits and basket changes see.  *)
(* A withdrawal never empties an account of the vault: its slice is the    *)
(* floor of balance * shares / denominator, and the denominator counts     *)
(* the dead shares of the first deposit, which nobody can withdraw.  So    *)
(* its only effect there is what its sweeps bring back.                    *)
(***************************************************************************)
EXTENDS VaultState

\* Variants the runs reject: no flag in a paused vault; a flag with one raised value.
FlagAfterReturn_ActiveOnly(R) ==
    IF R \ table # {} /\ status = "Active" THEN 2 ELSE stranded
FlagAfterReturn_OneBit(R) ==
    IF R \ table # {} /\ status \in {"Active", "Paused"} THEN 1 ELSE stranded

\* Land and mark: a mint off the table of a vault that may take deposits again is
\* announced with 2, which only the authority can clear.
FlagAfterReturn(R) ==
    IF R \ table # {} /\ status \in {"Active", "Paused"} THEN 2 ELSE stranded

\* A sweep lands the mints R in the vault.  Only a sweep that unwinds marks.
Landed(R, turned) ==
    /\ held' = held \cup R
    /\ stranded' = IF turned THEN FlagAfterReturn(R) ELSE stranded

\* Such a sweep as the entry side sees it: outside a basket change, of mints some
\* basket had with a weight; what a sold leg still holds lands without a mark.
WithdrawReturns(R, turned) ==
    /\ status # "Restructuring"
    /\ R \cap (table \ weighted) = {}
    /\ \A m \in R : VaultMoves(m) /\ EscrowMoves(m)
    /\ turned \/ TRUE \in Leftovers
    /\ Landed(R, turned)
    /\ UNCHANGED <<status, table, weighted, committed, pending, seeded, envVars>>
=============================================================================
