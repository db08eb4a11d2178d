--------------------------- MODULE DepositEffects ---------------------------
(***************************************************************************)
(* What deposits do to the holdings that withdrawals and basket changes    *)
(* see: the mirror image of WithdrawEffects.                               *)
(***************************************************************************)
EXTENDS VaultState

\* A sweep into the vault lands the mints B.  They are in the table, with a weight,
\* unless a basket change has settled in the second in which the deposit was opened.
DepositLands(B) ==
    /\ status = "Active"
    /\ SameSecond \/ B \subseteq weighted
    /\ \A m \in B : EscrowMoves(m) /\ VaultMoves(m)
    /\ held' = held \cup B
    /\ UNCHANGED <<status, table, weighted, stranded, seeded, envVars>>
=============================================================================
