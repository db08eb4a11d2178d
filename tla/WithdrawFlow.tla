---------------------------- MODULE WithdrawFlow ----------------------------
(***************************************************************************)
(* The fractional withdrawal.  withdraw_init burns the investor's shares   *)
(* and moves a slice of every basket mint into escrows of the session;     *)
(* withdraw_swap_batch sells them to USDC; withdraw_claim_leg_in_kind pays *)
(* them out as they are; withdraw_sweep_batch closes the escrows of a      *)
(* complete session or, unwinding an incomplete one, returns them to the   *)
(* vault; withdraw_settle pays the USDC; withdraw_abort mints the shares   *)
(* again.  Selling or claiming anything sets `sold`, which bars the abort. *)
(* Nobody's escrow is emptied twice: `funded` are the ones with tokens.    *)
(***************************************************************************)
EXTENDS WithdrawEffects

CONSTANTS MaxPosition,   \* bound on the shares of an investor
          UnwindTimeout, \* WITHDRAW_SESSION_TIMEOUT_SECS
          InKindTimeout, \* WITHDRAW_INKIND_TIMEOUT_SECS
          OrphanTimeout  \* WITHDRAW_ORPHAN_ABORT_SECS

ASSUME WithdrawAssumption ==
    /\ MaxPosition \in Nat
    /\ UnwindTimeout \in Nat /\ InKindTimeout \in Nat /\ OrphanTimeout \in Nat
    /\ UnwindTimeout <= InKindTimeout /\ InKindTimeout <= OrphanTimeout
    /\ OrphanTimeout < MaxAge

VARIABLES wd,      \* the WithdrawSession account of each investor
          shares,  \* user_position.shares of each investor
          burned   \* pending_burned_shares, u64 @888/@962

withdrawVars == <<wd, shares, burned>>

WithdrawSession == [open: BOOLEAN, burn: 0..MaxPosition, legs: SUBSET Mint,
                    completed: SUBSET Mint, swept: SUBSET Mint, funded: SUBSET Mint,
                    cash: BOOLEAN, proceeds: BOOLEAN, in_kind: SUBSET Mint,
                    sold: BOOLEAN, aborting: BOOLEAN, age: 0..MaxAge]

NoWithdrawal == [open |-> FALSE, burn |-> 0, legs |-> {}, completed |-> {}, swept |-> {},
                 funded |-> {}, cash |-> FALSE, proceeds |-> FALSE, in_kind |-> {},
                 sold |-> FALSE, aborting |-> FALSE, age |-> 0]

AllTraded(w) == w.completed = w.legs
\* Variant the runs reject: takes the escrow of a sold leg for empty and closed.
AllSwept_Unsold(w) == w.legs \ w.completed \subseteq w.swept
AllSwept(w) == w.swept = w.legs
Settleable(w) == w.sold /\ AllTraded(w) /\ AllSwept(w)

\* Variant the runs reject: an abort that undoes a session of which legs were sold.
MayRestore_Sold(w) == AllSwept(w)
MayRestore(w) == AllSwept(w) /\ ~w.sold

\* Variant the runs reject: anyone may unwind as early as a session may be abandoned.
MayTurnBack_Early(w, who) == who = "investor" \/ w.age > UnwindTimeout
MayTurnBack(w, who) == who = "investor" \/ w.age > OrphanTimeout

-----------------------------------------------------------------------------

\* Variant the runs reject: burns shares without asking whether the investor has them.
WithdrawInit_Overdraw(i, burn) ==
    /\ status \notin {"Closed", "Restructuring"}
    /\ seeded
    /\ ~wd[i].open
    /\ \E parked \in SUBSET weighted, cash \in IF VaultMoves(USDC) THEN BOOLEAN ELSE {FALSE} :
         /\ {m \in weighted : m \notin held \/ ~VaultMoves(m)} \subseteq parked
         /\ \A m \in weighted \ parked : EscrowMoves(m)
         /\ wd' = [wd EXCEPT ![i] = [NoWithdrawal EXCEPT !.open = TRUE, !.burn = burn,
                     !.legs = weighted, !.completed = parked, !.funded = weighted \ parked,
                     !.cash = cash]]
    /\ shares' = [shares EXCEPT ![i] = @ - burn]
    /\ UNCHANGED <<vaultVars, envVars, burned>>

\* The slices that cannot move are parked: their legs count as completed and their
\* tokens stay in the vault.  So is a slice that rounds to zero, or whose mint changed.
WithdrawInit(i, burn) ==
    /\ status \notin {"Closed", "Restructuring"}
    /\ seeded
    /\ ~wd[i].open
    /\ burn \in 1..shares[i]
    /\ \E parked \in SUBSET weighted, cash \in IF VaultMoves(USDC) THEN BOOLEAN ELSE {FALSE} :
         /\ {m \in weighted : m \notin held \/ ~VaultMoves(m)} \subseteq parked
         /\ \A m \in weighted \ parked : EscrowMoves(m)
         /\ wd' = [wd EXCEPT ![i] = [NoWithdrawal EXCEPT !.open = TRUE, !.burn = burn,
                     !.legs = weighted, !.completed = parked, !.funded = weighted \ parked,
                     !.cash = cash]]
    /\ shares' = [shares EXCEPT ![i] = @ - burn]
    /\ UNCHANGED <<vaultVars, envVars, burned>>

\* Signed by the investor.  The sale need not consume the whole escrow.
WithdrawSwapBatch(i, B) ==
    /\ status \notin {"Closed", "Restructuring"}
    /\ wd[i].open
    /\ ~wd[i].aborting
    /\ Cardinality(B) \in 1..SwapBatch
    /\ B \subseteq wd[i].legs \ wd[i].completed
    /\ \A m \in B \cup {USDC} : EscrowMoves(m)
    /\ \E unsold \in IF TRUE \in Leftovers THEN SUBSET B ELSE {{}} :
         wd' = [wd EXCEPT ![i].completed = @ \cup B, ![i].funded = @ \ (B \ unsold),
                          ![i].sold = TRUE, ![i].cash = TRUE, ![i].proceeds = TRUE]
    /\ UNCHANGED <<vaultVars, envVars, shares, burned>>

\* Variant the runs reject: sweeps into a vault whose basket is being changed.
Sweeps_AnyStatus(i, B) ==
    /\ wd[i].open
    /\ wd[i].sold => AllTraded(wd[i])
    /\ Cardinality(B) \in 1..SweepBatch
    /\ B \subseteq wd[i].legs \ wd[i].swept
    /\ \A m \in B \cap wd[i].funded : EscrowMoves(m) /\ VaultMoves(m)
    /\ UNCHANGED <<status, table, weighted, committed, pending, seeded, envVars, shares>>

\* withdraw_sweep_batch of the legs B, either way: their escrows are emptied and closed.
Sweeps(i, B) ==
    /\ status # "Restructuring"
    /\ wd[i].open
    /\ wd[i].sold => AllTraded(wd[i])
    /\ Cardinality(B) \in 1..SweepBatch
    /\ B \subseteq wd[i].legs \ wd[i].swept
    /\ \A m \in B \cap wd[i].funded : EscrowMoves(m) /\ VaultMoves(m)
    /\ UNCHANGED <<status, table, weighted, committed, pending, seeded, envVars, shares>>

\* The burned shares are reserved once, by the batch that starts the unwinding.
Reserve(w) == IF w.aborting THEN 0 ELSE w.burn

\* Unwinding.
WithdrawUnwind(i, B, who) ==
    /\ Sweeps(i, B)
    /\ wd[i].aborting \/ ~AllTraded(wd[i])
    /\ MayTurnBack(wd[i], who)
    /\ wd' = [wd EXCEPT ![i].swept = @ \cup B, ![i].funded = @ \ B, ![i].aborting = TRUE]
    /\ burned' = burned + Reserve(wd[i])
    /\ Landed(B \cap wd[i].funded, TRUE)

\* On the way to the settle, by anyone: what a sale left over goes to the vault.
WithdrawClose(i, B) ==
    /\ Sweeps(i, B)
    /\ AllTraded(wd[i]) /\ ~wd[i].aborting
    /\ wd' = [wd EXCEPT ![i].swept = @ \cup B, ![i].funded = @ \ B]
    /\ Landed(B \cap wd[i].funded, FALSE)
    /\ UNCHANGED burned

\* Variant the runs reject: nobody can finish in kind what its investor abandoned.
MayClaim_InvestorOnly(w, who) == w.age > InKindTimeout /\ who = "investor"
MayClaim(w, who) == w.age > InKindTimeout /\ (who = "investor" \/ w.sold)

\* Variant the runs reject: claiming in kind does not bind the session to its settle.
WithdrawClaim_Uncommitted(i, B, who) ==
    /\ wd[i].open
    /\ ~wd[i].aborting
    /\ MayClaim(wd[i], who)
    /\ Cardinality(B) \in 1..SweepBatch
    /\ B \subseteq wd[i].legs \ wd[i].swept
    /\ \A m \in B \cap wd[i].funded : EscrowMoves(m)
    /\ wd' = [wd EXCEPT ![i].completed = @ \cup B, ![i].swept = @ \cup B,
                        ![i].funded = @ \ B, ![i].in_kind = @ \cup B]
    /\ UNCHANGED <<vaultVars, envVars, shares, burned>>

\* Whatever the status of the vault, even in the middle of a basket change.
WithdrawClaim(i, B, who) ==
    /\ wd[i].open
    /\ ~wd[i].aborting
    /\ MayClaim(wd[i], who)
    /\ Cardinality(B) \in 1..SweepBatch
    /\ B \subseteq wd[i].legs \ wd[i].swept
    /\ \A m \in B \cap wd[i].funded : EscrowMoves(m)
    /\ wd' = [wd EXCEPT ![i].completed = @ \cup B, ![i].swept = @ \cup B,
                        ![i].funded = @ \ B, ![i].in_kind = @ \cup B, ![i].sold = TRUE]
    /\ UNCHANGED <<vaultVars, envVars, shares, burned>>

\* Variant the runs reject: a settle that a basket change in progress always blocks.
SettleAllowed_NeverRestructuring(w) == status # "Restructuring"
SettleAllowed(w) == status # "Restructuring" \/ Settleable(w)

\* Pays the USDC of the session; fees that cannot be paid and what is left over stay
\* behind, so a frozen account of the vault does not hold the settle up.
WithdrawSettle(i, who) ==
    /\ wd[i].open
    /\ AllTraded(wd[i])
    /\ who = "investor" \/ Settleable(wd[i])
    /\ SettleAllowed(wd[i])
    /\ AllSwept(wd[i])
    /\ ~wd[i].aborting
    /\ wd[i].cash => EscrowMoves(USDC)
    /\ wd' = [wd EXCEPT ![i] = NoWithdrawal]
    /\ UNCHANGED <<vaultVars, envVars, shares, burned>>

\* Variant the runs reject: releases a reservation that a rescued session never made.
Release_Always(w) == w.burn
Release(w) == IF w.aborting THEN w.burn ELSE 0

\* Whatever the status of the vault: the shares are minted again.
WithdrawAbort(i, who) ==
    /\ wd[i].open
    /\ who = "investor" \/ wd[i].age > UnwindTimeout
    /\ MayRestore(wd[i])
    /\ wd[i].cash => EscrowMoves(USDC) /\ VaultMoves(USDC)
    /\ shares' = [shares EXCEPT ![i] = @ + wd[i].burn]
    /\ burned' = SaturatingSub(burned, Release(wd[i]))
    /\ wd' = [wd EXCEPT ![i] = NoWithdrawal]
    /\ UNCHANGED <<vaultVars, envVars>>

WithdrawalsInit ==
    /\ wd = [i \in Investor |-> NoWithdrawal]
    /\ shares = [i \in Investor |-> 0]
    /\ burned = 0

WithdrawSteps(i) ==
    \/ \E burn \in 1..MaxPosition : WithdrawInit(i, burn)
    \/ \E B \in SUBSET Mint : WithdrawSwapBatch(i, B) \/ WithdrawClose(i, B)
    \/ \E B \in SUBSET Mint, who \in {"investor", "crank"} :
            WithdrawUnwind(i, B, who) \/ WithdrawClaim(i, B, who)
    \/ \E who \in {"investor", "crank"} : WithdrawSettle(i, who) \/ WithdrawAbort(i, who)
=============================================================================
