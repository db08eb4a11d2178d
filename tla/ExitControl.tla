----------------------------- MODULE ExitControl ----------------------------
(***************************************************************************)
(* One vault with all its withdrawal sessions, its basket changes and its  *)
(* administrators.  Of deposits it has only what they do to the state that *)
(* withdrawals see; the counters they keep stay at zero here, which bars   *)
(* nobody from anything.                                                   *)
(***************************************************************************)
EXTENDS VaultLifecycle, WithdrawFlow, DepositEffects, Sums

vars == <<vaultVars, envVars, rs, withdrawVars>>

OthersAct == /\ UNCHANGED withdrawVars
             /\ VaultAdmin \/ RestructureSteps \/ RestructureSettle \/ Issuers

Withdrawals == UNCHANGED rs /\ \E i \in Investor : WithdrawSteps(i)

\* deposit_settle: its investor gets shares, and the vault, with the first ones, those
\* that nobody can withdraw.  MaxPosition bounds all an investor has, in sessions or not.
\* Wagon checks that its deposits do nothing else to the vault.
DepositMints(i) ==
    /\ ~protocolPaused
    /\ status = "Active"
    /\ \E minted \in 0..(MaxPosition - shares[i] - wd[i].burn) :
         shares' = [shares EXCEPT ![i] = @ + minted]
    /\ seeded' = TRUE
    /\ UNCHANGED <<status, table, weighted, held, stranded, envVars, wd, burned>>

Deposits == /\ UNCHANGED <<committed, pending, rs>>
            /\ \/ UNCHANGED withdrawVars /\ \E B \in SUBSET Mint : DepositLands(B)
               \/ \E i \in Investor : DepositMints(i)

\* Clock::get() advances for every open session at once.
Tick ==
    /\ rs.open \/ \E i \in Investor : wd[i].open
    /\ rs' = IF rs.open THEN [rs EXCEPT !.age = Older(@)] ELSE rs
    /\ wd' = [i \in Investor |-> IF wd[i].open THEN [wd[i] EXCEPT !.age = Older(@)] ELSE wd[i]]
    /\ UNCHANGED <<vaultVars, envVars, shares, burned>>

\* A vault as it was created.
Init == LifecycleInit /\ WithdrawalsInit

Next == Tick \/ Deposits \/ OthersAct \/ Withdrawals

Spec == Init /\ [][Next]_vars

-----------------------------------------------------------------------------
(* Properties *)

\* Types of the vault, the restructure session and the withdrawal sessions.
TypeOK == /\ LifecycleTypeOK
          /\ wd \in [Investor -> WithdrawSession]
          /\ shares \in [Investor -> Nat]
          /\ burned \in Nat

\* pending_burned_shares is exactly the shares whose tokens are coming back and which are
\* not minted again: later withdrawals divide by the true number of shares, and nothing
\* is left in the counter to shrink them for ever.
Aborting == {i \in Investor : wd[i].open /\ wd[i].aborting}
BurnedExact == burned = SumOver([i \in Investor |-> wd[i].burn], Aborting)

\* A session that has paid anything, in USDC of a sale or in kind, is bound to its settle
\* and never unwinds; one that unwinds has paid nothing.
ExtractedNeverUnwinds ==
    \A i \in Investor : wd[i].proceeds \/ wd[i].in_kind # {} => wd[i].sold /\ ~wd[i].aborting

\* Every withdrawal keeps the promise of ExitChoice, told apart by what physically left
\* the session and not by the flag `sold` that the guards read.
Phase(w) == IF ~w.open THEN "idle"
            ELSE IF w.proceeds \/ w.in_kind # {} THEN "paying"
            ELSE IF w.aborting THEN "returning" ELSE "undecided"

Choice == INSTANCE ExitChoice WITH free <- shares,
                                  staked <- [i \in Investor |-> wd[i].burn],
                                  phase <- [i \in Investor |-> Phase(wd[i])]
IsExitChoice == Choice!ChoiceSpec

\* No token is left behind when a session ends: an escrow that still holds tokens has
\* not been closed, and the session cannot end before it is.
NothingLeftBehind ==
    [][\A i \in Investor : /\ wd[i].funded \cap wd[i].swept = {}
                           /\ wd[i].open /\ ~wd'[i].open => wd[i].funded = {}]_vars

\* All that withdrawals do to the vault is what the entry side (EntryControl) assumes of
\* them: returns of mints some basket had with a weight, outside a basket change.
ReturnsAsAssumed ==
    [][wd' # wd /\ vaultVars' # vaultVars =>
         \E R \in SUBSET Mint, turned \in BOOLEAN : WithdrawReturns(R, turned)]_vars
=============================================================================
