-------------------------------- MODULE Wagon --------------------------------
(***************************************************************************)
(* The whole vault: the deposits, withdrawals, basket changes and          *)
(* administrators of EntryControl and ExitControl as transactions on one   *)
(* account.  Each of the two knows the other side by an assumption only    *)
(* (WithdrawReturns, DepositLands, DepositMints); here both sides are the  *)
(* program, and the vault implements either specification.                 *)
(***************************************************************************)
EXTENDS EntryControl, WithdrawFlow

\* A history variable: what a landing that nobody announces has put outside the table.
VARIABLE strays

wagonVars == <<vars, withdrawVars>>
allVars == <<wagonVars, strays>>

\* What a settle may find to have arrived, of `amount` paid in, and mint for it.
ValuesIn(s) == IF IsCommitted(s) THEN 1..s.amount ELSE {s.amount}
Mints(i) ==
    \E valueIn \in ValuesIn(dep[i]) :
        LET minted == ToInvestor(dep[i].amount, dep[i].mark, valueIn)
        IN /\ shares[i] + wd[i].burn + minted <= MaxPosition
           /\ shares' = [shares EXCEPT ![i] = @ + minted]

SessionActs(i) ==
    /\ \/ DepositWork(i) /\ UNCHANGED withdrawVars
       \/ DepositSettle(i) /\ Mints(i) /\ UNCHANGED <<wd, burned>>
       \/ WithdrawSteps(i) /\ UNCHANGED dep
    /\ UNCHANGED rs

VaultActs == (BasketChanged \/ OthersAct) /\ UNCHANGED withdrawVars

\* Clock::get() advances for every open session of either kind.
ClockAdvances ==
    /\ rs.open \/ \E i \in Investor : dep[i].open \/ wd[i].open
    /\ rs' = IF rs.open THEN [rs EXCEPT !.age = Older(@)] ELSE rs
    /\ dep' = [i \in Investor |->
                 IF dep[i].open THEN [dep[i] EXCEPT !.age = Older(@)] ELSE dep[i]]
    /\ wd' = [i \in Investor |-> IF wd[i].open THEN [wd[i] EXCEPT !.age = Older(@)] ELSE wd[i]]
    /\ UNCHANGED <<vaultVars, envVars, shares, burned>>

WagonStep == \/ \E i \in Investor : SessionActs(i)
             \/ VaultActs
             \/ ClockAdvances

\* The two landings that raise no flag: a deposit whose session was opened in the second
\* in which a basket change settled, and what the sale of a withdrawal leg left over.
TiedIn(i) == IF dep[i].since = "tie" THEN dep'[i].landed \ dep[i].landed ELSE {}
LeftOver(i) == IF AllTraded(wd[i]) /\ ~wd[i].aborting THEN wd[i].funded \ wd'[i].funded
                                                     ELSE {}
Strayed == (UNION {TiedIn(i) \cup LeftOver(i) : i \in Investor}) \ (held \cup weighted)

\* A stray is one until it has left the vault or come back on the table.
Remember == strays' = (strays \cup Strayed) \cap (held' \ weighted')

WagonInit == Init /\ WithdrawalsInit /\ strays = {}

WagonNext == WagonStep /\ Remember

WagonSpec == WagonInit /\ [][WagonNext]_allVars

-----------------------------------------------------------------------------
(* Properties *)

\* Value the pricing code cannot see is always announced: whatever else withdrawals,
\* deposits and aborted basket changes leave outside the table of a vault in business, over
\* any number of basket changes, has the flag up that keeps deposits out.
OffTableIsFlagged == FlaggedBut(strays)

\* The permissionless clean-up lowers that flag on the word of the manifest alone: while
\* the flag is 1 the manifest is there and lists all that came off the table, strays apart.
ManifestCovers == CoveredBut(strays)

\* So a deposit is opened, and its price fixed at the commit, only while everything the
\* vault holds is visible to the pricing code, strays apart.
EntrySeesAllValue ==
    [][\A i \in Investor : \/ ~dep[i].open /\ dep'[i].open
                           \/ ~IsCommitted(dep[i]) /\ IsCommitted(dep'[i])
                           => held \ weighted \subseteq strays]_allVars

\* What EntryControl assumes of withdrawals is what they do: to deposits, the vault with
\* its withdrawals is one of those that EntryControl is about.
IsEntryControl == Spec

\* And the other way round.  Withdrawals do not read the counters of deposits, which only
\* keep creators from acting: without them ExitControl has more behaviours, not fewer.
Exit == INSTANCE ExitControl WITH committed <- 0, pending <- 0
IsExitControl == Exit!Spec

\* finalize_close ends a vault that owes nobody anything: no shares are out, none wait in a
\* withdrawal, and no deposit has landed tokens without its shares, whoever entered and left
\* while the creator was closing it.
ClosedOwesNobody ==
    status = "Closed" =>
        \A i \in Investor : shares[i] = 0 /\ ~wd[i].open /\ ~IsCommitted(dep[i])
=============================================================================
