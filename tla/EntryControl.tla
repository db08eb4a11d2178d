---------------------------- MODULE EntryControl ----------------------------
(***************************************************************************)
(* One vault with all its deposit sessions, its basket changes and its     *)
(* administrators: DepositFlow and VaultLifecycle over the same account.   *)
(* Every instruction is one atomic transaction, so a step of the system is *)
(* a step of one of them; what interleaves are the transactions of the     *)
(* fractional sessions.  The properties are about what the sessions may    *)
(* rely on across those interleavings.                                     *)
(***************************************************************************)
EXTENDS VaultLifecycle, DepositFlow, WithdrawEffects

vars == <<vaultVars, envVars, rs, dep>>

Deposits == UNCHANGED rs /\ \E i \in Investor : DepositSteps(i)

\* The settle of a basket change dates the open deposit sessions.
BasketChanged ==
    /\ RestructureSettle
    /\ SameSecond \/ \A i \in Investor : dep[i].open => dep[i].age > 0
    /\ dep' = Dated

OthersAct == UNCHANGED dep /\ (VaultAdmin \/ RestructureSteps \/ Issuers)

\* What the withdrawal sessions do to the state deposits see.  Here any mints may return
\* at any time; ExitControl checks that its withdrawals do nothing else to the vault.
Withdrawals == /\ UNCHANGED <<rs, dep>>
               /\ \E R \in SUBSET Mint, turned \in BOOLEAN : WithdrawReturns(R, turned)

\* Clock::get() advances for every open session at once.
Tick ==
    /\ rs.open \/ \E i \in Investor : dep[i].open
    /\ rs' = IF rs.open THEN [rs EXCEPT !.age = Older(@)] ELSE rs
    /\ dep' = [i \in Investor |->
                 IF dep[i].open THEN [dep[i] EXCEPT !.age = Older(@)] ELSE dep[i]]
    /\ UNCHANGED <<vaultVars, envVars>>

Init == LifecycleInit /\ dep = [i \in Investor |-> NoSession]

Next == Tick \/ Withdrawals \/ BasketChanged \/ OthersAct \/ Deposits

Spec == Init /\ [][Next]_vars

-----------------------------------------------------------------------------
(* Fairness: every step below is open to any caller, and the project runs a *)
(* crank; nothing is assumed of investors, creators or token issuers.       *)

CrankStep(i) ==
    /\ \/ \E B \in SUBSET Mint : \/ DepositSweepRefund(i, B, "crank")
                                 \/ DepositSweepCommit(i, B)
                                 \/ DepositSweepMore(i, B)
       \/ DepositSettle(i)
       \/ DepositAbort(i, "crank")
       \/ DepositForceRelease(i)
    /\ UNCHANGED rs

Fairness == /\ WF_vars(Tick)
            /\ WF_vars(RestructureAbort("crank") /\ UNCHANGED dep)
            /\ \A i \in Investor : SF_vars(CrankStep(i))

FairSpec == Spec /\ Fairness

-----------------------------------------------------------------------------
(* Properties *)

\* Types of the vault, the restructure session and the deposit sessions.
TypeOK == LifecycleTypeOK /\ dep \in [Investor -> Session]

Committed == {i \in Investor : IsCommitted(dep[i])}

\* The serialisation lock.  committed_deposits and pending_committed_shares, kept by
\* separate instructions in two places of the account, always say exactly which session
\* is committed: at most one, and the reservation is the one its settle will release.
CommittedExact ==
    /\ \A i, j \in Committed : i = j
    /\ Committed = {} => committed = 0 /\ pending = 0
    /\ \A i \in Committed : committed = 1 /\ pending = Reserved(dep[i])

\* No event after its commit -- flag raised, basket change, closing of the vault --
\* can turn a committed session towards a refund of tokens the vault already has.
CommittedNeverTurnsBack ==
    \A i \in Committed : /\ ~AbortDirection(dep[i])
                         /\ IsComplete(dep[i])
                         /\ dep[i].landed = dep[i].swept

\* The tokens a committed session has landed are in the table the vault is valued by.
LandsOnTable == \A i \in Committed : dep[i].landed \subseteq table

\* They are whatever basket changes came in between, where the program can tell which of
\* the two came first: only the session opened in the very second of one is exempt.
UntiedLandsOnTable ==
    \A i \in Committed : dep[i].since # "tie" => dep[i].landed \subseteq weighted

\* committed_deposits is the lock that CommitLock specifies: nothing but a commit
\* takes it, nothing but the settle or release of its holder frees it, and table,
\* weights and entry/exit from business stay put while it is held.
Nobody == "nobody"
ASSUME NobodyAssumption == Nobody \notin Investor

Holder == IF Committed = {} THEN Nobody ELSE CHOOSE i \in Committed : TRUE
InBusiness == status \in {"Active", "Paused"}
LockedArrangement == [table |-> table, weighted |-> weighted, open |-> InBusiness]
Arrangements == [table: SUBSET Mint, weighted: SUBSET Mint, open: BOOLEAN]

Lock == INSTANCE CommitLock WITH Arrangement <- Arrangements, holder <- Holder,
                                 reserved <- pending, arrangement <- LockedArrangement
IsCommitLock == Lock!Spec

\* A withdrawal meanwhile divides by shares + reservation: the reservation covers all
\* the shares the settle can mint, dead ones included, where the first deposits of an
\* empty vault and dust below MIN_INITIAL_SHARES are set aside.
ReservationCoversMint ==
    \A i \in Committed : dep[i].mark.tsb > 0 /\ dep[i].amount >= MinInitialShares =>
        \A valueIn \in 1..dep[i].amount : Minted(dep[i].amount, dep[i].mark, valueIn) <= pending

\* Force release takes a commitment only from a session that could not have settled:
\* as old as it must be, and with some transfer of its settlement impossible.
ReleaseOnlyIfStuck ==
    [][\A i \in Investor :
         IsCommitted(dep[i]) /\ dep'[i].open /\ dep'[i].aborting =>
            /\ dep[i].age > ForceTimeout
            /\ \E m \in (dep[i].legs \ dep[i].swept) \cup {USDC} :
                    m \in Freezable /\ blocked[m] # "no"]_vars

\* Pauses end.
PauseIsTransient == <>[](status # "Paused" /\ ~protocolPaused)

\* A commitment ends, by settle or by force release, whatever issuers freeze or thaw
\* and whoever else interferes: the vault is not locked for ever.
CommittedResolves ==
    PauseIsTransient =>
        \A i \in Investor : IsCommitted(dep[i]) ~> ~IsCommitted(dep[i])

\* With no freeze a session its investor abandons is cleared by others: settled
\* if it was complete, refunded if not.
AbandonedCleared ==
    PauseIsTransient => \A i \in Investor : dep[i].open ~> ~dep[i].open

-----------------------------------------------------------------------------
(* What a comment of the program says and the program does not do. *)

\* instructions/deposit_abort.rs:7,17-19 -- abort works at any stage, and an abandoned
\* session can always be cleaned up: even granting a vault that stays in business and
\* escrows that move again.
CleanupAlwaysPossible ==
    <>[](status = "Active" /\ ~protocolPaused /\ \A m \in Freezable : EscrowMoves(m)) =>
        \A i \in Investor : dep[i].open /\ ~IsCommitted(dep[i])
                            ~> ~dep[i].open \/ IsCommitted(dep[i])
=============================================================================
