------------------------------ MODULE ExitOpen ------------------------------
(***************************************************************************)
(* What a withdrawing investor, and anyone cleaning up after one, can      *)
(* bring to an end alone: ExitControl with the fairness and the history    *)
(* that its liveness properties speak of.                                  *)
(***************************************************************************)
EXTENDS ExitControl

\* A history variable: the investors who gave their open withdrawal up themselves.
VARIABLE resigned

\* A session turns back by a step that was open to its investor alone.
Resigns(i) ==
    /\ ~wd[i].aborting /\ wd'[i].aborting
    /\ ~\E B \in SUBSET Mint : WithdrawUnwind(i, B, "crank")

Remember == resigned' = {i \in Investor : wd'[i].open /\ (i \in resigned \/ Resigns(i))}

-----------------------------------------------------------------------------
(* Fairness.  Time passes in every fair behaviour.  The rest is a premise of *)
(* the property that needs it: InvestorFair is what a withdrawing investor   *)
(* can do alone, and only weakly, since others may keep closing a window;    *)
(* CrankFair is what any caller may do for an investor who never comes back. *)

OpenSpec == /\ Init /\ resigned = {}
            /\ [][Next /\ Remember]_<<vars, resigned>>
            /\ WF_vars(Tick)

InvestorExit(i) ==
    /\ (\E B \in SUBSET Mint : WithdrawClaim(i, B, "investor")) \/ WithdrawSettle(i, "investor")
    /\ UNCHANGED rs

CrankExit(i) ==
    /\ \/ \E B \in SUBSET Mint : \/ WithdrawUnwind(i, B, "crank")
                                 \/ WithdrawClose(i, B)
                                 \/ WithdrawClaim(i, B, "crank")
       \/ WithdrawSettle(i, "crank")
       \/ WithdrawAbort(i, "crank")
    /\ UNCHANGED rs

InvestorFair == \A i \in Investor : WF_vars(InvestorExit(i))

CrankFair == /\ WF_vars(RestructureAbort("crank") /\ UNCHANGED withdrawVars)
             /\ \A i \in Investor : SF_vars(CrankExit(i))

-----------------------------------------------------------------------------
(* Properties *)

EscrowsMove == \A m \in Freezable : EscrowMoves(m)

\* An investor who could have been paid in kind and let the time of third parties come.
Late(i) == /\ wd[i].funded # {} /\ ~wd[i].sold /\ ~wd[i].aborting
           /\ wd[i].age > OrphanTimeout
           /\ ENABLED InvestorExit(i)

\* One who acts in the window between the two timeouts takes his tokens, or has given them
\* up of his own accord: no third party and no creator who pauses or closes the vault or
\* chains basket changes takes that way out from him, if no issuer freezes his escrows.
ExitAlwaysOpen ==
    []EscrowsMove =>
        \A i \in Investor : []~Late(i) =>
            (wd[i].funded # {} ~> wd[i].sold \/ i \in resigned)

\* From the first leg sold or taken on, which nothing can undo (ExtractedNeverUnwinds), the
\* investor alone brings the session to the settle that pays him, once escrows move again.
PaidInTheEnd ==
    InvestorFair /\ <>[]EscrowsMove => \A i \in Investor : wd[i].sold ~> ~wd[i].open

\* A withdrawal its investor abandons in any state is ended by others, once freezes end.
FreezesEnd == <>[](EscrowsMove /\ \A m \in Freezable : VaultMoves(m))
OrphanCleared ==
    CrankFair /\ FreezesEnd => \A i \in Investor : wd[i].open ~> ~wd[i].open
=============================================================================
