----------------------------- MODULE DepositFlow ----------------------------
(***************************************************************************)
(* The fractional deposit.  deposit_init escrows the investor's USDC in a  *)
(* session account and snapshots basket and price; deposit_swap_batch buys *)
(* the legs into the session's own escrows; deposit_sweep_batch moves them *)
(* in the direction the program decides: back to the investor, or into the *)
(* vault, where the first swept batch is the point of no return (commit);  *)
(* deposit_settle mints the shares; deposit_abort returns what is left;    *)
(* deposit_force_release frees a commitment that a freeze has blocked.     *)
(*                                                                         *)
(* Times are ages that grow with Clock::get(), and the one comparison of   *)
(* two absolute times, created_at < last_restructured_at, is the `since`   *)
(* field: "older" if it holds, "tie" if the two are the same second.       *)
(***************************************************************************)
EXTENDS VaultState

CONSTANTS Amounts,          \* net USDC of a deposit, in atoms
          DepositTimeout,   \* DEPOSIT_SESSION_TIMEOUT_SECS
          ForceTimeout,     \* LIQUIDATION_TIMEOUT_SECONDS
          Residues          \* may swaps leave USDC in the session's escrow?

ASSUME DepositAssumption ==
    /\ Amounts \subseteq Nat \ {0}
    /\ Residues \subseteq BOOLEAN
    /\ DepositTimeout \in Nat /\ ForceTimeout \in Nat
    /\ DepositTimeout <= ForceTimeout /\ ForceTimeout < MaxAge

VARIABLE dep  \* the DepositSession account of each investor

Session == [open: BOOLEAN, amount: {0} \cup Amounts, mark: Mark,
            count: 0..Cardinality(Mint), legs: SUBSET Mint, completed: SUBSET Mint,
            swept: SUBSET Mint, landed: SUBSET Mint, aborting: BOOLEAN,
            since: {"none", "tie", "older"}, residue: BOOLEAN, age: 0..MaxAge]

NoSession == [open |-> FALSE, amount |-> 0, mark |-> [tsb |-> 0, tvl |-> 0],
              count |-> 0, legs |-> {}, completed |-> {}, swept |-> {}, landed |-> {},
              aborting |-> FALSE, since |-> "none", residue |-> FALSE, age |-> 0]

IsComplete(s) == s.completed = s.legs
FullySwept(s) == s.swept = s.completed
Stale(s) == s.since = "older"
TimedOut(s) == s.age > DepositTimeout
MayUnwind(s, who) == who = "investor" \/ TimedOut(s)

\* Tokens of the session are inside the vault and no share represents them yet.
IsCommitted(s) == s.open /\ s.swept # {} /\ ~s.aborting

\* Variants the runs reject: a commitment that a later flag turns back, a sweep that
\* ignores the flag, one that ignores basket changes, and one with no exit from a
\* vault that has been closed.
AbortDirection_FlagTurnsBack(s) ==
    \/ s.aborting \/ ~IsComplete(s) \/ Stale(s) \/ stranded # 0
    \/ status \in {"Liquidating", "Closed"} /\ s.swept = {}
AbortDirection_NoFlag(s) ==
    \/ s.aborting \/ ~IsComplete(s) \/ Stale(s)
    \/ status \in {"Liquidating", "Closed"} /\ s.swept = {}
AbortDirection_NeverStale(s) ==
    \/ s.aborting \/ ~IsComplete(s) \/ (stranded # 0 /\ s.swept = {})
    \/ status \in {"Liquidating", "Closed"} /\ s.swept = {}
AbortDirection_NoTerminalExit(s) ==
    s.aborting \/ ~IsComplete(s) \/ Stale(s) \/ (stranded # 0 /\ s.swept = {})

\* The program, not the caller, decides which way a sweep goes.
AbortDirection(s) ==
    \/ s.aborting
    \/ ~IsComplete(s)
    \/ Stale(s)
    \/ stranded # 0 /\ s.swept = {}
    \/ status \in {"Liquidating", "Closed"} /\ s.swept = {}

Reserved(s) == Phantom(s.amount, s.mark)

\* A session that can still abort is refused a dust first deposit or a zero mint;
\* a committed one never is: what it landed becomes a donation.
MintAccepted(s, valueIn) ==
    /\ Bootstraps(s.mark) => s.amount > MinInitialShares
    /\ ToInvestor(s.amount, s.mark, valueIn) > 0

Commit(p) == committed' = committed + 1 /\ pending' = pending + p
Uncommit(p) == /\ committed' = SaturatingSub(committed, 1)
               /\ pending' = SaturatingSub(pending, p)

-----------------------------------------------------------------------------

DepositInit(i) ==
    /\ ~protocolPaused
    /\ status = "Active"
    /\ Reorganisable
    /\ ~dep[i].open
    /\ \E amount \in Amounts, mark \in LiveMarks :
         dep' = [dep EXCEPT ![i] =
                  [NoSession EXCEPT !.open = TRUE, !.amount = amount, !.mark = mark,
                                    !.count = Cardinality(table), !.legs = weighted,
                                    !.residue = TRUE]]
    /\ UNCHANGED <<vaultVars, envVars>>

\* Signed by the investor.  After the last leg the escrow keeps rounding dust, or not.
DepositSwapBatch(i, B) ==
    /\ status = "Active"
    /\ dep[i].open
    /\ ~Stale(dep[i])
    /\ ~dep[i].aborting
    /\ dep[i].count = Cardinality(table)
    /\ Cardinality(B) \in 1..SwapBatch
    /\ B \subseteq (dep[i].legs \cap weighted) \ dep[i].completed
    /\ \A m \in B \cup {USDC} : EscrowMoves(m)
    /\ \E left \in IF dep[i].completed \cup B = dep[i].legs THEN Residues ELSE {TRUE} :
         dep' = [dep EXCEPT ![i].completed = @ \cup B, ![i].residue = left]
    /\ UNCHANGED <<vaultVars, envVars>>

Sweepable(s, B) == /\ s.open
                   /\ Cardinality(B) \in 1..SweepBatch
                   /\ B \subseteq s.completed \ s.swept

\* deposit_sweep_batch, unwinding: the tokens go back to the investor.
DepositSweepRefund(i, B, who) ==
    /\ Sweepable(dep[i], B)
    /\ AbortDirection(dep[i])
    /\ MayUnwind(dep[i], who)
    /\ \A m \in B : EscrowMoves(m)
    /\ dep' = [dep EXCEPT ![i].swept = @ \cup B, ![i].aborting = TRUE]
    /\ UNCHANGED <<vaultVars, envVars>>

\* Variant the runs reject: lands tokens in the middle of a basket change.
SweepsIn_AnyStatus(i, B) ==
    /\ Sweepable(dep[i], B)
    /\ ~AbortDirection(dep[i])
    /\ \A m \in B : EscrowMoves(m) /\ VaultMoves(m)

\* The guards both settle-direction sweeps share.
SweepsIn(i, B) ==
    /\ Sweepable(dep[i], B)
    /\ ~AbortDirection(dep[i])
    /\ status = "Active"
    /\ \A m \in B : EscrowMoves(m) /\ VaultMoves(m)

\* Variant the runs reject: commits although another session is committed.
DepositSweepCommit_Unserialised(i, B) ==
    /\ SweepsIn(i, B)
    /\ dep[i].swept = {}
    /\ dep' = [dep EXCEPT ![i].swept = B, ![i].landed = B]
    /\ Commit(Reserved(dep[i]))
    /\ held' = held \cup B
    /\ UNCHANGED <<status, table, weighted, stranded, seeded, envVars>>

\* Its first batch into the vault: one commitment at a time, repriced to the live
\* market when the protocol enforces that, and paired with a reservation of shares.
DepositSweepCommit(i, B) ==
    /\ SweepsIn(i, B)
    /\ dep[i].swept = {}
    /\ NoCommitted
    /\ \E mark \in LiveMarks \cup {dep[i].mark} :
         /\ dep' = [dep EXCEPT ![i].swept = B, ![i].landed = B, ![i].mark = mark]
         /\ Commit(Phantom(dep[i].amount, mark))
    /\ held' = held \cup B
    /\ UNCHANGED <<status, table, weighted, stranded, seeded, envVars>>

\* Its later batches.
DepositSweepMore(i, B) ==
    /\ SweepsIn(i, B)
    /\ dep[i].swept # {}
    /\ dep' = [dep EXCEPT ![i].swept = @ \cup B, ![i].landed = @ \cup B]
    /\ held' = held \cup B
    /\ UNCHANGED <<status, table, weighted, committed, pending, stranded, seeded, envVars>>

SettleBlocked(s) == s.residue /\ ~(EscrowMoves(USDC) /\ VaultMoves(USDC))

DepositSettle(i) ==
    /\ ~protocolPaused
    /\ status = "Active"
    /\ dep[i].open
    /\ IsComplete(dep[i])
    /\ ~dep[i].aborting
    /\ FullySwept(dep[i])
    /\ ~SettleBlocked(dep[i])
    /\ IsCommitted(dep[i]) \/ (~Stale(dep[i]) /\ MintAccepted(dep[i], dep[i].amount))
    /\ IF IsCommitted(dep[i]) THEN Uncommit(Reserved(dep[i]))
                              ELSE UNCHANGED <<committed, pending>>
    /\ seeded' = TRUE
    /\ dep' = [dep EXCEPT ![i] = NoSession]
    /\ UNCHANGED <<status, table, weighted, held, stranded, envVars>>

\* Any status: what remains in the USDC escrow is refunded and the session closed.
DepositAbort(i, who) ==
    /\ dep[i].open
    /\ MayUnwind(dep[i], who)
    /\ dep[i].aborting \/ dep[i].swept = {}
    /\ IF dep[i].aborting THEN FullySwept(dep[i]) ELSE dep[i].completed = {}
    /\ dep[i].residue => EscrowMoves(USDC)
    /\ dep' = [dep EXCEPT ![i] = NoSession]
    /\ UNCHANGED <<vaultVars, envVars>>

\* Variant the runs reject: only the USDC of the settle counts as a freeze.
FreezeProof_UsdcOnly(s) == FullySwept(s) /\ SettleBlocked(s)

\* The frozen account or blocking mint the caller must exhibit: the one that stops
\* the settle itself, or a sweep that is still to be made.
FreezeProof(s) ==
    IF FullySwept(s) THEN SettleBlocked(s)
    ELSE \E m \in s.completed \ s.swept : ~(EscrowMoves(m) /\ VaultMoves(m))

\* Variants the runs reject: no proof of a freeze, and counters left as they were.
DepositForceRelease_Unproved(i) ==
    /\ IsCommitted(dep[i])
    /\ dep[i].age > ForceTimeout
    /\ Uncommit(Reserved(dep[i]))
    /\ dep' = [dep EXCEPT ![i].aborting = TRUE]
    /\ UNCHANGED <<status, table, weighted, held, stranded, seeded, envVars>>
DepositForceRelease_Uncounted(i) ==
    /\ IsCommitted(dep[i])
    /\ dep[i].age > ForceTimeout
    /\ FreezeProof(dep[i])
    /\ dep' = [dep EXCEPT ![i].aborting = TRUE]
    /\ UNCHANGED <<vaultVars, envVars>>

DepositForceRelease(i) ==
    /\ IsCommitted(dep[i])
    /\ dep[i].age > ForceTimeout
    /\ FreezeProof(dep[i])
    /\ Uncommit(Reserved(dep[i]))
    /\ dep' = [dep EXCEPT ![i].aborting = TRUE]
    /\ UNCHANGED <<status, table, weighted, held, stranded, seeded, envVars>>

\* Every step but the one that mints.
DepositWork(i) ==
    \/ DepositInit(i)
    \/ \E B \in SUBSET Mint : DepositSwapBatch(i, B)
    \/ \E B \in SUBSET Mint, who \in {"investor", "crank"} : DepositSweepRefund(i, B, who)
    \/ \E B \in SUBSET Mint : DepositSweepCommit(i, B)
    \/ \E B \in SUBSET Mint : DepositSweepMore(i, B)
    \/ \E who \in {"investor", "crank"} : DepositAbort(i, who)
    \/ DepositForceRelease(i)

DepositSteps(i) == DepositWork(i) \/ DepositSettle(i)

\* restructure_settle stamps last_restructured_at with the current second: sessions
\* opened in an earlier second are older than it, those of this second tie with it.
Dated == [i \in Investor |->
            [dep[i] EXCEPT !.since = IF ~dep[i].open THEN "none"
                                     ELSE IF dep[i].age > 0 THEN "older"
                                     ELSE IF @ = "older" THEN @ ELSE "tie"]]
=============================================================================
