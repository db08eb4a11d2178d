--------------------------- MODULE VaultLifecycle ---------------------------
(***************************************************************************)
(* Everything that changes a vault other than deposits and withdrawals:    *)
(* its status machine (pause, close, finalize), weight changes and swaps   *)
(* by its creator, the liquidation sweep, the protocol-wide pause, and the *)
(* fractional basket change of RestructureFlow.                            *)
(***************************************************************************)
EXTENDS RestructureFlow

\* admin.rs: the authority pauses the protocol (entries and reorganisations).
SetProtocolPaused(on) ==
    /\ protocolPaused # on
    /\ protocolPaused' = on
    /\ UNCHANGED <<vaultVars, rs, blocked>>

PauseVault ==
    /\ status = "Active"
    /\ status' = "Paused"
    /\ UNCHANGED <<table, weighted, held, committed, pending, stranded, seeded, rs, envVars>>

\* A live restructure session keeps unpause_vault from cutting a basket change short.
UnpauseVault ==
    /\ status \in {"Paused"} \cup (IF rs.open THEN {} ELSE {"Restructuring"})
    /\ status' = "Active"
    /\ UNCHANGED <<table, weighted, held, committed, pending, stranded, seeded, rs, envVars>>

\* Variant the runs reject: closes the vault with a commitment in flight.
CloseVault_Unlocked ==
    /\ status = "Active"
    /\ status' = "Liquidating"
    /\ UNCHANGED <<table, weighted, held, committed, pending, stranded, seeded, rs, envVars>>

CloseVault ==
    /\ status = "Active"
    /\ NoCommitted
    /\ status' = "Liquidating"
    /\ UNCHANGED <<table, weighted, held, committed, pending, stranded, seeded, rs, envVars>>

\* Variant the runs reject: does not ask whether any shares are out.
FinalizeClose_AnyShares ==
    /\ status = "Liquidating"
    /\ NoCommitted
    /\ status' = "Closed"
    /\ UNCHANGED <<table, weighted, held, committed, pending, stranded, seeded, rs, envVars>>

\* total_shares = 0 can only hold where no deposit ever settled (see seeded).
FinalizeClose ==
    /\ status = "Liquidating"
    /\ NoCommitted
    /\ ~seeded
    /\ status' = "Closed"
    /\ UNCHANGED <<table, weighted, held, committed, pending, stranded, seeded, rs, envVars>>

\* New weights for the same mints, none of them zero.
Rebalance ==
    /\ ~protocolPaused
    /\ status = "Active"
    /\ NoCommitted
    /\ weighted' = table
    /\ UNCHANGED <<status, table, held, committed, pending, stranded, seeded, rs, envVars>>

RebalanceSwap(src, dst, emptied) ==
    /\ ~protocolPaused
    /\ status = "Active"
    /\ NoCommitted
    /\ src # dst
    /\ src \in (table \cap held) \cup {USDC}
    /\ dst \in weighted \cup {USDC}
    /\ emptied \subseteq {src} \cap Mint
    /\ VaultMoves(src) /\ VaultMoves(dst)
    /\ held' = (held \ emptied) \cup ({dst} \cap Mint)
    /\ UNCHANGED <<status, table, weighted, committed, pending, stranded, seeded, rs, envVars>>

\* sweep_to_usdc sells a basket mint of a vault in liquidation.
SweepToUsdc(m) ==
    /\ status = "Liquidating"
    /\ m \in table \cap held
    /\ VaultMoves(m) /\ VaultMoves(USDC)
    /\ held' = held \ {m}
    /\ UNCHANGED <<status, table, weighted, committed, pending, stranded, seeded, rs, envVars>>

\* What administrators and creators do to a vault, without the basket change.
VaultAdmin ==
    \/ \E on \in BOOLEAN : SetProtocolPaused(on)
    \/ PauseVault
    \/ UnpauseVault
    \/ CloseVault
    \/ FinalizeClose
    \/ Rebalance
    \/ \E src, dst \in Mint \cup {USDC}, E \in SUBSET Mint : RebalanceSwap(src, dst, E)
    \/ \E m \in Mint : SweepToUsdc(m)

\* The steps of a basket change but its settle, which also dates every session.
RestructureSteps ==
    \/ \E new \in Baskets : RestructureInit(new)
    \/ \E sells, buys \in SUBSET Mint, E \in SUBSET Mint :
            RestructureSwapBatch(sells, buys, E)
    \/ \E who \in {"creator", "crank"} : RestructureAbort(who)
    \/ CloseStranded
    \/ AdminClearStranded
    \/ \E m \in Mint : RescueUntracked(m)

Issuers == /\ \E m \in Freezable, mode \in BlockMode : IssuerSets(m, mode)
           /\ UNCHANGED rs

LifecycleInit == VaultInit /\ rs = NoRestructure

-----------------------------------------------------------------------------
(* Properties *)

\* Types of the vault account and of its restructure session.
LifecycleTypeOK == VaultTypeOK /\ rs \in RestructureSession

\* compute_tvl_m2m_strict prices only table mints of non-zero weight.  In a vault that may
\* take deposits, whatever else it holds, but for the mints X, has raised the flag that
\* deposit_init and deposit_sweep_batch look at.
FlaggedBut(X) ==
    status \in {"Active", "Paused"} /\ stranded = 0 => held \ weighted \subseteq X

\* While the flag is 1 the session still exists, and in a vault that may take deposits
\* again what it lists as stranded against the live table covers the rest, but for X.
CoveredBut(X) ==
    stranded = 1 => /\ rs.open /\ status # "Restructuring"
                    /\ status \in {"Active", "Paused"} =>
                            held \ weighted \subseteq StrandedMints \cup X

\* A vault is in status Restructuring only with a session that can end it and no
\* flag up; a session outside that status is the manifest of a quarantined vault.
SessionMatchesStatus ==
    /\ status = "Restructuring" => rs.open /\ stranded = 0
    /\ rs.open /\ status # "Restructuring" => stranded # 0

\* A basket change ends, whether or not its creator comes back.
RestructureEnds == status = "Restructuring" ~> status # "Restructuring"
=============================================================================
