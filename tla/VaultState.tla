----------------------------- MODULE VaultState -----------------------------
(***************************************************************************)
(* The state every entry-side instruction of the wagon program shares: the *)
(* vault account (status, basket table, commitment counter, reservation,   *)
(* stranded flag), the one protocol field that gates entry, and the world  *)
(* of token issuers outside the program, who may freeze accounts at will.  *)
(*                                                                         *)
(* Amounts of tokens are abstracted to presence: `held` is the set of      *)
(* mints of which the vault's token account has a balance some instruction *)
(* of the program put there.  USDC is never a member of Mint: it is the    *)
(* quote currency, and no instruction can strand or remove it.             *)
(***************************************************************************)
EXTENDS ShareMath, FiniteSets

CONSTANTS Mint,       \* basket tokens other than USDC
          USDC,
          Baskets,    \* the mint sets a creator may choose; {} is a vault of USDC alone
          Freezable,  \* mints whose issuer can freeze accounts or pause transfers
          ShareCounts,\* values of total_shares seen by a price mark once a deposit settled
          Tvls,       \* values of the vault's USDC valuation seen by a price mark
          Investor,
          SwapBatch,  \* MAX_LEGS_PER_BATCH
          SweepBatch, \* MAX_SWEEP_LEGS_PER_BATCH
          Leftovers,  \* may a withdrawal's sale leave tokens in its escrow?
          SameSecond, \* may a basket change settle in the second a deposit was opened?
          MaxAge      \* ages of sessions saturate here, past every timeout

ASSUME MintAssumption == /\ IsFiniteSet(Mint) /\ USDC \notin Mint
                         /\ Baskets \subseteq SUBSET Mint
ASSUME FreezableAssumption == Freezable \subseteq Mint \cup {USDC}
ASSUME MarkAssumption == /\ ShareCounts \subseteq Nat \ {0}
                         /\ Tvls \subseteq Nat
ASSUME SessionAssumption == /\ SwapBatch \in Nat \ {0} /\ SweepBatch \in Nat \ {0}
                            /\ Leftovers \subseteq BOOLEAN /\ SameSecond \in BOOLEAN
                            /\ MaxAge \in Nat

VARIABLES status,         \* VaultStatus
          table,          \* the non-USDC mints of vault.allocations
          weighted,       \* those with weight_bps > 0
          held,           \* the mints the vault's token accounts hold value in
          committed,      \* committed_deposits, u16 @666
          pending,        \* pending_committed_shares, u64 @740/@814
          stranded,       \* stranded_flag, u8 @1036: 0, 1 or 2
          seeded,         \* total_shares # 0: some deposit has settled
          protocolPaused, \* ProtocolConfig.paused
          blocked         \* what the issuer of each freezable mint blocks

vaultVars == <<status, table, weighted, held, committed, pending, stranded, seeded>>
envVars == <<protocolPaused, blocked>>

Status == {"Active", "Paused", "Liquidating", "Closed", "Restructuring"}

\* What can be frozen: the vault's own account of the mint, the escrow accounts of
\* the sessions, or the mint itself (paused, non-transferable, armed hook).
BlockMode == {"no", "vault", "escrow", "mint"}

VaultMoves(m) == m \in Freezable => blocked[m] \in {"no", "escrow"}
EscrowMoves(m) == m \in Freezable => blocked[m] \in {"no", "vault"}

Mark == [tsb: {0} \cup ShareCounts, tvl: {0} \cup Tvls]

\* The valuations a pricing call may return in this state: only a vault where a
\* deposit has settled has shares, and from then on it always has the dead ones.
LiveMarks == {k \in Mark : k.tvl \in Tvls /\ (k.tsb > 0) = seeded}

\* Clock::get() only compares ages with timeouts, so they stop growing past all.
Older(age) == IF age < MaxAge THEN age + 1 ELSE age

NoCommitted == committed = 0
NoStrandedValue == stranded = 0
\* Variant the runs reject: a basket change that ignores the commitment counter.
Reorganisable_Uncounted == NoStrandedValue
Reorganisable == NoCommitted /\ NoStrandedValue

VaultTypeOK ==
    /\ status \in Status
    /\ table \in SUBSET Mint
    /\ weighted \in SUBSET table
    /\ held \in SUBSET Mint
    /\ committed \in Nat
    /\ pending \in Nat
    /\ stranded \in 0..2
    /\ seeded \in BOOLEAN
    /\ protocolPaused \in BOOLEAN
    /\ blocked \in [Freezable -> BlockMode]

\* create_vault: Active, nothing held, all counters zero.  Weights sum to 100%
\* but may be zero one by one: only rebalance and restructure_init forbid that.
VaultInit ==
    /\ status = "Active"
    /\ table \in Baskets
    /\ weighted \in SUBSET table
    /\ held = {}
    /\ committed = 0
    /\ pending = 0
    /\ stranded = 0
    /\ seeded = FALSE
    /\ protocolPaused = FALSE
    /\ blocked = [m \in Freezable |-> "no"]

\* A token issuer freezes or thaws accounts, at any time and without the program.
\* USDC is a classic SPL mint: its accounts can be frozen, the mint cannot be paused.
IssuerSets(m, mode) ==
    /\ blocked[m] # mode
    /\ mode = "mint" => m # USDC
    /\ blocked' = [blocked EXCEPT ![m] = mode]
    /\ UNCHANGED <<vaultVars, protocolPaused>>
=============================================================================
