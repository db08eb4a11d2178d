----------------------- MODULE VaultLifecycle_proofs ------------------------
(***************************************************************************)
(* The lemmas about the vault that the proofs of EntryControl and          *)
(* ExitControl share, for every set of mints and baskets.  VisibleBut      *)
(* strengthens the announcements of off-table value with what makes them   *)
(* inductive: what a basket change in progress may hold, that it buys only *)
(* for its new basket, and that no account of a weightless mint is filled. *)
(* X are the mints that landed unannounced; only LandingVisible adds any.  *)
(***************************************************************************)
EXTENDS VaultLifecycle, WithdrawEffects, Arithmetic_proofs

VisibleBut(X) ==
    /\ SessionMatchesStatus
    /\ FlaggedBut(X)
    /\ CoveredBut(X)
    /\ held \cap (table \ weighted) \subseteq X
    /\ rs.bought \subseteq rs.new
    /\ status = "Restructuring" => held \ weighted \subseteq StrandedMints \cup X

-----------------------------------------------------------------------------
(* Operators *)

\* Ages stay within their cap.
LEMMA OlderIsAge == \A age \in 0..MaxAge : Older(age) \in 0..MaxAge
  BY SessionAssumption DEF Older

\* A batch of at least one leg is not empty.
LEMMA BatchNotEmpty ==
    ASSUME NEW B, NEW n, Cardinality(B) \in 1..n
    PROVE  B # {}
  BY FS_EmptySet

-----------------------------------------------------------------------------
(* Type correctness *)

\* The initial vault is well typed.
LEMMA LifecycleInitTyped == LifecycleInit => LifecycleTypeOK
<1> SUFFICES ASSUME LifecycleInit PROVE LifecycleTypeOK
  OBVIOUS
<1>1. table \in SUBSET Mint
  BY MintAssumption DEF LifecycleInit, VaultInit
<1>2. blocked \in [Freezable -> BlockMode]
  BY DEF LifecycleInit, VaultInit, BlockMode
<1>3. committed \in Nat /\ pending \in Nat /\ stranded \in 0..2
  BY DEF LifecycleInit, VaultInit
<1>4. VaultTypeOK
  BY <1>1, <1>2, <1>3 DEF LifecycleInit, VaultInit, VaultTypeOK, Status
<1>5. rs \in RestructureSession
  BY SessionAssumption DEF LifecycleInit, NoRestructure, RestructureSession
<1>6. QED
  BY <1>4, <1>5 DEF LifecycleTypeOK

\* Status, counters and table stay well typed whatever a vault's administrators do.
LEMMA AdminTyped ==
    ASSUME LifecycleTypeOK, VaultAdmin
    PROVE  LifecycleTypeOK'
<1> USE DEF LifecycleTypeOK, VaultTypeOK, vaultVars, envVars, Status
<1>1. ASSUME NEW on \in BOOLEAN, SetProtocolPaused(on) PROVE LifecycleTypeOK'
  BY <1>1 DEF SetProtocolPaused
<1>2. CASE PauseVault
  BY <1>2 DEF PauseVault
<1>3. CASE UnpauseVault
  BY <1>3 DEF UnpauseVault
<1>4. CASE CloseVault
  BY <1>4 DEF CloseVault
<1>5. CASE FinalizeClose
  BY <1>5 DEF FinalizeClose
<1>6. CASE Rebalance
  BY <1>6 DEF Rebalance
<1>7. ASSUME NEW src \in Mint \cup {USDC}, NEW dst \in Mint \cup {USDC},
             NEW E \in SUBSET Mint, RebalanceSwap(src, dst, E)
      PROVE  LifecycleTypeOK'
  BY <1>7 DEF RebalanceSwap
<1>8. ASSUME NEW m \in Mint, SweepToUsdc(m) PROVE LifecycleTypeOK'
  BY <1>8 DEF SweepToUsdc
<1>9. QED
  BY <1>1, <1>2, <1>3, <1>4, <1>5, <1>6, <1>7, <1>8 DEF VaultAdmin

\* So they do, with the restructure session, through a basket change.
LEMMA RestructureTyped ==
    ASSUME LifecycleTypeOK, RestructureSteps \/ RestructureSettle
    PROVE  LifecycleTypeOK'
<1> USE DEF LifecycleTypeOK, VaultTypeOK, envVars, Status
<1>1. NoRestructure \in RestructureSession
  BY SessionAssumption DEF NoRestructure, RestructureSession
<1>2. ASSUME NEW new \in Baskets, RestructureInit(new) PROVE LifecycleTypeOK'
  <2>1. new \in SUBSET Mint
    BY MintAssumption
  <2>2. rs' \in RestructureSession
    BY <1>2, <2>1, <1>1 DEF RestructureInit, RestructureSession
  <2>3. QED
    BY <1>2, <2>2 DEF RestructureInit
<1>3. ASSUME NEW sells \in SUBSET Mint, NEW buys \in SUBSET Mint, NEW E \in SUBSET Mint,
             RestructureSwapBatch(sells, buys, E)
      PROVE  LifecycleTypeOK'
  <2>1. rs' \in RestructureSession
    BY <1>3 DEF RestructureSwapBatch, RestructureSession
  <2>2. QED
    BY <1>3, <2>1 DEF RestructureSwapBatch
<1>4. ASSUME NEW who, RestructureAbort(who) PROVE LifecycleTypeOK'
  BY <1>4, <1>1 DEF RestructureAbort
<1>5. CASE CloseStranded
  BY <1>5, <1>1 DEF CloseStranded
<1>6. CASE AdminClearStranded
  BY <1>6, <1>1 DEF AdminClearStranded
<1>7. ASSUME NEW m \in Mint, RescueUntracked(m) PROVE LifecycleTypeOK'
  BY <1>7 DEF RescueUntracked
<1>8. CASE RestructureSettle
  <2>1. rs.new \in SUBSET Mint
    BY DEF RestructureSession
  <2>2. QED
    BY <1>8, <1>1, <2>1 DEF RestructureSettle
<1>9. QED
  BY <1>2, <1>3, <1>4, <1>5, <1>6, <1>7, <1>8 DEF RestructureSteps

\* And whatever the issuers of the mints do.
LEMMA IssuersTyped ==
    ASSUME LifecycleTypeOK, Issuers
    PROVE  LifecycleTypeOK'
  BY DEF Issuers, IssuerSets, vaultVars, LifecycleTypeOK, VaultTypeOK

-----------------------------------------------------------------------------
(* Value outside the table *)

\* A new vault holds nothing.
LEMMA InitVisible == LifecycleInit => VisibleBut({})
  BY DEF LifecycleInit, VaultInit, NoRestructure, VisibleBut, SessionMatchesStatus,
         FlaggedBut, CoveredBut

\* What is visible depends on nothing but the vault's own state and its session.
LEMMA VisibleFrame ==
    ASSUME NEW X, VisibleBut(X), UNCHANGED <<status, table, weighted, held, stranded>>,
           rs'.open = rs.open, rs'.bought = rs.bought, rs'.new = rs.new
    PROVE  VisibleBut(X)'
  BY DEF VisibleBut, SessionMatchesStatus, FlaggedBut, CoveredBut, StrandedMints

\* Administrators neither hide value nor leave Restructuring behind its session's back.
LEMMA AdminKeepsVisible ==
    ASSUME LifecycleTypeOK, NEW X, VisibleBut(X), VaultAdmin
    PROVE  VisibleBut(X)'
<1> USE DEF VisibleBut, SessionMatchesStatus, FlaggedBut, CoveredBut, StrandedMints
<1>0. weighted \subseteq table
  BY DEF LifecycleTypeOK, VaultTypeOK
<1>1. ASSUME NEW on \in BOOLEAN, SetProtocolPaused(on) PROVE VisibleBut(X)'
  BY <1>1, VisibleFrame DEF SetProtocolPaused, vaultVars
<1>2. CASE PauseVault
  BY <1>2 DEF PauseVault
<1>3. CASE UnpauseVault
  BY <1>3 DEF UnpauseVault
<1>4. CASE CloseVault
  BY <1>4 DEF CloseVault
<1>5. CASE FinalizeClose
  BY <1>5 DEF FinalizeClose
<1>6. CASE Rebalance
  BY <1>0, <1>6 DEF Rebalance
<1>7. ASSUME NEW src \in Mint \cup {USDC}, NEW dst \in Mint \cup {USDC},
             NEW E \in SUBSET Mint, RebalanceSwap(src, dst, E)
      PROVE  VisibleBut(X)'
  <2>1. {dst} \cap Mint \subseteq weighted
    BY <1>7, MintAssumption DEF RebalanceSwap
  <2>2. held' \subseteq held \cup weighted
    BY <1>7, <2>1 DEF RebalanceSwap
  <2>3. QED
    BY <1>7, <2>2 DEF RebalanceSwap
<1>8. ASSUME NEW m \in Mint, SweepToUsdc(m) PROVE VisibleBut(X)'
  BY <1>8 DEF SweepToUsdc
<1>9. QED
  BY <1>1, <1>2, <1>3, <1>4, <1>5, <1>6, <1>7, <1>8 DEF VaultAdmin

\* A basket change announces what it leaves outside the table, and keeps the manifest
\* of it until it is gone.
LEMMA RestructureKeepsVisible ==
    ASSUME LifecycleTypeOK, NEW X, VisibleBut(X), RestructureSteps \/ RestructureSettle
    PROVE  VisibleBut(X)'
<1> USE DEF VisibleBut, SessionMatchesStatus, FlaggedBut, CoveredBut, StrandedMints
<1>0. weighted \subseteq table
  BY DEF LifecycleTypeOK, VaultTypeOK
<1>1. ASSUME NEW new \in Baskets, RestructureInit(new) PROVE VisibleBut(X)'
  <2>1. rs' = [NoRestructure EXCEPT !.open = TRUE, !.new = new]
    BY <1>1 DEF RestructureInit
  <2>2. rs'.open /\ rs'.new = new /\ rs'.bought = {}
    BY <2>1 DEF NoRestructure
  <2>3. QED
    BY <1>1, <2>2 DEF RestructureInit, Reorganisable, NoStrandedValue
<1>2. ASSUME NEW sells \in SUBSET Mint, NEW buys \in SUBSET Mint, NEW E \in SUBSET Mint,
             RestructureSwapBatch(sells, buys, E)
      PROVE  VisibleBut(X)'
  <2>1. rs' = [rs EXCEPT !.sold = @ \cup sells, !.bought = @ \cup buys]
    BY <1>2 DEF RestructureSwapBatch
  <2>2. rs'.open = rs.open /\ rs'.new = rs.new /\ rs'.bought = rs.bought \cup buys
    BY <2>1 DEF LifecycleTypeOK, RestructureSession
  <2>3. QED
    BY <1>2, <2>2 DEF RestructureSwapBatch
<1>3. ASSUME NEW who, RestructureAbort(who) PROVE VisibleBut(X)'
  BY <1>3 DEF RestructureAbort, NoRestructure
<1>4. CASE CloseStranded
  BY <1>4 DEF CloseStranded, NoRestructure
<1>5. CASE AdminClearStranded
  BY <1>5 DEF AdminClearStranded, AuthorityAttests, NoRestructure
<1>6. ASSUME NEW m \in Mint, RescueUntracked(m) PROVE VisibleBut(X)'
  BY <1>6 DEF RescueUntracked
<1>7. CASE RestructureSettle
  <2>1. held \subseteq rs.new \cup X
    BY <1>0, <1>7 DEF RestructureSettle
  <2>2. QED
    BY <1>7, <2>1 DEF RestructureSettle, NoRestructure
<1>8. QED
  BY <1>1, <1>2, <1>3, <1>4, <1>5, <1>6, <1>7 DEF RestructureSteps

\* Freezing an account hides nothing.
LEMMA IssuersKeepVisible ==
    ASSUME NEW X, VisibleBut(X), Issuers
    PROVE  VisibleBut(X)'
  BY VisibleFrame DEF Issuers, IssuerSets, vaultVars

\* What lands and raises no flag is the only value that may go unannounced.
LEMMA LandingVisible ==
    ASSUME NEW X, VisibleBut(X), NEW B, held' = held \cup B,
           NEW Y, B \ (held \cup weighted) \subseteq Y,
           UNCHANGED <<status, table, weighted, stranded, rs>>
    PROVE  VisibleBut(X \cup Y)'
  BY DEF VisibleBut, SessionMatchesStatus, FlaggedBut, CoveredBut, StrandedMints

\* More exceptions are allowed than there are, and none once the mint is gone or has a
\* weight again.
LEMMA VisibleAdjusts ==
    ASSUME NEW X, NEW Y, VisibleBut(X)', X \cap (held' \ weighted') \subseteq Y
    PROVE  VisibleBut(Y)'
  BY DEF VisibleBut, SessionMatchesStatus, FlaggedBut, CoveredBut, StrandedMints

\* A return marks what it brings back outside the table.
LEMMA ReturnKeepsVisible ==
    ASSUME LifecycleTypeOK, NEW X, VisibleBut(X), NEW R \in SUBSET Mint, WithdrawReturns(R, TRUE),
           UNCHANGED rs
    PROVE  VisibleBut(X)'
<1>0. weighted \subseteq table
  BY DEF LifecycleTypeOK, VaultTypeOK
<1>1. R \subseteq table => R \subseteq weighted
  BY DEF WithdrawReturns
<1>2. QED
  BY <1>0, <1>1
  DEF WithdrawReturns, Landed, FlagAfterReturn, VisibleBut, SessionMatchesStatus,
      FlaggedBut, CoveredBut, StrandedMints

-----------------------------------------------------------------------------
(* Status and restructure session *)

\* Status Restructuring and its session come and go together.
LEMMA SessionKeepsMatching ==
    ASSUME LifecycleTypeOK, SessionMatchesStatus,
           VaultAdmin \/ RestructureSteps \/ RestructureSettle \/ Issuers
    PROVE  SessionMatchesStatus'
<1> USE DEF SessionMatchesStatus, vaultVars
<1>1. CASE VaultAdmin
  BY <1>1 DEF VaultAdmin, SetProtocolPaused, PauseVault, UnpauseVault, CloseVault,
              FinalizeClose, Rebalance, RebalanceSwap, SweepToUsdc
<1>2. CASE RestructureSteps
  <2>1. ASSUME NEW new \in Baskets, RestructureInit(new) PROVE SessionMatchesStatus'
    BY <2>1 DEF RestructureInit, Reorganisable, NoStrandedValue, NoRestructure
  <2>2. ASSUME NEW sells \in SUBSET Mint, NEW buys \in SUBSET Mint, NEW E \in SUBSET Mint,
               RestructureSwapBatch(sells, buys, E)
        PROVE  SessionMatchesStatus'
    BY <2>2 DEF RestructureSwapBatch, LifecycleTypeOK, RestructureSession
  <2>3. ASSUME NEW who, RestructureAbort(who) PROVE SessionMatchesStatus'
    BY <2>3 DEF RestructureAbort, NoRestructure
  <2>4. CASE CloseStranded
    BY <2>4 DEF CloseStranded, NoRestructure
  <2>5. CASE AdminClearStranded
    BY <2>5 DEF AdminClearStranded, NoRestructure
  <2>6. ASSUME NEW m \in Mint, RescueUntracked(m) PROVE SessionMatchesStatus'
    BY <2>6 DEF RescueUntracked
  <2>7. QED
    BY <1>2, <2>1, <2>2, <2>3, <2>4, <2>5, <2>6 DEF RestructureSteps
<1>3. CASE RestructureSettle
  BY <1>3 DEF RestructureSettle, NoRestructure
<1>4. CASE Issuers
  BY <1>4 DEF Issuers, IssuerSets
<1>5. QED
  BY <1>1, <1>2, <1>3, <1>4
=============================================================================
