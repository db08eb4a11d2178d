---------------------------- MODULE Wagon_proofs ----------------------------
(***************************************************************************)
(* The vault of Wagon implements EntryControl and ExitControl, so that all *)
(* their theorems hold of it.  Either side discharges the assumption the   *)
(* other one makes: a withdrawal is a return that EntryControl knows       *)
(* because the sessions of ExitControl are sound, and a deposit lands and  *)
(* mints as ExitControl knows because the sessions of EntryControl are     *)
(* within the table.  The argument is not circular, since each side needs  *)
(* the other's invariant only in the state a step starts from: both are    *)
(* carried along in one inductive invariant.  What is outside the table is *)
(* the one claim that needs both sides at once, and is proved here.        *)
(***************************************************************************)
EXTENDS Wagon, EntryControl_proofs

ExitFacts == INSTANCE ExitControl_proofs WITH committed <- 0, pending <- 0

EntryInv == IInv /\ TableInv
ExitInv == ExitFacts!TypeOK /\ ExitFacts!Sound
WagonInv == EntryInv /\ ExitInv

\* The number of elements is the same number on both sides.
LEMMA SameCardinality == \A S : ExitFacts!Cardinality(S) = Cardinality(S)
  BY DEF Cardinality, ExitFacts!Cardinality

\* What the composition needs of the invariant of ExitControl: its assumptions are those
\* of Wagon, so it is inductive here too, and bounds what withdrawals do to the vault.
LEMMA ExitFactsApply ==
    /\ ExitFacts!Init => ExitInv
    /\ ExitInv /\ [ExitFacts!Next]_(ExitFacts!vars) => ExitInv'
    /\ ExitInv => \A i \in Investor : ExitFacts!WithdrawSteps(i) =>
          \/ UNCHANGED ExitFacts!vaultVars
          \/ \E R \in SUBSET Mint, turned \in BOOLEAN : ExitFacts!WithdrawReturns(R, turned)
<1>1. \A S : ExitFacts!IsFiniteSet(S) <=> IsFiniteSet(S)
  BY DEF IsFiniteSet, ExitFacts!IsFiniteSet
<1> USE <1>1, DeadSharesAssumption, MintAssumption, FreezableAssumption, MarkAssumption,
        SessionAssumption, WindowAssumption, WithdrawAssumption DEF ExitInv
<1>2. ExitFacts!SessionSound(ExitFacts!NoWithdrawal)
  BY ExitFacts!BlankSound
<1>3. ExitFacts!Init => ExitInv
  BY <1>2, ExitFacts!ExitInitTyped DEF ExitFacts!Init, ExitFacts!WithdrawalsInit, ExitFacts!Sound
<1>4. ExitInv /\ [ExitFacts!Next]_(ExitFacts!vars) => ExitFacts!TypeOK'
  BY ExitFacts!ExitNextTyped
<1>5. ExitInv /\ [ExitFacts!Next]_(ExitFacts!vars) => ExitFacts!Sound'
  BY ExitFacts!NextKeepsSound
<1>6. ASSUME ExitInv, NEW i \in Investor, ExitFacts!WithdrawSteps(i)
      PROVE  \/ UNCHANGED ExitFacts!vaultVars
             \/ \E R \in SUBSET Mint, turned \in BOOLEAN : ExitFacts!WithdrawReturns(R, turned)
  BY <1>6, ExitFacts!WithdrawOnlyReturns
<1>7. QED
  BY <1>3, <1>4, <1>5, <1>6

-----------------------------------------------------------------------------
(* The steps both sides have in common *)

\* Creators and administrators can do nothing that ExitControl does not let them do: it
\* only lacks the counters that would stop them.
LEMMA AdminSeenByExit ==
    ASSUME VaultAdmin
    PROVE  ExitFacts!VaultAdmin
<1> USE DEF ExitFacts!VaultAdmin, vaultVars, envVars, ExitFacts!vaultVars, ExitFacts!envVars
<1>1. ASSUME NEW on \in BOOLEAN, SetProtocolPaused(on) PROVE ExitFacts!SetProtocolPaused(on)
  BY <1>1 DEF SetProtocolPaused, ExitFacts!SetProtocolPaused
<1>2. PauseVault => ExitFacts!PauseVault
  BY DEF PauseVault, ExitFacts!PauseVault
<1>3. UnpauseVault => ExitFacts!UnpauseVault
  BY DEF UnpauseVault, ExitFacts!UnpauseVault
<1>4. CloseVault => ExitFacts!CloseVault
  BY DEF CloseVault, ExitFacts!CloseVault, ExitFacts!NoCommitted
<1>5. FinalizeClose => ExitFacts!FinalizeClose
  BY DEF FinalizeClose, ExitFacts!FinalizeClose, ExitFacts!NoCommitted
<1>6. Rebalance => ExitFacts!Rebalance
  BY DEF Rebalance, ExitFacts!Rebalance, ExitFacts!NoCommitted
<1>7. ASSUME NEW src \in Mint \cup {USDC}, NEW dst \in Mint \cup {USDC},
             NEW E \in SUBSET Mint, RebalanceSwap(src, dst, E)
      PROVE  ExitFacts!RebalanceSwap(src, dst, E)
  BY <1>7 DEF RebalanceSwap, ExitFacts!RebalanceSwap, ExitFacts!NoCommitted, VaultMoves,
              ExitFacts!VaultMoves
<1>8. ASSUME NEW m \in Mint, SweepToUsdc(m) PROVE ExitFacts!SweepToUsdc(m)
  BY <1>8 DEF SweepToUsdc, ExitFacts!SweepToUsdc, VaultMoves, ExitFacts!VaultMoves
<1>9. QED
  BY <1>1, <1>2, <1>3, <1>4, <1>5, <1>6, <1>7, <1>8 DEF VaultAdmin

\* So it is with basket changes.
LEMMA RestructureSeenByExit ==
    ASSUME RestructureSteps \/ RestructureSettle
    PROVE  ExitFacts!RestructureSteps \/ ExitFacts!RestructureSettle
<1> USE DEF ExitFacts!RestructureSteps, vaultVars, envVars, ExitFacts!vaultVars,
            ExitFacts!envVars, NoRestructure, ExitFacts!NoRestructure, StrandedMints,
            ExitFacts!StrandedMints, VaultMoves, ExitFacts!VaultMoves
<1>1. ASSUME NEW new \in Baskets, RestructureInit(new) PROVE ExitFacts!RestructureInit(new)
  BY <1>1 DEF RestructureInit, ExitFacts!RestructureInit, Reorganisable, NoStrandedValue,
              ExitFacts!Reorganisable, ExitFacts!NoStrandedValue, ExitFacts!NoCommitted
<1>2. ASSUME NEW sells \in SUBSET Mint, NEW buys \in SUBSET Mint, NEW E \in SUBSET Mint,
             RestructureSwapBatch(sells, buys, E)
      PROVE  ExitFacts!RestructureSwapBatch(sells, buys, E)
  BY <1>2, SameCardinality DEF RestructureSwapBatch, ExitFacts!RestructureSwapBatch
<1>3. ASSUME NEW who \in {"creator", "crank"}, RestructureAbort(who)
      PROVE  ExitFacts!RestructureAbort(who)
  BY <1>3 DEF RestructureAbort, ExitFacts!RestructureAbort, AbortWindow, ExitFacts!AbortWindow
<1>4. CloseStranded => ExitFacts!CloseStranded
  BY DEF CloseStranded, ExitFacts!CloseStranded
<1>5. AdminClearStranded => ExitFacts!AdminClearStranded
  BY DEF AdminClearStranded, ExitFacts!AdminClearStranded, AuthorityAttests,
         ExitFacts!AuthorityAttests
<1>6. ASSUME NEW m \in Mint, RescueUntracked(m) PROVE ExitFacts!RescueUntracked(m)
  BY <1>6 DEF RescueUntracked, ExitFacts!RescueUntracked
<1>7. RestructureSettle => ExitFacts!RestructureSettle
  BY DEF RestructureSettle, ExitFacts!RestructureSettle
<1>8. QED
  BY <1>1, <1>2, <1>3, <1>4, <1>5, <1>6, <1>7 DEF RestructureSteps

\* Everything that is neither a deposit nor a withdrawal is a step of ExitControl.
LEMMA VaultActSeenByExit ==
    ASSUME VaultActs
    PROVE  ExitFacts!OthersAct
<1>1. Issuers => ExitFacts!Issuers
  BY DEF Issuers, ExitFacts!Issuers, IssuerSets, ExitFacts!IssuerSets, BlockMode,
         ExitFacts!BlockMode, vaultVars, ExitFacts!vaultVars
<1>2. UNCHANGED ExitFacts!withdrawVars
  BY DEF VaultActs, withdrawVars, ExitFacts!withdrawVars
<1>3. QED
  BY <1>1, <1>2, AdminSeenByExit, RestructureSeenByExit
  DEF VaultActs, BasketChanged, OthersAct, ExitFacts!OthersAct

-----------------------------------------------------------------------------
(* The steps of ExitControl *)

\* Withdrawals are its own steps; it has the same instructions.
LEMMA WithdrawSeenByExit ==
    ASSUME NEW i \in Investor, WithdrawSteps(i)
    PROVE  ExitFacts!WithdrawSteps(i)
<1> USE DEF ExitFacts!WithdrawSteps, vaultVars, envVars, ExitFacts!vaultVars, ExitFacts!envVars,
            NoWithdrawal, ExitFacts!NoWithdrawal, VaultMoves, ExitFacts!VaultMoves,
            EscrowMoves, ExitFacts!EscrowMoves, AllTraded, ExitFacts!AllTraded,
            AllSwept, ExitFacts!AllSwept
<1>0. \A who : /\ MayTurnBack(wd[i], who) <=> ExitFacts!MayTurnBack(wd[i], who)
               /\ MayClaim(wd[i], who) <=> ExitFacts!MayClaim(wd[i], who)
  BY DEF MayTurnBack, ExitFacts!MayTurnBack, MayClaim, ExitFacts!MayClaim
<1>1. ASSUME NEW burn \in 1..MaxPosition, WithdrawInit(i, burn)
      PROVE  ExitFacts!WithdrawInit(i, burn)
  BY <1>1 DEF WithdrawInit, ExitFacts!WithdrawInit
<1>2. ASSUME NEW B \in SUBSET Mint, WithdrawSwapBatch(i, B)
      PROVE  ExitFacts!WithdrawSwapBatch(i, B)
  BY <1>2, SameCardinality DEF WithdrawSwapBatch, ExitFacts!WithdrawSwapBatch
<1>3. ASSUME NEW B \in SUBSET Mint, Sweeps(i, B) PROVE ExitFacts!Sweeps(i, B)
  BY <1>3, SameCardinality DEF Sweeps, ExitFacts!Sweeps
<1>4. ASSUME NEW R, NEW turned, Landed(R, turned) PROVE ExitFacts!Landed(R, turned)
  BY <1>4 DEF Landed, ExitFacts!Landed, FlagAfterReturn, ExitFacts!FlagAfterReturn
<1>5. ASSUME NEW B \in SUBSET Mint, WithdrawClose(i, B) PROVE ExitFacts!WithdrawClose(i, B)
  BY <1>3, <1>4, <1>5 DEF WithdrawClose, ExitFacts!WithdrawClose
<1>6. ASSUME NEW B \in SUBSET Mint, NEW who \in {"investor", "crank"}, WithdrawUnwind(i, B, who)
      PROVE  ExitFacts!WithdrawUnwind(i, B, who)
  BY <1>0, <1>3, <1>4, <1>6 DEF WithdrawUnwind, ExitFacts!WithdrawUnwind, Reserve,
     ExitFacts!Reserve
<1>7. ASSUME NEW B \in SUBSET Mint, NEW who \in {"investor", "crank"}, WithdrawClaim(i, B, who)
      PROVE  ExitFacts!WithdrawClaim(i, B, who)
  BY <1>0, <1>7, SameCardinality DEF WithdrawClaim, ExitFacts!WithdrawClaim
<1>8. ASSUME NEW who \in {"investor", "crank"}, WithdrawSettle(i, who)
      PROVE  ExitFacts!WithdrawSettle(i, who)
  BY <1>8 DEF WithdrawSettle, ExitFacts!WithdrawSettle, SettleAllowed, ExitFacts!SettleAllowed,
     Settleable, ExitFacts!Settleable
<1>9. ASSUME NEW who \in {"investor", "crank"}, WithdrawAbort(i, who)
      PROVE  ExitFacts!WithdrawAbort(i, who)
  BY <1>9 DEF WithdrawAbort, ExitFacts!WithdrawAbort, MayRestore, ExitFacts!MayRestore, Release,
     ExitFacts!Release, SaturatingSub, ExitFacts!SaturatingSub
<1>10. QED
  BY <1>1, <1>2, <1>5, <1>6, <1>7, <1>8, <1>9 DEF WithdrawSteps

\* The tokens a deposit lands are of the table, with a weight, or a basket change may have
\* settled in the very second it was opened.
LEMMA LandingSeenByExit ==
    ASSUME EntryInv, NEW i \in Investor, NEW B \in SUBSET Mint, SweepsIn(i, B),
           held' = held \cup B,
           UNCHANGED <<status, table, weighted, stranded, seeded, envVars>>
    PROVE  ExitFacts!DepositLands(B)
<1>1. SameSecond \/ B \subseteq weighted
  BY SweptInIsWeighted DEF EntryInv, IInv
<1>2. QED
  BY <1>1 DEF SweepsIn, ExitFacts!DepositLands, envVars, ExitFacts!envVars, VaultMoves,
     EscrowMoves, ExitFacts!VaultMoves, ExitFacts!EscrowMoves

\* Until it settles a deposit lands tokens or leaves alone what withdrawals see.
LEMMA DepositWorkSeenByExit ==
    ASSUME EntryInv, NEW i \in Investor, DepositWork(i), UNCHANGED <<withdrawVars, rs>>
    PROVE  ExitFacts!Deposits \/ UNCHANGED ExitFacts!vars
<1> DEFINE Goal == ExitFacts!Deposits \/ UNCHANGED ExitFacts!vars
<1>1. ASSUME NEW B \in SUBSET Mint, ExitFacts!DepositLands(B) PROVE Goal
  BY <1>1 DEF ExitFacts!Deposits, withdrawVars, ExitFacts!withdrawVars
<1>2. ASSUME UNCHANGED <<status, table, weighted, held, stranded, seeded, protocolPaused, blocked>>
      PROVE  Goal
  BY <1>2 DEF ExitFacts!vars, ExitFacts!vaultVars, ExitFacts!envVars, withdrawVars,
     ExitFacts!withdrawVars
<1> HIDE DEF Goal
<1>3. ASSUME NEW B \in SUBSET Mint, DepositSweepCommit(i, B) \/ DepositSweepMore(i, B) PROVE Goal
  BY <1>1, <1>3, LandingSeenByExit DEF DepositSweepCommit, DepositSweepMore
<1>4. ASSUME DepositInit(i) \/ \E B \in SUBSET Mint : DepositSwapBatch(i, B) PROVE Goal
  BY <1>2, <1>4 DEF DepositInit, DepositSwapBatch, vaultVars, envVars
<1>5. ASSUME NEW B, NEW who, DepositSweepRefund(i, B, who) \/ DepositAbort(i, who) PROVE Goal
  BY <1>2, <1>5 DEF DepositSweepRefund, DepositAbort, vaultVars, envVars
<1>6. ASSUME DepositForceRelease(i) PROVE Goal
  BY <1>2, <1>6 DEF DepositForceRelease, envVars
<1>7. Goal
  BY <1>3, <1>4, <1>5, <1>6 DEF DepositWork
<1>8. QED
  BY <1>7 DEF Goal

\* Its settle mints what ExitControl lets it mint.
LEMMA SettleSeenByExit ==
    ASSUME EntryInv, ExitInv, NEW i \in Investor, DepositSettle(i), Mints(i),
           UNCHANGED <<wd, burned, rs>>
    PROVE  ExitFacts!Deposits
<1>1. PICK valueIn \in ValuesIn(dep[i]) :
        LET minted == ToInvestor(dep[i].amount, dep[i].mark, valueIn)
        IN /\ shares[i] + wd[i].burn + minted <= MaxPosition
           /\ shares' = [shares EXCEPT ![i] = @ + minted]
  BY DEF Mints
<1> DEFINE minted == ToInvestor(dep[i].amount, dep[i].mark, valueIn)
<1>2. minted \in Nat
  <2>1. dep[i].mark \in Mark /\ dep[i].amount \in {0} \cup Amounts
    BY DEF EntryInv, IInv, TypeOK, Session
  <2>2. dep[i].mark \in [tsb: Nat, tvl: Nat] /\ dep[i].amount \in Nat
    BY <2>1, MarkIsNat, AmountIsNat
  <2>3. valueIn \in Nat
    BY <1>1, <2>2 DEF ValuesIn
  <2>4. QED
    BY <2>2, <2>3, MintedType
<1> HIDE DEF minted
<1>3. shares[i] \in Nat /\ wd[i].burn \in Nat
  BY WithdrawAssumption DEF ExitInv, ExitFacts!TypeOK, ExitFacts!WithdrawSession
<1>4. minted \in 0..(MaxPosition - shares[i] - wd[i].burn)
  BY <1>1, <1>2, <1>3, WithdrawAssumption DEF minted
<1>5. shares' = [shares EXCEPT ![i] = @ + minted]
  BY <1>1 DEF minted
<1>6. ExitFacts!DepositMints(i)
  BY <1>4, <1>5 DEF DepositSettle, ExitFacts!DepositMints, envVars, ExitFacts!envVars
<1>7. QED
  BY <1>6 DEF ExitFacts!Deposits

\* Time passes for both.
LEMMA ClockSeenByExit ==
    ASSUME ExitInv, ClockAdvances
    PROVE  ExitFacts!Tick \/ UNCHANGED ExitFacts!vars
<1>1. CASE rs.open \/ \E i \in Investor : wd[i].open
  BY <1>1 DEF ClockAdvances, ExitFacts!Tick, Older, ExitFacts!Older, vaultVars, envVars,
     ExitFacts!vaultVars, ExitFacts!envVars
<1>2. CASE ~(rs.open \/ \E i \in Investor : wd[i].open)
  <2>1. wd' = wd
    BY <1>2 DEF ClockAdvances, ExitInv, ExitFacts!TypeOK
  <2>2. rs' = rs
    BY <1>2 DEF ClockAdvances
  <2>3. QED
    BY <2>1, <2>2 DEF ClockAdvances, ExitFacts!vars, ExitFacts!withdrawVars, vaultVars, envVars,
       ExitFacts!vaultVars, ExitFacts!envVars
<1>3. QED
  BY <1>1, <1>2

\* Every step of the vault is one of ExitControl, or none.
LEMMA StepSeenByExit ==
    ASSUME WagonInv, [WagonStep]_wagonVars
    PROVE  [ExitFacts!Next]_(ExitFacts!vars)
<1>1. ASSUME NEW i \in Investor, SessionActs(i) PROVE [ExitFacts!Next]_(ExitFacts!vars)
  <2>1. CASE DepositWork(i) /\ UNCHANGED withdrawVars
    BY <1>1, <2>1, DepositWorkSeenByExit DEF SessionActs, WagonInv, ExitFacts!Next
  <2>2. CASE DepositSettle(i) /\ Mints(i) /\ UNCHANGED <<wd, burned>>
    BY <1>1, <2>2, SettleSeenByExit DEF SessionActs, WagonInv, ExitFacts!Next
  <2>3. CASE WithdrawSteps(i)
    BY <1>1, <2>3, WithdrawSeenByExit DEF SessionActs, ExitFacts!Next, ExitFacts!Withdrawals
  <2>4. QED
    BY <1>1, <2>1, <2>2, <2>3 DEF SessionActs
<1>2. CASE VaultActs
  BY <1>2, VaultActSeenByExit DEF ExitFacts!Next
<1>3. CASE ClockAdvances
  BY <1>3, ClockSeenByExit DEF WagonInv, ExitFacts!Next
<1>4. CASE UNCHANGED wagonVars
  BY <1>4 DEF wagonVars, vars, vaultVars, envVars, withdrawVars, ExitFacts!vars,
     ExitFacts!vaultVars, ExitFacts!envVars, ExitFacts!withdrawVars
<1>5. QED
  BY <1>1, <1>2, <1>3, <1>4 DEF WagonStep

-----------------------------------------------------------------------------
(* The steps of EntryControl *)

\* Withdrawals do not touch the lock of the deposits.
LEMMA WithdrawLeavesLock ==
    ASSUME NEW i \in Investor, WithdrawSteps(i)
    PROVE  UNCHANGED <<committed, pending, protocolPaused, blocked>>
  BY DEF WithdrawSteps, WithdrawInit, WithdrawSwapBatch, WithdrawUnwind, WithdrawClose, Sweeps,
         WithdrawClaim, WithdrawSettle, WithdrawAbort, vaultVars, envVars

\* All they do is what EntryControl assumes of them.
LEMMA WithdrawSeenByEntry ==
    ASSUME ExitInv, NEW i \in Investor, WithdrawSteps(i), UNCHANGED <<rs, dep>>
    PROVE  Withdrawals \/ UNCHANGED vars
<1>1. \/ UNCHANGED ExitFacts!vaultVars
      \/ \E R \in SUBSET Mint, turned \in BOOLEAN : ExitFacts!WithdrawReturns(R, turned)
  BY WithdrawSeenByExit, ExitFactsApply
<1>2. UNCHANGED <<committed, pending, protocolPaused, blocked>>
  BY WithdrawLeavesLock
<1>3. ASSUME NEW R \in SUBSET Mint, NEW turned \in BOOLEAN, ExitFacts!WithdrawReturns(R, turned)
      PROVE  WithdrawReturns(R, turned)
  BY <1>2, <1>3 DEF WithdrawReturns, ExitFacts!WithdrawReturns, Landed, ExitFacts!Landed,
     FlagAfterReturn, ExitFacts!FlagAfterReturn, VaultMoves, ExitFacts!VaultMoves, EscrowMoves,
     ExitFacts!EscrowMoves, envVars, ExitFacts!envVars
<1>4. CASE UNCHANGED ExitFacts!vaultVars
  BY <1>2, <1>4 DEF vars, vaultVars, envVars, ExitFacts!vaultVars
<1>5. QED
  BY <1>1, <1>3, <1>4 DEF Withdrawals

\* Every step of the vault is one of EntryControl, or none.
LEMMA StepSeenByEntry ==
    ASSUME WagonInv, [WagonStep]_wagonVars
    PROVE  [Next]_vars
<1>1. ASSUME NEW i \in Investor, SessionActs(i) PROVE [Next]_vars
  BY <1>1, WithdrawSeenByEntry DEF SessionActs, WagonInv, Next, Deposits, DepositSteps
<1>2. CASE VaultActs
  BY <1>2 DEF VaultActs, Next
<1>3. CASE ClockAdvances
  <2>1. CASE rs.open \/ \E i \in Investor : dep[i].open
    BY <1>3, <2>1 DEF ClockAdvances, Tick, Next
  <2>2. CASE ~(rs.open \/ \E i \in Investor : dep[i].open)
    <3>1. dep' = dep
      BY <1>3, <2>2 DEF ClockAdvances, WagonInv, EntryInv, IInv, TypeOK
    <3>2. rs' = rs
      BY <1>3, <2>2 DEF ClockAdvances
    <3>3. QED
      BY <1>3, <3>1, <3>2 DEF ClockAdvances, vars
  <2>3. QED
    BY <2>1, <2>2
<1>4. CASE UNCHANGED wagonVars
  BY <1>4 DEF wagonVars
<1>5. QED
  BY <1>1, <1>2, <1>3, <1>4 DEF WagonStep

-----------------------------------------------------------------------------
(* The composition *)

\* A created vault is one of ExitControl.
LEMMA StartSeenByExit == WagonInit => ExitFacts!Init
  BY DEF WagonInit, Init, LifecycleInit, VaultInit, NoRestructure, WithdrawalsInit, NoWithdrawal,
     ExitFacts!Init, ExitFacts!LifecycleInit, ExitFacts!VaultInit, ExitFacts!NoRestructure,
     ExitFacts!WithdrawalsInit, ExitFacts!NoWithdrawal

\* A created vault satisfies the invariants of both sides.
LEMMA WagonStarts == WagonInit => WagonInv
<1> SUFFICES ASSUME WagonInit PROVE WagonInv
  OBVIOUS
<1>1. EntryInv
  BY InitTyped, InitUnlocked, BlankLegsSound DEF WagonInit, EntryInv, IInv, Init, TableInv
<1>2. ExitInv
  BY StartSeenByExit, ExitFactsApply
<1>3. QED
  BY <1>1, <1>2 DEF WagonInv

\* A step from such a state is one of either side, so each keeps its own invariant.
LEMMA WagonKeeps == WagonInv /\ [WagonStep]_wagonVars => WagonInv'
<1> SUFFICES ASSUME WagonInv, [WagonStep]_wagonVars PROVE WagonInv'
  OBVIOUS
<1>1. EntryInv'
  <2>1. IInv'
    BY StepSeenByEntry, NextTyped, NextKeepsLock DEF WagonInv, EntryInv, IInv
  <2>2. TableInv'
    BY StepSeenByEntry, NextKeepsTable DEF WagonInv, EntryInv, IInv
  <2>3. QED
    BY <2>1, <2>2 DEF EntryInv
<1>2. ExitInv'
  BY StepSeenByExit, ExitFactsApply DEF WagonInv
<1>3. QED
  BY <1>1, <1>2 DEF WagonInv

\* The history of strays takes part in no step.
LEMMA HistoryIsIdle == [WagonNext]_allVars => [WagonStep]_wagonVars
  BY DEF WagonNext, allVars

\* The two invariants hold together in every reachable state.
LEMMA WagonInductive == WagonSpec => []WagonInv
  BY WagonStarts, WagonKeeps, HistoryIsIdle, PTL DEF WagonSpec

\* ExitControl is in this module twice, in Wagon and with its proofs: the same operators
\* under two names.
LEMMA SameExitAdmin == ExitFacts!VaultAdmin <=> Exit!VaultAdmin
  BY DEF ExitFacts!VaultAdmin, Exit!VaultAdmin, ExitFacts!SetProtocolPaused,
         Exit!SetProtocolPaused, ExitFacts!PauseVault, Exit!PauseVault, ExitFacts!UnpauseVault,
         Exit!UnpauseVault, ExitFacts!CloseVault, Exit!CloseVault, ExitFacts!FinalizeClose,
         Exit!FinalizeClose, ExitFacts!Rebalance, Exit!Rebalance, ExitFacts!RebalanceSwap,
         Exit!RebalanceSwap, ExitFacts!SweepToUsdc, Exit!SweepToUsdc, ExitFacts!NoCommitted,
         Exit!NoCommitted, ExitFacts!VaultMoves, Exit!VaultMoves, ExitFacts!vaultVars,
         Exit!vaultVars, ExitFacts!envVars, Exit!envVars

\* The same for basket changes.
LEMMA SameExitRestructure ==
    (ExitFacts!RestructureSteps \/ ExitFacts!RestructureSettle)
        <=> (Exit!RestructureSteps \/ Exit!RestructureSettle)
<1>1. \A S : ExitFacts!Cardinality(S) = Exit!Cardinality(S)
  BY DEF ExitFacts!Cardinality, Exit!Cardinality
<1>2. QED
  BY <1>1
  DEF ExitFacts!RestructureSteps, Exit!RestructureSteps, ExitFacts!RestructureSettle,
      Exit!RestructureSettle, ExitFacts!RestructureInit, Exit!RestructureInit,
      ExitFacts!RestructureSwapBatch, Exit!RestructureSwapBatch, ExitFacts!RestructureAbort,
      Exit!RestructureAbort, ExitFacts!CloseStranded, Exit!CloseStranded,
      ExitFacts!AdminClearStranded, Exit!AdminClearStranded, ExitFacts!RescueUntracked,
      Exit!RescueUntracked, ExitFacts!NoRestructure, Exit!NoRestructure, ExitFacts!StrandedMints,
      Exit!StrandedMints, ExitFacts!VaultMoves, Exit!VaultMoves, ExitFacts!Reorganisable,
      Exit!Reorganisable, ExitFacts!NoStrandedValue, Exit!NoStrandedValue, ExitFacts!NoCommitted,
      Exit!NoCommitted, ExitFacts!AbortWindow, Exit!AbortWindow, ExitFacts!AuthorityAttests,
      Exit!AuthorityAttests, ExitFacts!vaultVars, Exit!vaultVars, ExitFacts!envVars, Exit!envVars

\* The same for withdrawals.
LEMMA SameExitWithdraw ==
    ASSUME NEW i
    PROVE  ExitFacts!WithdrawSteps(i) <=> Exit!WithdrawSteps(i)
<1>1. \A S : ExitFacts!Cardinality(S) = Exit!Cardinality(S)
  BY DEF ExitFacts!Cardinality, Exit!Cardinality
<1>2. \A burn : ExitFacts!WithdrawInit(i, burn) <=> Exit!WithdrawInit(i, burn)
  BY <1>1
  DEF ExitFacts!WithdrawInit, Exit!WithdrawInit, ExitFacts!NoWithdrawal, Exit!NoWithdrawal,
      ExitFacts!VaultMoves, Exit!VaultMoves, ExitFacts!EscrowMoves, Exit!EscrowMoves,
      ExitFacts!AllTraded, Exit!AllTraded, ExitFacts!AllSwept, Exit!AllSwept, ExitFacts!vaultVars,
      Exit!vaultVars, ExitFacts!envVars, Exit!envVars
<1>3. \A B : ExitFacts!WithdrawSwapBatch(i, B) <=> Exit!WithdrawSwapBatch(i, B)
  BY <1>1
  DEF ExitFacts!WithdrawSwapBatch, Exit!WithdrawSwapBatch, ExitFacts!NoWithdrawal,
      Exit!NoWithdrawal, ExitFacts!VaultMoves, Exit!VaultMoves, ExitFacts!EscrowMoves,
      Exit!EscrowMoves, ExitFacts!AllTraded, Exit!AllTraded, ExitFacts!AllSwept, Exit!AllSwept,
      ExitFacts!vaultVars, Exit!vaultVars, ExitFacts!envVars, Exit!envVars
<1>4. \A B : ExitFacts!WithdrawClose(i, B) <=> Exit!WithdrawClose(i, B)
  BY <1>1
  DEF ExitFacts!WithdrawClose, Exit!WithdrawClose, ExitFacts!Sweeps, Exit!Sweeps,
      ExitFacts!Landed, Exit!Landed, ExitFacts!FlagAfterReturn, Exit!FlagAfterReturn,
      ExitFacts!NoWithdrawal, Exit!NoWithdrawal, ExitFacts!VaultMoves, Exit!VaultMoves,
      ExitFacts!EscrowMoves, Exit!EscrowMoves, ExitFacts!AllTraded, Exit!AllTraded,
      ExitFacts!AllSwept, Exit!AllSwept, ExitFacts!vaultVars, Exit!vaultVars, ExitFacts!envVars,
      Exit!envVars
<1>5. \A B, who : ExitFacts!WithdrawUnwind(i, B, who) <=> Exit!WithdrawUnwind(i, B, who)
  BY <1>1
  DEF ExitFacts!WithdrawUnwind, Exit!WithdrawUnwind, ExitFacts!Sweeps, Exit!Sweeps,
      ExitFacts!Landed, Exit!Landed, ExitFacts!FlagAfterReturn, Exit!FlagAfterReturn,
      ExitFacts!MayTurnBack, Exit!MayTurnBack, ExitFacts!Reserve, Exit!Reserve,
      ExitFacts!NoWithdrawal, Exit!NoWithdrawal, ExitFacts!VaultMoves, Exit!VaultMoves,
      ExitFacts!EscrowMoves, Exit!EscrowMoves, ExitFacts!AllTraded, Exit!AllTraded,
      ExitFacts!AllSwept, Exit!AllSwept, ExitFacts!vaultVars, Exit!vaultVars, ExitFacts!envVars,
      Exit!envVars
<1>6. \A B, who : ExitFacts!WithdrawClaim(i, B, who) <=> Exit!WithdrawClaim(i, B, who)
  BY <1>1
  DEF ExitFacts!WithdrawClaim, Exit!WithdrawClaim, ExitFacts!MayClaim, Exit!MayClaim,
      ExitFacts!NoWithdrawal, Exit!NoWithdrawal, ExitFacts!VaultMoves, Exit!VaultMoves,
      ExitFacts!EscrowMoves, Exit!EscrowMoves, ExitFacts!AllTraded, Exit!AllTraded,
      ExitFacts!AllSwept, Exit!AllSwept, ExitFacts!vaultVars, Exit!vaultVars, ExitFacts!envVars,
      Exit!envVars
<1>7. \A who : ExitFacts!WithdrawSettle(i, who) <=> Exit!WithdrawSettle(i, who)
  BY <1>1
  DEF ExitFacts!WithdrawSettle, Exit!WithdrawSettle, ExitFacts!SettleAllowed, Exit!SettleAllowed,
      ExitFacts!Settleable, Exit!Settleable, ExitFacts!NoWithdrawal, Exit!NoWithdrawal,
      ExitFacts!VaultMoves, Exit!VaultMoves, ExitFacts!EscrowMoves, Exit!EscrowMoves,
      ExitFacts!AllTraded, Exit!AllTraded, ExitFacts!AllSwept, Exit!AllSwept, ExitFacts!vaultVars,
      Exit!vaultVars, ExitFacts!envVars, Exit!envVars
<1>8. \A who : ExitFacts!WithdrawAbort(i, who) <=> Exit!WithdrawAbort(i, who)
  BY <1>1
  DEF ExitFacts!WithdrawAbort, Exit!WithdrawAbort, ExitFacts!MayRestore, Exit!MayRestore,
      ExitFacts!Release, Exit!Release, ExitFacts!SaturatingSub, Exit!SaturatingSub,
      ExitFacts!NoWithdrawal, Exit!NoWithdrawal, ExitFacts!VaultMoves, Exit!VaultMoves,
      ExitFacts!EscrowMoves, Exit!EscrowMoves, ExitFacts!AllTraded, Exit!AllTraded,
      ExitFacts!AllSwept, Exit!AllSwept, ExitFacts!vaultVars, Exit!vaultVars, ExitFacts!envVars,
      Exit!envVars
<1>9. QED
  BY <1>2, <1>3, <1>4, <1>5, <1>6, <1>7, <1>8 DEF ExitFacts!WithdrawSteps, Exit!WithdrawSteps

\* The same for the specification: its start, its steps and its state.
LEMMA SameExit ==
    /\ ExitFacts!Init <=> Exit!Init
    /\ ExitFacts!Next <=> Exit!Next
    /\ ExitFacts!vars = Exit!vars /\ ExitFacts!vars' = Exit!vars'
<1>1. ExitFacts!Init <=> Exit!Init
  BY DEF ExitFacts!Init, Exit!Init, ExitFacts!LifecycleInit, Exit!LifecycleInit,
         ExitFacts!VaultInit, Exit!VaultInit, ExitFacts!NoRestructure, Exit!NoRestructure,
         ExitFacts!WithdrawalsInit, Exit!WithdrawalsInit, ExitFacts!NoWithdrawal,
         Exit!NoWithdrawal
<1>2. ExitFacts!vars = Exit!vars /\ ExitFacts!vars' = Exit!vars'
  BY DEF ExitFacts!vars, Exit!vars, ExitFacts!vaultVars, Exit!vaultVars, ExitFacts!envVars,
         Exit!envVars, ExitFacts!withdrawVars, Exit!withdrawVars
<1>3. ExitFacts!Issuers <=> Exit!Issuers
  BY DEF ExitFacts!Issuers, Exit!Issuers, ExitFacts!IssuerSets, Exit!IssuerSets,
         ExitFacts!BlockMode, Exit!BlockMode, ExitFacts!vaultVars, Exit!vaultVars
<1>4. ExitFacts!OthersAct <=> Exit!OthersAct
  BY <1>3, SameExitAdmin, SameExitRestructure
  DEF ExitFacts!OthersAct, Exit!OthersAct, ExitFacts!withdrawVars, Exit!withdrawVars
<1>5. ExitFacts!Withdrawals <=> Exit!Withdrawals
  BY SameExitWithdraw DEF ExitFacts!Withdrawals, Exit!Withdrawals
<1>6. ExitFacts!Deposits <=> Exit!Deposits
  BY DEF ExitFacts!Deposits, Exit!Deposits, ExitFacts!DepositLands, Exit!DepositLands,
         ExitFacts!DepositMints, Exit!DepositMints, ExitFacts!VaultMoves, Exit!VaultMoves,
         ExitFacts!EscrowMoves, Exit!EscrowMoves, ExitFacts!envVars, Exit!envVars,
         ExitFacts!vaultVars, Exit!vaultVars, ExitFacts!withdrawVars, Exit!withdrawVars
<1>7. ExitFacts!Tick <=> Exit!Tick
  BY DEF ExitFacts!Tick, Exit!Tick, ExitFacts!Older, Exit!Older, ExitFacts!vaultVars,
         Exit!vaultVars, ExitFacts!envVars, Exit!envVars
<1>8. QED
  BY <1>1, <1>2, <1>4, <1>5, <1>6, <1>7 DEF ExitFacts!Next, Exit!Next

-----------------------------------------------------------------------------
(* What follows *)

\* All that EntryControl's theorems say of deposits and basket changes holds in the vault
\* where withdrawals are the program's own: they do to it what EntryControl assumed.
THEOREM WagonIsEntryControl == WagonSpec => IsEntryControl
<1>1. WagonInit => Init
  BY DEF WagonInit
<1>2. WagonInv /\ [WagonStep]_wagonVars => [Next]_vars
  BY StepSeenByEntry
<1>3. QED
  BY <1>1, <1>2, HistoryIsIdle, WagonInductive, PTL DEF WagonSpec, IsEntryControl, Spec

\* All that ExitControl's theorems say of withdrawals holds in the vault where deposits are
\* the program's own: they land and mint only as ExitControl assumed.
THEOREM WagonIsExitControl == WagonSpec => IsExitControl
<1>1. WagonInit => Exit!Init
  BY StartSeenByExit, SameExit
<1>2. WagonInv /\ [WagonStep]_wagonVars => [Exit!Next]_(Exit!vars)
  BY StepSeenByExit, SameExit
<1>3. QED
  BY <1>1, <1>2, HistoryIsIdle, WagonInductive, PTL DEF WagonSpec, IsExitControl, Exit!Spec

\* With the program's own withdrawals the commit counter is the lock CommitLock specifies,
\* the reservation covers what a settle mints, and status and session account agree.
THEOREM WagonLocks ==
    WagonSpec => [](SessionMatchesStatus /\ ReservationCoversMint) /\ IsCommitLock
  BY RestructuringHasSession, ReservationSuffices, LockImplemented, WagonIsEntryControl, PTL
  DEF IsEntryControl

-----------------------------------------------------------------------------
(* Value outside the table *)

\* What a deposit lands is in the table or remembered: only a tied session can land a mint
\* that the basket has lost.
LEMMA DepositAnnounced ==
    ASSUME EntryInv, NEW X, VisibleBut(X), NEW Y, NEW i \in Investor, DepositSteps(i),
           UNCHANGED rs, TiedIn(i) \ (held \cup weighted) \subseteq Y
    PROVE  VisibleBut(X \cup Y)'
<1>0. TypeOK /\ TableInv /\ dep[i] \in Session
  BY DEF EntryInv, IInv, TypeOK
<1>1. ASSUME NEW B \in SUBSET Mint, SweepsIn(i, B), held' = held \cup B,
             UNCHANGED <<status, table, weighted, stranded>>,
             B \ dep[i].landed \subseteq dep'[i].landed
      PROVE  VisibleBut(X \cup Y)'
  <2>1. /\ B \subseteq weighted \/ dep[i].since = "tie"
        /\ B \cap dep[i].landed = {}
    BY <1>0, <1>1, SweptInIsWeighted
  <2>2. B \ (held \cup weighted) \subseteq Y
    BY <1>1, <2>1 DEF TiedIn
  <2>3. QED
    BY <1>1, <2>2, LandingVisible
<1>2. ASSUME NEW B \in SUBSET Mint, DepositSweepCommit(i, B) PROVE VisibleBut(X \cup Y)'
  <2>1. dep'[i].landed = B
    BY <1>0, <1>2 DEF DepositSweepCommit, TypeOK, Session
  <2>2. QED
    BY <1>1, <1>2, <2>1 DEF DepositSweepCommit
<1>3. ASSUME NEW B \in SUBSET Mint, DepositSweepMore(i, B) PROVE VisibleBut(X \cup Y)'
  <2>1. dep'[i].landed = dep[i].landed \cup B
    BY <1>0, <1>3 DEF DepositSweepMore, TypeOK, Session
  <2>2. QED
    BY <1>1, <1>3, <2>1 DEF DepositSweepMore
<1>4. ASSUME UNCHANGED <<status, table, weighted, held, stranded>> PROVE VisibleBut(X \cup Y)'
  BY <1>4, VisibleFrame, VisibleAdjusts
<1>5. ASSUME \/ DepositInit(i) \/ DepositSettle(i) \/ DepositForceRelease(i)
             \/ \E B \in SUBSET Mint : DepositSwapBatch(i, B)
             \/ \E B, who : DepositSweepRefund(i, B, who)
             \/ \E who : DepositAbort(i, who)
      PROVE  UNCHANGED <<status, table, weighted, held, stranded>>
  BY <1>5 DEF DepositInit, DepositSettle, DepositForceRelease, DepositSwapBatch,
              DepositSweepRefund, DepositAbort, vaultVars
<1>6. QED
  BY <1>2, <1>3, <1>4, <1>5 DEF DepositSteps, DepositWork

\* What a withdrawal brings back is announced or remembered: a sweep that unwinds raises the
\* flag, one that closes the escrows of a sale is a leftover.
LEMMA WithdrawAnnounced ==
    ASSUME WagonInv, NEW X, VisibleBut(X), NEW Y, NEW i \in Investor, WithdrawSteps(i),
           UNCHANGED rs, LeftOver(i) \ (held \cup weighted) \subseteq Y
    PROVE  VisibleBut(X \cup Y)'
<1>0. /\ LifecycleTypeOK
      /\ wd \in [Investor -> ExitFacts!WithdrawSession]
      /\ wd[i].funded \subseteq Mint
      /\ wd[i].funded \cap (table \ weighted) = {}
  BY DEF WagonInv, EntryInv, IInv, TypeOK, ExitInv, ExitFacts!TypeOK, ExitFacts!Sound,
         ExitFacts!SessionSound, ExitFacts!WithdrawSession
<1>1. ASSUME NEW B \in SUBSET Mint, NEW who, WithdrawUnwind(i, B, who)
      PROVE  VisibleBut(X \cup Y)'
  <2>1. WithdrawReturns(B \cap wd[i].funded, TRUE)
    BY <1>0, <1>1 DEF WithdrawUnwind, Sweeps, WithdrawReturns
  <2>2. B \cap wd[i].funded \in SUBSET Mint
    OBVIOUS
  <2>3. QED
    BY <1>0, <2>1, <2>2, ReturnKeepsVisible, VisibleAdjusts
<1>2. ASSUME NEW B \in SUBSET Mint, WithdrawClose(i, B) PROVE VisibleBut(X \cup Y)'
  <2>1. wd'[i].funded = wd[i].funded \ B
    BY <1>0, <1>2 DEF WithdrawClose, ExitFacts!WithdrawSession
  <2>2. (B \cap wd[i].funded) \ (held \cup weighted) \subseteq Y
    BY <1>2, <2>1 DEF WithdrawClose, LeftOver
  <2>3. /\ held' = held \cup (B \cap wd[i].funded)
        /\ UNCHANGED <<status, table, weighted, stranded>>
    BY <1>2 DEF WithdrawClose, Sweeps, Landed
  <2>4. QED
    BY <2>2, <2>3, LandingVisible
<1>3. ASSUME \/ \E burn \in 1..MaxPosition : WithdrawInit(i, burn)
             \/ \E B \in SUBSET Mint : WithdrawSwapBatch(i, B)
             \/ \E B \in SUBSET Mint, who \in {"investor", "crank"} : WithdrawClaim(i, B, who)
             \/ \E who \in {"investor", "crank"} : WithdrawSettle(i, who) \/ WithdrawAbort(i, who)
      PROVE  UNCHANGED <<status, table, weighted, held, stranded>>
  BY <1>3 DEF WithdrawInit, WithdrawSwapBatch, WithdrawClaim, WithdrawSettle, WithdrawAbort, vaultVars
<1>4. ASSUME UNCHANGED <<status, table, weighted, held, stranded>> PROVE VisibleBut(X \cup Y)'
  BY <1>4, VisibleFrame, VisibleAdjusts
<1>5. QED
  BY <1>1, <1>2, <1>3, <1>4 DEF WithdrawSteps

\* Nothing else brings value in, and nobody but these two sees strays.
LEMMA NextAnnounces ==
    ASSUME WagonInv, VisibleBut(strays), [WagonNext]_allVars
    PROVE  VisibleBut(strays)'
<1>1. CASE UNCHANGED allVars
  BY <1>1 DEF allVars, wagonVars, vars, vaultVars, VisibleBut, SessionMatchesStatus, FlaggedBut,
              CoveredBut, StrandedMints
<1>2. CASE WagonNext
  <2>1. PICK X : X = strays
    OBVIOUS
  <2>2. PICK Y : Y = Strayed
    OBVIOUS
  <2>3. VisibleBut(X) /\ LifecycleTypeOK /\ EntryInv
    BY <2>1 DEF VisibleBut, FlaggedBut, CoveredBut, WagonInv, EntryInv, IInv, TypeOK
  <2>4. ASSUME NEW i \in Investor, SessionActs(i) PROVE VisibleBut(X \cup Y)'
    <3>1. /\ TiedIn(i) \ (held \cup weighted) \subseteq Y
          /\ LeftOver(i) \ (held \cup weighted) \subseteq Y
      BY <2>2 DEF Strayed
    <3>2. QED
      BY <2>3, <2>4, <3>1, DepositAnnounced, WithdrawAnnounced DEF SessionActs, DepositSteps
  <2>5. ASSUME VisibleBut(X)' PROVE VisibleBut(X \cup Y)'
    BY <2>5, VisibleAdjusts
  <2>6. ASSUME VaultActs PROVE VisibleBut(X \cup Y)'
    BY <2>3, <2>5, <2>6, AdminKeepsVisible, RestructureKeepsVisible, IssuersKeepVisible
    DEF VaultActs, BasketChanged, OthersAct
  <2>7. ASSUME ClockAdvances PROVE VisibleBut(X \cup Y)'
    <3>1. rs'.open = rs.open /\ rs'.bought = rs.bought /\ rs'.new = rs.new
      BY <2>3, <2>7 DEF ClockAdvances, LifecycleTypeOK, RestructureSession
    <3>2. QED
      BY <2>3, <2>5, <2>7, <3>1, VisibleFrame DEF ClockAdvances, vaultVars
  <2>8. VisibleBut(X \cup Y)'
    BY <1>2, <2>4, <2>6, <2>7 DEF WagonNext, WagonStep
  <2>9. PICK Z : Z = strays'
    OBVIOUS
  <2>10. Z = (X \cup Y) \cap (held' \ weighted')
    BY <1>2, <2>1, <2>2, <2>9 DEF WagonNext, Remember
  <2>11. VisibleBut(Z)'
    BY <2>8, <2>10, VisibleAdjusts
  <2>12. QED
    BY <2>9, <2>11 DEF VisibleBut, FlaggedBut, CoveredBut
<1>3. QED
  BY <1>1, <1>2

\* Withdrawals that unwind, basket changes that abort and deposits that land, in one vault,
\* with their own guards only.  What is held off the table is announced, the manifest lists
\* it, a committed deposit has landed on the table and none is priced blindly: but for what
\* the two unannounced landings brought, and those are the only ones there are.
THEOREM WagonAnnounces ==
    WagonSpec => /\ [](OffTableIsFlagged /\ ManifestCovers)
                 /\ []UntiedLandsOnTable
                 /\ EntrySeesAllValue
<1> DEFINE SeesAll ==
      \A i \in Investor : \/ ~dep[i].open /\ dep'[i].open
                          \/ ~IsCommitted(dep[i]) /\ IsCommitted(dep'[i])
                          => held \ weighted \subseteq strays
<1>1. WagonInit => VisibleBut(strays)
  BY InitVisible DEF WagonInit, Init, VisibleBut, FlaggedBut, CoveredBut
<1>2. WagonInv /\ VisibleBut(strays) /\ [WagonNext]_allVars => VisibleBut(strays)'
  BY NextAnnounces
<1>3. VisibleBut(strays) => OffTableIsFlagged /\ ManifestCovers
  BY DEF VisibleBut, OffTableIsFlagged, ManifestCovers
<1>4. ASSUME WagonInv, VisibleBut(strays), [WagonNext]_allVars PROVE [SeesAll]_allVars
  <2>1. [Next]_vars
    BY <1>4, HistoryIsIdle, StepSeenByEntry
  <2>2. QED
    BY <1>4, <2>1, OnlyDepositsEnter DEF VisibleBut, FlaggedBut, WagonInv, EntryInv
<1>5. WagonInv /\ VisibleBut(strays) /\ [WagonNext]_allVars => [SeesAll]_allVars
  BY <1>4
<1>6. WagonSpec => []UntiedLandsOnTable
  BY DepositsLandOnTable, WagonIsEntryControl, PTL DEF IsEntryControl
<1>7. QED
  BY <1>1, <1>2, <1>3, <1>5, <1>6, WagonInductive, PTL DEF WagonSpec, EntrySeesAllValue

-----------------------------------------------------------------------------
(* The end of a vault *)

\* Shares and withdrawals exist only where a deposit has settled, and the dead shares of the
\* first one keep such a vault from ever being closed.
UnseededInv ==
    /\ ~seeded => \A i \in Investor : shares[i] = 0 /\ ~wd[i].open
    /\ status = "Closed" => ~seeded

\* A withdrawal is opened for shares that somebody has.
LEMMA WithdrawKeepsUnseeded ==
    ASSUME UnseededInv, NEW i \in Investor, WithdrawSteps(i)
    PROVE  UnseededInv'
<1>1. UNCHANGED <<seeded, status>>
  BY DEF WithdrawSteps, WithdrawInit, WithdrawSwapBatch, WithdrawUnwind, WithdrawClose, Sweeps,
         WithdrawClaim, WithdrawSettle, WithdrawAbort, vaultVars
<1>2. seeded
  BY DEF UnseededInv, WithdrawSteps, WithdrawInit, WithdrawSwapBatch, WithdrawUnwind,
         WithdrawClose, Sweeps, WithdrawClaim, WithdrawSettle, WithdrawAbort
<1>3. QED
  BY <1>1, <1>2 DEF UnseededInv

\* Creators close a vault for good only while no deposit has settled in it.
LEMMA VaultActKeepsUnseeded ==
    ASSUME UnseededInv, VaultActs
    PROVE  UnseededInv'
<1>1. /\ UNCHANGED <<shares, wd, seeded>>
      /\ status' = "Closed" => status = "Closed" \/ ~seeded
  <2> USE DEF withdrawVars, vaultVars
  <2>1. CASE VaultAdmin
    BY <2>1 DEF VaultActs, VaultAdmin, SetProtocolPaused, PauseVault, UnpauseVault, CloseVault,
                FinalizeClose, Rebalance, RebalanceSwap, SweepToUsdc
  <2>2. CASE RestructureSteps
    BY <2>2 DEF VaultActs, RestructureSteps, RestructureInit, RestructureSwapBatch,
                RestructureAbort, CloseStranded, AdminClearStranded, RescueUntracked
  <2>3. CASE RestructureSettle
    BY <2>3 DEF VaultActs, RestructureSettle
  <2>4. CASE Issuers
    BY <2>4 DEF VaultActs, Issuers, IssuerSets
  <2>5. QED
    BY <2>1, <2>2, <2>3, <2>4 DEF VaultActs, BasketChanged, OthersAct
<1>2. QED
  BY <1>1 DEF UnseededInv

\* No step of the vault breaks it.
LEMMA NextKeepsUnseeded ==
    ASSUME WagonInv, UnseededInv, [WagonStep]_wagonVars
    PROVE  UnseededInv'
<1>1. ASSUME NEW i \in Investor, SessionActs(i) PROVE UnseededInv'
  <2>1. CASE DepositWork(i) /\ UNCHANGED withdrawVars
    <3>1. UNCHANGED <<seeded, status>>
      BY <2>1 DEF DepositWork, DepositInit, DepositSwapBatch, DepositSweepRefund, SweepsIn,
         DepositSweepCommit, DepositSweepMore, DepositAbort, DepositForceRelease, vaultVars
    <3>2. QED
      BY <2>1, <3>1 DEF UnseededInv, withdrawVars
  <2>2. CASE DepositSettle(i)
    BY <2>2 DEF DepositSettle, UnseededInv
  <2>3. CASE WithdrawSteps(i)
    BY <2>3, WithdrawKeepsUnseeded
  <2>4. QED
    BY <1>1, <2>1, <2>2, <2>3 DEF SessionActs
<1>2. CASE VaultActs
  BY <1>2, VaultActKeepsUnseeded
<1>3. CASE ClockAdvances
  <2>1. \A i \in Investor : wd'[i].open = wd[i].open
    BY <1>3 DEF ClockAdvances, WagonInv, ExitInv, ExitFacts!TypeOK, ExitFacts!WithdrawSession
  <2>2. QED
    BY <1>3, <2>1 DEF ClockAdvances, UnseededInv, vaultVars
<1>4. CASE UNCHANGED wagonVars
  BY <1>4 DEF wagonVars, vars, vaultVars, withdrawVars, UnseededInv
<1>5. QED
  BY <1>1, <1>2, <1>3, <1>4 DEF WagonStep

\* finalize_close destroys nothing: whoever entered and left before, a vault that has been
\* closed owes no shares, no withdrawal and no deposit whose tokens it has taken.
THEOREM WagonClosedOwesNobody == WagonSpec => []ClosedOwesNobody
<1>1. WagonInit => UnseededInv
  BY DEF WagonInit, WithdrawalsInit, NoWithdrawal, Init, LifecycleInit, VaultInit, UnseededInv
<1>2. WagonInv /\ UnseededInv /\ [WagonStep]_wagonVars => UnseededInv'
  BY NextKeepsUnseeded
<1>3. WagonInv /\ UnseededInv => ClosedOwesNobody
  <2> SUFFICES ASSUME WagonInv, UnseededInv, status = "Closed",  NEW i \in Investor
               PROVE  shares[i] = 0 /\ ~wd[i].open /\ ~IsCommitted(dep[i])
    BY DEF ClosedOwesNobody
  <2>1. Committed = {}
    BY CounterTells DEF WagonInv, EntryInv, IInv, CommitInv, LockedStatus
  <2>2. QED
    BY <2>1 DEF UnseededInv, Committed
<1>4. QED
  BY <1>1, <1>2, <1>3, HistoryIsIdle, WagonInductive, PTL DEF WagonSpec
=============================================================================
