------------------------- MODULE ExitControl_proofs -------------------------
(***************************************************************************)
(* What holds of ExitControl for every set of mints, baskets, investors    *)
(* and positions.  SessionSound is the inductive part about one session:   *)
(* which escrows can still hold tokens, and that whoever took value out    *)
(* is bound to the settle.                                                 *)
(***************************************************************************)
EXTENDS ExitControl, VaultLifecycle_proofs

Extracted(w) == w.proceeds \/ w.in_kind # {}

SessionSound(w) ==
    /\ w.funded \subseteq w.legs \ w.swept
    /\ w.funded \cap (table \ weighted) = {}
    /\ TRUE \notin Leftovers => w.funded \cap w.completed = {}
    /\ Extracted(w) => w.sold /\ ~w.aborting

Sound == \A i \in Investor : SessionSound(wd[i])

-----------------------------------------------------------------------------
(* Type correctness *)

\* A session blank but for its end is a session.
LEMMA BlankTyped == NoWithdrawal \in WithdrawSession
  BY SessionAssumption, WithdrawAssumption DEF NoWithdrawal, WithdrawSession

\* The initial state is well typed.
LEMMA ExitInitTyped == Init => TypeOK
  BY LifecycleInitTyped, BlankTyped DEF Init, WithdrawalsInit, TypeOK

\* What a sweep lands keeps the vault well typed.
LEMMA LandedTyped ==
    ASSUME VaultTypeOK, NEW R \in SUBSET Mint, NEW turned, Landed(R, turned),
           UNCHANGED <<status, table, weighted, committed, pending, seeded, envVars>>
    PROVE  VaultTypeOK'
  BY DEF VaultTypeOK, Landed, FlagAfterReturn, envVars

\* Every withdrawal instruction keeps vault, sessions and positions well typed.
LEMMA WithdrawTyped ==
    ASSUME TypeOK, NEW i \in Investor, WithdrawSteps(i), UNCHANGED rs
    PROVE  TypeOK'
<1> DEFINE w == wd[i]
<1>0. w \in WithdrawSession /\ w.burn \in Nat /\ w.funded \in SUBSET Mint /\ VaultTypeOK
  BY WithdrawAssumption DEF TypeOK, LifecycleTypeOK, WithdrawSession
<1>1. ASSUME UNCHANGED <<vaultVars, envVars>> PROVE LifecycleTypeOK'
  BY <1>1 DEF TypeOK, LifecycleTypeOK, VaultTypeOK, vaultVars, envVars
<1>2. ASSUME NEW burn \in 1..MaxPosition, WithdrawInit(i, burn) PROVE TypeOK'
  <2>1. PICK parked \in SUBSET weighted, cash \in BOOLEAN :
          wd' = [wd EXCEPT ![i] = [NoWithdrawal EXCEPT !.open = TRUE, !.burn = burn,
                     !.legs = weighted, !.completed = parked, !.funded = weighted \ parked,
                     !.cash = cash]]
    BY <1>2 DEF WithdrawInit
  <2>2. weighted \in SUBSET Mint /\ burn \in 0..MaxPosition
    BY <1>0, WithdrawAssumption DEF VaultTypeOK
  <2>3. wd' \in [Investor -> WithdrawSession]
    BY <2>1, <2>2, BlankTyped DEF TypeOK, WithdrawSession
  <2>4. shares[i] \in Nat /\ burn \in 1..shares[i] /\ shares[i] - burn \in Nat
    BY <1>2 DEF WithdrawInit, TypeOK
  <2>5. shares' \in [Investor -> Nat]
    BY <1>2, <2>4 DEF WithdrawInit, TypeOK
  <2>6. QED
    BY <1>1, <1>2, <2>3, <2>5 DEF WithdrawInit, TypeOK
<1>3. ASSUME NEW B \in SUBSET Mint, WithdrawSwapBatch(i, B) PROVE TypeOK'
  <2>1. PICK unsold \in SUBSET B :
          wd' = [wd EXCEPT ![i].completed = @ \cup B, ![i].funded = @ \ (B \ unsold),
                           ![i].sold = TRUE, ![i].cash = TRUE, ![i].proceeds = TRUE]
    BY <1>3 DEF WithdrawSwapBatch
  <2>2. wd' \in [Investor -> WithdrawSession]
    BY <1>0, <2>1 DEF TypeOK, WithdrawSession
  <2>3. QED
    BY <1>1, <1>3, <2>2 DEF WithdrawSwapBatch, TypeOK
<1>4. ASSUME NEW B \in SUBSET Mint, NEW who, WithdrawUnwind(i, B, who) PROVE TypeOK'
  <2>1. wd' \in [Investor -> WithdrawSession]
    BY <1>0, <1>4 DEF WithdrawUnwind, TypeOK, WithdrawSession
  <2>2. burned' \in Nat
    BY <1>0, <1>4 DEF WithdrawUnwind, Reserve, TypeOK
  <2>3. VaultTypeOK'
    BY <1>0, <1>4, LandedTyped DEF WithdrawUnwind, Sweeps
  <2>4. QED
    BY <1>4, <2>1, <2>2, <2>3 DEF WithdrawUnwind, Sweeps, TypeOK, LifecycleTypeOK
<1>5. ASSUME NEW B \in SUBSET Mint, WithdrawClose(i, B) PROVE TypeOK'
  <2>1. wd' \in [Investor -> WithdrawSession]
    BY <1>0, <1>5 DEF WithdrawClose, TypeOK, WithdrawSession
  <2>2. VaultTypeOK'
    BY <1>0, <1>5, LandedTyped DEF WithdrawClose, Sweeps
  <2>3. QED
    BY <1>5, <2>1, <2>2 DEF WithdrawClose, Sweeps, TypeOK, LifecycleTypeOK
<1>6. ASSUME NEW B \in SUBSET Mint, NEW who, WithdrawClaim(i, B, who) PROVE TypeOK'
  <2>1. wd' \in [Investor -> WithdrawSession]
    BY <1>0, <1>6 DEF WithdrawClaim, TypeOK, WithdrawSession
  <2>2. QED
    BY <1>1, <1>6, <2>1 DEF WithdrawClaim, TypeOK
<1>7. ASSUME NEW who, WithdrawSettle(i, who) PROVE TypeOK'
  BY <1>1, <1>7, BlankTyped DEF WithdrawSettle, TypeOK
<1>8. ASSUME NEW who, WithdrawAbort(i, who) PROVE TypeOK'
  <2>1. burned' \in Nat
    BY <1>0, <1>8, SaturatingSubIsNat DEF WithdrawAbort, Release, TypeOK
  <2>2. shares' \in [Investor -> Nat]
    BY <1>0, <1>8 DEF WithdrawAbort, TypeOK
  <2>3. wd' \in [Investor -> WithdrawSession]
    BY <1>8, BlankTyped DEF WithdrawAbort, TypeOK
  <2>4. QED
    BY <1>1, <1>8, <2>1, <2>2, <2>3 DEF WithdrawAbort, TypeOK
<1>9. QED
  BY <1>2, <1>3, <1>4, <1>5, <1>6, <1>7, <1>8 DEF WithdrawSteps

\* Deposits bring tokens and shares, and touch neither withdrawals nor the table.
LEMMA DepositsTyped ==
    ASSUME TypeOK, Deposits
    PROVE  TypeOK' /\ UNCHANGED <<wd, burned, table, weighted, rs>>
<1> USE DEF VaultTypeOK, envVars
<1>1. ASSUME NEW B \in SUBSET Mint, DepositLands(B), UNCHANGED withdrawVars
      PROVE  TypeOK' /\ UNCHANGED <<wd, burned, table, weighted>>
  BY <1>1 DEF DepositLands, Deposits, withdrawVars, TypeOK, LifecycleTypeOK
<1>2. ASSUME NEW i \in Investor, DepositMints(i)
      PROVE  TypeOK' /\ UNCHANGED <<wd, burned, table, weighted>>
  <2>1. PICK minted \in 0..(MaxPosition - shares[i] - wd[i].burn) :
          shares' = [shares EXCEPT ![i] = @ + minted]
    BY <1>2 DEF DepositMints
  <2>2. shares[i] \in Nat /\ wd[i].burn \in Nat
    BY WithdrawAssumption DEF TypeOK, WithdrawSession
  <2>3. minted \in Nat
    BY <2>1, <2>2, WithdrawAssumption
  <2>4. shares' \in [Investor -> Nat]
    BY <2>1, <2>2, <2>3 DEF TypeOK
  <2>5. QED
    BY <1>2, <2>4 DEF DepositMints, Deposits, TypeOK, LifecycleTypeOK
<1>3. QED
  BY <1>1, <1>2 DEF Deposits

\* Every step of the system keeps it well typed.
LEMMA ExitNextTyped ==
    ASSUME TypeOK, [Next]_vars
    PROVE  TypeOK'
<1>1. CASE OthersAct
  BY <1>1, AdminTyped, RestructureTyped, IssuersTyped DEF OthersAct, withdrawVars, TypeOK
<1>2. CASE Withdrawals
  BY <1>2, WithdrawTyped DEF Withdrawals
<1>3. CASE Tick
  <2>1. rs' \in RestructureSession
    BY <1>3, OlderIsAge DEF Tick, TypeOK, LifecycleTypeOK, RestructureSession
  <2>2. \A i \in Investor : [wd[i] EXCEPT !.age = Older(@)] \in WithdrawSession
    BY OlderIsAge DEF TypeOK, WithdrawSession
  <2>3. wd' \in [Investor -> WithdrawSession]
    BY <1>3, <2>2 DEF Tick, TypeOK
  <2>4. QED
    BY <1>3, <2>1, <2>3
    DEF Tick, vaultVars, envVars, TypeOK, LifecycleTypeOK, VaultTypeOK
<1>4. CASE UNCHANGED vars
  BY <1>4 DEF vars, vaultVars, envVars, withdrawVars, TypeOK, LifecycleTypeOK, VaultTypeOK
<1>5. CASE Deposits
  BY <1>5, DepositsTyped
<1>6. QED
  BY <1>1, <1>2, <1>3, <1>4, <1>5 DEF Next

\* Type correctness for every choice of the constants.
THEOREM ExitTypeCorrect == Spec => []TypeOK
  BY ExitInitTyped, ExitNextTyped, PTL DEF Spec

-----------------------------------------------------------------------------
(* Sessions *)

\* No step makes a mint weightless: new weights are all positive.
LEMMA NoNewWeightless ==
    ASSUME TypeOK, OthersAct
    PROVE  table' \ weighted' \subseteq table \ weighted
<1> USE DEF vaultVars
<1>1. CASE VaultAdmin
  BY <1>1 DEF VaultAdmin, SetProtocolPaused, PauseVault, UnpauseVault, CloseVault,
              FinalizeClose, Rebalance, RebalanceSwap, SweepToUsdc
<1>2. CASE RestructureSteps
  BY <1>2 DEF RestructureSteps, RestructureInit, RestructureSwapBatch, RestructureAbort,
              CloseStranded, AdminClearStranded, RescueUntracked
<1>3. CASE RestructureSettle
  BY <1>3 DEF RestructureSettle
<1>4. CASE Issuers
  BY <1>4 DEF Issuers, IssuerSets
<1>5. QED
  BY <1>1, <1>2, <1>3, <1>4 DEF OthersAct

\* A blank session is sound.
LEMMA BlankSound == SessionSound(NoWithdrawal)
  BY DEF SessionSound, NoWithdrawal, Extracted

\* A withdrawal instruction touches one session, and leaves table and weights alone.
LEMMA OneSessionSound ==
    ASSUME TypeOK, Sound, NEW i \in Investor, NEW v, SessionSound(v),
           wd' = [wd EXCEPT ![i] = v], UNCHANGED <<table, weighted>>
    PROVE  Sound'
<1>1. SUFFICES ASSUME NEW j \in Investor PROVE SessionSound(wd[j])'
  BY DEF Sound
<1>2. wd'[j] = IF j = i THEN v ELSE wd[j]
  BY DEF TypeOK
<1>3. SessionSound(wd'[j])
  BY <1>2 DEF Sound
<1>4. QED
  BY <1>3 DEF SessionSound, Extracted

\* Every withdrawal instruction keeps the sessions sound.  An unwinding sweep demands a
\* session that sold nothing or is already unwinding, and so extracted nothing.
LEMMA WithdrawKeepsSound ==
    ASSUME TypeOK, Sound, NEW i \in Investor, WithdrawSteps(i)
    PROVE  Sound'
<1> DEFINE w == wd[i]
<1> USE DEF SessionSound, Extracted
<1>0. w \in WithdrawSession /\ SessionSound(w)
  BY DEF TypeOK, Sound
<1>1. ASSUME NEW burn \in 1..MaxPosition, WithdrawInit(i, burn) PROVE Sound'
  <2>1. PICK parked \in SUBSET weighted, cash \in BOOLEAN :
          wd' = [wd EXCEPT ![i] = [NoWithdrawal EXCEPT !.open = TRUE, !.burn = burn,
                     !.legs = weighted, !.completed = parked, !.funded = weighted \ parked,
                     !.cash = cash]]
    BY <1>1 DEF WithdrawInit
  <2> DEFINE v == [NoWithdrawal EXCEPT !.open = TRUE, !.burn = burn,
                     !.legs = weighted, !.completed = parked, !.funded = weighted \ parked,
                     !.cash = cash]
  <2>2. SessionSound(v)
    BY DEF NoWithdrawal
  <2>3. wd' = [wd EXCEPT ![i] = v]
    BY <2>1
  <2> HIDE DEF v, SessionSound
  <2>4. QED
    BY <1>1, <2>2, <2>3, OneSessionSound DEF WithdrawInit, vaultVars
<1>2. ASSUME NEW B \in SUBSET Mint, WithdrawSwapBatch(i, B) PROVE Sound'
  <2>1. PICK unsold \in SUBSET B :
          /\ wd' = [wd EXCEPT ![i].completed = @ \cup B, ![i].funded = @ \ (B \ unsold),
                              ![i].sold = TRUE, ![i].cash = TRUE, ![i].proceeds = TRUE]
          /\ TRUE \notin Leftovers => unsold = {}
    BY <1>2 DEF WithdrawSwapBatch
  <2> DEFINE v == [w EXCEPT !.completed = @ \cup B, !.funded = @ \ (B \ unsold),
                            !.sold = TRUE, !.cash = TRUE, !.proceeds = TRUE]
  <2>2. SessionSound(v)
    BY <1>0, <1>2, <2>1 DEF WithdrawSwapBatch, WithdrawSession
  <2>3. wd' = [wd EXCEPT ![i] = v]
    BY <2>1 DEF TypeOK
  <2> HIDE DEF v, SessionSound
  <2>4. QED
    BY <1>2, <2>2, <2>3, OneSessionSound DEF WithdrawSwapBatch, vaultVars
<1>3. ASSUME NEW B \in SUBSET Mint, NEW who, WithdrawUnwind(i, B, who) PROVE Sound'
  <2> DEFINE v == [w EXCEPT !.swept = @ \cup B, !.funded = @ \ B, !.aborting = TRUE]
  <2>1. ~Extracted(w)
    BY <1>0, <1>3 DEF WithdrawUnwind, Sweeps
  <2>2. SessionSound(v)
    BY <1>0, <2>1 DEF WithdrawSession
  <2>3. wd' = [wd EXCEPT ![i] = v]
    BY <1>3 DEF WithdrawUnwind, TypeOK
  <2> HIDE DEF v, SessionSound
  <2>4. QED
    BY <1>3, <2>2, <2>3, OneSessionSound DEF WithdrawUnwind, Sweeps
<1>4. ASSUME NEW B \in SUBSET Mint, WithdrawClose(i, B) PROVE Sound'
  <2> DEFINE v == [w EXCEPT !.swept = @ \cup B, !.funded = @ \ B]
  <2>1. SessionSound(v)
    BY <1>0 DEF WithdrawSession
  <2>2. wd' = [wd EXCEPT ![i] = v]
    BY <1>4 DEF WithdrawClose, TypeOK
  <2> HIDE DEF v, SessionSound
  <2>3. QED
    BY <1>4, <2>1, <2>2, OneSessionSound DEF WithdrawClose, Sweeps
<1>5. ASSUME NEW B \in SUBSET Mint, NEW who, WithdrawClaim(i, B, who) PROVE Sound'
  <2> DEFINE v == [w EXCEPT !.completed = @ \cup B, !.swept = @ \cup B, !.funded = @ \ B,
                            !.in_kind = @ \cup B, !.sold = TRUE]
  <2>1. SessionSound(v)
    BY <1>0, <1>5 DEF WithdrawClaim, WithdrawSession
  <2>2. wd' = [wd EXCEPT ![i] = v]
    BY <1>5 DEF WithdrawClaim, TypeOK
  <2> HIDE DEF v, SessionSound
  <2>3. QED
    BY <1>5, <2>1, <2>2, OneSessionSound DEF WithdrawClaim, vaultVars
<1>6. ASSUME NEW who, WithdrawSettle(i, who) \/ WithdrawAbort(i, who) PROVE Sound'
  <2> HIDE DEF SessionSound
  <2>1. QED
    BY <1>6, BlankSound, OneSessionSound DEF WithdrawSettle, WithdrawAbort, vaultVars
<1>7. QED
  BY <1>1, <1>2, <1>3, <1>4, <1>5, <1>6 DEF WithdrawSteps

\* No step of the system makes a session unsound.
LEMMA NextKeepsSound ==
    ASSUME TypeOK, Sound, [Next]_vars
    PROVE  Sound'
<1>1. CASE OthersAct
  BY <1>1, NoNewWeightless DEF OthersAct, withdrawVars, Sound, SessionSound, Extracted
<1>2. CASE Withdrawals
  BY <1>2, WithdrawKeepsSound DEF Withdrawals
<1>3. CASE Tick
  <2>1. UNCHANGED <<table, weighted>>
    BY <1>3 DEF Tick, vaultVars
  <2>2. \A j \in Investor : wd'[j] = IF wd[j].open THEN [wd[j] EXCEPT !.age = Older(@)] ELSE wd[j]
    BY <1>3 DEF Tick
  <2>3. \A j \in Investor : wd[j] \in WithdrawSession
    BY DEF TypeOK
  <2>4. SUFFICES ASSUME NEW j \in Investor PROVE SessionSound(wd[j])'
    BY DEF Sound
  <2>5. CASE wd[j].open
    <3>1. wd'[j] = [wd[j] EXCEPT !.age = Older(@)]
      BY <2>2, <2>5
    <3>2. SessionSound([wd[j] EXCEPT !.age = Older(@)])
      BY <2>3 DEF Sound, SessionSound, Extracted, WithdrawSession
    <3>3. QED
      BY <2>1, <3>1, <3>2 DEF SessionSound, Extracted
  <2>6. CASE ~wd[j].open
    BY <2>1, <2>2, <2>6 DEF Sound, SessionSound, Extracted
  <2>7. QED
    BY <2>5, <2>6
<1>4. CASE UNCHANGED vars
  BY <1>4 DEF vars, vaultVars, withdrawVars, Sound, SessionSound, Extracted
<1>5. CASE Deposits
  BY <1>5, DepositsTyped DEF Sound, SessionSound, Extracted
<1>6. QED
  BY <1>1, <1>2, <1>3, <1>4, <1>5 DEF Next

\* Types and sound sessions hold together in every reachable state.
LEMMA ExitInductive == Spec => [](TypeOK /\ Sound)
<1>1. Init => TypeOK /\ Sound
  BY ExitInitTyped, BlankSound DEF Init, WithdrawalsInit, Sound
<1>2. TypeOK /\ Sound /\ [Next]_vars => (TypeOK /\ Sound)'
  BY ExitNextTyped, NextKeepsSound
<1>3. QED
  BY <1>1, <1>2, PTL DEF Spec

\* Whoever took value out, in USDC or in kind, never gets the shares back as well.
THEOREM ExtractionIsFinal == Spec => []ExtractedNeverUnwinds
<1>1. Sound => ExtractedNeverUnwinds
  BY DEF Sound, SessionSound, Extracted, ExtractedNeverUnwinds
<1>2. QED
  BY <1>1, ExitInductive, PTL

-----------------------------------------------------------------------------
(* The withdrawals implement ExitChoice *)

Staked == [i \in Investor |-> wd[i].burn]
Phases == [i \in Investor |-> Phase(wd[i])]

\* What a step on one session looks like in ExitChoice.
LEMMA OneSessionSeen ==
    ASSUME TypeOK, NEW i \in Investor, NEW v, wd' = [wd EXCEPT ![i] = v]
    PROVE  /\ Staked' = [Staked EXCEPT ![i] = v.burn]
           /\ Phases' = [Phases EXCEPT ![i] = Phase(v)]
           /\ v.burn = wd[i].burn => UNCHANGED Staked
           /\ Phase(v) = Phase(wd[i]) => UNCHANGED Phases
<1>1. \A j \in Investor : wd'[j] = IF j = i THEN v ELSE wd[j]
  BY DEF TypeOK
<1>2. Staked' = [j \in Investor |-> IF j = i THEN v.burn ELSE wd[j].burn]
  <2>1. Staked' = [j \in Investor |-> wd'[j].burn]
    BY DEF Staked
  <2>2. \A j \in Investor : wd'[j].burn = IF j = i THEN v.burn ELSE wd[j].burn
    BY <1>1
  <2>3. QED
    BY <2>1, <2>2
<1>3. Phases' = [j \in Investor |-> IF j = i THEN Phase(v) ELSE Phase(wd[j])]
  BY <1>1 DEF Phases, Phase
<1>4. QED
  BY <1>2, <1>3 DEF Staked, Phases

\* A session whose shares and phase stay as they are does not move in ExitChoice.
LEMMA SamePhaseStutters ==
    ASSUME TypeOK, NEW i \in Investor, NEW v, wd' = [wd EXCEPT ![i] = v],
           v.burn = wd[i].burn, Phase(v) = Phase(wd[i])
    PROVE  UNCHANGED <<Staked, Phases>>
  BY OneSessionSeen

\* Every withdrawal instruction is a step of ExitChoice, or none.
LEMMA WithdrawIsChoice ==
    ASSUME TypeOK, Sound, NEW i \in Investor, WithdrawSteps(i)
    PROVE  Choice!ChoiceNext \/ UNCHANGED <<shares, Staked, Phases>>
<1> DEFINE w == wd[i]
<1> USE DEF Extracted
<1>0. /\ w \in WithdrawSession
      /\ Extracted(w) => w.sold /\ ~w.aborting
      /\ Staked[i] = w.burn /\ Phases[i] = Phase(w)
  BY DEF TypeOK, Sound, SessionSound, Staked, Phases
<1>a. ASSUME NEW n \in 1..shares[i], Phases[i] = "idle",
             Staked' = [Staked EXCEPT ![i] = n], shares' = [shares EXCEPT ![i] = @ - n],
             Phases' = [Phases EXCEPT ![i] = "undecided"]
      PROVE  Choice!ChoiceNext
  BY <1>a DEF Choice!ChoiceNext, Choice!Begin, Staked, Phases
<1>b. ASSUME Phases[i] = "undecided", UNCHANGED <<shares, Staked>>,
             \E p \in {"paying", "returning"} : Phases' = [Phases EXCEPT ![i] = p]
      PROVE  Choice!ChoiceNext
  BY <1>b DEF Choice!ChoiceNext, Choice!Pay, Choice!Return, Staked, Phases
<1>c. ASSUME Phases' = [Phases EXCEPT ![i] = "idle"], Staked' = [Staked EXCEPT ![i] = 0],
             \/ Phases[i] \in {"undecided", "paying"} /\ UNCHANGED shares
             \/ /\ Phases[i] \in {"undecided", "returning"}
                /\ shares' = [shares EXCEPT ![i] = @ + Staked[i]]
      PROVE  Choice!ChoiceNext
  BY <1>c DEF Choice!ChoiceNext, Choice!Finish, Choice!Restore, Staked, Phases
<1>1. ASSUME NEW burn \in 1..MaxPosition, WithdrawInit(i, burn) PROVE Choice!ChoiceNext
  <2>1. PICK parked \in SUBSET weighted, cash \in BOOLEAN :
          wd' = [wd EXCEPT ![i] = [NoWithdrawal EXCEPT !.open = TRUE, !.burn = burn,
                     !.legs = weighted, !.completed = parked, !.funded = weighted \ parked,
                     !.cash = cash]]
    BY <1>1 DEF WithdrawInit
  <2> DEFINE v == [NoWithdrawal EXCEPT !.open = TRUE, !.burn = burn,
                     !.legs = weighted, !.completed = parked, !.funded = weighted \ parked,
                     !.cash = cash]
  <2>2. v.burn = burn /\ Phase(v) = "undecided"
    BY DEF NoWithdrawal, Phase
  <2>3. wd' = [wd EXCEPT ![i] = v]
    BY <2>1
  <2>4. Phase(w) = "idle" /\ burn \in 1..shares[i] /\ shares' = [shares EXCEPT ![i] = @ - burn]
    BY <1>1 DEF WithdrawInit, Phase
  <2> HIDE DEF v
  <2>5. /\ Staked' = [Staked EXCEPT ![i] = burn]
        /\ Phases' = [Phases EXCEPT ![i] = "undecided"]
    BY <2>2, <2>3, OneSessionSeen
  <2>6. QED
    BY <1>0, <1>a, <2>4, <2>5
<1>2. ASSUME NEW B \in SUBSET Mint, WithdrawSwapBatch(i, B)
      PROVE  Choice!ChoiceNext \/ UNCHANGED <<shares, Staked, Phases>>
  <2>1. PICK unsold \in SUBSET B :
          wd' = [wd EXCEPT ![i].completed = @ \cup B, ![i].funded = @ \ (B \ unsold),
                           ![i].sold = TRUE, ![i].cash = TRUE, ![i].proceeds = TRUE]
    BY <1>2 DEF WithdrawSwapBatch
  <2> DEFINE v == [w EXCEPT !.completed = @ \cup B, !.funded = @ \ (B \ unsold),
                            !.sold = TRUE, !.cash = TRUE, !.proceeds = TRUE]
  <2>2. /\ v.burn = w.burn /\ Phase(v) = "paying" /\ Phase(w) \in {"undecided", "paying"}
        /\ UNCHANGED shares
    BY <1>0, <1>2 DEF WithdrawSwapBatch, WithdrawSession, Phase
  <2>3. wd' = [wd EXCEPT ![i] = v]
    BY <2>1 DEF TypeOK
  <2> HIDE DEF v
  <2>4. CASE Phase(w) = "paying"
    BY <2>2, <2>3, <2>4, SamePhaseStutters
  <2>5. CASE Phase(w) = "undecided"
    <3>1. UNCHANGED Staked
      BY <2>2, <2>3, OneSessionSeen
    <3>2. Phases' = [Phases EXCEPT ![i] = Phase(v)]
      BY <2>3, OneSessionSeen
    <3>3. QED
      BY <1>0, <1>b, <3>2, <2>2, <2>5, <3>1
  <2>6. QED
    BY <2>2, <2>4, <2>5
<1>3. ASSUME NEW B \in SUBSET Mint, NEW who, WithdrawUnwind(i, B, who)
      PROVE  Choice!ChoiceNext \/ UNCHANGED <<shares, Staked, Phases>>
  <2> DEFINE v == [w EXCEPT !.swept = @ \cup B, !.funded = @ \ B, !.aborting = TRUE]
  <2>1. ~Extracted(w) /\ w.open /\ UNCHANGED shares
    BY <1>0, <1>3 DEF WithdrawUnwind, Sweeps
  <2>2. /\ v.burn = w.burn /\ Phase(v) = "returning" /\ Phase(w) \in {"undecided", "returning"}
    BY <1>0, <2>1 DEF WithdrawSession, Phase
  <2>3. wd' = [wd EXCEPT ![i] = v]
    BY <1>3 DEF WithdrawUnwind, TypeOK
  <2> HIDE DEF v
  <2>4. CASE Phase(w) = "returning"
    BY <2>1, <2>2, <2>3, <2>4, SamePhaseStutters
  <2>5. CASE Phase(w) = "undecided"
    <3>1. UNCHANGED Staked
      BY <2>2, <2>3, OneSessionSeen
    <3>2. Phases' = [Phases EXCEPT ![i] = Phase(v)]
      BY <2>3, OneSessionSeen
    <3>3. QED
      BY <1>0, <1>b, <3>2, <2>1, <2>2, <2>5, <3>1
  <2>6. QED
    BY <2>2, <2>4, <2>5
<1>4. ASSUME NEW B \in SUBSET Mint, WithdrawClose(i, B)
      PROVE  UNCHANGED <<shares, Staked, Phases>>
  <2> DEFINE v == [w EXCEPT !.swept = @ \cup B, !.funded = @ \ B]
  <2>1. v.burn = w.burn /\ Phase(v) = Phase(w) /\ UNCHANGED shares
    BY <1>0, <1>4 DEF WithdrawClose, Sweeps, WithdrawSession, Phase
  <2>2. wd' = [wd EXCEPT ![i] = v]
    BY <1>4 DEF WithdrawClose, TypeOK
  <2> HIDE DEF v
  <2>3. QED
    BY <2>1, <2>2, SamePhaseStutters
<1>5. ASSUME NEW B \in SUBSET Mint, NEW who, WithdrawClaim(i, B, who)
      PROVE  Choice!ChoiceNext \/ UNCHANGED <<shares, Staked, Phases>>
  <2> DEFINE v == [w EXCEPT !.completed = @ \cup B, !.swept = @ \cup B, !.funded = @ \ B,
                            !.in_kind = @ \cup B, !.sold = TRUE]
  <2>1. B # {}
    BY <1>5, BatchNotEmpty DEF WithdrawClaim
  <2>2. /\ v.burn = w.burn /\ Phase(v) = "paying" /\ Phase(w) \in {"undecided", "paying"}
        /\ UNCHANGED shares
    BY <1>0, <1>5, <2>1 DEF WithdrawClaim, WithdrawSession, Phase
  <2>3. wd' = [wd EXCEPT ![i] = v]
    BY <1>5 DEF WithdrawClaim, TypeOK
  <2> HIDE DEF v
  <2>4. CASE Phase(w) = "paying"
    BY <2>2, <2>3, <2>4, SamePhaseStutters
  <2>5. CASE Phase(w) = "undecided"
    <3>1. UNCHANGED Staked
      BY <2>2, <2>3, OneSessionSeen
    <3>2. Phases' = [Phases EXCEPT ![i] = Phase(v)]
      BY <2>3, OneSessionSeen
    <3>3. QED
      BY <1>0, <1>b, <3>2, <2>2, <2>5, <3>1
  <2>6. QED
    BY <2>2, <2>4, <2>5
<1>6. ASSUME wd' = [wd EXCEPT ![i] = NoWithdrawal]
      PROVE  Staked' = [Staked EXCEPT ![i] = 0] /\ Phases' = [Phases EXCEPT ![i] = "idle"]
  <2>1. NoWithdrawal.burn = 0 /\ Phase(NoWithdrawal) = "idle"
    BY DEF NoWithdrawal, Phase
  <2>2. QED
    BY <1>6, <2>1, OneSessionSeen
<1>7. ASSUME NEW who, WithdrawSettle(i, who) PROVE Choice!ChoiceNext
  <2>1. Phases[i] \in {"undecided", "paying"} /\ UNCHANGED shares
    BY <1>0, <1>7 DEF WithdrawSettle, Phase
  <2>2. QED
    BY <1>6, <1>7, <1>c, <2>1 DEF WithdrawSettle
<1>8. ASSUME NEW who, WithdrawAbort(i, who) PROVE Choice!ChoiceNext
  <2>1. Phases[i] \in {"undecided", "returning"}
    BY <1>0, <1>8 DEF WithdrawAbort, MayRestore, Phase
  <2>2. shares' = [shares EXCEPT ![i] = @ + Staked[i]]
    BY <1>0, <1>8 DEF WithdrawAbort
  <2>3. QED
    BY <1>6, <1>8, <1>c, <2>1, <2>2 DEF WithdrawAbort
<1>9. QED
  BY <1>1, <1>2, <1>3, <1>4, <1>5, <1>7, <1>8 DEF WithdrawSteps

\* What a deposit mints is earned, and what it lands is not seen.
LEMMA DepositIsChoice ==
    ASSUME TypeOK, Deposits
    PROVE  Choice!ChoiceNext \/ UNCHANGED <<shares, Staked, Phases>>
<1>1. UNCHANGED <<Staked, Phases>>
  BY DepositsTyped DEF Staked, Phases
<1>2. ASSUME NEW i \in Investor, DepositMints(i)
      PROVE  Choice!ChoiceNext \/ UNCHANGED shares
  <2>1. PICK minted \in 0..(MaxPosition - shares[i] - wd[i].burn) :
          shares' = [shares EXCEPT ![i] = @ + minted]
    BY <1>2 DEF DepositMints
  <2>2. shares \in [Investor -> Nat] /\ shares[i] \in Nat /\ wd[i].burn \in Nat
    BY WithdrawAssumption DEF TypeOK, WithdrawSession
  <2>3. minted \in Nat
    BY <2>1, <2>2, WithdrawAssumption
  <2>4. CASE minted = 0
    BY <2>1, <2>2, <2>4
  <2>5. CASE minted > 0
    <3>1. shares' \in [Investor -> Nat] /\ shares'[i] > shares[i]
      BY <2>1, <2>2, <2>3, <2>5
    <3>2. \A j \in Investor \ {i} : shares'[j] = shares[j]
      BY <2>1, <2>2
    <3>3. QED
      BY <1>1, <3>1, <3>2 DEF Choice!ChoiceNext, Choice!Earn, Staked, Phases
  <2>6. QED
    BY <2>3, <2>4, <2>5
<1>3. QED
  BY <1>1, <1>2 DEF Deposits, withdrawVars

\* Every step of the system is a step of ExitChoice, or none.
LEMMA NextIsChoice ==
    ASSUME TypeOK, Sound, [Next]_vars
    PROVE  Choice!ChoiceNext \/ UNCHANGED <<shares, Staked, Phases>>
<1>1. CASE OthersAct \/ UNCHANGED vars
  BY <1>1 DEF OthersAct, vars, withdrawVars, Staked, Phases
<1>2. CASE Withdrawals
  BY <1>2, WithdrawIsChoice DEF Withdrawals
<1>3. CASE Tick
  <2>1. ASSUME NEW j \in Investor PROVE wd'[j].burn = wd[j].burn /\ Phase(wd[j])' = Phase(wd[j])
    <3>1. wd'[j] = IF wd[j].open THEN [wd[j] EXCEPT !.age = Older(@)] ELSE wd[j]
      BY <1>3 DEF Tick
    <3>2. wd[j] \in WithdrawSession
      BY DEF TypeOK
    <3>3. QED
      BY <3>1, <3>2 DEF WithdrawSession, Phase
  <2>2. QED
    BY <1>3, <2>1 DEF Tick, Staked, Phases
<1>4. CASE Deposits
  BY <1>4, DepositIsChoice
<1>5. QED
  BY <1>1, <1>2, <1>3, <1>4 DEF Next

\* For any number of investors, no interleaving of withdrawals, basket changes, pauses and
\* the closing of the vault makes a session both pay its investor and give the shares back.
THEOREM ExitChoiceKept == Spec => IsExitChoice
<1>1. Init => Choice!ChoiceInit
  BY DEF Init, WithdrawalsInit, Choice!ChoiceInit, Phase, NoWithdrawal
<1>2. TypeOK /\ Sound /\ [Next]_vars => [Choice!ChoiceNext]_(Choice!choiceVars)
  BY NextIsChoice DEF Choice!choiceVars, Staked, Phases
<1>3. QED
  BY <1>1, <1>2, ExitInductive, PTL DEF Spec, IsExitChoice, Choice!ChoiceSpec

-----------------------------------------------------------------------------
(* No escrow is forgotten *)

\* A session ends only with its escrows empty, whichever way it ends.
THEOREM NothingLeft == Spec => NothingLeftBehind
<1> DEFINE EscrowsDone ==
      \A i \in Investor : /\ wd[i].funded \cap wd[i].swept = {}
                          /\ wd[i].open /\ ~wd'[i].open => wd[i].funded = {}
<1>1. ASSUME TypeOK, Sound, Next PROVE EscrowsDone
  <2>1. SUFFICES ASSUME NEW i \in Investor, wd[i].open, ~wd'[i].open PROVE AllSwept(wd[i])
    BY <1>1 DEF Sound, SessionSound, AllSwept
  <2>2. ~OthersAct /\ ~Deposits
    BY <1>1, <2>1, DepositsTyped DEF OthersAct, withdrawVars
  <2>3. ~Tick
    BY <1>1, <2>1 DEF Tick, TypeOK, WithdrawSession
  <2>4. PICK j \in Investor : WithdrawSteps(j)
    BY <1>1, <2>2, <2>3 DEF Next, Withdrawals
  <2>5. wd[i] \in WithdrawSession /\ wd \in [Investor -> WithdrawSession]
    BY <1>1 DEF TypeOK
  <2>6. ~ \E burn \in 1..MaxPosition : WithdrawInit(j, burn)
    BY <2>1, <2>5 DEF WithdrawInit, NoWithdrawal
  <2>7. ~ \E B \in SUBSET Mint : WithdrawSwapBatch(j, B) \/ WithdrawClose(j, B)
    <3>1. ASSUME NEW B \in SUBSET Mint, WithdrawSwapBatch(j, B) PROVE FALSE
      BY <2>1, <2>5, <3>1 DEF WithdrawSwapBatch, WithdrawSession
    <3>2. ASSUME NEW B \in SUBSET Mint, WithdrawClose(j, B) PROVE FALSE
      BY <2>1, <2>5, <3>2 DEF WithdrawClose, WithdrawSession
    <3>3. QED
      BY <3>1, <3>2
  <2>8. ~ \E B \in SUBSET Mint, who \in {"investor", "crank"} :
             WithdrawUnwind(j, B, who) \/ WithdrawClaim(j, B, who)
    <3>1. ASSUME NEW B \in SUBSET Mint, NEW who, WithdrawUnwind(j, B, who) PROVE FALSE
      BY <2>1, <2>5, <3>1 DEF WithdrawUnwind, WithdrawSession
    <3>2. ASSUME NEW B \in SUBSET Mint, NEW who, WithdrawClaim(j, B, who) PROVE FALSE
      BY <2>1, <2>5, <3>2 DEF WithdrawClaim, WithdrawSession
    <3>3. QED
      BY <3>1, <3>2
  <2>9. PICK who \in {"investor", "crank"} : WithdrawSettle(j, who) \/ WithdrawAbort(j, who)
    BY <2>4, <2>6, <2>7, <2>8 DEF WithdrawSteps
  <2>10. AllSwept(wd[j]) /\ wd' = [wd EXCEPT ![j] = NoWithdrawal]
    BY <2>9 DEF WithdrawSettle, WithdrawAbort, MayRestore
  <2>11. QED
    BY <2>1, <2>5, <2>10
<1>2. TypeOK /\ Sound /\ [Next]_vars => [EscrowsDone]_vars
  BY <1>1
<1>3. QED
  BY <1>2, ExitInductive, PTL DEF Spec, NothingLeftBehind

-----------------------------------------------------------------------------
(* What the entry side sees of withdrawals *)

\* An instruction of a withdrawal leaves the vault alone or brings mints back to it.
LEMMA WithdrawOnlyReturns ==
    ASSUME TypeOK, Sound, NEW i \in Investor, WithdrawSteps(i)
    PROVE  \/ UNCHANGED vaultVars
           \/ \E R \in SUBSET Mint, turned \in BOOLEAN : WithdrawReturns(R, turned)
<1> DEFINE w == wd[i]
<1>0. /\ w \in WithdrawSession
      /\ w.funded \subseteq w.legs \ w.swept
      /\ w.funded \cap (table \ weighted) = {}
      /\ TRUE \notin Leftovers => w.funded \cap w.completed = {}
  BY DEF TypeOK, Sound, SessionSound
<1>1. ASSUME NEW B \in SUBSET Mint, NEW who, WithdrawUnwind(i, B, who)
      PROVE  WithdrawReturns(B \cap w.funded, TRUE)
  BY <1>0, <1>1 DEF WithdrawUnwind, Sweeps, WithdrawReturns
<1>2. ASSUME NEW B \in SUBSET Mint, WithdrawClose(i, B), TRUE \in Leftovers
      PROVE  WithdrawReturns(B \cap w.funded, FALSE)
  BY <1>0, <1>2 DEF WithdrawClose, Sweeps, WithdrawReturns
<1>3. ASSUME NEW B \in SUBSET Mint, WithdrawClose(i, B), TRUE \notin Leftovers
      PROVE  UNCHANGED vaultVars
  <2>1. w.funded = {}
    BY <1>0, <1>3 DEF WithdrawClose, AllTraded
  <2>2. held' = held /\ stranded' = stranded
    BY <1>3, <2>1 DEF WithdrawClose, Landed
  <2>3. QED
    BY <1>3, <2>2 DEF WithdrawClose, Sweeps, vaultVars, envVars
<1>4. ASSUME \/ \E burn \in 1..MaxPosition : WithdrawInit(i, burn)
             \/ \E B \in SUBSET Mint : WithdrawSwapBatch(i, B)
             \/ \E B \in SUBSET Mint, who \in {"investor", "crank"} : WithdrawClaim(i, B, who)
             \/ \E who \in {"investor", "crank"} : WithdrawSettle(i, who) \/ WithdrawAbort(i, who)
      PROVE  UNCHANGED vaultVars
  BY <1>4 DEF WithdrawInit, WithdrawSwapBatch, WithdrawClaim, WithdrawSettle, WithdrawAbort
<1> DEFINE Returns == \E R \in SUBSET Mint, turned \in BOOLEAN : WithdrawReturns(R, turned)
<1>5. ASSUME NEW B \in SUBSET Mint, NEW turned \in BOOLEAN,
             WithdrawReturns(B \cap w.funded, turned)
      PROVE  Returns
  <2>1. B \cap w.funded \in SUBSET Mint
    OBVIOUS
  <2>2. QED
    BY <1>5, <2>1
<1> HIDE DEF w, Returns
<1>6. ASSUME NEW B \in SUBSET Mint, NEW who, WithdrawUnwind(i, B, who) PROVE Returns
  BY <1>1, <1>5, <1>6
<1>7. ASSUME NEW B \in SUBSET Mint, WithdrawClose(i, B) PROVE UNCHANGED vaultVars \/ Returns
  BY <1>2, <1>3, <1>5, <1>7
<1>8. UNCHANGED vaultVars \/ Returns
  BY <1>4, <1>6, <1>7 DEF WithdrawSteps
<1>9. QED
  BY <1>8 DEF Returns

\* Whatever the program does to a withdrawal, the vault sees the returns that the entry
\* side reckons with and nothing else.
THEOREM ReturnsAssumed == Spec => ReturnsAsAssumed
<1> DEFINE AsAssumed ==
      wd' # wd /\ vaultVars' # vaultVars =>
        \E R \in SUBSET Mint, turned \in BOOLEAN : WithdrawReturns(R, turned)
<1>1. ASSUME TypeOK, Sound, Next PROVE AsAssumed
  BY <1>1, WithdrawOnlyReturns, DepositsTyped DEF Next, OthersAct, withdrawVars, Withdrawals, Tick
<1>2. TypeOK /\ Sound /\ [Next]_vars => [AsAssumed]_vars
  BY <1>1
<1>3. QED
  BY <1>2, ExitInductive, PTL DEF Spec, ReturnsAsAssumed

-----------------------------------------------------------------------------
(* The reservation of burned shares *)

\* What one session has reserved, and what all of them have.
Reserving(w) == IF w.open /\ w.aborting THEN w.burn ELSE 0
AllReserved == SumOver([i \in Investor |-> wd[i].burn], Aborting)
BurnedInv == IsFiniteSet(Aborting) /\ BurnedExact

\* A step on one session moves the sum by what that session reserves or gives up.
LEMMA OneReservation ==
    ASSUME TypeOK, IsFiniteSet(Aborting), NEW i \in Investor, NEW v \in WithdrawSession,
           wd' = [wd EXCEPT ![i] = v]
    PROVE  /\ IsFiniteSet(Aborting')
           /\ AllReserved \in Nat /\ AllReserved' \in Nat
           /\ Reserving(wd[i]) \in Nat /\ Reserving(wd[i]) <= AllReserved
           /\ AllReserved' + Reserving(wd[i]) = AllReserved + Reserving(v)
<1> DEFINE f == [j \in Investor |-> wd[j].burn]
           g == [j \in Investor |-> wd'[j].burn]
           R == Aborting \ {i}
<1>1. \A j \in Investor : wd'[j] = IF j = i THEN v ELSE wd[j]
  BY DEF TypeOK
<1>2. \A w \in WithdrawSession : w.burn \in Nat
  BY WithdrawAssumption DEF WithdrawSession
<1>3. \A j \in Investor : f[j] \in Nat /\ g[j] \in Nat
  BY <1>1, <1>2 DEF TypeOK
<1>4. \A j \in Investor \ {i} : f[j] = g[j]
  BY <1>1
<1>5. f[i] = wd[i].burn /\ g[i] = v.burn
  BY <1>1
<1>6. /\ Aborting \subseteq Investor /\ Aborting' \subseteq Investor
      /\ R \subseteq Investor \ {i} /\ R = Aborting' \ {i}
      /\ i \in Aborting <=> wd[i].open /\ wd[i].aborting
      /\ i \in Aborting' <=> v.open /\ v.aborting
  BY <1>1 DEF Aborting
<1>7. AllReserved = SumOver(f, Aborting) /\ AllReserved' = SumOver(g, Aborting')
  BY DEF AllReserved
<1>8. IsFiniteSet(R) /\ IsFiniteSet(Aborting')
  <2>1. IsFiniteSet(R)
    BY FS_Subset
  <2>2. Aborting' = R \/ Aborting' = R \cup {i}
    BY <1>6
  <2>3. QED
    BY <2>1, <2>2, FS_AddElement
<1> HIDE DEF f, g
<1>9. ASSUME NEW A, IsFiniteSet(A), A \subseteq Investor, NEW h, \A j \in Investor : h[j] \in Nat
      PROVE  SumOver(h, A) = (IF i \in A THEN h[i] ELSE 0) + SumOver(h, A \ {i})
  <2>1. CASE i \in A
    BY <1>9, <2>1, SumWithout
  <2>2. CASE i \notin A
    <3>1. A \ {i} = A
      BY <2>2
    <3>2. SumOver(h, A) \in Nat
      BY <1>9, SumIsNat
    <3>3. QED
      BY <2>2, <3>1, <3>2
  <2>3. QED
    BY <2>1, <2>2
<1>10. AllReserved = Reserving(wd[i]) + SumOver(f, R)
  BY <1>3, <1>5, <1>6, <1>7, <1>9 DEF Reserving
<1>11. AllReserved' = Reserving(v) + SumOver(g, R)
  BY <1>3, <1>5, <1>6, <1>7, <1>8, <1>9 DEF Reserving
<1>12. SumOver(f, R) = SumOver(g, R) /\ SumOver(f, R) \in Nat
  <2>1. \A j \in R : f[j] = g[j]
    BY <1>4, <1>6
  <2>2. \A j \in R : f[j] \in Nat
    BY <1>3, <1>6
  <2>3. QED
    BY <1>8, <2>1, <2>2, SumCongruent, SumIsNat
<1>13. Reserving(wd[i]) \in Nat /\ Reserving(v) \in Nat
  BY <1>2 DEF Reserving, TypeOK
<1> HIDE DEF R
<1>14. QED
  BY <1>8, <1>10, <1>11, <1>12, <1>13

\* Every withdrawal instruction moves the counter by what its session reserves.
LEMMA WithdrawKeepsBurned ==
    ASSUME TypeOK, TypeOK', BurnedInv, NEW i \in Investor, WithdrawSteps(i)
    PROVE  BurnedInv'
<1> DEFINE w == wd[i]
<1>0. /\ w \in WithdrawSession /\ wd \in [Investor -> WithdrawSession] /\ burned \in Nat
      /\ IsFiniteSet(Aborting) /\ burned = AllReserved
      /\ NoWithdrawal \in WithdrawSession
  BY BlankTyped DEF TypeOK, BurnedInv, BurnedExact, AllReserved
<1>a. ASSUME NEW v \in WithdrawSession, wd' = [wd EXCEPT ![i] = v],
             Reserving(v) = Reserving(w), burned' = burned
      PROVE  BurnedInv'
  <2>1. /\ IsFiniteSet(Aborting') /\ AllReserved \in Nat /\ AllReserved' \in Nat
        /\ Reserving(w) \in Nat
        /\ AllReserved' + Reserving(w) = AllReserved + Reserving(w)
    BY <1>0, <1>a, OneReservation
  <2>2. AllReserved' = AllReserved
    BY <2>1
  <2>3. QED
    BY <1>0, <1>a, <2>1, <2>2 DEF BurnedInv, BurnedExact, AllReserved
<1>1. ASSUME NEW burn \in 1..MaxPosition, WithdrawInit(i, burn) PROVE BurnedInv'
  <2>1. PICK parked \in SUBSET weighted, cash \in BOOLEAN :
          wd' = [wd EXCEPT ![i] = [NoWithdrawal EXCEPT !.open = TRUE, !.burn = burn,
                     !.legs = weighted, !.completed = parked, !.funded = weighted \ parked,
                     !.cash = cash]]
    BY <1>1 DEF WithdrawInit
  <2> DEFINE v == [NoWithdrawal EXCEPT !.open = TRUE, !.burn = burn,
                     !.legs = weighted, !.completed = parked, !.funded = weighted \ parked,
                     !.cash = cash]
  <2>2. wd' = [wd EXCEPT ![i] = v]
    BY <2>1
  <2>3. Reserving(v) = 0
    BY DEF NoWithdrawal, Reserving
  <2> HIDE DEF v
  <2>4. v \in WithdrawSession
    <3>1. wd'[i] = v
      BY <1>0, <2>2
    <3>2. QED
      BY <3>1 DEF TypeOK
  <2>5. Reserving(w) = 0 /\ burned' = burned
    BY <1>1 DEF WithdrawInit, Reserving
  <2>6. QED
    BY <1>a, <2>2, <2>3, <2>4, <2>5
<1>2. ASSUME NEW B \in SUBSET Mint, WithdrawSwapBatch(i, B) PROVE BurnedInv'
  <2>1. PICK unsold \in SUBSET B :
          wd' = [wd EXCEPT ![i].completed = @ \cup B, ![i].funded = @ \ (B \ unsold),
                           ![i].sold = TRUE, ![i].cash = TRUE, ![i].proceeds = TRUE]
    BY <1>2 DEF WithdrawSwapBatch
  <2> DEFINE v == [w EXCEPT !.completed = @ \cup B, !.funded = @ \ (B \ unsold),
                            !.sold = TRUE, !.cash = TRUE, !.proceeds = TRUE]
  <2>2. v \in WithdrawSession /\ Reserving(v) = Reserving(w)
    BY <1>0, <2>1, <1>2 DEF WithdrawSession, WithdrawSwapBatch, Reserving
  <2>3. wd' = [wd EXCEPT ![i] = v]
    BY <1>0, <2>1
  <2> HIDE DEF v
  <2>4. QED
    BY <1>a, <1>2, <2>2, <2>3 DEF WithdrawSwapBatch
<1>3. ASSUME NEW B \in SUBSET Mint, NEW who, WithdrawUnwind(i, B, who) PROVE BurnedInv'
  <2> DEFINE v == [w EXCEPT !.swept = @ \cup B, !.funded = @ \ B, !.aborting = TRUE]
  <2>1. wd' = [wd EXCEPT ![i] = v] /\ w.open /\ burned' = burned + Reserve(w)
    BY <1>0, <1>3 DEF WithdrawUnwind, Sweeps
  <2>2. v \in WithdrawSession /\ v.open = w.open /\ v.aborting /\ v.burn = w.burn
    BY <1>0 DEF WithdrawSession
  <2> HIDE DEF v
  <2>3. /\ w.burn \in Nat /\ Reserving(v) = w.burn
        /\ Reserving(w) = IF w.aborting THEN w.burn ELSE 0
        /\ Reserve(w) = IF w.aborting THEN 0 ELSE w.burn
    BY <1>0, <2>1, <2>2, WithdrawAssumption DEF Reserving, Reserve, WithdrawSession
  <2>4. /\ IsFiniteSet(Aborting') /\ AllReserved' \in Nat
        /\ AllReserved' + Reserving(w) = AllReserved + Reserving(v)
    BY <1>0, <2>1, <2>2, OneReservation
  <2>5. burned' = AllReserved'
    <3>1. CASE w.aborting
      BY <1>0, <2>1, <2>3, <2>4, <3>1
    <3>2. CASE ~w.aborting
      BY <1>0, <2>1, <2>3, <2>4, <3>2
    <3>3. QED
      BY <3>1, <3>2
  <2>6. QED
    BY <2>4, <2>5 DEF BurnedInv, BurnedExact, AllReserved
<1>4. ASSUME NEW B \in SUBSET Mint, WithdrawClose(i, B) PROVE BurnedInv'
  <2> DEFINE v == [w EXCEPT !.swept = @ \cup B, !.funded = @ \ B]
  <2>1. wd' = [wd EXCEPT ![i] = v] /\ burned' = burned
    BY <1>0, <1>4 DEF WithdrawClose
  <2>2. v \in WithdrawSession /\ Reserving(v) = Reserving(w)
    BY <1>0 DEF WithdrawSession, Reserving
  <2> HIDE DEF v
  <2>3. QED
    BY <1>a, <2>1, <2>2
<1>5. ASSUME NEW B \in SUBSET Mint, NEW who, WithdrawClaim(i, B, who) PROVE BurnedInv'
  <2> DEFINE v == [w EXCEPT !.completed = @ \cup B, !.swept = @ \cup B, !.funded = @ \ B,
                            !.in_kind = @ \cup B, !.sold = TRUE]
  <2>1. wd' = [wd EXCEPT ![i] = v] /\ burned' = burned
    BY <1>0, <1>5 DEF WithdrawClaim
  <2>2. v \in WithdrawSession /\ Reserving(v) = Reserving(w)
    BY <1>0, <1>5 DEF WithdrawSession, Reserving
  <2> HIDE DEF v
  <2>3. QED
    BY <1>a, <2>1, <2>2
<1>6. ASSUME NEW who, WithdrawSettle(i, who) PROVE BurnedInv'
  <2>1. Reserving(NoWithdrawal) = 0 /\ Reserving(w) = 0
    BY <1>6 DEF Reserving, NoWithdrawal, WithdrawSettle
  <2>2. QED
    BY <1>0, <1>a, <1>6, <2>1 DEF WithdrawSettle
<1>7. ASSUME NEW who, WithdrawAbort(i, who) PROVE BurnedInv'
  <2>1. /\ wd' = [wd EXCEPT ![i] = NoWithdrawal]
        /\ burned' = SaturatingSub(burned, Release(w)) /\ w.open
    BY <1>7 DEF WithdrawAbort
  <2>2. Reserving(NoWithdrawal) = 0 /\ Release(w) = Reserving(w)
    BY <2>1 DEF Reserving, NoWithdrawal, Release
  <2>3. /\ IsFiniteSet(Aborting') /\ AllReserved \in Nat /\ AllReserved' \in Nat
        /\ Reserving(w) \in Nat /\ Reserving(w) <= AllReserved
        /\ AllReserved' + Reserving(w) = AllReserved + Reserving(NoWithdrawal)
    BY <1>0, <2>1, OneReservation
  <2>4. burned' = AllReserved'
    BY <1>0, <2>1, <2>2, <2>3 DEF SaturatingSub
  <2>5. QED
    BY <2>3, <2>4 DEF BurnedInv, BurnedExact, AllReserved
<1>8. QED
  BY <1>1, <1>2, <1>3, <1>4, <1>5, <1>6, <1>7 DEF WithdrawSteps

\* pending_burned_shares is, for any number of investors, what the unwinding withdrawals
\* burned and have not minted again: each reserves once and releases what it reserved.
THEOREM BurnedSharesExact == Spec => []BurnedExact
<1>1. Init => BurnedInv
  <2> SUFFICES ASSUME Init PROVE BurnedInv
    OBVIOUS
  <2>1. Aborting = {} /\ burned = 0
    BY DEF Init, WithdrawalsInit, NoWithdrawal, Aborting
  <2>2. IsFiniteSet({})
    BY FS_EmptySet
  <2> DEFINE f == [i \in Investor |-> wd[i].burn]
  <2>3. \A x \in {} : f[x] = 0
    OBVIOUS
  <2> HIDE DEF f
  <2>4. SumOver(f, {}) = 0
    BY <2>2, <2>3, SumOfZeroes
  <2>5. QED
    BY <2>1, <2>2, <2>4 DEF BurnedInv, BurnedExact, f
<1>2. TypeOK /\ TypeOK' /\ BurnedInv /\ [Next]_vars => BurnedInv'
  <2> SUFFICES ASSUME TypeOK, TypeOK', BurnedInv, [Next]_vars PROVE BurnedInv'
    OBVIOUS
  <2>1. CASE Withdrawals
    BY <2>1, WithdrawKeepsBurned DEF Withdrawals
  <2>2. CASE OthersAct \/ UNCHANGED vars
    BY <2>2 DEF OthersAct, withdrawVars, vars, BurnedInv, BurnedExact, Aborting
  <2>3. CASE Tick
    <3>1. \A j \in Investor : /\ wd'[j].open = wd[j].open /\ wd'[j].aborting = wd[j].aborting
                              /\ wd'[j].burn = wd[j].burn
      <4>1. \A j \in Investor : wd[j] \in WithdrawSession
        BY DEF TypeOK
      <4>2. \A j \in Investor :
              wd'[j] = IF wd[j].open THEN [wd[j] EXCEPT !.age = Older(@)] ELSE wd[j]
        BY <2>3 DEF Tick
      <4>3. QED
        BY <4>1, <4>2 DEF WithdrawSession
    <3>2. Aborting' = Aborting
      BY <3>1 DEF Aborting
    <3>3. [j \in Investor |-> wd'[j].burn] = [j \in Investor |-> wd[j].burn]
      BY <3>1
    <3>4. burned' = burned
      BY <2>3 DEF Tick
    <3>5. QED
      BY <3>2, <3>3, <3>4 DEF BurnedInv, BurnedExact
  <2>4. CASE Deposits
    BY <2>4, DepositsTyped DEF BurnedInv, BurnedExact, Aborting
  <2>5. QED
    BY <2>1, <2>2, <2>3, <2>4 DEF Next
<1>3. BurnedInv => BurnedExact
  BY DEF BurnedInv
<1>4. QED
  BY <1>1, <1>2, <1>3, ExitInductive, PTL DEF Spec
=============================================================================
