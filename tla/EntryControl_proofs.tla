------------------------ MODULE EntryControl_proofs -------------------------
(***************************************************************************)
(* What holds of EntryControl for every set of mints, baskets, investors,  *)
(* amounts, prices and timeouts.  IInv is the inductive invariant: it adds *)
(* to the commitment bookkeeping why a committed session stays sound (its  *)
(* legs are complete, it was not overtaken by a basket change, all that it *)
(* swept has landed) and where a commitment can exist at all: the statuses *)
(* that are entered through a guard on the counter never hold one.         *)
(***************************************************************************)
EXTENDS EntryControl, VaultLifecycle_proofs

CommittedSound ==
    \A i \in Committed : /\ IsComplete(dep[i])
                         /\ ~Stale(dep[i])
                         /\ dep[i].landed = dep[i].swept

LockedStatus == status \in {"Liquidating", "Closed", "Restructuring"} => committed = 0

CommitInv == CommittedExact /\ CommittedSound /\ LockedStatus

IInv == TypeOK /\ CommitInv

\* What a step may do to the holder of the lock and its reservation.
HolderMoves ==
    \/ Committed' = Committed /\ pending' = pending
    \/ Committed = {} /\ pending' \in Nat /\ \E i \in Investor : Committed' = {i}
    \/ Committed # {} /\ Committed' = {} /\ pending' = 0

-----------------------------------------------------------------------------
(* Operators *)

\* A price mark is a pair of natural numbers.
LEMMA MarkIsNat == Mark \subseteq [tsb: Nat, tvl: Nat]
<1>1. {0} \cup ShareCounts \subseteq Nat /\ {0} \cup Tvls \subseteq Nat
  BY MarkAssumption
<1>2. QED
  BY <1>1 DEF Mark

\* So is the amount of a session, 0 where there is none.
LEMMA AmountIsNat == {0} \cup Amounts \subseteq Nat
  BY DepositAssumption

\* phantom_shares is a natural number: its u128 product and quotient never go below 0.
LEMMA PhantomIsNat ==
    ASSUME NEW amount \in Nat, NEW mark \in Mark
    PROVE  Phantom(amount, mark) \in Nat
  BY MarkIsNat, PhantomType

\* A basket never counts more mints than there are.
LEMMA BasketSize ==
    ASSUME NEW S \in SUBSET Mint
    PROVE  Cardinality(S) \in 0..Cardinality(Mint)
<1>1. IsFiniteSet(S) /\ Cardinality(S) <= Cardinality(Mint)
  BY MintAssumption, FS_Subset
<1>2. QED
  BY <1>1, MintAssumption, FS_CardinalityType

-----------------------------------------------------------------------------
(* Type correctness *)

\* The initial vault and its absent sessions are well typed.
LEMMA InitTyped == Init => TypeOK
<1> SUFFICES ASSUME Init PROVE TypeOK
  OBVIOUS
<1>1. LifecycleTypeOK
  BY LifecycleInitTyped DEF Init
<1>2. NoSession \in Session
  <2>1. 0 \in 0..Cardinality(Mint)
    BY BasketSize, MintAssumption, FS_CardinalityType
  <2>2. QED
    BY <2>1, SessionAssumption DEF NoSession, Session, Mark
<1>3. QED
  BY <1>1, <1>2 DEF Init, TypeOK

\* An update of one session by a session keeps all sessions well typed.
LEMMA OneSessionTyped ==
    ASSUME TypeOK, NEW i \in Investor, NEW s \in Session, dep' = [dep EXCEPT ![i] = s]
    PROVE  dep' \in [Investor -> Session]
  BY DEF TypeOK

\* Every deposit instruction keeps vault and sessions well typed.
LEMMA DepositTyped ==
    ASSUME TypeOK, NEW i \in Investor, DepositSteps(i)
    PROVE  VaultTypeOK' /\ dep' \in [Investor -> Session]
<1> DEFINE s == dep[i]
           Goal == VaultTypeOK' /\ dep' \in [Investor -> Session]
<1>0. s \in Session /\ NoSession \in Session
  <2>1. 0 \in 0..Cardinality(Mint)
    BY MintAssumption, FS_CardinalityType
  <2>2. NoSession \in Session
    BY <2>1, SessionAssumption DEF NoSession, Session, Mark
  <2>3. QED
    BY <2>2 DEF TypeOK
<1>1. ASSUME UNCHANGED <<vaultVars, envVars>> PROVE VaultTypeOK'
  BY <1>1 DEF TypeOK, LifecycleTypeOK, VaultTypeOK, vaultVars, envVars
<1>2. CASE DepositInit(i)
  <2>1. PICK amount \in Amounts, mark \in LiveMarks :
          dep' = [dep EXCEPT ![i] =
                   [NoSession EXCEPT !.open = TRUE, !.amount = amount, !.mark = mark,
                                     !.count = Cardinality(table), !.legs = weighted,
                                     !.residue = TRUE]]
    BY <1>2 DEF DepositInit
  <2>2. Cardinality(table) \in 0..Cardinality(Mint)
    BY BasketSize DEF TypeOK, LifecycleTypeOK, VaultTypeOK
  <2>3. weighted \in SUBSET Mint /\ mark \in Mark
    BY DEF TypeOK, LifecycleTypeOK, VaultTypeOK, LiveMarks
  <2>4. dep' \in [Investor -> Session]
    BY <2>1, <2>2, <2>3, <1>0 DEF TypeOK, Session
  <2>5. QED
    BY <2>4, <1>1, <1>2 DEF DepositInit
<1>3. ASSUME NEW B \in SUBSET Mint, DepositSwapBatch(i, B) PROVE Goal
  <2>1. PICK left \in BOOLEAN :
          dep' = [dep EXCEPT ![i].completed = @ \cup B, ![i].residue = left]
    BY <1>3, DepositAssumption DEF DepositSwapBatch
  <2>2. dep' \in [Investor -> Session]
    BY <2>1, <1>0 DEF TypeOK, Session
  <2>3. QED
    BY <2>2, <1>1, <1>3 DEF DepositSwapBatch
<1>4. ASSUME NEW B \in SUBSET Mint, NEW who, DepositSweepRefund(i, B, who) PROVE Goal
  <2>1. dep' \in [Investor -> Session]
    BY <1>4, <1>0 DEF DepositSweepRefund, TypeOK, Session
  <2>2. QED
    BY <2>1, <1>1, <1>4 DEF DepositSweepRefund
<1>5. ASSUME NEW B \in SUBSET Mint, DepositSweepCommit(i, B) PROVE Goal
  <2>1. PICK mark \in LiveMarks \cup {s.mark} :
          /\ dep' = [dep EXCEPT ![i].swept = B, ![i].landed = B, ![i].mark = mark]
          /\ Commit(Phantom(s.amount, mark))
    BY <1>5 DEF DepositSweepCommit
  <2>2. mark \in Mark /\ s.amount \in Nat
    <3>1. mark \in Mark /\ s.amount \in {0} \cup Amounts
      BY <1>0 DEF Session, LiveMarks
    <3>2. QED
      BY <3>1, AmountIsNat
  <2>3. dep' \in [Investor -> Session]
    BY <2>1, <2>2, <1>0 DEF TypeOK, Session
  <2>4. Phantom(s.amount, mark) \in Nat
    BY <2>2, PhantomIsNat
  <2>5. committed' \in Nat /\ pending' \in Nat
    BY <2>1, <2>4 DEF Commit, TypeOK, LifecycleTypeOK, VaultTypeOK
  <2>6. QED
    BY <2>3, <2>5, <1>5 DEF DepositSweepCommit, envVars, TypeOK, LifecycleTypeOK, VaultTypeOK
<1>6. ASSUME NEW B \in SUBSET Mint, DepositSweepMore(i, B) PROVE Goal
  <2>1. dep' \in [Investor -> Session]
    BY <1>6, <1>0 DEF DepositSweepMore, TypeOK, Session
  <2>2. QED
    BY <2>1, <1>6 DEF DepositSweepMore, envVars, TypeOK, LifecycleTypeOK, VaultTypeOK
<1>7. ASSUME Uncommit(Reserved(s)) PROVE committed' \in Nat /\ pending' \in Nat
  <2>1. s.mark \in Mark /\ s.amount \in {0} \cup Amounts
    BY <1>0 DEF Session
  <2>2. s.amount \in Nat
    BY <2>1, AmountIsNat
  <2>3. Reserved(s) \in Nat
    BY <2>1, <2>2, PhantomIsNat DEF Reserved
  <2>4. QED
    BY <1>7, <2>3, SaturatingSubIsNat DEF Uncommit, TypeOK, LifecycleTypeOK, VaultTypeOK
<1>8. CASE DepositSettle(i)
  <2>1. dep' \in [Investor -> Session]
    BY <1>8, <1>0, OneSessionTyped DEF DepositSettle
  <2>2. committed' \in Nat /\ pending' \in Nat
    BY <1>7, <1>8 DEF DepositSettle, TypeOK, LifecycleTypeOK, VaultTypeOK
  <2>3. QED
    BY <2>1, <2>2, <1>8 DEF DepositSettle, envVars, TypeOK, LifecycleTypeOK, VaultTypeOK
<1>9. ASSUME NEW who, DepositAbort(i, who) PROVE Goal
  <2>1. dep' \in [Investor -> Session]
    BY <1>9, <1>0, OneSessionTyped DEF DepositAbort
  <2>2. QED
    BY <2>1, <1>1, <1>9 DEF DepositAbort
<1>10. CASE DepositForceRelease(i)
  <2>1. dep' \in [Investor -> Session]
    BY <1>10, <1>0 DEF DepositForceRelease, TypeOK, Session
  <2>2. committed' \in Nat /\ pending' \in Nat
    BY <1>7, <1>10 DEF DepositForceRelease
  <2>3. QED
    BY <2>1, <2>2, <1>10
    DEF DepositForceRelease, envVars, TypeOK, LifecycleTypeOK, VaultTypeOK
<1>11. QED
  BY <1>2, <1>3, <1>4, <1>5, <1>6, <1>8, <1>9, <1>10 DEF DepositSteps, DepositWork

\* Every step of the system keeps it well typed.
LEMMA NextTyped ==
    ASSUME TypeOK, [Next]_vars
    PROVE  TypeOK'
<1>1. CASE Deposits
  <2>1. PICK i \in Investor : DepositSteps(i) /\ UNCHANGED rs
    BY <1>1 DEF Deposits
  <2>2. VaultTypeOK' /\ dep' \in [Investor -> Session]
    BY <2>1, DepositTyped
  <2>3. QED
    BY <2>1, <2>2 DEF TypeOK, LifecycleTypeOK
<1>2. CASE BasketChanged
  <2>1. dep' \in [Investor -> Session]
    <3>1. \A i \in Investor, x \in {"none", "tie", "older"} :
            [dep[i] EXCEPT !.since = x] \in Session
      BY DEF TypeOK, Session
    <3>2. Dated \in [Investor -> Session]
      BY <3>1 DEF Dated, TypeOK, Session
    <3>3. QED
      BY <1>2, <3>2 DEF BasketChanged
  <2>2. LifecycleTypeOK'
    BY <1>2, RestructureTyped DEF BasketChanged, TypeOK
  <2>3. QED
    BY <2>1, <2>2 DEF TypeOK
<1>3. CASE OthersAct
  <2>1. ASSUME VaultAdmin PROVE LifecycleTypeOK'
    BY <2>1, AdminTyped DEF TypeOK
  <2>2. ASSUME RestructureSteps PROVE LifecycleTypeOK'
    BY <2>2, RestructureTyped DEF TypeOK
  <2>3. ASSUME Issuers PROVE LifecycleTypeOK'
    BY <2>3, IssuersTyped DEF TypeOK
  <2>4. LifecycleTypeOK'
    BY <1>3, <2>1, <2>2, <2>3 DEF OthersAct
  <2>5. QED
    BY <1>3, <2>4 DEF OthersAct, TypeOK
<1>4. CASE Withdrawals
  BY <1>4
  DEF Withdrawals, WithdrawReturns, Landed, FlagAfterReturn, envVars,
      TypeOK, LifecycleTypeOK, VaultTypeOK
<1>5. CASE Tick
  <2>1. rs' \in RestructureSession
    BY <1>5, OlderIsAge DEF Tick, TypeOK, LifecycleTypeOK, RestructureSession
  <2>2. \A i \in Investor : [dep[i] EXCEPT !.age = Older(@)] \in Session
    BY OlderIsAge DEF TypeOK, Session
  <2>3. dep' \in [Investor -> Session]
    BY <1>5, <2>2 DEF Tick, TypeOK
  <2>4. QED
    BY <1>5, <2>1, <2>3
    DEF Tick, vaultVars, envVars, TypeOK, LifecycleTypeOK, VaultTypeOK
<1>6. CASE UNCHANGED vars
  BY <1>6 DEF vars, vaultVars, envVars, TypeOK, LifecycleTypeOK, VaultTypeOK
<1>7. QED
  BY <1>1, <1>2, <1>3, <1>4, <1>5, <1>6 DEF Next

\* Type correctness: counters stay natural numbers, flags and ages within their ranges
\* and sessions well formed, for every choice of the constants.
THEOREM TypeCorrect == Spec => []TypeOK
<1>1. QED
  BY InitTyped, NextTyped, PTL DEF Spec

-----------------------------------------------------------------------------
(* The commitment lock *)

\* The counter is zero exactly when no session is committed, so the guards on it see
\* what the definition of a committed session says.
LEMMA CounterTells ==
    ASSUME CommittedExact
    PROVE  committed = 0 <=> Committed = {}
  BY DEF CommittedExact

\* A session that does not exist is not committed.
LEMMA NoSessionNotCommitted == ~IsCommitted(NoSession)
  BY DEF IsCommitted, NoSession

\* A committed session is never turned back: no disjunct of abort_direction applies.
LEMMA CommittedGoesOn ==
    ASSUME CommittedSound, NEW i \in Committed
    PROVE  ~AbortDirection(dep[i])
  BY DEF CommittedSound, AbortDirection, Committed, IsCommitted

\* A step that touches neither sessions nor counters can disturb only the status part.
LEMMA LockFrame ==
    ASSUME CommitInv, UNCHANGED <<dep, committed, pending>>, LockedStatus'
    PROVE  CommitInv' /\ Committed' = Committed
  BY DEF CommitInv, CommittedExact, CommittedSound, Committed

\* A step of a session that is committed neither before nor after disturbs nothing.
LEMMA BystanderStep ==
    ASSUME CommitInv, NEW i \in Investor,
           ~IsCommitted(dep[i]), ~IsCommitted(dep'[i]),
           \A j \in Investor \ {i} : dep'[j] = dep[j],
           UNCHANGED <<committed, pending, status>>
    PROVE  CommitInv' /\ Committed' = Committed
<1>1. Committed' = Committed /\ \A j \in Committed : dep'[j] = dep[j]
  BY DEF Committed
<1>2. CommittedExact'
  BY <1>1 DEF CommitInv, CommittedExact
<1>3. CommittedSound'
  BY <1>1 DEF CommitInv, CommittedSound
<1>4. QED
  BY <1>1, <1>2, <1>3 DEF CommitInv, LockedStatus

\* The step that ends the one commitment leaves counter and reservation at zero.
LEMMA ReleaseStep ==
    ASSUME TypeOK, CommitInv, NEW i \in Investor,
           IsCommitted(dep[i]), ~IsCommitted(dep'[i]),
           \A j \in Investor \ {i} : dep'[j] = dep[j],
           Uncommit(Reserved(dep[i])), UNCHANGED status
    PROVE  CommitInv' /\ Committed' = {} /\ pending' = 0
<1>1. i \in Committed /\ Committed = {i}
  BY DEF CommitInv, CommittedExact, Committed
<1>2. Committed' = {}
  BY <1>1 DEF Committed
<1>3. committed = 1 /\ pending = Reserved(dep[i]) /\ pending \in Nat
  BY <1>1 DEF CommitInv, CommittedExact, TypeOK, LifecycleTypeOK, VaultTypeOK
<1>4. committed' = 0 /\ pending' = 0
  BY <1>3 DEF Uncommit, SaturatingSub
<1>5. QED
  BY <1>2, <1>4 DEF CommitInv, CommittedExact, CommittedSound, LockedStatus

\* The first batch of a complete session takes the lock, which nobody else holds, and
\* reserves what its own settle will release.
LEMMA CommitStep ==
    ASSUME TypeOK, CommitInv, NEW i \in Investor, NEW B \in SUBSET Mint,
           DepositSweepCommit(i, B)
    PROVE  CommitInv' /\ Committed = {} /\ Committed' = {i} /\ pending' \in Nat
<1> DEFINE s == dep[i]
<1>1. PICK mark \in LiveMarks \cup {s.mark} :
        /\ dep' = [dep EXCEPT ![i].swept = B, ![i].landed = B, ![i].mark = mark]
        /\ Commit(Phantom(s.amount, mark))
  BY DEF DepositSweepCommit
<1>2. Committed = {}
  BY CounterTells DEF CommitInv, DepositSweepCommit, NoCommitted
<1>3. s.open /\ B # {} /\ ~s.aborting /\ IsComplete(s) /\ ~Stale(s) /\ status = "Active"
  BY BatchNotEmpty DEF DepositSweepCommit, SweepsIn, Sweepable, AbortDirection
<1>4. /\ dep'[i].open = s.open /\ dep'[i].swept = B /\ dep'[i].landed = B
      /\ dep'[i].aborting = s.aborting /\ dep'[i].mark = mark /\ dep'[i].amount = s.amount
      /\ dep'[i].completed = s.completed /\ dep'[i].legs = s.legs
      /\ dep'[i].since = s.since
      /\ \A j \in Investor \ {i} : dep'[j] = dep[j]
  BY <1>1 DEF TypeOK, Session
<1>5. Committed' = {i}
  BY <1>2, <1>3, <1>4 DEF Committed, IsCommitted
<1>6. committed = 0 /\ pending = 0
  BY <1>2 DEF CommitInv, CommittedExact
<1>7. committed' = 1 /\ pending' = Reserved(dep'[i]) /\ pending' \in Nat
  <2>1. Phantom(s.amount, mark) = Reserved(dep'[i])
    BY <1>4 DEF Reserved
  <2>2. pending' \in Nat
    BY DepositTyped DEF DepositSteps, DepositWork, VaultTypeOK
  <2>3. Phantom(s.amount, mark) \in Nat
    <3>1. s.amount \in Nat /\ mark \in Mark
      <4>1. s.amount \in {0} \cup Amounts /\ mark \in Mark
        BY DEF TypeOK, Session, LiveMarks
      <4>2. QED
        BY <4>1, AmountIsNat
    <3>2. QED
      BY <3>1, PhantomIsNat
  <2>4. QED
    BY <1>1, <1>6, <2>1, <2>2, <2>3 DEF Commit
<1>8. CommittedExact'
  BY <1>5, <1>7 DEF CommittedExact
<1>9. CommittedSound'
  BY <1>3, <1>4, <1>5 DEF CommittedSound, IsComplete, Stale
<1>10. LockedStatus'
  BY <1>3 DEF LockedStatus, DepositSweepCommit
<1>11. QED
  BY <1>2, <1>5, <1>7, <1>8, <1>9, <1>10 DEF CommitInv

\* Its later batches keep it committed and reserve nothing more.
LEMMA MoreStep ==
    ASSUME TypeOK, CommitInv, NEW i \in Investor, NEW B \in SUBSET Mint,
           DepositSweepMore(i, B)
    PROVE  CommitInv' /\ Committed' = Committed
<1> DEFINE s == dep[i]
<1>1. s.open /\ s.swept # {} /\ ~s.aborting
  BY DEF DepositSweepMore, SweepsIn, Sweepable, AbortDirection
<1>2. i \in Committed
  BY <1>1 DEF Committed, IsCommitted
<1>3. /\ dep'[i].open = s.open /\ dep'[i].swept = s.swept \cup B
      /\ dep'[i].landed = s.landed \cup B
      /\ dep'[i].aborting = s.aborting /\ dep'[i].mark = s.mark /\ dep'[i].amount = s.amount
      /\ dep'[i].completed = s.completed /\ dep'[i].legs = s.legs
      /\ dep'[i].since = s.since
      /\ \A j \in Investor \ {i} : dep'[j] = dep[j]
  BY DEF DepositSweepMore, TypeOK, Session
<1>4. Committed' = Committed
  BY <1>1, <1>3 DEF Committed, IsCommitted
<1>5. \A j \in Committed : Reserved(dep'[j]) = Reserved(dep[j])
  BY <1>3 DEF Reserved, Committed
<1>6. CommittedExact'
  BY <1>4, <1>5 DEF CommitInv, CommittedExact, DepositSweepMore
<1>7. CommittedSound'
  <2>1. \A j \in Committed : j = i
    BY <1>2 DEF CommitInv, CommittedExact
  <2>2. QED
    BY <1>2, <1>3, <1>4, <2>1 DEF CommitInv, CommittedSound, IsComplete, Stale
<1>8. QED
  BY <1>4, <1>6, <1>7 DEF CommitInv, LockedStatus, DepositSweepMore

\* Every deposit instruction keeps the bookkeeping exact, and moves the lock only by a
\* commit, a settle or a force release.
LEMMA DepositKeepsLock ==
    ASSUME TypeOK, CommitInv, NEW i \in Investor, DepositSteps(i)
    PROVE  CommitInv' /\ HolderMoves
<1> DEFINE s == dep[i]
           Goal == CommitInv' /\ HolderMoves
<1>1. IsCommitted(s) => IsComplete(s) /\ ~AbortDirection(s)
  BY CommittedGoesOn DEF CommitInv, CommittedSound, Committed
<1>2. ASSUME NEW t, dep' = [dep EXCEPT ![i] = t],
             ~IsCommitted(s), ~IsCommitted(t), UNCHANGED <<committed, pending, status>>
      PROVE  Goal
  <2>1. dep'[i] = t /\ \A j \in Investor \ {i} : dep'[j] = dep[j]
    BY <1>2 DEF TypeOK
  <2>2. QED
    BY <1>2, <2>1, BystanderStep DEF HolderMoves
<1>3. CASE DepositInit(i)
  <2>1. PICK amount \in Amounts, mark \in LiveMarks :
          dep' = [dep EXCEPT ![i] =
                   [NoSession EXCEPT !.open = TRUE, !.amount = amount, !.mark = mark,
                                     !.count = Cardinality(table), !.legs = weighted,
                                     !.residue = TRUE]]
    BY <1>3 DEF DepositInit
  <2>2. ~IsCommitted(s)
    BY <1>3 DEF DepositInit, IsCommitted
  <2>3. ~IsCommitted([NoSession EXCEPT !.open = TRUE, !.amount = amount, !.mark = mark,
                                       !.count = Cardinality(table), !.legs = weighted,
                                       !.residue = TRUE])
    BY DEF NoSession, IsCommitted
  <2>4. QED
    BY <2>1, <2>2, <2>3, <1>2, <1>3 DEF DepositInit, vaultVars
<1>4. ASSUME NEW B \in SUBSET Mint, DepositSwapBatch(i, B) PROVE Goal
  <2>1. PICK left : dep' = [dep EXCEPT ![i] = [s EXCEPT !.completed = @ \cup B,
                                                        !.residue = left]]
    BY <1>4 DEF DepositSwapBatch, TypeOK
  <2>2. ~IsCommitted(s)
    <3>1. B # {} /\ B \subseteq s.legs \ s.completed
      BY <1>4, BatchNotEmpty DEF DepositSwapBatch
    <3>2. ~IsComplete(s)
      BY <3>1 DEF IsComplete
    <3>3. QED
      BY <3>2, <1>1
  <2>3. ~IsCommitted([s EXCEPT !.completed = @ \cup B, !.residue = left])
    BY <2>2 DEF IsCommitted, TypeOK, Session
  <2>4. QED
    BY <2>1, <2>2, <2>3, <1>2, <1>4 DEF DepositSwapBatch, vaultVars
<1>5. ASSUME NEW B \in SUBSET Mint, NEW who, DepositSweepRefund(i, B, who) PROVE Goal
  <2>1. dep' = [dep EXCEPT ![i] = [s EXCEPT !.swept = @ \cup B, !.aborting = TRUE]]
    BY <1>5 DEF DepositSweepRefund, TypeOK
  <2>2. ~IsCommitted(s)
    BY <1>1, <1>5 DEF DepositSweepRefund
  <2>3. ~IsCommitted([s EXCEPT !.swept = @ \cup B, !.aborting = TRUE])
    BY DEF IsCommitted, TypeOK, Session
  <2>4. QED
    BY <2>1, <2>2, <2>3, <1>2, <1>5 DEF DepositSweepRefund, vaultVars
<1>6. ASSUME NEW B \in SUBSET Mint, DepositSweepCommit(i, B) PROVE Goal
  BY <1>6, CommitStep DEF HolderMoves
<1>7. ASSUME NEW B \in SUBSET Mint, DepositSweepMore(i, B) PROVE Goal
  BY <1>7, MoreStep DEF HolderMoves, DepositSweepMore
<1>8. ASSUME NEW t, dep' = [dep EXCEPT ![i] = t],
             IsCommitted(s), ~IsCommitted(t), Uncommit(Reserved(s)), UNCHANGED status
      PROVE  Goal
  <2>1. dep'[i] = t /\ \A j \in Investor \ {i} : dep'[j] = dep[j]
    BY <1>8 DEF TypeOK
  <2>2. Committed # {}
    BY <1>8 DEF Committed
  <2>3. QED
    BY <1>8, <2>1, <2>2, ReleaseStep DEF HolderMoves
<1>9. CASE DepositSettle(i)
  <2>1. CASE IsCommitted(s)
    BY <2>1, <1>8, <1>9, NoSessionNotCommitted DEF DepositSettle
  <2>2. CASE ~IsCommitted(s)
    BY <2>2, <1>2, <1>9, NoSessionNotCommitted DEF DepositSettle
  <2>3. QED
    BY <2>1, <2>2
<1>10. ASSUME NEW who, DepositAbort(i, who) PROVE Goal
  <2>1. ~IsCommitted(s)
    BY <1>10 DEF DepositAbort, IsCommitted
  <2>2. QED
    BY <2>1, <1>2, <1>10, NoSessionNotCommitted DEF DepositAbort, vaultVars
<1>11. CASE DepositForceRelease(i)
  <2>1. dep' = [dep EXCEPT ![i] = [s EXCEPT !.aborting = TRUE]]
    BY <1>11 DEF DepositForceRelease, TypeOK
  <2>2. ~IsCommitted([s EXCEPT !.aborting = TRUE])
    BY DEF IsCommitted, TypeOK, Session
  <2>3. QED
    BY <2>1, <2>2, <1>8, <1>11 DEF DepositForceRelease
<1>12. QED
  BY <1>3, <1>4, <1>5, <1>6, <1>7, <1>9, <1>10, <1>11 DEF DepositSteps, DepositWork

\* While the lock is held the arrangement of the vault stays as it was.
ArrangementHeld == Committed # {} => UNCHANGED LockedArrangement

\* The administrators of a vault cannot touch the lock, nor what it protects.
LEMMA AdminKeepsLock ==
    ASSUME TypeOK, CommitInv, VaultAdmin
    PROVE  UNCHANGED <<committed, pending>> /\ LockedStatus' /\ ArrangementHeld
<1> DEFINE Goal == UNCHANGED <<committed, pending>> /\ LockedStatus' /\ ArrangementHeld
<1> USE DEF LockedStatus, ArrangementHeld, LockedArrangement, InBusiness, vaultVars
<1>1. LockedStatus /\ (committed = 0 <=> Committed = {})
  BY CounterTells DEF CommitInv
<1>2. ASSUME NEW on \in BOOLEAN, SetProtocolPaused(on) PROVE Goal
  BY <1>1, <1>2 DEF SetProtocolPaused
<1>3. CASE PauseVault
  BY <1>1, <1>3 DEF PauseVault
<1>4. CASE UnpauseVault
  BY <1>1, <1>4 DEF UnpauseVault
<1>5. CASE CloseVault
  BY <1>1, <1>5 DEF CloseVault, NoCommitted
<1>6. CASE FinalizeClose
  BY <1>1, <1>6 DEF FinalizeClose, NoCommitted
<1>7. CASE Rebalance
  BY <1>1, <1>7 DEF Rebalance, NoCommitted
<1>8. ASSUME NEW src, NEW dst, NEW E, RebalanceSwap(src, dst, E) PROVE Goal
  BY <1>1, <1>8 DEF RebalanceSwap, NoCommitted
<1>9. ASSUME NEW m, SweepToUsdc(m) PROVE Goal
  BY <1>1, <1>9 DEF SweepToUsdc
<1>10. QED
  BY <1>2, <1>3, <1>4, <1>5, <1>6, <1>7, <1>8, <1>9 DEF VaultAdmin

\* Nor can a basket change: it starts, and so runs and ends, with the lock free.
LEMMA RestructureKeepsLock ==
    ASSUME TypeOK, CommitInv, RestructureSteps \/ RestructureSettle
    PROVE  UNCHANGED <<committed, pending>> /\ LockedStatus' /\ ArrangementHeld
<1> DEFINE Goal == UNCHANGED <<committed, pending>> /\ LockedStatus' /\ ArrangementHeld
<1> USE DEF LockedStatus, ArrangementHeld, LockedArrangement, InBusiness
<1>1. LockedStatus /\ (committed = 0 <=> Committed = {})
  BY CounterTells DEF CommitInv
<1>2. ASSUME NEW new, RestructureInit(new) PROVE Goal
  BY <1>1, <1>2 DEF RestructureInit, Reorganisable, NoCommitted
<1>3. ASSUME NEW sells, NEW buys, NEW E, RestructureSwapBatch(sells, buys, E) PROVE Goal
  BY <1>1, <1>3 DEF RestructureSwapBatch
<1>4. ASSUME NEW who, RestructureAbort(who) PROVE Goal
  BY <1>1, <1>4 DEF RestructureAbort
<1>5. CASE CloseStranded
  BY <1>1, <1>5 DEF CloseStranded
<1>6. CASE AdminClearStranded
  BY <1>1, <1>6 DEF AdminClearStranded
<1>7. ASSUME NEW m, RescueUntracked(m) PROVE Goal
  BY <1>1, <1>7 DEF RescueUntracked
<1>8. CASE RestructureSettle
  BY <1>1, <1>8 DEF RestructureSettle
<1>9. QED
  BY <1>2, <1>3, <1>4, <1>5, <1>6, <1>7, <1>8 DEF RestructureSteps

\* No deposit instruction changes status, table or weights.
LEMMA DepositKeepsArrangement ==
    ASSUME NEW i, DepositSteps(i)
    PROVE  UNCHANGED LockedArrangement
<1> USE DEF LockedArrangement, InBusiness, vaultVars
<1>1. CASE DepositInit(i) \/ DepositSettle(i) \/ DepositForceRelease(i)
  BY <1>1 DEF DepositInit, DepositSettle, DepositForceRelease
<1>2. ASSUME NEW B, DepositSwapBatch(i, B) \/ DepositSweepCommit(i, B) \/ DepositSweepMore(i, B)
      PROVE  UNCHANGED LockedArrangement
  BY <1>2 DEF DepositSwapBatch, DepositSweepCommit, DepositSweepMore
<1>3. ASSUME NEW B, NEW who, DepositSweepRefund(i, B, who) \/ DepositAbort(i, who)
      PROVE  UNCHANGED LockedArrangement
  BY <1>3 DEF DepositSweepRefund, DepositAbort
<1>4. QED
  BY <1>1, <1>2, <1>3 DEF DepositSteps, DepositWork

\* What any step of the system may do to the lock and to what it protects.
LockMoves ==
    \/ HolderMoves /\ UNCHANGED LockedArrangement
    \/ UNCHANGED <<Committed, pending>> /\ ArrangementHeld

\* The inductive step.
LEMMA NextKeepsLock ==
    ASSUME IInv, [Next]_vars
    PROVE  CommitInv' /\ LockMoves
<1> USE DEF IInv
<1>1. CASE Deposits
  <2>1. PICK i \in Investor : DepositSteps(i)
    BY <1>1 DEF Deposits
  <2>2. CommitInv' /\ HolderMoves
    BY <2>1, DepositKeepsLock
  <2>3. UNCHANGED LockedArrangement
    BY <2>1, DepositKeepsArrangement
  <2>4. QED
    BY <2>2, <2>3 DEF LockMoves
<1>2. CASE BasketChanged
  <2>1. UNCHANGED <<committed, pending>> /\ LockedStatus' /\ ArrangementHeld
    BY <1>2, RestructureKeepsLock DEF BasketChanged
  <2>2. committed = 0 /\ Committed = {}
    BY <1>2, CounterTells DEF CommitInv, LockedStatus, BasketChanged, RestructureSettle
  <2>3. ASSUME NEW i \in Investor PROVE IsCommitted(dep'[i]) <=> IsCommitted(dep[i])
    <3>1. PICK x : dep'[i] = [dep[i] EXCEPT !.since = x]
      BY <1>2 DEF BasketChanged, Dated
    <3>2. QED
      BY <3>1 DEF IsCommitted, TypeOK, Session
  <2>4. Committed' = {}
    BY <2>2, <2>3 DEF Committed
  <2>5. CommittedExact' /\ CommittedSound'
    BY <2>1, <2>2, <2>4 DEF CommitInv, CommittedExact, CommittedSound
  <2>6. QED
    BY <2>1, <2>2, <2>4, <2>5 DEF CommitInv, LockMoves
<1>3. CASE OthersAct
  <2>1. UNCHANGED <<dep, committed, pending>> /\ LockedStatus' /\ ArrangementHeld
    <3>1. CASE VaultAdmin
      BY <1>3, <3>1, AdminKeepsLock DEF OthersAct
    <3>2. CASE RestructureSteps
      BY <1>3, <3>2, RestructureKeepsLock DEF OthersAct
    <3>3. CASE Issuers
      BY <1>3, <3>3
      DEF OthersAct, Issuers, IssuerSets, vaultVars, CommitInv, LockedStatus,
          ArrangementHeld, LockedArrangement, InBusiness
    <3>4. QED
      BY <1>3, <3>1, <3>2, <3>3 DEF OthersAct
  <2>2. QED
    BY <2>1, LockFrame DEF LockMoves
<1>4. CASE Withdrawals
  <2>1. UNCHANGED <<dep, committed, pending>> /\ LockedStatus' /\ ArrangementHeld
    BY <1>4
    DEF Withdrawals, WithdrawReturns, CommitInv, LockedStatus, ArrangementHeld, LockedArrangement,
        InBusiness
  <2>2. QED
    BY <2>1, LockFrame DEF LockMoves
<1>5. CASE Tick
  <2>1. ASSUME NEW i \in Investor
        PROVE  /\ IsCommitted(dep'[i]) <=> IsCommitted(dep[i])
               /\ IsComplete(dep'[i]) <=> IsComplete(dep[i])
               /\ Stale(dep'[i]) <=> Stale(dep[i])
               /\ Reserved(dep'[i]) = Reserved(dep[i])
               /\ dep'[i].landed = dep[i].landed /\ dep'[i].swept = dep[i].swept
    <3>1. PICK x : dep'[i] = [dep[i] EXCEPT !.age = x] \/ dep'[i] = dep[i]
      BY <1>5 DEF Tick
    <3>2. QED
      BY <3>1 DEF IsCommitted, IsComplete, Stale, Reserved, TypeOK, Session
  <2>2. Committed' = Committed /\ Committed \subseteq Investor
    BY <2>1 DEF Committed
  <2>3. UNCHANGED <<committed, pending, status, table, weighted>>
    BY <1>5 DEF Tick, vaultVars
  <2>4. CommittedExact'
    BY <2>1, <2>2, <2>3 DEF CommitInv, CommittedExact
  <2>5. CommittedSound'
    BY <2>1, <2>2 DEF CommitInv, CommittedSound
  <2>6. QED
    BY <2>2, <2>3, <2>4, <2>5
    DEF CommitInv, LockedStatus, LockMoves, ArrangementHeld, LockedArrangement, InBusiness
<1>6. CASE UNCHANGED vars
  <2>1. UNCHANGED <<dep, committed, pending>> /\ LockedStatus' /\ ArrangementHeld
    BY <1>6
    DEF vars, vaultVars, CommitInv, LockedStatus, ArrangementHeld, LockedArrangement,
        InBusiness
  <2>2. QED
    BY <2>1, LockFrame DEF LockMoves
<1>7. QED
  BY <1>1, <1>2, <1>3, <1>4, <1>5, <1>6 DEF Next

\* A new vault has nothing committed.
LEMMA InitUnlocked == Init => CommitInv /\ Committed = {} /\ pending = 0
<1> SUFFICES ASSUME Init PROVE CommitInv /\ Committed = {} /\ pending = 0
  OBVIOUS
<1>1. Committed = {}
  BY NoSessionNotCommitted DEF Init, Committed
<1>2. committed = 0 /\ pending = 0
  BY DEF Init, LifecycleInit, VaultInit
<1>3. QED
  BY <1>1, <1>2 DEF CommitInv, CommittedExact, CommittedSound, LockedStatus

\* The inductive invariant holds in every reachable state.
LEMMA Inductive == Spec => []IInv
<1>1. Init => IInv
  BY InitTyped, InitUnlocked DEF IInv
<1>2. IInv /\ [Next]_vars => IInv'
  BY NextTyped, NextKeepsLock DEF IInv
<1>3. QED
  BY <1>1, <1>2, PTL DEF Spec

\* The counter committed_deposits and the reservation pending_committed_shares always
\* describe exactly the one committed session, or none.
THEOREM CommitmentExact == Spec => []CommittedExact
<1>1. IInv => CommittedExact
  BY DEF IInv, CommitInv
<1>2. QED
  BY <1>1, Inductive, PTL

\* The point of no return is one: no later event turns a committed session back.
THEOREM CommitmentIrrevocable == Spec => []CommittedNeverTurnsBack
<1>1. IInv => CommittedNeverTurnsBack
  BY CommittedGoesOn DEF IInv, CommitInv, CommittedSound, CommittedNeverTurnsBack
<1>2. QED
  BY <1>1, Inductive, PTL

-----------------------------------------------------------------------------
(* Refinement *)

\* The holder of the lock is the committed session, when there is one.
LEMMA HolderIs ==
    ASSUME NEW i \in Investor, Committed = {i}
    PROVE  Holder = i /\ i # Nobody
<1>1. Holder = i
  BY DEF Holder
<1>2. QED
  BY <1>1, NobodyAssumption

\* The lock is free when nobody is committed, and only then.
LEMMA HolderNone ==
    ASSUME CommittedExact
    PROVE  Holder = Nobody <=> Committed = {}
<1>1. CASE Committed = {}
  BY <1>1 DEF Holder
<1>2. CASE Committed # {}
  <2>1. PICK i \in Investor : Committed = {i}
    BY <1>2 DEF CommittedExact, Committed
  <2>2. QED
    BY <1>2, <2>1, HolderIs
<1>3. QED
  BY <1>1, <1>2

\* Every step takes the lock, releases it, rearranges a free vault, or is none of
\* the lock's business.
LEMMA NextRefinesLock ==
    ASSUME IInv, IInv', LockMoves
    PROVE  [Lock!Next]_(Lock!lockVars)
<1> USE DEF Lock!Next, Lock!lockVars
<1>1. CommittedExact /\ CommittedExact'
  BY DEF IInv, CommitInv
<1>2. LockedArrangement' \in Arrangements
  BY DEF IInv, TypeOK, LifecycleTypeOK, VaultTypeOK, LockedArrangement, InBusiness, Arrangements
<1>3. Committed' = Committed => UNCHANGED Holder
  BY DEF Holder
<1>4. CASE HolderMoves /\ UNCHANGED LockedArrangement
  <2>1. CASE Committed' = Committed /\ pending' = pending
    BY <1>3, <1>4, <2>1
  <2>2. CASE Committed = {} /\ pending' \in Nat /\ \E i \in Investor : Committed' = {i}
    <3>1. PICK i \in Investor : Committed' = {i}
      BY <2>2
    <3>2. Holder = Nobody /\ Holder' = i
      BY <2>2, <3>1 DEF Holder
    <3>3. Lock!Acquire(i)
      BY <1>4, <2>2, <3>2 DEF Lock!Acquire
    <3>4. QED
      BY <3>3
  <2>3. CASE Committed # {} /\ Committed' = {} /\ pending' = 0
    <3>1. Holder # Nobody /\ Holder' = Nobody
      BY <1>1, <2>3, HolderNone DEF Holder
    <3>2. Lock!Release
      BY <1>4, <2>3, <3>1 DEF Lock!Release
    <3>3. QED
      BY <3>2
  <2>4. QED
    BY <1>4, <2>1, <2>2, <2>3 DEF HolderMoves
<1>5. CASE UNCHANGED <<Committed, pending>> /\ ArrangementHeld
  <2>1. CASE Committed = {}
    <3>1. Holder = Nobody /\ UNCHANGED Holder
      BY <1>3, <1>5, <2>1 DEF Holder
    <3>2. Lock!Rearrange
      BY <1>2, <1>5, <3>1 DEF Lock!Rearrange
    <3>3. QED
      BY <3>2
  <2>2. CASE Committed # {}
    BY <1>3, <1>5, <2>2 DEF ArrangementHeld
  <2>3. QED
    BY <2>1, <2>2
<1>6. QED
  BY <1>4, <1>5 DEF LockMoves

\* The program's counter, its reservation and its many guards implement CommitLock:
\* table, weights and being in business are frozen from commit to release.
THEOREM LockImplemented == Spec => IsCommitLock
<1>1. Init => Lock!Init
  <2> SUFFICES ASSUME Init PROVE Lock!Init
    OBVIOUS
  <2>1. Holder = Nobody /\ pending = 0
    BY InitUnlocked DEF Holder
  <2>2. LockedArrangement \in Arrangements
    BY InitTyped
    DEF TypeOK, LifecycleTypeOK, VaultTypeOK, LockedArrangement, InBusiness, Arrangements
  <2>3. QED
    BY <2>1, <2>2 DEF Lock!Init
<1>2. IInv /\ IInv' /\ [Next]_vars => [Lock!Next]_(Lock!lockVars)
  BY NextKeepsLock, NextRefinesLock
<1>3. QED
  BY <1>1, <1>2, Inductive, PTL DEF Spec, IsCommitLock, Lock!Spec

-----------------------------------------------------------------------------
(* What deposits price and where they land *)

\* A session sweeps what it has bought, buys what it was opened for, and, while no basket
\* change overtakes it, that is still in the table with a weight.
LegsSound(s) ==
    s.open => /\ s.landed \subseteq s.swept
              /\ s.swept \subseteq s.completed
              /\ s.completed \subseteq s.legs
              /\ s.since = "none" => s.legs \subseteq weighted
              /\ s.since = "tie" => SameSecond

TableInv == \A i \in Investor : LegsSound(dep[i])

\* Only the session that acts changes, and only its own soundness is at stake.
LEMMA OthersLegsSound ==
    ASSUME TypeOK, TableInv, UNCHANGED weighted, NEW i \in Investor,
           NEW s, dep' = [dep EXCEPT ![i] = s], LegsSound(s)
    PROVE  TableInv'
<1>1. ASSUME NEW j \in Investor PROVE LegsSound(dep'[j])
  <2>1. j # i => dep'[j] = dep[j]
    BY DEF TypeOK
  <2>2. j = i => dep'[j] = s
    BY DEF TypeOK
  <2>3. QED
    BY <2>1, <2>2 DEF TableInv
<1>2. QED
  BY <1>1 DEF TableInv, LegsSound

\* A sweep into the vault is of legs that have not landed and that the vault prices, but
\* for the session that ties with a basket change.
LEMMA SweptInIsWeighted ==
    ASSUME TypeOK, TableInv, NEW i \in Investor, NEW B \in SUBSET Mint, SweepsIn(i, B)
    PROVE  /\ B \subseteq weighted \/ (dep[i].since = "tie" /\ SameSecond)
           /\ B \subseteq dep[i].completed /\ dep[i].open
           /\ B \cap dep[i].landed = {}
  BY DEF TypeOK, Session, TableInv, LegsSound, SweepsIn, Sweepable, AbortDirection, IsComplete,
         Stale

\* A blank session is sound.
LEMMA BlankLegsSound == LegsSound(NoSession)
  BY DEF LegsSound, NoSession

\* Deposit instructions keep sessions within the table.
LEMMA DepositKeepsTable ==
    ASSUME TypeOK, TableInv, NEW i \in Investor, DepositSteps(i), UNCHANGED rs
    PROVE  TableInv'
<1> DEFINE s == dep[i]
<1>0. LegsSound(s)
  BY DEF TableInv
<1>1. ASSUME UNCHANGED vaultVars PROVE UNCHANGED weighted
  BY <1>1 DEF vaultVars
<1>2. CASE DepositInit(i)
  <2>1. PICK amount \in Amounts, mark \in LiveMarks :
          dep' = [dep EXCEPT ![i] =
                   [NoSession EXCEPT !.open = TRUE, !.amount = amount, !.mark = mark,
                                     !.count = Cardinality(table), !.legs = weighted,
                                     !.residue = TRUE]]
    BY <1>2 DEF DepositInit
  <2>2. LegsSound([NoSession EXCEPT !.open = TRUE, !.amount = amount, !.mark = mark,
                                     !.count = Cardinality(table), !.legs = weighted,
                                     !.residue = TRUE])
    BY DEF LegsSound, NoSession
  <2>3. UNCHANGED vaultVars
    BY <1>2 DEF DepositInit
  <2>4. QED
    BY <1>1, <2>1, <2>2, <2>3, OthersLegsSound
<1>3. ASSUME NEW B \in SUBSET Mint, DepositSwapBatch(i, B) PROVE TableInv'
  <2>1. PICK left \in BOOLEAN :
          dep' = [dep EXCEPT ![i] = [s EXCEPT !.completed = @ \cup B, !.residue = left]]
    BY <1>3, DepositAssumption DEF DepositSwapBatch, TypeOK
  <2>2. LegsSound([s EXCEPT !.completed = @ \cup B, !.residue = left])
    BY <1>0, <1>3 DEF LegsSound, DepositSwapBatch, TypeOK, Session
  <2>3. UNCHANGED vaultVars
    BY <1>3 DEF DepositSwapBatch
  <2>4. QED
    BY <1>1, <2>1, <2>2, <2>3, OthersLegsSound
<1>4. ASSUME NEW B \in SUBSET Mint, NEW who, DepositSweepRefund(i, B, who) PROVE TableInv'
  <2>1. dep' = [dep EXCEPT ![i] = [s EXCEPT !.swept = @ \cup B, !.aborting = TRUE]]
    BY <1>4 DEF DepositSweepRefund, TypeOK
  <2>2. LegsSound([s EXCEPT !.swept = @ \cup B, !.aborting = TRUE])
    BY <1>0, <1>4 DEF LegsSound, DepositSweepRefund, Sweepable, TypeOK, Session
  <2>3. UNCHANGED vaultVars
    BY <1>4 DEF DepositSweepRefund
  <2>4. QED
    BY <1>1, <2>1, <2>2, <2>3, OthersLegsSound
<1>5. ASSUME NEW B \in SUBSET Mint, DepositSweepCommit(i, B) PROVE TableInv'
  <2>1. PICK mark \in LiveMarks \cup {s.mark} :
          dep' = [dep EXCEPT ![i] = [s EXCEPT !.swept = B, !.landed = B, !.mark = mark]]
    BY <1>5 DEF DepositSweepCommit, TypeOK
  <2>2. LegsSound([s EXCEPT !.swept = B, !.landed = B, !.mark = mark])
    BY <1>0, <1>5, SweptInIsWeighted DEF LegsSound, DepositSweepCommit, TypeOK, Session
  <2>3. QED
    BY <1>5, <2>1, <2>2, OthersLegsSound DEF DepositSweepCommit
<1>6. ASSUME NEW B \in SUBSET Mint, DepositSweepMore(i, B) PROVE TableInv'
  <2>1. dep' = [dep EXCEPT ![i] = [s EXCEPT !.swept = @ \cup B, !.landed = @ \cup B]]
    BY <1>6 DEF DepositSweepMore, TypeOK
  <2>2. LegsSound([s EXCEPT !.swept = @ \cup B, !.landed = @ \cup B])
    BY <1>0, <1>6, SweptInIsWeighted DEF LegsSound, DepositSweepMore, TypeOK, Session
  <2>3. QED
    BY <1>6, <2>1, <2>2, OthersLegsSound DEF DepositSweepMore
<1>7. CASE DepositSettle(i)
  BY <1>7, BlankLegsSound, OthersLegsSound DEF DepositSettle
<1>8. ASSUME NEW who, DepositAbort(i, who) PROVE TableInv'
  BY <1>1, <1>8, BlankLegsSound, OthersLegsSound DEF DepositAbort
<1>9. CASE DepositForceRelease(i)
  <2>1. dep' = [dep EXCEPT ![i] = [s EXCEPT !.aborting = TRUE]]
    BY <1>9 DEF DepositForceRelease, TypeOK
  <2>2. LegsSound([s EXCEPT !.aborting = TRUE])
    BY <1>0 DEF LegsSound, TypeOK, Session
  <2>3. QED
    BY <1>9, <2>1, <2>2, OthersLegsSound DEF DepositForceRelease
<1>10. QED
  BY <1>2, <1>3, <1>4, <1>5, <1>6, <1>7, <1>8, <1>9 DEF DepositSteps, DepositWork

\* Weights are only ever taken away by the settle of a basket change.
LEMMA WeightsStay ==
    ASSUME TypeOK, VaultAdmin \/ RestructureSteps \/ Issuers
    PROVE  weighted \subseteq weighted'
<1> USE DEF vaultVars, TypeOK, LifecycleTypeOK, VaultTypeOK
<1>1. CASE VaultAdmin
  BY <1>1 DEF VaultAdmin, SetProtocolPaused, PauseVault, UnpauseVault, CloseVault,
              FinalizeClose, Rebalance, RebalanceSwap, SweepToUsdc
<1>2. CASE RestructureSteps
  BY <1>2 DEF RestructureSteps, RestructureInit, RestructureSwapBatch, RestructureAbort,
              CloseStranded, AdminClearStranded, RescueUntracked
<1>3. CASE Issuers
  BY <1>3 DEF Issuers, IssuerSets
<1>4. QED
  BY <1>1, <1>2, <1>3

\* Every step keeps the sessions that no basket change has overtaken within the table.
LEMMA NextKeepsTable ==
    ASSUME TypeOK, TableInv, [Next]_vars
    PROVE  TableInv'
<1>1. CASE Deposits
  BY <1>1, DepositKeepsTable DEF Deposits
<1>2. CASE BasketChanged
  <2>1. ASSUME NEW i \in Investor PROVE LegsSound(dep[i])'
    <3>1. dep'[i] = [dep[i] EXCEPT !.since = IF ~dep[i].open THEN "none"
                                              ELSE IF dep[i].age > 0 THEN "older"
                                              ELSE IF @ = "older" THEN @ ELSE "tie"]
      BY <1>2 DEF BasketChanged, Dated
    <3>2. dep[i] \in Session /\ LegsSound(dep[i])
      BY DEF TypeOK, TableInv
    <3>3. dep[i].open => SameSecond \/ dep[i].age > 0
      BY <1>2 DEF BasketChanged
    <3>4. QED
      BY <3>1, <3>2, <3>3 DEF LegsSound, Session
  <2>2. QED
    BY <2>1 DEF TableInv
<1>3. CASE OthersAct
  <2>1. weighted \subseteq weighted' /\ UNCHANGED dep
    BY <1>3, WeightsStay DEF OthersAct
  <2>2. QED
    BY <2>1 DEF TableInv, LegsSound
<1>4. CASE Withdrawals
  BY <1>4 DEF Withdrawals, WithdrawReturns, TableInv, LegsSound
<1>5. CASE Tick
  <2>1. ASSUME NEW i \in Investor PROVE LegsSound(dep[i])'
    <3>1. PICK x : dep'[i] = [dep[i] EXCEPT !.age = x] \/ dep'[i] = dep[i]
      BY <1>5 DEF Tick
    <3>2. dep[i] \in Session /\ LegsSound(dep[i]) /\ UNCHANGED weighted
      BY <1>5 DEF TypeOK, TableInv, Tick, vaultVars
    <3>3. QED
      BY <3>1, <3>2 DEF LegsSound, Session
  <2>2. QED
    BY <2>1 DEF TableInv
<1>6. CASE UNCHANGED vars
  BY <1>6 DEF vars, vaultVars, TableInv, LegsSound
<1>7. QED
  BY <1>1, <1>2, <1>3, <1>4, <1>5, <1>6 DEF Next

\* So it is for the start, and for every state.
LEMMA TableAlways == Spec => []TableInv
<1>1. Init => TableInv
  BY BlankLegsSound DEF Init, TableInv, LegsSound, NoSession
<1>2. IInv /\ TableInv /\ [Next]_vars => TableInv'
  BY NextKeepsTable DEF IInv
<1>3. QED
  BY <1>1, <1>2, Inductive, PTL DEF Spec

\* A deposit changes price or direction only through its own instructions.
LEMMA OnlyDepositsEnter ==
    ASSUME IInv, [Next]_vars, NEW i \in Investor,
           \/ ~dep[i].open /\ dep'[i].open
           \/ ~IsCommitted(dep[i]) /\ IsCommitted(dep'[i])
    PROVE  status = "Active" /\ stranded = 0
<1> USE DEF IsCommitted
<1>0. dep[i] \in Session
  BY DEF IInv, TypeOK
<1>1. CASE Deposits
  <2>1. PICK j \in Investor : DepositSteps(j)
    BY <1>1 DEF Deposits
  <2>2. CASE i # j
    BY <2>1, <2>2
    DEF DepositSteps, DepositWork, DepositInit, DepositSwapBatch, DepositSweepRefund, DepositSweepCommit,
        DepositSweepMore, DepositSettle, DepositAbort, DepositForceRelease, IInv, TypeOK
  <2>3. CASE DepositInit(i)
    BY <2>3 DEF DepositInit, Reorganisable, NoStrandedValue
  <2>4. ASSUME NEW B \in SUBSET Mint, DepositSwapBatch(i, B) PROVE FALSE
    BY <1>0, <2>4 DEF DepositSwapBatch, IInv, TypeOK, Session
  <2>5. ASSUME NEW B \in SUBSET Mint, NEW who, DepositSweepRefund(i, B, who) PROVE FALSE
    BY <1>0, <2>5 DEF DepositSweepRefund, Sweepable, IInv, TypeOK, Session
  <2>6. ASSUME NEW B \in SUBSET Mint, DepositSweepCommit(i, B)
        PROVE  status = "Active" /\ stranded = 0
    BY <2>6 DEF DepositSweepCommit, SweepsIn, AbortDirection
  <2>7. ASSUME NEW B \in SUBSET Mint, DepositSweepMore(i, B) PROVE FALSE
    BY <1>0, <2>7 DEF DepositSweepMore, SweepsIn, Sweepable, AbortDirection, IInv, TypeOK, Session
  <2>8. CASE DepositSettle(i)
    BY <2>8 DEF DepositSettle, NoSession, IInv, TypeOK
  <2>9. ASSUME NEW who, DepositAbort(i, who) PROVE FALSE
    BY <2>9 DEF DepositAbort, NoSession, IInv, TypeOK
  <2>10. CASE DepositForceRelease(i)
    BY <1>0, <2>10 DEF DepositForceRelease, IInv, TypeOK, Session
  <2>11. QED
    BY <2>1, <2>2, <2>3, <2>4, <2>5, <2>6, <2>7, <2>8, <2>9, <2>10 DEF DepositSteps, DepositWork
<1>2. CASE BasketChanged
  BY <1>0, <1>2 DEF BasketChanged, Dated, Session
<1>3. CASE OthersAct
  BY <1>3 DEF OthersAct
<1>4. CASE Withdrawals
  BY <1>4 DEF Withdrawals
<1>5. CASE Tick
  BY <1>0, <1>5 DEF Tick, Session
<1>6. CASE UNCHANGED vars
  BY <1>6 DEF vars
<1>7. QED
  BY <1>1, <1>2, <1>3, <1>4, <1>5, <1>6 DEF Next

\* What a deposit lands in the vault is in the table the vault is valued by, whoever changed
\* the basket since, but for the session opened in the very second of that change.
THEOREM DepositsLandOnTable == Spec => []UntiedLandsOnTable
<1>1. IInv /\ TableInv => UntiedLandsOnTable
  BY DEF IInv, TypeOK, LifecycleTypeOK, VaultTypeOK, CommitInv, CommittedSound, TableInv, Stale,
         LegsSound, UntiedLandsOnTable, Committed, IsCommitted, IsComplete, Session
<1>2. QED
  BY <1>1, TableAlways, Inductive, PTL

\* Basket changes, their quarantines and the withdrawals that land meanwhile: the status
\* and the session account never disagree.
THEOREM RestructuringHasSession == Spec => []SessionMatchesStatus
<1>1. Init => SessionMatchesStatus
  BY DEF Init, LifecycleInit, VaultInit, NoRestructure, SessionMatchesStatus
<1>2. IInv /\ SessionMatchesStatus /\ [Next]_vars => SessionMatchesStatus'
  <2> SUFFICES ASSUME IInv, SessionMatchesStatus, [Next]_vars PROVE SessionMatchesStatus'
    OBVIOUS
  <2>0. LifecycleTypeOK
    BY DEF IInv, TypeOK
  <2>1. CASE Deposits
    BY <2>1
    DEF Deposits, DepositSteps, DepositWork, DepositInit, DepositSwapBatch, DepositSweepRefund, SweepsIn,
        DepositSweepCommit, DepositSweepMore, DepositSettle, DepositAbort,
        DepositForceRelease, vaultVars, SessionMatchesStatus
  <2>2. CASE BasketChanged \/ OthersAct
    BY <2>0, <2>2, SessionKeepsMatching DEF BasketChanged, OthersAct
  <2>3. CASE Withdrawals
    BY <2>3 DEF Withdrawals, WithdrawReturns, Landed, FlagAfterReturn, SessionMatchesStatus
  <2>4. CASE Tick
    BY <2>0, <2>4 DEF Tick, vaultVars, SessionMatchesStatus, LifecycleTypeOK, RestructureSession
  <2>5. CASE UNCHANGED vars
    BY <2>5 DEF vars, vaultVars, SessionMatchesStatus
  <2>6. QED
    BY <2>1, <2>2, <2>3, <2>4, <2>5 DEF Next
<1>3. QED
  BY <1>1, <1>2, Inductive, PTL DEF Spec

-----------------------------------------------------------------------------
(* The reservation *)

\* While a deposit is committed, pending_committed_shares is at least what its settle will
\* mint: a withdrawal in between divides by enough shares.
THEOREM ReservationSuffices == Spec => []ReservationCoversMint
<1>1. IInv => ReservationCoversMint
  <2> SUFFICES ASSUME IInv, NEW i \in Committed, dep[i].mark.tsb > 0,
                      dep[i].amount >= MinInitialShares, NEW valueIn \in 1..dep[i].amount
               PROVE  Minted(dep[i].amount, dep[i].mark, valueIn) <= pending
    BY DEF ReservationCoversMint
  <2>1. dep[i].mark \in Mark /\ dep[i].amount \in {0} \cup Amounts
    BY DEF IInv, TypeOK, Session, Committed
  <2>2. pending = Phantom(dep[i].amount, dep[i].mark)
    BY DEF IInv, CommitInv, CommittedExact, Reserved
  <2>3. dep[i].mark \in [tsb: Nat, tvl: Nat] /\ dep[i].amount \in Nat
    BY <2>1, MarkIsNat, AmountIsNat
  <2>4. QED
    BY <2>2, <2>3, PhantomCovers
<1>2. QED
  BY <1>1, Inductive, PTL
-----------------------------------------------------------------------------
(* The exit of last resort *)

Stuck(s) ==
    /\ s.age > ForceTimeout
    /\ \E m \in (s.legs \ s.swept) \cup {USDC} : m \in Freezable /\ blocked[m] # "no"

\* Whoever calls it, only force release ends a commitment without ending its session: the
\* direction rule sends no committed session back.
LEMMA OnlyForceReleases ==
    ASSUME IInv, [Next]_vars, NEW i \in Investor,
           IsCommitted(dep[i]), dep'[i].open, dep'[i].aborting
    PROVE  Stuck(dep[i])
<1> USE DEF IsCommitted
<1>0. dep[i] \in Session /\ dep \in [Investor -> Session] /\ IsComplete(dep[i])
      /\ ~Stale(dep[i])
  BY DEF IInv, TypeOK, CommitInv, CommittedSound, Committed
<1>1. CASE Deposits
  <2>1. PICK j \in Investor : DepositSteps(j)
    BY <1>1 DEF Deposits
  <2>2. CASE i # j
    BY <1>0, <2>1, <2>2
    DEF DepositSteps, DepositWork, DepositInit, DepositSwapBatch, DepositSweepRefund, DepositSweepCommit,
        DepositSweepMore, DepositSettle, DepositAbort, DepositForceRelease
  <2>3. CASE DepositInit(i)
    BY <2>3 DEF DepositInit
  <2>4. ASSUME NEW B \in SUBSET Mint, DepositSwapBatch(i, B) PROVE FALSE
    BY <1>0, <2>4 DEF DepositSwapBatch, Session
  <2>5. ASSUME NEW B \in SUBSET Mint, NEW who, DepositSweepRefund(i, B, who) PROVE FALSE
    BY <1>0, <2>5 DEF DepositSweepRefund, AbortDirection
  <2>6. ASSUME NEW B \in SUBSET Mint, DepositSweepCommit(i, B) PROVE FALSE
    BY <2>6 DEF DepositSweepCommit
  <2>7. ASSUME NEW B \in SUBSET Mint, DepositSweepMore(i, B) PROVE FALSE
    BY <1>0, <2>7 DEF DepositSweepMore, Session
  <2>8. ASSUME DepositSettle(i) \/ \E who \in {"investor", "crank"} : DepositAbort(i, who)
        PROVE  FALSE
    BY <1>0, <2>8 DEF DepositSettle, DepositAbort, NoSession
  <2>9. CASE DepositForceRelease(i)
    <3>1. CASE FullySwept(dep[i])
      BY <2>9, <3>1
      DEF DepositForceRelease, FreezeProof, SettleBlocked, EscrowMoves, VaultMoves, Stuck
    <3>2. CASE ~FullySwept(dep[i])
      BY <1>0, <2>9, <3>2
      DEF DepositForceRelease, FreezeProof, IsComplete, EscrowMoves, VaultMoves, Stuck
    <3>3. QED
      BY <3>1, <3>2
  <2>10. QED
    BY <2>1, <2>2, <2>3, <2>4, <2>5, <2>6, <2>7, <2>8, <2>9 DEF DepositSteps, DepositWork
<1>2. CASE BasketChanged
  BY <1>0, <1>2 DEF BasketChanged, Dated, Session
<1>3. CASE OthersAct \/ Withdrawals \/ UNCHANGED vars
  BY <1>3 DEF OthersAct, Withdrawals, vars
<1>4. CASE Tick
  BY <1>0, <1>4 DEF Tick, Session
<1>5. QED
  BY <1>1, <1>2, <1>3, <1>4 DEF Next

\* A committed deposit is taken off the lock only when it is overdue and an issuer's freeze
\* stops what its settlement still needs, whatever else has happened to the vault.
THEOREM ReleaseNeedsFreeze == Spec => ReleaseOnlyIfStuck
<1> DEFINE OnlyIfStuck ==
      \A i \in Investor :
        IsCommitted(dep[i]) /\ dep'[i].open /\ dep'[i].aborting =>
          /\ dep[i].age > ForceTimeout
          /\ \E m \in (dep[i].legs \ dep[i].swept) \cup {USDC} :
                  m \in Freezable /\ blocked[m] # "no"
<1>1. IInv /\ [Next]_vars => [OnlyIfStuck]_vars
  BY OnlyForceReleases DEF Stuck
<1>2. QED
  BY <1>1, Inductive, PTL DEF Spec, ReleaseOnlyIfStuck
=============================================================================
