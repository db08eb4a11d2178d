-------------------------- MODULE ShareLedger_proofs ------------------------
(***************************************************************************)
(* What holds of ShareLedger for all investors, amounts, fees, prices and  *)
(* counter widths, one account at a time: the numbers stay numbers, nobody *)
(* keeps a cost basis without shares, and the cached aggregate obeys its   *)
(* cap.  What equates a field of the vault with a sum over all investors   *)
(* is in ShareBooks_proofs.                                                *)
(***************************************************************************)
EXTENDS ShareLedger, Arithmetic_proofs

\* A withdrawal burns something: no slice is a division by zero.
BurnsSomething == \A i \in Investor : wd[i].open \/ wd[i].goods > 0 => wd[i].burn > 0

LInv == LedgerTypeOK /\ BurnsSomething /\ NoIdleBasis

-----------------------------------------------------------------------------
(* Operators *)

\* A share of an amount in basis points lies between nothing and the amount.
LEMMA BpsBounded ==
    ASSUME NEW x \in Nat, NEW bps \in Nat, bps < 10000
    PROVE  Bps(x, bps) \in 0..x
<1>1. x * bps \in Nat /\ x * bps <= 9999 * x
  BY SMT
<1>2. \A n \in Nat : n <= 9999 * x => n \div 10000 \in 0..x
  BY SMT
<1>3. QED
  BY <1>1, <1>2 DEF Bps

\* The entry fee is a number, so what a payment leaves net of it is one too.
LEMMA NetIsInt ==
    ASSUME NEW gross \in Payments
    PROVE  Net(gross) \in Int /\ Net(gross) <= gross
<1>1. gross \in Nat /\ EntryFeeCap \in Nat /\ EntryFeeExemptBelow \in Nat
  BY LedgerAssumption
<1>2. Bps(gross, EntryFeeBps) \in 0..gross
  BY <1>1, FractionAssumption, BpsBounded
<1>3. EntryFee(gross) \in Nat
  BY <1>1, <1>2 DEF EntryFee, Least
<1>4. QED
  BY <1>1, <1>3 DEF Net

\* What is written to two words is read back as a number.
LEMMA StoredIsCounter ==
    ASSUME NEW v \in Nat
    PROVE  Stored(v) \in Counter
<1>1. v \div LowWord \in Nat
  BY LedgerAssumption, Division
<1>2. v % LowWord \in Nat /\ (v \div LowWord) % HighWord \in Nat
  BY <1>1, LedgerAssumption
<1>3. QED
  BY <1>2 DEF Stored, Counter

LEMMA LoadedIsNat ==
    ASSUME NEW w \in Counter
    PROVE  Loaded(w) \in Nat
  BY LedgerAssumption DEF Loaded, Counter

LEMMA MaxCounterIsNat == MaxCounter \in Nat
<1>1. LowWord * HighWord \in Nat \ {0}
  BY LedgerAssumption, SMT
<1>2. QED
  BY <1>1 DEF MaxCounter

\* A deposit session's own numbers.
LEMMA DepositNumbers ==
    ASSUME NEW s \in Deposit
    PROVE  /\ Reserved(s) \in Nat /\ Reserved(s) <= MaxCounter
           /\ ValueIn(s) \in Nat
           /\ ConservativeAdd(s) \in 0..s.amount
           /\ DueToInvestor(s) \in Nat /\ Due(s) \in Nat /\ DeadShares(s.mark) \in Nat
           /\ CostAdded(s) \in Nat
<1>1. /\ s.amount \in Nat /\ s.received \in Nat /\ s.cash \in Nat
      /\ s.mark \in [tsb: Nat, tvl: Nat]
  BY DEF Deposit, Mark
<1>2. ValueIn(s) \in Nat
  BY <1>1 DEF ValueIn, Least
<1>3. Bps(s.amount, MaxSlippageBps) \in 0..s.amount
  BY <1>1, FractionAssumption, BpsBounded
<1>4. ConservativeAdd(s) \in 0..s.amount
  BY <1>1, <1>2, <1>3 DEF ConservativeAdd, Least
<1>5. Reserved(s) \in Nat /\ Reserved(s) <= MaxCounter
  BY <1>1, PhantomType, MaxCounterIsNat DEF Reserved, Least
<1>6. DueToInvestor(s) \in Nat /\ Due(s) \in Nat /\ DeadShares(s.mark) \in Nat
  BY <1>1, <1>2, MintedType DEF DueToInvestor, Due
<1>7. QED
  BY <1>1, <1>2, <1>4, <1>5, <1>6 DEF CostAdded

\* A slice is no more than the balance it is cut from.
LEMMA SliceBounded ==
    ASSUME LedgerTypeOK, NEW burn \in Nat \ {0}, burn <= totalShares, NEW balance \in Nat
    PROVE  Slice(balance, burn) \in 0..balance
<1>1. Loaded(pending) \in Nat /\ Loaded(burned) \in Nat /\ totalShares \in Nat
  BY LoadedIsNat DEF LedgerTypeOK
<1>2. Denominator \in Nat \ {0} /\ burn <= Denominator
  BY <1>1 DEF Denominator
<1>3. QED
  BY <1>2, ProRataBounded DEF Slice

\* The basis a withdrawal takes off is no more than there is, and all there is when no
\* share remains.
LEMMA CostSliceBounded ==
    ASSUME NEW p \in [shares: Nat, cost: Nat], NEW burn \in Nat \ {0}
    PROVE  /\ CostSlice(p, burn) \in 0..p.cost
           /\ p.shares = 0 => CostSlice(p, burn) = p.cost
<1>1. p.shares \in Nat /\ p.cost \in Nat /\ p.shares + burn \in Nat \ {0} /\ burn <= p.shares + burn
  OBVIOUS
<1>2. CostSlice(p, burn) \in 0..p.cost
  BY <1>1, ProRataBounded DEF CostSlice
<1>3. (p.cost * burn) \div burn = p.cost
  BY <1>1, SMT
<1>4. QED
  BY <1>1, <1>2, <1>3 DEF CostSlice

-----------------------------------------------------------------------------
(* Steps *)

\* A blank session is well typed.
LEMMA BlankTyped == NoDeposit \in Deposit /\ NoWithdrawal \in Withdrawal
  BY DEF NoDeposit, NoWithdrawal, Deposit, Withdrawal, Mark

\* The live price is a pair of numbers.
LEMMA LiveMarkTyped == LedgerTypeOK => LiveMark \in Mark /\ Worth \in Nat
  BY DEF LedgerTypeOK, LiveMark, Worth, Mark

\* Releasing a commitment keeps the counters well typed.
LEMMA UncommitTyped ==
    ASSUME LedgerTypeOK, NEW s \in Deposit, Uncommit(s)
    PROVE  committed' \in Nat /\ pending' \in Counter /\ burned' \in Counter
<1>1. Loaded(pending) \in Nat /\ Reserved(s) \in Nat /\ committed \in Nat
  BY LoadedIsNat, DepositNumbers DEF LedgerTypeOK
<1>2. SaturatingSub(Loaded(pending), Reserved(s)) \in Nat
  BY <1>1, SaturatingSubIsNat
<1>3. QED
  BY <1>1, <1>2, SaturatingSubIsNat, StoredIsCounter DEF Uncommit, LedgerTypeOK

\* Deposit instructions keep every number a number, and leave withdrawals alone.
LEMMA DepositStepTyped ==
    ASSUME LInv, NEW i \in Investor, DepositSteps(i)
    PROVE  LedgerTypeOK' /\ wd' = wd
<1> DEFINE s == dep[i]
<1>0. /\ LedgerTypeOK /\ s \in Deposit /\ dep \in [Investor -> Deposit]
      /\ pos[i] \in [shares: Nat, cost: Nat] /\ opened \in Nat
  BY DEF LInv, LedgerTypeOK
<1>s. s.amount \in Nat /\ s.cash \in Nat /\ s.goods \in Nat
  BY <1>0 DEF Deposit
<1> USE DEF books, caches, counters, accounts
<1>1. CASE DepositInit(i)
  <2>1. PICK gross \in Payments :
          /\ Net(gross) > 0
          /\ totalTvl' = totalTvl + Net(gross)
          /\ dep' = [dep EXCEPT ![i] = [NoDeposit EXCEPT !.open = TRUE, !.mark = LiveMark,
                                           !.amount = Net(gross), !.cash = Net(gross)]]
    BY <1>1 DEF DepositInit
  <2>2. Net(gross) \in Nat
    BY <2>1, NetIsInt
  <2>3. [NoDeposit EXCEPT !.open = TRUE, !.mark = LiveMark,
                          !.amount = Net(gross), !.cash = Net(gross)] \in Deposit
    BY <1>0, <2>2, LiveMarkTyped DEF NoDeposit, Deposit
  <2>4. dep' \in [Investor -> Deposit]
    BY <1>0, <2>1, <2>3
  <2>5. tvlLast' \in Nat /\ totalTvl' \in Nat /\ opened' \in Nat
    BY <1>0, <1>1, <2>1, <2>2, LiveMarkTyped DEF DepositInit, SessionOpens, LedgerTypeOK
  <2>6. QED
    BY <1>0, <1>1, <2>4, <2>5 DEF DepositInit, LedgerTypeOK
<1>2. CASE DepositBuy(i)
  <2>1. PICK dust \in 0..1, loss \in Losses :
          /\ dust + loss < s.cash
          /\ LET value == dep[i].cash - dust - loss
             IN dep' = [dep EXCEPT ![i].bought = TRUE, ![i].cash = dust,
                                   ![i].goods = value, ![i].received = value]
    BY <1>2 DEF DepositBuy
  <2>2. dust \in Nat /\ s.cash - dust - loss \in Nat
    BY <1>s, <2>1, LedgerAssumption
  <2>3. dep' \in [Investor -> Deposit]
    BY <1>0, <2>1, <2>2 DEF Deposit
  <2>4. QED
    BY <1>0, <1>2, <2>3 DEF DepositBuy, LedgerTypeOK
<1>3. CASE DepositCommit(i)
  <2> DEFINE marked == [s EXCEPT !.landed = TRUE, !.mark = LiveMark]
  <2>0. marked \in Deposit /\ marked.goods = s.goods
    BY <1>0, LiveMarkTyped DEF Deposit
  <2>1. PICK v \in 1..s.goods :
          /\ dep' = [dep EXCEPT ![i] = [marked EXCEPT !.goods = @ - v]]
          /\ goods' = goods + v
    BY <1>3 DEF DepositCommit, CommitMark
  <2>r. pending' = Stored(Loaded(pending) + Reserved(marked))
    BY <1>3 DEF DepositCommit, CommitMark
  <2> HIDE DEF marked
  <2>2. v \in Nat /\ s.goods - v \in Nat
    BY <1>s
  <2>3. dep' \in [Investor -> Deposit]
    BY <1>0, <2>0, <2>1, <2>2 DEF Deposit
  <2>4. pending' \in Counter
    <3>1. Reserved(marked) \in Nat
      BY <2>0, DepositNumbers
    <3>2. Loaded(pending) \in Nat
      BY <1>0, LoadedIsNat DEF LedgerTypeOK
    <3>3. QED
      BY <2>r, <3>1, <3>2, StoredIsCounter
  <2>5. goods' \in Nat /\ committed' \in Nat /\ tvlLast' \in Nat
    BY <1>0, <1>3, <2>1, <2>2, LiveMarkTyped DEF DepositCommit, LedgerTypeOK
  <2>6. QED
    BY <1>0, <1>3, <2>3, <2>4, <2>5 DEF DepositCommit, LedgerTypeOK
<1>4. CASE DepositLand(i)
  <2>1. PICK v \in 1..s.goods :
          /\ dep' = [dep EXCEPT ![i] = [s EXCEPT !.goods = @ - v]]
          /\ goods' = goods + v
    BY <1>0, <1>4 DEF DepositLand
  <2>2. v \in Nat /\ s.goods - v \in Nat
    BY <1>s
  <2>3. dep' \in [Investor -> Deposit]
    BY <1>0, <2>1, <2>2 DEF Deposit
  <2>4. goods' \in Nat
    BY <1>0, <2>1, <2>2 DEF LedgerTypeOK
  <2>5. QED
    BY <1>0, <1>4, <2>3, <2>4 DEF DepositLand, LedgerTypeOK
<1>5. CASE DepositSettle(i)
  <2>1. /\ ConservativeAdd(s) \in Nat /\ s.amount - ConservativeAdd(s) \in Nat
        /\ DueToInvestor(s) \in Nat /\ Due(s) \in Nat /\ DeadShares(s.mark) \in Nat
        /\ CostAdded(s) \in Nat
    BY <1>0, <1>s, DepositNumbers
  <2>2. dep' \in [Investor -> Deposit]
    BY <1>0, <1>5, BlankTyped DEF DepositSettle
  <2>3. committed' \in Nat /\ pending' \in Counter /\ burned' \in Counter
    BY <1>0, <1>5, UncommitTyped DEF DepositSettle
  <2>4. pos' \in [Investor -> [shares: Nat, cost: Nat]]
    <3> DEFINE x == pos[i].shares + DueToInvestor(s)
               y == pos[i].cost + CostAdded(s)
    <3>1. x \in Nat /\ y \in Nat
      BY <1>0, <2>1
    <3>2. pos' = [pos EXCEPT ![i].shares = x, ![i].cost = y]
      BY <1>5 DEF DepositSettle
    <3> HIDE DEF x, y
    <3>3. QED
      BY <1>0, <3>1, <3>2 DEF LedgerTypeOK
  <2>5. /\ idle' \in Nat /\ totalShares' \in Nat /\ dead' \in Nat /\ aggCost' \in Nat
        /\ tvlLast' \in Nat
    BY <1>0, <1>s, <1>5, <2>1 DEF DepositSettle, LedgerTypeOK, SharesBefore
  <2>6. totalTvl' \in Nat
    BY <1>0, <1>5, <2>1, SaturatingSubIsNat DEF DepositSettle, LedgerTypeOK
  <2>7. QED
    BY <1>0, <1>5, <2>2, <2>3, <2>4, <2>5, <2>6 DEF DepositSettle, LedgerTypeOK
<1>6. CASE DepositSweepRefund(i)
  <2>1. dep' \in [Investor -> Deposit]
    BY <1>0, <1>6 DEF DepositSweepRefund, Deposit
  <2>2. QED
    BY <1>0, <1>6, <2>1 DEF DepositSweepRefund, LedgerTypeOK
<1>7. CASE DepositAbort(i)
  <2>1. dep' \in [Investor -> Deposit]
    BY <1>0, <1>7, BlankTyped DEF DepositAbort
  <2>2. totalTvl' \in Nat
    BY <1>0, <1>s, <1>7, SaturatingSubIsNat DEF DepositAbort, LedgerTypeOK
  <2>3. QED
    BY <1>0, <1>7, <2>1, <2>2 DEF DepositAbort, LedgerTypeOK
<1>8. CASE DepositForceRelease(i)
  <2>1. dep' \in [Investor -> Deposit]
    BY <1>0, <1>8 DEF DepositForceRelease, Deposit
  <2>2. committed' \in Nat /\ pending' \in Counter /\ burned' \in Counter
    BY <1>0, <1>8, UncommitTyped DEF DepositForceRelease
  <2>3. QED
    BY <1>0, <1>8, <2>1, <2>2 DEF DepositForceRelease, LedgerTypeOK
<1>9. QED
  BY <1>1, <1>2, <1>3, <1>4, <1>5, <1>6, <1>7, <1>8
  DEF DepositSteps, DepositInit, DepositBuy, DepositCommit, DepositLand, DepositSettle,
      DepositSweepRefund, DepositAbort, DepositForceRelease

\* Withdrawal instructions keep every number a number: none divides by nothing, cuts more
\* than there is, or burns what is not held.
LEMMA WithdrawStepTyped ==
    ASSUME LInv, NEW i \in Investor, WithdrawSteps(i)
    PROVE  LedgerTypeOK' /\ BurnsSomething' /\ dep' = dep
<1> DEFINE w == wd[i]
<1>0. /\ LedgerTypeOK /\ w \in Withdrawal /\ wd \in [Investor -> Withdrawal]
      /\ pos[i] \in [shares: Nat, cost: Nat] /\ opened \in Nat
  BY DEF LInv, LedgerTypeOK
<1>s. /\ w.burn \in Nat /\ w.cash \in Nat /\ w.goods \in Nat /\ w.marked \in Nat
      /\ w.open \/ w.goods > 0 => w.burn > 0
  BY <1>0 DEF Withdrawal, LInv, BurnsSomething
<1>b. ASSUME NEW v \in Withdrawal, wd' = [wd EXCEPT ![i] = v], v.open \/ v.goods > 0 => v.burn > 0
      PROVE  wd' \in [Investor -> Withdrawal] /\ BurnsSomething'
  BY <1>0, <1>b DEF LInv, BurnsSomething
<1>n. ASSUME wd' = [wd EXCEPT ![i] = NoWithdrawal]
      PROVE  wd' \in [Investor -> Withdrawal] /\ BurnsSomething'
  BY <1>b, <1>n, BlankTyped DEF NoWithdrawal
<1> USE DEF books, caches, counters, accounts
<1>1. CASE WithdrawInit(i)
  <2>1. PICK burn, cash, lump :
          /\ burn \in Burns
          /\ cash \in {0, Slice(idle, burn)} /\ lump \in {0, Slice(goods, burn)}
          /\ MayBurn(i, burn)
          /\ wd' = [wd EXCEPT ![i] = [NoWithdrawal EXCEPT
                      !.open = TRUE, !.burn = burn, !.cash = cash, !.goods = lump,
                      !.marked = (tvlLast * burn) \div totalShares]]
          /\ idle' = idle - cash
          /\ goods' = goods - lump
          /\ totalShares' = totalShares - burn
          /\ pos' = [pos EXCEPT ![i].shares = @ - burn]
    BY <1>1 DEF WithdrawInit
  <2>2. burn \in Nat \ {0} /\ burn <= pos[i].shares /\ burn <= totalShares
    BY <2>1, LedgerAssumption DEF MayBurn
  <2>3. idle \in Nat /\ goods \in Nat /\ totalShares \in Nat /\ tvlLast \in Nat
    BY <1>0 DEF LedgerTypeOK
  <2>4. cash \in 0..idle /\ lump \in 0..goods
    <3>1. Slice(idle, burn) \in 0..idle /\ Slice(goods, burn) \in 0..goods
      BY <1>0, <2>2, <2>3, SliceBounded
    <3>2. QED
      BY <2>1, <2>3, <3>1
  <2>5. (tvlLast * burn) \div totalShares \in Nat
    BY <2>2, <2>3, ProRataBounded
  <2>6. wd' \in [Investor -> Withdrawal] /\ BurnsSomething'
    <3> DEFINE x == (tvlLast * burn) \div totalShares
               v == [NoWithdrawal EXCEPT !.open = TRUE, !.burn = burn, !.cash = cash,
                                         !.goods = lump, !.marked = x]
    <3>1. cash \in Nat /\ lump \in Nat /\ x \in Nat /\ burn \in Nat
      BY <2>2, <2>3, <2>4, <2>5
    <3> HIDE DEF x
    <3>2. v \in Withdrawal /\ v.burn > 0
      <4>1. v \in Withdrawal /\ v.burn = burn
        BY <3>1 DEF NoWithdrawal, Withdrawal
      <4>2. burn > 0
        BY <2>2
      <4>3. QED
        BY <4>1, <4>2
    <3>3. wd' = [wd EXCEPT ![i] = v]
      BY <2>1 DEF x
    <3> HIDE DEF v
    <3>4. QED
      BY <1>b, <3>2, <3>3
  <2>7. pos' \in [Investor -> [shares: Nat, cost: Nat]]
    <3> DEFINE x == pos[i].shares - burn
    <3>1. x \in Nat /\ pos' = [pos EXCEPT ![i].shares = x]
      BY <1>0, <2>1, <2>2
    <3> HIDE DEF x
    <3>2. QED
      BY <1>0, <3>1 DEF LedgerTypeOK
  <2>8. idle' \in Nat /\ goods' \in Nat /\ totalShares' \in Nat /\ opened' \in Nat
    BY <1>0, <1>1, <2>1, <2>2, <2>3, <2>4 DEF WithdrawInit, SessionOpens
  <2>9. QED
    BY <1>0, <1>1, <2>6, <2>7, <2>8 DEF WithdrawInit, LedgerTypeOK
<1>2. CASE WithdrawSell(i)
  <2>1. PICK loss \in Losses :
          /\ loss <= w.goods
          /\ wd' = [wd EXCEPT ![i].cash = @ + w.goods - loss, ![i].goods = 0, ![i].sold = TRUE]
    BY <1>2 DEF WithdrawSell
  <2> DEFINE x == w.cash + w.goods - loss
             v == [w EXCEPT !.cash = x, !.goods = 0, !.sold = TRUE]
  <2>2. x \in Nat
    BY <1>s, <2>1, LedgerAssumption
  <2>3. wd' = [wd EXCEPT ![i] = [w EXCEPT !.cash = x, !.goods = 0, !.sold = TRUE]]
    BY <1>0, <2>1
  <2> HIDE DEF x
  <2>4. v \in Withdrawal /\ v.open = w.open /\ v.goods = 0 /\ v.burn = w.burn
    BY <1>0, <2>2 DEF Withdrawal
  <2>5. QED
    BY <1>0, <1>s, <1>2, <1>b, <2>3, <2>4 DEF WithdrawSell, LedgerTypeOK
<1>3. CASE WithdrawClaim(i)
  <2> DEFINE v == [w EXCEPT !.goods = 0, !.sold = TRUE]
  <2>1. wd' = [wd EXCEPT ![i] = v]
    BY <1>0, <1>3 DEF WithdrawClaim
  <2>2. v \in Withdrawal /\ v.open = w.open /\ v.goods = 0 /\ v.burn = w.burn
    BY <1>0 DEF Withdrawal
  <2>3. QED
    BY <1>0, <1>s, <1>3, <1>b, <2>1, <2>2 DEF WithdrawClaim, LedgerTypeOK
<1>4. CASE WithdrawUnwind(i)
  <2>1. PICK g \in 1..w.goods :
          /\ wd' = [wd EXCEPT ![i].goods = @ - g, ![i].aborting = TRUE]
          /\ goods' = goods + g
    BY <1>4 DEF WithdrawUnwind
  <2> DEFINE x == w.goods - g
             v == [w EXCEPT !.goods = x, !.aborting = TRUE]
  <2>2. x \in Nat /\ g \in Nat /\ w.burn > 0
    BY <1>s, <2>1
  <2>3. wd' = [wd EXCEPT ![i] = [w EXCEPT !.goods = x, !.aborting = TRUE]]
    BY <1>0, <2>1
  <2> HIDE DEF x
  <2>4. v \in Withdrawal /\ v.burn > 0
    BY <1>0, <1>s, <2>2 DEF Withdrawal
  <2>5. wd' \in [Investor -> Withdrawal] /\ BurnsSomething'
    BY <1>b, <2>3, <2>4
  <2>6. burned' \in Counter
    <3>1. burned \in Counter /\ Loaded(burned) + w.burn \in Nat
      BY <1>0, <1>s, LoadedIsNat DEF LedgerTypeOK
    <3>2. QED
      BY <1>4, <3>1, StoredIsCounter DEF WithdrawUnwind
  <2>7. goods' \in Nat
    BY <1>0, <2>1, <2>2 DEF LedgerTypeOK
  <2>8. QED
    BY <1>0, <1>4, <2>5, <2>6, <2>7 DEF WithdrawUnwind, LedgerTypeOK
<1>5. CASE WithdrawSettle(i)
  <2> DEFINE cost == CostSlice(pos[i], w.burn)
             gain == SaturatingSub(w.cash, cost)
             fee == Bps(gain, PerfFeeBps)
             cut == Bps(fee, ProtocolCutBps)
  <2>1. w.burn \in Nat \ {0} /\ wd' = [wd EXCEPT ![i] = NoWithdrawal]
    BY <1>s, <1>5 DEF WithdrawSettle
  <2>2. cost \in 0..pos[i].cost
    BY <1>0, <2>1, CostSliceBounded
  <2>3. cost \in Nat
    BY <1>0, <2>2
  <2> HIDE DEF cost
  <2>4. gain \in Nat
    BY <1>s, <2>3, SaturatingSubIsNat
  <2> HIDE DEF gain
  <2>5. fee \in Nat
    BY <2>4, FractionAssumption, BpsBounded
  <2> HIDE DEF fee
  <2>6. cut \in 0..fee
    BY <2>5, FractionAssumption, BpsBounded
  <2> HIDE DEF cut
  <2>7. idle' \in Nat
    <3>1. PICK unpaid \in {0, cut, fee - cut, fee} : idle' = idle + unpaid
      BY <1>5 DEF WithdrawSettle, cost, gain, fee, cut
    <3>2. unpaid \in Nat
      BY <2>5, <2>6, <3>1
    <3>3. QED
      BY <1>0, <3>1, <3>2 DEF LedgerTypeOK
  <2>8. pos' \in [Investor -> [shares: Nat, cost: Nat]]
    <3> DEFINE x == pos[i].cost - cost
    <3>1. x \in Nat /\ pos' = [pos EXCEPT ![i].cost = x]
      BY <1>0, <1>5, <2>2 DEF WithdrawSettle, cost
    <3> HIDE DEF x
    <3>2. QED
      BY <1>0, <3>1 DEF LedgerTypeOK
  <2>9. aggCost' \in Nat /\ totalTvl' \in Nat
    <3>1. aggCost' = SaturatingSub(aggCost, cost) /\ totalTvl' = SaturatingSub(totalTvl, w.marked)
      BY <1>5 DEF WithdrawSettle, cost
    <3>2. QED
      BY <1>0, <1>s, <2>3, <3>1, SaturatingSubIsNat DEF LedgerTypeOK
  <2>10. tvlLast' \in Nat
    <3>1. tvlLast' \in {SaturatingSub(tvlLast, w.cash), idle' + goods}
      BY <1>5 DEF WithdrawSettle
    <3>2. tvlLast \in Nat /\ goods \in Nat
      BY <1>0 DEF LedgerTypeOK
    <3>3. SaturatingSub(tvlLast, w.cash) \in Nat
      BY <1>s, <3>2, SaturatingSubIsNat
    <3>4. idle' + goods \in Nat
      <4>1. \A a, b \in Nat : a + b \in Nat
        OBVIOUS
      <4>2. QED
        BY <2>7, <3>2, <4>1, Zenon
    <3>5. QED
      BY <3>1, <3>3, <3>4
  <2>11. QED
    BY <1>0, <1>5, <1>n, <2>1, <2>7, <2>8, <2>9, <2>10 DEF WithdrawSettle, LedgerTypeOK
<1>6. CASE WithdrawAbort(i)
  <2>1. pos' \in [Investor -> [shares: Nat, cost: Nat]]
    <3> DEFINE x == pos[i].shares + w.burn
    <3>1. x \in Nat /\ pos' = [pos EXCEPT ![i].shares = x]
      BY <1>0, <1>s, <1>6 DEF WithdrawAbort
    <3> HIDE DEF x
    <3>2. QED
      BY <1>0, <3>1 DEF LedgerTypeOK
  <2>2. burned' \in Counter
    <3>1. burned \in Counter /\ SaturatingSub(Loaded(burned), w.burn) \in Nat
      BY <1>0, <1>s, LoadedIsNat, SaturatingSubIsNat DEF LedgerTypeOK
    <3>2. QED
      BY <1>6, <3>1, StoredIsCounter DEF WithdrawAbort
  <2>3. totalShares' \in Nat /\ idle' \in Nat
    BY <1>0, <1>s, <1>6 DEF WithdrawAbort, LedgerTypeOK
  <2>4. wd' = [wd EXCEPT ![i] = NoWithdrawal]
    BY <1>6 DEF WithdrawAbort
  <2>5. QED
    BY <1>0, <1>6, <1>n, <2>1, <2>2, <2>3, <2>4 DEF WithdrawAbort, LedgerTypeOK
<1>7. QED
  BY <1>1, <1>2, <1>3, <1>4, <1>5, <1>6
  DEF WithdrawSteps, WithdrawInit, WithdrawSell, WithdrawClaim, WithdrawUnwind, WithdrawSettle,
      WithdrawAbort

\* No step leaves a cost basis with a position that has neither shares nor a withdrawal.
LEMMA StepKeepsNoIdleBasis ==
    ASSUME LInv, NEW i \in Investor, DepositSteps(i) \/ WithdrawSteps(i)
    PROVE  NoIdleBasis'
<1> DEFINE Idle(j) == pos[j].shares = 0 /\ ~wd[j].open => pos[j].cost = 0
<1>0. /\ LedgerTypeOK /\ dep[i] \in Deposit /\ \A j \in Investor : Idle(j)
      /\ pos \in [Investor -> [shares: Nat, cost: Nat]] /\ wd \in [Investor -> Withdrawal]
      /\ pos[i].shares \in Nat /\ pos[i].cost \in Nat
  BY DEF LInv, LedgerTypeOK, NoIdleBasis
<1>p. ASSUME UNCHANGED <<pos, wd>> PROVE NoIdleBasis'
  BY <1>0, <1>p DEF NoIdleBasis
<1>f. ASSUME \A j \in Investor \ {i} : pos'[j] = pos[j] /\ wd'[j] = wd[j],
             pos'[i].shares = 0 /\ ~wd'[i].open => pos'[i].cost = 0
      PROVE  NoIdleBasis'
  BY <1>0, <1>f DEF NoIdleBasis
<1> USE DEF accounts
<1>1. CASE DepositSettle(i)
  <2> DEFINE d == DueToInvestor(dep[i])
             c == CostAdded(dep[i])
  <2>1. d \in Nat /\ c \in Nat /\ (d = 0 => c = 0)
    BY <1>0, DepositNumbers DEF CostAdded
  <2>2. pos' = [pos EXCEPT ![i].shares = @ + d, ![i].cost = @ + c] /\ wd' = wd
    BY <1>1 DEF DepositSettle
  <2> HIDE DEF d, c
  <2>3. pos'[i].shares = pos[i].shares + d /\ pos'[i].cost = pos[i].cost + c
    BY <1>0, <2>2
  <2>4. \A j \in Investor \ {i} : pos'[j] = pos[j]
    BY <1>0, <2>2
  <2>5. pos'[i].shares = 0 /\ ~wd'[i].open => pos'[i].cost = 0
    <3>1. pos'[i].shares = 0 => pos[i].shares = 0 /\ d = 0 /\ c = 0
      BY <1>0, <2>1, <2>3
    <3>2. QED
      BY <1>0, <2>2, <2>3, <3>1
  <2>6. QED
    BY <1>f, <2>2, <2>4, <2>5
<1>2. CASE DepositSteps(i) /\ ~DepositSettle(i)
  BY <1>2, <1>p
  DEF DepositSteps, DepositInit, DepositBuy, DepositCommit, DepositLand, DepositSweepRefund,
      DepositAbort, DepositForceRelease
<1>3. CASE WithdrawInit(i)
  <2>1. wd'[i].open
    BY <1>0, <1>3 DEF WithdrawInit, NoWithdrawal
  <2>2. \A j \in Investor \ {i} : pos'[j] = pos[j] /\ wd'[j] = wd[j]
    BY <1>0, <1>3 DEF WithdrawInit
  <2>3. QED
    BY <1>f, <2>1, <2>2
<1>4. CASE WithdrawSell(i) \/ WithdrawClaim(i) \/ WithdrawUnwind(i)
  <2>1. pos' = pos /\ \A j \in Investor \ {i} : wd'[j] = wd[j]
    BY <1>0, <1>4 DEF WithdrawSell, WithdrawClaim, WithdrawUnwind
  <2>2. wd'[i].open = wd[i].open
    <3>1. CASE WithdrawSell(i)
      BY <1>0, <3>1 DEF WithdrawSell, Withdrawal
    <3>2. CASE WithdrawClaim(i)
      BY <1>0, <3>2 DEF WithdrawClaim, Withdrawal
    <3>3. CASE WithdrawUnwind(i)
      BY <1>0, <3>3 DEF WithdrawUnwind, Withdrawal
    <3>4. QED
      BY <1>4, <3>1, <3>2, <3>3
  <2>3. QED
    BY <1>0, <1>f, <2>1, <2>2
<1>5. CASE WithdrawSettle(i)
  <2> DEFINE cost == CostSlice(pos[i], wd[i].burn)
  <2>1. wd[i].burn \in Nat \ {0}
    BY <1>0, <1>5 DEF WithdrawSettle, LInv, BurnsSomething, Withdrawal
  <2>2. pos[i].shares = 0 => cost = pos[i].cost
    BY <1>0, <2>1, CostSliceBounded
  <2>3. pos' = [pos EXCEPT ![i].cost = @ - cost]
    BY <1>5 DEF WithdrawSettle
  <2> HIDE DEF cost
  <2>4. pos'[i].shares = pos[i].shares /\ pos'[i].cost = pos[i].cost - cost
    BY <1>0, <2>3
  <2>5. \A j \in Investor \ {i} : pos'[j] = pos[j] /\ wd'[j] = wd[j]
    BY <1>0, <1>5, <2>3 DEF WithdrawSettle
  <2>6. pos[i].shares = 0 => pos'[i].cost = 0
    BY <1>0, <2>2, <2>4
  <2>7. QED
    BY <1>f, <2>4, <2>5, <2>6
<1>6. CASE WithdrawAbort(i)
  <2> DEFINE b == wd[i].burn
  <2>1. b \in Nat \ {0}
    BY <1>0, <1>6 DEF WithdrawAbort, LInv, BurnsSomething, Withdrawal
  <2>2. pos' = [pos EXCEPT ![i].shares = @ + b]
    BY <1>6 DEF WithdrawAbort
  <2> HIDE DEF b
  <2>3. pos'[i].shares = pos[i].shares + b
    BY <1>0, <2>2
  <2>4. \A j \in Investor \ {i} : pos'[j] = pos[j] /\ wd'[j] = wd[j]
    BY <1>0, <1>6, <2>2 DEF WithdrawAbort
  <2>5. pos'[i].shares # 0
    BY <1>0, <2>1, <2>3
  <2>6. QED
    BY <1>f, <2>4, <2>5
<1>7. QED
  BY <1>1, <1>2, <1>3, <1>4, <1>5, <1>6 DEF WithdrawSteps

\* Markings and trades touch neither positions nor sessions.
LEMMA VaultStepTyped ==
    ASSUME LInv, MarkTvl \/ VaultTrades
    PROVE  LInv'
<1> USE DEF books, caches, counters, accounts
<1>0. LedgerTypeOK /\ Worth \in Nat
  BY LiveMarkTyped DEF LInv
<1>1. LedgerTypeOK'
  <2>1. CASE MarkTvl
    <3>1. tvlLast' \in Nat
      BY <1>0, <2>1 DEF MarkTvl
    <3>2. totalTvl' \in Nat
      <4>1. SaturatingSub(tvlLast, Worth) \in Nat
        BY <1>0, SaturatingSubIsNat DEF LedgerTypeOK
      <4>2. QED
        BY <1>0, <2>1, <4>1, SaturatingSubIsNat DEF MarkTvl, LedgerTypeOK
    <3>3. QED
      BY <1>0, <2>1, <3>1, <3>2 DEF MarkTvl, LedgerTypeOK
  <2>2. CASE VaultTrades
    <3>1. idle' \in Nat /\ goods' \in Nat
      BY <1>0, <2>2 DEF VaultTrades
    <3>2. QED
      BY <1>0, <2>2, <3>1 DEF VaultTrades, LedgerTypeOK
  <2>3. QED
    BY <2>1, <2>2
<1>2. UNCHANGED <<pos, wd>>
  BY DEF MarkTvl, VaultTrades
<1>3. QED
  BY <1>1, <1>2 DEF LInv, BurnsSomething, NoIdleBasis

\* A vault without sessions satisfies the invariant.
LEMMA LedgerInit == Init => LInv
<1> SUFFICES ASSUME Init PROVE LInv
  OBVIOUS
<1>1. PICK v \in Vaults :
        /\ pos = [i \in Investor |-> [shares |-> v.shares[i], cost |-> v.shares[i]]]
        /\ dead = v.dead /\ idle = v.idle /\ goods = v.goods
  BY DEF Init
<1>f. v \in Fields
  BY LedgerAssumption
<1>2. Total(v.shares) \in Nat
  BY <1>f, LedgerAssumption, SumIsNat DEF Fields, Total
<1>3. /\ v.shares \in [Investor -> Nat] /\ dead \in Nat /\ idle \in Nat /\ goods \in Nat
  BY <1>1, <1>f DEF Fields
<1>4. pos \in [Investor -> [shares: Nat, cost: Nat]]
  BY <1>1, <1>3
<1>5. Held = Total(v.shares) /\ Basis = Total(v.shares)
  <2>1. [i \in Investor |-> pos[i].shares] = v.shares /\ [i \in Investor |-> pos[i].cost] = v.shares
    BY <1>1, <1>3
  <2>2. QED
    BY <2>1 DEF Held, Basis
<1>6. totalShares \in Nat /\ aggCost \in Nat /\ tvlLast \in Nat /\ totalTvl \in Nat
  BY <1>2, <1>3, <1>5 DEF Init, Worth
<1>7. pending \in Counter /\ burned \in Counter
  BY StoredIsCounter DEF Init
<1>8. LedgerTypeOK
  BY <1>3, <1>4, <1>6, <1>7, BlankTyped DEF Init, LedgerTypeOK
<1>9. BurnsSomething
  BY DEF Init, BurnsSomething, NoWithdrawal
<1>10. NoIdleBasis
  BY <1>1 DEF NoIdleBasis
<1>11. QED
  BY <1>8, <1>9, <1>10 DEF LInv

\* Every step of the ledger keeps the invariant.
LEMMA LedgerStep == LInv /\ [Next]_vars => LInv'
<1> SUFFICES ASSUME LInv, [Next]_vars PROVE LInv'
  OBVIOUS
<1>1. ASSUME NEW i \in Investor, DepositSteps(i) PROVE LInv'
  <2>1. LedgerTypeOK' /\ wd' = wd
    BY <1>1, DepositStepTyped
  <2>2. NoIdleBasis'
    BY <1>1, StepKeepsNoIdleBasis
  <2>3. QED
    BY <2>1, <2>2 DEF LInv, BurnsSomething
<1>2. ASSUME NEW i \in Investor, WithdrawSteps(i) PROVE LInv'
  BY <1>2, WithdrawStepTyped, StepKeepsNoIdleBasis DEF LInv
<1>3. CASE MarkTvl \/ VaultTrades
  BY <1>3, VaultStepTyped
<1>4. CASE UNCHANGED vars
  BY <1>4
  DEF vars, books, caches, counters, accounts, LInv, LedgerTypeOK, BurnsSomething, NoIdleBasis
<1>5. QED
  BY <1>1, <1>2, <1>3, <1>4 DEF Next

LEMMA LedgerInductive == Spec => []LInv
  BY LedgerInit, LedgerStep, PTL DEF Spec

\* Whatever the fees, prices and payments, and in whatever order the sessions' steps come:
\* no balance, counter, cost basis or cached valuation is ever drained below zero.
THEOREM LedgerTypeCorrect == Spec => []LedgerTypeOK
<1>1. LInv => LedgerTypeOK
  BY DEF LInv
<1>2. QED
  BY <1>1, LedgerInductive, PTL

\* A position without shares, and with no withdrawal under way, has no cost basis left: a
\* donation brings none, and the last withdrawal takes off all of it.
THEOREM NoBasisWithoutShares == Spec => []NoIdleBasis
<1>1. LInv => NoIdleBasis
  BY DEF LInv
<1>2. QED
  BY <1>1, LedgerInductive, PTL

\* Only deposit_init raises total_tvl_usdc, and never beyond the cap: neither settles that
\* add their share of value nor markings of a vault that has gained bring it back up.
THEOREM AggregateStaysCapped == Spec => AggregateCapped
<1> DEFINE Capped ==
      totalTvl' > totalTvl =>
          totalTvl' <= TvlCap /\ \E i \in Investor : dep'[i].open /\ ~dep[i].open
<1>1. ASSUME LInv, Next PROVE Capped
  <2> USE DEF caches
  <2>0. /\ LedgerTypeOK /\ totalTvl \in Nat /\ tvlLast \in Nat /\ Worth \in Nat
    BY <1>1, LiveMarkTyped DEF LInv, LedgerTypeOK
  <2>1. ASSUME NEW i \in Investor, DepositInit(i) PROVE Capped
    <3>1. totalTvl' <= TvlCap
      BY <2>1 DEF DepositInit
    <3>2. dep'[i].open /\ ~dep[i].open
      BY <2>0, <2>1 DEF DepositInit, LedgerTypeOK, NoDeposit
    <3>3. QED
      BY <3>1, <3>2
  <2>2. ASSUME NEW n \in Nat, totalTvl' = SaturatingSub(totalTvl, n) PROVE Capped
    <3>1. totalTvl' \in Nat /\ totalTvl' <= totalTvl
      BY <2>0, <2>2, SaturatingSubIsNat
    <3>2. QED
      BY <2>0, <3>1
  <2>3. ASSUME totalTvl' = totalTvl PROVE Capped
    BY <2>0, <2>3
  <2>4. ASSUME NEW i \in Investor, DepositSettle(i) PROVE Capped
    <3>1. dep[i].amount - ConservativeAdd(dep[i]) \in Nat
      BY <2>0, DepositNumbers DEF LedgerTypeOK, Deposit
    <3>2. QED
      BY <2>2, <2>4, <3>1 DEF DepositSettle
  <2>5. ASSUME NEW i \in Investor, DepositAbort(i) PROVE Capped
    <3>1. dep[i].amount \in Nat
      BY <2>0 DEF LedgerTypeOK, Deposit
    <3>2. QED
      BY <2>2, <2>5, <3>1 DEF DepositAbort
  <2>6. ASSUME NEW i \in Investor, WithdrawSettle(i) PROVE Capped
    <3>1. wd[i].marked \in Nat
      BY <2>0 DEF LedgerTypeOK, Withdrawal
    <3>2. QED
      BY <2>2, <2>6, <3>1 DEF WithdrawSettle
  <2>7. ASSUME MarkTvl PROVE Capped
    <3>1. SaturatingSub(tvlLast, Worth) \in Nat
      BY <2>0, SaturatingSubIsNat
    <3>2. QED
      BY <2>2, <2>7, <3>1 DEF MarkTvl
  <2>8. QED
    BY <1>1, <2>1, <2>3, <2>4, <2>5, <2>6, <2>7
    DEF Next, DepositSteps, WithdrawSteps, DepositBuy, DepositCommit, DepositLand,
        DepositSweepRefund, DepositForceRelease, WithdrawInit, WithdrawSell, WithdrawClaim,
        WithdrawUnwind, WithdrawAbort, VaultTrades
<1>2. LInv /\ [Next]_vars => [Capped]_vars
  BY <1>1
<1>3. QED
  BY <1>2, LedgerInductive, PTL DEF Spec, AggregateCapped
=============================================================================
