--------------------------- MODULE ShareBooks_proofs ------------------------
(***************************************************************************)
(* The books of ShareLedger for all investors, amounts, fees, prices and   *)
(* counter widths: what equates a field of the vault with a sum over all   *)
(* positions or sessions, and what a share is worth.                       *)
(*                                                                         *)
(* A step of one investor touches that investor's position and sessions,   *)
(* so every sum moves by what that one entry moves by (SumsOfStep); the    *)
(* rest is one small calculation per instruction.                          *)
(***************************************************************************)
EXTENDS ShareLedger_proofs

\* A session's flags come in order, nothing is created on the way, and only an open one
\* has something to give back.
DepositShaped(s) ==
    /\ s.landed => s.bought
    /\ s.bought => s.open
    /\ s.received + s.cash <= s.amount
    /\ s.bought /\ ~s.landed /\ ~s.aborting => s.goods = s.received
WithdrawalShaped(w) == w.aborting \/ w.goods > 0 => w.open
Shaped == \A i \in Investor : DepositShaped(dep[i]) /\ WithdrawalShaped(wd[i])

\* The counters, as they are while at most one deposit is committed.
CommitsCounted ==
    \/ CommittedNow = {} /\ committed = 0 /\ Loaded(pending) = 0
    \/ /\ committed = 1
       /\ \E c \in Investor : CommittedNow = {c} /\ Loaded(pending) = Reserved(dep[c])
BurnsCounted == Loaded(burned) = BurnedNow /\ BurnedNow <= MaxCounter

\* The dead shares come first: without them there is no share, no withdrawal, no price.
DeadFirst ==
    dead = 0 => /\ totalShares = 0
                /\ \A i \in Investor : ~wd[i].open /\ dep[i].mark.tsb = 0

\* A deposit that committed to a vault without shares finds it so when it settles.
FirstIsAlone ==
    \A i \in CommittedNow :
        dep[i].mark.tsb = 0 => totalShares = 0 /\ \A j \in Investor : ~wd[j].open

BooksInv ==
    /\ LInv
    /\ Shaped
    /\ SupplyExact
    /\ aggCost = Basis
    /\ CommitsCounted
    /\ BurnsCounted
    /\ DeadFirst
    /\ FirstIsAlone

-----------------------------------------------------------------------------
(* Numbers *)

\* What fits in 64 bits is read back from its two words as it was written.
LEMMA StoredExact ==
    ASSUME NEW v \in Nat, v <= MaxCounter
    PROVE  Loaded(Stored(v)) = v
<1>1. LowWord \in Nat \ {0} /\ HighWord \in Nat \ {0}
  BY LedgerAssumption
<1> DEFINE q == v \div LowWord
<1>2. q \in Nat /\ LowWord * q <= v /\ v % LowWord = v - LowWord * q
  <2>1. q \in Nat /\ LowWord * q <= v
    BY <1>1, Division
  <2>2. \A n \in Nat, d \in Nat \ {0} : n % d = n - d * (n \div d)
    BY SMT
  <2>3. QED
    BY <1>1, <2>1, <2>2
<1> HIDE DEF q
<1>3. q < HighWord
  <2>1. v < LowWord * HighWord
    BY <1>1 DEF MaxCounter
  <2>2. SUFFICES ASSUME q >= HighWord PROVE FALSE
    BY <1>1, <1>2
  <2>3. LowWord * q >= LowWord * HighWord
    BY <1>1, <1>2, <2>2
  <2>4. LowWord * q \in Nat /\ LowWord * HighWord \in Nat
    BY <1>1, <1>2
  <2>5. QED
    BY <1>2, <2>1, <2>3, <2>4
<1>4. q % HighWord = q
  BY <1>1, <1>2, <1>3
<1>5. Loaded(Stored(v)) = (v - LowWord * q) + LowWord * q
  BY <1>2, <1>4 DEF Loaded, Stored, q
<1>6. LowWord * q \in Nat
  BY <1>1, <1>2
<1>7. QED
  BY <1>5, <1>6

\* What is in flight and what is due of one session are numbers.
LEMMA SessionNumbers ==
    ASSUME LedgerTypeOK, NEW i \in Investor
    PROVE  /\ Bringing(dep[i]) \in Nat /\ Owed(dep[i]) \in Nat
           /\ Returning(wd[i]) \in Nat /\ Unminted(wd[i]) \in Nat
           /\ pos[i].shares \in Nat /\ pos[i].cost \in Nat
<1>1. dep[i] \in Deposit /\ wd[i] \in Withdrawal /\ pos[i] \in [shares: Nat, cost: Nat]
  BY DEF LedgerTypeOK
<1>2. Due(dep[i]) \in Nat /\ MaxCounter \in Nat
  BY <1>1, DepositNumbers, MaxCounterIsNat
<1>3. QED
  BY <1>1, <1>2 DEF Bringing, Owed, Returning, Unminted, Least, Deposit, Withdrawal

LEMMA HeldIsNat == LedgerTypeOK => Held \in Nat
<1> SUFFICES ASSUME LedgerTypeOK PROVE Held \in Nat
  OBVIOUS
<1> DEFINE f == [i \in Investor |-> pos[i].shares]
<1>1. \A i \in Investor : f[i] \in Nat
  BY SessionNumbers
<1>2. Held = SumOver(f, Investor)
  BY DEF Held, Total
<1> HIDE DEF f
<1>3. QED
  BY <1>1, <1>2, LedgerAssumption, SumIsNat

LEMMA HeldIsNatNext == (LedgerTypeOK => Held \in Nat)'
  BY HeldIsNat, PTL

\* The sums the books are compared with, and how far the entries of one investor move them.
BringingAll == Total([i \in Investor |-> Bringing(dep[i])])
ReturningAll == Total([i \in Investor |-> Returning(wd[i])])
OwedAll == Total([i \in Investor |-> Owed(dep[i])])

LEMMA TotalChange ==
    ASSUME NEW f, NEW g, NEW i \in Investor,
           \A j \in Investor : f[j] \in Nat /\ g[j] \in Nat,
           \A j \in Investor \ {i} : g[j] = f[j]
    PROVE  /\ Total(f) \in Nat /\ Total(g) \in Nat
           /\ Total(g) + f[i] = Total(f) + g[i]
  BY LedgerAssumption, SumChange DEF Total

LEMMA SumsOfStep ==
    ASSUME LedgerTypeOK, LedgerTypeOK', NEW i \in Investor,
           \A j \in Investor \ {i} : dep'[j] = dep[j] /\ wd'[j] = wd[j] /\ pos'[j] = pos[j]
    PROVE  /\ {Held, Held', Basis, Basis', BurnedNow, BurnedNow'} \subseteq Nat
           /\ {BringingAll, BringingAll', ReturningAll, ReturningAll', OwedAll, OwedAll'} \subseteq Nat
           /\ Held' + pos[i].shares = Held + pos'[i].shares
           /\ Basis' + pos[i].cost = Basis + pos'[i].cost
           /\ BurnedNow' + Unminted(wd[i]) = BurnedNow + Unminted(wd'[i])
           /\ BringingAll' + Bringing(dep[i]) = BringingAll + Bringing(dep'[i])
           /\ ReturningAll' + Returning(wd[i]) = ReturningAll + Returning(wd'[i])
           /\ OwedAll' + Owed(dep[i]) = OwedAll + Owed(dep'[i])
<1>1. ASSUME NEW j \in Investor
      PROVE  /\ Bringing(dep[j]) \in Nat /\ Owed(dep[j]) \in Nat
             /\ Returning(wd[j]) \in Nat /\ Unminted(wd[j]) \in Nat
             /\ pos[j].shares \in Nat /\ pos[j].cost \in Nat
  BY <1>1, SessionNumbers
<1>2. ASSUME NEW j \in Investor
      PROVE  /\ Bringing(dep'[j]) \in Nat /\ Owed(dep'[j]) \in Nat
             /\ Returning(wd'[j]) \in Nat /\ Unminted(wd'[j]) \in Nat
             /\ pos'[j].shares \in Nat /\ pos'[j].cost \in Nat
  <2>1. dep'[j] \in Deposit /\ wd'[j] \in Withdrawal /\ pos'[j] \in [shares: Nat, cost: Nat]
    BY DEF LedgerTypeOK
  <2>2. Due(dep'[j]) \in Nat /\ MaxCounter \in Nat
    BY <2>1, DepositNumbers, MaxCounterIsNat
  <2>3. QED
    BY <2>1, <2>2 DEF Bringing, Owed, Returning, Unminted, Least, Deposit, Withdrawal
<1>3. /\ Held \in Nat /\ Held' \in Nat
      /\ Held' + pos[i].shares = Held + pos'[i].shares
  <2> DEFINE f == [j \in Investor |-> pos[j].shares]
             g == [j \in Investor |-> pos'[j].shares]
  <2>1. /\ \A j \in Investor : f[j] \in Nat /\ g[j] \in Nat
        /\ \A j \in Investor \ {i} : g[j] = f[j]
        /\ f[i] = pos[i].shares /\ g[i] = pos'[i].shares
        /\ Held = Total(f) /\ Held' = Total(g)
    BY <1>1, <1>2 DEF Held
  <2> HIDE DEF f, g
  <2>2. /\ Total(f) \in Nat /\ Total(g) \in Nat
        /\ Total(g) + f[i] = Total(f) + g[i]
    BY <2>1, TotalChange
  <2>3. QED
    BY <2>1, <2>2, Zenon
<1>4. /\ Basis \in Nat /\ Basis' \in Nat
      /\ Basis' + pos[i].cost = Basis + pos'[i].cost
  <2> DEFINE f == [j \in Investor |-> pos[j].cost]
             g == [j \in Investor |-> pos'[j].cost]
  <2>1. /\ \A j \in Investor : f[j] \in Nat /\ g[j] \in Nat
        /\ \A j \in Investor \ {i} : g[j] = f[j]
        /\ f[i] = pos[i].cost /\ g[i] = pos'[i].cost
        /\ Basis = Total(f) /\ Basis' = Total(g)
    BY <1>1, <1>2 DEF Basis
  <2> HIDE DEF f, g
  <2>2. /\ Total(f) \in Nat /\ Total(g) \in Nat
        /\ Total(g) + f[i] = Total(f) + g[i]
    BY <2>1, TotalChange
  <2>3. QED
    BY <2>1, <2>2, Zenon
<1>5. /\ BurnedNow \in Nat /\ BurnedNow' \in Nat
      /\ BurnedNow' + Unminted(wd[i]) = BurnedNow + Unminted(wd'[i])
  <2> DEFINE f == [j \in Investor |-> Unminted(wd[j])]
             g == [j \in Investor |-> Unminted(wd'[j])]
  <2>1. /\ \A j \in Investor : f[j] \in Nat /\ g[j] \in Nat
        /\ \A j \in Investor \ {i} : g[j] = f[j]
        /\ f[i] = Unminted(wd[i]) /\ g[i] = Unminted(wd'[i])
        /\ BurnedNow = Total(f) /\ BurnedNow' = Total(g)
    BY <1>1, <1>2 DEF BurnedNow
  <2> HIDE DEF f, g
  <2>2. QED
    BY <2>1, TotalChange
<1>6. /\ BringingAll \in Nat /\ BringingAll' \in Nat
      /\ BringingAll' + Bringing(dep[i]) = BringingAll + Bringing(dep'[i])
  <2> DEFINE f == [j \in Investor |-> Bringing(dep[j])]
             g == [j \in Investor |-> Bringing(dep'[j])]
  <2>1. /\ \A j \in Investor : f[j] \in Nat /\ g[j] \in Nat
        /\ \A j \in Investor \ {i} : g[j] = f[j]
        /\ f[i] = Bringing(dep[i]) /\ g[i] = Bringing(dep'[i])
        /\ BringingAll = Total(f) /\ BringingAll' = Total(g)
    BY <1>1, <1>2 DEF BringingAll
  <2> HIDE DEF f, g
  <2>2. QED
    BY <2>1, TotalChange
<1>7. /\ ReturningAll \in Nat /\ ReturningAll' \in Nat
      /\ ReturningAll' + Returning(wd[i]) = ReturningAll + Returning(wd'[i])
  <2> DEFINE f == [j \in Investor |-> Returning(wd[j])]
             g == [j \in Investor |-> Returning(wd'[j])]
  <2>1. /\ \A j \in Investor : f[j] \in Nat /\ g[j] \in Nat
        /\ \A j \in Investor \ {i} : g[j] = f[j]
        /\ f[i] = Returning(wd[i]) /\ g[i] = Returning(wd'[i])
        /\ ReturningAll = Total(f) /\ ReturningAll' = Total(g)
    BY <1>1, <1>2 DEF ReturningAll
  <2> HIDE DEF f, g
  <2>2. QED
    BY <2>1, TotalChange
<1>8. /\ OwedAll \in Nat /\ OwedAll' \in Nat
      /\ OwedAll' + Owed(dep[i]) = OwedAll + Owed(dep'[i])
  <2> DEFINE f == [j \in Investor |-> Owed(dep[j])]
             g == [j \in Investor |-> Owed(dep'[j])]
  <2>1. /\ \A j \in Investor : f[j] \in Nat /\ g[j] \in Nat
        /\ \A j \in Investor \ {i} : g[j] = f[j]
        /\ f[i] = Owed(dep[i]) /\ g[i] = Owed(dep'[i])
        /\ OwedAll = Total(f) /\ OwedAll' = Total(g)
    BY <1>1, <1>2 DEF OwedAll
  <2> HIDE DEF f, g
  <2>2. QED
    BY <2>1, TotalChange
<1>9. QED
  BY <1>3, <1>4, <1>5, <1>6, <1>7, <1>8

-----------------------------------------------------------------------------
(* Steps *)

\* An investor's instruction touches nobody else's position or sessions.
LEMMA StepFrame ==
    ASSUME LedgerTypeOK, NEW i \in Investor, DepositSteps(i) \/ WithdrawSteps(i)
    PROVE  \A j \in Investor \ {i} : dep'[j] = dep[j] /\ wd'[j] = wd[j] /\ pos'[j] = pos[j]
<1>0. dep \in [Investor -> Deposit] /\ wd \in [Investor -> Withdrawal]
      /\ pos \in [Investor -> [shares: Nat, cost: Nat]]
  BY DEF LedgerTypeOK
<1> USE DEF accounts
<1>1. CASE DepositInit(i) \/ DepositBuy(i) \/ DepositCommit(i) \/ DepositLand(i)
  BY <1>0, <1>1 DEF DepositInit, DepositBuy, DepositCommit, DepositLand
<1>2. CASE DepositSettle(i) \/ DepositSweepRefund(i) \/ DepositAbort(i) \/ DepositForceRelease(i)
  BY <1>0, <1>2 DEF DepositSettle, DepositSweepRefund, DepositAbort, DepositForceRelease
<1>3. CASE WithdrawInit(i) \/ WithdrawSell(i) \/ WithdrawClaim(i)
  BY <1>0, <1>3 DEF WithdrawInit, WithdrawSell, WithdrawClaim
<1>4. CASE WithdrawUnwind(i) \/ WithdrawSettle(i) \/ WithdrawAbort(i)
  BY <1>0, <1>4 DEF WithdrawUnwind, WithdrawSettle, WithdrawAbort
<1>5. QED
  BY <1>1, <1>2, <1>3, <1>4 DEF DepositSteps, WithdrawSteps

\* What a commit does: the tokens bought begin to land, at the price of the moment.
LEMMA CommitEffect ==
    ASSUME LedgerTypeOK, NEW i \in Investor, DepositCommit(i)
    PROVE  \E v \in 1..dep[i].goods :
             /\ dep'[i] = [dep[i] EXCEPT !.landed = TRUE, !.mark = LiveMark, !.goods = @ - v]
             /\ goods' = goods + v
             /\ dep'[i].landed /\ ~dep'[i].aborting /\ dep'[i].mark = LiveMark
             /\ dep'[i].goods = dep[i].goods - v /\ dep'[i].cash = dep[i].cash
             /\ dep'[i].received = dep[i].received /\ dep'[i].amount = dep[i].amount
             /\ dep'[i].bought /\ dep'[i].open = dep[i].open
             /\ IsCommitted(dep'[i])
             /\ Loaded(pending) + Reserved(dep'[i]) <= MaxCounter
             /\ pending' = Stored(Loaded(pending) + Reserved(dep'[i]))
<1> DEFINE s == dep[i]
           marked == [s EXCEPT !.landed = TRUE, !.mark = LiveMark]
<1>0. dep \in [Investor -> Deposit] /\ s \in Deposit /\ marked \in Deposit
  BY LiveMarkTyped DEF LedgerTypeOK, Deposit
<1>1. PICK v \in 1..s.goods :
        /\ dep' = [dep EXCEPT ![i] = [marked EXCEPT !.goods = @ - v]]
        /\ goods' = goods + v
  BY DEF DepositCommit, CommitMark
<1>2. /\ Loaded(pending) + Reserved(marked) <= MaxCounter
      /\ pending' = Stored(Loaded(pending) + Reserved(marked))
  BY DEF DepositCommit, CommitMark
<1>3. dep'[i] = [s EXCEPT !.landed = TRUE, !.mark = LiveMark, !.goods = @ - v]
  BY <1>0, <1>1
<1>4. Reserved(marked) = Reserved(dep'[i])
  BY <1>0, <1>3 DEF Reserved, Deposit
<1>5. s.bought /\ ~s.aborting
  BY DEF DepositCommit
<1>6. QED
  BY <1>0, <1>1, <1>2, <1>3, <1>4, <1>5 DEF Deposit, IsCommitted

\* What a purchase does: the basket is worth what was spent, less slippage.
LEMMA BuyEffect ==
    ASSUME LedgerTypeOK, NEW i \in Investor, DepositBuy(i)
    PROVE  /\ dep'[i].received = dep'[i].goods /\ dep'[i].received + dep'[i].cash <= dep[i].cash
           /\ dep'[i].bought /\ dep'[i].landed = dep[i].landed
           /\ dep'[i].amount = dep[i].amount /\ dep'[i].open
           /\ dep'[i].mark = dep[i].mark /\ dep'[i].aborting = dep[i].aborting
<1>0. dep \in [Investor -> Deposit] /\ dep[i] \in Deposit
  BY DEF LedgerTypeOK
<1>1. PICK dust \in 0..1, loss \in Losses :
        /\ dust + loss < dep[i].cash
        /\ LET value == dep[i].cash - dust - loss
           IN dep' = [dep EXCEPT ![i].bought = TRUE, ![i].cash = dust,
                                 ![i].goods = value, ![i].received = value]
  BY DEF DepositBuy
<1>2. dust \in Nat /\ loss \in Nat /\ dep[i].cash \in Nat
  BY <1>0, LedgerAssumption DEF Deposit
<1>3. /\ dep'[i].received = dep[i].cash - dust - loss /\ dep'[i].goods = dep[i].cash - dust - loss
      /\ dep'[i].cash = dust
      /\ dep'[i].bought /\ dep'[i].landed = dep[i].landed
      /\ dep'[i].amount = dep[i].amount /\ dep'[i].open = dep[i].open
      /\ dep'[i].mark = dep[i].mark /\ dep'[i].aborting = dep[i].aborting
  BY <1>0, <1>1 DEF Deposit
<1>4. (dep[i].cash - dust - loss) + dust <= dep[i].cash
  BY <1>2
<1>5. dep[i].open
  BY DEF DepositBuy
<1>6. QED
  BY <1>3, <1>4, <1>5, Zenon

\* Sessions keep their shape.
LEMMA ShapedStep ==
    ASSUME LedgerTypeOK, LedgerTypeOK', Shaped, NEW i \in Investor, DepositSteps(i) \/ WithdrawSteps(i)
    PROVE  Shaped'
<1>0. /\ dep \in [Investor -> Deposit] /\ dep[i] \in Deposit /\ DepositShaped(dep[i])
      /\ wd \in [Investor -> Withdrawal] /\ wd[i] \in Withdrawal /\ WithdrawalShaped(wd[i])
  BY DEF LedgerTypeOK, Shaped
<1>f. \A j \in Investor \ {i} : dep'[j] = dep[j] /\ wd'[j] = wd[j]
  BY StepFrame
<1>s. SUFFICES DepositShaped(dep'[i]) /\ WithdrawalShaped(wd'[i])
  BY <1>f DEF Shaped
<1>n. /\ dep[i].amount \in Nat /\ dep[i].received \in Nat /\ dep[i].cash \in Nat
      /\ dep[i].goods \in Nat /\ wd[i].goods \in Nat
  BY <1>0 DEF Deposit, Withdrawal
<1>b. DepositShaped(NoDeposit) /\ WithdrawalShaped(NoWithdrawal)
  BY DEF DepositShaped, WithdrawalShaped, NoDeposit, NoWithdrawal
<1>1. ASSUME DepositSteps(i) PROVE DepositShaped(dep'[i])
  <2>1. CASE DepositInit(i)
    <3>1. /\ ~dep'[i].landed /\ ~dep'[i].bought
          /\ dep'[i].received = 0 /\ dep'[i].cash = dep'[i].amount
      BY <1>0, <2>1 DEF DepositInit, NoDeposit
    <3>2. dep'[i].amount \in Nat
      BY DEF LedgerTypeOK, Deposit
    <3>3. QED
      BY <3>1, <3>2 DEF DepositShaped
  <2>2. CASE DepositBuy(i)
    <3>1. ~dep[i].bought /\ ~dep[i].landed
      BY <1>0, <2>2 DEF DepositBuy, DepositShaped
    <3>t. dep'[i].received \in Nat /\ dep'[i].cash \in Nat
      BY DEF LedgerTypeOK, Deposit
    <3>2. dep'[i].received + dep'[i].cash <= dep[i].amount
      BY <1>0, <1>n, <2>2, BuyEffect, <3>t DEF DepositShaped
    <3>3. QED
      BY <2>2, <3>1, <3>2, BuyEffect DEF DepositShaped
  <2>3. CASE DepositCommit(i)
    BY <1>0, <2>3, CommitEffect DEF DepositShaped, DepositCommit
  <2>4. CASE DepositLand(i)
    <3>1. PICK v \in 1..dep[i].goods : dep' = [dep EXCEPT ![i].goods = @ - v]
      BY <2>4 DEF DepositLand
    <3>2. /\ dep'[i].landed = dep[i].landed /\ dep'[i].bought = dep[i].bought
          /\ dep'[i].open = dep[i].open /\ dep'[i].received = dep[i].received
          /\ dep'[i].cash = dep[i].cash /\ dep'[i].amount = dep[i].amount
      BY <1>0, <3>1 DEF Deposit
    <3>3. dep[i].landed
      BY <2>4 DEF DepositLand, IsCommitted
    <3>4. QED
      BY <1>0, <3>2, <3>3 DEF DepositShaped
  <2>5. CASE DepositSettle(i) \/ DepositAbort(i)
    <3>1. dep'[i] = NoDeposit
      BY <1>0, <2>5 DEF DepositSettle, DepositAbort
    <3>2. QED
      BY <1>b, <3>1
  <2>6. CASE DepositSweepRefund(i) \/ DepositForceRelease(i)
    <3>1. /\ dep'[i].landed = dep[i].landed /\ dep'[i].bought = dep[i].bought
          /\ dep'[i].open = dep[i].open /\ dep'[i].received = dep[i].received
          /\ dep'[i].cash = dep[i].cash /\ dep'[i].amount = dep[i].amount
          /\ dep'[i].aborting
      BY <1>0, <2>6 DEF Deposit, DepositSweepRefund, DepositForceRelease
    <3>2. QED
      BY <1>0, <3>1 DEF DepositShaped
  <2>7. QED
    BY <1>1, <2>1, <2>2, <2>3, <2>4, <2>5, <2>6 DEF DepositSteps
<1>2. ASSUME WithdrawSteps(i) PROVE WithdrawalShaped(wd'[i])
  <2>1. CASE WithdrawInit(i)
    <3>1. wd'[i].open
      BY <1>0, <2>1 DEF WithdrawInit, NoWithdrawal
    <3>2. QED
      BY <3>1 DEF WithdrawalShaped
  <2>2. CASE WithdrawSell(i)
    BY <1>0, <2>2 DEF WithdrawSell, WithdrawalShaped, Withdrawal
  <2>3. CASE WithdrawClaim(i)
    BY <1>0, <2>3 DEF WithdrawClaim, WithdrawalShaped, Withdrawal
  <2>4. CASE WithdrawUnwind(i)
    <3>1. wd'[i].open = wd[i].open /\ wd[i].goods > 0
      BY <1>0, <1>n, <2>4 DEF WithdrawUnwind, Withdrawal
    <3>2. QED
      BY <1>0, <3>1 DEF WithdrawalShaped
  <2>5. CASE WithdrawSettle(i) \/ WithdrawAbort(i)
    <3>1. wd'[i] = NoWithdrawal
      BY <1>0, <2>5 DEF WithdrawSettle, WithdrawAbort
    <3>2. QED
      BY <1>b, <3>1
  <2>6. QED
    BY <1>2, <2>1, <2>2, <2>3, <2>4, <2>5 DEF WithdrawSteps
<1>3. DepositSteps(i) => wd' = wd
  BY DEF DepositSteps, DepositInit, DepositBuy, DepositCommit, DepositLand, DepositSettle,
         DepositSweepRefund, DepositAbort, DepositForceRelease, accounts
<1>4. WithdrawSteps(i) => dep' = dep
  BY DEF WithdrawSteps, WithdrawInit, WithdrawSell, WithdrawClaim, WithdrawUnwind,
         WithdrawSettle, WithdrawAbort
<1>5. QED
  BY <1>0, <1>1, <1>2, <1>3, <1>4

\* What the settle of a deposit does to the shares and to the cost basis.
LEMMA SettleEffect ==
    ASSUME LedgerTypeOK, NEW i \in Investor, DepositSettle(i)
    PROVE  LET s == dep[i]
           IN /\ DueToInvestor(s) \in Nat /\ DeadShares(s.mark) \in Nat /\ CostAdded(s) \in Nat
              /\ Due(s) = DueToInvestor(s) + DeadShares(s.mark)
              /\ pos'[i].shares = pos[i].shares + DueToInvestor(s)
              /\ pos'[i].cost = pos[i].cost + CostAdded(s)
              /\ totalShares' = totalShares + Due(s)
              /\ dead' = dead + DeadShares(s.mark)
              /\ aggCost' = aggCost + CostAdded(s)
<1> DEFINE s == dep[i]
           d == DueToInvestor(s)
           c == CostAdded(s)
<1>1. pos \in [Investor -> [shares: Nat, cost: Nat]] /\ s \in Deposit
  BY DEF LedgerTypeOK
<1>2. d \in Nat /\ DeadShares(s.mark) \in Nat /\ c \in Nat
  BY <1>1, DepositNumbers
<1>3. Due(s) = d + DeadShares(s.mark)
  BY DEF Due, DueToInvestor, Minted
<1>4. pos' = [pos EXCEPT ![i].shares = @ + d, ![i].cost = @ + c]
  BY DEF DepositSettle
<1>5. totalShares' = totalShares + Due(s) /\ dead' = dead + DeadShares(s.mark) /\ aggCost' = aggCost + c
  BY DEF DepositSettle, SharesBefore
<1> HIDE DEF d, c
<1>6. pos'[i].shares = pos[i].shares + d /\ pos'[i].cost = pos[i].cost + c
  BY <1>1, <1>4
<1>7. QED
  BY <1>2, <1>3, <1>5, <1>6 DEF d, c

\* The books and the positions move together.
LEMMA SupplyStep ==
    ASSUME LInv, LedgerTypeOK', SupplyExact, aggCost = Basis, NEW i \in Investor,
           DepositSteps(i) \/ WithdrawSteps(i)
    PROVE  SupplyExact' /\ aggCost' = Basis'
<1> DEFINE w == wd[i]
<1>0. /\ LedgerTypeOK /\ pos \in [Investor -> [shares: Nat, cost: Nat]]
      /\ w \in Withdrawal /\ wd \in [Investor -> Withdrawal]
      /\ pos[i].shares \in Nat /\ pos[i].cost \in Nat /\ w.burn \in Nat
      /\ {totalShares, aggCost, dead} \subseteq Nat
  BY DEF LInv, LedgerTypeOK, Withdrawal
<1>1. /\ {Held, Held', Basis, Basis'} \subseteq Nat
      /\ Held' + pos[i].shares = Held + pos'[i].shares
      /\ Basis' + pos[i].cost = Basis + pos'[i].cost
  BY <1>0, StepFrame, SumsOfStep
<1>2. totalShares = Held + dead
  BY DEF SupplyExact
<1>e. SUFFICES totalShares' = Held' + dead' /\ aggCost' = Basis'
  BY DEF SupplyExact
<1>u. ASSUME pos'[i].shares = pos[i].shares, pos'[i].cost = pos[i].cost,
             totalShares' = totalShares, dead' = dead, aggCost' = aggCost
      PROVE  totalShares' = Held' + dead' /\ aggCost' = Basis'
  <2>1. Held' = Held /\ Basis' = Basis
    BY <1>0, <1>1, <1>u
  <2>2. QED
    BY <1>2, <1>u, <2>1
<1>3. CASE DepositSettle(i)
  <2> DEFINE d == DueToInvestor(dep[i])
             c == CostAdded(dep[i])
             m == DeadShares(dep[i].mark)
  <2>1. /\ d \in Nat /\ c \in Nat /\ m \in Nat
        /\ pos'[i].shares = pos[i].shares + d /\ pos'[i].cost = pos[i].cost + c
        /\ totalShares' = totalShares + (d + m) /\ dead' = dead + m /\ aggCost' = aggCost + c
    BY <1>0, <1>3, SettleEffect
  <2> HIDE DEF d, c, m
  <2>2. Held' = Held + d /\ Basis' = Basis + c
    BY <1>0, <1>1, <2>1
  <2>3. QED
    BY <1>0, <1>1, <1>2, <2>1, <2>2
<1>4. CASE WithdrawInit(i)
  <2>1. PICK burn \in Burns :
          /\ MayBurn(i, burn)
          /\ totalShares' = totalShares - burn
          /\ pos' = [pos EXCEPT ![i].shares = @ - burn]
    BY <1>4 DEF WithdrawInit
  <2>2. burn \in Nat /\ burn <= pos[i].shares
    BY <2>1, LedgerAssumption DEF MayBurn
  <2>3. pos'[i].shares = pos[i].shares - burn /\ pos'[i].cost = pos[i].cost
    BY <1>0, <2>1
  <2>4. dead' = dead /\ aggCost' = aggCost
    BY <1>4 DEF WithdrawInit
  <2>5. Held' = Held - burn /\ Basis' = Basis
    BY <1>0, <1>1, <2>2, <2>3
  <2>6. totalShares' = totalShares - burn
    BY <2>1
  <2>7. QED
    BY <1>0, <1>1, <1>2, <2>2, <2>4, <2>5, <2>6
<1>5. CASE WithdrawSettle(i)
  <2> DEFINE cost == CostSlice(pos[i], w.burn)
  <2>1. w.burn \in Nat \ {0}
    BY <1>0, <1>5 DEF WithdrawSettle, LInv, BurnsSomething
  <2>2. cost \in 0..pos[i].cost
    BY <1>0, <2>1, CostSliceBounded
  <2>3. pos' = [pos EXCEPT ![i].cost = @ - cost] /\ aggCost' = SaturatingSub(aggCost, cost)
        /\ totalShares' = totalShares /\ dead' = dead
    BY <1>5 DEF WithdrawSettle
  <2> HIDE DEF cost
  <2>4. pos'[i].shares = pos[i].shares /\ pos'[i].cost = pos[i].cost - cost
    BY <1>0, <2>3
  <2>5. cost \in Nat /\ pos[i].cost <= Basis
    <3>1. \A j \in Investor : pos[j].cost \in Nat
      BY <1>0
    <3> DEFINE f == [j \in Investor |-> pos[j].cost]
    <3>2. \A j \in Investor : f[j] \in Nat
      BY <3>1
    <3>3. f[i] = pos[i].cost
      OBVIOUS
    <3>4. Basis = SumOver(f, Investor)
      BY DEF Basis, Total
    <3> HIDE DEF f
    <3>5. f[i] <= SumOver(f, Investor)
      BY <3>2, LedgerAssumption, SumBounds
    <3>6. QED
      BY <1>0, <2>2, <3>3, <3>4, <3>5
  <2>6. aggCost' = aggCost - cost
    BY <1>0, <1>1, <2>2, <2>3, <2>5 DEF SaturatingSub
  <2>7. Held' = Held /\ Basis' = Basis - cost
    BY <1>0, <1>1, <2>2, <2>4, <2>5
  <2>8. QED
    BY <1>2, <2>3, <2>6, <2>7
<1>6. CASE WithdrawAbort(i)
  <2>1. /\ pos' = [pos EXCEPT ![i].shares = @ + w.burn]
        /\ totalShares' = totalShares + w.burn /\ dead' = dead /\ aggCost' = aggCost
    BY <1>6 DEF WithdrawAbort
  <2>2. pos'[i].shares = pos[i].shares + w.burn /\ pos'[i].cost = pos[i].cost
    BY <1>0, <2>1
  <2>3. QED
    BY <1>0, <1>1, <1>2, <2>1, <2>2
<1>7. CASE \/ DepositInit(i) \/ DepositBuy(i) \/ DepositCommit(i) \/ DepositLand(i)
           \/ DepositSweepRefund(i) \/ DepositAbort(i) \/ DepositForceRelease(i)
           \/ WithdrawSell(i) \/ WithdrawClaim(i) \/ WithdrawUnwind(i)
  <2>1. UNCHANGED <<pos, totalShares, dead, aggCost>>
    BY <1>7 DEF DepositInit, DepositBuy, DepositCommit, DepositLand, DepositSweepRefund,
                DepositAbort, DepositForceRelease, WithdrawSell, WithdrawClaim, WithdrawUnwind,
                accounts, books
  <2>2. QED
    BY <1>u, <2>1
<1>8. QED
  BY <1>3, <1>4, <1>5, <1>6, <1>7 DEF DepositSteps, WithdrawSteps

\* A step that commits nothing and releases nothing keeps the count of commitments.
LEMMA CommitsKept ==
    ASSUME CommitsCounted, NEW i \in Investor,
           \A j \in Investor \ {i} : dep'[j] = dep[j],
           IsCommitted(dep'[i]) <=> IsCommitted(dep[i]),
           IsCommitted(dep[i]) => Reserved(dep'[i]) = Reserved(dep[i]),
           committed' = committed, pending' = pending
    PROVE  CommitsCounted' /\ CommittedNow' = CommittedNow
<1>1. CommittedNow' = CommittedNow
  BY DEF CommittedNow
<1>2. ASSUME NEW c \in Investor, CommittedNow = {c} PROVE Reserved(dep'[c]) = Reserved(dep[c])
  <2>1. CASE c = i
    BY <1>2, <2>1 DEF CommittedNow
  <2>2. CASE c # i
    BY <2>2
  <2>3. QED
    BY <2>1, <2>2
<1>3. CASE CommittedNow = {}
  BY <1>1, <1>3 DEF CommitsCounted
<1>4. CASE CommittedNow # {}
  <2>1. PICK c \in Investor : CommittedNow = {c} /\ Loaded(pending) = Reserved(dep[c])
    BY <1>4 DEF CommitsCounted
  <2>2. committed = 1
    BY <1>4 DEF CommitsCounted
  <2>3. Loaded(pending') = Reserved(dep'[c])
    BY <1>2, <2>1
  <2>4. QED
    BY <1>1, <2>1, <2>2, <2>3 DEF CommitsCounted
<1>5. QED
  BY <1>1, <1>3, <1>4

\* A release of the one commitment leaves none and nothing reserved.
LEMMA CommitsReleased ==
    ASSUME LedgerTypeOK, CommitsCounted, NEW i \in Investor,
           \A j \in Investor \ {i} : dep'[j] = dep[j],
           IsCommitted(dep[i]), ~IsCommitted(dep'[i]), Uncommit(dep[i])
    PROVE  CommitsCounted' /\ CommittedNow = {i} /\ CommittedNow' = {}
<1>1. i \in CommittedNow
  BY DEF CommittedNow
<1>2. PICK c \in Investor : CommittedNow = {c} /\ Loaded(pending) = Reserved(dep[c])
  BY <1>1 DEF CommitsCounted
<1>3. c = i /\ committed = 1
  BY <1>1, <1>2 DEF CommitsCounted
<1>4. CommittedNow' = {}
  BY <1>2, <1>3 DEF CommittedNow
<1>5. committed' = 0
  BY <1>3 DEF Uncommit, SaturatingSub
<1>6. Loaded(pending') = 0
  <2>1. Reserved(dep[i]) \in Nat
    BY DepositNumbers DEF LedgerTypeOK
  <2>2. SaturatingSub(Loaded(pending), Reserved(dep[i])) = 0
    BY <1>2, <1>3, <2>1 DEF SaturatingSub
  <2>3. pending' = Stored(0)
    BY <2>2 DEF Uncommit
  <2>4. 0 <= MaxCounter
    BY MaxCounterIsNat
  <2>5. QED
    BY <2>3, <2>4, StoredExact
<1>7. QED
  BY <1>2, <1>3, <1>4, <1>5, <1>6 DEF CommitsCounted

\* A session not yet committed, or turned back, comes and goes without a trace in it.
LEMMA UncommittedStep ==
    ASSUME LedgerTypeOK, Shaped, CommitsCounted, NEW i \in Investor,
           DepositInit(i) \/ DepositBuy(i) \/ DepositSweepRefund(i) \/ DepositAbort(i)
    PROVE  /\ ~IsCommitted(dep[i]) /\ ~IsCommitted(dep'[i])
           /\ CommitsCounted' /\ CommittedNow' = CommittedNow
<1>0. dep \in [Investor -> Deposit] /\ dep[i] \in Deposit /\ DepositShaped(dep[i])
  BY DEF LedgerTypeOK, Shaped
<1>1. ~IsCommitted(dep[i])
  BY <1>0
  DEF DepositInit, DepositBuy, DepositSweepRefund, DepositAbort, DepositShaped, IsCommitted
<1>2. ~IsCommitted(dep'[i])
  <2>1. CASE DepositInit(i)
    BY <1>0, <2>1 DEF DepositInit, NoDeposit, IsCommitted
  <2>2. CASE DepositBuy(i)
    BY <1>0, <1>1, <2>2, BuyEffect DEF IsCommitted
  <2>3. CASE DepositSweepRefund(i)
    BY <1>0, <2>3 DEF DepositSweepRefund, IsCommitted, Deposit
  <2>4. CASE DepositAbort(i)
    BY <1>0, <2>4 DEF DepositAbort, IsCommitted, NoDeposit
  <2>5. QED
    BY <2>1, <2>2, <2>3, <2>4
<1>3. committed' = committed /\ pending' = pending
  BY DEF DepositInit, DepositBuy, DepositSweepRefund, DepositAbort, counters
<1>4. \A j \in Investor \ {i} : dep'[j] = dep[j]
  BY StepFrame DEF DepositSteps
<1>5. QED
  BY <1>1, <1>2, <1>3, <1>4, CommitsKept

\* A commit finds no other, and its reservation is all there is.
LEMMA CommitStep ==
    ASSUME LedgerTypeOK, LedgerTypeOK', CommitsCounted, NEW i \in Investor, DepositCommit(i)
    PROVE  /\ ~IsCommitted(dep[i]) /\ IsCommitted(dep'[i])
           /\ CommitsCounted' /\ CommittedNow = {} /\ CommittedNow' = {i}
<1>1. CommittedNow = {} /\ Loaded(pending) = 0
  BY DEF DepositCommit, CommitsCounted
<1>2. ~IsCommitted(dep[i])
  BY DEF DepositCommit, IsCommitted
<1>3. /\ IsCommitted(dep'[i])
      /\ Loaded(pending) + Reserved(dep'[i]) <= MaxCounter
      /\ pending' = Stored(Loaded(pending) + Reserved(dep'[i]))
  BY CommitEffect
<1>4. CommittedNow' = {i}
  <2>1. \A j \in Investor \ {i} : dep'[j] = dep[j]
    BY StepFrame DEF DepositSteps
  <2>2. QED
    BY <1>1, <1>3, <2>1 DEF CommittedNow
<1>5. Loaded(pending') = Reserved(dep'[i])
  <2>1. Reserved(dep'[i]) \in Nat
    BY DepositNumbers DEF LedgerTypeOK
  <2>2. Loaded(pending) + Reserved(dep'[i]) = Reserved(dep'[i])
    BY <1>1, <2>1
  <2>3. QED
    BY <1>3, <2>1, <2>2, StoredExact
<1>6. committed' = 1
  BY DEF DepositCommit, CommitsCounted
<1>7. QED
  BY <1>1, <1>2, <1>3, <1>4, <1>5, <1>6 DEF CommitsCounted

\* A settle or a forced release ends the one commitment.
LEMMA ReleaseStep ==
    ASSUME LedgerTypeOK, CommitsCounted, NEW i \in Investor,
           DepositSettle(i) \/ DepositForceRelease(i)
    PROVE  /\ IsCommitted(dep[i]) /\ ~IsCommitted(dep'[i])
           /\ CommitsCounted' /\ CommittedNow = {i} /\ CommittedNow' = {}
<1>0. dep \in [Investor -> Deposit] /\ dep[i] \in Deposit
  BY DEF LedgerTypeOK
<1>1. IsCommitted(dep[i]) /\ Uncommit(dep[i])
  BY DEF DepositSettle, DepositForceRelease
<1>2. ~IsCommitted(dep'[i])
  <2>1. CASE DepositSettle(i)
    BY <1>0, <2>1 DEF DepositSettle, IsCommitted, NoDeposit
  <2>2. CASE DepositForceRelease(i)
    BY <1>0, <2>2 DEF DepositForceRelease, IsCommitted, Deposit
  <2>3. QED
    BY <2>1, <2>2
<1>3. \A j \in Investor \ {i} : dep'[j] = dep[j]
  BY StepFrame DEF DepositSteps
<1>4. QED
  BY <1>0, <1>1, <1>2, <1>3, CommitsReleased

\* Landing more of the tokens changes neither the price nor what is due.
LEMMA LandStep ==
    ASSUME LedgerTypeOK, CommitsCounted, NEW i \in Investor, DepositLand(i)
    PROVE  /\ IsCommitted(dep[i]) /\ IsCommitted(dep'[i])
           /\ CommitsCounted' /\ CommittedNow' = CommittedNow
           /\ dep'[i].mark = dep[i].mark /\ Owed(dep'[i]) = Owed(dep[i])
           /\ goods' + Bringing(dep'[i]) = goods + Bringing(dep[i])
<1>0. /\ dep \in [Investor -> Deposit] /\ dep[i] \in Deposit /\ goods \in Nat
      /\ dep[i].goods \in Nat /\ dep[i].cash \in Nat
  BY DEF LedgerTypeOK, Deposit
<1>1. PICK v \in 1..dep[i].goods : dep' = [dep EXCEPT ![i].goods = @ - v] /\ goods' = goods + v
  BY DEF DepositLand
<1>2. /\ IsCommitted(dep[i]) /\ IsCommitted(dep'[i])
      /\ dep'[i].mark = dep[i].mark
      /\ dep'[i].amount = dep[i].amount /\ dep'[i].received = dep[i].received
      /\ dep'[i].cash = dep[i].cash /\ dep'[i].goods = dep[i].goods - v
  BY <1>0, <1>1 DEF DepositLand, IsCommitted, Deposit
<1>3. Due(dep'[i]) = Due(dep[i]) /\ Reserved(dep'[i]) = Reserved(dep[i])
  BY <1>2 DEF Due, Reserved, ValueIn
<1>4. committed' = committed /\ pending' = pending
  BY DEF DepositLand, counters
<1>5. \A j \in Investor \ {i} : dep'[j] = dep[j]
  BY StepFrame DEF DepositSteps
<1>6. CommitsCounted' /\ CommittedNow' = CommittedNow
  BY <1>2, <1>3, <1>4, <1>5, CommitsKept
<1>7. goods' + Bringing(dep'[i]) = goods + Bringing(dep[i])
  BY <1>0, <1>1, <1>2 DEF Bringing
<1>8. QED
  BY <1>2, <1>3, <1>6, <1>7 DEF Owed

\* Withdrawals count their own shares, exactly.
LEMMA BurnsStep ==
    ASSUME LInv, LedgerTypeOK', Shaped, BurnsCounted, NEW i \in Investor, WithdrawSteps(i)
    PROVE  BurnsCounted'
<1> DEFINE w == wd[i]
<1>0. /\ LedgerTypeOK /\ wd \in [Investor -> Withdrawal] /\ w \in Withdrawal
      /\ w.burn \in Nat /\ WithdrawalShaped(w)
      /\ Unminted(w) \in Nat
  BY SessionNumbers DEF LInv, LedgerTypeOK, Shaped, Withdrawal
<1>1. /\ BurnedNow \in Nat /\ BurnedNow' \in Nat
      /\ BurnedNow' + Unminted(w) = BurnedNow + Unminted(wd'[i])
  BY <1>0, StepFrame, SumsOfStep
<1>k. ASSUME Unminted(wd'[i]) = Unminted(w), burned' = burned PROVE BurnsCounted'
  <2>1. BurnedNow' = BurnedNow
    BY <1>0, <1>1, <1>k
  <2>2. QED
    BY <1>k, <2>1 DEF BurnsCounted
<1>2. CASE WithdrawInit(i)
  <2>1. ~wd'[i].aborting /\ ~w.aborting
    BY <1>0, <1>2 DEF WithdrawInit, NoWithdrawal, WithdrawalShaped
  <2>2. burned' = burned
    BY <1>2 DEF WithdrawInit, counters
  <2>3. QED
    BY <1>k, <2>1, <2>2 DEF Unminted
<1>3. CASE WithdrawSell(i) \/ WithdrawClaim(i)
  <2>1. ~wd'[i].aborting /\ ~w.aborting
    <3>1. CASE WithdrawSell(i)
      BY <1>0, <3>1 DEF WithdrawSell, Withdrawal
    <3>2. CASE WithdrawClaim(i)
      BY <1>0, <3>2 DEF WithdrawClaim, Withdrawal
    <3>3. QED
      BY <1>3, <3>1, <3>2
  <2>2. burned' = burned
    BY <1>3 DEF WithdrawSell, WithdrawClaim, counters
  <2>3. QED
    BY <1>k, <2>1, <2>2 DEF Unminted
<1>4. CASE WithdrawUnwind(i)
  <2>1. wd'[i].aborting /\ wd'[i].burn = w.burn
    BY <1>0, <1>4 DEF WithdrawUnwind, Withdrawal
  <2>2. CASE w.aborting
    <3>1. burned' = burned
      BY <1>4, <2>2 DEF WithdrawUnwind
    <3>2. QED
      BY <1>k, <2>1, <2>2, <3>1 DEF Unminted
  <2>3. CASE ~w.aborting
    <3>1. /\ BurnedNow + w.burn <= MaxCounter
          /\ burned' = Stored(BurnedNow + w.burn)
      BY <1>4, <2>3 DEF WithdrawUnwind, BurnsCounted
    <3>2. BurnedNow' = BurnedNow + w.burn
      BY <1>0, <1>1, <2>1, <2>3 DEF Unminted
    <3>3. Loaded(burned') = BurnedNow + w.burn
      BY <1>0, <1>1, <3>1, StoredExact
    <3>4. QED
      BY <3>1, <3>2, <3>3 DEF BurnsCounted
  <2>4. QED
    BY <2>2, <2>3
<1>5. CASE WithdrawSettle(i)
  <2>1. ~wd'[i].aborting /\ ~w.aborting
    BY <1>0, <1>5 DEF WithdrawSettle, NoWithdrawal
  <2>2. burned' = burned
    BY <1>5 DEF WithdrawSettle, counters
  <2>3. QED
    BY <1>k, <2>1, <2>2 DEF Unminted
<1>6. CASE WithdrawAbort(i)
  <2>1. ~wd'[i].aborting
    BY <1>0, <1>6 DEF WithdrawAbort, NoWithdrawal
  <2>2. CASE ~w.aborting
    <3>1. burned' = burned
      BY <1>6, <2>2 DEF WithdrawAbort
    <3>2. QED
      BY <1>k, <2>1, <2>2, <3>1 DEF Unminted
  <2>3. CASE w.aborting
    <3>1. BurnedNow' + w.burn = BurnedNow
      BY <1>0, <1>1, <2>1, <2>3 DEF Unminted
    <3>2. burned' = Stored(SaturatingSub(BurnedNow, w.burn))
      BY <1>6, <2>3 DEF WithdrawAbort, BurnsCounted
    <3>3. SaturatingSub(BurnedNow, w.burn) = BurnedNow'
      BY <1>0, <1>1, <3>1 DEF SaturatingSub
    <3>4. BurnedNow' <= MaxCounter
      BY <1>0, <1>1, <3>1, MaxCounterIsNat DEF BurnsCounted
    <3>5. Loaded(burned') = BurnedNow'
      BY <1>1, <3>2, <3>3, <3>4, StoredExact
    <3>6. QED
      BY <3>4, <3>5 DEF BurnsCounted
  <2>4. QED
    BY <2>2, <2>3
<1>7. QED
  BY <1>2, <1>3, <1>4, <1>5, <1>6 DEF WithdrawSteps

\* Without shares and open withdrawals there is nothing to withdraw.
LEMMA NothingToWithdraw ==
    ASSUME LInv, Shaped, NEW i \in Investor, WithdrawSteps(i),
           totalShares = 0, \A j \in Investor : ~wd[j].open
    PROVE  FALSE
<1>0. wd[i].goods \in Nat /\ WithdrawalShaped(wd[i])
  BY DEF LInv, LedgerTypeOK, Withdrawal, Shaped
<1>1. wd[i].goods = 0
  BY <1>0 DEF WithdrawalShaped
<1>2. CASE WithdrawInit(i)
  <2>1. PICK burn \in Burns : burn <= totalShares
    BY <1>2 DEF WithdrawInit, MayBurn
  <2>2. QED
    BY <2>1, LedgerAssumption
<1>3. CASE WithdrawSell(i) \/ WithdrawClaim(i) \/ WithdrawUnwind(i)
  BY <1>1, <1>3 DEF WithdrawSell, WithdrawClaim, WithdrawUnwind
<1>4. CASE WithdrawSettle(i) \/ WithdrawAbort(i)
  BY <1>4 DEF WithdrawSettle, WithdrawAbort
<1>5. QED
  BY <1>2, <1>3, <1>4 DEF WithdrawSteps

\* A deposit changes its price at the init and at the commit only.
LEMMA MarkStep ==
    ASSUME LedgerTypeOK, NEW i \in Investor, DepositSteps(i)
    PROVE  \/ dep'[i].mark = LiveMark
           \/ dep'[i].mark = dep[i].mark
           \/ dep'[i].mark.tsb = 0
<1>0. dep \in [Investor -> Deposit]
  BY DEF LedgerTypeOK
<1>1. CASE DepositInit(i)
  BY <1>0, <1>1 DEF DepositInit, NoDeposit
<1>2. CASE DepositBuy(i)
  BY <1>2, BuyEffect
<1>3. CASE DepositCommit(i)
  BY <1>3, CommitEffect
<1>4. CASE DepositLand(i) \/ DepositSweepRefund(i) \/ DepositForceRelease(i)
  BY <1>0, <1>4 DEF DepositLand, DepositSweepRefund, DepositForceRelease, Deposit
<1>5. CASE DepositSettle(i) \/ DepositAbort(i)
  <2>1. dep'[i] = NoDeposit
    BY <1>0, <1>5 DEF DepositSettle, DepositAbort
  <2>2. QED
    BY <2>1 DEF NoDeposit
<1>6. QED
  BY <1>1, <1>2, <1>3, <1>4, <1>5 DEF DepositSteps

\* Dead shares are never burned, and the first settle mints some.
LEMMA DeadFirstStep ==
    ASSUME LInv, Shaped, DeadFirst, NEW i \in Investor, DepositSteps(i) \/ WithdrawSteps(i)
    PROVE  DeadFirst' /\ dead' \in Nat /\ dead' >= dead
<1>0. /\ LedgerTypeOK /\ dead \in Nat /\ totalShares \in Nat
      /\ dep[i] \in Deposit
  BY DEF LInv, LedgerTypeOK
<1>1. CASE DepositSettle(i)
  <2>1. dead' = dead + DeadShares(dep[i].mark) /\ DeadShares(dep[i].mark) \in Nat
    BY <1>0, <1>1, SettleEffect
  <2>2. dead = 0 => DeadShares(dep[i].mark) > 0
    BY DeadSharesAssumption DEF DeadFirst, DeadShares, Bootstraps
  <2>3. dead' # 0
    BY <1>0, <2>1, <2>2
  <2>4. QED
    BY <1>0, <2>1, <2>3 DEF DeadFirst
<1>2. CASE DepositSteps(i) /\ ~DepositSettle(i)
  <2>1. UNCHANGED <<totalShares, dead, wd>>
    BY <1>2 DEF DepositSteps, DepositInit, DepositBuy, DepositCommit, DepositLand,
                DepositSweepRefund, DepositAbort, DepositForceRelease, books, accounts
  <2>2. ASSUME dead = 0 PROVE dep'[i].mark.tsb = 0
    <3>1. LiveMark.tsb = 0 /\ dep[i].mark.tsb = 0
      BY <2>2 DEF DeadFirst, LiveMark
    <3>2. QED
      BY <1>0, <1>2, <3>1, MarkStep
  <2>3. \A j \in Investor \ {i} : dep'[j] = dep[j]
    BY <1>0, <1>2, StepFrame
  <2>4. DeadFirst'
    BY <2>1, <2>2, <2>3 DEF DeadFirst
  <2>5. QED
    BY <1>0, <2>1, <2>4
<1>3. CASE WithdrawSteps(i)
  <2>1. dead' = dead
    BY <1>3 DEF WithdrawSteps, WithdrawInit, WithdrawSell, WithdrawClaim, WithdrawUnwind,
                WithdrawSettle, WithdrawAbort, accounts
  <2>2. dead # 0
    BY <1>3, NothingToWithdraw DEF DeadFirst
  <2>3. QED
    BY <1>0, <2>1, <2>2 DEF DeadFirst
<1>4. QED
  BY <1>1, <1>2, <1>3

\* While the first deposit is committed, nobody else brings shares in.
LEMMA FirstIsAloneStep ==
    ASSUME LInv, LedgerTypeOK', Shaped, SupplyExact, CommitsCounted, DeadFirst, FirstIsAlone,
           Held \in Nat, NEW i \in Investor, DepositSteps(i) \/ WithdrawSteps(i)
    PROVE  FirstIsAlone'
<1>0. /\ LedgerTypeOK /\ dead \in Nat /\ totalShares \in Nat
  BY DEF LInv, LedgerTypeOK
<1>f. \A j \in Investor \ {i} : dep'[j] = dep[j]
  BY <1>0, StepFrame
<1>1. CASE DepositInit(i) \/ DepositBuy(i) \/ DepositSweepRefund(i) \/ DepositAbort(i)
  <2>1. ~IsCommitted(dep[i]) /\ CommittedNow' = CommittedNow
    BY <1>0, <1>1, UncommittedStep
  <2>2. UNCHANGED <<totalShares, wd>>
    BY <1>1 DEF DepositInit, DepositBuy, DepositSweepRefund, DepositAbort, books, accounts
  <2>3. \A c \in CommittedNow : dep'[c] = dep[c]
    BY <1>f, <2>1 DEF CommittedNow
  <2>4. QED
    BY <2>1, <2>2, <2>3 DEF FirstIsAlone
<1>2. CASE DepositCommit(i)
  <2>1. CommittedNow' = {i} /\ dep'[i].mark = LiveMark
    BY <1>0, <1>2, CommitStep, CommitEffect
  <2>2. UNCHANGED <<totalShares, wd>>
    BY <1>2 DEF DepositCommit, books
  <2>3. ASSUME totalShares = 0 PROVE \A j \in Investor : ~wd[j].open
    <3>1. dead = 0
      BY <1>0, <2>3 DEF SupplyExact
    <3>2. QED
      BY <3>1 DEF DeadFirst
  <2>4. dep'[i].mark.tsb = totalShares
    BY <2>1 DEF LiveMark
  <2>5. QED
    BY <2>1, <2>2, <2>3, <2>4 DEF FirstIsAlone
<1>3. CASE DepositSettle(i) \/ DepositForceRelease(i)
  BY <1>0, <1>3, ReleaseStep DEF FirstIsAlone
<1>4. CASE DepositLand(i)
  <2>1. CommittedNow' = CommittedNow /\ dep'[i].mark = dep[i].mark
    BY <1>0, <1>4, LandStep
  <2>2. UNCHANGED <<totalShares, wd>>
    BY <1>4 DEF DepositLand, books
  <2>3. \A c \in CommittedNow : dep'[c].mark = dep[c].mark
    BY <1>f, <2>1 DEF CommittedNow
  <2>4. QED
    BY <2>1, <2>2, <2>3 DEF FirstIsAlone
<1>5. CASE WithdrawSteps(i)
  <2>1. dep' = dep
    BY <1>5 DEF WithdrawSteps, WithdrawInit, WithdrawSell, WithdrawClaim, WithdrawUnwind,
                WithdrawSettle, WithdrawAbort
  <2>2. CommittedNow' = CommittedNow
    BY <2>1 DEF CommittedNow
  <2>3. \A c \in CommittedNow : dep[c].mark.tsb # 0
    BY <1>5, NothingToWithdraw DEF FirstIsAlone
  <2>4. QED
    BY <2>1, <2>2, <2>3 DEF FirstIsAlone
<1>6. QED
  BY <1>1, <1>2, <1>3, <1>4, <1>5 DEF DepositSteps

-----------------------------------------------------------------------------
(* The invariant *)

\* A vault without sessions has its books in order.
LEMMA BooksInit == Init => BooksInv
<1> SUFFICES ASSUME Init PROVE BooksInv
  OBVIOUS
<1>1. LInv
  BY LedgerInit
<1>2. PICK v \in Vaults :
        /\ pos = [i \in Investor |-> [shares |-> v.shares[i], cost |-> v.shares[i]]]
        /\ dead = v.dead
  BY DEF Init
<1>3. v.shares \in [Investor -> Nat]
  BY LedgerAssumption DEF Fields
<1>4. Shaped
  BY DEF Init, Shaped, DepositShaped, WithdrawalShaped, NoDeposit, NoWithdrawal
<1>5. SupplyExact /\ aggCost = Basis
  BY DEF Init, SupplyExact
<1>6. Loaded(Stored(0)) = 0
  BY StoredExact, MaxCounterIsNat
<1>7. CommitsCounted
  BY <1>6 DEF Init, CommitsCounted, CommittedNow, IsCommitted, NoDeposit
<1>8. BurnsCounted
  <2> DEFINE f == [i \in Investor |-> Unminted(wd[i])]
  <2>1. \A i \in Investor : f[i] = 0
    BY DEF Init, Unminted, NoWithdrawal
  <2>2. BurnedNow = SumOver(f, Investor)
    BY DEF BurnedNow, Total
  <2> HIDE DEF f
  <2>3. BurnedNow = 0
    BY <2>1, <2>2, LedgerAssumption, SumOfZeroes
  <2>4. QED
    BY <1>6, <2>3, MaxCounterIsNat DEF Init, BurnsCounted
<1>9. DeadFirst
  <2>1. ASSUME dead = 0 PROVE totalShares = 0
    <3> DEFINE f == [i \in Investor |-> pos[i].shares]
    <3>1. \A i \in Investor : v.shares[i] = 0
      <4>1. (\E i \in Investor : v.shares[i] > 0) => v.dead > 0
        BY LedgerAssumption
      <4>2. ~(v.dead > 0)
        BY <1>2, <2>1
      <4>3. QED
        BY <1>3, <4>1, <4>2
    <3>2. \A i \in Investor : f[i] = 0
      BY <1>2, <3>1
    <3>3. Held = SumOver(f, Investor)
      BY DEF Held, Total
    <3> HIDE DEF f
    <3>4. Held = 0
      BY <3>2, <3>3, LedgerAssumption, SumOfZeroes
    <3>5. QED
      BY <2>1, <3>4 DEF Init
  <2>2. QED
    BY <2>1 DEF Init, DeadFirst, NoDeposit, NoWithdrawal
<1>10. FirstIsAlone
  BY DEF Init, FirstIsAlone, CommittedNow, IsCommitted, NoDeposit
<1>11. QED
  BY <1>1, <1>4, <1>5, <1>7, <1>8, <1>9, <1>10 DEF BooksInv

\* Every investor's step keeps them so.
LEMMA InvestorStep ==
    ASSUME BooksInv, NEW i \in Investor, DepositSteps(i) \/ WithdrawSteps(i)
    PROVE  BooksInv' /\ dead' >= dead
<1>1. LInv /\ LedgerTypeOK /\ Shaped /\ SupplyExact /\ aggCost = Basis
  BY DEF BooksInv, LInv
<1>2. LInv' /\ LedgerTypeOK'
  <2>1. LInv'
    BY <1>1, LedgerStep DEF Next
  <2>2. QED
    BY <2>1 DEF LInv
<1>3. Held \in Nat
  BY <1>1, <1>2, StepFrame, SumsOfStep
<1>4. Shaped' /\ SupplyExact' /\ aggCost' = Basis'
  BY <1>1, <1>2, ShapedStep, SupplyStep
<1>5. CommitsCounted' /\ BurnsCounted'
  <2>1. CASE DepositSteps(i)
    <3>1. CommitsCounted'
      BY <1>1, <1>2, <2>1, UncommittedStep, CommitStep, ReleaseStep, LandStep
      DEF BooksInv, DepositSteps
    <3>2. wd' = wd
      BY <1>1, <2>1, DepositStepTyped
    <3>3. burned' = burned
      BY <2>1 DEF DepositSteps, DepositInit, DepositBuy, DepositCommit, DepositLand, DepositSettle,
                  DepositSweepRefund, DepositAbort, DepositForceRelease, Uncommit, counters
    <3>4. BurnsCounted'
      BY <3>2, <3>3 DEF BooksInv, BurnsCounted, BurnedNow
    <3>5. QED
      BY <3>1, <3>4
  <2>2. CASE WithdrawSteps(i)
    <3>1. dep' = dep
      BY <1>1, <2>2, WithdrawStepTyped
    <3>2. committed' = committed /\ pending' = pending
      BY <2>2 DEF WithdrawSteps, WithdrawInit, WithdrawSell, WithdrawClaim, WithdrawUnwind,
                  WithdrawSettle, WithdrawAbort, counters
    <3>3. CommitsCounted'
      BY <3>1, <3>2 DEF BooksInv, CommitsCounted, CommittedNow
    <3>4. BurnsCounted'
      BY <1>1, <1>2, <2>2, BurnsStep DEF BooksInv
    <3>5. QED
      BY <3>3, <3>4
  <2>3. QED
    BY <2>1, <2>2
<1>6. DeadFirst' /\ dead' >= dead
  BY <1>1, DeadFirstStep DEF BooksInv
<1>7. FirstIsAlone'
  BY <1>1, <1>2, <1>3, FirstIsAloneStep DEF BooksInv
<1>8. QED
  BY <1>2, <1>4, <1>5, <1>6, <1>7 DEF BooksInv

\* Markings and trades are not in these books.
LEMMA OtherStep ==
    ASSUME BooksInv, LInv', UNCHANGED <<books, dead, pos, dep, wd, counters>>
    PROVE  BooksInv' /\ dead' >= dead
<1>1. Shaped' /\ DeadFirst' /\ FirstIsAlone'
  BY DEF BooksInv, Shaped, DeadFirst, FirstIsAlone, CommittedNow, books
<1>2. SupplyExact' /\ aggCost' = Basis'
  BY DEF BooksInv, SupplyExact, Held, Basis, books
<1>3. CommitsCounted' /\ BurnsCounted'
  BY DEF BooksInv, CommitsCounted, BurnsCounted, CommittedNow, BurnedNow, counters
<1>4. dead' >= dead
  BY DEF BooksInv, LInv, LedgerTypeOK
<1>5. QED
  BY <1>1, <1>2, <1>3, <1>4 DEF BooksInv

LEMMA BooksStep == BooksInv /\ [Next]_vars => BooksInv' /\ dead' >= dead
<1> SUFFICES ASSUME BooksInv, [Next]_vars PROVE BooksInv' /\ dead' >= dead
  OBVIOUS
<1>1. LInv'
  BY LedgerStep DEF BooksInv
<1>2. CASE MarkTvl \/ VaultTrades \/ UNCHANGED vars
  <2>1. UNCHANGED <<books, dead, pos, dep, wd, counters>>
    BY <1>2 DEF MarkTvl, VaultTrades, vars, accounts, counters, books
  <2>2. QED
    BY <1>1, <2>1, OtherStep
<1>3. QED
  BY <1>2, InvestorStep DEF Next

LEMMA BooksInductive == Spec => []BooksInv
<1>1. BooksInv /\ [Next]_vars => BooksInv'
  BY BooksStep
<1>2. QED
  BY <1>1, BooksInit, PTL DEF Spec

-----------------------------------------------------------------------------
(* Theorems *)

\* vault.total_shares is the supply of the share mint at every moment, however the settles,
\* burns and re-mints of any number of investors interleave: each writes live value plus
\* delta, and no dead share is ever lost.
THEOREM SupplyIsExact == Spec => []SupplyExact
<1>1. BooksInv => SupplyExact
  BY DEF BooksInv
<1>2. QED
  BY <1>1, BooksInductive, PTL

\* vault.aggregate_cost_basis_usdc is the sum of the positions' cost bases: donations add
\* to neither, and a withdrawal's settle takes the same slice off both.
THEOREM CostBasisIsExact == Spec => []CostBasisExact
<1>1. BooksInv => CostBasisExact
  BY DEF BooksInv, LInv, CostBasisExact
<1>2. QED
  BY <1>1, BooksInductive, PTL

\* The commitment counter and both reservations, read back from their two words, are what
\* the open sessions put up: nothing is left in a counter that no session will take down,
\* and saturating_sub never hides a difference.
THEOREM CountersAreExact == Spec => []CountersExact
<1>1. ASSUME BooksInv PROVE CountersExact
  <2>1. /\ CommitsCounted /\ Loaded(burned) = BurnedNow
        /\ LedgerTypeOK
    BY <1>1 DEF BooksInv, BurnsCounted, LInv
  <2>2. CASE CommittedNow = {}
    <3>1. Cardinality(CommittedNow) = 0
      BY <2>2, FS_EmptySet
    <3>2. committed = 0 /\ Loaded(pending) = 0
      BY <2>1, <2>2 DEF CommitsCounted
    <3>3. QED
      BY <2>1, <2>2, <3>1, <3>2 DEF CountersExact
  <2>3. CASE CommittedNow # {}
    <3>1. PICK c \in Investor : CommittedNow = {c} /\ Loaded(pending) = Reserved(dep[c])
      BY <2>1, <2>3 DEF CommitsCounted
    <3>2. committed = 1
      BY <2>1, <2>3 DEF CommitsCounted
    <3>3. Cardinality(CommittedNow) = 1
      BY <3>1, FS_Singleton
    <3>4. QED
      BY <2>1, <3>1, <3>2, <3>3 DEF CountersExact
  <2>4. QED
    BY <2>2, <2>3
<1>2. BooksInv => CountersExact
  BY <1>1
<1>3. QED
  BY <1>2, BooksInductive, PTL

\* A vault with shares has dead shares among them, and those are beyond every burn: it
\* never comes back to zero shares, and no later deposit is priced as a first one.
THEOREM SeededStays == Spec => SeededForever
<1>1. ASSUME BooksInv, [Next]_vars, totalShares > 0 PROVE totalShares' > 0
  <2>1. BooksInv' /\ dead' >= dead
    BY <1>1, BooksStep
  <2>2. /\ dead \in Nat /\ dead' \in Nat /\ totalShares \in Nat /\ totalShares' \in Nat
        /\ LedgerTypeOK'
    BY <1>1, <2>1 DEF BooksInv, LInv, LedgerTypeOK
  <2>3. dead # 0
    BY <1>1 DEF BooksInv, DeadFirst
  <2>4. dead' # 0
    BY <2>1, <2>2, <2>3
  <2>5. totalShares' # 0
    <3>1. totalShares' = Held' + dead'
      BY <2>1 DEF BooksInv, SupplyExact
    <3>2. Held' \in Nat
      BY <2>2, HeldIsNatNext
    <3>3. \A h, d \in Nat : d # 0 => h + d # 0
      OBVIOUS
    <3>4. QED
      BY <2>2, <2>4, <3>1, <3>2, <3>3, Zenon
  <2>6. QED
    BY <2>2, <2>5
<1>2. BooksInv /\ [Next]_vars => (totalShares > 0 => totalShares' > 0)
  BY <1>1
<1>3. QED
  BY <1>2, BooksInductive, PTL DEF Spec, SeededForever

-----------------------------------------------------------------------------
(* What a share is worth *)

\* A slice that is cut by enough shares costs the others nothing.
LEMMA FairSlice ==
    ASSUME NEW P \in Nat, NEW C \in Nat, NEW b \in Nat, NEW x \in Nat, NEW D \in Nat,
           C <= D, x * D <= P * b
    PROVE  (P - x) * C >= P * (C - b)
<1>1. x * C \in Nat /\ x * D \in Nat /\ x * C <= x * D
  BY SMT
<1>2. P * b \in Nat /\ x * C <= P * b
  BY <1>1, SMT
<1>3. (P - x) * C = P * C - x * C /\ P * (C - b) = P * C - P * b
  BY SMT
<1>4. P * C \in Nat
  BY SMT
<1>5. QED
  BY <1>1, <1>2, <1>3, <1>4

\* So does a mint at the price.
LEMMA FairMint ==
    ASSUME NEW P \in Nat, NEW C \in Nat, NEW a \in Nat, NEW o \in Nat, P * o <= a * C
    PROVE  (P + a) * C >= P * (C + o)
<1>1. (P + a) * C = P * C + a * C /\ P * (C + o) = P * C + P * o
  BY SMT
<1>2. P * C \in Nat /\ a * C \in Nat /\ P * o \in Nat
  BY SMT
<1>3. QED
  BY <1>1, <1>2

\* Two slices of what the vault holds, cut by the same shares, are a slice of it all.
LEMMA SlicesFit ==
    ASSUME LedgerTypeOK, NEW burn \in Nat \ {0}, burn <= totalShares,
           NEW x \in {0, Slice(idle, burn)}, NEW y \in {0, Slice(goods, burn)}
    PROVE  /\ x \in Nat /\ y \in Nat
           /\ (x + y) * Denominator <= Worth * burn
<1>1. /\ idle \in Nat /\ goods \in Nat /\ totalShares \in Nat
      /\ Loaded(pending) \in Nat /\ Loaded(burned) \in Nat
  BY LoadedIsNat DEF LedgerTypeOK
<1>2. Denominator \in Nat \ {0}
  BY <1>1 DEF Denominator
<1>3. ASSUME NEW n \in Nat, NEW z \in {0, Slice(n, burn)} PROVE z \in Nat /\ z * Denominator <= n * burn
  <2>1. n * burn \in Nat
    BY SMT
  <2>2. Slice(n, burn) \in Nat /\ Denominator * Slice(n, burn) <= n * burn
    BY <1>2, <2>1, Division DEF Slice
  <2>3. CASE z = 0
    BY <1>2, <2>1, <2>3
  <2>4. CASE z = Slice(n, burn)
    BY <1>2, <2>2, <2>4
  <2>5. QED
    BY <2>3, <2>4
<1>4. x \in Nat /\ x * Denominator <= idle * burn /\ y \in Nat /\ y * Denominator <= goods * burn
  BY <1>1, <1>3
<1>5. \A p, q, D, m, n, b \in Nat :
        p * D <= m * b /\ q * D <= n * b => (p + q) * D <= (m + n) * b
  <2> SUFFICES ASSUME NEW p \in Nat, NEW q \in Nat, NEW D \in Nat,
                      NEW m \in Nat, NEW n \in Nat, NEW b \in Nat,
                      p * D <= m * b, q * D <= n * b
               PROVE  (p + q) * D <= (m + n) * b
    OBVIOUS
  <2>1. (p + q) * D = p * D + q * D /\ (m + n) * b = m * b + n * b
    BY SMT
  <2>2. p * D \in Nat /\ q * D \in Nat /\ m * b \in Nat /\ n * b \in Nat
    BY SMT
  <2>3. QED
    BY <2>1, <2>2
<1>6. QED
  BY <1>1, <1>2, <1>4, <1>5 DEF Worth

\* The claims of committed deposits are within the reservation, unless dust entered a
\* vault valued at zero.
LEMMA OwedIsReserved ==
    ASSUME BooksInv, totalShares > 0, \A i \in Investor : ~UnderReserved(dep[i])
    PROVE  OwedAll <= Loaded(pending)
<1> DEFINE f == [i \in Investor |-> Owed(dep[i])]
<1>0. LedgerTypeOK /\ CommitsCounted /\ FirstIsAlone
  BY DEF BooksInv, LInv
<1>1. \A i \in Investor : f[i] \in Nat /\ f[i] = Owed(dep[i])
  BY <1>0, SessionNumbers
<1>2. OwedAll = SumOver(f, Investor)
  BY DEF OwedAll, Total
<1> HIDE DEF f
<1>3. CASE CommittedNow = {}
  <2>1. \A i \in Investor : f[i] = 0
    BY <1>1, <1>3 DEF CommittedNow, Owed
  <2>2. OwedAll = 0
    BY <1>2, <2>1, LedgerAssumption, SumOfZeroes
  <2>3. Loaded(pending) = 0
    BY <1>0, <1>3 DEF CommitsCounted
  <2>4. QED
    BY <2>2, <2>3
<1>4. CASE CommittedNow # {}
  <2>1. PICK c \in Investor : CommittedNow = {c} /\ Loaded(pending) = Reserved(dep[c])
    BY <1>0, <1>4 DEF CommitsCounted
  <2>2. /\ IsFiniteSet(Investor) /\ IsFiniteSet(Investor \ {c})
    BY LedgerAssumption, FS_Subset
  <2>3. \A i \in Investor \ {c} : f[i] = 0
    BY <1>1, <2>1 DEF CommittedNow, Owed
  <2>4. SumOver(f, Investor \ {c}) = 0
    BY <2>2, <2>3, SumOfZeroes
  <2>5. OwedAll = Owed(dep[c])
    <3>1. OwedAll = f[c] + 0
      BY <1>1, <1>2, <2>2, <2>4, SumWithout
    <3>2. QED
      BY <1>1, <3>1
  <2>6. Owed(dep[c]) <= Reserved(dep[c])
    <3> DEFINE s == dep[c]
    <3>1. /\ IsCommitted(s) /\ s \in Deposit /\ s.mark \in [tsb: Nat, tvl: Nat] /\ s.amount \in Nat
      BY <1>0, <2>1 DEF CommittedNow, LedgerTypeOK, Deposit, Mark
    <3>2. s.mark.tsb > 0
      <4>1. s.mark.tsb # 0
        BY <1>0, <2>1 DEF FirstIsAlone
      <4>2. QED
        BY <3>1, <4>1
    <3>3. s.mark.tvl > 0 \/ s.amount >= MinInitialShares
      <4>1. ~(s.mark.tvl = 0 /\ s.amount < MinInitialShares)
        BY <3>1, <3>2 DEF UnderReserved
      <4>2. QED
        BY <3>1, <4>1, DeadSharesAssumption
    <3>4. ValueIn(s) \in 0..s.amount
      <4>1. s.received \in Nat /\ s.cash \in Nat
        BY <3>1 DEF Deposit
      <4>2. QED
        BY <3>1, <4>1 DEF ValueIn, Least
    <3>5. Due(s) <= Phantom(s.amount, s.mark)
      BY <3>1, <3>2, <3>3, <3>4, PhantomCovers DEF Due
    <3>6. Due(s) \in Nat /\ Phantom(s.amount, s.mark) \in Nat /\ MaxCounter \in Nat
      BY <3>1, DepositNumbers, PhantomType, MaxCounterIsNat
    <3>7. QED
      BY <3>1, <3>5, <3>6 DEF Owed, Reserved, Least
  <2>7. QED
    BY <2>1, <2>5, <2>6
<1>5. QED
  BY <1>3, <1>4

\* The pool and the claims, as the sums they are made of, before and after a step.
LEMMA PoolOfStep ==
    ASSUME LInv, LInv', NEW i \in Investor, DepositSteps(i) \/ WithdrawSteps(i)
    PROVE  /\ Pool = Worth + BringingAll + ReturningAll
           /\ Pool' = Worth' + BringingAll' + ReturningAll'
           /\ Claims = totalShares + BurnedNow + OwedAll
           /\ Claims' = totalShares' + BurnedNow' + OwedAll'
           /\ {Worth, Worth', BringingAll, BringingAll', ReturningAll, ReturningAll'} \subseteq Nat
           /\ {totalShares, totalShares', BurnedNow, BurnedNow', OwedAll, OwedAll'} \subseteq Nat
           /\ {Pool, Pool', Claims, Claims'} \subseteq Nat
           /\ BurnedNow' + Unminted(wd[i]) = BurnedNow + Unminted(wd'[i])
           /\ BringingAll' + Bringing(dep[i]) = BringingAll + Bringing(dep'[i])
           /\ ReturningAll' + Returning(wd[i]) = ReturningAll + Returning(wd'[i])
           /\ OwedAll' + Owed(dep[i]) = OwedAll + Owed(dep'[i])
           /\ {Bringing(dep[i]), Returning(wd[i]), Unminted(wd[i]), Owed(dep[i])} \subseteq Nat
<1>1. LedgerTypeOK /\ LedgerTypeOK'
  BY DEF LInv
<1>2. /\ {BurnedNow, BurnedNow'} \subseteq Nat
      /\ {BringingAll, BringingAll', ReturningAll, ReturningAll', OwedAll, OwedAll'} \subseteq Nat
      /\ BurnedNow' + Unminted(wd[i]) = BurnedNow + Unminted(wd'[i])
      /\ BringingAll' + Bringing(dep[i]) = BringingAll + Bringing(dep'[i])
      /\ ReturningAll' + Returning(wd[i]) = ReturningAll + Returning(wd'[i])
      /\ OwedAll' + Owed(dep[i]) = OwedAll + Owed(dep'[i])
  BY <1>1, StepFrame, SumsOfStep
<1>3. {totalShares, totalShares', Worth, Worth'} \subseteq Nat
  BY <1>1 DEF LedgerTypeOK, Worth
<1>4. /\ Pool = Worth + BringingAll + ReturningAll
      /\ Claims = totalShares + BurnedNow + OwedAll
  BY DEF Pool, Claims, BringingAll, ReturningAll, OwedAll
<1>5. /\ Pool' = Worth' + BringingAll' + ReturningAll'
      /\ Claims' = totalShares' + BurnedNow' + OwedAll'
  BY DEF Pool, Claims, BringingAll, ReturningAll, OwedAll
<1>6. {Pool, Pool', Claims, Claims'} \subseteq Nat
  <2>1. \A a, b, c \in Nat : a + b + c \in Nat
    OBVIOUS
  <2>2. Pool \in Nat /\ Claims \in Nat
    BY <1>2, <1>3, <1>4
  <2>3. Pool' \in Nat
    BY <1>2, <1>3, <1>5, <2>1, Zenon
  <2>4. Claims' \in Nat
    BY <1>2, <1>3, <1>5, <2>1, Zenon
  <2>5. QED
    BY <2>2, <2>3, <2>4
<1>7. {Bringing(dep[i]), Returning(wd[i]), Unminted(wd[i]), Owed(dep[i])} \subseteq Nat
  BY <1>1, SessionNumbers
<1>8. QED
  BY <1>2, <1>3, <1>4, <1>5, <1>6, <1>7

\* No value goes to one side only: what a deposit's steps take from a session's accounts
\* reaches the vault, and a settle mints what was owed.
LEMMA DepositKeepsWorth ==
    ASSUME BooksInv, LInv', NEW i \in Investor, DepositSteps(i), ~DepositCommit(i), ~TurnsBack(i)
    PROVE  Pool' = Pool /\ Claims' = Claims
<1>0. /\ LInv /\ LedgerTypeOK /\ Shaped /\ CommitsCounted
      /\ dep \in [Investor -> Deposit] /\ dep[i] \in Deposit
      /\ dep[i].cash \in Nat /\ dep[i].goods \in Nat /\ idle \in Nat /\ goods \in Nat
      /\ totalShares \in Nat
  BY DEF BooksInv, LInv, LedgerTypeOK, Deposit
<1>1. wd' = wd
  BY <1>0, DepositStepTyped
<1>2. BurnedNow' = BurnedNow /\ ReturningAll' = ReturningAll
  BY <1>1 DEF BurnedNow, ReturningAll
<1>3. CASE DepositInit(i) \/ DepositBuy(i) \/ DepositSweepRefund(i) \/ DepositAbort(i)
  <2>1. ~IsCommitted(dep[i]) /\ ~IsCommitted(dep'[i])
    BY <1>0, <1>3, UncommittedStep
  <2>2. UNCHANGED <<idle, goods, totalShares>>
    BY <1>3 DEF DepositInit, DepositBuy, DepositSweepRefund, DepositAbort, books, accounts
  <2>3. /\ Bringing(dep[i]) = 0 /\ Bringing(dep'[i]) = 0
        /\ Owed(dep[i]) = 0 /\ Owed(dep'[i]) = 0
    BY <2>1 DEF Bringing, Owed
  <2>4. BringingAll' = BringingAll /\ OwedAll' = OwedAll
    BY <1>0, <2>3, PoolOfStep
  <2>5. QED
    BY <1>2, <2>2, <2>4 DEF Pool, Claims, Worth, BringingAll, OwedAll, ReturningAll
<1>4. CASE DepositLand(i)
  <2>1. Owed(dep'[i]) = Owed(dep[i]) /\ goods' + Bringing(dep'[i]) = goods + Bringing(dep[i])
    BY <1>0, <1>4, LandStep
  <2>2. UNCHANGED <<idle, totalShares>>
    BY <1>4 DEF DepositLand, books
  <2>3. OwedAll' = OwedAll
    BY <1>0, <2>1, PoolOfStep
  <2>4. goods' + BringingAll' = goods + BringingAll
    <3>1. /\ {BringingAll, BringingAll', Bringing(dep[i])} \subseteq Nat
          /\ BringingAll' + Bringing(dep[i]) = BringingAll + Bringing(dep'[i])
      BY <1>0, PoolOfStep
    <3>2. goods' \in Nat /\ Bringing(dep'[i]) \in Nat
      <4>1. /\ goods' \in Nat /\ dep'[i].cash \in Nat /\ dep'[i].goods \in Nat
        BY DEF LInv, LedgerTypeOK, Deposit
      <4>2. QED
        BY <4>1 DEF Bringing
    <3>3. QED
      BY <1>0, <2>1, <3>1, <3>2
  <2>5. Pool' = Pool
    <3>1. /\ Pool = Worth + BringingAll + ReturningAll
          /\ Pool' = Worth' + BringingAll' + ReturningAll'
          /\ {BringingAll, BringingAll', ReturningAll} \subseteq Nat
      BY <1>0, PoolOfStep
    <3>2. goods' \in Nat
      BY DEF LInv, LedgerTypeOK
    <3>3. Worth' = idle + goods' /\ Worth = idle + goods
      BY <2>2 DEF Worth
    <3>4. QED
      BY <1>0, <1>2, <2>4, <3>1, <3>2, <3>3
  <2>6. QED
    BY <1>2, <2>2, <2>3, <2>5 DEF Claims, OwedAll
<1>5. CASE DepositSettle(i)
  <2> DEFINE s == dep[i]
  <2>1. IsCommitted(s) /\ ~IsCommitted(dep'[i])
    BY <1>0, <1>5, ReleaseStep
  <2>2. /\ s.goods = 0 /\ goods' = goods /\ idle' = idle + s.cash
        /\ totalShares' = totalShares + Due(s) /\ totalShares + Due(s) <= MaxCounter
        /\ Due(s) \in Nat
    BY <1>0, <1>5, DepositNumbers DEF DepositSettle, SharesBefore
  <2>3. Bringing(s) = s.cash /\ Bringing(dep'[i]) = 0
    BY <1>0, <2>1, <2>2 DEF Bringing
  <2>4. Owed(s) = Due(s) /\ Owed(dep'[i]) = 0
    <3>1. Due(s) <= MaxCounter
      BY <1>0, <2>2, MaxCounterIsNat
    <3>2. QED
      BY <2>1, <2>2, <3>1, MaxCounterIsNat DEF Owed, Least
  <2>5. BringingAll' + s.cash = BringingAll /\ OwedAll' + Due(s) = OwedAll
    BY <1>0, <2>3, <2>4, PoolOfStep
  <2>6. Pool' = Pool
    <3>1. /\ Pool = Worth + BringingAll + ReturningAll
          /\ Pool' = Worth' + BringingAll' + ReturningAll'
          /\ {BringingAll, BringingAll', ReturningAll} \subseteq Nat
      BY <1>0, PoolOfStep
    <3>2. Worth' = (idle + s.cash) + goods /\ Worth = idle + goods
      BY <2>2 DEF Worth
    <3>3. QED
      BY <1>0, <1>2, <2>5, <3>1, <3>2
  <2>7. Claims' = Claims
    <3>1. /\ Claims = totalShares + BurnedNow + OwedAll
          /\ Claims' = totalShares' + BurnedNow' + OwedAll'
          /\ {BurnedNow, OwedAll, OwedAll'} \subseteq Nat
      BY <1>0, PoolOfStep
    <3>2. QED
      BY <1>0, <1>2, <2>2, <2>5, <3>1
  <2>8. QED
    BY <2>6, <2>7
<1>6. CASE DepositForceRelease(i)
  <2>1. IsCommitted(dep[i]) /\ dep'[i].aborting
    BY <1>0, <1>6 DEF DepositForceRelease, Deposit
  <2>2. QED
    BY <2>1 DEF TurnsBack
<1>7. QED
  BY <1>3, <1>4, <1>5, <1>6 DEF DepositSteps

\* What cannot be paid of a fee stays in the vault.
LEMMA FeeIsNat ==
    ASSUME LInv, NEW i \in Investor, WithdrawSettle(i)
    PROVE  \E unpaid \in Nat : idle' = idle + unpaid
<1> DEFINE w == wd[i]
           cost == CostSlice(pos[i], w.burn)
           gain == SaturatingSub(w.cash, cost)
           fee == Bps(gain, PerfFeeBps)
           cut == Bps(fee, ProtocolCutBps)
<1>0. /\ w \in Withdrawal /\ pos[i] \in [shares: Nat, cost: Nat] /\ w.burn \in Nat \ {0}
      /\ w.cash \in Nat
  BY DEF LInv, LedgerTypeOK, BurnsSomething, WithdrawSettle, Withdrawal
<1>1. PICK unpaid \in {0, cut, fee - cut, fee} : idle' = idle + unpaid
  BY DEF WithdrawSettle
<1>2. cost \in Nat
  BY <1>0, CostSliceBounded
<1> HIDE DEF cost
<1>3. gain \in Nat
  BY <1>0, <1>2, SaturatingSubIsNat
<1> HIDE DEF gain
<1>4. fee \in Nat
  BY <1>3, FractionAssumption, BpsBounded
<1> HIDE DEF fee
<1>5. cut \in 0..fee
  BY <1>4, FractionAssumption, BpsBounded
<1> HIDE DEF cut
<1>6. unpaid \in Nat
  BY <1>1, <1>4, <1>5
<1>7. QED
  BY <1>1, <1>6

\* After the slice is cut, a withdrawal only gives back: the part of a fee that cannot be
\* paid, or, unwinding, slice and shares together.
LEMMA WithdrawalKeepsWorth ==
    ASSUME BooksInv, LInv', NEW i \in Investor, WithdrawSteps(i), ~WithdrawInit(i), ~TurnsBack(i)
    PROVE  Pool' >= Pool /\ Claims' = Claims
<1> DEFINE w == wd[i]
<1>0. /\ LInv /\ LedgerTypeOK /\ WithdrawalShaped(w)
      /\ wd \in [Investor -> Withdrawal] /\ w \in Withdrawal
      /\ pos \in [Investor -> [shares: Nat, cost: Nat]]
      /\ w.cash \in Nat /\ w.goods \in Nat /\ w.burn \in Nat
      /\ idle \in Nat /\ goods \in Nat /\ totalShares \in Nat
      /\ w.open => w.burn > 0
  BY DEF BooksInv, LInv, LedgerTypeOK, Withdrawal, Shaped, BurnsSomething
<1>1. dep' = dep
  BY <1>0, WithdrawStepTyped
<1>2. BringingAll' = BringingAll /\ OwedAll' = OwedAll
  BY <1>1 DEF BringingAll, OwedAll
<1>3. /\ Pool = Worth + BringingAll + ReturningAll
      /\ Pool' = Worth' + BringingAll' + ReturningAll'
      /\ Claims = totalShares + BurnedNow + OwedAll
      /\ Claims' = totalShares' + BurnedNow' + OwedAll'
      /\ {BringingAll, ReturningAll, ReturningAll', BurnedNow, BurnedNow', OwedAll} \subseteq Nat
      /\ BurnedNow' + Unminted(w) = BurnedNow + Unminted(wd'[i])
      /\ ReturningAll' + Returning(w) = ReturningAll + Returning(wd'[i])
      /\ Returning(w) \in Nat /\ Unminted(w) \in Nat
  BY <1>0, PoolOfStep
<1>p. ASSUME NEW a \in Nat, NEW b \in Nat, NEW c \in Nat,
             Worth = a, Worth' = b, b + ReturningAll' = a + ReturningAll + c
      PROVE  Pool' >= Pool
  BY <1>2, <1>3, <1>p
<1>4. CASE WithdrawSell(i) \/ WithdrawClaim(i) \/ WithdrawSettle(i)
  <2>1. ~w.aborting /\ ~wd'[i].aborting
    <3>1. CASE WithdrawSell(i)
      BY <1>0, <3>1 DEF WithdrawSell, Withdrawal
    <3>2. CASE WithdrawClaim(i)
      BY <1>0, <3>2 DEF WithdrawClaim, Withdrawal
    <3>3. CASE WithdrawSettle(i)
      BY <1>0, <3>3 DEF WithdrawSettle, NoWithdrawal
    <3>4. QED
      BY <1>4, <3>1, <3>2, <3>3
  <2>2. totalShares' = totalShares /\ goods' = goods
    BY <1>4 DEF WithdrawSell, WithdrawClaim, WithdrawSettle, books, accounts
  <2>3. /\ Unminted(w) = 0 /\ Unminted(wd'[i]) = 0
        /\ Returning(w) = 0 /\ Returning(wd'[i]) = 0
    BY <2>1 DEF Unminted, Returning
  <2>4. BurnedNow' = BurnedNow /\ ReturningAll' = ReturningAll
    BY <1>3, <2>3
  <2>5. \E unpaid \in Nat : idle' = idle + unpaid
    <3>1. CASE WithdrawSell(i) \/ WithdrawClaim(i)
      <4>1. idle' = idle
        BY <3>1 DEF WithdrawSell, WithdrawClaim, accounts
      <4>2. idle' = idle + 0 /\ 0 \in Nat
        BY <1>0, <4>1
      <4>3. QED
        BY <4>2
    <3>2. CASE WithdrawSettle(i)
      BY <1>0, <3>2, FeeIsNat
    <3>3. QED
      BY <1>4, <3>1, <3>2
  <2>6. PICK unpaid \in Nat : idle' = idle + unpaid
    BY <2>5
  <2>7. Pool' >= Pool
    <3>1. Worth = idle + goods /\ Worth' = (idle + unpaid) + goods
      BY <2>2, <2>6 DEF Worth
    <3>2. /\ idle + goods \in Nat /\ (idle + unpaid) + goods \in Nat
          /\ ((idle + unpaid) + goods) + ReturningAll' = (idle + goods) + ReturningAll + unpaid
      BY <1>0, <1>3, <2>4
    <3>3. QED
      BY <1>p, <3>1, <3>2
  <2>8. QED
    BY <1>2, <1>3, <2>2, <2>4, <2>7
<1>5. CASE WithdrawUnwind(i)
  <2>1. PICK v \in 1..w.goods :
          /\ wd' = [wd EXCEPT ![i].goods = @ - v, ![i].aborting = TRUE]
          /\ goods' = goods + v
    BY <1>5 DEF WithdrawUnwind
  <2>2. /\ wd'[i].goods = w.goods - v /\ wd'[i].aborting
        /\ wd'[i].cash = w.cash /\ wd'[i].burn = w.burn
    BY <1>0, <2>1 DEF Withdrawal
  <2>3. w.open
    BY <1>0, <2>1 DEF WithdrawalShaped
  <2>4. w.aborting
    BY <2>2, <2>3 DEF TurnsBack
  <2>5. Unminted(wd'[i]) = Unminted(w) /\ Returning(wd'[i]) + v = Returning(w)
    BY <1>0, <2>2, <2>4 DEF Unminted, Returning
  <2>6. totalShares' = totalShares /\ idle' = idle
    BY <1>5 DEF WithdrawUnwind, books
  <2>7. BurnedNow' = BurnedNow
    BY <1>3, <2>5
  <2>8. Pool' >= Pool
    <3>1. Worth = idle + goods /\ Worth' = idle + (goods + v)
      BY <2>1, <2>6 DEF Worth
    <3>2. Returning(wd'[i]) = w.cash + (w.goods - v) /\ Returning(w) = w.cash + w.goods
      BY <2>2, <2>4 DEF Returning
    <3>3. /\ idle + goods \in Nat /\ idle + (goods + v) \in Nat
          /\ (idle + (goods + v)) + ReturningAll' = (idle + goods) + ReturningAll + 0
      BY <1>0, <1>3, <2>1, <3>2
    <3>4. QED
      BY <1>p, <3>1, <3>3
  <2>9. QED
    BY <1>2, <1>3, <2>6, <2>7, <2>8
<1>6. CASE WithdrawAbort(i)
  <2>1. /\ w.open /\ w.goods = 0
        /\ totalShares' = totalShares + w.burn
        /\ pos' = [pos EXCEPT ![i].shares = @ + w.burn]
        /\ idle' = idle + w.cash /\ goods' = goods
        /\ wd' = [wd EXCEPT ![i] = NoWithdrawal]
    BY <1>6 DEF WithdrawAbort
  <2>2. w.aborting
    <3>1. pos'[i].shares = pos[i].shares + w.burn
      BY <1>0, <2>1
    <3>2. pos'[i].shares > pos[i].shares
      BY <1>0, <2>1, <3>1
    <3>3. QED
      BY <2>1, <3>2 DEF TurnsBack
  <2>3. ~wd'[i].aborting
    BY <1>0, <2>1 DEF NoWithdrawal
  <2>4. /\ Unminted(w) = w.burn /\ Unminted(wd'[i]) = 0
        /\ Returning(w) = w.cash /\ Returning(wd'[i]) = 0
    BY <1>0, <2>1, <2>2, <2>3 DEF Unminted, Returning
  <2>5. BurnedNow' + w.burn = BurnedNow /\ ReturningAll' + w.cash = ReturningAll
    BY <1>3, <2>4
  <2>6. Pool' >= Pool
    <3>1. Worth = idle + goods /\ Worth' = (idle + w.cash) + goods
      BY <2>1 DEF Worth
    <3>2. idle + goods \in Nat /\ (idle + w.cash) + goods \in Nat
      BY <1>0
    <3>3. ((idle + w.cash) + goods) + ReturningAll' = (idle + goods) + ReturningAll + 0
      <4> DEFINE c == w.cash
      <4>1. /\ ReturningAll \in Nat /\ ReturningAll' \in Nat
            /\ idle \in Nat /\ goods \in Nat /\ c \in Nat
            /\ ReturningAll' + c = ReturningAll
        BY <1>0, <1>3, <2>5
      <4> HIDE DEF c
      <4>2. ReturningAll' = ReturningAll - c
        <5> DEFINE x == ReturningAll
                   y == ReturningAll'
        <5>1. x \in Nat /\ y \in Nat /\ c \in Nat /\ y + c = x
          BY <4>1
        <5> HIDE DEF x, y
        <5>2. y = x - c
          BY <5>1
        <5>3. QED
          BY <5>2 DEF x, y
      <4>3. ((idle + c) + goods) + (ReturningAll - c) = (idle + goods) + ReturningAll + 0
        BY <4>1
      <4>4. QED
        BY <4>2, <4>3, Zenon DEF c
    <3>4. QED
      BY <1>p, <3>1, <3>2, <3>3
  <2>7. Claims' = Claims
    <3> DEFINE b == w.burn
    <3>1. /\ BurnedNow \in Nat /\ BurnedNow' \in Nat /\ OwedAll \in Nat
          /\ totalShares \in Nat /\ b \in Nat
          /\ BurnedNow' + b = BurnedNow
      BY <1>0, <1>3, <2>5
    <3>2. Claims = totalShares + BurnedNow + OwedAll
      BY <1>3
    <3>3. Claims' = (totalShares + b) + BurnedNow' + OwedAll
      BY <1>2, <1>3, <2>1, Zenon
    <3> HIDE DEF b
    <3>4. BurnedNow' = BurnedNow - b
      <4> DEFINE x == BurnedNow
                 y == BurnedNow'
      <4>1. x \in Nat /\ y \in Nat /\ b \in Nat /\ y + b = x
        BY <3>1
      <4> HIDE DEF x, y
      <4>2. y = x - b
        BY <4>1
      <4>3. QED
        BY <4>2 DEF x, y
    <3>5. (totalShares + b) + (BurnedNow - b) + OwedAll = totalShares + BurnedNow + OwedAll
      BY <3>1
    <3>6. QED
      BY <3>2, <3>3, <3>4, <3>5, Zenon
  <2>8. QED
    BY <2>6, <2>7
<1>7. QED
  BY <1>4, <1>5, <1>6 DEF WithdrawSteps

\* A slice set aside takes from the pool no more than the burned shares were worth: it is
\* cut by every claim there is, minted or due.
LEMMA WithdrawInitKeepsWorth ==
    ASSUME BooksInv, LInv', NEW i \in Investor, WithdrawInit(i),
           \A j \in Investor : ~UnderReserved(dep[j])
    PROVE  Pool' * Claims >= Pool * Claims'
<1>0. /\ LInv /\ LedgerTypeOK /\ LedgerTypeOK' /\ WithdrawalShaped(wd[i]) /\ BurnsCounted
      /\ wd \in [Investor -> Withdrawal] /\ WithdrawSteps(i)
      /\ idle \in Nat /\ goods \in Nat /\ totalShares \in Nat
      /\ idle' \in Nat /\ goods' \in Nat /\ totalShares' \in Nat
  BY DEF BooksInv, LInv, LedgerTypeOK, Shaped, WithdrawSteps
<1>1. PICK burn \in Burns : \E cash \in {0, Slice(idle, burn)}, lump \in {0, Slice(goods, burn)} :
        /\ burn <= totalShares
        /\ idle' = idle - cash /\ goods' = goods - lump /\ totalShares' = totalShares - burn
        /\ ~wd'[i].aborting
  <2>1. PICK burn \in Burns, takesCash \in BOOLEAN, takesGoods \in BOOLEAN :
          LET cash == IF takesCash THEN Slice(idle, burn) ELSE 0
              lump == IF takesGoods THEN Slice(goods, burn) ELSE 0
          IN /\ MayBurn(i, burn)
             /\ wd' = [wd EXCEPT ![i] = [NoWithdrawal EXCEPT
                         !.open = TRUE, !.burn = burn, !.cash = cash, !.goods = lump,
                         !.marked = (tvlLast * burn) \div totalShares]]
             /\ idle' = idle - cash
             /\ goods' = goods - lump
             /\ totalShares' = totalShares - burn
    BY Zenon DEF WithdrawInit
  <2> DEFINE cash == IF takesCash THEN Slice(idle, burn) ELSE 0
             lump == IF takesGoods THEN Slice(goods, burn) ELSE 0
  <2>2. cash \in {0, Slice(idle, burn)} /\ lump \in {0, Slice(goods, burn)}
    OBVIOUS
  <2>3. ~wd'[i].aborting
    BY <1>0, <2>1 DEF NoWithdrawal
  <2>4. burn <= totalShares
    BY <2>1 DEF MayBurn
  <2>5. idle' = idle - cash /\ goods' = goods - lump /\ totalShares' = totalShares - burn
    BY <2>1
  <2> HIDE DEF cash, lump
  <2>6. QED
    BY <2>2, <2>3, <2>4, <2>5
<1>c. PICK cash \in {0, Slice(idle, burn)}, lump \in {0, Slice(goods, burn)} :
        /\ burn <= totalShares
        /\ idle' = idle - cash /\ goods' = goods - lump /\ totalShares' = totalShares - burn
        /\ ~wd'[i].aborting
  BY <1>1
<1>2. burn \in Nat \ {0}
  BY LedgerAssumption
<1>3. cash \in Nat /\ lump \in Nat /\ (cash + lump) * Denominator <= Worth * burn
  BY <1>0, <1>c, <1>2, SlicesFit
<1>4. UNCHANGED dep /\ ~wd[i].open
  BY DEF WithdrawInit
<1>5. BringingAll' = BringingAll /\ OwedAll' = OwedAll
  BY <1>4 DEF BringingAll, OwedAll
<1>6. /\ Pool = Worth + BringingAll + ReturningAll
      /\ Pool' = Worth' + BringingAll' + ReturningAll'
      /\ Claims = totalShares + BurnedNow + OwedAll
      /\ Claims' = totalShares' + BurnedNow' + OwedAll'
      /\ {Worth, BringingAll, ReturningAll, ReturningAll', BurnedNow, BurnedNow', OwedAll} \subseteq Nat
      /\ BurnedNow' + Unminted(wd[i]) = BurnedNow + Unminted(wd'[i])
      /\ ReturningAll' + Returning(wd[i]) = ReturningAll + Returning(wd'[i])
      /\ Pool \in Nat /\ Claims \in Nat
  BY <1>0, PoolOfStep
<1>7. BurnedNow' = BurnedNow /\ ReturningAll' = ReturningAll
  <2>1. ~wd[i].aborting
    BY <1>0, <1>4 DEF WithdrawalShaped
  <2>2. /\ Unminted(wd[i]) = 0 /\ Unminted(wd'[i]) = 0
        /\ Returning(wd[i]) = 0 /\ Returning(wd'[i]) = 0
    BY <1>c, <2>1 DEF Unminted, Returning
  <2>3. QED
    BY <1>6, <2>2
<1>8. Pool' = Pool - (cash + lump) /\ Claims' = Claims - burn
  <2>1. Worth' = (idle - cash) + (goods - lump) /\ Worth = idle + goods
    BY <1>c DEF Worth
  <2>2. /\ BringingAll \in Nat /\ ReturningAll \in Nat /\ BurnedNow \in Nat /\ OwedAll \in Nat
        /\ idle \in Nat /\ goods \in Nat /\ totalShares \in Nat
        /\ cash \in Nat /\ lump \in Nat /\ burn \in Nat
    BY <1>0, <1>2, <1>3, <1>6
  <2>3. Pool' = ((idle - cash) + (goods - lump)) + BringingAll + ReturningAll
    BY <1>5, <1>6, <1>7, <2>1, Zenon
  <2>4. Pool = (idle + goods) + BringingAll + ReturningAll
    BY <1>6, <2>1, Zenon
  <2>5. Pool' = Pool - (cash + lump)
    BY <2>2, <2>3, <2>4
  <2>6. Claims' = (totalShares - burn) + BurnedNow + OwedAll
    BY <1>c, <1>5, <1>6, <1>7, Zenon
  <2>7. Claims = totalShares + BurnedNow + OwedAll
    BY <1>6
  <2>8. Claims' = Claims - burn
    BY <2>2, <2>6, <2>7
  <2>9. QED
    BY <2>5, <2>8
<1>9. Denominator \in Nat /\ Claims <= Denominator
  <2>1. totalShares > 0
    BY <1>0, <1>c, <1>2
  <2>2. OwedAll <= Loaded(pending)
    BY <2>1, OwedIsReserved
  <2>3. Loaded(burned) = BurnedNow /\ Loaded(pending) \in Nat
    BY <1>0, LoadedIsNat DEF BurnsCounted, LedgerTypeOK
  <2>4. QED
    BY <1>0, <1>6, <2>2, <2>3 DEF Denominator
<1>10. (cash + lump) * Denominator <= Pool * burn
  <2>1. Worth <= Pool
    BY <1>6
  <2>2. \A a, b, c \in Nat : a <= b => a * c <= b * c
    BY SMT
  <2>3. Worth * burn <= Pool * burn
    BY <1>2, <1>6, <2>1, <2>2
  <2>4. \A a, b, c, d \in Nat : a <= Worth * b /\ Worth * b <= c * d => a <= c * d
    BY <1>6, SMT
  <2>5. (cash + lump) * Denominator \in Nat
    BY <1>3, <1>9
  <2>6. QED
    BY <1>2, <1>3, <1>6, <2>3, <2>4, <2>5
<1>11. cash + lump \in Nat
  BY <1>3
<1>12. (Pool - (cash + lump)) * Claims >= Pool * (Claims - burn)
  BY <1>2, <1>6, <1>9, <1>10, <1>11, FairSlice
<1>13. QED
  BY <1>8, <1>12

\* What the holders share and what they claim of it are numbers.
LEMMA PoolIsNat ==
    ASSUME LInv
    PROVE  Pool \in Nat /\ Claims \in Nat
<1>1. LedgerTypeOK /\ totalShares \in Nat /\ Worth \in Nat /\ IsFiniteSet(Investor)
  BY LedgerAssumption DEF LInv, LedgerTypeOK, Worth
<1> DEFINE b == [i \in Investor |-> Bringing(dep[i])]
           r == [i \in Investor |-> Returning(wd[i])]
           u == [i \in Investor |-> Unminted(wd[i])]
           o == [i \in Investor |-> Owed(dep[i])]
<1>2. \A i \in Investor : b[i] \in Nat /\ r[i] \in Nat /\ u[i] \in Nat /\ o[i] \in Nat
  BY <1>1, SessionNumbers
<1>3. /\ Pool = Worth + SumOver(b, Investor) + SumOver(r, Investor)
      /\ Claims = totalShares + SumOver(u, Investor) + SumOver(o, Investor)
  BY DEF Pool, Claims, BurnedNow, Total
<1> HIDE DEF b, r, u, o
<1>4. /\ SumOver(b, Investor) \in Nat /\ SumOver(r, Investor) \in Nat
      /\ SumOver(u, Investor) \in Nat /\ SumOver(o, Investor) \in Nat
  BY <1>1, <1>2, SumIsNat
<1>5. QED
  BY <1>1, <1>3, <1>4

\* A commit while no withdrawal unwinds is priced at what the vault is worth, and what it
\* will be minted is no more than what it brings.
LEMMA CommitKeepsWorth ==
    ASSUME BooksInv, LInv', NEW i \in Investor, DepositCommit(i), Claims > 0,
           Unwinding = {}, ~BuysNoShare(dep'[i])
    PROVE  Pool' * Claims >= Pool * Claims'
<1> DEFINE s == dep'[i]
           a == dep[i].received + dep[i].cash
<1>0. /\ LInv /\ LedgerTypeOK /\ LedgerTypeOK' /\ DepositShaped(dep[i]) /\ CommitsCounted
      /\ dep[i] \in Deposit /\ s \in Deposit /\ DepositSteps(i) /\ wd' = wd
      /\ idle \in Nat /\ goods \in Nat /\ totalShares \in Nat
      /\ UNCHANGED <<idle, totalShares>>
      /\ committed = 0 /\ dep[i].bought /\ ~dep[i].landed /\ ~dep[i].aborting
  BY DEF BooksInv, LInv, LedgerTypeOK, Shaped, DepositSteps, DepositCommit, books
<1>1. PICK v \in 1..dep[i].goods :
        /\ goods' = goods + v
        /\ s.mark = LiveMark /\ IsCommitted(s)
        /\ s.goods = dep[i].goods - v /\ s.cash = dep[i].cash
        /\ s.received = dep[i].received /\ s.amount = dep[i].amount
  BY <1>0, CommitEffect
<1>2. /\ dep[i].goods \in Nat /\ dep[i].cash \in Nat /\ dep[i].received \in Nat
      /\ dep[i].amount \in Nat /\ v \in Nat
      /\ dep[i].goods = dep[i].received /\ a <= dep[i].amount /\ a \in Nat
  BY <1>0, <1>1 DEF Deposit, DepositShaped
<1>3. /\ Pool = Worth + BringingAll + ReturningAll
      /\ Pool' = Worth' + BringingAll' + ReturningAll'
      /\ Claims = totalShares + BurnedNow + OwedAll
      /\ Claims' = totalShares' + BurnedNow' + OwedAll'
      /\ BringingAll' + Bringing(dep[i]) = BringingAll + Bringing(s)
      /\ OwedAll' + Owed(dep[i]) = OwedAll + Owed(s)
      /\ BringingAll' \in Nat /\ OwedAll' \in Nat
  BY <1>0, PoolOfStep
<1>4. BringingAll = 0 /\ OwedAll = 0
  <2>1. \A j \in Investor : ~IsCommitted(dep[j])
    BY <1>0 DEF CommitsCounted, CommittedNow
  <2> DEFINE f == [j \in Investor |-> Bringing(dep[j])]
             g == [j \in Investor |-> Owed(dep[j])]
  <2>2. (\A j \in Investor : f[j] = 0) /\ (\A j \in Investor : g[j] = 0)
    BY <2>1 DEF Bringing, Owed
  <2>3. BringingAll = SumOver(f, Investor) /\ OwedAll = SumOver(g, Investor)
    BY DEF BringingAll, OwedAll, Total
  <2> HIDE DEF f, g
  <2>4. QED
    BY <2>2, <2>3, LedgerAssumption, SumOfZeroes
<1>5. ReturningAll = 0 /\ BurnedNow = 0
  <2>1. \A j \in Investor : ~wd[j].aborting
    BY DEF Unwinding
  <2> DEFINE f == [j \in Investor |-> Returning(wd[j])]
             g == [j \in Investor |-> Unminted(wd[j])]
  <2>2. (\A j \in Investor : f[j] = 0) /\ (\A j \in Investor : g[j] = 0)
    BY <2>1 DEF Returning, Unminted
  <2>3. ReturningAll = SumOver(f, Investor) /\ BurnedNow = SumOver(g, Investor)
    BY DEF ReturningAll, BurnedNow, Total
  <2> HIDE DEF f, g
  <2>4. QED
    BY <2>2, <2>3, LedgerAssumption, SumOfZeroes
<1>6. ReturningAll' = 0 /\ BurnedNow' = 0
  BY <1>0, <1>5 DEF ReturningAll, BurnedNow
<1>7. Worth \in Nat /\ Pool = Worth /\ Claims = totalShares /\ totalShares > 0
  BY <1>0, <1>3, <1>4, <1>5 DEF Worth
<1>8. Pool' = Worth + a
  <2>1. ~IsCommitted(dep[i])
    BY <1>0 DEF IsCommitted
  <2>2. Bringing(dep[i]) = 0 /\ Bringing(s) = dep[i].cash + (dep[i].received - v)
    BY <1>1, <1>2, <2>1 DEF Bringing
  <2>3. BringingAll' = dep[i].cash + (dep[i].received - v)
    BY <1>2, <1>3, <1>4, <2>2
  <2>4. Worth' = idle + (goods + v) /\ Worth = idle + goods
    BY <1>0, <1>1 DEF Worth
  <2>5. QED
    BY <1>0, <1>2, <1>3, <1>6, <2>3, <2>4
<1>9. Claims' = totalShares + Owed(s)
  <2>1. Owed(dep[i]) = 0
    BY <1>0 DEF Owed, IsCommitted
  <2>2. Owed(s) \in Nat
    <3>1. Due(s) \in Nat /\ MaxCounter \in Nat
      BY <1>0, DepositNumbers, MaxCounterIsNat
    <3>2. QED
      BY <3>1 DEF Owed, Least
  <2>3. OwedAll' = Owed(s)
    BY <1>3, <1>4, <2>1, <2>2
  <2>4. QED
    BY <1>0, <1>3, <1>6, <2>2, <2>3
<1>10. ValueIn(s) = a
  BY <1>1, <1>2 DEF ValueIn, Least
<1>11. Owed(s) \in Nat /\ Due(s) \in Nat /\ Owed(s) <= Due(s)
  <2>1. Due(s) \in Nat /\ MaxCounter \in Nat
    BY <1>0, DepositNumbers, MaxCounterIsNat
  <2>2. QED
    BY <2>1 DEF Owed, Least
<1> HIDE DEF s, a
<1>12. Worth * Owed(s) <= a * totalShares
  <2>1. a * totalShares \in Nat
    BY <1>0, <1>2
  <2>2. CASE Worth = 0
    BY <1>11, <2>1, <2>2
  <2>3. CASE Worth # 0
    <3>1. s.mark \in [tsb: Nat, tvl: Nat] /\ s.mark.tsb = totalShares /\ s.mark.tvl = Worth
      BY <1>0, <1>1, <1>7 DEF LiveMark
    <3>2. s.mark.tvl > 0
      BY <1>7, <2>3, <3>1
    <3>3. a * s.mark.tsb >= s.mark.tvl
      BY <1>7, <1>10, <2>1, <3>1, <3>2 DEF BuysNoShare, s
    <3>4. s.amount \in Nat
      BY <1>0 DEF Deposit
    <3>5. s.mark.tvl * Minted(s.amount, s.mark, a) <= a * s.mark.tsb
      BY <1>2, <1>7, <3>1, <3>2, <3>3, <3>4, MintAtPrice
    <3>6. Worth * Due(s) <= a * totalShares
      BY <1>10, <3>1, <3>5 DEF Due
    <3>7. Worth * Owed(s) <= Worth * Due(s) /\ Worth * Owed(s) \in Nat /\ Worth * Due(s) \in Nat
      <4>1. \A x, y, z \in Nat : y <= z => x * y <= x * z /\ x * y \in Nat /\ x * z \in Nat
        BY SMT
      <4>2. QED
        BY <1>7, <1>11, <4>1
    <3>8. QED
      BY <2>1, <3>6, <3>7
  <2>4. QED
    BY <2>2, <2>3
<1>13. (Worth + a) * totalShares >= Worth * (totalShares + Owed(s))
  BY <1>0, <1>2, <1>7, <1>11, <1>12, FairMint
<1>14. QED
  BY <1>7, <1>8, <1>9, <1>13

\* A mark only rewrites the caches; a trade moves value between the vault's own accounts.
LEMMA VaultKeepsWorth ==
    ASSUME LInv, MarkTvl \/ VaultTrades \/ UNCHANGED vars
    PROVE  Pool' = Pool /\ Claims' = Claims
<1>1. UNCHANGED <<totalShares, dep, wd>>
  BY DEF MarkTvl, VaultTrades, books, vars
<1>2. Worth' = Worth
  <2>1. CASE MarkTvl \/ UNCHANGED vars
    BY <2>1 DEF MarkTvl, vars, accounts, Worth
  <2>2. CASE VaultTrades
    <3>1. idle \in Nat /\ goods \in Nat
      BY DEF LInv, LedgerTypeOK
    <3>2. idle' \in 0..(idle + goods) /\ goods' = (idle + goods) - idle'
      BY <2>2 DEF VaultTrades, Worth
    <3>3. Worth = idle + goods /\ Worth' = idle' + goods'
      BY DEF Worth
    <3>4. \A x \in Nat : \A y \in 0..x : y + (x - y) = x
      OBVIOUS
    <3>5. idle + goods \in Nat
      BY <3>1
    <3>6. idle' + ((idle + goods) - idle') = idle + goods
      BY <3>2, <3>4, <3>5, Zenon
    <3>7. QED
      BY <3>2, <3>3, <3>6, Zenon
  <2>3. QED
    BY <2>1, <2>2
<1>3. QED
  BY <1>1, <1>2 DEF Pool, Claims, BurnedNow

\* No step of anyone, whatever the others are in the middle of, lowers what a share is
\* worth, but for the three kinds of step NoDilution names: value comes with every share
\* minted, and shares go with every slice cut, measured against all that is in flight.
THEOREM NobodyIsDiluted == Spec => NoDilution
<1>1. ASSUME BooksInv, [Next]_vars, Claims > 0,
             \A i \in Investor : ~TurnsBack(i) /\ ~PricedOff(i) /\ ~UnderReserved(dep[i])
      PROVE  Pool' * Claims >= Pool * Claims'
  <2>0. LInv /\ BooksInv'
    BY <1>1, BooksStep DEF BooksInv
  <2>1. LInv'
    BY <2>0 DEF BooksInv
  <2>2. Pool \in Nat /\ Claims \in Nat
    BY <2>0, PoolIsNat
  <2>3. ASSUME Pool' = Pool, Claims' = Claims PROVE Pool' * Claims >= Pool * Claims'
    BY <2>2, <2>3
  <2>4. CASE MarkTvl \/ VaultTrades \/ UNCHANGED vars
    BY <2>0, <2>3, <2>4, VaultKeepsWorth
  <2>5. ASSUME NEW i \in Investor, DepositSteps(i) PROVE Pool' * Claims >= Pool * Claims'
    <3>1. CASE DepositCommit(i)
      <4>1. ~IsCommitted(dep[i]) /\ IsCommitted(dep'[i])
        <5>1. LedgerTypeOK
          BY <2>0 DEF LInv
        <5>2. IsCommitted(dep'[i])
          BY <3>1, <5>1, CommitEffect
        <5>3. QED
          BY <3>1, <5>2 DEF DepositCommit, IsCommitted
      <4>2. Unwinding = {} /\ ~BuysNoShare(dep'[i])
        BY <1>1, <4>1 DEF PricedOff
      <4>3. QED
        BY <1>1, <2>1, <3>1, <4>2, CommitKeepsWorth
    <3>2. CASE ~DepositCommit(i)
      BY <1>1, <2>1, <2>3, <2>5, <3>2, DepositKeepsWorth
    <3>3. QED
      BY <3>1, <3>2
  <2>6. ASSUME NEW i \in Investor, WithdrawSteps(i) PROVE Pool' * Claims >= Pool * Claims'
    <3>1. CASE WithdrawInit(i)
      BY <1>1, <2>1, <3>1, WithdrawInitKeepsWorth
    <3>2. CASE ~WithdrawInit(i)
      <4>1. Pool' >= Pool /\ Claims' = Claims
        BY <1>1, <2>1, <2>6, <3>2, WithdrawalKeepsWorth
      <4>2. Pool' \in Nat
        BY <2>0, <2>1, <2>6, PoolOfStep
      <4>3. \A p, q, c \in Nat : q >= p => q * c >= p * c
        BY SMT
      <4>4. QED
        BY <2>2, <4>1, <4>2, <4>3
    <3>3. QED
      BY <3>1, <3>2
  <2>7. QED
    BY <1>1, <2>4, <2>5, <2>6 DEF Next
<1>2. BooksInv /\ [Next]_vars =>
        (Claims > 0 /\ (\A i \in Investor : ~TurnsBack(i) /\ ~PricedOff(i) /\ ~UnderReserved(dep[i]))
           => Pool' * Claims >= Pool * Claims')
  BY <1>1
<1>3. QED
  BY <1>2, BooksInductive, PTL DEF Spec, NoDilution
=============================================================================
