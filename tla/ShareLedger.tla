----------------------------- MODULE ShareLedger -----------------------------
(***************************************************************************)
(* The numbers of one vault: how many shares there are and whose they are, *)
(* what they cost, what the vault holds, the two counters that stand for   *)
(* shares not minted yet or burned too early, and the two cached           *)
(* valuations.  Each deposit and withdrawal is several transactions, as in *)
(* DepositFlow and WithdrawFlow; here they carry amounts, and the legs of  *)
(* a basket are one lump of value that moves in pieces.                    *)
(*                                                                         *)
(* Values are in USDC at constant market prices: a piece of basket token   *)
(* worth v counts v wherever it is.  The vault stays in business under one *)
(* basket, mark-to-market enforcement and the swap guards are on           *)
(* (m2m_enforced, value_tracked), and who may take a step is left open.    *)
(***************************************************************************)
EXTENDS ShareMath, Sums, FiniteSets

CONSTANTS Investor,
          Payments,       \* gross USDC an investor may pay in
          Burns,          \* numbers of shares an investor may burn at once
          Losses,         \* value a swap may lose to slippage, in units
          Vaults,         \* vaults the behaviours start from, with no session open
          TvlCap,         \* protocol.tvl_cap_usdc
          EntryFeeBps, EntryFeeCap, EntryFeeExemptBelow,
          PerfFeeBps,     \* vault.performance_fee_bps
          ProtocolCutBps, \* PERF_FEE_PROTOCOL_SHARE_BPS
          MaxSlippageBps, \* vault.max_slippage_bps, the haircut of the cached TVL
          LowWord,        \* 2^48: counters are stored as a low and a high word
          HighWord,       \* 2^16
          Idles,          \* USDC balances a trade may leave in the vault
          MaxSessions     \* bound of the model: sessions opened in a behaviour

\* What the positions add up to.
Total(f) == SumOver(f, Investor)

Fields == [shares: [Investor -> Nat], dead: Nat, idle: Nat, goods: Nat]
ASSUME LedgerAssumption ==
    /\ IsFiniteSet(Investor)
    /\ Payments \subseteq Nat \ {0} /\ Burns \subseteq Nat \ {0} /\ Losses \subseteq Nat
    /\ Vaults \subseteq Fields
    \* The first shares of a vault come with dead ones.
    /\ \A v \in Vaults : (\E i \in Investor : v.shares[i] > 0) => v.dead > 0
    /\ {TvlCap, EntryFeeCap, EntryFeeExemptBelow, MaxSessions} \subseteq Nat
    /\ LowWord \in Nat \ {0} /\ HighWord \in Nat \ {0}
\* Fees and haircuts are fractions of 10000 basis points, and never all of it.
ASSUME FractionAssumption ==
    /\ EntryFeeBps \in Nat /\ EntryFeeBps < 10000
    /\ PerfFeeBps \in Nat /\ PerfFeeBps < 10000
    /\ ProtocolCutBps \in Nat /\ ProtocolCutBps < 10000
    /\ MaxSlippageBps \in Nat /\ MaxSlippageBps < 10000

VARIABLES totalShares, \* vault.total_shares
          aggCost,     \* vault.aggregate_cost_basis_usdc
          tvlLast,     \* vault.tvl_last_computed_usdc
          committed,   \* committed_deposits
          pending,     \* pending_committed_shares, two words @740 and @814
          burned,      \* pending_burned_shares, two words @888 and @962
          totalTvl,    \* protocol.total_tvl_usdc
          idle,        \* balance of the vault's USDC account
          goods,       \* value of the vault's basket tokens
          dead,        \* balance of the vault's own share account
          pos,         \* UserPosition of each investor
          dep,         \* DepositSession of each investor
          wd,          \* WithdrawSession of each investor
          opened       \* sessions opened so far, for the bound

accounts == <<idle, goods, dead, pos>>
caches == <<tvlLast, totalTvl>>
counters == <<committed, pending, burned>>
books == <<totalShares, aggCost>>
vars == <<books, caches, counters, accounts, dep, wd, opened>>

\* write_pending_*_shares and read_pending_*_shares: 48 bits here and 16 bits there.
\* Variant the runs reject: the high word is not written.
Stored_LowOnly(v) == [low |-> v % LowWord, high |-> 0]
Stored(v) == [low |-> v % LowWord, high |-> (v \div LowWord) % HighWord]
Loaded(w) == w.low + LowWord * w.high
\* u64::MAX, in as many words.
MaxCounter == LowWord * HighWord - 1

Held == Total([i \in Investor |-> pos[i].shares])
Basis == Total([i \in Investor |-> pos[i].cost])

\* compute_tvl_m2m_strict: all the vault holds, and the price that makes of it.
Worth == idle + goods
LiveMark == [tsb |-> totalShares, tvl |-> Worth]

Bps(x, bps) == (x * bps) \div 10000
Least(a, b) == IF a < b THEN a ELSE b
EntryFee(gross) == IF gross < EntryFeeExemptBelow THEN 0
                   ELSE Least(Bps(gross, EntryFeeBps), EntryFeeCap)
Net(gross) == gross - EntryFee(gross)

Mark == [tsb: Nat, tvl: Nat]
NoDeposit == [open |-> FALSE, amount |-> 0, cash |-> 0, goods |-> 0, received |-> 0,
              bought |-> FALSE, landed |-> FALSE, aborting |-> FALSE,
              mark |-> [tsb |-> 0, tvl |-> 0]]
NoWithdrawal == [open |-> FALSE, burn |-> 0, cash |-> 0, goods |-> 0, marked |-> 0,
                 sold |-> FALSE, aborting |-> FALSE]

IsCommitted(s) == s.landed /\ ~s.aborting
\* phantom_shares saturates.
Reserved(s) == Least(Phantom(s.amount, s.mark), MaxCounter)
ValueIn(s) == Least(s.received + s.cash, s.amount)
\* What the settle of a complete session will mint, to the investor and in all.
DueToInvestor(s) == ToInvestor(s.amount, s.mark, ValueIn(s))
Due(s) == Minted(s.amount, s.mark, ValueIn(s))

SessionOpens == opened < MaxSessions /\ opened' = opened + 1

-----------------------------------------------------------------------------
(* Deposits *)

\* The fee never enters the vault; the cap is checked here and nowhere else.
DepositInit(i) ==
    /\ ~dep[i].open
    /\ committed = 0
    /\ SessionOpens
    /\ \E gross \in Payments :
         /\ Net(gross) > 0
         /\ totalTvl + Net(gross) <= TvlCap
         /\ totalTvl' = totalTvl + Net(gross)
         /\ dep' = [dep EXCEPT ![i] = [NoDeposit EXCEPT !.open = TRUE, !.mark = LiveMark,
                                         !.amount = Net(gross), !.cash = Net(gross)]]
    /\ tvlLast' = Worth
    /\ UNCHANGED <<books, counters, accounts, wd>>

\* The swaps of a session: rounding dust may stay in USDC, slippage loses some value.
DepositBuy(i) ==
    /\ dep[i].open
    /\ ~dep[i].bought
    /\ ~dep[i].aborting
    /\ \E dust \in 0..1, loss \in Losses :
         /\ dust + loss < dep[i].cash
         /\ LET value == dep[i].cash - dust - loss
            IN dep' = [dep EXCEPT ![i].bought = TRUE, ![i].cash = dust,
                                  ![i].goods = value, ![i].received = value]
    /\ UNCHANGED <<books, caches, counters, accounts, wd, opened>>

\* Variant the runs reject: the price stays the one of deposit_init.
CommitMark_Frozen(s) == s.mark
CommitMark(s) == LiveMark

\* deposit_sweep_batch, first batch into the vault: the price is marked again, before
\* the tokens land, and the shares it will mint are reserved.
DepositCommit(i) ==
    /\ dep[i].bought
    /\ ~dep[i].landed
    /\ ~dep[i].aborting
    /\ committed = 0
    /\ LET marked == [dep[i] EXCEPT !.landed = TRUE, !.mark = CommitMark(dep[i])]
           reserved == Loaded(pending) + Reserved(marked)
       IN /\ reserved <= MaxCounter
          /\ pending' = Stored(reserved)
          /\ \E v \in 1..dep[i].goods : /\ dep' = [dep EXCEPT ![i] = [marked EXCEPT !.goods = @ - v]]
                                        /\ goods' = goods + v
    /\ committed' = committed + 1
    /\ tvlLast' = Worth
    /\ UNCHANGED <<books, totalTvl, burned, idle, dead, pos, wd, opened>>

\* Its later batches.
DepositLand(i) ==
    /\ IsCommitted(dep[i])
    /\ \E v \in 1..dep[i].goods :
         /\ dep' = [dep EXCEPT ![i].goods = @ - v]
         /\ goods' = goods + v
    /\ UNCHANGED <<books, caches, counters, idle, dead, pos, wd, opened>>

\* The counters go down by exactly what the commit put up, from the same session fields.
Uncommit(s) == /\ committed' = SaturatingSub(committed, 1)
               /\ pending' = Stored(SaturatingSub(Loaded(pending), Reserved(s)))
               /\ UNCHANGED burned

\* What the deposit adds to the cached valuation: never more than what arrived.
ConservativeAdd(s) == Least(s.amount - Bps(s.amount, MaxSlippageBps), ValueIn(s))

\* A deposit whose price leaves it no share is a donation, without cost basis.
\* Variant the runs reject: it keeps one.
CostAdded_Donation(s) == s.amount
CostAdded(s) == IF DueToInvestor(s) > 0 THEN s.amount ELSE 0

\* Books are written as live value plus delta: others may have settled or burned since
\* the mark.  Variant the runs reject: as the value of the mark plus delta.
SharesBefore_Snapshot(s) == s.mark.tsb
SharesBefore(s) == totalShares

DepositSettle(i) ==
    LET s == dep[i]
    IN /\ IsCommitted(s)
       /\ s.goods = 0
       /\ SharesBefore(s) + Due(s) <= MaxCounter
       /\ idle' = idle + s.cash
       /\ totalShares' = SharesBefore(s) + Due(s)
       /\ dead' = dead + DeadShares(s.mark)
       /\ aggCost' = aggCost + CostAdded(s)
       /\ pos' = [pos EXCEPT ![i].shares = @ + DueToInvestor(s), ![i].cost = @ + CostAdded(s)]
       /\ tvlLast' = tvlLast + ConservativeAdd(s)
       /\ totalTvl' = SaturatingSub(totalTvl, s.amount - ConservativeAdd(s))
       /\ Uncommit(s)
       /\ dep' = [dep EXCEPT ![i] = NoDeposit]
       /\ UNCHANGED <<goods, wd, opened>>

\* A sweep towards the investor empties the token escrows of a session that has landed
\* nothing, or that was force-released.
DepositSweepRefund(i) ==
    /\ dep[i].bought
    /\ ~dep[i].landed \/ dep[i].aborting
    /\ dep[i].goods > 0
    /\ dep' = [dep EXCEPT ![i].goods = 0, ![i].aborting = TRUE]
    /\ UNCHANGED <<books, caches, counters, accounts, wd, opened>>

DepositAbort(i) ==
    /\ dep[i].open
    /\ dep[i].aborting \/ ~dep[i].bought
    /\ dep[i].goods = 0
    /\ totalTvl' = SaturatingSub(totalTvl, dep[i].amount)
    /\ dep' = [dep EXCEPT ![i] = NoDeposit]
    /\ UNCHANGED <<books, tvlLast, counters, accounts, wd, opened>>

\* A freeze has made the settle impossible: what has landed is the holders', no share is
\* minted for it, and the cached aggregate keeps counting it.
DepositForceRelease(i) ==
    /\ IsCommitted(dep[i])
    /\ Uncommit(dep[i])
    /\ dep' = [dep EXCEPT ![i].aborting = TRUE]
    /\ UNCHANGED <<books, caches, accounts, wd, opened>>

-----------------------------------------------------------------------------
(* Withdrawals *)

\* Variant the runs reject: the shares of unwinding withdrawals are not counted.
Denominator_NoBurned == totalShares + Loaded(pending)
Denominator == totalShares + Loaded(pending) + Loaded(burned)
Slice(balance, burn) == (balance * burn) \div Denominator

\* Both the position and vault.total_shares have the shares to burn.
\* Variant the runs reject: only the vault is asked.
MayBurn_Any(i, burn) == burn <= totalShares
MayBurn(i, burn) == burn <= pos[i].shares /\ burn <= totalShares

\* The shares are burned and a slice of each account set aside; a slice that cannot be
\* moved (frozen account, mint no longer accepted) is left to the other holders.
WithdrawInit(i) ==
    /\ ~wd[i].open
    /\ SessionOpens
    /\ \E burn \in Burns, takesCash, takesGoods \in BOOLEAN :
         LET cash == IF takesCash THEN Slice(idle, burn) ELSE 0
             lump == IF takesGoods THEN Slice(goods, burn) ELSE 0
         IN /\ MayBurn(i, burn)
            /\ wd' = [wd EXCEPT ![i] = [NoWithdrawal EXCEPT
                        !.open = TRUE, !.burn = burn, !.cash = cash, !.goods = lump,
                        !.marked = (tvlLast * burn) \div totalShares]]
            /\ idle' = idle - cash
            /\ goods' = goods - lump
            /\ totalShares' = totalShares - burn
            /\ pos' = [pos EXCEPT ![i].shares = @ - burn]
    /\ UNCHANGED <<aggCost, caches, counters, dead, dep>>

\* withdraw_swap_batch: the slice is sold into the session's USDC escrow.
WithdrawSell(i) ==
    /\ wd[i].goods > 0
    /\ ~wd[i].aborting
    /\ \E loss \in Losses :
         /\ loss <= wd[i].goods
         /\ wd' = [wd EXCEPT ![i].cash = @ + wd[i].goods - loss, ![i].goods = 0, ![i].sold = TRUE]
    /\ UNCHANGED <<books, caches, counters, accounts, dep, opened>>

\* withdraw_claim_leg_in_kind: the slice goes to the investor as it is.
WithdrawClaim(i) ==
    /\ wd[i].goods > 0
    /\ ~wd[i].aborting
    /\ wd' = [wd EXCEPT ![i].goods = 0, ![i].sold = TRUE]
    /\ UNCHANGED <<books, caches, counters, accounts, dep, opened>>

\* withdraw_sweep_batch, unwinding: the first batch reserves the burned shares.
WithdrawUnwind(i) ==
    /\ \E v \in 1..wd[i].goods :
         /\ wd' = [wd EXCEPT ![i].goods = @ - v, ![i].aborting = TRUE]
         /\ goods' = goods + v
    /\ IF wd[i].aborting
       THEN UNCHANGED burned
       ELSE LET reserved == Loaded(burned) + wd[i].burn
            IN reserved <= MaxCounter /\ burned' = Stored(reserved)
    /\ UNCHANGED <<books, caches, committed, pending, idle, dead, pos, dep, opened>>

\* UserPosition::cost_basis_for_slice: init has taken the burned shares off already.
CostSlice(p, burn) == (p.cost * burn) \div (p.shares + burn)

\* The performance fee goes to treasury and creator; the part of one that cannot be
\* paid stays in the vault.  The cached valuation is marked again or only lowered.
WithdrawSettle(i) ==
    LET w == wd[i]
        cost == CostSlice(pos[i], w.burn)
        fee == Bps(SaturatingSub(w.cash, cost), PerfFeeBps)
        protocolCut == Bps(fee, ProtocolCutBps)
    IN /\ w.open
       /\ w.goods = 0
       /\ ~w.aborting
       /\ \E unpaid \in {0, protocolCut, fee - protocolCut, fee} : idle' = idle + unpaid
       /\ pos' = [pos EXCEPT ![i].cost = @ - cost]
       /\ aggCost' = SaturatingSub(aggCost, cost)
       /\ tvlLast' \in {SaturatingSub(tvlLast, w.cash), idle' + goods}
       /\ totalTvl' = SaturatingSub(totalTvl, w.marked)
       /\ wd' = [wd EXCEPT ![i] = NoWithdrawal]
       /\ UNCHANGED <<totalShares, counters, goods, dead, dep, opened>>

\* The shares come back, and only a session that reserved them releases a reservation.
WithdrawAbort(i) ==
    /\ wd[i].open
    /\ wd[i].goods = 0
    /\ ~wd[i].sold
    /\ totalShares' = totalShares + wd[i].burn
    /\ pos' = [pos EXCEPT ![i].shares = @ + wd[i].burn]
    /\ burned' = IF wd[i].aborting THEN Stored(SaturatingSub(Loaded(burned), wd[i].burn))
                                   ELSE burned
    /\ idle' = idle + wd[i].cash
    /\ wd' = [wd EXCEPT ![i] = NoWithdrawal]
    /\ UNCHANGED <<aggCost, caches, committed, pending, goods, dead, dep, opened>>

-----------------------------------------------------------------------------
(* The vault *)

\* Variant the runs reject: the aggregate follows both ways.
MarkTvl_BothWays ==
    /\ tvlLast # Worth
    /\ tvlLast' = Worth
    /\ totalTvl' = SaturatingSub(totalTvl, tvlLast) + Worth
    /\ UNCHANGED <<books, counters, accounts, dep, wd, opened>>

\* mark_tvl, by anyone: the aggregate only follows downwards.
MarkTvl ==
    /\ tvlLast # Worth
    /\ tvlLast' = Worth
    /\ totalTvl' = SaturatingSub(totalTvl, SaturatingSub(tvlLast, Worth))
    /\ UNCHANGED <<books, counters, accounts, dep, wd, opened>>

\* rebalance_swap at the market price: value moves between USDC and basket tokens.
VaultTrades ==
    /\ committed = 0
    /\ idle' \in (Idles \cap 0..Worth) \ {idle}
    /\ goods' = Worth - idle'
    /\ UNCHANGED <<books, caches, counters, dead, pos, dep, wd, opened>>

\* A vault whose sessions are all closed, its caches marked.
Init ==
    /\ \E v \in Vaults :
         /\ pos = [i \in Investor |-> [shares |-> v.shares[i], cost |-> v.shares[i]]]
         /\ dead = v.dead /\ idle = v.idle /\ goods = v.goods
    /\ totalShares = Held + dead
    /\ aggCost = Basis
    /\ tvlLast = Worth
    /\ totalTvl = Worth
    /\ committed = 0
    /\ pending = Stored(0)
    /\ burned = Stored(0)
    /\ dep = [i \in Investor |-> NoDeposit]
    /\ wd = [i \in Investor |-> NoWithdrawal]
    /\ opened = 0

DepositSteps(i) ==
    \/ DepositInit(i) \/ DepositBuy(i) \/ DepositCommit(i) \/ DepositLand(i)
    \/ DepositSettle(i) \/ DepositSweepRefund(i) \/ DepositAbort(i) \/ DepositForceRelease(i)

WithdrawSteps(i) ==
    \/ WithdrawInit(i) \/ WithdrawSell(i) \/ WithdrawClaim(i) \/ WithdrawUnwind(i)
    \/ WithdrawSettle(i) \/ WithdrawAbort(i)

Next ==
    \/ \E i \in Investor : DepositSteps(i) \/ WithdrawSteps(i)
    \/ MarkTvl
    \/ VaultTrades

Spec == Init /\ [][Next]_vars
\* Anyone may land and settle a committed deposit, and the crank does.
FairSpec == Spec /\ \A i \in Investor : WF_vars(DepositLand(i) \/ DepositSettle(i))

-----------------------------------------------------------------------------
(* Properties *)

Deposit == [open: BOOLEAN, amount: Nat, cash: Nat, goods: Nat, received: Nat,
            bought: BOOLEAN, landed: BOOLEAN, aborting: BOOLEAN, mark: Mark]
Withdrawal == [open: BOOLEAN, burn: Nat, cash: Nat, goods: Nat, marked: Nat,
               sold: BOOLEAN, aborting: BOOLEAN]
Counter == [low: Nat, high: Nat]

\* Every variable has its type: no drain, of a counter, a balance or a cached valuation,
\* goes below zero.
LedgerTypeOK ==
    /\ {totalShares, aggCost, tvlLast, totalTvl, committed, idle, goods, dead} \subseteq Nat
    /\ pending \in Counter /\ burned \in Counter
    /\ pos \in [Investor -> [shares: Nat, cost: Nat]]
    /\ dep \in [Investor -> Deposit]
    /\ wd \in [Investor -> Withdrawal]
    /\ opened \in Nat

\* vault.total_shares, written by three instructions as live value plus delta, is the
\* supply of the share mint: what positions and the vault's own account hold.
SupplyExact == totalShares = Held + dead

\* Nobody keeps a cost basis without shares or a withdrawal under way.
NoIdleBasis == \A i \in Investor : pos[i].shares = 0 /\ ~wd[i].open => pos[i].cost = 0

\* vault.aggregate_cost_basis_usdc is the sum of the positions' cost bases, and there is
\* none that no withdrawal would ever take off.
CostBasisExact == aggCost = Basis /\ NoIdleBasis

\* The three counters, read back from their words, describe the sessions exactly: one
\* commitment at most, its reservation, and the burned shares of unwinding withdrawals.
CommittedNow == {i \in Investor : IsCommitted(dep[i])}
Unwinding == {i \in Investor : wd[i].aborting}
Unminted(w) == IF w.aborting THEN w.burn ELSE 0
BurnedNow == Total([i \in Investor |-> Unminted(wd[i])])
CountersExact ==
    /\ committed = Cardinality(CommittedNow)
    /\ committed <= 1
    /\ \A i \in CommittedNow : Loaded(pending) = Reserved(dep[i])
    /\ committed = 0 => Loaded(pending) = 0
    /\ Loaded(burned) = BurnedNow

\* What the holders share: the vault, and what committed deposits and unwinding
\* withdrawals have still to bring.
Bringing(s) == IF IsCommitted(s) THEN s.cash + s.goods ELSE 0
Returning(w) == IF w.aborting THEN w.cash + w.goods ELSE 0
Pool == Worth + Total([i \in Investor |-> Bringing(dep[i])])
              + Total([i \in Investor |-> Returning(wd[i])])

\* And the claims on it, minted or due; what would not fit in 64 bits is never minted.
Owed(s) == IF IsCommitted(s) THEN Least(Due(s), MaxCounter) ELSE 0
Claims == totalShares + BurnedNow + Total([i \in Investor |-> Owed(dep[i])])

\* No step of anyone, at whatever moment of the others' deposits and withdrawals, lowers
\* what a share is worth.  Three things may: a session that turns back takes up again what
\* it had left to the others; a commit is priced off when withdrawals are unwinding or when
\* its dust buys no whole share and is minted by the gross amount; and a reservation may
\* fall short of the dead shares where dust enters a vault valued at zero.
TurnsBack(i) ==
    \/ wd[i].open /\ ~wd[i].aborting /\ (wd'[i].aborting \/ pos'[i].shares > pos[i].shares)
    \/ IsCommitted(dep[i]) /\ dep'[i].aborting
BuysNoShare(s) == s.mark.tvl > 0 /\ ValueIn(s) * s.mark.tsb < s.mark.tvl
PricedOff(i) == /\ ~IsCommitted(dep[i]) /\ IsCommitted(dep'[i])
                /\ Unwinding # {} \/ BuysNoShare(dep'[i])
UnderReserved(s) == /\ IsCommitted(s)
                    /\ s.mark.tsb > 0 /\ s.mark.tvl = 0 /\ s.amount < MinInitialShares
NoDilution ==
    [][Claims > 0
       /\ (\A i \in Investor : ~TurnsBack(i) /\ ~PricedOff(i) /\ ~UnderReserved(dep[i]))
         => Pool' * Claims >= Pool * Claims']_vars

\* A vault once seeded never runs out of shares: the dead shares of the first deposit are
\* beyond every burn, so no later deposit is a first deposit again, and finalize_close,
\* which asks for total_shares = 0, is for vaults nobody ever settled a deposit in.
SeededForever == [][totalShares > 0 => totalShares' > 0]_totalShares

\* The aggregate grows by deposit_init alone and never beyond the cap.
AggregateCapped ==
    [][totalTvl' > totalTvl =>
          totalTvl' <= TvlCap /\ \E i \in Investor : dep'[i].open /\ ~dep[i].open]_vars

\* deposit_sweep_batch.rs: the lock on commitments makes the price of the commit be taken
\* "siempre sobre un par (m2m, total_shares) consistente", i.e. it is the price of the
\* moment.
ConsistentPair ==
    [][\A i \in Investor : ~dep[i].landed /\ dep'[i].landed
          => dep'[i].mark.tvl * Claims = Pool * dep'[i].mark.tsb]_vars
=============================================================================
