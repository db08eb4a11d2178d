------------------------------ MODULE ShareMath ------------------------------
(***************************************************************************)
(* The arithmetic of shares, fees and counters, as functions of their      *)
(* arguments alone.  Division is integer division, as in the program, so   *)
(* every operator below rounds down.                                       *)
(***************************************************************************)
EXTENDS Integers

CONSTANTS MinInitialShares  \* MIN_INITIAL_SHARES, the dead shares of a first deposit
ASSUME DeadSharesAssumption == MinInitialShares \in Nat \ {0}

\* Counters and caches are drained with saturating_sub: they never wrap, never revert.
SaturatingSub(a, b) == IF b > a THEN 0 ELSE a - b

\* A price: total_shares and the valuation of the vault, read at the same moment.
\* Variant the runs reject: no reservation for a vault valued at zero.
Phantom_ZeroTvlFree(amount, mark) ==
    IF mark.tsb = 0 \/ mark.tvl = 0 THEN 0 ELSE (amount * mark.tsb) \div mark.tvl

\* phantom_shares: an upper bound on what a committed deposit will be minted.
Phantom(amount, mark) == IF mark.tsb = 0 THEN 0
                         ELSE IF mark.tvl = 0 THEN amount
                         ELSE (amount * mark.tsb) \div mark.tvl

\* The share formula of deposit_settle, for `valueIn` received of `amount` paid in.
Bootstraps(mark) == mark.tsb = 0 \/ mark.tvl = 0
ToInvestor(amount, mark, valueIn) ==
    IF Bootstraps(mark)
    THEN SaturatingSub(IF valueIn > MinInitialShares THEN valueIn ELSE amount, MinInitialShares)
    ELSE LET shares == (valueIn * mark.tsb) \div mark.tvl
         IN IF shares = 0 THEN (amount * mark.tsb) \div mark.tvl ELSE shares
\* Variant the runs reject: a first deposit leaves no shares behind.
DeadShares_None(mark) == 0
DeadShares(mark) == IF Bootstraps(mark) THEN MinInitialShares ELSE 0
Minted(amount, mark, valueIn) == ToInvestor(amount, mark, valueIn) + DeadShares(mark)
=============================================================================
