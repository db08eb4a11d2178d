------------------------------ MODULE MCLedger ------------------------------
(* ShareLedger on small amounts: the vaults and sets its configurations pick from. *)
EXTENDS ShareLedger, TLC

CONSTANTS i1, i2

TwoInvestors == {i1, i2}
Interchangeable == Permutations(TwoInvestors)

VaultOf(shares, deadShares, usdc, tokens) ==
    [shares |-> [i \in TwoInvestors |-> shares], dead |-> deadShares,
     idle |-> usdc, goods |-> tokens]

\* Never used; with shares worth more than a USDC; with shares and nothing of value.
Fresh == VaultOf(0, 0, 0, 0)
Dear == VaultOf(1, 1, 1, 6)
Worthless == VaultOf(1, 1, 0, 0)

LedgerVaults == {Fresh, Dear, Worthless}
DearOnly == {Dear}

OnePayment == {4}
JustOne == {1}
AllIn == {0}
LossOfOne == {1}
=============================================================================
