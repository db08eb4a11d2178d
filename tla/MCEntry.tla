------------------------------ MODULE MCEntry -------------------------------
(* EntryControl on small instances: the sets its configurations pick from. *)
EXTENDS EntryControl, TLC

CONSTANTS A, B, i1, i2

OneMint == {A}
TwoMints == {A, B}
TwoBaskets == {{}, {A}}
SwapBaskets == {{A}, {B}}
OnePair == {{A, B}}
OneBasket == {{A}}

Nothing == {}
FreezeA == {A}
FreezeAandUsdc == {A, USDC}

OneInvestor == {i1}
TwoInvestors == {i1, i2}
Interchangeable == Permutations(TwoInvestors)

Shares == {4}
NoShares == {1}
Valuations == {0, 2}
OneValuation == {1}
OneAmount == {3}
NoLeftover == {FALSE}
NoResidue == {FALSE}
OnlyResidue == {TRUE}
=============================================================================
