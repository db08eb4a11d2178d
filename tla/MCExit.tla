------------------------------- MODULE MCExit -------------------------------
(* ExitControl on small instances: the sets its configurations pick from. *)
EXTENDS ExitControl, TLC

CONSTANTS A, B, C, i1, i2

OneMint == {A}
TwoMints == {A, B}
OneBasket == {{A}}
ThreeMints == {A, B, C}
PairAndOne == {{A, B}, {C}}

Nothing == {}

OneInvestor == {i1}
TwoInvestors == {i1, i2}
Interchangeable == Permutations(TwoInvestors)

NoMark == {}
AnyLeftover == BOOLEAN
=============================================================================
