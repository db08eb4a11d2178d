------------------------------ MODULE MCWagon -------------------------------
(* Wagon on small instances: the sets its configurations pick from. *)
EXTENDS Wagon, TLC

CONSTANTS A, B, i1

TwoMints == {A, B}
SwapBaskets == {{A}, {B}}
Nothing == {}
OneInvestor == {i1}
Interchangeable == Permutations(TwoMints)

OneShare == {1}
OneValuation == {1}
OneAmount == {2}
AnyLeftover == BOOLEAN
NoResidue == {FALSE}
=============================================================================
