----------------------------- MODULE MCExitOpen -----------------------------
(* ExitOpen on a small instance: the sets its configuration picks from. *)
EXTENDS ExitOpen, TLC

CONSTANTS A, B, i1

TwoMints == {A, B}
JustPair == {{A, B}}
FreezeA == {A}
OneInvestor == {i1}
NoMark == {}
NoLeftover == {FALSE}
AnyLeftover == BOOLEAN
=============================================================================
