-------------------------------- MODULE Sums --------------------------------
(* Sums over a set of accounts, for the modules whose books are such sums. *)
EXTENDS Integers
Fold == INSTANCE FiniteSetsExt

\* What f adds up to over S.
SumOver(f, S) == Fold!MapThenSumSet(LAMBDA x : f[x], S)
=============================================================================
