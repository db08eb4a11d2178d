------------------------------ MODULE MCPrices ------------------------------
(* PriceBook on a small registry: the sets its configurations pick from. *)
EXTENDS PriceBook, TLC

CONSTANTS SOL, A, f1, f2

TwoMints == {SOL, A}
TwoFeeds == {f1, f2}
InterchangeableFeeds == Permutations(TwoFeeds)
AllBaskets == {<<A>>, <<SOL>>, <<A, SOL>>, <<SOL, A>>}
ByOne == {1}
=============================================================================
