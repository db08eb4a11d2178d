------------------------------ MODULE FeedMap -------------------------------
(***************************************************************************)
(* What the feed registry promises: a table in which each listed mint has  *)
(* one price feed and no feed prices two mints, changed one mint at a time.*)
(***************************************************************************)
CONSTANTS Mint, Feed

VARIABLE feedOf  \* of each listed mint its entry

Entry == [feed: Feed, composed: BOOLEAN, noOracle: BOOLEAN]
Listed == DOMAIN feedOf

\* A mint is listed, or its entry replaced, with a feed no other mint has.
Put(m, e) ==
    /\ \A n \in Listed \ {m} : feedOf[n].feed # e.feed
    /\ feedOf' = [n \in Listed \cup {m} |-> IF n = m THEN e ELSE feedOf[n]]

Drop(m) ==
    /\ m \in Listed
    /\ feedOf' = [n \in Listed \ {m} |-> feedOf[n]]

Init == feedOf = [m \in {} |-> {}]
Next == \E m \in Mint : (\E e \in Entry : Put(m, e)) \/ Drop(m)
Spec == Init /\ [][Next]_feedOf
=============================================================================
