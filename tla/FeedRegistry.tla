---------------------------- MODULE FeedRegistry ----------------------------
(***************************************************************************)
(* The table of price feeds the protocol authority keeps: an account with  *)
(* a number of 88-byte slots, of which the first `count` are in use, that  *)
(* set_feed fills and overwrites, remove_feed empties by moving the last   *)
(* entry into the gap, and extend_feed_registry makes longer.  Addresses   *)
(* and the class of a feed (its staleness and confidence limits) are left  *)
(* out.                                                                    *)
(***************************************************************************)
EXTENDS Integers

CONSTANTS Mint,            \* the mints that exist
          Feed,            \* Pyth feed ids
          Zero, Scrap,     \* what a slot without an entry has for a mint: zeroes, other bytes
          InitialCapacity, \* FEED_REGISTRY_INITIAL_CAPACITY
          HardCap,         \* FEED_REGISTRY_HARD_CAP = MAX_PRICE_FEEDS
          Extensions       \* numbers of slots an extension may add

ASSUME FeedAssumption ==
    /\ Zero \notin Mint \cup {Scrap} /\ Scrap \notin Mint /\ Zero \notin Feed
    /\ InitialCapacity \in Nat \ {0} /\ HardCap \in Nat /\ InitialCapacity <= HardCap
    /\ Extensions \subseteq Nat \ {0}

VARIABLES capacity,  \* slots the account has room for; 0: not created yet
          count,     \* entries in use
          entries    \* the slots

registry == <<capacity, count, entries>>

Slots == 0..(HardCap - 1)
Used == 0..(count - 1)

Blank == [mint |-> Zero, feed |-> Zero, composed |-> FALSE, noOracle |-> FALSE]
Entry == [mint: Mint, feed: Feed, composed: BOOLEAN, noOracle: BOOLEAN]

\* The scan of the slots in use; it takes the first that fits.
Find(m) == {i \in Used : entries[i].mint = m}
First(S) == CHOOSE i \in S : \A j \in S : i <= j
IndexOf(m) == First(Find(m))
IsListed(m) == Find(m) # {}
EntryOf(m) == entries[IndexOf(m)]

InitFeedRegistry ==
    /\ capacity = 0
    /\ capacity' = InitialCapacity
    /\ UNCHANGED <<count, entries>>

\* Variant the runs reject: only the limit on all registries is looked at.
HasSlot_HardCap(i) == i < HardCap
HasSlot(i) == i < HardCap /\ i < capacity

\* Variant the runs reject: the scan misses the last entry.
OnlyUser_ButLast(i, feed) == \A j \in 0..(count - 2) : entries[j].feed = feed => j = i
\* No other entry in use has the feed.
OnlyUser(i, feed) == \A j \in Used : entries[j].feed = feed => j = i

\* set_feed lists a mint or overwrites its entry.
SetFeed(m, feed, composed, noOracle) ==
    LET i == IF IsListed(m) THEN IndexOf(m) ELSE count
    IN /\ capacity > 0
       /\ ~(composed /\ noOracle)
       /\ HasSlot(i)
       /\ OnlyUser(i, feed)
       /\ entries' = [entries EXCEPT ![i] = [mint |-> m, feed |-> feed,
                                             composed |-> composed, noOracle |-> noOracle]]
       /\ count' = IF IsListed(m) THEN count ELSE count + 1
       /\ UNCHANGED capacity

\* remove_feed: the last entry takes the place of the one removed, its slot is scrubbed.
RemoveFeed(m) ==
    LET last == count - 1
    IN /\ IsListed(m)
       /\ entries' = [entries EXCEPT ![IndexOf(m)] = entries[last], ![last] = Blank]
       /\ count' = last
       /\ UNCHANGED capacity

\* The bump byte at the end of the account as created becomes the start of a slot.
ExtendFeedRegistry(extra) ==
    /\ capacity > 0
    /\ capacity + extra <= HardCap
    /\ capacity' = capacity + extra
    /\ entries' = IF capacity = InitialCapacity
                  THEN [entries EXCEPT ![capacity] = [Blank EXCEPT !.mint = Scrap]]
                  ELSE entries
    /\ UNCHANGED count

RegistryInit == capacity = 0 /\ count = 0 /\ entries = [i \in Slots |-> Blank]

RegistrySteps ==
    \/ InitFeedRegistry
    \/ \E m \in Mint, feed \in Feed, composed, noOracle \in BOOLEAN :
         SetFeed(m, feed, composed, noOracle)
    \/ \E m \in Mint : RemoveFeed(m)
    \/ \E extra \in Extensions : ExtendFeedRegistry(extra)

-----------------------------------------------------------------------------
(* Properties *)

Row == [mint: Mint \cup {Zero, Scrap}, feed: Feed \cup {Zero}, composed: BOOLEAN, noOracle: BOOLEAN]

\* The slots in use hold entries, the others none; the table fits its account.
RegistryTypeOK ==
    /\ capacity \in 0..HardCap
    /\ count \in 0..capacity
    /\ \A i \in Used : entries[i] \in Entry
    /\ entries \in [Slots -> Row]
    /\ \A i \in Slots \ Used : entries[i] \in {Blank, [Blank EXCEPT !.mint = Scrap]}

\* Through insertions, overwrites, swap-and-pop removals and extensions the slots stand
\* for a map in which no two mints share a feed, and each step changes one mint of it.
ListedMints == {m \in Mint : IsListed(m)}
FeedTable == [m \in ListedMints |-> [feed |-> EntryOf(m).feed, composed |-> EntryOf(m).composed,
                                    noOracle |-> EntryOf(m).noOracle]]
Map == INSTANCE FeedMap WITH feedOf <- FeedTable
IsFeedMap == Map!Spec
=============================================================================
