-------------------------- MODULE PriceBook_proofs ---------------------------
(***************************************************************************)
(* Proofs about the feed registry and the caches of prices, for any number *)
(* of mints, feeds and slots and any baskets.                              *)
(*                                                                         *)
(* The registry's invariant adds to its type that no two slots in use have *)
(* a mint or a feed in common: it makes "the first slot with the mint"     *)
(* "the slot with the mint", which is what the refinement of FeedMap rests *)
(* on.  The caches' invariant adds to the property that the plan of a      *)
(* basket change is a basket.                                              *)
(***************************************************************************)
EXTENDS PriceBook, TLAPS

Distinct == \A i, j \in Used :
    entries[i].mint = entries[j].mint \/ entries[i].feed = entries[j].feed => i = j
RegistryInv == RegistryTypeOK /\ Distinct

-----------------------------------------------------------------------------
(* Looking a mint up *)

\* If no two slots in use have the same mint, the scan for a mint finds its slot.
LEMMA FirstIsOnly ==
    ASSUME NEW n \in Int, NEW es, NEW k \in 0..(n - 1),
           \A i, j \in 0..(n - 1) : es[i].mint = es[j].mint => i = j
    PROVE  First({i \in 0..(n - 1) : es[i].mint = es[k].mint}) = k
<1>1. {i \in 0..(n - 1) : es[i].mint = es[k].mint} = {k}
  OBVIOUS
<1> QED  BY <1>1 DEF First

LEMMA LookUp ==
    ASSUME RegistryInv, NEW k \in Used
    PROVE  /\ IsListed(entries[k].mint)
           /\ IndexOf(entries[k].mint) = k
           /\ EntryOf(entries[k].mint) = entries[k]
<1>1. k \in Find(entries[k].mint)
  BY DEF Find
<1>2. count \in Int /\ k \in 0..(count - 1)
  BY FeedAssumption DEF RegistryInv, RegistryTypeOK, Used
<1>3. \A i, j \in 0..(count - 1) : entries[i].mint = entries[j].mint => i = j
  BY DEF RegistryInv, Distinct, Used
<1>4. First({i \in 0..(count - 1) : entries[i].mint = entries[k].mint}) = k
  BY <1>2, <1>3, FirstIsOnly
<1>5. IndexOf(entries[k].mint) = k
  BY <1>4 DEF IndexOf, Find, Used
<1> QED  BY <1>1, <1>5 DEF IsListed, EntryOf

\* A listed mint has a slot, the one the scan finds.
LEMMA Listed ==
    ASSUME RegistryInv, NEW m, IsListed(m)
    PROVE  IndexOf(m) \in Used /\ entries[IndexOf(m)].mint = m
<1>1. PICK k \in Used : entries[k].mint = m
  BY DEF IsListed, Find
<1> QED  BY <1>1, LookUp

-----------------------------------------------------------------------------
(* The registry's invariant *)

LEMMA RegistryStarts == RegistryInit => RegistryInv
<1> SUFFICES ASSUME RegistryInit PROVE RegistryInv
  OBVIOUS
<1> USE FeedAssumption DEF RegistryInit
<1>1. Used = {}
  BY DEF Used
<1>2. Blank \in Row
  BY DEF Blank, Row
<1>3. entries \in [Slots -> Row] /\ \A i \in Slots : entries[i] = Blank
  BY <1>2
<1> QED  BY <1>1, <1>3 DEF RegistryInv, RegistryTypeOK, Distinct

LEMMA EntryIsRow == Entry \subseteq Row
  BY DEF Entry, Row

LEMMA SetFeedKeeps ==
    ASSUME RegistryInv, NEW m \in Mint, NEW feed \in Feed,
           NEW composed \in BOOLEAN, NEW noOracle \in BOOLEAN,
           SetFeed(m, feed, composed, noOracle)
    PROVE  RegistryInv'
<1> DEFINE e == [mint |-> m, feed |-> feed, composed |-> composed, noOracle |-> noOracle]
           i == IF IsListed(m) THEN IndexOf(m) ELSE count
<1>1. e \in Entry /\ e \in Row
  BY EntryIsRow DEF Entry
<1>2. /\ i < HardCap /\ i < capacity /\ OnlyUser(i, feed)
      /\ entries' = [entries EXCEPT ![i] = e]
      /\ count' = IF IsListed(m) THEN count ELSE count + 1
      /\ capacity' = capacity
  BY DEF SetFeed, HasSlot
<1>3. capacity \in 0..HardCap /\ count \in 0..capacity /\ HardCap \in Nat
  BY FeedAssumption DEF RegistryInv, RegistryTypeOK
<1>4. CASE IsListed(m)
  <2>1. i \in Used /\ entries[i].mint = m
    BY <1>4, Listed
  <2> QED
    BY <1>1, <1>2, <1>3, <1>4, <2>1
    DEF RegistryInv, RegistryTypeOK, Distinct, Used, Slots, OnlyUser
<1>5. CASE ~IsListed(m)
  <2>1. i = count /\ \A j \in Used : entries[j].mint # m
    BY <1>5 DEF IsListed, Find
  <2>2. count \in Slots /\ count \notin Used /\ Used' = Used \cup {count}
    BY <1>2, <1>3, <1>5, <2>1 DEF Used, Slots
  <2>3. entries'[count] = e /\ \A j \in Slots \ {count} : entries'[j] = entries[j]
    BY <1>2, <2>1, <2>2 DEF RegistryInv, RegistryTypeOK
  <2>4. Used \subseteq Slots \ {count}
    BY <1>2, <1>3, <2>1 DEF Used, Slots
  <2>5. entries' \in [Slots -> Row]
    BY <1>1, <1>2, <2>1 DEF RegistryInv, RegistryTypeOK
  <2>6. RegistryTypeOK'
    BY <1>1, <1>2, <1>3, <1>5, <2>1, <2>2, <2>3, <2>4, <2>5
    DEF RegistryInv, RegistryTypeOK, Slots
  <2>7. Distinct'
    BY <1>2, <2>1, <2>2, <2>3, <2>4 DEF RegistryInv, Distinct, OnlyUser
  <2> QED  BY <2>6, <2>7 DEF RegistryInv
<1> QED  BY <1>4, <1>5

LEMMA RemoveFeedKeeps ==
    ASSUME RegistryInv, NEW m \in Mint, RemoveFeed(m)
    PROVE  RegistryInv'
<1> DEFINE i == IndexOf(m)
           last == count - 1
<1>1. i \in Used /\ entries[i].mint = m
  BY Listed DEF RemoveFeed
<1>2. capacity \in 0..HardCap /\ count \in 0..capacity /\ HardCap \in Nat
  BY FeedAssumption DEF RegistryInv, RegistryTypeOK
<1>3. last \in Used /\ Used \subseteq Slots /\ Used' = Used \ {last}
  BY <1>1, <1>2 DEF Used, Slots, RemoveFeed
<1>4. /\ entries'[last] = Blank
      /\ i # last => entries'[i] = entries[last]
      /\ \A j \in Slots \ {i, last} : entries'[j] = entries[j]
  BY <1>1, <1>3 DEF RegistryInv, RegistryTypeOK, RemoveFeed
<1>5. Blank \in Row
  BY DEF Blank, Row
<1>6. entries' \in [Slots -> Row]
  BY <1>1, <1>3, <1>5 DEF RegistryInv, RegistryTypeOK, RemoveFeed
<1>7. RegistryTypeOK'
  <2>1. capacity' \in 0..HardCap /\ count' \in 0..capacity'
    BY <1>1, <1>2 DEF RemoveFeed, Used
  <2>2. \A j \in Used : entries[j] \in Entry
    BY DEF RegistryInv, RegistryTypeOK
  <2>3. \A j \in Used' : entries'[j] \in Entry
    <3> TAKE j \in Used'
    <3>1. CASE j = i
      BY <1>3, <1>4, <2>2, <3>1
    <3>2. CASE j # i
      BY <1>3, <1>4, <2>2, <3>2
    <3> QED  BY <3>1, <3>2
  <2>4. \A j \in Slots \ Used' : entries'[j] \in {Blank, [Blank EXCEPT !.mint = Scrap]}
    <3> TAKE j \in Slots \ Used'
    <3>1. CASE j = last
      BY <1>4, <3>1
    <3>2. CASE j # last
      <4>1. j \in Slots \ Used /\ j # i
        BY <1>1, <1>3, <3>2
      <4>2. entries[j] \in {Blank, [Blank EXCEPT !.mint = Scrap]}
        BY <4>1 DEF RegistryInv, RegistryTypeOK
      <4> HIDE DEF last
      <4> QED  BY <1>4, <3>2, <4>1, <4>2
    <3> QED  BY <3>1, <3>2
  <2> QED  BY <1>6, <2>1, <2>3, <2>4 DEF RegistryTypeOK, Slots
<1>8. Distinct'
  BY <1>1, <1>3, <1>4 DEF RegistryInv, Distinct
<1> QED  BY <1>7, <1>8 DEF RegistryInv

LEMMA ExtendKeeps ==
    ASSUME RegistryInv, NEW extra \in Extensions, ExtendFeedRegistry(extra)
    PROVE  RegistryInv'
<1>1. extra \in Nat /\ extra > 0
  BY FeedAssumption
<1>2. capacity \in 0..HardCap /\ count \in 0..capacity /\ HardCap \in Nat
  BY FeedAssumption DEF RegistryInv, RegistryTypeOK
<1>3. capacity' \in 0..HardCap /\ count' \in 0..capacity' /\ Used' = Used
  BY <1>1, <1>2 DEF ExtendFeedRegistry, Used
<1>4. capacity \in Slots \ Used
  BY <1>1, <1>2 DEF ExtendFeedRegistry, Slots, Used
<1> DEFINE scrap == [Blank EXCEPT !.mint = Scrap]
<1>5. scrap \in Row
  BY DEF Blank, Row
<1>6. /\ entries' \in [Slots -> Row]
      /\ \A j \in Slots \ {capacity} : entries'[j] = entries[j]
      /\ entries'[capacity] \in {entries[capacity], scrap}
  BY <1>4, <1>5 DEF RegistryInv, RegistryTypeOK, ExtendFeedRegistry
<1>7. Used \subseteq Slots \ {capacity}
  BY <1>2, <1>4 DEF Used, Slots
<1>8. RegistryTypeOK'
  BY <1>3, <1>4, <1>6, <1>7 DEF RegistryInv, RegistryTypeOK, Slots
<1>9. Distinct'
  BY <1>3, <1>6, <1>7 DEF RegistryInv, Distinct
<1> QED  BY <1>8, <1>9 DEF RegistryInv

LEMMA RegistryStep == RegistryInv /\ RegistrySteps => RegistryInv'
<1> SUFFICES ASSUME RegistryInv, RegistrySteps PROVE RegistryInv'
  OBVIOUS
<1>1. CASE InitFeedRegistry
  <2>1. count = 0 /\ count' = 0 /\ entries' = entries /\ capacity' \in 0..HardCap
    BY <1>1, FeedAssumption DEF InitFeedRegistry, RegistryInv, RegistryTypeOK
  <2> QED  BY <2>1 DEF RegistryInv, RegistryTypeOK, Distinct, Used
<1>2. ASSUME NEW m \in Mint, NEW feed \in Feed, NEW composed \in BOOLEAN, NEW noOracle \in BOOLEAN,
             SetFeed(m, feed, composed, noOracle)
      PROVE  RegistryInv'
  BY <1>2, SetFeedKeeps
<1>3. ASSUME NEW m \in Mint, RemoveFeed(m) PROVE RegistryInv'
  BY <1>3, RemoveFeedKeeps
<1>4. ASSUME NEW extra \in Extensions, ExtendFeedRegistry(extra) PROVE RegistryInv'
  BY <1>4, ExtendKeeps
<1> QED  BY <1>1, <1>2, <1>3, <1>4 DEF RegistrySteps

LEMMA RegistryUntouched == RegistryInv /\ UNCHANGED registry => RegistryInv'
  BY DEF registry, RegistryInv, RegistryTypeOK, Distinct, Used

\* No step of a vault changes the registry.
LEMMA BookLeavesRegistry == BookSteps => UNCHANGED registry
  BY DEF BookSteps, CreateVault, RestructureInit, RestructureSettle, RestructureAbort,
         CacheAllocDecimals, WithdrawInit, WithdrawSwap, SessionEnds, CloseVault, DepositInit,
         DepositSwap

\* The registry's slots and its account agree, and no two entries share a mint or a feed,
\* after any sequence of set_feed, remove_feed and extend_feed_registry.
THEOREM RegistryCorrect == Spec => []RegistryTypeOK
<1>1. Init => RegistryInv
  BY RegistryStarts DEF Init
<1>2. RegistryInv /\ [Next]_vars => RegistryInv'
  BY RegistryStep, RegistryUntouched, BookLeavesRegistry DEF Next, vars
<1>3. RegistryInv => RegistryTypeOK
  BY DEF RegistryInv
<1> QED  BY <1>1, <1>2, <1>3, PTL DEF Spec

-----------------------------------------------------------------------------
(* The registry implements a map *)

Facts(x) == [feed |-> x.feed, composed |-> x.composed, noOracle |-> x.noOracle]

LEMMA TableOf ==
    ASSUME RegistryInv, NEW k \in Used
    PROVE  /\ entries[k].mint \in ListedMints
           /\ FeedTable[entries[k].mint] = Facts(entries[k])
<1>1. entries[k].mint \in Mint
  BY DEF RegistryInv, RegistryTypeOK, Entry
<1> QED  BY <1>1, LookUp DEF ListedMints, FeedTable, Facts

LEMMA TablesOf == RegistryInv => \A k \in Used : FeedTable[entries[k].mint] = Facts(entries[k])
  BY TableOf

LEMMA SlotOf ==
    ASSUME RegistryInv, NEW m \in ListedMints
    PROVE  \E k \in Used : entries[k].mint = m
  BY DEF ListedMints, IsListed, Find

\* Two functions that agree on one domain are one.
LEMMA TablesStart == RegistryInit => FeedTable = [m \in {} |-> {}]
<1> SUFFICES ASSUME RegistryInit PROVE FeedTable = [m \in {} |-> {}]
  OBVIOUS
<1>1. Used = {}
  BY DEF RegistryInit, Used
<1>2. ListedMints = {}
  BY <1>1 DEF ListedMints, IsListed, Find
<1> QED  BY <1>2 DEF FeedTable

LEMMA SetFeedPuts ==
    ASSUME RegistryInv, RegistryInv', NEW m \in Mint, NEW feed \in Feed,
           NEW composed \in BOOLEAN, NEW noOracle \in BOOLEAN,
           SetFeed(m, feed, composed, noOracle)
    PROVE  Map!Put(m, [feed |-> feed, composed |-> composed, noOracle |-> noOracle])
<1> DEFINE e == [mint |-> m, feed |-> feed, composed |-> composed, noOracle |-> noOracle]
           i == IF IsListed(m) THEN IndexOf(m) ELSE count
<1>1. capacity \in 0..HardCap /\ count \in 0..capacity /\ HardCap \in Nat
  BY FeedAssumption DEF RegistryInv, RegistryTypeOK
<1>2. /\ i \in Slots /\ OnlyUser(i, feed)
      /\ Used' = Used \cup {i}
      /\ entries'[i] = e /\ \A j \in Slots \ {i} : entries'[j] = entries[j]
      /\ Used \subseteq Slots
  <2>1. CASE IsListed(m)
    <3>1. i \in Used /\ Used' = Used
      BY <2>1, Listed DEF SetFeed, Used
    <3> QED  BY <1>1, <3>1 DEF SetFeed, HasSlot, RegistryInv, RegistryTypeOK, Used, Slots
  <2>2. CASE ~IsListed(m)
    BY <1>1, <2>2 DEF SetFeed, HasSlot, RegistryInv, RegistryTypeOK, Used, Slots
  <2> QED  BY <2>1, <2>2
<1>3. \A j \in Used : entries[j].mint = m <=> j = i /\ IsListed(m)
  <2> TAKE j \in Used
  <2>1. entries[j].mint = m => j = i /\ IsListed(m)
    BY LookUp
  <2>2. j = i /\ IsListed(m) => entries[j].mint = m
    BY Listed
  <2> QED  BY <2>1, <2>2
<1> HIDE DEF i
<1>4. ListedMints' = ListedMints \cup {m}
  <2>1. ASSUME NEW n \in ListedMints' PROVE n \in ListedMints \cup {m}
    <3>1. PICK k \in Used' : entries'[k].mint = n
      BY <2>1 DEF ListedMints, IsListed, Find
    <3>2. CASE k = i
      BY <1>2, <3>1, <3>2
    <3>3. CASE k # i
      BY <1>2, <3>1, <3>3, TableOf
    <3> QED  BY <3>2, <3>3
  <2>2. m \in ListedMints'
    <3>1. i \in Used' /\ entries'[i].mint = m
      BY <1>2
    <3> QED  BY <3>1 DEF ListedMints, IsListed, Find
  <2>3. ASSUME NEW n \in ListedMints, n # m PROVE n \in ListedMints'
    <3>1. PICK k \in Used : entries[k].mint = n
      BY SlotOf
    <3>2. k # i \/ ~IsListed(m)
      BY <1>3, <2>3, <3>1
    <3>3. k # i
      BY <1>1, <3>2 DEF i, Used
    <3>4. k \in Used' /\ entries'[k].mint = n
      BY <1>2, <3>1, <3>3
    <3> QED  BY <3>4 DEF ListedMints, IsListed, Find
  <2> QED  BY <2>1, <2>2, <2>3
<1>5. ASSUME NEW n \in ListedMints, n # m
      PROVE  \E k \in Used \ {i} : entries[k].mint = n /\ entries'[k] = entries[k]
  <2>1. PICK k \in Used : entries[k].mint = n
    BY SlotOf
  <2>2. k # i \/ ~IsListed(m)
    BY <1>3, <1>5, <2>1
  <2>3. k # i
    BY <1>1, <2>2 DEF i, Used
  <2> QED  BY <1>2, <2>1, <2>3
<1>6. ASSUME NEW n \in ListedMints \ {m} PROVE FeedTable[n].feed # feed
  <2>1. PICK k \in Used \ {i} : entries[k].mint = n
    BY <1>5
  <2>2. entries[k].feed # feed
    BY <1>2, <2>1 DEF OnlyUser
  <2>3. FeedTable[n] = Facts(entries[k])
    BY <2>1, TableOf
  <2>4. FeedTable[n].feed = entries[k].feed
    BY <2>3 DEF Facts
  <2> QED  BY <2>2, <2>4
<1>7. (RegistryInv => \A k \in Used : FeedTable[entries[k].mint] = Facts(entries[k]))'
  BY TablesOf, PTL
<1>8. FeedTable'[m] = Facts(e)
  BY <1>2, <1>7
<1>9. ASSUME NEW n \in ListedMints \ {m} PROVE FeedTable'[n] = FeedTable[n]
  <2>1. PICK k \in Used \ {i} : entries[k].mint = n /\ entries'[k] = entries[k]
    BY <1>5
  <2>2. FeedTable'[n] = Facts(entries[k])
    BY <1>2, <1>7, <2>1
  <2>3. FeedTable[n] = Facts(entries[k])
    BY <2>1, TableOf
  <2> QED  BY <2>2, <2>3
<1>10. DOMAIN FeedTable = ListedMints /\ FeedTable' = [n \in ListedMints' |-> FeedTable'[n]]
  BY DEF FeedTable
<1>11. FeedTable' = [n \in ListedMints \cup {m} |-> IF n = m THEN Facts(e) ELSE FeedTable[n]]
  BY <1>4, <1>8, <1>9, <1>10
<1>12. Facts(e) = [feed |-> feed, composed |-> composed, noOracle |-> noOracle]
  BY DEF Facts
<1> QED  BY <1>6, <1>10, <1>11, <1>12 DEF Map!Put, Map!Listed

LEMMA RemoveFeedDrops ==
    ASSUME RegistryInv, RegistryInv', NEW m \in Mint, RemoveFeed(m)
    PROVE  Map!Drop(m)
<1> DEFINE i == IndexOf(m)
           last == count - 1
<1>1. i \in Used /\ entries[i].mint = m /\ m \in ListedMints
  BY Listed DEF RemoveFeed, ListedMints
<1>2. capacity \in 0..HardCap /\ count \in 0..capacity /\ HardCap \in Nat
  BY FeedAssumption DEF RegistryInv, RegistryTypeOK
<1>3. last \in Used /\ Used \subseteq Slots /\ Used' = Used \ {last}
  BY <1>1, <1>2 DEF Used, Slots, RemoveFeed
<1>4. /\ i # last => entries'[i] = entries[last]
      /\ \A j \in Slots \ {i, last} : entries'[j] = entries[j]
  BY <1>1, <1>3 DEF RegistryInv, RegistryTypeOK, RemoveFeed
<1> HIDE DEF i, last
\* Every other entry survives, in its slot or in the one vacated.
<1>5. ASSUME NEW k \in Used, k # i
      PROVE  \E j \in Used' : entries'[j] = entries[k]
  <2>1. CASE k = last
    BY <1>1, <1>3, <1>4, <1>5, <2>1
  <2>2. CASE k # last
    BY <1>3, <1>4, <1>5, <2>2
  <2> QED  BY <2>1, <2>2
<1>6. ASSUME NEW j \in Used'
      PROVE  \E k \in Used \ {i} : entries'[j] = entries[k]
  <2>1. CASE j = i
    BY <1>3, <1>4, <1>6, <2>1
  <2>2. CASE j # i
    BY <1>3, <1>4, <1>6, <2>2
  <2> QED  BY <2>1, <2>2
<1>7. ASSUME NEW n \in ListedMints, n # m
      PROVE  \E k \in Used \ {i} : entries[k].mint = n
  BY <1>1, <1>7, SlotOf
<1>8. ListedMints' = ListedMints \ {m}
  <2>1. ASSUME NEW n \in ListedMints' PROVE n \in ListedMints \ {m}
    <3>1. PICK j \in Used' : entries'[j].mint = n
      BY <2>1 DEF ListedMints, IsListed, Find
    <3>2. PICK k \in Used \ {i} : entries'[j] = entries[k]
      BY <1>6
    <3>3. entries[k].mint # m
      BY <1>1, <3>2 DEF RegistryInv, Distinct
    <3> QED  BY <3>1, <3>2, <3>3, TableOf
  <2>2. ASSUME NEW n \in ListedMints \ {m} PROVE n \in ListedMints'
    <3>1. PICK k \in Used \ {i} : entries[k].mint = n
      BY <1>7
    <3>2. PICK j \in Used' : entries'[j] = entries[k]
      BY <1>5
    <3> QED  BY <3>1, <3>2 DEF ListedMints, IsListed, Find
  <2> QED  BY <2>1, <2>2
<1>9. (RegistryInv => \A k \in Used : FeedTable[entries[k].mint] = Facts(entries[k]))'
  BY TablesOf, PTL
<1>10. ASSUME NEW n \in ListedMints \ {m} PROVE FeedTable'[n] = FeedTable[n]
  <2>1. PICK k \in Used \ {i} : entries[k].mint = n
    BY <1>7
  <2>2. PICK j \in Used' : entries'[j] = entries[k]
    BY <1>5
  <2>3. FeedTable'[n] = Facts(entries[k])
    BY <1>9, <2>1, <2>2
  <2>4. FeedTable[n] = Facts(entries[k])
    BY <2>1, TableOf
  <2> QED  BY <2>3, <2>4
<1>11. DOMAIN FeedTable = ListedMints /\ FeedTable' = [n \in ListedMints' |-> FeedTable'[n]]
  BY DEF FeedTable
<1>12. FeedTable' = [n \in ListedMints \ {m} |-> FeedTable[n]]
  BY <1>8, <1>10, <1>11
<1> QED  BY <1>1, <1>11, <1>12 DEF Map!Drop, Map!Listed

\* Slots that are not in use do not show in the table.
LEMMA SlotsUnused ==
    ASSUME RegistryInv, RegistryInv', Used' = Used, \A k \in Used : entries'[k] = entries[k]
    PROVE  FeedTable' = FeedTable
<1>1. ListedMints = {m \in Mint : \E k \in Used : entries[k].mint = m}
  BY DEF ListedMints, IsListed, Find
<1>2. ListedMints' = {m \in Mint : \E k \in Used' : entries'[k].mint = m}
  BY DEF ListedMints, IsListed, Find
<1>3. ListedMints' = ListedMints
  BY <1>1, <1>2
<1>4. (RegistryInv => \A k \in Used : FeedTable[entries[k].mint] = Facts(entries[k]))'
  BY TablesOf, PTL
<1>5. ASSUME NEW n \in ListedMints PROVE FeedTable'[n] = FeedTable[n]
  <2>1. PICK k \in Used : entries[k].mint = n
    BY SlotOf
  <2>2. FeedTable'[n] = Facts(entries[k])
    BY <1>4, <2>1
  <2> QED  BY <2>1, <2>2, TableOf
<1>6. FeedTable = [n \in ListedMints |-> FeedTable[n]]
      /\ FeedTable' = [n \in ListedMints' |-> FeedTable'[n]]
  BY DEF FeedTable
<1> QED  BY <1>3, <1>5, <1>6

LEMMA ExtendUnseen ==
    ASSUME RegistryInv, RegistryInv', NEW extra \in Extensions, ExtendFeedRegistry(extra)
    PROVE  FeedTable' = FeedTable
<1>1. capacity \notin Used /\ Used' = Used /\ Used \subseteq Slots
  BY FeedAssumption DEF RegistryInv, RegistryTypeOK, ExtendFeedRegistry, Used, Slots
<1>2. \A k \in Used : entries'[k] = entries[k]
  BY <1>1 DEF RegistryInv, RegistryTypeOK, ExtendFeedRegistry
<1> QED  BY <1>1, <1>2, SlotsUnused

\* Every step of the registry is a step of the map, or changes nothing of it.
LEMMA RegistryStepMaps ==
    ASSUME RegistryInv, RegistryInv', RegistrySteps
    PROVE  Map!Next \/ UNCHANGED FeedTable
<1>1. CASE InitFeedRegistry
  <2>1. Used' = Used /\ \A k \in Used : entries'[k] = entries[k]
    BY <1>1 DEF InitFeedRegistry, Used
  <2> QED  BY <2>1, SlotsUnused
<1>2. ASSUME NEW m \in Mint, NEW feed \in Feed, NEW composed \in BOOLEAN, NEW noOracle \in BOOLEAN,
             SetFeed(m, feed, composed, noOracle)
      PROVE  Map!Next
  <2>1. [feed |-> feed, composed |-> composed, noOracle |-> noOracle] \in Map!Entry
    BY DEF Map!Entry
  <2> QED  BY <1>2, <2>1, SetFeedPuts DEF Map!Next
<1>3. ASSUME NEW m \in Mint, RemoveFeed(m) PROVE Map!Next
  BY <1>3, RemoveFeedDrops DEF Map!Next
<1>4. ASSUME NEW extra \in Extensions, ExtendFeedRegistry(extra) PROVE UNCHANGED FeedTable
  BY <1>4, ExtendUnseen
<1> QED  BY <1>1, <1>2, <1>3, <1>4 DEF RegistrySteps

LEMMA TableUntouched == UNCHANGED registry => UNCHANGED FeedTable
  BY DEF registry, FeedTable, ListedMints, IsListed, EntryOf, IndexOf, First, Find, Used

\* The slots, filled, overwritten, emptied by moving the last entry into the gap, and
\* extended over an old byte, implement the map of FeedMap: each listed mint has one feed
\* that no other mint has, and a step changes the entry of one mint.
THEOREM RegistryIsMap == Spec => IsFeedMap
<1>1. Init => RegistryInv
  BY RegistryStarts DEF Init
<1>2. RegistryInv /\ [Next]_vars => RegistryInv'
  BY RegistryStep, RegistryUntouched, BookLeavesRegistry DEF Next, vars
<1>3. Init => Map!Init
  BY TablesStart DEF Init, Map!Init
<1>4. RegistryInv /\ RegistryInv' /\ [Next]_vars => [Map!Next]_FeedTable
  BY RegistryStepMaps, TableUntouched, BookLeavesRegistry DEF Next, vars
<1> QED  BY <1>1, <1>2, <1>3, <1>4, PTL DEF Spec, IsFeedMap, Map!Spec

-----------------------------------------------------------------------------
(* The caches *)

\* The part of the type that is about the table.
TableOK ==
    /\ size \in 0..MaxTokens
    /\ slots \in [Slot -> Cell]
    /\ \A s, t \in Slot : /\ slots[s].mint # Zero <=> s \in Allocated
                          /\ slots[s].mint = slots[t].mint /\ s \in Allocated => s = t
RestOK ==
    /\ status \in {"None", "Active", "Restructuring", "Liquidating"}
    /\ plan \in Snapshots
    /\ session \in [kind: {"none", "deposit", "withdrawal"}, mints: Snapshots, stale: BOOLEAN]
LEMMA TypeParts == BookTypeOK <=> TableOK /\ RestOK
  BY DEF BookTypeOK, TableOK, RestOK
LEMMA TypePartsNext == BookTypeOK' <=> TableOK' /\ RestOK'
  BY DEF BookTypeOK, TableOK, RestOK

PlanIsBasket == status = "Restructuring" => plan \in Baskets
BookInv == BookTypeOK /\ CachesBelong /\ PlanIsBasket

\* What a basket is.
LEMMA BasketFacts ==
    ASSUME NEW b \in Baskets
    PROVE  /\ Len(b) \in 1..MaxTokens /\ b \in [1..Len(b) -> Mint] /\ b \in Snapshots
           /\ \A i \in 1..Len(b) : b[i] \in Mint /\ b[i] # Zero
           /\ \A i, j \in 1..Len(b) : b[i] = b[j] => i = j
<1>1. b \in Seq(Mint) /\ Len(b) \in 1..MaxTokens /\ MaxTokens \in Nat
  BY BasketAssumption
<1>2. b \in [1..Len(b) -> Mint]
  BY <1>1
<1>3. b \in Snapshots
  <2> DEFINE n == Len(b)
  <2>1. n \in 0..MaxTokens /\ b \in [1..n -> Mint]
    BY <1>1, <1>2
  <2> HIDE DEF n
  <2>2. \E S \in {[1..k -> Mint] : k \in 0..MaxTokens} : b \in S
    BY <2>1
  <2> QED  BY <2>2 DEF Snapshots
<1> QED  BY <1>1, <1>2, <1>3, BasketAssumption, FeedAssumption

LEMMA EmptyPlan == <<>> \in Snapshots
<1>1. <<>> \in [1..0 -> Mint] /\ 0 \in 0..MaxTokens
  BY BasketAssumption
<1> QED  BY <1>1 DEF Snapshots

\* Slots that hold the mints of a basket, each with caches of its own mint or none, are a table.
LEMMA TableWritten ==
    ASSUME NEW b \in Baskets, size' = Len(b),
           NEW cells \in [Slot -> Cell], slots' = cells,
           \A s \in 1..Len(b) : /\ cells[s].mint = b[s]
                                 /\ cells[s].decimals \in {Zero, b[s]}
                                 /\ cells[s].lastSwap \in {Zero, b[s]},
           \A s \in Slot : s \notin 1..Len(b) => cells[s] = Empty
    PROVE  TableOK' /\ CachesBelong'
<1>1. /\ Len(b) \in 1..MaxTokens /\ \A i \in 1..Len(b) : b[i] # Zero
      /\ \A i, j \in 1..Len(b) : b[i] = b[j] => i = j
  BY BasketFacts
<1>2. Allocated' = 1..Len(b) /\ Allocated' \subseteq Slot
  BY <1>1, BasketAssumption DEF Allocated, Slot
<1>3. \A s \in Slot : s \notin Allocated' =>
        slots'[s].mint = Zero /\ slots'[s].decimals = Zero /\ slots'[s].lastSwap = Zero
  BY <1>2 DEF Empty
<1>4. \A s \in Slot : slots'[s].mint # Zero <=> s \in Allocated'
  BY <1>1, <1>2, <1>3
<1>5. \A s, t \in Slot : slots'[s].mint = slots'[t].mint /\ s \in Allocated' => s = t
  BY <1>1, <1>2, <1>4
<1>6. CachesBelong'
  <2> SUFFICES ASSUME NEW s \in Slot
               PROVE  {slots'[s].decimals, slots'[s].lastSwap} \subseteq {Zero, slots'[s].mint}
    BY DEF CachesBelong, Slot
  <2>1. CASE s \in Allocated'
    BY <1>2, <2>1
  <2>2. CASE s \notin Allocated'
    BY <1>3, <2>2
  <2> QED  BY <2>1, <2>2
<1>7. size' \in 0..MaxTokens
  BY <1>1, BasketAssumption
<1>8. slots' \in [Slot -> Cell]
  OBVIOUS
<1>9. TableOK'
  BY <1>4, <1>5, <1>7, <1>8 DEF TableOK
<1> QED  BY <1>6, <1>9

LEMMA BookStarts == BookInit => BookInv
<1> SUFFICES ASSUME BookInit PROVE BookInv
  OBVIOUS
<1>1. MaxTokens \in Nat /\ Allocated = {}
  BY BasketAssumption DEF BookInit, Allocated
<1>2. \A s \in Slot : slots[s] = Empty
  BY DEF BookInit
<1>3. slots \in [Slot -> Cell]
  BY <1>2 DEF BookInit, Empty, Cell
<1>4. session \in [kind: {"none", "deposit", "withdrawal"}, mints: Snapshots, stale: BOOLEAN]
  BY EmptyPlan DEF BookInit, NoSession
<1> QED
  BY <1>1, <1>2, <1>3, <1>4, EmptyPlan
  DEF BookInit, BookInv, BookTypeOK, CachesBelong, PlanIsBasket, Empty

LEMMA CreateVaultKeeps ==
    ASSUME BookInv, NEW basket \in Baskets, CreateVault(basket)
    PROVE  BookInv'
<1> DEFINE cells == [s \in Slot |-> IF s <= Len(basket) THEN [Empty EXCEPT !.mint = basket[s]]
                                    ELSE Empty]
<1>1. Len(basket) \in 1..MaxTokens /\ \A i \in 1..Len(basket) : basket[i] \in Mint
  BY BasketFacts
<1>2. \A s \in Slot : (s <= Len(basket) <=> s \in 1..Len(basket)) /\ 1..Len(basket) \subseteq Slot
  BY <1>1, BasketAssumption DEF Slot
<1>3. \A s \in 1..Len(basket) :
        cells[s] = [mint |-> basket[s], decimals |-> Zero, lastSwap |-> Zero]
  BY <1>1, <1>2, BasketAssumption DEF Empty, Slot
<1>4. \A s \in Slot : s \notin 1..Len(basket) => cells[s] = Empty
  BY <1>2
<1>5. Empty \in Cell /\ \A m \in Mint : [mint |-> m, decimals |-> Zero, lastSwap |-> Zero] \in Cell
  BY DEF Empty, Cell
<1>6. cells \in [Slot -> Cell]
  BY <1>1, <1>3, <1>4, <1>5
<1> HIDE DEF cells
<1>7. size' = Len(basket) /\ slots' = cells
  BY DEF CreateVault, cells
<1>8. TableOK' /\ CachesBelong'
  <2>1. \A s \in 1..Len(basket) : /\ cells[s].mint = basket[s]
                                   /\ cells[s].decimals \in {Zero, basket[s]}
                                   /\ cells[s].lastSwap \in {Zero, basket[s]}
    <3> TAKE s \in 1..Len(basket)
    <3>1. cells[s] = [mint |-> basket[s], decimals |-> Zero, lastSwap |-> Zero]
      BY <1>3
    <3> QED  BY <3>1
  <2> QED  BY <1>4, <1>6, <1>7, <2>1, TableWritten
<1>9. status' = "Active" /\ UNCHANGED <<plan, session>>
  BY DEF CreateVault
<1>10. RestOK' /\ PlanIsBasket'
  BY <1>9, TypeParts DEF BookInv, RestOK, PlanIsBasket
<1> QED  BY <1>8, <1>10, TypePartsNext DEF BookInv

LEMMA SettleKeeps ==
    ASSUME BookInv, RestructureSettle
    PROVE  BookInv'
<1>1. plan \in Baskets
  BY DEF BookInv, PlanIsBasket, RestructureSettle
<1>2. PICK prices \in [1..Len(plan) -> Mint \cup {Zero}] :
        /\ \A i \in 1..Len(plan) :
             prices[i] \in IF plan[i] \in Table THEN Inherited(i) ELSE {plan[i], Zero}
        /\ slots' = [s \in Slot |->
                       IF s <= Len(plan)
                       THEN [mint |-> plan[s], decimals |-> plan[s], lastSwap |-> prices[s]]
                       ELSE Cleared(s)]
  BY DEF RestructureSettle
<1>3. Len(plan) \in 1..MaxTokens /\ \A i \in 1..Len(plan) : plan[i] \in Mint
  BY <1>1, BasketFacts
<1>4. \A i \in 1..Len(plan) : prices[i] \in {Zero, plan[i]}
  <2> TAKE i \in 1..Len(plan)
  <2>1. CASE plan[i] \in Table
    <3>1. prices[i] \in Inherited(i)
      BY <1>2, <2>1
    <3>2. PICK t \in Allocated : slots[t].mint = plan[i] /\ prices[i] = slots[t].lastSwap
      BY <3>1 DEF Inherited
    <3>3. t \in Slot
      BY <3>2, BasketAssumption DEF Allocated, Slot, BookInv, BookTypeOK
    <3> QED  BY <3>2, <3>3 DEF BookInv, CachesBelong
  <2>2. CASE plan[i] \notin Table
    BY <1>2, <2>2
  <2> QED  BY <2>1, <2>2
<1>5. \A s \in Slot : s <= Len(plan) <=> s \in 1..Len(plan)
  BY <1>3, BasketAssumption DEF Slot
<1>6. 1..Len(plan) \subseteq Slot
  BY <1>3, BasketAssumption DEF Slot
<1>7. \A s \in 1..Len(plan) :
        slots'[s] = [mint |-> plan[s], decimals |-> plan[s], lastSwap |-> prices[s]]
  BY <1>2, <1>5, <1>6
<1>8. \A s \in Slot : s \notin 1..Len(plan) => slots'[s] = Empty
  BY <1>2, <1>5 DEF Cleared
<1>9. Empty \in Cell
  BY DEF Empty, Cell
<1>10. \A s \in Slot : slots'[s] \in Cell
  <2> TAKE s \in Slot
  <2>1. CASE s \in 1..Len(plan)
    <3>1. plan[s] \in Mint /\ prices[s] \in Mint \cup {Zero}
      BY <1>3, <1>4, <2>1
    <3>2. slots'[s] = [mint |-> plan[s], decimals |-> plan[s], lastSwap |-> prices[s]]
      BY <1>7, <2>1
    <3> QED  BY <3>1, <3>2 DEF Cell
  <2>2. CASE s \notin 1..Len(plan)
    BY <1>8, <1>9, <2>2
  <2> QED  BY <2>1, <2>2
<1>11. slots' \in [Slot -> Cell]
  BY <1>2, <1>10
<1>12. /\ size' = Len(plan) /\ status' = "Active" /\ plan' = <<>>
       /\ session' \in {session, [session EXCEPT !.stale = TRUE]}
  BY DEF RestructureSettle
<1>13. session' \in [kind: {"none", "deposit", "withdrawal"}, mints: Snapshots, stale: BOOLEAN]
  BY <1>12 DEF BookInv, BookTypeOK
<1>14. \A s \in 1..Len(plan) : /\ slots'[s].mint = plan[s]
                                /\ slots'[s].decimals \in {Zero, plan[s]}
                                /\ slots'[s].lastSwap \in {Zero, plan[s]}
  <2> TAKE s \in 1..Len(plan)
  <2>1. prices[s] \in {Zero, plan[s]}
    BY <1>4
  <2>2. slots'[s] = [mint |-> plan[s], decimals |-> plan[s], lastSwap |-> prices[s]]
    BY <1>7
  <2> QED  BY <2>1, <2>2
<1>15. TableOK' /\ CachesBelong'
  BY <1>1, <1>8, <1>11, <1>12, <1>14, TableWritten
<1>16. RestOK' /\ PlanIsBasket'
  BY <1>12, <1>13, EmptyPlan DEF RestOK, PlanIsBasket
<1> QED  BY <1>15, <1>16, TypePartsNext DEF BookInv

\* A cache of a slot is written with something of the slot's mint.
LEMMA CacheWritten ==
    ASSUME BookInv, size' = size, NEW s \in Allocated,
           CacheLegFill(s, slots[s].mint)
    PROVE  /\ slots' \in [Slot -> Cell]
           /\ \A t \in Slot : slots'[t].mint = slots[t].mint
           /\ CachesBelong'
<1>1. s \in Slot /\ slots \in [Slot -> Cell]
  BY BasketAssumption DEF Allocated, Slot, BookInv, BookTypeOK
<1>2. PICK price \in {slots[s].mint, slots[s].lastSwap} :
        slots' = [slots EXCEPT ![s].decimals = slots[s].mint, ![s].lastSwap = price]
  BY DEF CacheLegFill
<1>3. slots'[s] = [mint |-> slots[s].mint, decimals |-> slots[s].mint, lastSwap |-> price]
      /\ \A t \in Slot \ {s} : slots'[t] = slots[t]
  BY <1>1, <1>2 DEF Cell
<1>4. slots'[s] \in Cell
  BY <1>1, <1>2, <1>3 DEF Cell
<1>5. slots' \in [Slot -> Cell]
  BY <1>1, <1>2, <1>3, <1>4
<1>6. price \in {Zero, slots[s].mint}
  BY <1>1, <1>2 DEF BookInv, CachesBelong
<1>7. \A t \in Slot : {slots'[t].decimals, slots'[t].lastSwap} \subseteq {Zero, slots'[t].mint}
  BY <1>1, <1>3, <1>6 DEF BookInv, CachesBelong
<1> QED  BY <1>1, <1>3, <1>5, <1>7 DEF CachesBelong

LEMMA DecimalsCached ==
    ASSUME BookInv, CacheAllocDecimals
    PROVE  /\ slots' \in [Slot -> Cell]
           /\ \A t \in Slot : slots'[t].mint = slots[t].mint
           /\ CachesBelong'
<1>1. slots \in [Slot -> Cell]
  BY DEF BookInv, BookTypeOK
<1>2. \A t \in Slot : slots'[t] = IF t <= size THEN [slots[t] EXCEPT !.decimals = slots[t].mint]
                                   ELSE slots[t]
  BY DEF CacheAllocDecimals
<1>3. \A t \in Slot : /\ slots'[t].mint = slots[t].mint
                       /\ slots'[t].lastSwap = slots[t].lastSwap
                       /\ slots'[t].decimals \in {slots[t].decimals, slots[t].mint}
                       /\ slots'[t] \in Cell
  BY <1>1, <1>2 DEF Cell
<1>4. slots' = [t \in Slot |-> slots'[t]]
  BY DEF CacheAllocDecimals
<1>5. slots' \in [Slot -> Cell]
  BY <1>3, <1>4
<1>6. CachesBelong'
  BY <1>3 DEF BookInv, CachesBelong
<1> QED  BY <1>3, <1>5, <1>6

\* A step that leaves the mints of the slots alone keeps the table's type.
LEMMA MintsKept ==
    ASSUME BookInv, UNCHANGED <<status, size, plan, session>>,
           slots' \in [Slot -> Cell], \A t \in Slot : slots'[t].mint = slots[t].mint, CachesBelong'
    PROVE  BookInv'
<1>1. Allocated' = Allocated
  BY DEF Allocated
<1> QED  BY <1>1 DEF BookInv, BookTypeOK, PlanIsBasket

\* A step that leaves the slots alone needs to keep the other types only.
LEMMA SlotsKept ==
    ASSUME BookInv, UNCHANGED <<size, slots>>,
           status' \in {"None", "Active", "Restructuring", "Liquidating"},
           plan' \in Snapshots, status' = "Restructuring" => plan' \in Baskets,
           session' \in [kind: {"none", "deposit", "withdrawal"}, mints: Snapshots, stale: BOOLEAN]
    PROVE  BookInv'
<1>1. Allocated' = Allocated /\ CachesBelong'
  BY DEF Allocated, BookInv, CachesBelong
<1> QED  BY <1>1 DEF BookInv, BookTypeOK, PlanIsBasket

LEMMA SnapshotTaken ==
    ASSUME BookInv, NEW kind \in {"deposit", "withdrawal"}, Opens(kind)
    PROVE  session' \in [kind: {"none", "deposit", "withdrawal"}, mints: Snapshots, stale: BOOLEAN]
<1>1. size \in 0..MaxTokens /\ MaxTokens \in Nat /\ slots \in [Slot -> Cell]
  BY BasketAssumption DEF BookInv, BookTypeOK
<1>2. \A i \in 1..size : i \in Slot /\ i \in Allocated
  BY <1>1 DEF Slot, Allocated
<1>3. \A i \in 1..size : slots[i].mint \in Mint
  BY <1>1, <1>2 DEF BookInv, BookTypeOK, Cell
<1>4. [i \in 1..size |-> slots[i].mint] \in [1..size -> Mint]
  BY <1>3
<1>5. [i \in Allocated |-> slots[i].mint] \in Snapshots
  BY <1>1, <1>4 DEF Snapshots, Allocated
<1> QED  BY <1>5 DEF Opens

LEMMA BookStep == BookInv /\ BookSteps => BookInv'
<1> SUFFICES ASSUME BookInv, BookSteps PROVE BookInv'
  OBVIOUS
<1>1. /\ status \in {"None", "Active", "Restructuring", "Liquidating"} /\ plan \in Snapshots
      /\ session \in [kind: {"none", "deposit", "withdrawal"}, mints: Snapshots, stale: BOOLEAN]
      /\ status = "Restructuring" => plan \in Baskets
  BY DEF BookInv, BookTypeOK, PlanIsBasket
<1>2. ASSUME NEW basket \in Baskets, CreateVault(basket) PROVE BookInv'
  BY <1>2, CreateVaultKeeps
<1>3. ASSUME NEW basket \in Baskets, RestructureInit(basket) PROVE BookInv'
  <2>1. basket \in Snapshots
    BY BasketFacts
  <2> QED  BY <1>1, <1>3, <2>1, SlotsKept DEF RestructureInit
<1>4. CASE RestructureSettle
  BY <1>4, SettleKeeps
<1>5. CASE RestructureAbort
  BY <1>1, <1>5, EmptyPlan, SlotsKept DEF RestructureAbort
<1>6. CASE CacheAllocDecimals
  BY <1>6, DecimalsCached, MintsKept DEF CacheAllocDecimals
<1>7. CASE WithdrawInit
  BY <1>1, <1>7, SnapshotTaken, SlotsKept DEF WithdrawInit
<1>8. ASSUME NEW s \in Slot, WithdrawSwap(s) PROVE BookInv'
  <2>1. s \in Allocated /\ CacheLegFill(s, slots[s].mint) /\ UNCHANGED <<status, size, plan, session>>
    BY <1>8 DEF WithdrawSwap, SlotStillOf
  <2> QED  BY <2>1, CacheWritten, MintsKept
<1>9. CASE SessionEnds
  <2>1. NoSession \in [kind: {"none", "deposit", "withdrawal"}, mints: Snapshots, stale: BOOLEAN]
    BY EmptyPlan DEF NoSession
  <2> QED  BY <1>1, <1>9, <2>1, SlotsKept DEF SessionEnds
<1>10. CASE CloseVault
  BY <1>1, <1>10, SlotsKept DEF CloseVault
<1>11. ASSUME NEW answering \in SUBSET Feed, NEW balances \in SUBSET Slot,
              DepositInit(balances, answering)
       PROVE  BookInv'
  BY <1>1, <1>11, SnapshotTaken, SlotsKept DEF DepositInit
<1>12. ASSUME NEW answering \in SUBSET Feed, NEW s \in Slot, DepositSwap(s, answering)
       PROVE  BookInv'
  BY <1>12, CacheWritten, MintsKept DEF DepositSwap
<1> QED
  BY <1>2, <1>3, <1>4, <1>5, <1>6, <1>7, <1>8, <1>9, <1>10, <1>11, <1>12 DEF BookSteps

LEMMA BookUntouched == BookInv /\ UNCHANGED book => BookInv'
  BY DEF book, BookInv, BookTypeOK, CachesBelong, PlanIsBasket, Allocated

LEMMA BookInvariant == Spec => []BookInv
<1>1. Init => BookInv
  BY BookStarts DEF Init
<1>2. BookInv /\ [Next]_vars => BookInv'
  BY BookStep, BookUntouched DEF Next, vars
<1> QED  BY <1>1, <1>2, PTL DEF Spec

\* The table of a vault is well formed through every creation and basket change: a mint
\* in each slot in use, in no two the same, and in no other.
THEOREM BookTypeCorrect == Spec => []BookTypeOK
<1>1. BookInv => BookTypeOK
  BY DEF BookInv
<1> QED  BY <1>1, BookInvariant, PTL

\* However sessions of earlier baskets fill the caches by slot number, and however baskets
\* move mints between slots, no slot caches the decimals or the price of another mint.
THEOREM CachesNeverStale == Spec => []CachesBelong
<1>1. BookInv => CachesBelong
  BY DEF BookInv
<1> QED  BY <1>1, BookInvariant, PTL
=============================================================================
