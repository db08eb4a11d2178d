----------------------------- MODULE PriceBook ------------------------------
(***************************************************************************)
(* How a vault's tokens get their prices.  The vault keeps, in the slot of *)
(* each mint of its basket, two caches: the mint's decimals, without which *)
(* no oracle price can be applied, and the price of the last swap.  Swaps  *)
(* of sessions fill them by slot number, a basket change rewrites the      *)
(* slots.  Entries demand an oracle price of everything, exits do without. *)
(*                                                                         *)
(* Decimals and prices are represented by the mint they are of, balances   *)
(* by the slots that have one when it matters.  One session is followed;   *)
(* weights are left out, and so is USDC, whose slot is never swapped or    *)
(* priced.  The guards on swaps and mark-to-market valuation are on        *)
(* (swap_max_loss_bps > 0, m2m_enforced).                                  *)
(* What else a step asks for -- commitments, deadlines, empty accounts,    *)
(* a session not aborting -- is in VaultLifecycle, RestructureFlow and the *)
(* flows of sessions; here such a step may always happen.                  *)
(***************************************************************************)
EXTENDS FeedRegistry, Sequences

CONSTANTS Sol,       \* WSOL_MINT, whose feed redemption rates are composed with
          Baskets,   \* what a creator may choose: sequences of distinct mints
          MaxTokens  \* MAX_TOKENS_PER_VAULT

ASSUME BasketAssumption ==
    /\ Sol \in Mint /\ MaxTokens \in Nat
    /\ \A b \in Baskets : /\ b \in Seq(Mint) /\ Len(b) \in 1..MaxTokens
                          /\ \A i, j \in 1..Len(b) : b[i] = b[j] => i = j

VARIABLES status,   \* VaultStatus; "None" before create_vault
          size,     \* allocation_count
          slots,    \* mint, cached decimals and last swap of each allocation
          plan,     \* the basket a restructure session is changing to
          session   \* a deposit's or a withdrawal's snapshot of the basket

book == <<status, size, slots, plan, session>>
vars == <<registry, book>>

Slot == 1..MaxTokens
Empty == [mint |-> Zero, decimals |-> Zero, lastSwap |-> Zero]
NoSession == [kind |-> "none", mints |-> <<>>, stale |-> FALSE]
Allocated == 1..size
Table == {slots[s].mint : s \in Allocated}
MintsOf(basket) == {basket[i] : i \in 1..Len(basket)}

\* guard_oracle_value: does the oracle price m, when the feeds in `answering` do?
HasOracle(m) == IsListed(m) /\ ~EntryOf(m).noOracle
FeedsRead(m) == {EntryOf(m).feed}
                \cup (IF EntryOf(m).composed /\ IsListed(Sol) THEN {EntryOf(Sol).feed} ELSE {})
Priced(m, answering) ==
    /\ HasOracle(m)
    /\ EntryOf(m).composed => IsListed(Sol)
    /\ FeedsRead(m) \subseteq answering

\* compute_tvl_m2m_strict prices every balance in the basket, or fails.
StrictlyPriced(balances, answering) ==
    \A s \in balances : slots[s].decimals # Zero /\ Priced(slots[s].mint, answering)

-----------------------------------------------------------------------------
(* The basket *)

\* The slots create_vault writes; the caches start empty.
CreateVault(basket) ==
    /\ status = "None"
    /\ \A m \in MintsOf(basket) : HasOracle(m)
    /\ status' = "Active"
    /\ size' = Len(basket)
    /\ slots' = [s \in Slot |-> IF s <= Len(basket) THEN [Empty EXCEPT !.mint = basket[s]]
                                ELSE Empty]
    /\ UNCHANGED <<registry, plan, session>>

RestructureInit(basket) ==
    /\ status = "Active"
    /\ \A m \in MintsOf(basket) : HasOracle(m)
    /\ plan' = basket
    /\ status' = "Restructuring"
    /\ UNCHANGED <<registry, size, slots, session>>

\* The price a slot of the new table starts with: the purchase's for an incoming mint,
\* a persisting one brings its own from whichever slot it was in.
Inherited(i) == {slots[s].lastSwap : s \in {t \in Allocated : slots[t].mint = plan[i]}}

\* Variant the runs reject: the slots a shorter basket leaves over are not cleared.
Cleared_Kept(s) == slots[s]
Cleared(s) == Empty

\* restructure_settle rewrites all slots, clears those left over and reads the decimals
\* of every mint again.
RestructureSettle ==
    /\ status = "Restructuring"
    /\ \E prices \in [1..Len(plan) -> Mint \cup {Zero}] :
         /\ \A i \in 1..Len(plan) :
              prices[i] \in IF plan[i] \in Table THEN Inherited(i) ELSE {plan[i], Zero}
         /\ slots' = [s \in Slot |->
                        IF s <= Len(plan)
                        THEN [mint |-> plan[s], decimals |-> plan[s], lastSwap |-> prices[s]]
                        ELSE Cleared(s)]
    /\ size' = Len(plan)
    /\ status' = "Active"
    /\ plan' = <<>>
    /\ \E tie \in BOOLEAN : session' = IF tie THEN session ELSE [session EXCEPT !.stale = TRUE]
    /\ UNCHANGED registry

RestructureAbort ==
    /\ status = "Restructuring"
    /\ status' = "Active"
    /\ plan' = <<>>
    /\ UNCHANGED <<registry, size, slots, session>>

\* cache_alloc_decimals, by anyone.
CacheAllocDecimals ==
    /\ size > 0
    /\ slots' = [s \in Slot |-> IF s <= size THEN [slots[s] EXCEPT !.decimals = slots[s].mint]
                                ELSE slots[s]]
    /\ UNCHANGED <<registry, status, size, plan, session>>

-----------------------------------------------------------------------------
(* Sessions *)

Opens(kind) == /\ session.kind = "none"
               /\ session' = [kind |-> kind, mints |-> [i \in Allocated |-> slots[i].mint],
                              stale |-> FALSE]

\* Entering takes a full valuation.
DepositInit(balances, answering) ==
    /\ status = "Active"
    /\ balances \subseteq Allocated
    /\ StrictlyPriced(balances, answering)
    /\ Opens("deposit")
    /\ UNCHANGED <<registry, status, size, slots, plan>>

WithdrawInit ==
    /\ status \notin {"None", "Restructuring"}
    /\ Opens("withdrawal")
    /\ UNCHANGED <<registry, status, size, slots, plan>>

\* cache_leg_fill: decimals always, a price unless the fill is too small for one.
CacheLegFill(s, m) ==
    \E price \in {m, slots[s].lastSwap} :
        slots' = [slots EXCEPT ![s].decimals = m, ![s].lastSwap = price]

\* A purchase of deposit_swap_batch, for a session whose table is still the vault's.
DepositSwap(s, answering) ==
    /\ session.kind = "deposit"
    /\ status = "Active"
    /\ ~session.stale
    /\ size = Len(session.mints)
    /\ s \in Allocated /\ slots[s].mint = session.mints[s]
    /\ Priced(slots[s].mint, answering)
    /\ CacheLegFill(s, slots[s].mint)
    /\ UNCHANGED <<registry, status, size, plan, session>>

\* Variant the runs reject: the slot is taken to be the session's still.
SlotStillOf_Assumed(s, m) == s \in Allocated
SlotStillOf(s, m) == s \in Allocated /\ slots[s].mint = m

\* A sale of withdraw_swap_batch needs no oracle, and goes on under another basket; it
\* fills the cache of the slot with its leg's number only if that is still its mint's.
WithdrawSwap(s) ==
    LET m == session.mints[s]
    IN /\ session.kind = "withdrawal"
       /\ s \in 1..Len(session.mints)
       /\ status # "Restructuring"
       /\ SlotStillOf(s, m)
       /\ CacheLegFill(s, m)
       /\ UNCHANGED <<registry, status, size, plan, session>>

SessionEnds ==
    /\ session.kind # "none"
    /\ session' = NoSession
    /\ UNCHANGED <<registry, status, size, slots, plan>>

CloseVault ==
    /\ status = "Active"
    /\ status' = "Liquidating"
    /\ UNCHANGED <<registry, size, slots, plan, session>>

BookInit ==
    /\ status = "None" /\ size = 0 /\ slots = [s \in Slot |-> Empty]
    /\ plan = <<>> /\ session = NoSession

BookSteps ==
    \/ \E basket \in Baskets : CreateVault(basket) \/ RestructureInit(basket)
    \/ RestructureSettle
    \/ RestructureAbort
    \/ CacheAllocDecimals
    \/ WithdrawInit
    \/ \E s \in Slot : WithdrawSwap(s)
    \/ SessionEnds
    \/ CloseVault
    \/ \E answering \in SUBSET Feed :
         \/ \E balances \in SUBSET Slot : DepositInit(balances, answering)
         \/ \E s \in Slot : DepositSwap(s, answering)

Init == RegistryInit /\ BookInit
Next == (RegistrySteps /\ UNCHANGED book) \/ BookSteps
Spec == Init /\ [][Next]_vars

-----------------------------------------------------------------------------
(* Properties *)

Cell == [mint: Mint \cup {Zero}, decimals: Mint \cup {Zero}, lastSwap: Mint \cup {Zero}]
Snapshots == UNION {[1..n -> Mint] : n \in 0..MaxTokens}

\* Types of the vault's table, its holdings and the session followed; through creations
\* and basket changes the slots in use hold a mint each, the same one in no two, and the
\* others none.
BookTypeOK ==
    /\ status \in {"None", "Active", "Restructuring", "Liquidating"}
    /\ size \in 0..MaxTokens
    /\ slots \in [Slot -> Cell]
    /\ \A s, t \in Slot : /\ slots[s].mint # Zero <=> s \in Allocated
                          /\ slots[s].mint = slots[t].mint /\ s \in Allocated => s = t
    /\ plan \in Snapshots
    /\ session \in [kind: {"none", "deposit", "withdrawal"}, mints: Snapshots, stale: BOOLEAN]

\* Whatever swaps of sessions opened under earlier baskets fill the caches by slot
\* number, and whatever basket changes move mints between slots: what a slot caches is of
\* the mint the slot holds, and slots no longer used cache nothing a later mint could
\* inherit.
CachesBelong ==
    \A s \in Slot : {slots[s].decimals, slots[s].lastSwap} \subseteq {Zero, slots[s].mint}
=============================================================================
