# Wagon: formal models, checks and proofs

Wagon is a Solana program (Anchor, `src/programs/wagon/src`, written `W/` below). A creator
defines a basket of tokens and the program keeps a *vault* for it. Investors deposit USDC,
the program buys the basket and mints shares; they burn shares to get out again. A basket has
up to ten mints and one transaction has room for about three swaps, so every operation that
trades is *fractional*: a session account is opened by one transaction, worked on by several,
and ended by a last one. Each transaction is atomic. What can go wrong lies between them.

These modules model those sessions, what else may run between two of their steps, the numbers
they leave behind, and the price feeds and caches they rely on.

## 1. Inventory

| Part | State it keeps | Operations | Module |
|---|---|---|---|
| Vault account (`state/vault.rs`, `vault_layout.rs`) | status, basket table and weights, `committed_deposits`, `pending_committed_shares`, `pending_burned_shares`, `stranded_flag`, `total_shares`, prices | read and written by everything below | `VaultState`, `ShareLedger` (part) |
| Deposit (`deposit_*.rs`, `deposit_session.rs`) | one session per investor: legs bought, legs swept, `aborting`, price mark, age | init, swap batch, sweep batch (either direction), settle, abort, force release | `DepositFlow`, `DepositEffects`, `EntryControl`, `Wagon` |
| Basket change (`restructure_*.rs`, `close_stranded.rs`, `admin_clear_stranded.rs`, `rescue_untracked_token.rs`) | one session per vault: new basket, sold and bought legs | init, swap batch, settle, abort, and the quarantine an abort may leave | `RestructureFlow` |
| Administration (`admin.rs`, `close_vault.rs`, `finalize_close.rs`, `rebalance*.rs`, `sweep_to_usdc.rs`) | vault status, weights, protocol pause | pause, unpause, close, finalize, rebalance, liquidation sweep | `VaultLifecycle` |
| Withdrawal (`withdraw_*.rs`, `withdraw_session.rs`) | one session per investor: legs completed, swept, paid in kind, `sold`, `aborting`, age; `pending_burned_shares` | init (burn), swap batch, sweep batch (either direction), claim in kind, settle, abort (re-mint) | `WithdrawFlow`, `WithdrawEffects`, `ExitControl`, `ExitOpen`, `Wagon` |
| Share and cost-basis ledger (`position.rs`, the arithmetic of settle, init and abort) | `total_shares`, positions, dead shares, cost basis, reservations in two words | inside the steps of deposits and withdrawals | `ShareMath`, `ShareLedger` |
| Global TVL and fees (`mark_tvl.rs`, `claim_creator_rewards.rs`) | `total_tvl_usdc`, `tvl_last_computed_usdc` | saturating updates, entry and performance fee | `ShareLedger` (part) |
| Feed registry (`set_feed.rs`, `remove_feed.rs`, `init_` and `extend_feed_registry.rs`, `feed_registry*.rs`) | slots of feed entries, their count, the size of the account | create, list or replace, remove, extend | `FeedRegistry`, `FeedMap` |
| Pricing and price caches (`pricing.rs`, `cache_alloc_decimals.rs`, the tails of the swap batches) | per slot of the basket: mint decimals, last swap price | fill, inherit, clear, strict valuation | `PriceBook` (part) |
| Creation and setup (`create_vault.rs`, `init_protocol.rs`) | none of its own | write the first state | `PriceBook` (part) |
| Token and swap plumbing, entry point, errors, events, `mock-jupiter` | none | pure I/O | freezes in `VaultState`; else not modelled |

**How the parts interact.** They share one account. A deposit reads the table, the weights and
the price of the vault at its init and lands tokens in it several transactions later. A
withdrawal takes tokens out at its init and may bring them back under another table. A basket
change replaces the table, and moves the caches with the mints. Administrators change the
status, the protocol authority the feeds. Token issuers, outside the program, freeze accounts
and so make transfers fail. Nothing is called back and no message is sent: the only coupling is
a field one instruction wrote and another one reads later.

**What is hard.** (a) *Interleaving*: the steps of several investors, the creator, the
authority, cranks and issuers, in any order. (b) *Commitment*: tokens of a deposit are in the
vault before its shares exist; only a counter and a reservation stand for them. (c) The mirror
image for a withdrawal being unwound. (d) *Stale snapshots*: sessions outlive the basket they
were opened under, and address caches by slot number. (e) *Hidden value*: tokens outside the
table are not priced, so entering while there are some dilutes the holders. (f) *Abandonment*: a
session whose owner disappears must be ended by others, but not too early and not against the
owner's interest. (g) *Freezes* half way through. (h) *Books written as deltas*: totals, bases
and caches are updated by different instructions from fields snapshotted earlier.
`PROJECT.json` lists the hazards at their lines.

## 2. Modules

```
ShareMath ─┬─ ShareLedger (+ Sums)
           └─ VaultState ── RestructureFlow ── VaultLifecycle ──┬── EntryControl (+ DepositFlow, WithdrawEffects)
                                                                │        └── Wagon (+ WithdrawFlow)
                                                                └── ExitControl  (+ WithdrawFlow, DepositEffects, Sums)
                                                                         └── ExitOpen
FeedRegistry ── PriceBook
                        EntryControl implements CommitLock      ExitControl implements ExitChoice
                        Wagon implements EntryControl           Wagon implements ExitControl
                        FeedRegistry implements FeedMap
```

* **ShareMath** -- the pure arithmetic: the mint formula, its reservation (`Phantom` is
  `phantom_shares`), saturating subtraction. **Sums** -- what a function adds up to over a finite
  set, for the totals of ShareLedger and ExitControl. **VaultState** -- the constants, the shared
  variables (one per field, named in the comments with their offsets), what an issuer can
  freeze, and operators several components use.
* **RestructureFlow**, **VaultLifecycle** -- one action per instruction. They are steps of the
  compositions below and have no specification of their own.
* **DepositFlow** -- one action per instruction, except that `deposit_sweep_batch` is three
  actions (refund, first batch into the vault = commit, later batches): three paths of one
  handler, told apart by the direction rule `AbortDirection`.
* **WithdrawEffects** -- what a withdrawal does to the state others see (`WithdrawReturns`).
  **WithdrawFlow** -- the withdrawal itself, over `wd`, `shares`, `burned`;
  `withdraw_sweep_batch` is two actions (`WithdrawUnwind`, `WithdrawClose`).
* **EntryControl** -- the vault with all deposits, basket changes, administrators, issuers and
  the clock. Of withdrawals it has only `WithdrawReturns`.
* **DepositEffects** -- what a deposit does to the holdings that withdrawals see (`DepositLands`).
* **ExitControl** -- the same with all withdrawals, from the vault as `create_vault` leaves it. Of
  deposits it has what they do to the state that withdrawals see: tokens land (`DepositLands`)
  and shares are minted (`DepositMints`). It shows that its withdrawals do no more to the vault
  than `WithdrawReturns` (`ReturnsAsAssumed`, checked and proved): the assumption EntryControl
  makes.
* **ExitOpen** -- ExitControl with fairness and a history variable, `resigned`: the investors who
  let their open withdrawal turn back themselves, at a moment when no third party could have.
* **Wagon** -- the whole vault, the program's deposits and the program's withdrawals in one
  specification. It implements EntryControl and ExitControl (`IsEntryControl`, `IsExitControl`,
  checked and proved), which is what entitles either one to stand for the other side by an
  assumption. In the instance of ExitControl the counters of deposits are 0: withdrawals never
  read them and creators are only stopped by them, so ExitControl has more behaviours for it. A
  history variable, `strays`, remembers which tokens the two landings that raise no flag have put
  outside the table (`entry_tie` and the first item without a run in section 4); no step reads it.
* **CommitLock** -- abstract: a lock on the arrangement of the vault (table, weights, in
  business or not), with one holder and a fixed reservation. `IsCommitLock` maps the holder to
  the committed session, the reservation to `pending_committed_shares`.
* **ExitChoice** -- abstract: shares put into a withdrawal are paid for or given back, never
  both. `IsExitChoice` maps the phase to what has *physically* left the session (proceeds of a
  sale, legs paid in kind), not to the flag `sold` that the guards read, so a flag that is not
  set where it must be breaks the refinement.
* **ShareLedger** -- the same deposits and withdrawals with amounts instead of mints: supply,
  positions, cost basis, reservations, the two cached valuations.
* **FeedRegistry** -- the slots of the registry account, with swap-and-pop removal and the
  account's growing size. **FeedMap** -- abstract: a map from mints to distinct feeds, changed
  one mint at a time; `IsFeedMap` reads the map off the slots.
* **PriceBook** -- extends the registry with the vault's table and its two caches per slot:
  creation, basket changes, `cache_alloc_decimals`, and the swaps of one session.
* **MCEntry, MCExit, MCExitOpen, MCWagon, MCLedger, MCPrices** -- the sets of the small
  instances. **\*_proofs** -- theorems, of the module they are named after; ShareBooks_proofs
  continues ShareLedger_proofs.

Definitions named `X_Something` next to `X` are faulty variants of `X`, each a plausible slip in
the code (a missing guard, a counter not released). They are used by no specification; for each
property there is one that, put in the place of `X`, breaks it.

### What is abstracted

In the flows and their compositions (`EntryControl`, `ExitControl`, `Wagon`):

* *Amounts.* A mint is in an account or not (`held`, `funded`). A sale that leaves something
  behind is a choice (`emptied`, `unsold`). A withdrawal never empties an account of the vault:
  its slice is a floor with a denominator larger than its shares, because the dead shares of
  the first deposit are never burned (`SeededForever` in ShareLedger). Numbers remain where a
  counter or formula is at stake: the reservation, the minted shares, the burned shares.
* *USDC* is not in `Mint`: no instruction can strand it, and it is never outside the table.
* *Time.* A session has an age, capped at `MaxAge`, which only has to lie beyond the longest
  timeout since ages are only compared with timeouts. The real timeouts (300 s and 1800 s; 30
  min, 24 h, 48 h; 7 d) are kept in their order. The one comparison of two absolute times,
  `created_at < last_restructured_at`, is the field `since` ("older", or "tie" when both fall in
  one second). `SameSecond` says whether a tie may occur.
* *Legs* are mints instead of indices; the batch limits 3 and 4 are `SwapBatch`, `SweepBatch`.
* *Prices.* A strict valuation is any value of `Tvls`; whether the protocol enforces it at the
  commit is a choice. `total_shares` is `seeded` (has a deposit ever settled) and, in a price
  mark, a value of `ShareCounts`. That oracle feeds answer when a commit needs them is a
  premise: a deposit whose feed has been removed or has gone silent waits, complete and unswept,
  like the one of `entry_cleanup` in section 4 (`StrictlyPriced` in PriceBook says when that is).
* *`Leftovers`* says whether the sale of a withdrawal leg may leave tokens in its escrow; see
  section 4.
* *Parked legs* of a withdrawal (the vault's account frozen, slice rounding to zero, mint no
  longer accepted) are a choice that includes every leg that cannot move.
* Not represented: freezes of an investor's own accounts, tokens donated to the vault from
  outside, slices of fewer units than one.

In `ShareLedger`:

* Market prices are constant, so a token counts what it is worth wherever it is; slippage is the
  choice `Losses`. The legs of the basket are one lump of value that moves in pieces. There is
  one basket and it is not USDC alone, so the settle without a commit of an all-USDC basket is
  left out, and basket changes are.
* Mark-to-market enforcement and the swap guards are on. Who may take a step and when is left
  open: guards on callers and timeouts are in the flows, and fewer guards allow more orders.
* Escrow residues that a frozen account keeps from being paid are left out.
* Each reservation is stored as in the account, in a low and a high word; `LowWord` and
  `HighWord` stand for 2^48 and 2^16, and `MaxCounter` for `u64::MAX`. The reservation of a
  commit saturates there (`Reserved`, as `phantom_shares`); a commit, a settle or an unwinding
  whose sum would pass it fails (`checked_add`), so it has a guard. Balances and prices are
  unbounded: the program computes with them in 128 bits.
* A behaviour starts from any vault of `Vaults` with its sessions closed and its caches marked.

In `PriceBook`: decimals and prices are represented by the mint they are of, so "a cache of the
wrong mint" is a comparison. Balances are a choice, one session is followed, weights, USDC,
addresses and feed classes are left out. Guards that are modelled in the flows (commitments,
deadlines, emptied accounts) are left out here, so a step happens at least when it may.

## 3. Runs that pass

| Run | Instance | What it shows |
|---|---|---|
| `entry_locks` | 2 depositors, baskets of 0 and 1 mint, valuations 0 and 2 | counter and reservation describe exactly the committed session (`CommittedExact`); it never turns back (`CommittedNeverTurnsBack`); the reservation covers the mint (`ReservationCoversMint`); `CommitLock` is implemented |
| `entry_freeze` | 1 depositor, 2 legs, one mint and USDC freezable, rounding dust in the USDC escrow | the same through force release, which is granted only to a session that cannot settle (`ReleaseOnlyIfStuck`); a committed deposit is settled or released (`CommittedResolves`) |
| `wagon` | 1 investor who pays 2 and may own 1 share, 2 disjoint baskets of one mint, no freezes; ties of seconds and leftovers of sales are possible | deposits and withdrawals of the program together are those of EntryControl (`IsEntryControl`) and of ExitControl (`IsExitControl`); a deposit is opened or committed only when the vault's value is all visible, save `strays` (`EntrySeesAllValue`); it lands in the table unless it was tied (`UntiedLandsOnTable`); off-table value but `strays` is announced (`OffTableIsFlagged`) and in the manifest that lets the announcement be lifted (`ManifestCovers`); status and session agree (`SessionMatchesStatus`); a finalized vault owes nobody shares, a withdrawal or a committed deposit (`ClosedOwesNobody`) |
| `entry_abandoned` | 2 depositors, 1 mint, no freeze | sessions nobody tends are cleared (`AbandonedCleared`); a basket change ends without its creator (`RestructureEnds`) |
| `exit_choice` | 1 investor with 1 share, disjoint baskets of 2 and 1 mints, sales with leftovers | `ExitChoice` is implemented, extraction excludes unwinding (`ExtractedNeverUnwinds`), and withdrawals do to the vault no more than EntryControl assumes (`ReturnsAsAssumed`) |
| `exit_shared` | 2 investors with 2 shares each, 1 leg, sales with leftovers | `pending_burned_shares` is the sum of the burned shares of unwinding sessions (`BurnedExact`); no session ends with tokens in escrow (`NothingLeftBehind`) |
| `exit_open` | 1 investor, 2 legs, one of them freezable, sales with leftovers, a window between the timeouts of the investor (0) and of third parties (1) | an investor who acts in that window is paid, unless he gives his withdrawal up himself: nobody else can make it turn back before, and nobody can keep him from acting (`ExitAlwaysOpen`); from the first leg taken on, he alone ends the session (`PaidInTheEnd`); an abandoned withdrawal is ended by others (`OrphanCleared`) |
| `ledger` | a fresh, a dear and a worthless vault; 2 investors with 3 sessions between them, who pay 4, of which 1 is the fee, or burn 1 share; slippage of 1 | `total_shares` is the supply (`SupplyExact`), the vault's cost basis the sum of the positions' (`CostBasisExact`), the counters exact across their two words (`CountersExact`); no step lowers what a share is worth, save three named kinds (`NoDilution`); a seeded vault never runs out of shares (`SeededForever`); the aggregate keeps to the cap (`AggregateCapped`) |
| `prices` | 2 mints, 2 feeds, 4 baskets with either mint in either slot, a registry of 1 slot that can be extended to 2 | the registry is a map of mints to distinct feeds (`IsFeedMap`); no slot keeps a cache of a mint it does not hold (`CachesBelong`) |

Each component also has its type invariant in one of these runs.

**Why the bounds are enough.** Two actors suffice for mutual exclusion and for one session
taking another's reservation (`entry_locks`, `exit_shared`, `ledger`; symmetric actors are
permuted there, in runs without liveness). Two legs with batches of one make a session half
swept; disjoint baskets make a landing fall outside the table; two of them and back let a
quarantined vault change basket again. `MaxAge = 2` with timeouts 0 and 1 separates before,
between and after two nested timeouts. `entry_freeze` and `exit_choice` give all timeouts one
value: what may happen between two real ones can then only happen in more orders, and their
properties tell no two timeouts apart. Three nested ones (30 min <= 24 h < 48 h for withdrawals)
need no more: the 30-minute gate of the abort is subsumed by `fully_swept`, so sharing its value
with the 24-hour one merges no reachable distinction. `MaxPosition = 2` in `exit_shared` lets an
investor withdraw twice, or in parts; what a session does with its tokens does not depend on how
many shares it burned, so 1 serves the other runs. A basket change of `exit_open` goes from a
basket to itself: what matters there is that its status can be entered again and again.

In `ledger` the three vaults reach every branch of the mint formula (first deposit, deposit into
a vault worth nothing, price above one USDC so that dust rounds to zero shares); `LowWord = 2`
makes ordinary reservations cross into the high word; three sessions let one withdrawal unwind
and one deposit be committed while a third session opens or settles. In `prices` two slots are
enough for a removal that moves the last entry into the gap, for a mint that changes slots, and
for a basket that shrinks and grows again; one slot at first makes the extension necessary.

Deadlock is checked in every run but `ledger` (and `ledger_pair`): there a behaviour may end
when the `MaxSessions` sessions of the bound are used up.

### Fairness and premises of the liveness properties

* Time passes (`WF` on the tick) in every fair specification; in EntryControl and `CrankFair`,
  somebody runs the permissionless abort of a basket change once its window is over (`WF`). The
  program is designed around such cranks.
* `EntryControl!Fairness`, `ExitOpen!CrankFair`: strong fairness on the permissionless steps
  of each session. Strong, because a freeze or a basket change may disable such a step again and
  again; a crank retries, and gets through if it is possible infinitely often. Nothing is
  assumed of creators, issuers or administrators, or of investors.
* `ExitOpen!InvestorFair`: only *weak* fairness, of the investor's own claim and settle: a way
  out that a hostile creator could keep closing would not do, so the steps must stay open. No
  crank is assumed there. It is the premise of `PaidInTheEnd`, `CrankFair` that of `OrphanCleared`.
* `ExitAlwaysOpen` cannot rest on fairness: an investor who is merely fair may be overtaken by the
  crank that unwinds his session after 48 hours, and an unwinding pays him nothing. Its premise is
  promptness: he is never `Late`, that is, never lets `OrphanTimeout` pass while a claim or a settle
  is open to him. The conclusion is that he is paid (`sold`) or has turned back by a step that no
  third party could have taken (`resigned`); an unwinding by others counts as failure. That time
  passes (`WF`) is all the fairness it uses.
* `ShareLedger!FairSpec`, used by `ledger_pair` alone: the landing and the settle of a
  committed deposit, which anyone may take.
* Other premises stated in the properties: `PauseIsTransient` (a pause by the authority stops
  settles, so nothing can be concluded while it lasts), `[]EscrowsMove` and `<>[]EscrowsMove` (an
  issuer that freezes a session's escrow keeps the tokens there, whatever the program does; in
  `ExitAlwaysOpen` a freeze could cover the window the investor has), `FreezesEnd` (the same in
  the end, and for the vault's accounts, to which an abandoned withdrawal returns its slices).
  `AbandonedCleared` is checked without freezes, and with a valuation available when a commit
  asks for one; `CommittedResolves` needs no premise on freezes: force release exists for issuers
  that never thaw.

### The exceptions of `NoDilution`

The property compares `Pool / Claims` -- what the holders share, over the shares minted, due or
to be minted again -- before and after each step, at every moment of the others' sessions, as
long as there is a claim at all. Three kinds of steps may lower it:

* a session that *turns back* (`TurnsBack`: a withdrawal that starts to unwind or is aborted, a
  force release) takes up again, or gives up, what it had left to the others;
* a commit that is *priced off* (`PricedOff`): withdrawals are unwinding, so the price is not
  `Pool / Claims` (`ledger_pair`, section 4); or what arrived buys no whole share, and
  `deposit_settle` mints by the gross amount;
* a step while a committed session is *under-reserved* (`UnderReserved`): less than
  `MIN_INITIAL_SHARES` has entered a vault with shares and no value, the settle will mint the dead
  shares on top of what the commit reserved, and a withdrawal opened in between takes its slice
  over too small a denominator.

An unwinding withdrawal makes the price too high, which hurts the depositor and not the holders,
unless another one has turned back before: let one withdrawal that could take nothing be aborted
while a second one, opened in between at the price the first had left behind, has returned part
of its slice. The value per share still on its way is then larger than that of the vault, and
the commit is priced too low. With a vault of twelve units and three shares TLC finds that
behaviour; the vaults of `ledger` are too small for it.

## 4. Disagreements between code and comments

The first three are runs that TLC finds violated; `PROJECT.json` quotes both sides.

* `entry_tie` -- a session is stale only if `created_at < last_restructured_at`, strictly. A
  deposit opened in the very second a basket change settles, before it, stays fresh and commits
  mints outside the new table. `UntiedLandsOnTable` says it of all other deposits and holds
  (`wagon`, and proved: `DepositsLandOnTable`).
* `entry_cleanup` -- "abandoned sessions can always be cleaned up": a complete deposit that has
  swept nothing can neither be swept (the vault's account is frozen), nor aborted, nor
  force-released, while the vault stays Active.
* `ledger_pair` -- the commit prices a share as the live valuation over `total_shares`
  (`deposit_sweep_batch.rs:250`). While a withdrawal unwinds, its tokens are back in the vault
  and its shares, still burned, are in `pending_burned_shares` only, so the price is too high and
  the depositor gets too few shares. The comment at `:371-373` says the pair of valuation and
  `total_shares` is always consistent. The slice of a withdrawal does count both reservations.

Others, met while reading and modelled as the code has them, without a run of their own:

* `withdraw_sweep_batch.rs:4-5` takes the escrow of a sold leg for empty, while
  `withdraw_swap_batch.rs:250` completes a leg whatever part of it the swap consumed. What is left
  lands in the vault, and if the basket has changed it lands outside the table with no flag
  raised. `Leftovers` makes it a choice. In `wagon` it may happen, and `OffTableIsFlagged`,
  `ManifestCovers` and `EntrySeesAllValue` exempt exactly the tokens that such a landing, or the
  landing of a tied deposit, has brought (`strays`).
* A vault with shares but valuation 0 mints the dead shares of a first deposit again
  (`vault_layout.rs:900`); a committed deposit below `MIN_INITIAL_SHARES` is then minted more than
  it reserved, although the comment calls the reservation an upper bound. Above that amount it is
  one: the precondition of `ReservationCoversMint`.
* `feed_registry.rs:66-67` says the feed of a mint marked as having no oracle is kept as
  historic data and not used; composing a redemption rate reads the feed of SOL without looking
  at that mark (`pricing.rs:381-384`, `595-599`; `Priced` in PriceBook).
* `deposit_abort.rs:186-195` says the next `mark_tvl` corrects an aggregate that has drifted;
  `mark_tvl` and `restructure_settle` only lower it.
* `finalize_close.rs:1-2` finalizes "after all shares are burned", which a vault with a settled
  deposit never reaches (`SeededForever`, `ClosedOwesNobody`).
* `position.rs:55-62` gives the slice of the cost basis in terms of the shares before the burn;
  a deposit that settles between a withdrawal's init and its settle changes both numbers.
* `create_vault.rs:277-281` says `restructure_init` does not consult the feed registry; it does.
* `vault_layout.rs:683` says a pending reservation implies an Active vault, while `pause_vault`
  does not look at the counter (the abstract lock therefore counts Paused as in business).
* `restructure_session.rs:4-6` says the vault is Restructuring while the session exists; an abort
  that strands purchases keeps the session as their manifest (`SessionMatchesStatus` states what
  holds).
* `lib.rs:117-118` opens the unwinding of a withdrawal to anyone after 30 minutes, the sweep
  asks for 48 hours.
* `withdraw_claim_leg_in_kind.rs:123-125` says one leaves after 24 hours whatever happens, which a
  session with nothing to claim in kind (only USDC) does not until a moment without a basket
  change (hence the premises `funded # {}` of `ExitAlwaysOpen` and `sold` of `PaidInTheEnd`).

## 5. Theorems

All for every set of mints, baskets, feeds, investors, every amount, price, fee and timeout
allowed by the named assumptions of the modules (`MintAssumption`: finitely many mints, USDC not
among them; `SessionAssumption`, `WindowAssumption`, `DepositAssumption`, `WithdrawAssumption`:
batch limits positive, timeouts in their order; `NobodyAssumption`; `DeadSharesAssumption`;
`LedgerAssumption`, `FractionAssumption`: finitely many investors, amounts are naturals, a vault
with shares has dead ones, fees and haircuts are fractions;
`FeedAssumption`, `BasketAssumption`: a basket is a short sequence of distinct mints).

* **VaultLifecycle_proofs** -- lemmas for the compositions. That off-table value is announced,
  that the manifest is complete and that status and session agree are inductive only together
  (`VisibleBut(X)`, for any set `X` of tokens set aside): the flag is lowered on the word of the
  manifest, so completeness of the manifest is what keeps the flag right; a new basket change
  starts from an empty manifest only because a session outside `Restructuring` means a raised
  flag, which bars it.
* **EntryControl_proofs** -- `TypeCorrect`, `CommitmentExact`, `CommitmentIrrevocable`,
  `LockImplemented`. The inductive invariant adds to the exact counter why a committed session
  cannot turn back (complete, never stale, all swept legs landed) and `LockedStatus`: the
  statuses entered through a guard on the counter never hold a commitment. The last is what
  rules out a basket change being *settled* while a session is committed, which its own guards
  do not mention. `LockImplemented` needs in addition that no step both changes the
  arrangement and moves the lock. `RestructuringHasSession` is `SessionMatchesStatus` for the
  composition. `ReservationSuffices` is the nonlinear argument that a floor of a smaller product
  is no larger, over the branches of the mint formula (for a vault that has shares and a deposit
  of at least `MIN_INITIAL_SHARES`). `ReleaseNeedsFreeze` is `ReleaseOnlyIfStuck`: of all steps only
  force release takes a committed session off the lock without ending it. `DepositsLandOnTable` is
  `UntiedLandsOnTable`, from an invariant of deposits (`TableInv`): the legs of a session that is
  neither stale nor tied are in the table the vault has, whatever changed it since.
* **ExitControl_proofs** -- `ExitTypeCorrect`; `ExtractionIsFinal`, `ExitChoiceKept`,
  `NothingLeft`, `ReturnsAssumed`. The invariant of one session
  (`SessionSound`): tokens are only in escrows that are not closed, never of a mint that is in
  the table without a weight, only of unsold legs if sales consume theirs, and whoever took
  value out has `sold` set and is not unwinding.
  `BurnedSharesExact` is `BurnedExact`: every step moves the counter and one entry of the sum by
  the same amount. That the set summed over is finite is part of the invariant (`BurnedInv`) and
  not an assumption on `Investor`: it is empty at first and grows by one session at a time.
* **Wagon_proofs** -- `WagonIsEntryControl`, `WagonIsExitControl`: the vault in which both sides
  are the program implements either specification, for any number of investors and any baskets.
  EntryControl assumes what withdrawals do, ExitControl what deposits do, and each discharges the
  other's assumption; the argument is not circular because a side needs the other's invariant
  only in the state a step starts from, and one inductive invariant (`WagonInv`: `IInv`,
  `TableInv` and `Sound`) carries both. From EntryControl comes that an untied deposit lands in
  the table and mints in an Active vault only, from ExitControl that a withdrawal does no more
  than `WithdrawReturns`. The theorems of the two sides then hold of the whole: `WagonLocks`
  (`IsCommitLock`, `ReservationCoversMint`, `SessionMatchesStatus`). `WagonAnnounces`
  (`OffTableIsFlagged`, `ManifestCovers`, `UntiedLandsOnTable`, `EntrySeesAllValue`) has no
  premise on ties or sales. It is the induction of `VisibleBut` with `strays` for `X`, which
  changes while the steps are taken: `NextAnnounces` shows that each step either lands on the
  table, or raises the flag and is listed, or is one of the two landings that `Remember` adds to
  `strays`, and that what leaves `strays` is no longer off the table. `Remember` sets `strays`
  after every step and guards none, and each step is one of the vault without it
  (`HistoryIsIdle`). `WagonClosedOwesNobody` needs both sides: `LockedStatus` says that a closed
  vault has no committed deposit, and `UnseededInv` that shares and withdrawals exist only where
  a deposit has settled, so that the dead shares keep such a vault from being finalized.
* **Arithmetic_proofs** -- lemmas about `SumOver` and the pure arithmetic. The library's induction
  theorems take an operator as a parameter, which the provers cannot instantiate;
  `SubsetInduction` states induction over the subsets of a finite set with a *set* of subsets in
  the place of the operator, and that suffices for the recursion equation, and from it for
  `SumCongruent` and `SumChange`: the sum moves by what its one changed entry moves by. Of division,
  saturating subtraction, the reservation and the mint formula: what they return and bound.
  `PhantomCovers`: a reservation covers every mint priced by the same mark, over the branches of
  the formula. `MintAtPrice`: what buys a whole share is minted at the price or below it.
* **ShareLedger_proofs** -- `LedgerTypeCorrect` (no balance goes below zero: a slice is at most
  the balance it is taken from, because the burn is at most `total_shares`, hence at most the
  denominator), `NoBasisWithoutShares`, `AggregateStaysCapped`.
* **ShareBooks_proofs** -- `SupplyIsExact`, `CostBasisIsExact`, `CountersAreExact`, `SeededStays`,
  `NobodyIsDiluted`: the rest of what `ledger` checks, for any number of investors and sessions.
  A step of one investor leaves the others' positions and sessions alone, so every sum moves by
  one entry (`SumsOfStep`). The inductive invariant `BooksInv` joins:
  - `Shaped`: a session's flags come in order, what arrived never exceeds what was paid, and a
    session that has neither landed anything nor turned back still has all it bought;
  - `CommitsCounted`: without a commitment the counter and the reservation are zero, with one
    they are 1 and *its* reservation. The mark of a committed session never changes, which is why
    settle and release give back what the commit took;
  - `BurnsCounted`, with the bound that lets the two words be read back (`StoredExact`);
  - `DeadFirst` and `FirstIsAlone`: no share, withdrawal or price is older than the dead shares,
    and a deposit that committed to a vault without shares finds it so. Without them a first
    deposit could be minted one share per USDC next to others.

  `NobodyIsDiluted` compares products of `Pool` and `Claims`. A withdrawal takes at most its part
  of a pool that counts everything in flight (`FairSlice`; the two slices of one burn are together
  at most one slice of the sum, `SlicesFit`). The claims of a commit rise by at most the price of
  what the pool gains (`FairMint`, from `MintAtPrice`), because without unwinding withdrawals the
  live price *is* `Pool / Claims`. A slice is taken over the reservation, not over what will
  really be minted, and `OwedIsReserved` says that this only errs in favour of those who stay.
* **PriceBook_proofs** -- `RegistryCorrect`, `RegistryIsMap`, `BookTypeCorrect`,
  `CachesNeverStale`. In the registry, that mints are listed once makes "the first slot that
  fits" be "the slot", so that moving the last entry into the gap removes one mint and moves
  none. For the book, the plan of a basket change must be a basket (`BookInv`), so that the
  settled table has each mint once and every inherited price comes from that mint's slot.

Only model-checked: the liveness properties (`CommittedResolves`, `AbandonedCleared`,
`RestructureEnds`, `ExitAlwaysOpen`, `PaidInTheEnd`, `OrphanCleared`). The prover supports neither
fairness nor `ENABLED`. Every other property of a passing run is a theorem, those of a
violated run are not theorems of course, and the premises under which a theorem holds are those
of the run that checks it.

## 6. Not modelled, and why

* Amounts in the composition of all parts: Wagon has mints, ShareLedger has amounts, and nothing
  but the shared formulas of ShareMath relates the two.
* Amounts under changing prices and several legs: ShareLedger has one lump at constant prices. A
  price that moves between two steps changes what a share is worth without anyone's step, and
  `NoDilution` is about steps.
* `claim_creator_rewards` (pays out of an account of its own), the fee and cap setters (parameters
  that are constants here).
* The decoding of oracle accounts, staleness and confidence limits, and the fixed-point
  arithmetic of a price: one-shot computations over external data.
* Price floors of swaps, rescue and sweep; the argument checks of `create_vault`, Token-2022
  extension checks, account validation, metadata, events, errors, `mock-jupiter`: no state
  outlives the transaction, or pure I/O.

## 7. Plan

Done: all instructions of deposits, withdrawals and basket changes with the state they share, in
parts and as one vault that implements them, the ledger with its amounts, the feed registry, the
price caches, and a theorem for every safety and action property that the passing runs check.
What would add most next:

1. Several legs and moving prices in the ledger, with basket changes between a deposit's init and
   its settle.
2. The liveness properties on Wagon, whose fairness would be that of its two sides.
