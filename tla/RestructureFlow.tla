--------------------------- MODULE RestructureFlow --------------------------
(***************************************************************************)
(* The fractional basket change: restructure_init opens a session and      *)
(* closes the vault to entries, restructure_swap_batch sells outgoing and  *)
(* buys incoming mints in several transactions, and restructure_settle or  *)
(* restructure_abort ends it.  An abort that leaves bought mints outside   *)
(* the table quarantines the vault with the stranded flag and keeps the    *)
(* session as a manifest, until close_stranded or admin_clear_stranded.    *)
(***************************************************************************)
EXTENDS VaultState

CONSTANTS RestructureShort,  \* RESTRUCTURE_ABORT_SHORT_SECS
          RestructureLong    \* RESTRUCTURE_ABORT_TIMEOUT_SECS

ASSUME WindowAssumption ==
    /\ RestructureShort \in Nat /\ RestructureLong \in Nat
    /\ RestructureShort <= RestructureLong /\ RestructureLong < MaxAge

VARIABLE rs  \* the vault's RestructureSession account

NoRestructure == [open |-> FALSE, new |-> {}, sold |-> {}, bought |-> {}, age |-> 0]

RestructureSession == [open: BOOLEAN, new: SUBSET Mint, sold: SUBSET Mint,
                       bought: SUBSET Mint, age: 0..MaxAge]

\* Variant the runs reject: compares purchases with the new basket, not the live table.
StrandedMints_NewBasket == rs.bought \ rs.new

\* RestructureSession::stranded_mask against the live table.
StrandedMints == rs.bought \ table

RestructureInit(new) ==
    /\ ~protocolPaused
    /\ status = "Active"
    /\ Reorganisable
    /\ new \in Baskets
    /\ ~rs.open
    /\ rs' = [NoRestructure EXCEPT !.open = TRUE, !.new = new]
    /\ status' = "Restructuring"
    /\ UNCHANGED <<table, weighted, held, committed, pending, stranded, seeded, envVars>>

\* One transaction sells the outgoing mints `sells` and buys the incoming mints
\* `buys`; a sale need not consume the balance, `emptied` are the accounts it leaves empty.
RestructureSwapBatch(sells, buys, emptied) ==
    /\ status = "Restructuring"
    /\ rs.open
    /\ Cardinality(sells) + Cardinality(buys) \in 1..SwapBatch
    /\ sells \subseteq (table \ rs.sold) \cap (held \cup buys)
    /\ buys \subseteq rs.new \ rs.bought
    /\ buys \cap (table \ weighted) = {}
    /\ emptied \subseteq sells
    /\ \A m \in sells \cup buys \cup {USDC} : VaultMoves(m)
    /\ rs' = [rs EXCEPT !.sold = @ \cup sells, !.bought = @ \cup buys]
    /\ held' = (held \cup buys) \ emptied
    /\ UNCHANGED <<status, table, weighted, committed, pending, stranded, seeded, envVars>>

\* Variant the runs reject: writes the new table and keeps the weights of the old one.
RestructureSettle_OldWeights ==
    /\ status = "Restructuring"
    /\ rs.open
    /\ rs.new \ table \subseteq rs.bought
    /\ (table \ rs.new) \cap held = {}
    /\ table' = rs.new
    /\ status' = "Active"
    /\ rs' = NoRestructure
    /\ UNCHANGED <<weighted, held, committed, pending, stranded, seeded, envVars>>

RestructureSettle ==
    /\ status = "Restructuring"
    /\ rs.open
    /\ rs.new \ table \subseteq rs.bought
    /\ (table \ rs.new) \cap held = {}
    /\ table' = rs.new
    /\ weighted' = rs.new
    /\ status' = "Active"
    /\ rs' = NoRestructure
    /\ UNCHANGED <<held, committed, pending, stranded, seeded, envVars>>

AbortWindow == IF rs.bought = {} THEN RestructureShort ELSE RestructureLong

\* Variant the runs reject: only the creator may abort.
RestructureAbort_CreatorOnly(who) ==
    /\ status = "Restructuring"
    /\ rs.open
    /\ who = "creator"
    /\ status' = "Active"
    /\ stranded' = IF StrandedMints # {} THEN 1 ELSE stranded
    /\ rs' = IF StrandedMints # {} THEN rs ELSE NoRestructure
    /\ UNCHANGED <<table, weighted, held, committed, pending, seeded, envVars>>

RestructureAbort(who) ==
    /\ status = "Restructuring"
    /\ rs.open
    /\ who = "creator" \/ rs.age > AbortWindow
    /\ status' = "Active"
    /\ stranded' = IF StrandedMints # {} THEN 1 ELSE stranded
    /\ rs' = IF StrandedMints # {} THEN rs ELSE NoRestructure
    /\ UNCHANGED <<table, weighted, held, committed, pending, seeded, envVars>>

\* Variant the runs reject: closes the manifest without lowering the flag.
CloseStranded_FlagStays ==
    /\ stranded = 1
    /\ rs.open
    /\ StrandedMints \cap held = {}
    /\ rs' = NoRestructure
    /\ UNCHANGED <<vaultVars, envVars>>

\* Permissionless: every mint of the manifest has been sold off the vault.
CloseStranded ==
    /\ stranded = 1
    /\ rs.open
    /\ StrandedMints \cap held = {}
    /\ stranded' = 0
    /\ rs' = NoRestructure
    /\ UNCHANGED <<status, table, weighted, held, committed, pending, seeded, envVars>>

\* What the protocol authority checks off chain before it signs: no account
\* outside the table holds value.  The program takes its word for it.
AuthorityAttests == held \subseteq table

\* Variant the runs reject: lowers the flag and forgets the manifest.
AdminClearStranded_KeepsManifest ==
    /\ stranded # 0
    /\ AuthorityAttests
    /\ stranded' = 0
    /\ UNCHANGED <<status, table, weighted, held, committed, pending, seeded, rs, envVars>>

AdminClearStranded ==
    /\ stranded # 0
    /\ AuthorityAttests
    /\ stranded' = 0
    /\ rs' = NoRestructure
    /\ UNCHANGED <<status, table, weighted, held, committed, pending, seeded, envVars>>

\* rescue_untracked_token sells a mint outside the table to USDC; a partial sale
\* changes nothing the model sees.
RescueUntracked(m) ==
    /\ status # "Restructuring"
    /\ m \in held \ table
    /\ VaultMoves(m) /\ VaultMoves(USDC)
    /\ held' = held \ {m}
    /\ UNCHANGED <<status, table, weighted, committed, pending, stranded, seeded, rs, envVars>>
=============================================================================
