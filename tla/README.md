# test-app-pkcs11 in TLA+

A verification project for the federated-wallet application in this
repository: a web application (axum, tokio, Postgres) that gives every user an
n-of-n multisig wallet on Bitcoin and on Elements, with keys that live in
PKCS#11 tokens, and an operator's tool that moves all wallets from one
federation of tokens to another.

The modules model the control of the code (every state change, guard, error
path and the order they happen in) and abstract its data: keys are path
indexes, federations, coins and transactions are model values.  `PROJECT.json`
maps each definition to the lines it stands for.

## Inventory

| Part | State | Operations | Shared with |
|---|---|---|---|
| `HsmFleet` (`src/hsm.rs`) | signer cache, one entry per user | `signers_for` | both wallet managers |
| `WalletManager`, `ElementsWalletManager` | wallet cache; rows of `wallets`, `elements_wallets` | `load_or_init`, `ensure_wallet_for_user(_at)`, build, rebind | requests, boot, the tool |
| Boot (`src/main.rs`) | position in the seeding loops | seed Bitcoin, seed Elements, bind the listener | HSM fleet, tables |
| Federation versions (`src/wallet.rs`, `src/db.rs`) | `federation_versions` rows with `migration_status`, sweep txid | bootstrap, reconstruct latest, rebind the row | app and tool |
| `UserWallet` (`src/wallet.rs`) | `inner`, one wallet per version, aggregate changeset, `bdk_changeset` column | `sync`, `persist_sync`, `reveal_addresses`, `reconcile_reverted_migrations`, sends | requests and sockets of one user |
| Migration tool (`examples/federation_migration.rs`) | locals of one run | discover, plan, record versions, sweep, mark; a Bitcoin and an Elements half | tables, chain |
| Elements ingestion (`src/elements_ingest.rs`, `src/elements_sync.rs`) | `elements_blocks`, `elements_sync_cursor`, `elements_utxos` | load versions, scan, roll back, capture, mark spent, move the cursor | the tool and the app record versions, sends read the coins |
| Sends (`src/wallet.rs`, `src/elements_wallet.rs`) | `transactions`, `elements_transactions` | build, sign, broadcast, insert | wallets, captured coins |
| Live socket (`src/handlers/ws.rs`) | subscriptions, pushes | subscribe, sync on event, push | `UserWallet` |
| Sessions, configuration, pages | - | library sessions, parsing, rendering | - |

Components interact through three things: the tables (no transaction spans two
statements anywhere in the code), the in-memory caches behind tokio locks that
are released between steps, and the chain.  What is hard is accordingly:

- two requests, a request and boot, or the app and the tool between two steps
  of the same operation;
- values read, then used after seconds of key derivation or a network call;
- errors, dropped requests and crashes between two statements;
- reorganisations, with a sweep already recorded as complete;
- a tool that can be stopped and run again at any point.

The properties that make each part correct: wallets never share keys and a
served wallet is the stored one (provisioning); no coin is ever at a federation
nobody recorded, and "complete" means empty (migration); the stored changeset
is a prefix of the chain, and a completed migration is reverted exactly when
its sweep is gone (sync); no send displaces an earlier payment and the ledger
only has payments that were made (sends); every payment to a watched address is
shown (socket); the captured coins are those of the chain (ingest).
`PROJECT.json` lists the hazards at their lines.

## Modules

| Module | Models | Proofs |
|---|---|---|
| `WalletProvisioning` | first use, seeding, caches and restart of both chains | `WalletProvisioningProofs`, `WalletIsolationProofs` |
| `FederationVersions` | the stored versions of an account and the statements that change their status, for both halves of the tool | - |
| `FederationMigration` | the Bitcoin half of the tool and the app beside it | `FederationMigrationProofs` |
| `ElementsMigration` | the Elements half, the app and the captured coins beside it | `ElementsMigrationProofs` |
| `WalletSync` | sync, persistence, reveal and reconciliation of one user's wallet | `WalletSyncProofs` |
| `ElementsIngest` | the ingestion loop, its stores, versions recorded and sends | `ElementsIngestProofs` |
| `SendPipeline` | the Bitcoin sends of one user, from the sync to the ledger row | `SendPipelineProofs` |
| `PaymentLedger` | abstract: what the sends of a wallet promise; `SendPipeline` and `ElementsIngest` implement it | - |
| `WatchSession` | the live-balance sockets of one user | `WatchSessionProofs` |
| `MC...` | finite instances of the module of that name for TLC | - |

### WalletProvisioning

A signer set is the account index of the path it was derived at (the tokens
hold one seed each, so the index is all that tells wallets of one chain apart);
a descriptor is the index of the signers it was built from, its `key`.  A task
is one run of `load_or_init`; its steps are the awaits of the code:

| Action | Code |
|---|---|
| `StartRequest`, `StartSeed` | cache miss in `load_or_init`; the next turn of a seeding loop |
| `FindWallet`, `AllocIdx` | `find_wallet_for_user`, `next_account_idx` |
| `SignersCached`, `DeriveSigners` | the two halves of `signers_for`, the lock released in between |
| `InsertWallet` | `insert_wallet`, with both UNIQUE constraints |
| `BuildWallet`, `RecordVersion`, `PublishWallet` | rebuild and rebind, bootstrap of version 0, `cache.entry().or_insert` |
| `Abandon` | an error at any await, or a request dropped with its client |
| `Restart` | the process dies and boots again |

`RecordVersion` drops any error of its insert, as the code does, and the wallet
is served without a version 0; nothing in this module reads that row, what the
omission leads to is in the two migration modules (`BootFaults`).
That a derivation yields the keys of its path is external (`Pkcs11Signer`).
`build_federated_wallet` reads the stored versions twice in one load; the model
reads them once.

### FederationMigration

A coin is an account, a federation and the number of the transaction that made
it.  `LoadAccount` to `MarkAccount` follow `main` of the tool from the first
`load_wallet_from_row` to the last update; `EndRun` is every exit, a declined
prompt, an error, a dry run, the end, or a crash.  Each statement whose error
the tool only logs may be left out.  The shape of the sweep plan is computed by
a library: `SweepCustomers` takes any batch of the customers left, so every
plan is covered.  The app's part is `AppLoad`, `AppSend`, `AppRestart`; a
`Deposit` may go to any address ever shown.  `AppSend` is Send-Max; a send that
keeps change is Send-Max and a deposit of the change.  `StartRun` takes any
target that is not an older version of some account: rotations do not go back.
`LoadWallet` records version 0 for an account that has none; the code drops the
error of that insert (`src/wallet.rs:535`) and serves the wallet all the same,
which `BootFaults` allows here as in `ElementsMigration`.
The ledger rows the tool writes with errors ignored, prompts and display are
left out.  `new_is_same` of the code compares signers and threshold and not the
script type; a federation value stands for both.

### ElementsMigration

Same layout, different things trusted.  `utxos` is the chain, `captured` the
unspent rows of `elements_utxos`, and the tool sees only the latter, twice:
when it looks whether there is anything (`funded`) and when it plans.  `bound`
is the descriptor each wallet had when the run loaded it, `dest` the federation
and version index resolved for it before Step 1.

| Action | Code |
|---|---|
| `LoadAccount`, `ResolveAccount` | discovery; `new_feds`, the latest version with `--sweep-only` |
| `InsertVersion`, `SetPending` | Step 1, an insert that fails ends the run, an update that fails does not |
| `ReadCoins` | Step 2 before its transactions |
| `SweepCustomers`, `SweepFeeAccount` | the batched strategy and its chained change |
| `SweepAll` | the account-for-account strategy, one transaction |
| `MismatchedInput` | an input that the loaded descriptor does not match |
| `MarkAccount`, `EndRun` | the updates of the versions below the highest; every exit |
| `IngestPaid`, `IngestSpent` | all that `ElementsIngest` does, seen from here |

That an input is only spent with the descriptor of its script is the libraries'
doing (the comment at `src/elements_wallet.rs:457` relies on it).  The prompts
are part of `EndRun`; "Nothing to do" compares the target with the
application's configuration and is the guard of `StartRun`.  `handed`
over-approximates what the app serves: it may use any wallet it ever loaded.
`elements_wallets.descriptor` is a copy of what `Bound` gives and is not kept.
`CompleteMeansSwept` speaks of the coins captured when Step 2 began and of
those the run made: the tool knows of no others, so deposits, or outputs of an
earlier run, that are not captured by then may stay behind at a version marked
complete.

### WalletSync

A BDK wallet is its changeset (checkpoint, confirmed transactions, how many
receive addresses are revealed: none, the first, all that a page shows) and
what it saw of the mempool.  A task is one `sync`, with `reveal_addresses`
after it for a receive page:

| Action | Code |
|---|---|
| `Start` | the dispatch of `sync` on the backend: `emitter` is bitcoind, `revealed` Esplora and Electrum |
| `reveal_version_wallets_to_inner` | the version wallets follow `inner` before a sync that looks at revealed addresses only |
| `SyncVersion`, `SyncInner` | the loop over `version_wallets`, then `inner` under its lock; `any_reorg` |
| `MergeDelta`, `WriteChangeset` | `persist_sync`: under the aggregate's lock, then the UPDATE after it is released |
| `ListCompleted`, `CheckPresence`, `Revert` | `reconcile_reverted_migrations` and its guarded UPDATE |
| `Reveal` | `reveal_addresses` |
| `Abort`, `Restart` | an error or dropped request at an await; the process, whose first load after a migration rebinds the row (`Rebound`) |
| `BroadcastSweep`, `MarkComplete` | the tool, as far as reconciliation sees it |

The sync of one wallet, merging and staging are external (BDK, the emvault
crates); what is assumed is that a sync goes on from the newest checkpoint if
that is on the best chain and rebuilds from genesis if not, the emitter with the
blocks after it, the other backends with the histories of revealed addresses
(`Visible`).  `chain_tip_height` and unconfirmed transactions in the changeset
are left out.  `ToolOverlaps = FALSE` means that the operator runs the tool
while the application is quiet.

Three history variables carry the conditions of the properties.  `shown`: the
addresses have been on a page.  `lost`: `inner` knew the sweep as confirmed when
it was reorganised out for good.  `dropped`: a sync, or the saving of a reveal,
was cut short.  A rebound `inner` is a new wallet without a checkpoint: an
eviction before its first sync is nothing it could notice, so `lost` is cleared.

### SendPipeline and PaymentLedger

`PaymentLedger` has three variables, the payments that stand, those the network
ever took, and the ledger rows, and promises two things: taking a payment never
removes another one of the wallet, and a row is only written for a payment that
was taken.  It does not promise that a row is written.  In `SendPipeline` the
mapping is `Live` and `Taken` of the fate of each payment, in `ElementsIngest`
the spends in pool and chain and the history `shipped`.

A coin is a deposit or the change of a payment.  A payment is its inputs and
the internal index its change goes to (0: none); of the changeset only the last
revealed internal index is kept, because that decides whether change is found.

| Action | Code |
|---|---|
| `Start` | `send_post`, with an amount or Send-Max, or `max_spend` |
| `SyncVersions`, `SyncInner` | the sync before every send; the coins behind the balance of the page, and what `inner` then knows |
| `MergeDelta`, `WriteChangeset` | of the sync, and again of the build, before the broadcast |
| `build_sign_and_broadcast`, `sweep_to` (`BuildTx`) | build, sign, finalise, take the staged delta, under `inner`'s lock; the transaction is not put into the wallet |
| `compute_drain_amount` | the preview of the Max button |
| `BuildFails` | bad input, too little money, a token that does not sign: the change address stays revealed and staged |
| `Broadcast`, `LateArrive` | accepted, refused, accepted with the answer lost, or dropped while a blocking thread sends it |
| `InsertLedger`, `Abort`, `Restart` | the row; an error or dropped request; the process |

External: the node takes a transaction whose inputs exist and are unspent by
confirmed ones, and one that conflicts with the mempool when it pays more (BDK's
transactions signal replaceability); BDK recognises change up to `Lookahead`
indexes beyond the last revealed one and gives change the least index that no
transaction in the wallet uses, which is what the comment at
`src/wallet.rs:1924` relies on.

### WatchSession

One variable per party: what has happened on chain per script, what the wallet
knows since its last sync, the references that `WatchPool` counts, and the
sessions with their receiver and `last_sent`.

| Action | Code |
|---|---|
| `Connect` | `drive`; `watched_scripts` are fixed for the session |
| `Watch`, `Updates` | one `pool.watch` per script, then the receiver |
| `Sync`, `SyncFails`, `Push` | `sync_and_push`, three awaits |
| `Recv`, `Tick` | the branches of the two `select!` loops, `Lagged` included |
| `Leave`, `Unwatch` | every way out of a loop, and one `pool.unwatch` per script, whose error is only logged: the reference stays and the history `leaked` counts it |
| `Deliver`, `Received` | external: `WatchPool` and its broadcast channel |

### ElementsIngest

`utxos` is `elements_utxos` (height and spent height of a coin), `blocks` and
`cursor` the other two tables.  One ingestion task; every statement of a
rollback and every call per block is a step, and a call of several statements
can stop half way.  `BlockScanEngine` itself is not in the repository.  Assumed
of it: it rolls coins back before blocks, it takes a stored block without a row
for a mismatch when it looks for the fork, it scans a block only if it follows
the cursor, and it moves the cursor after each block ("the last fully-scanned
tip", `migrations/0007`).

The node's chain is the best of a tree.  `stale` has the branches that were
best before, and `Reorg` goes on from any block of these or of the best chain,
so the node may also return to a branch it had left; transactions come back to
the mempool or are dropped.  The history `undoing` is true from the moment a
pass finds the cursor off the best chain until a rollback has reset it.  Three
constants allow what the code does not withstand, and the runs leave them off:

- `LateVersions`: a version is recorded while a pass runs (shown by
  `ingest_lateversion`);
- `TornReorg`: a block is reorganised away after some of its rows were written
  and before the cursor reached it;
- `TornReturn`: a stored block comes back to the best chain while a rollback is
  under way or was cut short.  The rollback has no transaction: its coin rows
  are deleted first and the cursor is reset last (`src/elements_sync.rs:497`,
  `:189`), and once the cursor is on the best chain again nothing captures the
  deleted rows.

Sends select from captured, unspent coins and know nothing of the mempool.  A
send is the set of its inputs and is one of four kinds, each an action: an
amount of the policy asset, an amount of an asset (with coins of the policy
asset for the fee), all of an asset, and everything.
A request dropped while its blocking thread broadcasts leaves a spend without a
ledger row, like an insert that fails.

What the node does with a spend (`Spendable`, `Taken`) is external.  It takes
what spends unspent coins; whether it also lets a spend replace one in its
mempool is the constant `Replaces`.  For Bitcoin `SendPipeline` assumes that it
does, since BDK's transactions signal it.  For Elements the repository sets no
sequence numbers and no replacement policy, the libraries that build the
transaction do: `Replaces = FALSE` is the case in which the promise of
`PaymentLedger` can be kept at all, `TRUE` the one in which a second send pushes
out the first.

## Runs

`cd tla; tlc -workers 2 -config X.cfg M`.  Deadlock is not checked anywhere:
all bounds are on what the environment does, and the system may then rest.

| Run | Instance | Shows |
|---|---|---|
| `provisioning_faults` | 1 user, 2 requests, seeding with errors, 1 restart | type invariant, `ServedWalletIsPersisted`, and under fairness `TasksComplete`, `ServerComesUp` |
| `provisioning_seeded` | 3 users, 2 requests, 1 restart, no error while seeding | `KeyIsolation`, `KeyMatchesAccount`, `DescriptorStable` |
| `provisioning_isolation` | 2 users, no seeding | violated: `KeyIsolation` |
| `migration_single` | 2 accounts, 3 federations, 2 runs, 2 deposits | type invariant, `FundsTracked`, `CompleteMeansSwept`, `LatestNotApplicable` |
| `migration_rerun` | 1 account, 2 runs | violated: `NothingToDoMeansMigrated` |
| `elements_migration` | 2 accounts, 3 federations, 2 runs (full and batched, or `--sweep-only` in one transaction), 2 deposits | type invariant, `FundsTracked`, `CompleteMeansSwept` |
| `elements_sweeponly` | 2 accounts, 2 federations, 2 runs | violated: `SweepOnlyResumes` |
| `sync_sequential` | 1 task, both kinds of backend, errors, 4 blocks, 1 reorg, 1 restart | type invariant, `PersistedCoversTip`, `NoPhantom`, `RevealDurable`, `EvictedSweepReverted`, `NoFalseRevert` |
| `ingest_store` | 2 versions, 2 coins, 1 sender, 5 blocks, 2 reorgs, 1 fault | type invariant, `StoreMatchesChain`, `ImplementsLedger`, and under fairness `CatchesUp` |
| `ingest_lateversion` | versions may be recorded during a pass | violated: `FundsCaptured` |
| `send_sequential` | 1 request at a time, 2 deposits, 3 payments, 1 lost write, 1 restart | type invariant, `ChangeFound`, `SendMaxDrains`, `ImplementsLedger` |
| `watch_sessions` | 2 sessions, 2 scripts, both loops, a buffer of 1, 1 failing `unwatch` per script | type invariant, `SubscriptionsHeld`, `NoLostWakeup`, and under fairness `PaymentShown` |

Bounds.  Two requests are enough for every race on one cache entry or one
index, two users or three for sharing keys; with one user the cross-chain race
(one signer cache serves both chains) is still there, because the admin's
reserved index differs from the next free one.  Two runs of the tool are a run
and its repetition, three federations let the second run be a further rotation,
and two accounts are the fee account and a customer, which the sweep treats
differently.  `elements_migration` gives a run one of two modes, so that both
strategies and both kinds of run occur, not each combination, and leaves out
the updates to `complete` that fail (`MarkFaults`): fewer versions are then
complete, which only makes the property weaker.
In `sync_sequential` a reorganisation replaces one block by two, the shortest
that changes the best chain.  In `ingest_store` it replaces any number of blocks
by one more; five blocks and two reorganisations are the least with which the
node returns to a branch it had left, which takes a block, two that replace it,
and two more on top of the first.  The one sender sends again and again, so two
spends of one coin occur, one after the other; requests that overlap are in the
theorem.  `sync_sequential` has one version wallet beside `inner`, enough for a
reorganisation between the syncs of two wallets; it also passes with
`Versions = 2` (13 million states).  Three payments in `send_sequential` are a
payment, its repetition and one that spends the change; with one index of
lookahead the row may fall one behind, which one lost write does.  In
`watch_sessions` two sessions and two scripts overrun a buffer of one and share
a script while one of them leaves; it also passes with one script and
`MaxChanges = 2`, a payment and its confirmation.  Symmetry is used for interchangeable
requests, tasks, deposits, invocations and target federations, never in a run
with a liveness property.

Fairness.  `WalletProvisioning`: weak fairness of each task's step and of the
seeding loop, which is what the tokio runtime gives; a request need not arrive
and a restart need not happen.  `ElementsIngest`: weak fairness of the
ingestion loop, whose sleep always ends.  `WatchSession`: weak fairness of each
socket's task and of the server's notifications, strong fairness of its sync: a
backend that fails ("a transient backend hiccup", `src/handlers/ws.rs:68`) does
not fail for ever.  A client need not stay or leave.  The other modules state no
liveness.

### What the runs found

`provisioning_isolation`: `signers_for` ignores the path it is given once the
user has an entry; a first request that lost the race for an index retries with
another index and the keys of the first, which now belong to someone else.
`migration_rerun`: declining Step 2 and running the tool again, as it advises,
ends with "Nothing to do" and the funds left behind.
`elements_sweeponly`: declining Step 2 of the Elements half and resuming with
`--sweep-only` loads wallets that Step 1 already bound to the new version; the
old coins do not match their descriptors and the resumed run stops.
`ingest_lateversion`: the scripts are loaded once per pass, the cursor is shared
by all wallets; a version recorded and paid in between is passed over for good.

Each passing run also has an assumption whose removal breaks it; change the one
constant and TLC shows how:

| Configuration | Change | Then |
|---|---|---|
| `MC_provisioning_seeded` | `Faults = TRUE` | signers cached by a seeding step that failed are used with another index: `KeyMatchesAccount` |
| `MC_migration_single` | `AllowSweepOnly = TRUE` | funds are swept to a federation no account has a version of: `FundsTracked` |
| `MC_migration_single` | `AllowSweepOnly = TRUE`, of the invariants only `CompleteMeansSwept` | the target has no version, so the fee account's second to last version is not the one its coins are at, and the change of the sweep goes to a version that an earlier run marked complete |
| `MC_migration_single` | `Tools = {t1, t2}` | one invocation records its target for the first account while another, started with the current federation as its target, is about to look: it finds a difference and records the current federation once more, and what it sweeps there also lies at the older entry, marked complete: `CompleteMeansSwept` |
| `MC_migration_single` | `SyncFaults = TRUE` | an account whose sync failed is marked complete with its coins at the old federation: `CompleteMeansSwept` |
| `MC_migration_single` | `BootFaults = TRUE` | a wallet is served although its version 0 was not recorded: a deposit lies at a federation no row names (`FundsTracked`); Step 1 records the target as the only version of one account, a run back to the configured federation then takes it for a change and records it once more for the other, and the older entry is marked complete with coins at it (`CompleteMeansSwept`) |
| `MC_elements_migration` | `BootFaults = TRUE` | a wallet is served although its version 0 was not recorded; nothing watches its addresses: `FundsTracked` |
| `MC_elements_migration` | `Tools = {t1, t2}` | another invocation appended a version, so the destination of a finished sweep is below the highest index and is marked complete: `CompleteMeansSwept` |
| `MC_sync_sequential` | `Tasks = {t1, t2}` | a checkpoint is stored without the transactions below it (`PersistedCoversTip`); `inner`'s lock is released before the aggregate's is taken, so a delta from before a reorg is merged after the changeset was replaced (`NoPhantom`); an older json is written last and a reveal is gone (`RevealDurable`), after which a restarted wallet scans nothing and a healthy migration is reverted (`NoFalseRevert`); a version wallet synced before the sweep was mined keeps it in its view of the mempool and hides the eviction (`EvictedSweepReverted`, with `Deposits = {}` to keep it small) |
| `MC_sync_sequential` | `ToolOverlaps = TRUE` | a sweep broadcast and recorded between sync and reconcile is taken for evicted: `NoFalseRevert` |
| `MC_sync_sequential` | `MaxRestarts = 2` | the reorg falls between the syncs of two wallets, and a restart discards the one that had still to report it: `EvictedSweepReverted` |
| `MC_sync_sequential` | `MaxReorgs = 2`, `MaxBlocks = 6` (`Deposits = {}`, `MaxRestarts = 0` and no errors keep it small) | the first reorganisation puts the sweep back into the mempool, where a version wallet sees it; it is mined and lost for good before `inner` is synced again, and that version wallet's graph hides the loss when `inner` reports the reorg: `EvictedSweepReverted` |
| `MC_sync_sequential` | drop `"sync" \notin dropped` from `EvictedSweepReverted` | an error after the rebuild loses `any_reorg`, which no later sync sets again |
| `MC_send_sequential` | `Tasks = {t1, t2}` | two sends build on the same coin and the one that pays more replaces the other, which may have its row already: `ImplementsLedger` |
| `MC_send_sequential` | `LateOverlaps = TRUE` | the transaction of a dropped request arrives after the next send and replaces it: `ImplementsLedger` |
| `MC_send_sequential` | `OldDeposits = {d1}` | the balance adds up all versions, Send-Max drains the current one only: `SendMaxDrains` |
| `MC_send_sequential` | `MaxLostWrites = 3` | a failed write is not repeated while nothing new is staged, and the row falls behind by more than the lookahead of 1 (BDK's is 25): `ChangeFound` |
| `MC_watch_sessions` | `SyncFaults <- MCBoth` | a sync that fails in the event-driven loop is not retried until another update comes: `PaymentShown` |
| `MC_watch_sessions` | `WatchFaults = TRUE` | a session whose `watch` failed still calls `unwatch` and takes the reference of another: `SubscriptionsHeld` |
| `MC_watch_sessions` | `SyncFaults <- MCBoth`, only `NoLostWakeup` | the first sync fails: the session waits with nothing pushed and nothing on its way |
| `MC_ingest_store` | `TornReorg = TRUE` | a row written before the cursor moved, of a block then reorganised away, stays: `StoreMatchesChain` |
| `MC_ingest_store` | `TornReturn = TRUE` | a rollback deletes the coin rows and is cut short, the node goes back to the old branch, the cursor is on the best chain again and the rows are gone for good: `StoreMatchesChain` |
| `MC_ingest_store` | `LateVersions = TRUE` | the pass has not loaded the scripts of the version: `StoreMatchesChain` |
| `MC_ingest_store` | `Replaces = TRUE` | a send that spends the same captured coin pushes an earlier one out of the mempool: `ImplementsLedger` |

Nothing in the code writes the status `in_progress`, so the tool's check for it
never fires and two invocations may sweep together; the theorems below are for
any number of overlapping invocations.

## Proofs

TLAPS proves, for all values of the constants that satisfy the ASSUMEs:

- `TypeCorrect` (`WalletProvisioning`): `TypeOK`.  `TypeInv` adds what each
  task knows at its place (`TaskOK`: from which step on it has an index and a
  key; the boot task runs only while the listener is not bound, has no key and
  never builds a wallet to serve) and that each table has a highest index.
- `ServedPersisted`: `ServedWalletIsPersisted` with no further hypothesis, with
  or without seeding.  `ServedInv` follows the wallet from the row to the
  cache: the key a task holds is in the row, or the row already has the key of
  the cached signers (`HandOK`).  A Bitcoin row may be rewritten under a served
  wallet, but only to the key of the user's cached signers, and while the
  process lives those are the ones the served wallet was built with
  (`ServedOK`).  Keys may be shared; what is served is stored all the same.
- `SeededKeyIsolation`, `SeededKeyMatchesAccount`, `SeededDescriptorStable`:
  with eager seeding (`EagerSeed`) and no error during it (`~Faults`), for any
  number of users, requests, dropped requests and restarts.  `SeededInv` says
  that every row has the index and the keys of its user's place in the seeding
  order, that a cached signer set is that user's or absent, the same of each
  task's locals, and that the seeded steps are a prefix of the order that
  covers everything behind boot's position.  Without the part on the signer
  cache none of the three is inductive, and it is the part that lazy
  provisioning breaks.
- `MigrationTypeCorrect`, `MigrationFundsTracked`,
  `MigrationLatestNotApplicable`: without `--sweep-only`, for any accounts,
  federations and overlapping invocations that stop anywhere; the second also
  with version 0 recorded at the first load (`~BootFaults`).  `TrackInv` says of
  each invocation that its target is recorded for every account it has passed in
  Step 1 and for all of them from the prompt of Step 2 on, that the version
  index it read is below the number of versions there are, and that the fee
  account's old federation is recorded while it sweeps; and with `~BootFaults`
  that every federation handed out is recorded.
- `MigrationCompleteMeansSwept`: for one invocation at a time (`OneTool`),
  without `--sweep-only`, with syncs and inserts of version 0 that succeed
  (`~SyncFaults`, `~BootFaults`); each of the four is needed, see the table
  above.  `SweptInv` follows every coin a
  run owes a sweep (`Due`: not a deposit, or there when the run was started)
  through the stages of `main`: in the plan once its account is loaded, which
  takes `FundsTracked`; in the plan, the chained change or at the newest
  version while it sweeps; at the newest version when it marks.  That a coin at
  the newest version is not at one marked complete takes `Distinct`, no
  federation twice in an account.  This is kept by the comparison with the
  first account only, because the first account is the first in Step 1 and so
  has every federation that any account has (`VersionsOK`).  The change goes to
  the version before the newest, which nobody has marked yet (`PrevOpen`).
- `ElementsTypeCorrect`, `ElementsFundsTracked` (`~BootFaults`, any overlapping
  invocations, `--sweep-only` and both strategies) and
  `ElementsCompleteMeansSwept` (`OneTool`).  `TrackInv`: what a run has bound
  or resolved for an account is recorded from the stage on at which it may pay
  to it.  `SweepInv`: a coin the run knows of is captured until it is read,
  then planned until it is spent, and at the newest version when versions are
  marked.
- `SyncTypeCorrect` for any tasks; `SyncPersistedCoversTip`, `SyncNoPhantom`,
  `SyncRevealDurable` for one task at a time (`OneTask`); `SyncNoFalseRevert`
  if the tool is also run while the application is quiet (`~ToolOverlaps`).
  Any versions, deposits, blocks, reorganisations, restarts and faults.
  `StoredInv`: row and `inner` are faithful to the chain below their checkpoint
  (`Faithful`), the aggregate is `inner`'s changeset but for the one delta a
  task has in hand (`MemInv`, false with two tasks), and a reveal is stored or
  about to be.  `SightInv`: from the sync of `inner` to the revert, a sweep
  that stands is known to `inner`.
- `SyncNoFalseRevertShared`: the same property for any number of overlapping
  tasks until the process is restarted (`MaxRestarts = 0`, `~ToolOverlaps`).
  `inner` is synced under its lock, so it is faithful whoever syncs it, and it
  keeps what it has revealed (`LiveInv`); the sync by one task finds a standing
  sweep for all of them.  Overlapping tasks spoil the row only, and with two
  tasks and a restart TLC refutes the property (table above).
- `SyncEvictedSweepReverted`: `EvictedSweepReverted` for `OneTask`,
  `~ToolOverlaps`, and at most one reorganisation and one restart, with any
  versions, deposits, blocks and faults.  `EvictInv` adds to `StoredInv` that
  the sweep is in one place at most and nowhere once it is lost (`PlaceInv`),
  that every wallet is faithful, that before the reorganisation every
  checkpoint is on the chain (`FreshInv`) and the version wallets a sync has
  passed have no memory of the sweep in the mempool once `inner` has it
  confirmed (`UnseenInv`), so that after it they are clean: what they know of
  the sweep hangs on a checkpoint off the chain (`PassedInv`).  `NoticeInv`
  concludes: once `inner` has followed the reorganisation, a version that is
  still complete is one that a task is about to revert, or one that a version
  wallet remembers which has itself still to notice.  Both bounds are needed;
  the table above has TLC's counterexamples for two.
- `SendTypeCorrect` for any requests; `SendImplementsLedger`,
  `SendChangeFound`, `SendMaxDrainsBalance` for one at a time (`OneAtATime`).
  `SeqInv`: from its own sync to its broadcast a request's `inner` has seen
  exactly the payments that stand, what it built conflicts with none of them,
  and nothing is on its way without its request while another runs.  `IdxInv`:
  the wallet is ahead of its row by at most the writes lost, plus one while a
  write is due.  Hence the hypothesis `MaxLostWrites <= Lookahead` of the last
  two: what the lookahead must cover is the number of failed writes, not the
  number of payments. `SendMaxDrainsBalance` also needs `OldDeposits = {}`.
- `SendOverlapSound`: what requests that overlap in any way keep, also with
  transactions that arrive after their request was dropped.  One send may
  replace another then, and `ImplementsLedger` fails; but the payments that
  stand spend no coin twice and build only on deposits and on each other, and
  rows are only of payments that the network has taken.  `OverlapInv` adds that
  confirmed payments build on confirmed ones, which a replacement cannot touch.
- `IngestTypeCorrect`; `IngestImplementsLedger` for any requests in flight and
  a node that does not replace (`~Replaces`); `IngestStoreMatchesChain` for
  `Whole`, without the three sequences above, each of which breaks it.
  `NetInv`: the branches form a tree (`Tree`: two that share a block share all
  below it), and on each of them, and in the mempool beside the best chain, a
  coin is paid once, spent once, and paid first.  `ScanInv(U, F)` says of the
  store that there is a branch `U`, on or off the best chain, whose blocks were
  scanned, and a height `F` up to which the coin rows are those of `U`.  The
  branch is needed because the cursor may be off the best chain while rows of
  the old branch are still right, and must be right when the node returns to it.
  `F` is the cursor, except while a rollback is not completed: then it is the
  fork of that rollback, the cursor is off the best chain, and every stored
  block on the best chain is at or below it.  That last part is what a block
  that comes back breaks (`TornReturn`).  Rows above the cursor belong to the
  block in hand or to the next one of the best chain, in which a pass was cut
  short and which the next pass writes again (`Beyond`).
- `WatchTypeCorrect`; `WatchSubscriptionsHeld` for `~WatchFaults`, however many
  calls of `unwatch` fail.  `CountInv` says that the pool counts as many
  references as there are sessions that hold one and unwatches that failed, and
  with `WatchFaults` no more than that.
- `WatchNoLostWakeup` for `~WatchFaults` and syncs of the event-driven loop that
  succeed: the safety half of `PaymentShown`.  `WakeInv` follows a session from
  its first sync on: it receives, and when it is about to push, its wallet is up
  to date or an update is on its way.  That a change is announced at all takes
  `CountInv`: nobody else has unsubscribed the script.

`ServedInv`, `SweptInv`, `StoredInv`, `SightInv`, `EvictInv`, `WakeInv`,
`LiveInv`, `OverlapInv` and `ScanInv` were checked by TLC first, on instances like
those of the runs, `LiveInv` and `OverlapInv` with two tasks.  The hypotheses
are the conditions under which the passing runs check the same property, except
for the two theorems on overlapping tasks; the table above shows what happens
without them.

Only model-checked:

- Liveness (`TasksComplete`, `ServerComesUp`, `CatchesUp`, `PaymentShown`):
  fairness and ENABLED are out of the prover's reach.
- The four violated properties, which are refuted by the runs.

## Not modelled

- Signing, PSBT and PSET construction, unblinding, amounts and fees: libraries
  and cryptography.
- The nodeless Elements pass (`run_once_nodeless`): it hands all control to
  `NodelessSync`, and what that does between the store calls cannot be seen from
  this repository.
- `balance` and `list_unspent` lock one version wallet after the other; the
  model reads them at once.
- Transactions that a full mempool or their age evicts.
- Sessions and login (a library's session store), configuration parsing, pages;
  the bootstrap and verify examples, which drive the same operations.

## Plan

Every invariant and every action property of a passing run is a theorem, and
so are both refinements.  What is left:

1. `EvictedSweepReverted` with a condition on the version wallets' mempool views
   in place of the bounds on reorganisations and restarts.
2. What two syncs of one wallet still guarantee of the row, so that
   `SyncNoFalseRevertShared` could pass a restart.
3. A liveness proof of `PaymentShown` from `WatchNoLostWakeup`, with a prover
   that handles fairness.
