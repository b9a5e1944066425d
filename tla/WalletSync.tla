----------------------------- MODULE WalletSync -----------------------------
(***************************************************************************)
(* UserWallet of src/wallet.rs while requests and the live-balance socket  *)
(* use it at once: sync over the bitcoind emitter, Esplora or Electrum,    *)
(* reveal_addresses, the aggregate changeset and its column in the wallets *)
(* table, and reconcile_reverted_migrations.                               *)
(*                                                                         *)
(* The chain is a list of blocks; a block carries transactions that touch  *)
(* the wallet.  A BDK wallet is abstracted to its changeset (the newest    *)
(* checkpoint, the confirmed transactions, which receive addresses are     *)
(* revealed: none, the first, or all that a page shows) and to what it saw *)
(* of the mempool at its last sync.                                        *)
(***************************************************************************)
EXTENDS Integers, Sequences, FiniteSets

CONSTANTS
  Tasks,        \* requests and sockets that use the wallet together
  Versions,     \* number of federation versions, hence of version wallets
  Deposits,     \* deposits that may be paid
  Sweep,        \* the sweep transaction of a federation migration, paid to
                \* the first address of the new federation
  Backends,     \* chain backends to consider: emitter, revealed (Esplora and
                \* Electrum, which look at revealed addresses only)
  Faults,       \* whether the backend or the database may fail, or a request
                \* be dropped because its client left
  ToolOverlaps, \* whether the app works on while the migration tool runs
  MaxBlocks,    \* bound on the blocks ever mined
  MaxReorgs,    \* bound on reorganisations
  MaxRestarts   \* bound on process restarts

Txs == Deposits \cup {Sweep}

ASSUME SyncAssumption ==
  /\ Versions \in Nat \ {0}
  /\ Sweep \notin Deposits
  /\ Backends \subseteq {"emitter", "revealed"}
  /\ Faults \in BOOLEAN /\ ToolOverlaps \in BOOLEAN
  /\ MaxBlocks \in Nat /\ MaxReorgs \in Nat /\ MaxRestarts \in Nat

VARIABLES
  backend,  \* the backend of this deployment
  chain,    \* the best chain: blocks [id, txs]
  pool,     \* the mempool
  paid,     \* transactions ever broadcast
  mined,    \* blocks mined so far, on any branch
  reorgs,   \* reorganisations so far
  wallet,   \* 0: inner; 1..Versions: version_wallets
  agg,      \* aggregate: the changeset kept in memory
  db,       \* wallets.bdk_changeset
  status,   \* migration_status of the swept federation version
  recorded, \* its migration_sweep_txid, as a set
  tool,     \* the migration tool: before its sweep, before marking, done
  rebound,  \* whether the row has been moved to the new federation
  task,     \* progress of the tasks
  shown,    \* history: the receive addresses have been shown
  lost,     \* history: a sweep that inner knew as confirmed was reorged out
  dropped,  \* history: what was cut short, a sync or the saving of a reveal
  restarts  \* process restarts so far

netVars == <<backend, chain, pool, paid, mined, reorgs>>
rowVars == <<status, recorded, tool, rebound>>
memVars == <<wallet, agg>>
vars == <<netVars, rowVars, memVars, db, task, shown, lost, dropped, restarts>>

Genesis == [h |-> 0, id |-> 0]
ChangeSet == [tip : [h : Nat, id : Nat], conf : SUBSET Txs, revealed : 0..2]
Empty == [tip |-> Genesis, conf |-> {}, revealed |-> 0]
Wallet == [cs : ChangeSet, seen : SUBSET Txs]
Loaded(cs) == [cs |-> cs, seen |-> {}]

(* ChangeSet::merge: the higher checkpoint counts; the rest is united.     *)
Merge(a, d) ==
  [tip |-> IF d.tip.h > 0 /\ d.tip.h >= a.tip.h THEN d.tip ELSE a.tip,
   conf |-> a.conf \cup d.conf,
   revealed |-> IF d.revealed > a.revealed THEN d.revealed ELSE a.revealed]

(* The transactions a sync of w can find: the emitter sees whole blocks,   *)
(* the other backends the histories of revealed addresses.                 *)
Visible(w) ==
  {x \in Txs : \/ backend = "emitter" \/ w.cs.revealed = 2
               \/ x = Sweep /\ w.cs.revealed = 1}

TxsFrom(h) == UNION {chain[i].txs : i \in h..Len(chain)}
ChainTxs == TxsFrom(1)
ChainTip == IF chain = <<>> THEN Genesis
            ELSE [h |-> Len(chain), id |-> chain[Len(chain)].id]
OnChain(tip) == tip.h = 0 \/ (tip.h <= Len(chain) /\ chain[tip.h].id = tip.id)

-----------------------------------------------------------------------------
(* A task's locals: the version wallet in hand, any_reorg, whether inner   *)
(* was rebuilt, whether it is a receive page and already revealing, the    *)
(* delta taken, the json to write, the candidate sweeps and those absent.  *)
Stage == {"idle", "reveal_versions", "versions", "inner", "merge", "write", "list", "check",
          "revert", "reveal"}

Task == [pc : Stage, at : 1..Versions, reorg : BOOLEAN, rebuilt : BOOLEAN,
         page : BOOLEAN, reveal : BOOLEAN, delta : ChangeSet, json : ChangeSet,
         wanted : SUBSET Txs, absent : SUBSET Txs]

Idle == [pc |-> "idle", at |-> 1, reorg |-> FALSE, rebuilt |-> FALSE,
         page |-> FALSE, reveal |-> FALSE, delta |-> Empty, json |-> Empty,
         wanted |-> {}, absent |-> {}]

AllLoaded(cs) == [i \in 0..Versions |-> IF i = 0 THEN Loaded(cs) ELSE Loaded(Empty)]

Init ==
  /\ backend \in Backends
  /\ chain = <<>> /\ pool = {} /\ paid = {} /\ mined = 0 /\ reorgs = 0
  /\ wallet = AllLoaded(Empty) /\ agg = Empty /\ db = Empty
  /\ status = "pending" /\ recorded = {} /\ tool = "sweep" /\ rebound = FALSE
  /\ task = [t \in Tasks |-> Idle]
  /\ shown = FALSE /\ lost = FALSE /\ dropped = {} /\ restarts = 0

Quiet == \A t \in Tasks : task[t].pc = "idle"

(* Without ToolOverlaps nothing happens between the tool's broadcast and   *)
(* its marking, and the app is not in the middle of something.             *)
Calm == ToolOverlaps \/ tool # "mark"

-----------------------------------------------------------------------------
(* The network: deposits, blocks, and a reorganisation that replaces the   *)
(* last block by two others.  A transaction it evicts is queued again or,  *)
(* when a conflicting one was confirmed, gone for good.                    *)
Pay(x) ==
  /\ shown /\ x \notin paid
  /\ paid' = paid \cup {x}
  /\ pool' = pool \cup {x}
  /\ UNCHANGED <<backend, chain, mined, reorgs, rowVars, memVars, db, task, shown, lost, dropped, restarts>>

Mine(S) ==
  /\ Calm
  /\ mined < MaxBlocks
  /\ mined' = mined + 1
  /\ chain' = Append(chain, [id |-> mined + 1, txs |-> S])
  /\ pool' = pool \ S
  /\ UNCHANGED <<backend, paid, reorgs, rowVars, memVars, db, task, shown, lost, dropped, restarts>>

Reorg(queued) ==
  LET last == chain[Len(chain)] IN
  /\ Calm
  /\ chain # <<>>
  /\ reorgs < MaxReorgs /\ mined + 2 <= MaxBlocks
  /\ queued \subseteq last.txs
  /\ reorgs' = reorgs + 1 /\ mined' = mined + 2
  /\ chain' = SubSeq(chain, 1, Len(chain) - 1)
                \o <<[id |-> mined + 1, txs |-> {}], [id |-> mined + 2, txs |-> {}]>>
  /\ pool' = pool \cup queued
  /\ lost' = (lost \/ (Sweep \in last.txs \ queued /\ Sweep \in wallet[0].cs.conf))
  /\ UNCHANGED <<backend, paid, rowVars, memVars, db, task, shown, dropped, restarts>>

(* The migration tool broadcasts the sweep of what was paid and then marks *)
(* the old version complete with its txid (set_migration_complete).        *)
BroadcastSweep ==
  /\ tool = "sweep" /\ shown
  /\ ToolOverlaps \/ Quiet
  /\ tool' = "mark"
  /\ paid' = paid \cup {Sweep}
  /\ pool' = pool \cup {Sweep}
  /\ UNCHANGED <<backend, chain, mined, reorgs, status, recorded, rebound, memVars, db, task, shown, lost, dropped, restarts>>

MarkComplete ==
  /\ tool = "mark"
  /\ tool' = "done"
  /\ status' = "complete" /\ recorded' = {Sweep}
  /\ UNCHANGED <<netVars, rebound, memVars, db, task, shown, lost, dropped, restarts>>

-----------------------------------------------------------------------------
Goto(t, pc) == task' = [task EXCEPT ![t].pc = pc]

(* A request for the receive page syncs and reveals; any other one, and    *)
(* the socket, only syncs.                                                 *)
Start(t, page) ==
  /\ Calm
  /\ task[t].pc = "idle"
  /\ task' = [task EXCEPT ![t] =
                [Idle EXCEPT !.pc = IF backend = "emitter" THEN "versions" ELSE "reveal_versions",
                             !.page = page]]
  /\ UNCHANGED <<netVars, rowVars, memVars, db, shown, lost, dropped, restarts>>

(* sync_esplora, sync_electrum: the version wallets are loaded with no     *)
(* address revealed and follow inner before they are synced.               *)
reveal_version_wallets_to_inner(t) ==
  /\ task[t].pc = "reveal_versions"
  /\ wallet' = [i \in 0..Versions |->
                  [wallet[i] EXCEPT !.cs.revealed =
                     IF wallet[0].cs.revealed > @ THEN wallet[0].cs.revealed ELSE @]]
  /\ Goto(t, "versions")
  /\ UNCHANGED <<netVars, rowVars, agg, db, shown, lost, dropped, restarts>>

(* chain_sync::emitter_sync, ElectrumBackend::sync (external): go on from  *)
(* the newest checkpoint or, when that was reorganised away, rebuild from  *)
(* genesis.  The emitter goes on with the blocks after the checkpoint, the *)
(* other backends with whole histories.                                    *)
Synced(w) ==
  LET from == IF backend = "emitter" THEN w.cs.tip.h + 1 ELSE 1
      found == Visible(w) \cap (IF OnChain(w.cs.tip) THEN TxsFrom(from) ELSE ChainTxs)
  IN
  [cs |-> [w.cs EXCEPT !.tip = ChainTip,
                       !.conf = IF OnChain(w.cs.tip) THEN @ \cup found ELSE found],
   seen |-> pool \cap Visible(w)]

(* What a sync stages: the new checkpoints and transactions, or everything *)
(* after a rebuild.                                                        *)
Staged(w) ==
  IF OnChain(w.cs.tip)
  THEN [tip |-> IF w.cs.tip = ChainTip THEN Genesis ELSE ChainTip,
        conf |-> Synced(w).cs.conf \ w.cs.conf, revealed |-> 0]
  ELSE Synced(w).cs

(* Mutant: the loop over version_wallets runs one past the end.            *)
SyncVersion_PastEnd(t) ==
  LET r == task[t] IN
  /\ r.pc = "versions"
  /\ wallet' = [wallet EXCEPT ![r.at] = Synced(@)]
  /\ task' = [task EXCEPT ![t].reorg = @ \/ ~OnChain(wallet[r.at].cs.tip),
                          ![t].pc = IF r.at > Versions THEN "inner" ELSE "versions",
                          ![t].at = r.at + 1]
  /\ UNCHANGED <<netVars, rowVars, agg, db, shown, lost, dropped, restarts>>

SyncVersion(t) ==
  LET r == task[t]
      last == r.at = Versions
  IN
  /\ r.pc = "versions"
  /\ wallet' = [wallet EXCEPT ![r.at] = Synced(@)]
  /\ task' = [task EXCEPT ![t].reorg = @ \/ ~OnChain(wallet[r.at].cs.tip),
                          ![t].pc = IF last THEN "inner" ELSE "versions",
                          ![t].at = IF last THEN 1 ELSE r.at + 1]
  /\ UNCHANGED <<netVars, rowVars, agg, db, shown, lost, dropped, restarts>>

(* Mutant: any_reorg |= summary.reorg_rebuilt is missing.                  *)
SyncInner_FlagLost(t) ==
  /\ task[t].pc = "inner"
  /\ wallet' = [wallet EXCEPT ![0] = Synced(@)]
  /\ task' = [task EXCEPT ![t].pc = IF Synced(wallet[0]) = wallet[0] THEN "list" ELSE "merge",
                          ![t].rebuilt = ~OnChain(wallet[0].cs.tip),
                          ![t].delta = Staged(wallet[0])]
  /\ UNCHANGED <<netVars, rowVars, agg, db, shown, lost, dropped, restarts>>

(* inner is synced under its lock, its staged delta taken, the lock        *)
(* released.  With nothing staged only chain_tip_height is written.        *)
SyncInner(t) ==
  LET w == wallet[0]
      rebuilt == ~OnChain(w.cs.tip)
      nothing == Synced(w) = w
  IN
  /\ task[t].pc = "inner"
  /\ wallet' = [wallet EXCEPT ![0] = Synced(@)]
  /\ task' = [task EXCEPT ![t].pc = IF nothing THEN "list" ELSE "merge",
                          ![t].reorg = @ \/ rebuilt, ![t].rebuilt = rebuilt,
                          ![t].delta = Staged(w)]
  /\ UNCHANGED <<netVars, rowVars, agg, db, shown, lost, dropped, restarts>>

(* Mutants: merge after a rebuild; replace always.                         *)
MergeDelta_NeverReplace(t) ==
  LET new == Merge(agg, task[t].delta) IN
  /\ task[t].pc = "merge"
  /\ agg' = new
  /\ task' = [task EXCEPT ![t].pc = "write", ![t].json = new, ![t].delta = Empty]
  /\ UNCHANGED <<netVars, rowVars, wallet, db, shown, lost, dropped, restarts>>

MergeDelta_AlwaysReplace(t) ==
  /\ task[t].pc = "merge"
  /\ agg' = task[t].delta
  /\ task' = [task EXCEPT ![t].pc = "write", ![t].json = task[t].delta]
  /\ UNCHANGED <<netVars, rowVars, wallet, db, shown, lost, dropped, restarts>>

(* persist_sync, under the aggregate's lock: replace after a rebuild,      *)
(* merge otherwise, and encode; the lock is released before the write.     *)
MergeDelta(t) ==
  LET r == task[t]
      new == IF r.rebuilt THEN r.delta ELSE Merge(agg, r.delta)
  IN
  /\ r.pc = "merge"
  /\ agg' = new
  /\ task' = [task EXCEPT ![t].pc = "write", ![t].json = new, ![t].delta = Empty]
  /\ UNCHANGED <<netVars, rowVars, wallet, db, shown, lost, dropped, restarts>>

(* A sync that is over: the receive page goes on to reveal_addresses.      *)
EndSync(t) ==
  task' = [task EXCEPT ![t] =
             IF task[t].page THEN [Idle EXCEPT !.pc = "reveal", !.page = TRUE] ELSE Idle]

(* update_wallet_changeset.  A sync goes on to reconcile; addresses are    *)
(* shown once their reveal is written.                                     *)
WriteChangeset(t) ==
  LET r == task[t] IN
  /\ r.pc = "write"
  /\ db' = r.json
  /\ IF r.reveal
     THEN task' = [task EXCEPT ![t] = Idle] /\ shown' = TRUE
     ELSE task' = [task EXCEPT ![t].pc = "list", ![t].json = Empty] /\ UNCHANGED shown
  /\ UNCHANGED <<netVars, rowVars, memVars, lost, dropped, restarts>>

(* reconcile_reverted_migrations: nothing without a reorg; else the        *)
(* completed versions that recorded a sweep are read.                      *)
ListCompleted(t) ==
  LET wanted == IF status = "complete" THEN recorded ELSE {} IN
  /\ task[t].pc = "list"
  /\ IF task[t].reorg /\ wanted # {}
     THEN task' = [task EXCEPT ![t].pc = "check", ![t].wanted = wanted]
     ELSE EndSync(t)
  /\ UNCHANGED <<netVars, rowVars, memVars, db, shown, lost, dropped, restarts>>

txids_present_in_graph(wanted) ==
  {x \in wanted : \E i \in 0..Versions : x \in wallet[i].cs.conf \cup wallet[i].seen}

CheckPresence(t) ==
  LET r == task[t] IN
  /\ r.pc = "check"
  /\ task' = [task EXCEPT ![t].pc = "revert",
                          ![t].absent = r.wanted \ txids_present_in_graph(r.wanted)]
  /\ UNCHANGED <<netVars, rowVars, memVars, db, shown, lost, dropped, restarts>>

(* reconcile_migration: the update is guarded by status and recorded txid. *)
Revert(t) ==
  LET fires == \E x \in task[t].absent : status = "complete" /\ recorded = {x} IN
  /\ task[t].pc = "revert"
  /\ status' = IF fires THEN "pending" ELSE status
  /\ recorded' = IF fires THEN {} ELSE recorded
  /\ EndSync(t)
  /\ UNCHANGED <<netVars, tool, rebound, memVars, db, shown, lost, dropped, restarts>>

(* Mutant: the addresses are returned before the changeset is written.     *)
Reveal_ShownFirst(t) ==
  /\ task[t].pc = "reveal"
  /\ shown' = TRUE
  /\ wallet' = [wallet EXCEPT ![0].cs.revealed = 2]
  /\ task' = [task EXCEPT ![t] =
                IF wallet[0].cs.revealed = 2 THEN Idle
                ELSE [@ EXCEPT !.pc = "merge", !.reveal = TRUE,
                               !.delta = [Empty EXCEPT !.revealed = 2]]]
  /\ UNCHANGED <<netVars, rowVars, agg, db, lost, dropped, restarts>>

(* reveal_addresses: with nothing newly revealed there is nothing to write.*)
Reveal(t) ==
  /\ task[t].pc = "reveal"
  /\ wallet' = [wallet EXCEPT ![0].cs.revealed = 2]
  /\ IF wallet[0].cs.revealed = 2
     THEN task' = [task EXCEPT ![t] = Idle] /\ shown' = TRUE
     ELSE /\ task' = [task EXCEPT ![t].pc = "merge", ![t].reveal = TRUE,
                                  ![t].delta = [Empty EXCEPT !.revealed = 2]]
          /\ UNCHANGED shown
  /\ UNCHANGED <<netVars, rowVars, agg, db, lost, dropped, restarts>>

(* An error of the backend or the database is returned, or a request whose *)
(* client has gone is dropped at an await: the rest of the task does not   *)
(* happen.  The locks before the merge and the graph check are awaited     *)
(* only when another task holds them.                                      *)
Abort(t) ==
  /\ Faults
  /\ \/ task[t].pc \in {"versions", "inner", "write", "list", "revert", "reveal"}
     \/ /\ task[t].pc \in {"merge", "check"}
        /\ \E u \in Tasks \ {t} : task[u].pc # "idle"
  /\ task' = [task EXCEPT ![t] = Idle]
  /\ dropped' = dropped \cup {IF task[t].reveal THEN "reveal" ELSE "sync"}
  /\ UNCHANGED <<netVars, rowVars, memVars, db, shown, lost, restarts>>

(* Mutant: the new wallet starts with no address revealed.                 *)
Rebound_NoReveal(row) == Empty

(* rebind_inner_to_current_federation: a fresh changeset, with the         *)
(* addresses revealed as far as in the old one, but at least the first.    *)
Rebound(row) == [Empty EXCEPT !.revealed = IF row.revealed = 0 THEN 1 ELSE row.revealed]

(* The process is restarted: inner and the aggregate come from the row,    *)
(* which the first load after a migration rebinds; the version wallets are *)
(* built afresh.                                                           *)
Restart ==
  LET rebind == tool # "sweep" /\ ~rebound
      row == IF rebind THEN Rebound(db) ELSE db
  IN
  /\ restarts < MaxRestarts
  /\ restarts' = restarts + 1
  /\ rebound' = (rebound \/ rebind)
  /\ db' = row /\ wallet' = AllLoaded(row) /\ agg' = row
  /\ task' = [t \in Tasks |-> Idle]
  /\ dropped' = IF Quiet THEN dropped ELSE dropped \cup {"sync"}
  /\ lost' = (lost /\ ~rebind)
  /\ UNCHANGED <<netVars, status, recorded, tool, shown>>

Step(t) ==
  \/ reveal_version_wallets_to_inner(t)
  \/ SyncVersion(t) \/ SyncInner(t) \/ MergeDelta(t) \/ WriteChangeset(t)
  \/ ListCompleted(t) \/ CheckPresence(t) \/ Revert(t) \/ Reveal(t) \/ Abort(t)

Next ==
  \/ \E x \in Deposits : Pay(x)
  \/ \E S \in SUBSET pool : Mine(S)
  \/ \E S \in SUBSET Txs : Reorg(S)
  \/ BroadcastSweep \/ MarkComplete
  \/ \E t \in Tasks, page \in BOOLEAN : Start(t, page)
  \/ \E t \in Tasks : Step(t)
  \/ Restart

Spec == Init /\ [][Next]_vars

-----------------------------------------------------------------------------
Block == [id : Nat, txs : SUBSET Txs]

TypeOK ==
  /\ backend \in Backends
  /\ chain \in Seq(Block)
  /\ pool \subseteq Txs /\ paid \subseteq Txs
  /\ mined \in Nat /\ reorgs \in Nat /\ restarts \in Nat
  /\ wallet \in [0..Versions -> Wallet]
  /\ agg \in ChangeSet /\ db \in ChangeSet
  /\ status \in {"pending", "complete"} /\ recorded \subseteq Txs
  /\ tool \in {"sweep", "mark", "done"}
  /\ rebound \in BOOLEAN /\ dropped \subseteq {"sync", "reveal"}
  /\ task \in [Tasks -> Task]
  /\ shown \in BOOLEAN /\ lost \in BOOLEAN

(* The emitter goes on from the newest stored checkpoint, so a stored      *)
(* checkpoint on the best chain must come with every transaction up to it: *)
(* what is missing there a restarted wallet never finds again.             *)
PersistedCoversTip ==
  backend = "emitter" /\ OnChain(db.tip) => \A i \in 1..db.tip.h : chain[i].txs \subseteq db.conf

(* persist_sync replaces the changeset after a rebuild because a merge     *)
(* would bring a reorged-out transaction back: once the stored checkpoint  *)
(* is on the best chain, so is every stored confirmed transaction.         *)
NoPhantom ==
  OnChain(db.tip) => db.conf \subseteq ChainTxs

(* A migration whose sweep inner knew as confirmed and that is then        *)
(* reorged out for good is back to pending when the app has settled: no    *)
(* task in flight, no sync cut short, and every wallet on the best chain.  *)
(* An inner that was rebound is a new wallet and knows nothing.  For one   *)
(* reorganisation and one restart: a version wallet that has seen the sweep*)
(* back in the mempool hides its loss in a second reorganisation, and one  *)
(* that the reorganisation overtook is forgotten in a second restart.      *)
EvictedSweepReverted ==
  lost /\ "sync" \notin dropped /\ Quiet /\ (\A i \in 0..Versions : OnChain(wallet[i].cs.tip)) =>
    status # "complete"

(* reconcile_migration never fires on a healthy version, one whose sweep   *)
(* is on the chain or in the mempool; also where version wallets, loaded   *)
(* afresh, have to be told which addresses to scan, and where errors cut   *)
(* syncs short.  (A reveal that was not saved leaves nothing to scan.)     *)
NoFalseRevert ==
  [][status = "complete" /\ status' = "pending" /\ "reveal" \notin dropped =>
       Sweep \notin ChainTxs \cup pool]_vars

(* bdk_changeset is the source of truth for revealed addresses             *)
(* (migrations/0002_wallets.sql): what reveal_addresses has shown is in    *)
(* the row, also after a restart, a rebuild or a rebind, and whatever else *)
(* failed, as long as the saving of a reveal did not.                      *)
RevealDurable == shown /\ "reveal" \notin dropped => db.revealed = 2
=============================================================================
