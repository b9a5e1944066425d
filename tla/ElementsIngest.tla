--------------------------- MODULE ElementsIngest ---------------------------
(***************************************************************************)
(* Elements funds as the application knows them: the background ingestion  *)
(* task of src/elements_ingest.rs (RPC backend) and the Postgres stores of *)
(* src/elements_sync.rs it writes, with the federation versions that are   *)
(* recorded meanwhile and the sends of src/elements_wallet.rs that select  *)
(* from what was captured.                                                 *)
(*                                                                         *)
(* BlockScanEngine is not part of the repository.  Its contract is taken   *)
(* from the traits the stores implement and from the columns they keep:    *)
(* find the last stored block that is on the best chain, roll both stores  *)
(* back to it (captured coins first), then for each block that follows the *)
(* cursor store it, capture, mark spent, and move the cursor.              *)
(*                                                                         *)
(* A coin is a model value.  A payment pays one coin; a spend is the set   *)
(* of the coins it spends.  Amounts and blinding are left out; of assets   *)
(* only which coins are the policy asset, L-BTC, in which fees are paid.   *)
(***************************************************************************)
EXTENDS Integers, Sequences, FiniteSets

CONSTANTS
  Versions,     \* federation versions, of any Elements wallet
  Coins,        \* coins that may be paid
  owner,        \* coin -> the version whose script it is paid to
  wallet,       \* version -> the wallet it is a version of
  Policy,       \* the coins that are L-BTC
  Senders,      \* send requests that may be in flight together
  LateVersions, \* whether a version may be recorded while a pass is running
  TornReorg,    \* whether a block whose scan was cut short may be reorganised
                \* away before it is scanned again
  TornReturn,   \* whether a stored block may come back to the best chain
                \* while a rollback is under way or was cut short
  Replaces,     \* whether the node takes a spend in place of those in its
                \* mempool that it conflicts with
  MaxBlocks,    \* bound on the blocks ever mined
  MaxReorgs,    \* bound on reorganisations
  MaxFaults     \* bound on passes and sends cut short

ASSUME IngestAssumption ==
  /\ owner \in [Coins -> Versions]
  /\ DOMAIN wallet = Versions
  /\ Policy \subseteq Coins
  /\ LateVersions \in BOOLEAN /\ TornReorg \in BOOLEAN /\ TornReturn \in BOOLEAN
  /\ Replaces \in BOOLEAN
  /\ MaxBlocks \in Nat /\ MaxReorgs \in Nat /\ MaxFaults \in Nat

VARIABLES
  chain,    \* the best chain: blocks [id, pays, spends]
  stale,    \* the branches that were the best chain before
  pool,     \* the mempool: [pays, spends]
  paid,     \* coins ever paid
  mined,    \* blocks mined so far, on any branch
  reorgs,   \* reorganisations so far
  recorded, \* versions stored in the tables
  blocks,   \* elements_blocks: height -> block id, 0 without a row
  cursor,   \* elements_sync_cursor
  utxos,    \* elements_utxos: coin -> height and spent_height
  ledger,   \* elements_transactions: the spends recorded
  pass,     \* the ingestion pass
  send,     \* progress of the send requests
  undoing,  \* history: a rollback has begun and has not been completed
  shipped,  \* history: spends that the node has accepted
  faults    \* passes and sends cut short so far

netVars == <<chain, stale, pool, paid, mined, reorgs>>
storeVars == <<blocks, cursor, utxos>>
sendVars == <<ledger, send, shipped>>
vars == <<netVars, recorded, storeVars, pass, undoing, sendVars, faults>>

Heights == 1..MaxBlocks

NoTip == [h |-> 0, id |-> 0]
NoRow == [h |-> 0, spent |-> 0]

Block == [id : Heights, pays : SUBSET Coins, spends : SUBSET SUBSET Coins]

Genesis == [id |-> 0, pays |-> {}, spends |-> {}]

(* Locals of run_once and the engine: the versions loaded, the fork found, *)
(* the node's height when the scan began and the block in hand.            *)
Stage == {"idle", "check", "dropUtxos", "unspend", "dropBlocks", "resetCursor",
          "scan", "capture", "mark", "tip"}

Pass == [pc : Stage, watched : SUBSET Versions, fork : 0..MaxBlocks,
         upto : 0..MaxBlocks, block : Block \cup {Genesis}]

NoPass == [pc |-> "idle", watched |-> {}, fork |-> 0, upto |-> 0, block |-> Genesis]

NoSend == [pc |-> "idle", coins |-> {}]

Init ==
  /\ chain = <<>> /\ stale = {} /\ pool = [pays |-> {}, spends |-> {}] /\ paid = {}
  /\ mined = 0 /\ reorgs = 0
  /\ recorded = {}
  /\ blocks = [h \in Heights |-> 0] /\ cursor = NoTip
  /\ utxos = [c \in Coins |-> NoRow]
  /\ ledger = {} /\ send = [s \in Senders |-> NoSend] /\ shipped = {}
  /\ pass = NoPass /\ undoing = FALSE
  /\ faults = 0

OnChain(tip) == tip.h = 0 \/ (tip.h <= Len(chain) /\ chain[tip.h].id = tip.id)

PaidAt(h) == IF h \in 1..Len(chain) THEN chain[h].pays ELSE {}

(* The payments and the spends of a branch.                                *)
PaysOf(B) == UNION {B[i].pays : i \in 1..Len(B)}
SpendsOf(B) == UNION {B[i].spends : i \in 1..Len(B)}

-----------------------------------------------------------------------------
(* The network.  Somebody pays to an address of a recorded version; blocks *)
(* are mined.                                                              *)
Pay(c) ==
  /\ c \notin paid /\ owner[c] \in recorded
  /\ paid' = paid \cup {c}
  /\ pool' = [pool EXCEPT !.pays = @ \cup {c}]
  /\ UNCHANGED <<chain, stale, mined, reorgs, recorded, storeVars, pass, undoing, sendVars, faults>>

Mine(P, S) ==
  /\ mined < MaxBlocks
  /\ UNION S \subseteq PaysOf(chain) \cup P
  /\ mined' = mined + 1
  /\ chain' = Append(chain, [id |-> mined + 1, pays |-> P, spends |-> S])
  /\ pool' = [pays |-> pool.pays \ P, spends |-> pool.spends \ S]
  /\ UNCHANGED <<stale, paid, reorgs, recorded, storeVars, pass, undoing, sendVars, faults>>

(* A pass is in the middle of a block, or an earlier one was cut short     *)
(* there: rows of a block that the cursor has not reached.                 *)
InBlock == pass.pc \in {"capture", "mark", "tip"}
Torn == \E c \in Coins : utxos[c].h > cursor.h \/ utxos[c].spent > cursor.h

(* A stored block that is on the branch and not on the best chain.         *)
ComesBack(base) ==
  \E h \in 1..Len(base) : /\ base[h].id # chain[h].id
                          /\ base[h].id \in {blocks[h], cursor.id}

(* Where the best chain may go on from: any block it has, or had before.   *)
Bases == UNION {{SubSeq(B, 1, n) : n \in 0..Len(B)} : B \in stale \cup {chain}}

(* A reorganisation: the best chain becomes one that is longer by a block, *)
(* through empty blocks on a base that may be a branch it had left.  Its   *)
(* transactions that are not on the base are queued again or dropped for   *)
(* good; those that conflict with the base leave the mempool.              *)
Reorg(base, P, S) ==
  LET new == Len(chain) + 1 - Len(base)
      pays == (pool.pays \cup P) \ PaysOf(base)
  IN
  /\ base # chain
  /\ reorgs < MaxReorgs /\ mined + new <= MaxBlocks
  /\ TornReorg \/ InBlock \/ ~Torn
  /\ TornReturn \/ ~undoing \/ ~ComesBack(base)
  /\ reorgs' = reorgs + 1 /\ mined' = mined + new
  /\ chain' = base \o [i \in 1..new |-> [id |-> mined + i, pays |-> {}, spends |-> {}]]
  /\ stale' = stale \cup {chain}
  /\ pool' = [pays |-> pays,
              spends |-> {x \in pool.spends \cup S : /\ x \subseteq pays \cup PaysOf(base)
                                                     /\ x \cap UNION SpendsOf(base) = {}}]
  /\ UNCHANGED <<paid, recorded, storeVars, pass, undoing, sendVars, faults>>

(* A wallet is created or the migration tool records a federation version. *)
RecordVersion(v) ==
  /\ v \notin recorded
  /\ LateVersions \/ pass.pc = "idle"
  /\ recorded' = recorded \cup {v}
  /\ UNCHANGED <<netVars, storeVars, pass, undoing, sendVars, faults>>

-----------------------------------------------------------------------------
(* load_wallet_versions, once per pass; without wallets there is no pass.  *)
LoadVersions ==
  /\ pass.pc = "idle"
  /\ recorded # {}
  /\ pass' = [NoPass EXCEPT !.pc = "check", !.watched = recorded]
  /\ UNCHANGED <<netVars, recorded, storeVars, undoing, sendVars, faults>>

(* The last stored block that is still on the best chain (block_hash_at    *)
(* against block_hash), 0 when there is none.                              *)
Fork ==
  LET same == {h \in 1..Len(chain) : blocks[h] = chain[h].id} IN
  IF same = {} THEN 0 ELSE CHOOSE h \in same : \A k \in same : k <= h

(* synced_tip is on the best chain, or the stores have to be rolled back.  *)
CheckTip ==
  /\ pass.pc = "check"
  /\ IF OnChain(cursor)
     THEN /\ pass' = [pass EXCEPT !.pc = "scan", !.upto = Len(chain)]
          /\ UNCHANGED undoing
     ELSE /\ pass' = [pass EXCEPT !.pc = "dropUtxos", !.fork = Fork]
          /\ undoing' = TRUE
  /\ UNCHANGED <<netVars, recorded, storeVars, sendVars, faults>>

Goto(pc) == pass' = [pass EXCEPT !.pc = pc]

(* PgWalletUtxoStore::rollback_above: two statements.                      *)
DropUtxos ==
  /\ pass.pc = "dropUtxos"
  /\ utxos' = [c \in Coins |-> IF utxos[c].h > pass.fork THEN NoRow ELSE utxos[c]]
  /\ Goto("unspend")
  /\ UNCHANGED <<netVars, recorded, blocks, cursor, undoing, sendVars, faults>>

(* Mutant: the rows above the fork are deleted and nothing more.           *)
UnspendUtxos_Missing ==
  /\ pass.pc = "unspend"
  /\ Goto("dropBlocks")
  /\ UNCHANGED <<netVars, recorded, storeVars, undoing, sendVars, faults>>

UnspendUtxos ==
  /\ pass.pc = "unspend"
  /\ utxos' = [c \in Coins |-> IF utxos[c].spent > pass.fork
                               THEN [utxos[c] EXCEPT !.spent = 0] ELSE utxos[c]]
  /\ Goto("dropBlocks")
  /\ UNCHANGED <<netVars, recorded, blocks, cursor, undoing, sendVars, faults>>

(* PgBlockStore::rollback_above: the rows, then the cursor, which goes to  *)
(* the highest block left.                                                 *)
DropBlocks ==
  /\ pass.pc = "dropBlocks"
  /\ blocks' = [h \in Heights |-> IF h > pass.fork THEN 0 ELSE blocks[h]]
  /\ Goto("resetCursor")
  /\ UNCHANGED <<netVars, recorded, cursor, utxos, undoing, sendVars, faults>>

HighestStored ==
  LET stored == {h \in Heights : blocks[h] # 0}
      max == CHOOSE h \in stored : \A k \in stored : k <= h
  IN IF stored = {} THEN NoTip ELSE [h |-> max, id |-> blocks[max]]

ResetCursor ==
  /\ pass.pc = "resetCursor"
  /\ cursor' = IF cursor.h > pass.fork THEN HighestStored ELSE cursor
  /\ pass' = [pass EXCEPT !.pc = "scan", !.upto = Len(chain)]
  /\ undoing' = FALSE
  /\ UNCHANGED <<netVars, recorded, blocks, utxos, sendVars, faults>>

(* The block after the cursor is fetched and stored; the pass ends at the  *)
(* height it set out for, or when the chain has moved away from under it.  *)
StoreBlock ==
  LET h == cursor.h + 1 IN
  /\ pass.pc = "scan"
  /\ IF h <= pass.upto /\ OnChain(cursor) /\ h <= Len(chain)
     THEN /\ blocks' = [blocks EXCEPT ![h] = chain[h].id]
          /\ pass' = [pass EXCEPT !.pc = "capture", !.block = chain[h]]
     ELSE /\ pass' = NoPass
          /\ UNCHANGED blocks
  /\ UNCHANGED <<netVars, recorded, cursor, utxos, undoing, sendVars, faults>>

(* The node or the database may fail, or the process die, at any point.    *)
Fault ==
  /\ faults < MaxFaults
  /\ TornReorg \/ ~InBlock \/ OnChain([h |-> cursor.h + 1, id |-> pass.block.id])
  /\ faults' = faults + 1

(* A store call that runs one statement per element of all: it does all of *)
(* them, or a fault ends the pass after some.                              *)
Statements(all, done, next) ==
  /\ done \subseteq all
  /\ \/ done = all /\ Goto(next) /\ UNCHANGED faults
     \/ done # all /\ Fault /\ pass' = NoPass

(* upsert_utxos: the block's coins at watched scripts.  An existing row    *)
(* keeps is_spent and spent_height.                                        *)
CaptureUtxos(done) ==
  /\ pass.pc = "capture"
  /\ Statements({c \in pass.block.pays : owner[c] \in pass.watched}, done, "mark")
  /\ utxos' = [c \in Coins |-> IF c \in done THEN [utxos[c] EXCEPT !.h = cursor.h + 1]
                               ELSE utxos[c]]
  /\ UNCHANGED <<netVars, recorded, blocks, cursor, undoing, sendVars>>

(* mark_spent of the block's inputs that are among unspent_outpoints.      *)
MarkSpent(done) ==
  /\ pass.pc = "mark"
  /\ Statements({c \in UNION pass.block.spends : utxos[c].h # 0 /\ utxos[c].spent = 0}, done, "tip")
  /\ utxos' = [c \in Coins |-> IF c \in done THEN [utxos[c] EXCEPT !.spent = cursor.h + 1]
                               ELSE utxos[c]]
  /\ UNCHANGED <<netVars, recorded, blocks, cursor, undoing, sendVars>>

(* Mutant: the cursor is moved past the block that comes next.             *)
SetTip_SkipsBlock ==
  /\ pass.pc = "tip"
  /\ cursor' = [h |-> cursor.h + 2, id |-> pass.block.id]
  /\ Goto("scan")
  /\ UNCHANGED <<netVars, recorded, blocks, utxos, undoing, sendVars, faults>>

SetTip ==
  /\ pass.pc = "tip"
  /\ cursor' = [h |-> cursor.h + 1, id |-> pass.block.id]
  /\ Goto("scan")
  /\ UNCHANGED <<netVars, recorded, blocks, utxos, undoing, sendVars, faults>>

(* Mutant: an error ends the loop of spawn.                                *)
PassFails_EndsLoop ==
  /\ pass.pc # "idle"
  /\ Fault
  /\ pass' = [NoPass EXCEPT !.pc = "ended"]
  /\ UNCHANGED <<netVars, recorded, storeVars, undoing, sendVars>>

(* An error is only logged, and a process that died is started again: the  *)
(* loop of spawn begins a new pass later.                                  *)
PassFails ==
  /\ pass.pc # "idle"
  /\ Fault
  /\ pass' = NoPass
  /\ UNCHANGED <<netVars, recorded, storeVars, undoing, sendVars>>

Ingest ==
  \/ LoadVersions \/ CheckTip \/ DropUtxos \/ UnspendUtxos \/ DropBlocks
  \/ ResetCursor \/ StoreBlock \/ SetTip
  \/ \E done \in SUBSET Coins : CaptureUtxos(done) \/ MarkSpent(done)

-----------------------------------------------------------------------------
(* list_unspent of a wallet: every captured coin that is not marked spent, *)
(* whatever version it belongs to and whatever the mempool holds.          *)
Unspent(w) == {c \in Coins : utxos[c].h # 0 /\ utxos[c].spent = 0 /\ wallet[owner[c]] = w}

Wallets == {wallet[v] : v \in Versions}

(* send_post: the inputs are chosen, then signed and broadcast on a        *)
(* blocking thread.                                                        *)
Select(s, C) ==
  /\ send[s].pc = "idle"
  /\ send' = [send EXCEPT ![s] = [pc |-> "broadcast", coins |-> C]]
  /\ UNCHANGED <<netVars, recorded, storeVars, pass, undoing, ledger, shipped, faults>>

(* An amount of L-BTC.                                                     *)
build_sign_and_broadcast(s, w, C) ==
  /\ C # {} /\ C \subseteq Unspent(w) \cap Policy
  /\ Select(s, C)

(* An amount of another asset, the fee from L-BTC.                         *)
build_sign_and_broadcast_asset(s, w, C) ==
  /\ C \subseteq Unspent(w)
  /\ C \cap Policy # {} /\ C \ Policy # {}
  /\ Select(s, C)

(* All the wallet holds of the asset, the fee from L-BTC.                  *)
build_sign_and_broadcast_asset_max(s, w, C) ==
  /\ C \subseteq Unspent(w)
  /\ C \cap Policy # {} /\ C \ Policy # {}
  /\ C \ Policy = Unspent(w) \ Policy
  /\ Select(s, C)

(* Send-Max: the wallet is drained.                                        *)
sweep_to(s, w) ==
  /\ Unspent(w) # {}
  /\ Select(s, Unspent(w))

(* The node's mempool policy, which the code has no part in: the inputs    *)
(* are unspent on the chain and, for want of replacement, in the mempool.  *)
(* Nothing in the repository says whether the sends signal replacement.    *)
Spendable(C) ==
  /\ C \subseteq PaysOf(chain) \cup pool.pays
  /\ C \cap UNION SpendsOf(chain) = {}
  /\ Replaces \/ C \cap UNION pool.spends = {}

Taken(C) == [pool EXCEPT !.spends = {x \in @ : x \cap C = {}} \cup {C}]

(* Mutant: the ledger row is written before the node has answered.         *)
Broadcast_LedgerFirst(s) ==
  LET C == send[s].coins IN
  /\ send[s].pc = "broadcast"
  /\ ledger' = ledger \cup {C}
  /\ IF Spendable(C)
     THEN /\ pool' = Taken(C)
          /\ shipped' = shipped \cup {C}
     ELSE UNCHANGED <<pool, shipped>>
  /\ send' = [send EXCEPT ![s] = NoSend]
  /\ UNCHANGED <<chain, stale, paid, mined, reorgs, recorded, storeVars, pass, undoing, faults>>

(* The node takes the spend; or it refuses it, a token fails to sign, and  *)
(* the request ends.                                                       *)
Broadcast(s) ==
  LET C == send[s].coins IN
  /\ send[s].pc = "broadcast"
  /\ \/ /\ Spendable(C)
        /\ pool' = Taken(C)
        /\ shipped' = shipped \cup {C}
        /\ send' = [send EXCEPT ![s].pc = "insert"]
     \/ /\ send' = [send EXCEPT ![s] = NoSend]
        /\ UNCHANGED <<pool, shipped>>
  /\ UNCHANGED <<chain, stale, paid, mined, reorgs, recorded, storeVars, pass, undoing, ledger, faults>>

(* insert_elements_transaction.  On an error, or when the request was      *)
(* dropped meanwhile, the spend stays without a row.                       *)
InsertLedger(s) ==
  /\ send[s].pc = "insert"
  /\ \/ ledger' = ledger \cup {send[s].coins} /\ UNCHANGED faults
     \/ faults < MaxFaults /\ faults' = faults + 1 /\ UNCHANGED ledger
  /\ send' = [send EXCEPT ![s] = NoSend]
  /\ UNCHANGED <<netVars, recorded, storeVars, pass, undoing, shipped>>

Send(s) ==
  \/ \E w \in Wallets : sweep_to(s, w)
  \/ \E w \in Wallets, C \in SUBSET Coins :
       \/ build_sign_and_broadcast(s, w, C)
       \/ build_sign_and_broadcast_asset(s, w, C)
       \/ build_sign_and_broadcast_asset_max(s, w, C)
  \/ Broadcast(s) \/ InsertLedger(s)

Next ==
  \/ \E c \in Coins : Pay(c)
  \/ \E P \in SUBSET pool.pays, S \in SUBSET pool.spends : Mine(P, S)
  \/ \E base \in Bases, P \in SUBSET PaysOf(chain), S \in SUBSET SpendsOf(chain) : Reorg(base, P, S)
  \/ \E v \in Versions : RecordVersion(v)
  \/ Ingest \/ PassFails
  \/ \E s \in Senders : Send(s)

(* The ingestion task is polled by the runtime and its sleep ends.         *)
Spec == Init /\ [][Next]_vars /\ WF_vars(Ingest)

-----------------------------------------------------------------------------
TypeOK ==
  /\ chain \in Seq(Block) /\ Len(chain) <= MaxBlocks
  /\ stale \subseteq Seq(Block) /\ \A B \in stale : Len(B) <= Len(chain)
  /\ pool \in [pays : SUBSET Coins, spends : SUBSET SUBSET Coins]
  /\ paid \subseteq Coins /\ recorded \subseteq Versions
  /\ mined \in 0..MaxBlocks /\ reorgs \in 0..MaxReorgs /\ faults \in 0..MaxFaults
  /\ blocks \in [Heights -> 0..MaxBlocks]
  /\ cursor \in [h : 0..MaxBlocks, id : 0..MaxBlocks]
  /\ utxos \in [Coins -> [h : 0..MaxBlocks, spent : 0..MaxBlocks]]
  /\ ledger \subseteq SUBSET Coins /\ shipped \subseteq SUBSET Coins
  /\ pass \in Pass /\ undoing \in BOOLEAN
  /\ send \in [Senders -> [pc : {"idle", "broadcast", "insert"}, coins : SUBSET Coins]]

(* What a scan of the best chain up to height h finds of a coin.           *)
Scanned(c, h) ==
  LET paidAt == {i \in 1..h : c \in chain[i].pays}
      spentAt == {i \in 1..h : c \in UNION chain[i].spends}
      only(S) == IF S = {} THEN 0 ELSE CHOOSE i \in S : TRUE
  IN IF paidAt = {} \/ owner[c] \notin recorded THEN NoRow
     ELSE [h |-> only(paidAt), spent |-> only(spentAt)]

(* The row of a coin without what a pass has written beyond height h.      *)
RowUpTo(c, h) ==
  IF utxos[c].h = 0 \/ utxos[c].h > h THEN NoRow
  ELSE [utxos[c] EXCEPT !.spent = IF @ > h THEN 0 ELSE @]

(* However passes are cut short between two statements, and whatever is    *)
(* reorganised or comes back: once the cursor is on the best chain, the    *)
(* captured coins and their spent flags are exactly those of the chain up  *)
(* to the cursor.  Not so when a version is recorded during a pass, when a *)
(* block is reorganised away half scanned, or when a stored block comes    *)
(* back before a rollback is completed, whose deleted rows nothing then    *)
(* captures again: LateVersions, TornReorg and TornReturn allow these.     *)
StoreMatchesChain ==
  OnChain(cursor) => \A c \in Coins : RowUpTo(c, cursor.h) = Scanned(c, cursor.h)

(* load_wallet_versions: "funds at any version's addresses are captured":  *)
(* no coin of a recorded version lies below the cursor without a row.      *)
FundsCaptured ==
  OnChain(cursor) => \A h \in 1..cursor.h : \A c \in PaidAt(h) : utxos[c].h # 0

(* A pass that fails is only logged and the loop of spawn goes on: the     *)
(* cursor reaches the node's tip again, whatever failed before.            *)
CatchesUp ==
  []<>(recorded # {} => cursor.h = Len(chain) /\ OnChain(cursor))

Ledger == INSTANCE PaymentLedger WITH
            Payments <- SUBSET Coins, known <- shipped,
            live <- pool.spends \cup SpendsOf(chain)

(* The sends implement PaymentLedger, also when two of them select the     *)
(* same captured coin: elements_transactions has rows only for spends that *)
(* the node has accepted, and one without replacement refuses what spends  *)
(* a coin again.  With Replaces the later send pushes the earlier one out. *)
ImplementsLedger == Ledger!Spec
=============================================================================
