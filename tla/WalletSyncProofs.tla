-------------------------- MODULE WalletSyncProofs --------------------------
(***************************************************************************)
(* Proofs about WalletSync.  The type invariant holds for any number of    *)
(* tasks; what is stored and what is reconciled is right when one task at  *)
(* a time uses the wallet, for any versions, deposits and backends and any *)
(* numbers of blocks, reorganisations, restarts and faults.  That a sweep  *)
(* that is lost is noticed holds for one reorganisation and one restart,   *)
(* that none is reverted in error for any number of tasks until a restart. *)
(***************************************************************************)
EXTENDS WalletSync, SequenceTheorems, TLAPS

-----------------------------------------------------------------------------
(* The invariants.                                                         *)

(* One request or socket at a time uses the wallet.                        *)
OneTask == \A t, u \in Tasks : t = u

(* Block ids are given once.                                               *)
IdsKnown ==
  /\ Len(chain) <= mined
  /\ \A i \in 1..Len(chain) : chain[i].id <= mined

(* A changeset whose checkpoint is on the best chain has the transactions  *)
(* of the blocks up to it: no others and, with the emitter, all of them.   *)
Faithful(cs) ==
  /\ cs.tip.h <= Len(chain) /\ cs.tip.id <= mined /\ (cs.tip.h = 0 => cs.tip.id = 0)
  /\ OnChain(cs.tip) =>
       /\ \A x \in cs.conf : \E i \in 1..cs.tip.h : x \in chain[i].txs
       /\ backend = "emitter" => \A i \in 1..cs.tip.h : chain[i].txs \subseteq cs.conf

(* The aggregate is inner's changeset, except for the delta that a task    *)
(* has taken and not yet merged; what is written is the aggregate.         *)
Taken(r) == IF r.rebuilt THEN r.delta ELSE Merge(agg, r.delta)

MemInv ==
  \A t \in Tasks :
    /\ wallet[0].cs = IF task[t].pc = "merge" THEN Taken(task[t]) ELSE agg
    /\ task[t].pc = "write" => task[t].json = agg

(* Addresses that inner has revealed are in the row, or about to be.       *)
RevealInv ==
  /\ db.revealed <= wallet[0].cs.revealed
  /\ \A t \in Tasks :
       /\ task[t].pc = "reveal" => ~task[t].reveal /\ ~task[t].rebuilt
       /\ task[t].reveal => task[t].pc \in {"merge", "write"} /\ wallet[0].cs.revealed = 2
  /\ wallet[0].cs.revealed = 2 =>
       db.revealed = 2 \/ "reveal" \in dropped \/ \E t \in Tasks : task[t].reveal
  /\ RevealDurable

StoredInv == TypeOK /\ IdsKnown /\ Faithful(wallet[0].cs) /\ Faithful(db) /\ MemInv /\ RevealInv

(* The sweep is somewhere, and after inner was synced, inner knows it.     *)
Standing == Sweep \in ChainTxs \cup pool

Synchronised == {"merge", "write", "list", "check", "revert"}

SightInv ==
  /\ tool # "sweep" => shown
  /\ recorded \subseteq {Sweep} /\ (status = "complete" => tool # "sweep")
  /\ \A t \in Tasks :
       /\ task[t].pc \in Synchronised /\ ~task[t].reveal /\ tool # "sweep"
            /\ "reveal" \notin dropped /\ Standing =>
              Sweep \in wallet[0].cs.conf \cup wallet[0].seen
       /\ task[t].pc \in {"check", "revert"} => tool # "sweep" /\ task[t].wanted \subseteq {Sweep}
       /\ task[t].pc = "revert" /\ Sweep \in task[t].absent /\ "reveal" \notin dropped => ~Standing
       /\ task[t].absent \subseteq {Sweep}

-----------------------------------------------------------------------------
(* The operators.                                                          *)

(* The fields of a changeset, and the empty one.                           *)
LEMMA ChangeSetFields ==
  /\ \A cs \in ChangeSet : /\ cs.tip \in [h : Nat, id : Nat] /\ cs.tip.h \in Nat /\ cs.tip.id \in Nat
                           /\ cs.conf \in SUBSET Txs /\ cs.revealed \in 0..2
                           /\ cs = [tip |-> cs.tip, conf |-> cs.conf, revealed |-> cs.revealed]
  /\ Empty \in ChangeSet /\ Empty.tip.h = 0 /\ Empty.tip.id = 0 /\ Empty.conf = {} /\ Empty.revealed = 0
  /\ \A w \in Wallet : w.cs \in ChangeSet /\ w.seen \in SUBSET Txs
  /\ \A cs \in ChangeSet : Loaded(cs) \in Wallet /\ Loaded(cs).cs = cs
BY DEF ChangeSet, Empty, Genesis, Wallet, Loaded

(* Blocks are numbered and carry transactions.                             *)
LEMMA ChainFields ==
  ASSUME TypeOK
  PROVE  /\ Len(chain) \in Nat /\ mined \in Nat
         /\ \A i \in 1..Len(chain) : chain[i].id \in Nat /\ chain[i].txs \in SUBSET Txs
<1>1. chain \in Seq(Block) /\ mined \in Nat
  BY DEF TypeOK
<1>2. \A i \in 1..Len(chain) : chain[i] \in Block
  BY <1>1, ElementOfSeq
<1> QED
  BY <1>1, <1>2 DEF Block

(* What the chain holds from a height on.                                  *)
LEMMA TxsFromIn ==
  ASSUME TypeOK, NEW h \in Nat, h >= 1
  PROVE  /\ TxsFrom(h) \in SUBSET Txs
         /\ \A x : x \in TxsFrom(h) <=> \E i \in 1..Len(chain) : i >= h /\ x \in chain[i].txs
<1>1. \A i \in h..Len(chain) : i \in 1..Len(chain) /\ i >= h
  BY ChainFields
<1>2. \A i \in 1..Len(chain) : i >= h => i \in h..Len(chain)
  BY ChainFields
<1>3. \A x : x \in TxsFrom(h) <=> \E i \in h..Len(chain) : x \in chain[i].txs
  BY DEF TxsFrom
<1>4. \A x : x \in TxsFrom(h) <=> \E i \in 1..Len(chain) : i >= h /\ x \in chain[i].txs
  BY <1>1, <1>2, <1>3
<1>5. TxsFrom(h) \subseteq Txs
  BY <1>4, ChainFields
<1> QED
  BY <1>4, <1>5

(* What it holds at all.                                                   *)
LEMMA ChainTxsIn ==
  ASSUME TypeOK
  PROVE  /\ ChainTxs \in SUBSET Txs
         /\ \A x : x \in ChainTxs <=> \E i \in 1..Len(chain) : x \in chain[i].txs
<1>1. /\ TxsFrom(1) \in SUBSET Txs
      /\ \A x : x \in TxsFrom(1) <=> \E i \in 1..Len(chain) : i >= 1 /\ x \in chain[i].txs
  BY TxsFromIn
<1>2. \A i \in 1..Len(chain) : i >= 1
  BY ChainFields
<1> QED
  BY <1>1, <1>2 DEF ChainTxs

(* The best chain's tip is on it.                                          *)
LEMMA TipOfChain ==
  ASSUME TypeOK
  PROVE  /\ ChainTip \in [h : Nat, id : Nat] /\ ChainTip.h = Len(chain) /\ OnChain(ChainTip)
         /\ ChainTip.id = (IF Len(chain) = 0 THEN 0 ELSE chain[Len(chain)].id)
<1>1. chain \in Seq(Block) /\ Len(chain) \in Nat
  BY ChainFields DEF TypeOK
<1>2. CASE chain = <<>>
  <2>1. Len(chain) = 0
    BY <1>2
  <2> QED
    BY <1>2, <2>1 DEF ChainTip, Genesis, OnChain
<1>3. CASE chain # <<>>
  <2>1. Len(chain) # 0 /\ Len(chain) \in 1..Len(chain)
    BY <1>1, <1>3, EmptySeq
  <2>2. ChainTip = [h |-> Len(chain), id |-> chain[Len(chain)].id]
    BY <1>3 DEF ChainTip
  <2>3. ChainTip.h = Len(chain) /\ ChainTip.id = chain[Len(chain)].id
    BY <2>2
  <2>4. chain[Len(chain)].id \in Nat
    BY <2>1, ChainFields
  <2> QED
    BY <1>1, <2>1, <2>2, <2>3, <2>4 DEF OnChain
<1> QED
  BY <1>2, <1>3

(* A merge takes the higher checkpoint and unites the rest.                *)
LEMMA MergeShape ==
  ASSUME NEW a \in ChangeSet, NEW d \in ChangeSet
  PROVE  /\ Merge(a, d) \in ChangeSet
         /\ Merge(a, d).tip = (IF d.tip.h > 0 /\ d.tip.h >= a.tip.h THEN d.tip ELSE a.tip)
         /\ Merge(a, d).conf = a.conf \cup d.conf
         /\ Merge(a, d).revealed = (IF d.revealed > a.revealed THEN d.revealed ELSE a.revealed)
BY DEF Merge, ChangeSet

(* A sync brings a wallet to the tip of the chain.                         *)
LEMMA SyncedShape ==
  ASSUME TypeOK, NEW w \in Wallet
  PROVE  LET from == IF backend = "emitter" THEN w.cs.tip.h + 1 ELSE 1
             found == Visible(w) \cap (IF OnChain(w.cs.tip) THEN TxsFrom(from) ELSE ChainTxs)
         IN /\ Synced(w) \in Wallet
            /\ Synced(w).cs.tip = ChainTip /\ Synced(w).cs.revealed = w.cs.revealed
            /\ Synced(w).cs.conf = (IF OnChain(w.cs.tip) THEN w.cs.conf \cup found ELSE found)
            /\ Synced(w).seen = pool \cap Visible(w)
            /\ Synced(w) = [cs |-> Synced(w).cs, seen |-> Synced(w).seen]
<1> DEFINE from == IF backend = "emitter" THEN w.cs.tip.h + 1 ELSE 1
           found == Visible(w) \cap (IF OnChain(w.cs.tip) THEN TxsFrom(from) ELSE ChainTxs)
           conf == IF OnChain(w.cs.tip) THEN w.cs.conf \cup found ELSE found
           cs == [w.cs EXCEPT !.tip = ChainTip, !.conf = conf]
<1>1. /\ w.cs \in ChangeSet /\ w.cs.tip.h \in Nat /\ w.cs.conf \in SUBSET Txs
      /\ w.cs.revealed \in 0..2
  BY ChangeSetFields
<1>2. from \in Nat /\ from >= 1
  BY <1>1
<1>3. found \in SUBSET Txs
  BY <1>2, TxsFromIn, ChainTxsIn
<1>4. conf \in SUBSET Txs
  BY <1>1, <1>3
<1>5. ChainTip \in [h : Nat, id : Nat] /\ pool \in SUBSET Txs
  BY TipOfChain DEF TypeOK
<1>6. Synced(w) = [cs |-> cs, seen |-> pool \cap Visible(w)]
  <2>1. Synced(w) = [cs |-> [w.cs EXCEPT !.tip = ChainTip,
                                         !.conf = IF OnChain(w.cs.tip) THEN @ \cup found ELSE found],
                     seen |-> pool \cap Visible(w)]
    BY DEF Synced
  <2> HIDE DEF found
  <2> QED
    BY <2>1
<1> HIDE DEF conf, found
<1>7. cs \in ChangeSet /\ cs.tip = ChainTip /\ cs.conf = conf /\ cs.revealed = w.cs.revealed
  BY <1>1, <1>4, <1>5 DEF ChangeSet
<1> HIDE DEF cs
<1> QED
  BY <1>5, <1>6, <1>7 DEF Wallet, conf, found

(* What a sync stages is a changeset.                                      *)
LEMMA StagedShape ==
  ASSUME TypeOK, NEW w \in Wallet
  PROVE  /\ Staged(w) \in ChangeSet
         /\ ~OnChain(w.cs.tip) => Staged(w) = Synced(w).cs
         /\ OnChain(w.cs.tip) =>
              /\ Staged(w).tip = (IF w.cs.tip = ChainTip THEN Genesis ELSE ChainTip)
              /\ Staged(w).conf = Synced(w).cs.conf \ w.cs.conf /\ Staged(w).revealed = 0
<1>1. Synced(w).cs \in ChangeSet /\ Synced(w).cs.conf \in SUBSET Txs
  <2>1. Synced(w) \in Wallet
    BY SyncedShape
  <2>2. Synced(w).cs \in ChangeSet
    BY <2>1, ChangeSetFields
  <2> QED
    BY <2>2, ChangeSetFields
<1>2. ChainTip \in [h : Nat, id : Nat] /\ Genesis \in [h : Nat, id : Nat]
  BY TipOfChain DEF Genesis
<1> QED
  BY <1>1, <1>2 DEF Staged, ChangeSet

-----------------------------------------------------------------------------
(* The steps of the network and of the migration tool.                     *)

(* A block is added.                                                       *)
LEMMA MineChain ==
  ASSUME TypeOK, NEW S \in SUBSET pool, Mine(S)
  PROVE  /\ chain' \in Seq(Block) /\ Len(chain') = Len(chain) + 1
         /\ \A i \in 1..Len(chain) : chain'[i] = chain[i]
         /\ chain'[Len(chain) + 1] = [id |-> mined + 1, txs |-> S]
<1> DEFINE b == [id |-> mined + 1, txs |-> S]
<1>1. chain \in Seq(Block) /\ b \in Block /\ chain' = Append(chain, b)
  BY DEF TypeOK, Block, Mine
<1> HIDE DEF b
<1>2. /\ chain' \in Seq(Block) /\ Len(chain') = Len(chain) + 1
      /\ \A i \in 1..Len(chain) : chain'[i] = chain[i]
      /\ chain'[Len(chain) + 1] = b
  BY <1>1, AppendProperties
<1> QED
  BY <1>2 DEF b

(* The last block is replaced by two.                                      *)
LEMMA ReorgChain ==
  ASSUME TypeOK, NEW S \in SUBSET Txs, Reorg(S)
  PROVE  LET m == Len(chain) IN
         /\ m \in Nat /\ m >= 1 /\ chain' \in Seq(Block) /\ Len(chain') = m + 1
         /\ \A i \in 1..(m - 1) : chain'[i] = chain[i]
         /\ chain'[m] = [id |-> mined + 1, txs |-> {}]
         /\ chain'[m + 1] = [id |-> mined + 2, txs |-> {}]
<1> DEFINE m == Len(chain)
           e1 == [id |-> mined + 1, txs |-> {}]
           e2 == [id |-> mined + 2, txs |-> {}]
           pre == SubSeq(chain, 1, m - 1)
<1>1. chain # <<>> /\ chain' = pre \o <<e1, e2>>
  BY DEF Reorg
<1>2. chain \in Seq(Block) /\ \A i \in 1..m : chain[i] \in Block
  BY ElementOfSeq DEF TypeOK
<1>3. m \in Nat /\ m >= 1 /\ mined \in Nat
  BY <1>1, <1>2, EmptySeq, ChainFields
<1>4. e1 \in Block /\ e2 \in Block
  BY <1>3 DEF Block
<1>5. pre \in Seq(Block) /\ Len(pre) = m - 1 /\ \A i \in 1..(m - 1) : pre[i] = chain[i]
  <2>1. \A i \in 1..(m - 1) : chain[i] \in Block
    BY <1>2, <1>3
  <2>2. /\ pre \in Seq(Block) /\ Len(pre) = (IF 1 <= m - 1 THEN (m - 1) - 1 + 1 ELSE 0)
        /\ \A i \in 1..((m - 1) - 1 + 1) : pre[i] = chain[1 + i - 1]
    <3>1. 1 \in Int /\ m - 1 \in Int
      BY <1>3
    <3> QED
      BY <1>2, <2>1, <3>1, SubSeqProperties
  <2> HIDE DEF pre, m
  <2>3. Len(pre) = m - 1
    BY <1>3, <2>2
  <2>4. ASSUME NEW i \in 1..(m - 1) PROVE pre[i] = chain[i]
    <3>1. i \in 1..((m - 1) - 1 + 1) /\ 1 + i - 1 = i
      BY <1>3, <2>4
    <3> QED
      BY <2>2, <3>1
  <2> QED
    BY <2>2, <2>3, <2>4
<1>6. <<e1, e2>> \in Seq(Block) /\ Len(<<e1, e2>>) = 2 /\ <<e1, e2>>[1] = e1 /\ <<e1, e2>>[2] = e2
  BY <1>4
<1> HIDE DEF pre, m, e1, e2
<1>7. /\ pre \o <<e1, e2>> \in Seq(Block) /\ Len(pre \o <<e1, e2>>) = (m - 1) + 2
      /\ \A i \in 1..((m - 1) + 2) :
           (pre \o <<e1, e2>>)[i] = IF i <= m - 1 THEN pre[i] ELSE <<e1, e2>>[i - (m - 1)]
  BY <1>5, <1>6, ConcatProperties
<1>8. /\ chain' \in Seq(Block) /\ Len(chain') = m + 1
      /\ \A i \in 1..(m - 1) : chain'[i] = chain[i]
      /\ chain'[m] = e1 /\ chain'[m + 1] = e2
  <2>1. \A i \in 1..(m + 1) : chain'[i] = IF i <= m - 1 THEN pre[i] ELSE <<e1, e2>>[i - (m - 1)]
    BY <1>1, <1>3, <1>7
  <2>2. \A i \in 1..(m - 1) : chain'[i] = chain[i]
    BY <1>3, <1>5, <2>1
  <2>3. m \in 1..(m + 1) /\ ~(m <= m - 1) /\ m - (m - 1) = 1
        /\ m + 1 \in 1..(m + 1) /\ ~(m + 1 <= m - 1) /\ (m + 1) - (m - 1) = 2
    BY <1>3
  <2>4. chain'[m] = e1 /\ chain'[m + 1] = e2
    BY <1>6, <2>1, <2>3
  <2> QED
    BY <1>1, <1>3, <1>7, <2>2, <2>4
<1> QED
  BY <1>3, <1>8 DEF m, e1, e2

NetStep ==
  \/ \E x \in Deposits : Pay(x)
  \/ \E S \in SUBSET pool : Mine(S)
  \/ \E S \in SUBSET Txs : Reorg(S)
  \/ BroadcastSweep \/ MarkComplete

(* What these steps leave alone, and their types.                          *)
LEMMA NetTyped ==
  ASSUME TypeOK, NetStep
  PROVE  /\ TypeOK' /\ UNCHANGED <<backend, wallet, agg, db, task, shown, dropped, restarts, rebound>>
         /\ Len(chain) <= Len(chain')
<1>0. /\ backend \in Backends /\ chain \in Seq(Block) /\ pool \subseteq Txs /\ paid \subseteq Txs
      /\ mined \in Nat /\ reorgs \in Nat /\ lost \in BOOLEAN
      /\ status \in {"pending", "complete"} /\ recorded \subseteq Txs
      /\ tool \in {"sweep", "mark", "done"} /\ Deposits \subseteq Txs /\ Sweep \in Txs
      /\ Len(chain) \in Nat
  BY ChainFields DEF TypeOK, Txs
<1>1. UNCHANGED <<backend, wallet, agg, db, task, shown, dropped, restarts, rebound>>
  BY DEF NetStep, Pay, Mine, Reorg, BroadcastSweep, MarkComplete, rowVars, memVars, netVars
<1> DEFINE typed == /\ chain' \in Seq(Block) /\ Len(chain) <= Len(chain')
                    /\ mined' \in Nat /\ reorgs' \in Nat /\ lost' \in BOOLEAN
                    /\ pool' \subseteq Txs /\ paid' \subseteq Txs
                    /\ status' \in {"pending", "complete"} /\ recorded' \subseteq Txs
                    /\ tool' \in {"sweep", "mark", "done"}
<1>2. typed
  <2>1. ASSUME NEW x \in Deposits, Pay(x) PROVE typed
    BY <1>0, <2>1 DEF Pay, rowVars
  <2>2. ASSUME NEW S \in SUBSET pool, Mine(S) PROVE typed
    BY <1>0, <2>2, MineChain DEF Mine, rowVars
  <2>3. ASSUME NEW S \in SUBSET Txs, Reorg(S) PROVE typed
    <3>1. chain' \in Seq(Block) /\ Len(chain) <= Len(chain')
      BY <1>0, <2>3, ReorgChain
    <3> QED
      BY <1>0, <2>3, <3>1 DEF Reorg, rowVars
  <2>4. ASSUME BroadcastSweep PROVE typed
    BY <1>0, <2>4 DEF BroadcastSweep
  <2>5. ASSUME MarkComplete PROVE typed
    BY <1>0, <2>5 DEF MarkComplete, netVars
  <2> QED
    <3> HIDE DEF typed
    <3> QED
      BY <2>1, <2>2, <2>3, <2>4, <2>5 DEF NetStep
<1> QED
  BY <1>1, <1>2 DEF TypeOK

-----------------------------------------------------------------------------
(* The steps of the tasks: what each writes.                               *)

(* The fields of a task, and the idle one.                                 *)
LEMMA TaskFields ==
  /\ \A r \in Task : /\ r.pc \in Stage /\ r.at \in 1..Versions /\ r.reorg \in BOOLEAN
                     /\ r.rebuilt \in BOOLEAN /\ r.page \in BOOLEAN /\ r.reveal \in BOOLEAN
                     /\ r.delta \in ChangeSet /\ r.json \in ChangeSet
                     /\ r.wanted \in SUBSET Txs /\ r.absent \in SUBSET Txs
  /\ Idle \in Task /\ Idle.pc = "idle" /\ Idle.reveal = FALSE /\ Idle.rebuilt = FALSE
  /\ Idle.absent = {} /\ Idle.at = 1 /\ Idle.reorg = FALSE
BY SyncAssumption, ChangeSetFields DEF Task, Idle, Stage

(* What the tasks find.                                                    *)
LEMMA StateFields ==
  ASSUME TypeOK
  PROVE  /\ task \in [Tasks -> Task] /\ wallet \in [0..Versions -> Wallet] /\ 0 \in 0..Versions
         /\ \A i \in 0..Versions : wallet[i] \in Wallet /\ wallet[i].cs \in ChangeSet
         /\ agg \in ChangeSet /\ db \in ChangeSet
BY SyncAssumption, ChangeSetFields DEF TypeOK

(* A step of a task is typed when what it writes is.                       *)
LEMMA WritesTyped ==
  ASSUME TypeOK, UNCHANGED <<backend, chain, pool, paid, mined, reorgs, tool>>,
         status' \in {"pending", "complete"}, recorded' \subseteq Txs,
         rebound' \in BOOLEAN, restarts' \in Nat, lost' \in BOOLEAN, shown' \in BOOLEAN,
         dropped' \subseteq {"sync", "reveal"},
         wallet' \in [0..Versions -> Wallet], agg' \in ChangeSet, db' \in ChangeSet,
         task' \in [Tasks -> Task]
  PROVE  TypeOK'
BY DEF TypeOK

(* The same for one that leaves the wallets' row and history alone.        *)
LEMMA TaskTyped ==
  ASSUME TypeOK, UNCHANGED <<backend, chain, pool, paid, mined, reorgs, status, recorded, tool,
                             rebound, lost, dropped, restarts>>,
         shown' \in BOOLEAN,
         wallet' \in [0..Versions -> Wallet], agg' \in ChangeSet, db' \in ChangeSet,
         task' \in [Tasks -> Task]
  PROVE  TypeOK'
<1>1. /\ status \in {"pending", "complete"} /\ recorded \subseteq Txs /\ rebound \in BOOLEAN
      /\ restarts \in Nat /\ lost \in BOOLEAN /\ dropped \subseteq {"sync", "reveal"}
  BY DEF TypeOK
<1> QED
  BY <1>1, WritesTyped

(* What no step of the tasks but Revert, Abort and Restart changes.        *)
Kept == UNCHANGED <<backend, chain, pool, paid, mined, reorgs, status, recorded, tool, rebound,
                    lost, dropped, restarts>>

(* A wallet that knows the same blocks and transactions as before.         *)
SameKnown(w, v) == v.cs.tip = w.cs.tip /\ v.cs.conf = w.cs.conf /\ v.seen = w.seen

Others(t) == \A u \in Tasks : u # t => task'[u] = task[u]

(* A sync begins.                                                          *)
LEMMA StartStep ==
  ASSUME TypeOK, NEW t \in Tasks, NEW page \in BOOLEAN, Start(t, page)
  PROVE  /\ TypeOK' /\ Kept /\ Others(t) /\ UNCHANGED <<wallet, agg, db, shown>>
         /\ task[t].pc = "idle"
         /\ task'[t].pc \in {"versions", "reveal_versions"} /\ ~task'[t].reveal /\ ~task'[t].rebuilt
         /\ task'[t].absent = {} /\ task'[t].at = 1
<1> DEFINE r == [Idle EXCEPT !.pc = IF backend = "emitter" THEN "versions" ELSE "reveal_versions",
                             !.page = page]
<1>1. /\ r \in Task /\ r.pc \in {"versions", "reveal_versions"} /\ ~r.reveal /\ ~r.rebuilt
      /\ r.absent = {} /\ r.at = 1
  BY TaskFields DEF Task, Stage
<1>2. task' = [task EXCEPT ![t] = r]
  BY DEF Start
<1> HIDE DEF r
<1>3. task' \in [Tasks -> Task] /\ task'[t] = r /\ Others(t)
  BY <1>1, <1>2, StateFields DEF Others
<1>4. Kept /\ UNCHANGED <<wallet, agg, db, shown>> /\ task[t].pc = "idle"
  BY DEF Start, Kept, netVars, rowVars, memVars
<1>5. TypeOK'
  BY <1>3, <1>4, StateFields, TaskTyped DEF Kept, TypeOK
<1> QED
  BY <1>1, <1>3, <1>4, <1>5

(* The version wallets follow inner, which itself does not change.         *)
LEMMA RevealVersionsStep ==
  ASSUME TypeOK, NEW t \in Tasks, reveal_version_wallets_to_inner(t)
  PROVE  /\ TypeOK' /\ Kept /\ Others(t) /\ UNCHANGED <<agg, db, shown>>
         /\ wallet'[0].cs = wallet[0].cs /\ wallet'[0].seen = wallet[0].seen
         /\ \A i \in 0..Versions : SameKnown(wallet[i], wallet'[i])
         /\ task[t].pc = "reveal_versions" /\ task'[t].pc = "versions"
         /\ task'[t].reveal = task[t].reveal /\ task'[t].rebuilt = task[t].rebuilt
         /\ task'[t].absent = task[t].absent /\ task'[t].at = task[t].at
<1>1. /\ task' = [task EXCEPT ![t].pc = "versions"] /\ task[t].pc = "reveal_versions"
      /\ Kept /\ UNCHANGED <<agg, db, shown>>
      /\ wallet' = [i \in 0..Versions |->
                      [wallet[i] EXCEPT !.cs.revealed =
                         IF wallet[0].cs.revealed > @ THEN wallet[0].cs.revealed ELSE @]]
  BY DEF reveal_version_wallets_to_inner, Goto, Kept, netVars, rowVars
<1>2. /\ task' \in [Tasks -> Task] /\ Others(t) /\ task'[t].pc = "versions"
      /\ task'[t].reveal = task[t].reveal /\ task'[t].rebuilt = task[t].rebuilt
      /\ task'[t].absent = task[t].absent /\ task'[t].at = task[t].at
  BY <1>1, StateFields DEF Task, Stage, Others
<1>3. wallet' \in [0..Versions -> Wallet]
  <2>1. ASSUME NEW i \in 0..Versions, NEW n \in 0..2
        PROVE  [wallet[i] EXCEPT !.cs.revealed = n] \in Wallet
    BY StateFields DEF Wallet, ChangeSet
  <2>2. \A i \in 0..Versions : wallet[i].cs.revealed \in 0..2
    BY StateFields, ChangeSetFields
  <2>3. \A i \in 0..Versions :
          (IF wallet[0].cs.revealed > wallet[i].cs.revealed
           THEN wallet[0].cs.revealed ELSE wallet[i].cs.revealed) \in 0..2
    BY <2>2, StateFields
  <2> QED
    BY <1>1, <2>1, <2>3
<1>4. wallet'[0].cs = wallet[0].cs /\ wallet'[0].seen = wallet[0].seen
  <2>1. wallet'[0] = [wallet[0] EXCEPT !.cs.revealed = wallet[0].cs.revealed]
    BY <1>1, StateFields
  <2> QED
    BY <2>1, StateFields DEF Wallet, ChangeSet
<1>5. TypeOK'
  BY <1>1, <1>2, <1>3, StateFields, TaskTyped DEF Kept, TypeOK
<1>6. ASSUME NEW i \in 0..Versions PROVE SameKnown(wallet[i], wallet'[i])
  <2>1. PICK n : wallet'[i] = [wallet[i] EXCEPT !.cs.revealed = n]
    BY <1>1
  <2> QED
    BY <2>1, StateFields DEF Wallet, ChangeSet, SameKnown
<1> QED
  BY <1>1, <1>2, <1>4, <1>5, <1>6

(* A version wallet is synced.                                             *)
LEMMA SyncVersionStep ==
  ASSUME TypeOK, NEW t \in Tasks, SyncVersion(t)
  PROVE  /\ TypeOK' /\ Kept /\ Others(t) /\ UNCHANGED <<agg, db, shown>>
         /\ wallet'[0] = wallet[0]
         /\ wallet'[task[t].at] = Synced(wallet[task[t].at])
         /\ \A i \in 0..Versions : i # task[t].at => wallet'[i] = wallet[i]
         /\ task[t].pc = "versions" /\ task'[t].pc \in {"versions", "inner"}
         /\ task'[t].pc = "versions" => task'[t].at = task[t].at + 1
         /\ task'[t].pc = "inner" => task[t].at = Versions
         /\ task'[t].reveal = task[t].reveal /\ task'[t].rebuilt = task[t].rebuilt
         /\ task'[t].absent = task[t].absent
         /\ task'[t].reorg = (task[t].reorg \/ ~OnChain(wallet[task[t].at].cs.tip))
<1> DEFINE r == task[t]
           last == r.at = Versions
<1>0. r \in Task /\ r.at \in 1..Versions /\ r.at \in 0..Versions /\ r.at # 0
  <2>1. r \in Task /\ r.at \in 1..Versions
    BY StateFields, TaskFields
  <2> QED
    BY <2>1, SyncAssumption
<1>1. /\ wallet' = [wallet EXCEPT ![r.at] = Synced(wallet[r.at])]
      /\ task' = [task EXCEPT ![t].reorg = r.reorg \/ ~OnChain(wallet[r.at].cs.tip),
                              ![t].pc = IF last THEN "inner" ELSE "versions",
                              ![t].at = IF last THEN 1 ELSE r.at + 1]
      /\ r.pc = "versions" /\ Kept /\ UNCHANGED <<agg, db, shown>>
  BY DEF SyncVersion, Kept, netVars, rowVars
<1>2. /\ wallet' \in [0..Versions -> Wallet] /\ wallet'[0] = wallet[0]
      /\ wallet'[r.at] = Synced(wallet[r.at])
      /\ \A i \in 0..Versions : i # r.at => wallet'[i] = wallet[i]
  BY <1>0, <1>1, StateFields, SyncedShape
<1>3. /\ task' \in [Tasks -> Task] /\ Others(t) /\ task'[t].pc \in {"versions", "inner"}
      /\ task'[t].reveal = r.reveal /\ task'[t].rebuilt = r.rebuilt /\ task'[t].absent = r.absent
      /\ task'[t].pc = "versions" => task'[t].at = r.at + 1
      /\ task'[t].pc = "inner" => r.at = Versions
      /\ task'[t].reorg = (r.reorg \/ ~OnChain(wallet[r.at].cs.tip))
  <2>1. PICK at \in 1..Versions : at = IF last THEN 1 ELSE r.at + 1
    BY <1>0, SyncAssumption
  <2>2. PICK pc \in {"inner", "versions"} : pc = IF last THEN "inner" ELSE "versions"
    OBVIOUS
  <2>3. PICK b \in BOOLEAN : b = (r.reorg \/ ~OnChain(wallet[r.at].cs.tip))
    OBVIOUS
  <2>4. task' = [task EXCEPT ![t].reorg = b, ![t].pc = pc, ![t].at = at]
    BY <1>1, <2>1, <2>2, <2>3
  <2>5. PICK q : q = [r EXCEPT !.reorg = b, !.pc = pc, !.at = at]
    OBVIOUS
  <2>6. task' = [task EXCEPT ![t] = q]
    BY <2>4, <2>5, StateFields
  <2>7. /\ q \in Task /\ q.pc = pc /\ q.reveal = r.reveal /\ q.rebuilt = r.rebuilt
        /\ q.absent = r.absent /\ q.at = at /\ q.reorg = b
    BY <1>0, <2>5 DEF Task, Stage
  <2>8. /\ task' \in [Tasks -> Task] /\ Others(t) /\ task'[t] = q
    BY <2>6, <2>7, StateFields DEF Others
  <2>9. pc \in {"versions", "inner"} /\ (pc = "versions" => at = r.at + 1) /\ (pc = "inner" => last)
    BY <2>1, <2>2
  <2> HIDE DEF r
  <2> QED
    BY <2>3, <2>7, <2>8, <2>9
<1>4. TypeOK'
  BY <1>1, <1>2, <1>3, StateFields, TaskTyped DEF Kept, TypeOK
<1> QED
  BY <1>1, <1>2, <1>3, <1>4

(* inner is synced and its staged delta taken.                             *)
LEMMA SyncInnerStep ==
  ASSUME TypeOK, NEW t \in Tasks, SyncInner(t)
  PROVE  /\ TypeOK' /\ Kept /\ Others(t) /\ UNCHANGED <<agg, db, shown>>
         /\ wallet'[0] = Synced(wallet[0])
         /\ task[t].pc = "inner"
         /\ task'[t].pc = (IF Synced(wallet[0]) = wallet[0] THEN "list" ELSE "merge")
         /\ task'[t].rebuilt = ~OnChain(wallet[0].cs.tip) /\ task'[t].delta = Staged(wallet[0])
         /\ task'[t].reveal = task[t].reveal /\ task'[t].absent = task[t].absent
         /\ task'[t].reorg = (task[t].reorg \/ ~OnChain(wallet[0].cs.tip))
         /\ \A i \in 1..Versions : wallet'[i] = wallet[i]
<1>0. wallet[0] \in Wallet /\ 0 \in 0..Versions
  BY StateFields
<1>1. /\ wallet' = [wallet EXCEPT ![0] = Synced(wallet[0])]
      /\ task[t].pc = "inner" /\ Kept /\ UNCHANGED <<agg, db, shown>>
      /\ task' = [task EXCEPT ![t].pc = IF Synced(wallet[0]) = wallet[0] THEN "list" ELSE "merge",
                              ![t].reorg = task[t].reorg \/ ~OnChain(wallet[0].cs.tip),
                              ![t].rebuilt = ~OnChain(wallet[0].cs.tip),
                              ![t].delta = Staged(wallet[0])]
  BY DEF SyncInner, Kept, netVars, rowVars
<1>2. /\ wallet' \in [0..Versions -> Wallet] /\ wallet'[0] = Synced(wallet[0])
      /\ \A i \in 1..Versions : wallet'[i] = wallet[i]
  <2>1. \A i \in 1..Versions : i \in 0..Versions /\ i # 0
    BY SyncAssumption
  <2> QED
    BY <1>0, <1>1, <2>1, StateFields, SyncedShape
<1>3. /\ task' \in [Tasks -> Task] /\ Others(t)
      /\ task'[t].pc = (IF Synced(wallet[0]) = wallet[0] THEN "list" ELSE "merge")
      /\ task'[t].rebuilt = ~OnChain(wallet[0].cs.tip) /\ task'[t].delta = Staged(wallet[0])
      /\ task'[t].reveal = task[t].reveal /\ task'[t].absent = task[t].absent
      /\ task'[t].reorg = (task[t].reorg \/ ~OnChain(wallet[0].cs.tip))
  <2>1. PICK pc \in {"list", "merge"} : pc = IF Synced(wallet[0]) = wallet[0] THEN "list" ELSE "merge"
    OBVIOUS
  <2>2. PICK b \in BOOLEAN : b = (task[t].reorg \/ ~OnChain(wallet[0].cs.tip))
    OBVIOUS
  <2>3. PICK f \in BOOLEAN : f = ~OnChain(wallet[0].cs.tip)
    OBVIOUS
  <2>4. PICK d \in ChangeSet : d = Staged(wallet[0])
    BY <1>0, StagedShape
  <2>5. task' = [task EXCEPT ![t].pc = pc, ![t].reorg = b, ![t].rebuilt = f, ![t].delta = d]
    BY <1>1, <2>1, <2>2, <2>3, <2>4
  <2>6. /\ task' \in [Tasks -> Task] /\ Others(t) /\ task'[t].pc = pc
        /\ task'[t].rebuilt = f /\ task'[t].delta = d /\ task'[t].reorg = b
        /\ task'[t].reveal = task[t].reveal /\ task'[t].absent = task[t].absent
    <3>1. PICK q : q = [task[t] EXCEPT !.pc = pc, !.reorg = b, !.rebuilt = f, !.delta = d]
      OBVIOUS
    <3>2. task' = [task EXCEPT ![t] = q]
      BY <2>5, <3>1, StateFields
    <3>3. /\ q \in Task /\ q.pc = pc /\ q.rebuilt = f /\ q.delta = d /\ q.reorg = b
          /\ q.reveal = task[t].reveal /\ q.absent = task[t].absent
      BY <3>1, StateFields DEF Task, Stage
    <3> QED
      BY <3>2, <3>3, StateFields DEF Others
  <2> QED
    BY <2>1, <2>2, <2>3, <2>4, <2>6
<1>4. TypeOK'
  BY <1>1, <1>2, <1>3, StateFields, TaskTyped DEF Kept, TypeOK
<1> QED
  BY <1>1, <1>2, <1>3, <1>4

(* The delta goes into the aggregate, which is encoded.                    *)
LEMMA MergeStep ==
  ASSUME TypeOK, NEW t \in Tasks, MergeDelta(t)
  PROVE  /\ TypeOK' /\ Kept /\ Others(t) /\ UNCHANGED <<wallet, db, shown>>
         /\ task[t].pc = "merge" /\ task'[t].pc = "write"
         /\ agg' = Taken(task[t]) /\ task'[t].json = agg'
         /\ task'[t].reveal = task[t].reveal /\ task'[t].absent = task[t].absent
         /\ task'[t].reorg = task[t].reorg
<1>0. task[t] \in Task /\ agg \in ChangeSet /\ task[t].delta \in ChangeSet
  BY StateFields, TaskFields
<1>1. PICK new : new = Taken(task[t])
  OBVIOUS
<1>2. new \in ChangeSet
  BY <1>0, <1>1, MergeShape DEF Taken
<1>3. /\ agg' = new /\ task' = [task EXCEPT ![t].pc = "write", ![t].json = new, ![t].delta = Empty]
      /\ task[t].pc = "merge" /\ Kept /\ UNCHANGED <<wallet, db, shown>>
  BY <1>1 DEF MergeDelta, Taken, Kept, netVars, rowVars
<1>4. /\ task' \in [Tasks -> Task] /\ Others(t) /\ task'[t].pc = "write" /\ task'[t].json = new
      /\ task'[t].reveal = task[t].reveal /\ task'[t].absent = task[t].absent
      /\ task'[t].reorg = task[t].reorg
  <2>1. PICK q : q = [task[t] EXCEPT !.pc = "write", !.json = new, !.delta = Empty]
    OBVIOUS
  <2>2. task' = [task EXCEPT ![t] = q]
    BY <1>3, <2>1, StateFields
  <2>3. /\ q \in Task /\ q.pc = "write" /\ q.json = new
        /\ q.reveal = task[t].reveal /\ q.absent = task[t].absent /\ q.reorg = task[t].reorg
    BY <1>0, <1>2, <2>1, ChangeSetFields DEF Task, Stage
  <2> QED
    BY <2>2, <2>3, StateFields DEF Others
<1>5. TypeOK'
  BY <1>2, <1>3, <1>4, StateFields, TaskTyped DEF Kept, TypeOK
<1> QED
  BY <1>1, <1>3, <1>4, <1>5

(* The changeset is written: addresses are shown, or the sync goes on.     *)
LEMMA WriteStep ==
  ASSUME TypeOK, NEW t \in Tasks, WriteChangeset(t)
  PROVE  /\ TypeOK' /\ Kept /\ Others(t) /\ UNCHANGED <<wallet, agg>>
         /\ task[t].pc = "write" /\ db' = task[t].json
         /\ task'[t].reveal = FALSE
         /\ \/ task[t].reveal /\ task'[t].pc = "idle" /\ shown' = TRUE /\ task'[t].absent = {}
            \/ ~task[t].reveal /\ task'[t].pc = "list" /\ shown' = shown
               /\ task'[t].absent = task[t].absent /\ task'[t].reorg = task[t].reorg
<1>0. task[t] \in Task /\ task[t].json \in ChangeSet
  BY StateFields, TaskFields
<1>1. Kept /\ UNCHANGED <<wallet, agg>> /\ task[t].pc = "write" /\ db' = task[t].json
  BY DEF WriteChangeset, Kept, netVars, rowVars, memVars
<1>2. CASE task[t].reveal
  <2>1. task' = [task EXCEPT ![t] = Idle] /\ shown' = TRUE
    BY <1>2 DEF WriteChangeset
  <2>2. task' \in [Tasks -> Task] /\ Others(t) /\ task'[t] = Idle
    BY <2>1, StateFields, TaskFields DEF Others
  <2>3. TypeOK'
    BY <1>0, <1>1, <2>1, <2>2, StateFields, TaskTyped DEF Kept, TypeOK
  <2> QED
    BY <1>1, <1>2, <2>1, <2>2, <2>3, TaskFields
<1>3. CASE ~task[t].reveal
  <2>1. task' = [task EXCEPT ![t].pc = "list", ![t].json = Empty] /\ shown' = shown
    BY <1>3 DEF WriteChangeset
  <2>2. PICK q : q = [task[t] EXCEPT !.pc = "list", !.json = Empty]
    OBVIOUS
  <2>3. task' = [task EXCEPT ![t] = q]
    BY <2>1, <2>2, StateFields
  <2>4. /\ q \in Task /\ q.pc = "list" /\ q.reveal = task[t].reveal /\ q.absent = task[t].absent
        /\ q.reorg = task[t].reorg
    BY <1>0, <2>2, ChangeSetFields DEF Task, Stage
  <2>5. task' \in [Tasks -> Task] /\ Others(t) /\ task'[t] = q
    BY <2>3, <2>4, StateFields DEF Others
  <2>6. task[t].reveal = FALSE
    BY <1>0, <1>3, TaskFields
  <2>7. TypeOK'
    BY <1>0, <1>1, <2>1, <2>5, StateFields, TaskTyped DEF Kept, TypeOK
  <2> QED
    BY <1>1, <1>3, <2>1, <2>4, <2>5, <2>6, <2>7
<1> QED
  BY <1>2, <1>3

(* A sync that is over: nothing is left of it.                             *)
LEMMA EndShape ==
  ASSUME TypeOK, NEW t \in Tasks, EndSync(t)
  PROVE  /\ task' \in [Tasks -> Task] /\ Others(t)
         /\ task'[t].pc \in {"idle", "reveal"} /\ ~task'[t].reveal /\ ~task'[t].rebuilt
         /\ task'[t].absent = {}
<1>1. PICK q : q = IF task[t].page THEN [Idle EXCEPT !.pc = "reveal", !.page = TRUE] ELSE Idle
  OBVIOUS
<1>2. task' = [task EXCEPT ![t] = q]
  BY <1>1 DEF EndSync
<1>3. q \in Task /\ q.pc \in {"idle", "reveal"} /\ ~q.reveal /\ ~q.rebuilt /\ q.absent = {}
  BY <1>1, TaskFields DEF Task, Stage
<1> QED
  BY <1>2, <1>3, StateFields DEF Others

(* The completed versions are read after a reorg.                          *)
LEMMA ListStep ==
  ASSUME TypeOK, NEW t \in Tasks, ListCompleted(t)
  PROVE  /\ TypeOK' /\ Kept /\ Others(t) /\ UNCHANGED <<wallet, agg, db, shown>>
         /\ task[t].pc = "list"
         /\ \/ /\ task'[t].pc \in {"idle", "reveal"} /\ ~task'[t].reveal /\ ~task'[t].rebuilt
               /\ task'[t].absent = {}
               /\ ~(task[t].reorg /\ status = "complete" /\ recorded # {})
            \/ /\ task'[t].pc = "check" /\ status = "complete" /\ task'[t].wanted = recorded
               /\ task'[t].reveal = task[t].reveal /\ task'[t].absent = task[t].absent
               /\ task'[t].reorg = task[t].reorg
<1> DEFINE wanted == IF status = "complete" THEN recorded ELSE {}
<1>1. Kept /\ UNCHANGED <<wallet, agg, db, shown>> /\ task[t].pc = "list"
  BY DEF ListCompleted, Kept, netVars, rowVars, memVars
<1>2. CASE task[t].reorg /\ wanted # {}
  <2>1. task' = [task EXCEPT ![t].pc = "check", ![t].wanted = wanted]
    BY <1>2 DEF ListCompleted
  <2>2. status = "complete" /\ wanted = recorded /\ recorded \in SUBSET Txs
    BY <1>2 DEF TypeOK
  <2>3. PICK q : q = [task[t] EXCEPT !.pc = "check", !.wanted = recorded]
    OBVIOUS
  <2>4. task' = [task EXCEPT ![t] = q]
    BY <2>1, <2>2, <2>3, StateFields
  <2>5. /\ q \in Task /\ q.pc = "check" /\ q.wanted = recorded
        /\ q.reveal = task[t].reveal /\ q.absent = task[t].absent /\ q.reorg = task[t].reorg
    BY <2>2, <2>3, StateFields DEF Task, Stage
  <2>6. task' \in [Tasks -> Task] /\ Others(t) /\ task'[t] = q
    BY <2>4, <2>5, StateFields DEF Others
  <2>7. TypeOK'
    BY <1>1, <2>6, StateFields, TaskTyped DEF Kept, TypeOK
  <2> QED
    BY <1>1, <2>2, <2>5, <2>6, <2>7
<1>3. CASE ~(task[t].reorg /\ wanted # {})
  <2>1. EndSync(t)
    BY <1>3 DEF ListCompleted
  <2>2. /\ task' \in [Tasks -> Task] /\ Others(t)
        /\ task'[t].pc \in {"idle", "reveal"} /\ ~task'[t].reveal /\ ~task'[t].rebuilt
        /\ task'[t].absent = {}
    BY <2>1, EndShape
  <2>3. TypeOK'
    BY <1>1, <2>2, StateFields, TaskTyped DEF Kept, TypeOK
  <2>4. ~(task[t].reorg /\ status = "complete" /\ recorded # {})
    BY <1>3
  <2> QED
    BY <1>1, <2>2, <2>3, <2>4
<1> QED
  BY <1>2, <1>3

(* The recorded sweeps are looked for in the wallets.                      *)
LEMMA CheckStep ==
  ASSUME TypeOK, NEW t \in Tasks, CheckPresence(t)
  PROVE  /\ TypeOK' /\ Kept /\ Others(t) /\ UNCHANGED <<wallet, agg, db, shown>>
         /\ task[t].pc = "check" /\ task'[t].pc = "revert"
         /\ task'[t].reveal = task[t].reveal /\ task'[t].wanted = task[t].wanted
         /\ task'[t].absent \subseteq task[t].wanted
         /\ \A x \in task'[t].absent : x \notin wallet[0].cs.conf \cup wallet[0].seen
         /\ task'[t].reorg = task[t].reorg
         /\ \A x \in task[t].wanted :
              x \in task'[t].absent \/ \E i \in 0..Versions : x \in wallet[i].cs.conf \cup wallet[i].seen
<1>0. task[t] \in Task /\ task[t].wanted \in SUBSET Txs
  BY StateFields, TaskFields
<1>1. PICK a : a = task[t].wanted \ txids_present_in_graph(task[t].wanted)
  OBVIOUS
<1>2. /\ Kept /\ UNCHANGED <<wallet, agg, db, shown>> /\ task[t].pc = "check"
      /\ task' = [task EXCEPT ![t].pc = "revert", ![t].absent = a]
  BY <1>1 DEF CheckPresence, Kept, netVars, rowVars, memVars
<1>3. a \in SUBSET Txs /\ a \subseteq task[t].wanted
  BY <1>0, <1>1
<1>4. /\ \A x \in a : x \notin wallet[0].cs.conf \cup wallet[0].seen
      /\ \A x \in task[t].wanted :
           x \in a \/ \E i \in 0..Versions : x \in wallet[i].cs.conf \cup wallet[i].seen
  BY <1>1, StateFields DEF txids_present_in_graph
<1>5. PICK q : q = [task[t] EXCEPT !.pc = "revert", !.absent = a]
  OBVIOUS
<1>6. task' = [task EXCEPT ![t] = q]
  BY <1>2, <1>5, StateFields
<1>7. /\ q \in Task /\ q.pc = "revert" /\ q.absent = a
      /\ q.reveal = task[t].reveal /\ q.wanted = task[t].wanted /\ q.reorg = task[t].reorg
  BY <1>0, <1>3, <1>5 DEF Task, Stage
<1>8. task' \in [Tasks -> Task] /\ Others(t) /\ task'[t] = q
  BY <1>6, <1>7, StateFields DEF Others
<1>9. TypeOK'
  BY <1>2, <1>8, StateFields, TaskTyped DEF Kept, TypeOK
<1> QED
  BY <1>2, <1>3, <1>4, <1>7, <1>8, <1>9

(* A completed version whose sweep is absent is pending again.             *)
LEMMA RevertStep ==
  ASSUME TypeOK, NEW t \in Tasks, Revert(t)
  PROVE  /\ TypeOK' /\ Others(t)
         /\ UNCHANGED <<backend, chain, pool, paid, mined, reorgs, tool, rebound, lost, dropped, restarts>>
         /\ UNCHANGED <<wallet, agg, db, shown>>
         /\ task[t].pc = "revert"
         /\ task'[t].pc \in {"idle", "reveal"} /\ ~task'[t].reveal /\ ~task'[t].rebuilt
         /\ task'[t].absent = {}
         /\ \/ /\ status' = status /\ recorded' = recorded
               /\ ~\E x \in task[t].absent : status = "complete" /\ recorded = {x}
            \/ /\ status' = "pending" /\ recorded' = {}
               /\ \E x \in task[t].absent : status = "complete" /\ recorded = {x}
<1>1. /\ UNCHANGED <<backend, chain, pool, paid, mined, reorgs, tool, rebound, lost, dropped, restarts>>
      /\ UNCHANGED <<wallet, agg, db, shown>> /\ task[t].pc = "revert" /\ EndSync(t)
      /\ \/ /\ status' = status /\ recorded' = recorded
            /\ ~\E x \in task[t].absent : status = "complete" /\ recorded = {x}
         \/ /\ status' = "pending" /\ recorded' = {}
            /\ \E x \in task[t].absent : status = "complete" /\ recorded = {x}
  BY DEF Revert, netVars, memVars
<1>2. /\ task' \in [Tasks -> Task] /\ Others(t)
      /\ task'[t].pc \in {"idle", "reveal"} /\ ~task'[t].reveal /\ ~task'[t].rebuilt
      /\ task'[t].absent = {}
  BY <1>1, EndShape
<1>3. status' \in {"pending", "complete"} /\ recorded' \subseteq Txs
  BY <1>1 DEF TypeOK
<1>4. TypeOK'
  BY <1>1, <1>2, <1>3, StateFields, WritesTyped DEF TypeOK
<1> QED
  BY <1>1, <1>2, <1>4

(* Addresses are revealed: shown at once when they were, else saved first. *)
LEMMA RevealStep ==
  ASSUME TypeOK, NEW t \in Tasks, Reveal(t)
  PROVE  /\ TypeOK' /\ Kept /\ Others(t) /\ UNCHANGED <<agg, db>>
         /\ task[t].pc = "reveal"
         /\ wallet'[0].cs.tip = wallet[0].cs.tip /\ wallet'[0].cs.conf = wallet[0].cs.conf
         /\ wallet'[0].cs.revealed = 2 /\ wallet'[0].seen = wallet[0].seen
         /\ \A i \in 1..Versions : wallet'[i] = wallet[i]
         /\ \/ /\ wallet[0].cs.revealed = 2 /\ task'[t].pc = "idle" /\ shown' = TRUE
               /\ ~task'[t].reveal /\ ~task'[t].rebuilt /\ task'[t].absent = {}
            \/ /\ wallet[0].cs.revealed # 2 /\ task'[t].pc = "merge" /\ shown' = shown
               /\ task'[t].reveal /\ task'[t].rebuilt = task[t].rebuilt
               /\ task'[t].absent = task[t].absent
               /\ task'[t].delta = [Empty EXCEPT !.revealed = 2]
<1>0. task[t] \in Task /\ wallet[0] \in Wallet /\ 0 \in 0..Versions
  BY StateFields
<1>1. /\ Kept /\ UNCHANGED <<agg, db>> /\ task[t].pc = "reveal"
      /\ wallet' = [wallet EXCEPT ![0].cs.revealed = 2]
  BY DEF Reveal, Kept, netVars, rowVars
<1>2. /\ wallet' \in [0..Versions -> Wallet]
      /\ wallet'[0].cs.tip = wallet[0].cs.tip /\ wallet'[0].cs.conf = wallet[0].cs.conf
      /\ wallet'[0].cs.revealed = 2 /\ wallet'[0].seen = wallet[0].seen
      /\ \A i \in 1..Versions : wallet'[i] = wallet[i]
  <2>1. PICK w : w = [wallet[0] EXCEPT !.cs.revealed = 2]
    OBVIOUS
  <2>2. /\ w \in Wallet /\ w.cs.tip = wallet[0].cs.tip /\ w.cs.conf = wallet[0].cs.conf
        /\ w.cs.revealed = 2 /\ w.seen = wallet[0].seen
    BY <1>0, <2>1 DEF Wallet, ChangeSet
  <2>3. wallet' = [wallet EXCEPT ![0] = w]
    BY <1>0, <1>1, <2>1, StateFields
  <2>4. \A i \in 1..Versions : i \in 0..Versions /\ i # 0
    BY SyncAssumption
  <2> QED
    BY <1>0, <2>2, <2>3, <2>4, StateFields
<1>3. CASE wallet[0].cs.revealed = 2
  <2>1. task' = [task EXCEPT ![t] = Idle] /\ shown' = TRUE
    BY <1>3 DEF Reveal
  <2>2. task' \in [Tasks -> Task] /\ Others(t) /\ task'[t] = Idle
    BY <2>1, StateFields, TaskFields DEF Others
  <2>3. TypeOK'
    BY <1>1, <1>2, <2>1, <2>2, StateFields, TaskTyped DEF Kept, TypeOK
  <2> QED
    BY <1>1, <1>2, <1>3, <2>1, <2>2, <2>3, TaskFields
<1>4. CASE wallet[0].cs.revealed # 2
  <2>0. PICK d : d = [Empty EXCEPT !.revealed = 2]
    OBVIOUS
  <2>1. /\ task' = [task EXCEPT ![t].pc = "merge", ![t].reveal = TRUE, ![t].delta = d]
        /\ shown' = shown
    BY <1>4, <2>0 DEF Reveal
  <2>2. d \in ChangeSet
    BY <2>0, ChangeSetFields DEF ChangeSet
  <2>3. PICK q : q = [task[t] EXCEPT !.pc = "merge", !.reveal = TRUE, !.delta = d]
    OBVIOUS
  <2>4. task' = [task EXCEPT ![t] = q]
    BY <2>1, <2>3, StateFields
  <2>5. /\ q \in Task /\ q.pc = "merge" /\ q.reveal = TRUE /\ q.delta = d
        /\ q.rebuilt = task[t].rebuilt /\ q.absent = task[t].absent
    BY <1>0, <2>2, <2>3 DEF Task, Stage
  <2>6. task' \in [Tasks -> Task] /\ Others(t) /\ task'[t] = q
    BY <2>4, <2>5, StateFields DEF Others
  <2>7. TypeOK'
    BY <1>1, <1>2, <2>1, <2>6, StateFields, TaskTyped DEF Kept, TypeOK
  <2> QED
    BY <1>1, <1>2, <1>4, <2>0, <2>1, <2>5, <2>6, <2>7
<1> QED
  BY <1>3, <1>4

(* A task is cut short.  Where it only waits for a lock, another holds it. *)
LEMMA AbortStep ==
  ASSUME TypeOK, NEW t \in Tasks, Abort(t)
  PROVE  /\ TypeOK' /\ Others(t) /\ task'[t] = Idle
         /\ UNCHANGED <<backend, chain, pool, paid, mined, reorgs, status, recorded, tool, rebound,
                        lost, restarts>>
         /\ UNCHANGED <<wallet, agg, db, shown>>
         /\ dropped \subseteq dropped' /\ (task[t].reveal => "reveal" \in dropped')
         /\ ~task[t].reveal => "sync" \in dropped'
         /\ task[t].pc = "merge" => \E u \in Tasks : u # t
<1>1. /\ task' = [task EXCEPT ![t] = Idle]
      /\ dropped' = dropped \cup {IF task[t].reveal THEN "reveal" ELSE "sync"}
      /\ UNCHANGED <<backend, chain, pool, paid, mined, reorgs, status, recorded, tool, rebound,
                     lost, restarts>>
      /\ UNCHANGED <<wallet, agg, db, shown>>
      /\ task[t].pc = "merge" => \E u \in Tasks : u # t
  BY DEF Abort, netVars, rowVars, memVars
<1>2. task' \in [Tasks -> Task] /\ Others(t) /\ task'[t] = Idle
  BY <1>1, StateFields, TaskFields DEF Others
<1>3. dropped' \subseteq {"sync", "reveal"}
  BY <1>1 DEF TypeOK
<1>4. TypeOK'
  BY <1>1, <1>2, <1>3, StateFields, WritesTyped DEF TypeOK
<1> QED
  BY <1>1, <1>2, <1>4

(* The process is restarted from the row, which may be rebound.            *)
LEMMA RestartStep ==
  ASSUME TypeOK, Restart
  PROVE  /\ TypeOK' /\ UNCHANGED <<backend, chain, pool, paid, mined, reorgs, status, recorded, tool, shown>>
         /\ wallet'[0].cs = db' /\ agg' = db' /\ \A t \in Tasks : task'[t] = Idle
         /\ dropped \subseteq dropped'
         /\ \/ db' = db
            \/ /\ db'.tip = Genesis /\ db'.conf = {}
               /\ db'.revealed = (IF db.revealed = 0 THEN 1 ELSE db.revealed)
         /\ wallet'[0].seen = {} /\ \A i \in 1..Versions : wallet'[i] = Loaded(Empty)
         /\ restarts < MaxRestarts /\ restarts' = restarts + 1
         /\ rebound' = (rebound \/ tool # "sweep")
         /\ lost' => lost /\ (tool # "sweep" => rebound)
<1>0. PICK row : row = IF tool # "sweep" /\ ~rebound THEN Rebound(db) ELSE db
  OBVIOUS
<1>1. /\ db' = row /\ wallet' = AllLoaded(row) /\ agg' = row
      /\ task' = [t \in Tasks |-> Idle] /\ restarts' = restarts + 1
      /\ rebound' = (rebound \/ (tool # "sweep" /\ ~rebound))
      /\ dropped' = IF Quiet THEN dropped ELSE dropped \cup {"sync"}
      /\ lost' = (lost /\ ~(tool # "sweep" /\ ~rebound))
      /\ restarts < MaxRestarts
      /\ UNCHANGED <<backend, chain, pool, paid, mined, reorgs, status, recorded, tool, shown>>
  BY <1>0 DEF Restart, netVars
<1>2. row = db \/ (/\ row \in ChangeSet /\ row.tip = Genesis /\ row.conf = {}
                   /\ row.revealed = (IF db.revealed = 0 THEN 1 ELSE db.revealed))
  <2>1. PICK n \in 0..2 : n = IF db.revealed = 0 THEN 1 ELSE db.revealed
    BY StateFields, ChangeSetFields
  <2>2. Rebound(db) = [Empty EXCEPT !.revealed = n]
    BY <2>1 DEF Rebound
  <2>3. Rebound(db) \in ChangeSet /\ Rebound(db).tip = Genesis /\ Rebound(db).conf = {} /\ Rebound(db).revealed = n
    BY <2>2, ChangeSetFields DEF ChangeSet, Empty
  <2> QED
    BY <1>0, <2>1, <2>3
<1>3. row \in ChangeSet
  BY <1>2, StateFields
<1>4. /\ wallet' \in [0..Versions -> Wallet] /\ wallet'[0].cs = row
      /\ wallet'[0].seen = {} /\ \A i \in 1..Versions : wallet'[i] = Loaded(Empty)
  <2>1. \A i \in 0..Versions : (IF i = 0 THEN Loaded(row) ELSE Loaded(Empty)) \in Wallet
    BY <1>3, ChangeSetFields
  <2>2. \A i \in 1..Versions : i \in 0..Versions /\ i # 0
    BY SyncAssumption
  <2>3. wallet'[0] = Loaded(row) /\ \A i \in 1..Versions : wallet'[i] = Loaded(Empty)
    BY <1>1, <2>2, StateFields DEF AllLoaded
  <2>4. Loaded(row).seen = {}
    BY DEF Loaded
  <2> QED
    BY <1>1, <1>3, <2>1, <2>3, <2>4, ChangeSetFields DEF AllLoaded
<1>5. task' \in [Tasks -> Task] /\ \A t \in Tasks : task'[t] = Idle
  BY <1>1, TaskFields
<1>6. dropped' \subseteq {"sync", "reveal"} /\ dropped \subseteq dropped'
  BY <1>1 DEF TypeOK
<1>7. /\ rebound' \in BOOLEAN /\ lost' \in BOOLEAN /\ restarts' \in Nat
      /\ rebound' = (rebound \/ tool # "sweep") /\ (lost' => lost /\ (tool # "sweep" => rebound))
  BY <1>1 DEF TypeOK
<1>8. TypeOK'
  BY <1>1, <1>3, <1>4, <1>5, <1>6, <1>7, StateFields, WritesTyped DEF TypeOK
<1> QED
  BY <1>1, <1>2, <1>4, <1>5, <1>6, <1>7, <1>8

(* A step is one of these.                                                 *)
LEMMA Steps ==
  ASSUME [Next]_vars
  PROVE  \/ NetStep
         \/ \E t \in Tasks, page \in BOOLEAN : Start(t, page)
         \/ \E t \in Tasks :
              \/ reveal_version_wallets_to_inner(t)
              \/ SyncVersion(t) \/ SyncInner(t) \/ MergeDelta(t) \/ WriteChangeset(t)
              \/ ListCompleted(t) \/ CheckPresence(t) \/ Revert(t) \/ Reveal(t) \/ Abort(t)
         \/ Restart
         \/ UNCHANGED vars
BY DEF Next, Step, NetStep

(* Every step keeps the types.                                             *)
LEMMA TypeStep == TypeOK /\ [Next]_vars => TypeOK'
<1> SUFFICES ASSUME TypeOK, [Next]_vars PROVE TypeOK'
  OBVIOUS
<1>1. CASE UNCHANGED vars
  BY <1>1 DEF TypeOK, vars, netVars, rowVars, memVars
<1> QED
  BY <1>1, Steps, NetTyped, StartStep, RevealVersionsStep, SyncVersionStep, SyncInnerStep, MergeStep,
     WriteStep, ListStep, CheckStep, RevertStep, RevealStep, AbortStep, RestartStep

(* The types hold at first.                                                *)
LEMMA TypeInit == Init => TypeOK
<1> SUFFICES ASSUME Init PROVE TypeOK
  OBVIOUS
<1>1. wallet \in [0..Versions -> Wallet]
  BY ChangeSetFields DEF Init, AllLoaded
<1>2. task \in [Tasks -> Task]
  BY TaskFields DEF Init
<1>3. chain \in Seq(Block)
  BY DEF Init
<1>4. agg \in ChangeSet /\ db \in ChangeSet
  BY ChangeSetFields DEF Init
<1> QED
  BY <1>1, <1>2, <1>3, <1>4 DEF Init, TypeOK

(* The type invariant, for any number of tasks: deltas, merged and encoded *)
(* changesets are changesets, and the loop over the version wallets stays  *)
(* within them.                                                            *)
THEOREM SyncTypeCorrect == Spec => []TypeOK
BY TypeInit, TypeStep, PTL DEF Spec

-----------------------------------------------------------------------------
(* What is stored.                                                         *)

(* The network: a checkpoint that is on the chain afterwards was on it     *)
(* before, with the same blocks below it.                                  *)
LEMMA NetKeepsPrefix ==
  ASSUME TypeOK, IdsKnown, NetStep, NEW tip \in [h : Nat, id : Nat],
         tip.h <= Len(chain), tip.id <= mined
  PROVE  /\ IdsKnown' /\ tip.h <= Len(chain') /\ tip.id <= mined'
         /\ OnChain(tip)' => OnChain(tip) /\ \A i \in 1..tip.h : chain'[i] = chain[i]
<1> DEFINE m == Len(chain)
<1>0. /\ m \in Nat /\ mined \in Nat /\ tip.h \in Nat /\ tip.id \in Nat
      /\ \A i \in 1..m : chain[i].id \in Nat /\ chain[i].id <= mined
      /\ m <= mined
  BY ChainFields DEF IdsKnown
<1>1. ASSUME UNCHANGED <<chain, mined>>
      PROVE  /\ IdsKnown' /\ tip.h <= Len(chain') /\ tip.id <= mined'
             /\ OnChain(tip)' => OnChain(tip) /\ \A i \in 1..tip.h : chain'[i] = chain[i]
  BY <1>1 DEF IdsKnown, OnChain
<1>2. ASSUME NEW S \in SUBSET pool, Mine(S)
      PROVE  /\ IdsKnown' /\ tip.h <= Len(chain') /\ tip.id <= mined'
             /\ OnChain(tip)' => OnChain(tip) /\ \A i \in 1..tip.h : chain'[i] = chain[i]
  <2>1. /\ Len(chain') = m + 1 /\ \A i \in 1..m : chain'[i] = chain[i]
        /\ chain'[m + 1] = [id |-> mined + 1, txs |-> S] /\ mined' = mined + 1
    BY <1>2, MineChain DEF Mine
  <2>2. \A i \in 1..(m + 1) : chain'[i].id <= mined + 1
    BY <1>0, <2>1
  <2>3. \A i \in 1..tip.h : i \in 1..m
    BY <1>0
  <2>4. tip.h # 0 => tip.h \in 1..m
    BY <1>0
  <2>5. OnChain(tip)' => OnChain(tip)
    BY <1>0, <2>1, <2>4 DEF OnChain
  <2>6. m + 1 <= mined + 1 /\ tip.h <= m + 1 /\ tip.id <= mined + 1
    BY <1>0
  <2> QED
    BY <2>1, <2>2, <2>3, <2>5, <2>6 DEF IdsKnown
<1>3. ASSUME NEW S \in SUBSET Txs, Reorg(S)
      PROVE  /\ IdsKnown' /\ tip.h <= Len(chain') /\ tip.id <= mined'
             /\ OnChain(tip)' => OnChain(tip) /\ \A i \in 1..tip.h : chain'[i] = chain[i]
  <2>1. /\ m >= 1 /\ Len(chain') = m + 1 /\ \A i \in 1..(m - 1) : chain'[i] = chain[i]
        /\ chain'[m] = [id |-> mined + 1, txs |-> {}]
        /\ chain'[m + 1] = [id |-> mined + 2, txs |-> {}] /\ mined' = mined + 2
    BY <1>3, ReorgChain DEF Reorg
  <2>2. \A i \in 1..(m + 1) : chain'[i].id <= mined + 2
    <3>1. \A i \in 1..(m + 1) : i \in 1..(m - 1) \/ i = m \/ i = m + 1
      BY <1>0
    <3>2. \A i \in 1..(m - 1) : i \in 1..m
      BY <1>0
    <3>3. \A i \in 1..(m - 1) : chain'[i].id \in Nat /\ chain'[i].id <= mined
      BY <1>0, <2>1, <3>2
    <3>4. chain'[m].id = mined + 1 /\ chain'[m + 1].id = mined + 2
      BY <2>1
    <3> QED
      BY <1>0, <3>1, <3>3, <3>4
  <2>3. m + 1 <= mined + 2 /\ tip.h <= m + 1 /\ tip.id <= mined + 2
    BY <1>0
  <2>4. CASE tip.h = m
    <3>1. chain'[tip.h].id = mined + 1
      BY <2>1, <2>4
    <3>2. ~OnChain(tip)'
      BY <1>0, <2>1, <2>4, <3>1 DEF OnChain
    <3> QED
      BY <2>1, <2>2, <2>3, <3>2 DEF IdsKnown
  <2>5. CASE tip.h < m
    <3>1. \A i \in 1..tip.h : i \in 1..(m - 1)
      BY <1>0, <2>5
    <3>2. \A i \in 1..tip.h : chain'[i] = chain[i]
      BY <2>1, <3>1
    <3>3. tip.h # 0 => tip.h \in 1..tip.h
      BY <1>0
    <3>4. OnChain(tip)' => OnChain(tip)
      BY <1>0, <3>2, <3>3 DEF OnChain
    <3> QED
      BY <2>1, <2>2, <2>3, <3>2, <3>4 DEF IdsKnown
  <2> QED
    BY <1>0, <2>4, <2>5
<1>4. CASE \/ \E x \in Deposits : Pay(x)
           \/ BroadcastSweep \/ MarkComplete
  BY <1>1, <1>4 DEF Pay, BroadcastSweep, MarkComplete, netVars
<1> QED
  BY <1>2, <1>3, <1>4 DEF NetStep

(* So a faithful changeset stays faithful.                                 *)
LEMMA FaithfulNet ==
  ASSUME TypeOK, IdsKnown, NetStep, NEW cs \in ChangeSet, Faithful(cs)
  PROVE  IdsKnown' /\ Faithful(cs)'
<1>1. cs.tip \in [h : Nat, id : Nat] /\ cs.tip.h <= Len(chain) /\ cs.tip.id <= mined
  BY ChangeSetFields DEF Faithful
<1>2. /\ IdsKnown' /\ cs.tip.h <= Len(chain') /\ cs.tip.id <= mined'
      /\ OnChain(cs.tip)' => OnChain(cs.tip) /\ \A i \in 1..cs.tip.h : chain'[i] = chain[i]
  BY <1>1, NetKeepsPrefix
<1>3. backend' = backend
  BY NetTyped
<1> QED
  BY <1>2, <1>3 DEF Faithful

(* A sync of a faithful wallet makes a faithful one: with the emitter what *)
(* is below the checkpoint is known and the rest is scanned.               *)
LEMMA SyncedFaithful ==
  ASSUME TypeOK, IdsKnown, NEW w \in Wallet, Faithful(w.cs)
  PROVE  Faithful(Synced(w).cs) /\ (OnChain(w.cs.tip) => w.cs.conf \subseteq Synced(w).cs.conf)
<1> DEFINE from == IF backend = "emitter" THEN w.cs.tip.h + 1 ELSE 1
           found == Visible(w) \cap (IF OnChain(w.cs.tip) THEN TxsFrom(from) ELSE ChainTxs)
           s == Synced(w).cs
<1>1. /\ s.tip = ChainTip
      /\ s.conf = (IF OnChain(w.cs.tip) THEN w.cs.conf \cup found ELSE found)
  BY SyncedShape
<1>2. /\ ChainTip.h = Len(chain) /\ OnChain(ChainTip)
      /\ ChainTip.id = (IF Len(chain) = 0 THEN 0 ELSE chain[Len(chain)].id)
  BY TipOfChain
<1>3. Len(chain) \in Nat /\ mined \in Nat /\ w.cs.tip.h \in Nat /\ w.cs.tip.h <= Len(chain)
  BY ChainFields, ChangeSetFields DEF Faithful
<1>4. s.tip.h <= Len(chain) /\ s.tip.id <= mined /\ (s.tip.h = 0 => s.tip.id = 0)
  <2>1. Len(chain) # 0 => Len(chain) \in 1..Len(chain)
    BY <1>3
  <2>2. Len(chain) # 0 => chain[Len(chain)].id <= mined
    BY <2>1 DEF IdsKnown
  <2> QED
    BY <1>1, <1>2, <1>3, <2>2
<1>5. from \in Nat /\ from >= 1
  BY <1>3
<1>6. /\ \A x : x \in TxsFrom(from) <=> \E i \in 1..Len(chain) : i >= from /\ x \in chain[i].txs
      /\ \A x : x \in ChainTxs <=> \E i \in 1..Len(chain) : x \in chain[i].txs
  BY <1>5, TxsFromIn, ChainTxsIn
<1>7. \A x \in s.conf : \E i \in 1..Len(chain) : x \in chain[i].txs
  <2>1. \A x \in found : \E i \in 1..Len(chain) : x \in chain[i].txs
    BY <1>6
  <2>2. \A i \in 1..w.cs.tip.h : i \in 1..Len(chain)
    BY <1>3
  <2>3. OnChain(w.cs.tip) => \A x \in w.cs.conf : \E i \in 1..Len(chain) : x \in chain[i].txs
    BY <2>2 DEF Faithful
  <2> QED
    BY <1>1, <2>1, <2>3
<1>8. ASSUME backend = "emitter", NEW i \in 1..Len(chain)
      PROVE  chain[i].txs \subseteq s.conf
  <2>1. Visible(w) = Txs /\ from = w.cs.tip.h + 1 /\ chain[i].txs \subseteq Txs
    BY <1>8, ChainFields DEF Visible
  <2>2. CASE ~OnChain(w.cs.tip)
    BY <1>1, <1>6, <2>1, <2>2
  <2>3. CASE OnChain(w.cs.tip) /\ i >= from
    BY <1>1, <1>6, <2>1, <2>3
  <2>4. CASE OnChain(w.cs.tip) /\ ~(i >= from)
    <3>1. i \in 1..w.cs.tip.h
      BY <1>3, <2>1, <2>4
    <3>2. chain[i].txs \subseteq w.cs.conf
      BY <1>8, <2>4, <3>1 DEF Faithful
    <3> QED
      BY <1>1, <2>4, <3>2
  <2> QED
    BY <2>2, <2>3, <2>4
<1>9. OnChain(w.cs.tip) => w.cs.conf \subseteq s.conf
  BY <1>1
<1> HIDE DEF s
<1>10. Faithful(s)
  BY <1>1, <1>2, <1>4, <1>7, <1>8 DEF Faithful
<1> QED
  BY <1>9, <1>10 DEF s

(* Merging what a sync staged into what the wallet was gives what it is.   *)
LEMMA StagedMerges ==
  ASSUME TypeOK, IdsKnown, NEW w \in Wallet, Faithful(w.cs), OnChain(w.cs.tip)
  PROVE  Merge(w.cs, Staged(w)) = Synced(w).cs
<1>1. w.cs \in ChangeSet /\ Staged(w) \in ChangeSet /\ Synced(w).cs \in ChangeSet
  <2>1. Synced(w) \in Wallet
    BY SyncedShape
  <2> QED
    BY <2>1, ChangeSetFields, StagedShape
<1>2. /\ Synced(w).cs.tip = ChainTip /\ Synced(w).cs.revealed = w.cs.revealed
      /\ w.cs.conf \subseteq Synced(w).cs.conf
  BY SyncedShape, SyncedFaithful
<1>3. /\ Staged(w).tip = (IF w.cs.tip = ChainTip THEN Genesis ELSE ChainTip)
      /\ Staged(w).conf = Synced(w).cs.conf \ w.cs.conf /\ Staged(w).revealed = 0
  BY StagedShape
<1> DEFINE g == Merge(w.cs, Staged(w))
<1>4. /\ g \in ChangeSet
      /\ g.tip = (IF Staged(w).tip.h > 0 /\ Staged(w).tip.h >= w.cs.tip.h THEN Staged(w).tip ELSE w.cs.tip)
      /\ g.conf = w.cs.conf \cup Staged(w).conf
      /\ g.revealed = (IF Staged(w).revealed > w.cs.revealed THEN Staged(w).revealed ELSE w.cs.revealed)
  BY <1>1, MergeShape
<1>5. /\ w.cs.tip \in [h : Nat, id : Nat] /\ w.cs.tip.h \in Nat /\ w.cs.tip.h <= Len(chain)
      /\ w.cs.revealed \in 0..2 /\ Len(chain) \in Nat /\ (w.cs.tip.h = 0 => w.cs.tip.id = 0)
  BY ChangeSetFields, ChainFields DEF Faithful
<1>6. /\ ChainTip \in [h : Nat, id : Nat] /\ ChainTip.h = Len(chain)
      /\ (Len(chain) = 0 => ChainTip.id = 0)
  BY TipOfChain
<1>7. g.tip = ChainTip
  <2>1. CASE w.cs.tip = ChainTip
    <3>1. Staged(w).tip.h = 0
      BY <1>3, <2>1 DEF Genesis
    <3> QED
      BY <1>4, <2>1, <3>1
  <2>2. CASE w.cs.tip # ChainTip
    <3>1. Staged(w).tip = ChainTip
      BY <1>3, <2>2
    <3>2. ASSUME Len(chain) = 0 PROVE FALSE
      <4>1. w.cs.tip.h = 0 /\ w.cs.tip.id = 0 /\ ChainTip.h = 0 /\ ChainTip.id = 0
        BY <1>5, <1>6, <3>2
      <4>2. w.cs.tip = [h |-> w.cs.tip.h, id |-> w.cs.tip.id]
            /\ ChainTip = [h |-> ChainTip.h, id |-> ChainTip.id]
        BY <1>5, <1>6
      <4> QED
        BY <2>2, <4>1, <4>2
    <3>3. ChainTip.h > 0 /\ ChainTip.h >= w.cs.tip.h
      BY <1>5, <1>6, <3>2
    <3> QED
      BY <1>4, <3>1, <3>3
  <2> QED
    BY <2>1, <2>2
<1>8. g.conf = Synced(w).cs.conf
  BY <1>2, <1>3, <1>4
<1>9. g.revealed = Synced(w).cs.revealed
  BY <1>2, <1>3, <1>4, <1>5
<1> HIDE DEF g
<1>10. g = [tip |-> g.tip, conf |-> g.conf, revealed |-> g.revealed]
  BY <1>4, ChangeSetFields
<1>11. Synced(w).cs = [tip |-> Synced(w).cs.tip, conf |-> Synced(w).cs.conf,
                       revealed |-> Synced(w).cs.revealed]
  BY <1>1, ChangeSetFields
<1> QED
  BY <1>2, <1>7, <1>8, <1>9, <1>10, <1>11 DEF g
(* A changeset stays faithful while the chain does not move.               *)
LEMMA FaithfulStays ==
  ASSUME NEW cs, UNCHANGED <<backend, chain, mined>>, Faithful(cs)
  PROVE  Faithful(cs)'
BY DEF Faithful, OnChain

(* So do inner's and the stored one, also when inner's is stored.          *)
LEMMA StoredStays ==
  ASSUME StoredInv, UNCHANGED <<backend, chain, mined>>,
         wallet'[0].cs = wallet[0].cs, db' = db \/ db' = wallet[0].cs
  PROVE  IdsKnown' /\ Faithful(wallet[0].cs)' /\ Faithful(db)'
<1>1. PICK c, d : c = wallet[0].cs /\ d = db'
  OBVIOUS
<1>2. Faithful(c) /\ Faithful(d)
  <2>1. Faithful(c)
    BY <1>1 DEF StoredInv
  <2>2. CASE d = c
    BY <2>1, <2>2
  <2>3. CASE d = db
    <3>1. Faithful(db)
      BY DEF StoredInv
    <3> QED
      BY <2>1, <2>3, <3>1
  <2> QED
    BY <1>1, <2>1, <2>2, <2>3
<1>3. Faithful(c)' /\ Faithful(d)'
  BY <1>2, FaithfulStays
<1>4. c = wallet'[0].cs
  BY <1>1
<1>5. IdsKnown'
  BY DEF StoredInv, IdsKnown
<1> QED
  BY <1>1, <1>3, <1>4, <1>5 DEF Faithful, OnChain

(* A step that leaves inner's changeset, the aggregate and the row alone   *)
(* and has no delta in hand.                                               *)
LEMMA StoredAside ==
  ASSUME OneTask, StoredInv, NEW t \in Tasks, TypeOK',
         UNCHANGED <<backend, chain, mined, agg, db, shown>>, wallet'[0].cs = wallet[0].cs,
         dropped \subseteq dropped', task[t].pc # "merge", task'[t].pc \notin {"merge", "write"},
         ~task'[t].reveal, task'[t].pc = "reveal" => ~task'[t].rebuilt,
         task[t].reveal => "reveal" \in dropped'
  PROVE  StoredInv'
<1>1. \A u \in Tasks : u = t
  BY DEF OneTask
<1>2. IdsKnown' /\ Faithful(wallet[0].cs)' /\ Faithful(db)'
  BY StoredStays
<1>3. wallet[0].cs = agg
  BY DEF StoredInv, MemInv
<1>4. MemInv'
  BY <1>1, <1>3 DEF MemInv
<1>5. RevealInv'
  BY <1>1 DEF StoredInv, RevealInv, RevealDurable
<1> QED
  BY <1>2, <1>4, <1>5 DEF StoredInv

(* The network leaves the wallets alone.                                   *)
LEMMA StoredNet ==
  ASSUME StoredInv, NetStep
  PROVE  StoredInv'
<1>1. /\ TypeOK' /\ UNCHANGED <<backend, wallet, agg, db, task, shown, dropped>>
  BY NetTyped DEF StoredInv
<1>2. PICK c, d : c = wallet[0].cs /\ d = db
  OBVIOUS
<1>3. c \in ChangeSet /\ d \in ChangeSet /\ Faithful(c) /\ Faithful(d) /\ TypeOK /\ IdsKnown
  BY <1>2, StateFields DEF StoredInv
<1>4. IdsKnown' /\ Faithful(c)' /\ Faithful(d)'
  BY <1>3, FaithfulNet
<1>5. c = wallet'[0].cs /\ d = db'
  BY <1>1, <1>2
<1>6. Faithful(wallet[0].cs)' /\ Faithful(db)'
  BY <1>4, <1>5 DEF Faithful, OnChain
<1>7. MemInv' /\ RevealInv'
  BY <1>1 DEF StoredInv, MemInv, Taken, RevealInv, RevealDurable
<1> QED
  BY <1>1, <1>4, <1>6, <1>7 DEF StoredInv

(* inner is synced: the delta in hand is what the aggregate lacks.         *)
LEMMA StoredInner ==
  ASSUME OneTask, StoredInv, NEW t \in Tasks, SyncInner(t)
  PROVE  StoredInv'
<1>0. TypeOK /\ IdsKnown
  BY DEF StoredInv
<1>1. /\ TypeOK' /\ Kept /\ UNCHANGED <<agg, db, shown>>
      /\ wallet'[0] = Synced(wallet[0]) /\ task[t].pc = "inner"
      /\ task'[t].pc = (IF Synced(wallet[0]) = wallet[0] THEN "list" ELSE "merge")
      /\ task'[t].rebuilt = ~OnChain(wallet[0].cs.tip) /\ task'[t].delta = Staged(wallet[0])
      /\ task'[t].reveal = task[t].reveal
  BY <1>0, SyncInnerStep
<1>2. \A u \in Tasks : u = t
  BY DEF OneTask
<1>3. PICK w \in Wallet : w = wallet[0]
  BY <1>0, StateFields
<1>4. Faithful(w.cs) /\ w.cs = agg
  BY <1>1, <1>3 DEF StoredInv, MemInv
<1>5. PICK c : c = Synced(w).cs
  OBVIOUS
<1>6. c = wallet'[0].cs
  BY <1>1, <1>3, <1>5
<1>7. Faithful(c)
  BY <1>0, <1>4, <1>5, SyncedFaithful
<1>8. PICK d : d = db
  OBVIOUS
<1>9. Faithful(d) /\ d = db'
  BY <1>1, <1>8 DEF StoredInv
<1>10. UNCHANGED <<backend, chain, mined>>
  BY <1>1 DEF Kept
<1>11. Faithful(c)' /\ Faithful(d)'
  BY <1>7, <1>9, <1>10, FaithfulStays
<1>12. Faithful(wallet[0].cs)' /\ Faithful(db)'
  BY <1>6, <1>9, <1>11 DEF Faithful, OnChain
<1>13. IdsKnown'
  BY <1>0, <1>10 DEF IdsKnown
<1>14. MemInv'
  <2>1. CASE Synced(w) = w
    <3>1. task'[t].pc = "list" /\ c = agg'
      BY <1>1, <1>3, <1>4, <1>5, <2>1
    <3> QED
      BY <1>2, <1>6, <3>1 DEF MemInv
  <2>2. CASE Synced(w) # w
    <3>1. task'[t].pc = "merge" /\ agg' = w.cs
          /\ task'[t].rebuilt = ~OnChain(w.cs.tip) /\ task'[t].delta = Staged(w)
      BY <1>1, <1>3, <1>4, <2>2
    <3>2. CASE OnChain(w.cs.tip)
      <4>1. Merge(agg', task'[t].delta) = c
        BY <1>0, <1>4, <1>5, <3>1, <3>2, StagedMerges
      <4> QED
        BY <1>2, <1>6, <3>1, <3>2, <4>1 DEF MemInv, Taken
    <3>3. CASE ~OnChain(w.cs.tip)
      <4>1. task'[t].delta = c
        BY <1>0, <1>5, <3>1, <3>3, StagedShape
      <4> QED
        BY <1>2, <1>6, <3>1, <3>3, <4>1 DEF MemInv, Taken
    <3> QED
      BY <3>2, <3>3
  <2> QED
    BY <2>1, <2>2
<1>15. RevealInv'
  <2>1. wallet'[0].cs.revealed = wallet[0].cs.revealed
    BY <1>0, <1>1, <1>3, SyncedShape
  <2>2. ~task[t].reveal /\ ~task'[t].reveal /\ task'[t].pc # "reveal"
    BY <1>1 DEF StoredInv, RevealInv
  <2> QED
    BY <1>1, <1>2, <2>1, <2>2 DEF StoredInv, RevealInv, RevealDurable, Kept
<1> QED
  BY <1>1, <1>12, <1>13, <1>14, <1>15 DEF StoredInv

(* The delta is merged: the aggregate is inner's changeset again.          *)
LEMMA StoredMerge ==
  ASSUME OneTask, StoredInv, NEW t \in Tasks, MergeDelta(t)
  PROVE  StoredInv'
<1>1. /\ TypeOK' /\ Kept /\ UNCHANGED <<wallet, db, shown>>
      /\ task[t].pc = "merge" /\ task'[t].pc = "write"
      /\ agg' = Taken(task[t]) /\ task'[t].json = agg'
      /\ task'[t].reveal = task[t].reveal
  BY MergeStep DEF StoredInv
<1>2. \A u \in Tasks : u = t
  BY DEF OneTask
<1>3. IdsKnown' /\ Faithful(wallet[0].cs)' /\ Faithful(db)'
  BY <1>1, StoredStays DEF Kept
<1>4. wallet'[0].cs = agg'
  BY <1>1 DEF StoredInv, MemInv
<1>5. MemInv'
  BY <1>1, <1>2, <1>4 DEF MemInv
<1>6. RevealInv'
  BY <1>1, <1>2 DEF StoredInv, RevealInv, RevealDurable, Kept
<1> QED
  BY <1>1, <1>3, <1>5, <1>6 DEF StoredInv

(* The aggregate is written, which is inner's changeset.                   *)
LEMMA StoredWrite ==
  ASSUME OneTask, StoredInv, NEW t \in Tasks, WriteChangeset(t)
  PROVE  StoredInv'
<1>1. /\ TypeOK' /\ Kept /\ UNCHANGED <<wallet, agg>>
      /\ task[t].pc = "write" /\ db' = task[t].json /\ task'[t].reveal = FALSE
      /\ \/ task[t].reveal /\ task'[t].pc = "idle" /\ shown' = TRUE
         \/ ~task[t].reveal /\ task'[t].pc = "list" /\ shown' = shown
  BY WriteStep DEF StoredInv
<1>2. \A u \in Tasks : u = t
  BY DEF OneTask
<1>3. db' = wallet[0].cs /\ wallet[0].cs = agg
  BY <1>1 DEF StoredInv, MemInv
<1>4. IdsKnown' /\ Faithful(wallet[0].cs)' /\ Faithful(db)'
  BY <1>1, <1>3, StoredStays DEF Kept
<1>5. MemInv'
  BY <1>1, <1>2, <1>3 DEF MemInv
<1>6. RevealInv'
  <2>1. wallet[0].cs.revealed \in 0..2 /\ db.revealed \in 0..2
    BY StateFields, ChangeSetFields DEF StoredInv
  <2>2. /\ db'.revealed = wallet'[0].cs.revealed /\ db'.revealed <= wallet'[0].cs.revealed
        /\ task[t].reveal => db'.revealed = 2
    BY <1>1, <1>3, <2>1 DEF StoredInv, RevealInv
  <2>3. RevealDurable'
    <3>1. shown /\ "reveal" \notin dropped => wallet[0].cs.revealed = 2
      <4>1. shown /\ "reveal" \notin dropped => db.revealed = 2
        BY DEF StoredInv, RevealInv, RevealDurable
      <4>2. db.revealed <= wallet[0].cs.revealed
        BY DEF StoredInv, RevealInv
      <4> QED
        BY <2>1, <4>1, <4>2
    <3> QED
      BY <1>1, <2>2, <3>1 DEF RevealDurable, Kept
  <2> QED
    BY <1>1, <1>2, <2>2, <2>3 DEF RevealInv
<1> QED
  BY <1>1, <1>4, <1>5, <1>6 DEF StoredInv

(* Addresses are revealed: the delta in hand is the reveal.                *)
LEMMA StoredReveal ==
  ASSUME OneTask, StoredInv, NEW t \in Tasks, Reveal(t)
  PROVE  StoredInv'
<1>0. TypeOK
  BY DEF StoredInv
<1>1. /\ TypeOK' /\ Kept /\ UNCHANGED <<agg, db>> /\ task[t].pc = "reveal"
      /\ wallet'[0].cs.tip = wallet[0].cs.tip /\ wallet'[0].cs.conf = wallet[0].cs.conf
      /\ wallet'[0].cs.revealed = 2
      /\ \/ /\ wallet[0].cs.revealed = 2 /\ task'[t].pc = "idle" /\ shown' = TRUE
            /\ ~task'[t].reveal
         \/ /\ wallet[0].cs.revealed # 2 /\ task'[t].pc = "merge" /\ shown' = shown
            /\ task'[t].reveal /\ task'[t].rebuilt = task[t].rebuilt
            /\ task'[t].delta = [Empty EXCEPT !.revealed = 2]
  BY <1>0, RevealStep
<1>2. \A u \in Tasks : u = t
  BY DEF OneTask
<1>3. /\ wallet[0].cs \in ChangeSet /\ wallet'[0].cs \in ChangeSet /\ wallet[0].cs = agg
      /\ ~task[t].reveal /\ ~task[t].rebuilt
  <2>1. wallet'[0] \in Wallet
    BY <1>0, <1>1, StateFields DEF TypeOK
  <2> QED
    BY <1>0, <1>1, <2>1, StateFields, ChangeSetFields DEF StoredInv, MemInv, RevealInv
<1>4. PICK c, d : c = wallet'[0].cs /\ d = db
  OBVIOUS
<1>5. UNCHANGED <<backend, chain, mined>>
  BY <1>1 DEF Kept
<1>6. Faithful(c) /\ Faithful(d)
  BY <1>1, <1>4 DEF StoredInv, Faithful, OnChain
<1>7. Faithful(c)' /\ Faithful(d)'
  BY <1>5, <1>6, FaithfulStays
<1>8. Faithful(wallet[0].cs)' /\ Faithful(db)' /\ IdsKnown'
  BY <1>1, <1>4, <1>5, <1>7 DEF Faithful, OnChain, IdsKnown, StoredInv
<1>9. CASE wallet[0].cs.revealed = 2
  <2>1. wallet'[0].cs = wallet[0].cs
    BY <1>1, <1>3, <1>9, ChangeSetFields
  <2>2. MemInv'
    BY <1>1, <1>2, <1>3, <1>9, <2>1 DEF MemInv
  <2>3. RevealInv'
    <3>1. db'.revealed = 2 \/ "reveal" \in dropped'
      BY <1>1, <1>2, <1>3, <1>9 DEF StoredInv, RevealInv, Kept
    <3> QED
      BY <1>1, <1>2, <1>3, <1>9, <2>1, <3>1 DEF StoredInv, RevealInv, RevealDurable, Kept
  <2> QED
    BY <1>1, <1>8, <2>2, <2>3 DEF StoredInv
<1>10. CASE wallet[0].cs.revealed # 2
  <2>1. PICK e : e = [Empty EXCEPT !.revealed = 2]
    OBVIOUS
  <2>2. e \in ChangeSet /\ e.tip.h = 0 /\ e.conf = {} /\ e.revealed = 2
    BY <2>1, ChangeSetFields DEF ChangeSet, Empty, Genesis
  <2>3. PICK g : g = Merge(agg, e)
    OBVIOUS
  <2>4. g \in ChangeSet /\ g.tip = agg.tip /\ g.conf = agg.conf /\ g.revealed = 2
    <3>1. agg \in ChangeSet /\ agg.revealed \in 0..2
      BY <1>3, ChangeSetFields
    <3>2. PICK a \in ChangeSet : a = agg
      BY <3>1
    <3>3. /\ g \in ChangeSet /\ g.conf = a.conf \cup e.conf
          /\ g.tip = (IF e.tip.h > 0 /\ e.tip.h >= a.tip.h THEN e.tip ELSE a.tip)
          /\ g.revealed = (IF e.revealed > a.revealed THEN e.revealed ELSE a.revealed)
      BY <2>2, <2>3, <3>2, MergeShape
    <3>4. g.tip = a.tip
      BY <2>2, <3>3
    <3>5. g.revealed = 2
      BY <2>2, <3>1, <3>2, <3>3
    <3> QED
      BY <2>2, <3>2, <3>3, <3>4, <3>5
  <2>5. g = wallet'[0].cs
    BY <1>1, <1>3, <2>4, ChangeSetFields
  <2>6. MemInv'
    <3>1. task'[t].pc = "merge" /\ ~task'[t].rebuilt /\ Merge(agg', task'[t].delta) = g
      BY <1>1, <1>3, <1>10, <2>1, <2>3
    <3> QED
      BY <1>2, <2>5, <3>1 DEF MemInv, Taken
  <2>7. RevealInv'
    <3>1. db'.revealed <= wallet'[0].cs.revealed
      BY <1>0, <1>1, StateFields, ChangeSetFields
    <3>2. RevealDurable'
      BY <1>1, <1>10 DEF StoredInv, RevealInv, RevealDurable, Kept
    <3> QED
      BY <1>1, <1>2, <1>10, <3>1, <3>2 DEF RevealInv
  <2> QED
    BY <1>1, <1>8, <2>6, <2>7 DEF StoredInv
<1> QED
  BY <1>9, <1>10

(* After a restart everything is what the row is.                          *)
LEMMA StoredRestart ==
  ASSUME StoredInv, Restart
  PROVE  StoredInv'
<1>0. TypeOK
  BY DEF StoredInv
<1>1. /\ TypeOK' /\ UNCHANGED <<backend, chain, mined, shown>>
      /\ wallet'[0].cs = db' /\ agg' = db' /\ \A t \in Tasks : task'[t] = Idle
      /\ dropped \subseteq dropped'
      /\ \/ db' = db
         \/ /\ db'.tip = Genesis /\ db'.conf = {}
            /\ db'.revealed = (IF db.revealed = 0 THEN 1 ELSE db.revealed)
  BY <1>0, RestartStep
<1>2. PICK d : d = db'
  OBVIOUS
<1>3. Faithful(d)
  <2>1. CASE d = db
    <3>1. Faithful(db)
      BY DEF StoredInv
    <3> QED
      BY <2>1, <3>1
  <2>2. CASE d.tip = Genesis /\ d.conf = {}
    <3>1. d.tip.h = 0 /\ d.tip.id = 0 /\ Len(chain) \in Nat /\ mined \in Nat
      BY <1>0, <2>2, ChainFields DEF Genesis
    <3>2. \A i \in 1..d.tip.h : FALSE
      BY <3>1
    <3> QED
      BY <2>2, <3>1, <3>2 DEF Faithful
  <2> QED
    BY <1>1, <1>2, <2>1, <2>2
<1>4. Faithful(d)'
  BY <1>1, <1>3, FaithfulStays
<1>5. Faithful(wallet[0].cs)' /\ Faithful(db)' /\ IdsKnown'
  BY <1>1, <1>2, <1>4 DEF Faithful, OnChain, IdsKnown, StoredInv
<1>6. \A t \in Tasks : task'[t].pc = "idle" /\ ~task'[t].reveal
  BY <1>1, TaskFields
<1>7. MemInv'
  BY <1>1, <1>6 DEF MemInv
<1>8. RevealInv'
  <2>1. db.revealed \in 0..2 /\ db'.revealed \in 0..2
    BY <1>0, <1>1, StateFields, ChangeSetFields DEF TypeOK
  <2>2. db.revealed = 2 => db'.revealed = 2
    BY <1>1
  <2>3. RevealDurable'
    BY <1>1, <2>2 DEF StoredInv, RevealInv, RevealDurable
  <2>4. db'.revealed <= wallet'[0].cs.revealed
    BY <1>1, <2>1
  <2> QED
    BY <1>1, <1>6, <2>3, <2>4 DEF RevealInv
<1> QED
  BY <1>1, <1>5, <1>7, <1>8 DEF StoredInv

(* One task at a time keeps what is stored right.                          *)
LEMMA StoredStep == OneTask /\ StoredInv /\ [Next]_vars => StoredInv'
<1> SUFFICES ASSUME OneTask, StoredInv, [Next]_vars PROVE StoredInv'
  OBVIOUS
<1>0. TypeOK
  BY DEF StoredInv
<1>1. CASE UNCHANGED vars
  <2>1. UNCHANGED <<backend, chain, mined, wallet, agg, db, task, shown, dropped>> /\ TypeOK'
    BY <1>0, <1>1, TypeStep DEF vars, netVars, rowVars, memVars
  <2>2. IdsKnown' /\ Faithful(wallet[0].cs)' /\ Faithful(db)'
    BY <2>1, StoredStays
  <2> QED
    BY <2>1, <2>2 DEF StoredInv, MemInv, Taken, RevealInv, RevealDurable
<1>2. ASSUME NEW t \in Tasks, NEW page \in BOOLEAN, Start(t, page) PROVE StoredInv'
  <2>1. /\ TypeOK' /\ Kept /\ UNCHANGED <<wallet, agg, db, shown>> /\ task[t].pc = "idle"
        /\ task'[t].pc \in {"versions", "reveal_versions"} /\ ~task'[t].reveal
    BY <1>0, <1>2, StartStep
  <2>2. ~task[t].reveal
    BY <2>1 DEF StoredInv, RevealInv
  <2> QED
    BY <2>1, <2>2, StoredAside DEF Kept
<1>3. ASSUME NEW t \in Tasks, reveal_version_wallets_to_inner(t) PROVE StoredInv'
  <2>1. /\ TypeOK' /\ Kept /\ UNCHANGED <<agg, db, shown>> /\ wallet'[0].cs = wallet[0].cs
        /\ task[t].pc = "reveal_versions" /\ task'[t].pc = "versions"
        /\ task'[t].reveal = task[t].reveal
    BY <1>0, <1>3, RevealVersionsStep
  <2>2. ~task[t].reveal
    BY <2>1 DEF StoredInv, RevealInv
  <2> QED
    BY <2>1, <2>2, StoredAside DEF Kept
<1>4. ASSUME NEW t \in Tasks, SyncVersion(t) PROVE StoredInv'
  <2>1. /\ TypeOK' /\ Kept /\ UNCHANGED <<agg, db, shown>> /\ wallet'[0] = wallet[0]
        /\ task[t].pc = "versions" /\ task'[t].pc \in {"versions", "inner"}
        /\ task'[t].reveal = task[t].reveal
    BY <1>0, <1>4, SyncVersionStep
  <2>2. ~task[t].reveal
    BY <2>1 DEF StoredInv, RevealInv
  <2> QED
    BY <2>1, <2>2, StoredAside DEF Kept
<1>5. ASSUME NEW t \in Tasks, ListCompleted(t) PROVE StoredInv'
  <2>1. /\ TypeOK' /\ Kept /\ UNCHANGED <<wallet, agg, db, shown>> /\ task[t].pc = "list"
        /\ \/ task'[t].pc \in {"idle", "reveal"} /\ ~task'[t].reveal /\ ~task'[t].rebuilt
           \/ task'[t].pc = "check" /\ task'[t].reveal = task[t].reveal
    BY <1>0, <1>5, ListStep
  <2>2. ~task[t].reveal
    BY <2>1 DEF StoredInv, RevealInv
  <2> QED
    BY <2>1, <2>2, StoredAside DEF Kept
<1>6. ASSUME NEW t \in Tasks, CheckPresence(t) PROVE StoredInv'
  <2>1. /\ TypeOK' /\ Kept /\ UNCHANGED <<wallet, agg, db, shown>> /\ task[t].pc = "check"
        /\ task'[t].pc = "revert" /\ task'[t].reveal = task[t].reveal
    BY <1>0, <1>6, CheckStep
  <2>2. ~task[t].reveal
    BY <2>1 DEF StoredInv, RevealInv
  <2> QED
    BY <2>1, <2>2, StoredAside DEF Kept
<1>7. ASSUME NEW t \in Tasks, Revert(t) PROVE StoredInv'
  <2>1. /\ TypeOK' /\ UNCHANGED <<backend, chain, mined, dropped, wallet, agg, db, shown>>
        /\ task[t].pc = "revert" /\ task'[t].pc \in {"idle", "reveal"} /\ ~task'[t].reveal /\ ~task'[t].rebuilt
    BY <1>0, <1>7, RevertStep
  <2>2. ~task[t].reveal
    BY <2>1 DEF StoredInv, RevealInv
  <2> QED
    BY <2>1, <2>2, StoredAside
<1>8. ASSUME NEW t \in Tasks, Abort(t) PROVE StoredInv'
  <2>1. /\ TypeOK' /\ task'[t] = Idle
        /\ UNCHANGED <<backend, chain, mined, wallet, agg, db, shown>>
        /\ dropped \subseteq dropped' /\ (task[t].reveal => "reveal" \in dropped')
        /\ task[t].pc = "merge" => \E u \in Tasks : u # t
    BY <1>0, <1>8, AbortStep
  <2>2. task[t].pc # "merge" /\ task'[t].pc = "idle" /\ ~task'[t].reveal
    BY <2>1, TaskFields DEF OneTask
  <2> QED
    BY <2>1, <2>2, StoredAside
<1> QED
  BY <1>1, <1>2, <1>3, <1>4, <1>5, <1>6, <1>7, <1>8, Steps, StoredNet, StoredInner, StoredMerge,
     StoredWrite, StoredReveal, StoredRestart

(* At first nothing is known and nothing is stored.                        *)
LEMMA StoredInit == Init => StoredInv
<1> SUFFICES ASSUME Init PROVE StoredInv
  OBVIOUS
<1>1. TypeOK
  BY TypeInit
<1>2. /\ chain = <<>> /\ mined = 0 /\ wallet[0].cs = Empty /\ db = Empty /\ agg = Empty /\ shown = FALSE
      /\ \A t \in Tasks : task[t] = Idle
  BY <1>1, StateFields DEF Init, AllLoaded, Loaded
<1>3. IdsKnown
  BY <1>2 DEF IdsKnown
<1>4. Faithful(Empty)
  BY <1>2, ChangeSetFields DEF Faithful
<1>5. Faithful(wallet[0].cs) /\ Faithful(db)
  BY <1>2, <1>4
<1>6. MemInv
  BY <1>2, TaskFields DEF MemInv
<1>7. RevealInv
  BY <1>2, TaskFields, ChangeSetFields DEF RevealInv, RevealDurable
<1> QED
  BY <1>1, <1>3, <1>5, <1>6, <1>7 DEF StoredInv

(* What the invariant says of the row.                                     *)
LEMMA StoredMeans == StoredInv => PersistedCoversTip /\ NoPhantom /\ RevealDurable
<1> SUFFICES ASSUME StoredInv PROVE PersistedCoversTip /\ NoPhantom /\ RevealDurable
  OBVIOUS
<1>1. Faithful(db) /\ TypeOK /\ db.tip.h \in Nat /\ Len(chain) \in Nat
  BY ChainFields, StateFields, ChangeSetFields DEF StoredInv
<1>2. PersistedCoversTip
  BY <1>1 DEF PersistedCoversTip, Faithful
<1>3. NoPhantom
  <2>1. \A i \in 1..db.tip.h : i \in 1..Len(chain)
    BY <1>1 DEF Faithful
  <2>2. OnChain(db.tip) => \A x \in db.conf : \E i \in 1..Len(chain) : x \in chain[i].txs
    BY <1>1, <2>1 DEF Faithful
  <2> QED
    BY <1>1, <2>2, ChainTxsIn DEF NoPhantom
<1> QED
  BY <1>2, <1>3 DEF StoredInv, RevealInv

(* The stored invariant of one task at a time.                             *)
LEMMA StoredAlways == OneTask /\ Spec => []StoredInv
<1>1. OneTask /\ StoredInv /\ [Next]_vars => StoredInv'
  BY StoredStep
<1>2. CASE OneTask
  <2>1. StoredInv /\ [Next]_vars => StoredInv'
    BY <1>1, <1>2
  <2> QED
    BY <2>1, StoredInit, PTL DEF Spec
<1> QED
  BY <1>2

(* With one task at a time a stored checkpoint on the best chain comes     *)
(* with every transaction up to it, for any reorganisations, restarts,     *)
(* rebinds and failed writes: a restarted wallet misses nothing.           *)
THEOREM SyncPersistedCoversTip == OneTask /\ Spec => []PersistedCoversTip
BY StoredAlways, StoredMeans, PTL

(* With one task at a time no reorged-out transaction is stored below a    *)
(* checkpoint on the best chain: replacing after a rebuild is enough.      *)
THEOREM SyncNoPhantom == OneTask /\ Spec => []NoPhantom
BY StoredAlways, StoredMeans, PTL

(* With one task at a time the addresses that were shown are in the row,   *)
(* through rebuilds, rebinds, restarts and aborted syncs.                  *)
THEOREM SyncRevealDurable == OneTask /\ Spec => []RevealDurable
BY StoredAlways, StoredMeans, PTL

-----------------------------------------------------------------------------
(* What is reconciled.                                                     *)

(* Standing, spelled out.                                                  *)
LEMMA StandingIn ==
  ASSUME TypeOK
  PROVE  Standing <=> Sweep \in pool \/ \E i \in 1..Len(chain) : Sweep \in chain[i].txs
BY ChainTxsIn DEF Standing

(* A sweep that is gone from the chain and the mempool does not come back. *)
LEMMA StandingNet ==
  ASSUME TypeOK, NetStep, ~BroadcastSweep, Standing'
  PROVE  Standing
<1>0. TypeOK' /\ Len(chain) \in Nat
  BY NetTyped, ChainFields
<1>1. Standing' <=> Sweep \in pool' \/ \E i \in 1..Len(chain') : Sweep \in chain'[i].txs
  BY <1>0, ChainTxsIn DEF Standing, TypeOK, ChainTxs, TxsFrom, Block, Txs
<1>2. ASSUME NEW x \in Deposits, Pay(x) PROVE Standing
  <2>1. x # Sweep /\ chain' = chain /\ pool' = pool \cup {x}
    BY <1>2, SyncAssumption DEF Pay
  <2> QED
    BY <1>1, <2>1, StandingIn
<1>3. ASSUME NEW S \in SUBSET pool, Mine(S) PROVE Standing
  <2>1. /\ Len(chain') = Len(chain) + 1 /\ \A i \in 1..Len(chain) : chain'[i] = chain[i]
        /\ chain'[Len(chain) + 1].txs = S
    <3>1. /\ Len(chain') = Len(chain) + 1 /\ \A i \in 1..Len(chain) : chain'[i] = chain[i]
          /\ chain'[Len(chain) + 1] = [id |-> mined + 1, txs |-> S]
      BY <1>3, MineChain
    <3> QED
      BY <3>1
  <2>2. pool' \subseteq pool
    BY <1>3 DEF Mine
  <2>3. \A i \in 1..(Len(chain) + 1) : i \in 1..Len(chain) \/ i = Len(chain) + 1
    BY <1>0
  <2> QED
    BY <1>1, <2>1, <2>2, <2>3, StandingIn
<1>4. ASSUME NEW S \in SUBSET Txs, Reorg(S) PROVE Standing
  <2> DEFINE m == Len(chain)
  <2>1. /\ m >= 1 /\ Len(chain') = m + 1 /\ \A i \in 1..(m - 1) : chain'[i] = chain[i]
        /\ chain'[m].txs = {} /\ chain'[m + 1].txs = {}
    BY <1>4, ReorgChain
  <2>2. pool' = pool \cup S /\ S \subseteq chain[m].txs
    BY <1>4 DEF Reorg
  <2>3. \A i \in 1..(m + 1) : i \in 1..(m - 1) \/ i = m \/ i = m + 1
    BY <1>0
  <2>4. m \in 1..m /\ \A i \in 1..(m - 1) : i \in 1..m
    BY <1>0, <2>1
  <2>5. ASSUME NEW i \in 1..(m + 1), Sweep \in chain'[i].txs
        PROVE  i \in 1..m /\ Sweep \in chain[i].txs
    BY <2>1, <2>3, <2>4, <2>5
  <2> QED
    BY <1>1, <2>1, <2>2, <2>4, <2>5, StandingIn
<1>5. ASSUME MarkComplete PROVE Standing
  <2>1. UNCHANGED <<chain, pool>>
    BY <1>5 DEF MarkComplete, netVars
  <2> QED
    BY <1>1, <2>1, StandingIn
<1> QED
  BY <1>2, <1>3, <1>4, <1>5 DEF NetStep

(* A sync of a wallet with all addresses revealed finds a standing sweep.  *)
LEMMA SyncedSees ==
  ASSUME TypeOK, IdsKnown, NEW w \in Wallet, Faithful(w.cs), w.cs.revealed = 2, Standing
  PROVE  Sweep \in Synced(w).cs.conf \cup Synced(w).seen
<1> DEFINE from == IF backend = "emitter" THEN w.cs.tip.h + 1 ELSE 1
           found == Visible(w) \cap (IF OnChain(w.cs.tip) THEN TxsFrom(from) ELSE ChainTxs)
           s == Synced(w).cs
<1>1. Visible(w) = Txs /\ Sweep \in Txs
  BY DEF Visible, Txs
<1>2. /\ s.tip = ChainTip /\ Synced(w).seen = pool \cap Visible(w)
      /\ s.conf = (IF OnChain(w.cs.tip) THEN w.cs.conf \cup found ELSE found)
  BY SyncedShape
<1>3. CASE Sweep \in pool
  BY <1>1, <1>2, <1>3
<1>4. CASE Sweep \in ChainTxs /\ backend = "emitter"
  <2>1. PICK i \in 1..Len(chain) : Sweep \in chain[i].txs
    BY <1>4, ChainTxsIn
  <2>2. ChainTip.h = Len(chain) /\ OnChain(ChainTip)
    BY TipOfChain
  <2>3. Faithful(s)
    BY SyncedFaithful
  <2> HIDE DEF s
  <2>4. chain[i].txs \subseteq s.conf
    BY <1>2, <1>4, <2>2, <2>3 DEF Faithful
  <2> QED
    BY <2>1, <2>4 DEF s
<1>5. CASE Sweep \in ChainTxs /\ backend # "emitter"
  <2>1. from = 1 /\ TxsFrom(1) = ChainTxs
    BY <1>5 DEF ChainTxs
  <2>2. Sweep \in found
    BY <1>1, <1>5, <2>1
  <2> QED
    BY <1>2, <2>2
<1> QED
  BY <1>3, <1>4, <1>5 DEF Standing

(* A step after which the task has no synced inner in hand.                *)
LEMMA SightAside ==
  ASSUME OneTask, SightInv, NEW t \in Tasks, UNCHANGED <<tool, status, recorded>>,
         shown => shown', task'[t].absent \subseteq {Sweep},
         task'[t].pc \notin Synchronised \/ (task'[t].pc = "merge" /\ task'[t].reveal)
  PROVE  SightInv'
<1>1. \A u \in Tasks : u = t
  BY DEF OneTask
<1> QED
  BY <1>1 DEF SightInv, Synchronised

(* A step that goes on with a synced inner and leaves it alone.            *)
LEMMA SightOn ==
  ASSUME OneTask, SightInv, NEW t \in Tasks, UNCHANGED <<chain, pool, tool, status, recorded, dropped>>,
         shown => shown', wallet'[0] = wallet[0],
         task[t].pc \in Synchronised, ~task[t].reveal,
         task'[t].pc \in Synchronised \ {"check", "revert"}, task'[t].absent \subseteq {Sweep}
  PROVE  SightInv'
<1>1. \A u \in Tasks : u = t
  BY DEF OneTask
<1>2. Standing' <=> Standing
  BY DEF Standing, ChainTxs, TxsFrom
<1> QED
  BY <1>1, <1>2 DEF SightInv

(* The network, while the tool's two steps are not interleaved with tasks. *)
LEMMA SightNet ==
  ASSUME ~ToolOverlaps, TypeOK, SightInv, NetStep
  PROVE  SightInv'
<1>1. UNCHANGED <<wallet, task, shown, dropped>>
  BY NetTyped
<1>2. CASE BroadcastSweep
  <2>1. Quiet /\ shown /\ UNCHANGED <<status, recorded>> /\ tool' # "sweep"
    BY <1>2 DEF BroadcastSweep
  <2>2. \A t \in Tasks : task'[t].pc = "idle" /\ task'[t].absent \subseteq {Sweep}
    BY <1>1, <2>1 DEF Quiet, SightInv
  <2> QED
    BY <1>1, <2>1, <2>2 DEF SightInv, Synchronised
<1>3. CASE ~BroadcastSweep
  <2>1. Standing' => Standing
    BY <1>3, StandingNet
  <2>2. tool' # "sweep" <=> tool # "sweep"
    BY <1>3 DEF NetStep, Pay, Mine, Reorg, MarkComplete, rowVars
  <2>3. /\ recorded' \subseteq {Sweep} /\ (status' = "complete" => tool' # "sweep")
    <3>1. CASE MarkComplete
      BY <3>1 DEF MarkComplete
    <3>2. CASE ~MarkComplete
      <4>1. UNCHANGED <<status, recorded, tool>>
        BY <1>3, <3>2 DEF NetStep, Pay, Mine, Reorg, rowVars
      <4> QED
        BY <4>1 DEF SightInv
    <3> QED
      BY <3>1, <3>2
  <2> QED
    BY <1>1, <2>1, <2>2, <2>3 DEF SightInv
<1> QED
  BY <1>2, <1>3

(* inner is synced: it sees a standing sweep, because its addresses were   *)
(* shown, hence saved, hence loaded.                                       *)
LEMMA SightInner ==
  ASSUME OneTask, StoredInv, SightInv, NEW t \in Tasks, SyncInner(t)
  PROVE  SightInv'
<1>0. TypeOK /\ IdsKnown /\ \A u \in Tasks : u = t
  BY DEF StoredInv, OneTask
<1>1. /\ Kept /\ UNCHANGED shown
      /\ wallet'[0] = Synced(wallet[0])
      /\ task'[t].pc \in {"list", "merge"} /\ task'[t].absent = task[t].absent
  BY <1>0, SyncInnerStep
<1>2. PICK w \in Wallet : w = wallet[0]
  BY <1>0, StateFields
<1>3. Faithful(w.cs)
  BY <1>2 DEF StoredInv
<1>4. ASSUME tool # "sweep", "reveal" \notin dropped, Standing
      PROVE  Sweep \in wallet'[0].cs.conf \cup wallet'[0].seen
  <2>1. db.revealed = 2
    BY <1>4 DEF SightInv, StoredInv, RevealInv, RevealDurable
  <2>2. w.cs.revealed \in 0..2 /\ db.revealed <= w.cs.revealed
    BY <1>2, ChangeSetFields DEF StoredInv, RevealInv
  <2>3. w.cs.revealed = 2
    BY <2>1, <2>2
  <2> QED
    BY <1>0, <1>1, <1>2, <1>3, <1>4, <2>3, SyncedSees
<1>5. Standing' <=> Standing
  BY <1>1 DEF Standing, ChainTxs, TxsFrom, Kept
<1>6. UNCHANGED <<tool, status, recorded, dropped, shown>>
  BY <1>1 DEF Kept
<1> QED
  BY <1>0, <1>1, <1>4, <1>5, <1>6 DEF SightInv

(* The completed versions are read: the only sweep there is is recorded.   *)
LEMMA SightList ==
  ASSUME OneTask, StoredInv, SightInv, NEW t \in Tasks, ListCompleted(t)
  PROVE  SightInv'
<1>0. TypeOK /\ \A u \in Tasks : u = t
  BY DEF StoredInv, OneTask
<1>1. /\ Kept /\ UNCHANGED <<wallet, shown>> /\ task[t].pc = "list"
      /\ \/ task'[t].pc \in {"idle", "reveal"} /\ task'[t].absent = {}
         \/ /\ task'[t].pc = "check" /\ status = "complete" /\ task'[t].wanted = recorded
            /\ task'[t].absent = task[t].absent
  BY <1>0, ListStep
<1>2. UNCHANGED <<chain, pool, tool, status, recorded, dropped, shown, wallet>>
  BY <1>1 DEF Kept
<1>3. CASE task'[t].pc \in {"idle", "reveal"}
  BY <1>1, <1>2, <1>3, SightAside DEF Synchronised
<1>4. CASE task'[t].pc = "check"
  <2>1. Standing' <=> Standing
    BY <1>2 DEF Standing, ChainTxs, TxsFrom
  <2>2. ~task[t].reveal /\ task[t].pc \in Synchronised
    BY <1>1 DEF StoredInv, RevealInv, Synchronised
  <2>3. tool # "sweep" /\ recorded \subseteq {Sweep} /\ task[t].absent \subseteq {Sweep}
    BY <1>1, <1>4 DEF SightInv
  <2>4. "reveal" \notin dropped /\ Standing => Sweep \in wallet[0].cs.conf \cup wallet[0].seen
    BY <2>2, <2>3 DEF SightInv
  <2> QED
    BY <1>0, <1>1, <1>2, <1>4, <2>1, <2>3, <2>4 DEF SightInv
<1> QED
  BY <1>1, <1>3, <1>4

(* Presence is checked: an absent sweep does not stand.                    *)
LEMMA SightCheck ==
  ASSUME OneTask, StoredInv, SightInv, NEW t \in Tasks, CheckPresence(t)
  PROVE  SightInv'
<1>0. TypeOK /\ \A u \in Tasks : u = t
  BY DEF StoredInv, OneTask
<1>1. /\ Kept /\ UNCHANGED <<wallet, shown>> /\ task[t].pc = "check" /\ task'[t].pc = "revert"
      /\ task'[t].wanted = task[t].wanted /\ task'[t].absent \subseteq task[t].wanted
      /\ \A x \in task'[t].absent : x \notin wallet[0].cs.conf \cup wallet[0].seen
  BY <1>0, CheckStep
<1>2. UNCHANGED <<chain, pool, tool, status, recorded, dropped, shown, wallet>>
  BY <1>1 DEF Kept
<1>3. Standing' <=> Standing
  BY <1>2 DEF Standing, ChainTxs, TxsFrom
<1>4. ~task[t].reveal /\ task[t].pc \in Synchronised
  BY <1>1 DEF StoredInv, RevealInv, Synchronised
<1>5. tool # "sweep" /\ task[t].wanted \subseteq {Sweep}
  BY <1>1 DEF SightInv
<1>6. "reveal" \notin dropped /\ Standing => Sweep \in wallet[0].cs.conf \cup wallet[0].seen
  BY <1>4, <1>5 DEF SightInv
<1>7. Sweep \in task'[t].absent /\ "reveal" \notin dropped => ~Standing
  BY <1>1, <1>6
<1> QED
  BY <1>0, <1>1, <1>2, <1>3, <1>5, <1>6, <1>7 DEF SightInv

(* One task at a time, and a tool that runs while nothing else does, keep  *)
(* the sight of the sweep.                                                 *)
LEMMA SightStep == OneTask /\ ~ToolOverlaps /\ StoredInv /\ SightInv /\ [Next]_vars => SightInv'
<1> SUFFICES ASSUME OneTask, ~ToolOverlaps, StoredInv, SightInv, [Next]_vars PROVE SightInv'
  OBVIOUS
<1>0. TypeOK /\ \A t \in Tasks : task[t].absent \subseteq {Sweep}
  BY DEF StoredInv, SightInv
<1>1. CASE UNCHANGED vars
  BY <1>1 DEF SightInv, Standing, ChainTxs, TxsFrom, vars, netVars, rowVars, memVars
<1>2. ASSUME NEW t \in Tasks, NEW page \in BOOLEAN, Start(t, page) PROVE SightInv'
  <2>1. Kept /\ shown' = shown /\ task'[t].pc \in {"versions", "reveal_versions"} /\ task'[t].absent = {}
    BY <1>0, <1>2, StartStep
  <2> QED
    BY <2>1, SightAside DEF Kept, Synchronised
<1>3. ASSUME NEW t \in Tasks, reveal_version_wallets_to_inner(t) PROVE SightInv'
  <2>1. Kept /\ shown' = shown /\ task'[t].pc = "versions" /\ task'[t].absent = task[t].absent
    BY <1>0, <1>3, RevealVersionsStep
  <2> QED
    BY <1>0, <2>1, SightAside DEF Kept, Synchronised
<1>4. ASSUME NEW t \in Tasks, SyncVersion(t) PROVE SightInv'
  <2>1. Kept /\ shown' = shown /\ task'[t].pc \in {"versions", "inner"} /\ task'[t].absent = task[t].absent
    BY <1>0, <1>4, SyncVersionStep
  <2> QED
    BY <1>0, <2>1, SightAside DEF Kept, Synchronised
<1>5. ASSUME NEW t \in Tasks, MergeDelta(t) PROVE SightInv'
  <2>1. /\ Kept /\ UNCHANGED <<wallet, shown>> /\ task[t].pc = "merge" /\ task'[t].pc = "write"
        /\ task'[t].reveal = task[t].reveal /\ task'[t].absent = task[t].absent
    BY <1>0, <1>5, MergeStep
  <2>2. CASE ~task[t].reveal
    BY <1>0, <2>1, <2>2, SightOn DEF Kept, Synchronised
  <2>3. CASE task[t].reveal
    BY <1>0, <2>1, <2>3 DEF OneTask, SightInv, Kept
  <2> QED
    BY <2>2, <2>3
<1>6. ASSUME NEW t \in Tasks, WriteChangeset(t) PROVE SightInv'
  <2>1. /\ Kept /\ UNCHANGED wallet /\ task[t].pc = "write"
        /\ \/ task[t].reveal /\ task'[t].pc = "idle" /\ shown' = TRUE /\ task'[t].absent = {}
           \/ ~task[t].reveal /\ task'[t].pc = "list" /\ shown' = shown
              /\ task'[t].absent = task[t].absent
    BY <1>0, <1>6, WriteStep
  <2>2. CASE task[t].reveal
    BY <2>1, <2>2, SightAside DEF Kept, Synchronised
  <2>3. CASE ~task[t].reveal
    BY <1>0, <2>1, <2>3, SightOn DEF Kept, Synchronised
  <2> QED
    BY <2>2, <2>3
<1>7. ASSUME NEW t \in Tasks, Revert(t) PROVE SightInv'
  <2>1. /\ UNCHANGED <<tool, shown>> /\ task'[t].pc \in {"idle", "reveal"} /\ task'[t].absent = {}
        /\ \/ status' = status /\ recorded' = recorded
           \/ status' = "pending" /\ recorded' = {}
    BY <1>0, <1>7, RevertStep
  <2>2. \A u \in Tasks : u = t
    BY DEF OneTask
  <2> QED
    BY <2>1, <2>2 DEF SightInv, Synchronised
<1>8. ASSUME NEW t \in Tasks, Reveal(t) PROVE SightInv'
  <2>1. /\ Kept
        /\ \/ task'[t].pc = "idle" /\ shown' = TRUE /\ task'[t].absent = {}
           \/ /\ task'[t].pc = "merge" /\ shown' = shown /\ task'[t].reveal
              /\ task'[t].absent = task[t].absent
    BY <1>0, <1>8, RevealStep
  <2> QED
    BY <1>0, <2>1, SightAside DEF Kept, Synchronised
<1>9. ASSUME NEW t \in Tasks, Abort(t) PROVE SightInv'
  <2>1. UNCHANGED <<tool, status, recorded, shown>> /\ task'[t].pc = "idle" /\ task'[t].absent = {}
    BY <1>0, <1>9, AbortStep, TaskFields
  <2> QED
    BY <2>1, SightAside DEF Synchronised
<1>10. CASE Restart
  <2>1. /\ UNCHANGED <<tool, status, recorded, shown>>
        /\ \A t \in Tasks : task'[t].pc = "idle" /\ task'[t].absent = {}
    BY <1>0, <1>10, RestartStep, TaskFields
  <2> QED
    BY <2>1 DEF SightInv, Synchronised
<1> QED
  BY <1>0, <1>1, <1>2, <1>3, <1>4, <1>5, <1>6, <1>7, <1>8, <1>9, <1>10, Steps, SightNet, SightInner,
     SightList, SightCheck

(* At first there is no sweep.                                             *)
LEMMA SightInit == Init => SightInv
<1> SUFFICES ASSUME Init PROVE SightInv
  OBVIOUS
<1>1. /\ tool = "sweep" /\ recorded = {} /\ status = "pending"
      /\ \A t \in Tasks : task[t] = Idle
  BY DEF Init
<1> QED
  BY <1>1, TaskFields DEF SightInv, Synchronised

(* A completed version becomes pending only when its sweep does not stand. *)
LEMMA RevertSound ==
  ASSUME TypeOK, SightInv, [Next]_vars, status = "complete", status' = "pending", "reveal" \notin dropped
  PROVE  Sweep \notin ChainTxs \cup pool
<1>1. \E t \in Tasks : Revert(t)
  <2>1. ASSUME NetStep PROVE FALSE
    BY <2>1 DEF NetStep, Pay, Mine, Reorg, BroadcastSweep, MarkComplete, rowVars
  <2>2. ASSUME Restart PROVE FALSE
    BY <2>2, RestartStep
  <2>3. ASSUME UNCHANGED vars PROVE FALSE
    BY <2>3 DEF vars, rowVars
  <2>4. ASSUME NEW t \in Tasks, Abort(t) PROVE FALSE
    BY <2>4, AbortStep
  <2>5. ASSUME Kept PROVE FALSE
    BY <2>5 DEF Kept
  <2> QED
    BY <2>1, <2>2, <2>3, <2>4, <2>5, Steps, StartStep, RevealVersionsStep, SyncVersionStep,
       SyncInnerStep, MergeStep, WriteStep, ListStep, CheckStep, RevealStep
<1>2. PICK t \in Tasks : Revert(t)
  BY <1>1
<1>3. task[t].pc = "revert" /\ \E x \in task[t].absent : recorded = {x}
  BY <1>2, RevertStep
<1>4. Sweep \in task[t].absent
  BY <1>3 DEF SightInv
<1> QED
  BY <1>3, <1>4 DEF SightInv, Standing

(* With one task at a time and a migration tool that is run while the app  *)
(* rests, reconcile_migration never reverts a version whose sweep stands,  *)
(* on either backend, through any reorganisations, restarts, rebinds and   *)
(* failed syncs.                                                           *)
THEOREM SyncNoFalseRevert == OneTask /\ ~ToolOverlaps /\ Spec => NoFalseRevert
<1>1. CASE OneTask /\ ~ToolOverlaps
  <2>1. SightInv /\ StoredInv /\ [Next]_vars => SightInv'
    BY <1>1, SightStep
  <2>2. StoredInv /\ [Next]_vars => StoredInv'
    BY <1>1, StoredStep
  <2>3. StoredInv /\ SightInv /\ [Next]_vars =>
          [status = "complete" /\ status' = "pending" /\ "reveal" \notin dropped =>
             Sweep \notin ChainTxs \cup pool]_vars
    BY RevertSound DEF StoredInv
  <2>4. Spec => [](StoredInv /\ SightInv)
    BY <2>1, <2>2, StoredInit, SightInit, PTL DEF Spec
  <2> QED
    BY <2>3, <2>4, PTL DEF Spec, NoFalseRevert
<1> QED
  BY <1>1

-----------------------------------------------------------------------------
(* The evicted sweep.                                                      *)

InChain == \E i \in 1..Len(chain) : Sweep \in chain[i].txs

(* A wallet knows the sweep; it is clean if it will notice that it is gone:*)
(* the block it knows it from is off the best chain.                       *)
Known(w) == Sweep \in w.cs.conf \cup w.seen
Clean(w) == Known(w) => ~OnChain(w.cs.tip)

(* The sweep is in one place at most, nowhere before the tool has sent it  *)
(* and nowhere once it is lost; a completed version has recorded it.       *)
PlaceInv ==
  /\ rebound => restarts >= 1
  /\ \A i, j \in 1..Len(chain) : Sweep \in chain[i].txs /\ Sweep \in chain[j].txs => i = j
  /\ Sweep \in pool => ~InChain
  /\ tool = "sweep" => ~InChain /\ Sweep \notin pool
  /\ status = "complete" => recorded = {Sweep}
  /\ lost => ~InChain /\ Sweep \notin pool /\ tool = "done" /\ reorgs >= 1

AllFaithful == \A i \in 0..Versions : Faithful(wallet[i].cs)

(* Before the reorganisation every checkpoint is on the chain.             *)
FreshInv == reorgs = 0 => OnChain(db.tip) /\ \A i \in 0..Versions : OnChain(wallet[i].cs.tip)

(* The version wallets that the sync in hand has already been at.  Before  *)
(* the reorganisation they have no memory of the mempool with the sweep,   *)
(* once inner has it confirmed; so after it they are clean.                *)
Passed(r, j) == r.pc = "inner" \/ (r.pc \in {"reveal_versions", "versions"} /\ j < r.at)

UnseenInv ==
  reorgs = 0 /\ Sweep \in wallet[0].cs.conf =>
    \A t \in Tasks : \A j \in 1..Versions : Passed(task[t], j) => Sweep \notin wallet[j].seen

PassedInv ==
  lost => \A t \in Tasks : \A j \in 1..Versions : Passed(task[t], j) => Clean(wallet[j])

(* A task that saw the reorg and will look for the sweep.                  *)
Reports(r) ==
  /\ r.reorg /\ ~r.reveal /\ r.pc \in {"versions", "inner"} \cup Synchronised
  /\ r.pc = "check" => r.wanted = {Sweep}
  /\ r.pc = "revert" => r.absent = {Sweep}

(* Once inner has followed the reorganisation, a version that is still     *)
(* complete is one that a task is about to revert, or that a version       *)
(* wallet remembers which will itself notice the reorg.                    *)
NoticeInv ==
  lost /\ "sync" \notin dropped /\ OnChain(wallet[0].cs.tip) =>
    /\ ~Known(wallet[0]) /\ \A j \in 1..Versions : Clean(wallet[j])
    /\ status = "complete" =>
         \/ \E j \in 1..Versions : Known(wallet[j])
         \/ \E t \in Tasks : Reports(task[t])

EvictInv == StoredInv /\ PlaceInv /\ AllFaithful /\ FreshInv /\ UnseenInv /\ PassedInv /\ NoticeInv

(* What the steps of the tasks and a restart do to the wallets and the row.*)
Moved(i) ==
  \/ SameKnown(wallet[i], wallet'[i])
  \/ wallet'[i] = Synced(wallet[i])
  \/ wallet'[i].cs = db
  \/ wallet'[i].cs.tip = Genesis /\ wallet'[i].cs.conf = {}

TaskMoves ==
  /\ UNCHANGED <<backend, chain, pool, mined, reorgs, tool>>
  /\ db' = db \/ db' = wallet[0].cs \/ (db'.tip = Genesis /\ db'.conf = {})
  /\ \A i \in 0..Versions : Moved(i)
  /\ UNCHANGED <<status, recorded>> \/ status' = "pending"
  /\ lost' => lost
  /\ UNCHANGED <<restarts, rebound>> \/ restarts' = restarts + 1

(* A step is one of the network and the tool or moves the wallets like so. *)
LEMMA Moves ==
  ASSUME StoredInv, [Next]_vars, ~NetStep
  PROVE  TaskMoves
<1>0. TypeOK /\ \A i \in 0..Versions : i = 0 \/ i \in 1..Versions
  BY SyncAssumption DEF StoredInv
<1>1. ASSUME Kept PROVE /\ UNCHANGED <<backend, chain, pool, mined, reorgs, tool>>
                        /\ UNCHANGED <<status, recorded>> /\ UNCHANGED <<restarts, rebound>>
                        /\ lost' => lost
  BY <1>1 DEF Kept
<1>2. ASSUME wallet' = wallet PROVE \A i \in 0..Versions : Moved(i)
  BY <1>2 DEF Moved, SameKnown
<1>3. CASE UNCHANGED vars
  BY <1>2, <1>3 DEF TaskMoves, vars, netVars, rowVars, memVars
<1>4. ASSUME NEW t \in Tasks, NEW page \in BOOLEAN, Start(t, page) PROVE TaskMoves
  <2>1. Kept /\ UNCHANGED <<wallet, db>>
    BY <1>0, <1>4, StartStep
  <2> QED
    BY <1>1, <1>2, <2>1 DEF TaskMoves
<1>5. ASSUME NEW t \in Tasks, reveal_version_wallets_to_inner(t) PROVE TaskMoves
  <2>1. Kept /\ db' = db /\ \A i \in 0..Versions : SameKnown(wallet[i], wallet'[i])
    BY <1>0, <1>5, RevealVersionsStep
  <2> QED
    BY <1>1, <2>1 DEF TaskMoves, Moved
<1>6. ASSUME NEW t \in Tasks, SyncVersion(t) PROVE TaskMoves
  <2>1. /\ Kept /\ db' = db /\ wallet'[task[t].at] = Synced(wallet[task[t].at])
        /\ \A i \in 0..Versions : i # task[t].at => wallet'[i] = wallet[i]
    BY <1>0, <1>6, SyncVersionStep
  <2>2. \A i \in 0..Versions : Moved(i)
    BY <2>1 DEF Moved, SameKnown
  <2> QED
    BY <1>1, <2>1, <2>2 DEF TaskMoves
<1>7. ASSUME NEW t \in Tasks, SyncInner(t) PROVE TaskMoves
  <2>1. /\ Kept /\ db' = db /\ wallet'[0] = Synced(wallet[0])
        /\ \A i \in 1..Versions : wallet'[i] = wallet[i]
    BY <1>0, <1>7, SyncInnerStep
  <2>2. \A i \in 0..Versions : Moved(i)
    BY <1>0, <2>1 DEF Moved, SameKnown
  <2> QED
    BY <1>1, <2>1, <2>2 DEF TaskMoves
<1>8. ASSUME NEW t \in Tasks, MergeDelta(t) PROVE TaskMoves
  <2>1. Kept /\ UNCHANGED <<wallet, db>>
    BY <1>0, <1>8, MergeStep
  <2> QED
    BY <1>1, <1>2, <2>1 DEF TaskMoves
<1>9. ASSUME NEW t \in Tasks, WriteChangeset(t) PROVE TaskMoves
  <2>1. Kept /\ UNCHANGED wallet /\ task[t].pc = "write" /\ db' = task[t].json
    BY <1>0, <1>9, WriteStep
  <2>2. task[t].json = wallet[0].cs
    BY <2>1 DEF StoredInv, MemInv
  <2> QED
    BY <1>1, <1>2, <2>1, <2>2 DEF TaskMoves
<1>10. ASSUME NEW t \in Tasks, ListCompleted(t) \/ CheckPresence(t) PROVE TaskMoves
  <2>1. Kept /\ UNCHANGED <<wallet, db>>
    BY <1>0, <1>10, ListStep, CheckStep
  <2> QED
    BY <1>1, <1>2, <2>1 DEF TaskMoves
<1>11. ASSUME NEW t \in Tasks, Revert(t) PROVE TaskMoves
  <2>1. /\ UNCHANGED <<backend, chain, pool, mined, reorgs, tool, rebound, lost, restarts, wallet, db>>
        /\ UNCHANGED <<status, recorded>> \/ status' = "pending"
    BY <1>0, <1>11, RevertStep
  <2> QED
    BY <1>2, <2>1 DEF TaskMoves
<1>12. ASSUME NEW t \in Tasks, Reveal(t) PROVE TaskMoves
  <2>1. /\ Kept /\ db' = db /\ SameKnown(wallet[0], wallet'[0])
        /\ \A i \in 1..Versions : wallet'[i] = wallet[i]
    BY <1>0, <1>12, RevealStep DEF SameKnown
  <2>2. \A i \in 0..Versions : Moved(i)
    BY <1>0, <2>1 DEF Moved, SameKnown
  <2> QED
    BY <1>1, <2>1, <2>2 DEF TaskMoves
<1>13. ASSUME NEW t \in Tasks, Abort(t) PROVE TaskMoves
  <2>1. UNCHANGED <<backend, chain, pool, mined, reorgs, tool, status, recorded, rebound, lost, restarts, wallet, db>>
    BY <1>0, <1>13, AbortStep
  <2> QED
    BY <1>2, <2>1 DEF TaskMoves
<1>14. ASSUME Restart PROVE TaskMoves
  <2>1. /\ UNCHANGED <<backend, chain, pool, mined, reorgs, status, recorded, tool>>
        /\ wallet'[0].cs = db' /\ (db' = db \/ (db'.tip = Genesis /\ db'.conf = {}))
        /\ \A i \in 1..Versions : wallet'[i] = Loaded(Empty)
        /\ (lost' => lost) /\ restarts' = restarts + 1
    BY <1>0, <1>14, RestartStep
  <2>2. Loaded(Empty).cs.tip = Genesis /\ Loaded(Empty).cs.conf = {}
    BY DEF Loaded, Empty
  <2>3. \A i \in 0..Versions : Moved(i)
    BY <1>0, <2>1, <2>2 DEF Moved
  <2> QED
    BY <2>1, <2>3 DEF TaskMoves
<1> QED
  BY <1>3, <1>4, <1>5, <1>6, <1>7, <1>8, <1>9, <1>10, <1>11, <1>12, <1>13, <1>14, Steps

(* Every wallet stays faithful.                                            *)
LEMMA FaithfulStep ==
  ASSUME StoredInv, AllFaithful, [Next]_vars
  PROVE  AllFaithful'
<1>0. TypeOK /\ IdsKnown /\ Faithful(db)
  BY DEF StoredInv
<1>1. ASSUME NEW i \in 0..Versions PROVE Faithful(wallet[i].cs)'
  <2>1. wallet[i] \in Wallet /\ wallet[i].cs \in ChangeSet /\ Faithful(wallet[i].cs)
    BY <1>0, StateFields DEF AllFaithful
  <2>2. PICK c : c = wallet'[i].cs
    OBVIOUS
  <2>3. CASE NetStep
    <3>1. c = wallet[i].cs
      BY <1>0, <2>2, <2>3, NetTyped
    <3>2. c \in ChangeSet /\ Faithful(c)
      BY <2>1, <3>1
    <3>3. Faithful(c)'
      BY <1>0, <2>3, <3>2, FaithfulNet
    <3> QED
      BY <2>2, <3>3 DEF Faithful, OnChain
  <2>4. CASE ~NetStep
    <3>1. Moved(i) /\ UNCHANGED <<backend, chain, mined>>
      BY <2>4, Moves DEF TaskMoves
    <3>2. Faithful(c)
      <4>1. CASE SameKnown(wallet[i], wallet'[i])
        <5>1. c.tip = wallet[i].cs.tip /\ c.conf = wallet[i].cs.conf
          BY <2>2, <4>1 DEF SameKnown
        <5> QED
          BY <2>1, <5>1 DEF Faithful
      <4>2. CASE wallet'[i] = Synced(wallet[i])
        <5>1. Faithful(Synced(wallet[i]).cs)
          BY <1>0, <2>1, SyncedFaithful
        <5> QED
          BY <2>2, <4>2, <5>1
      <4>3. CASE wallet'[i].cs = db
        BY <1>0, <2>2, <4>3
      <4>4. CASE wallet'[i].cs.tip = Genesis /\ wallet'[i].cs.conf = {}
        <5>1. c.tip.h = 0 /\ c.tip.id = 0 /\ c.conf = {} /\ Len(chain) \in Nat /\ mined \in Nat
          BY <1>0, <2>2, <4>4, ChainFields DEF Genesis
        <5> QED
          BY <5>1 DEF Faithful
      <4> QED
        BY <3>1, <4>1, <4>2, <4>3, <4>4 DEF Moved
    <3>3. Faithful(c)'
      BY <3>1, <3>2, FaithfulStays
    <3> QED
      BY <2>2, <3>3 DEF Faithful, OnChain
  <2> QED
    BY <2>3, <2>4
<1> QED
  BY <1>1 DEF AllFaithful

(* Blocks that are added leave the checkpoints on the chain.               *)
LEMMA MineKeepsOn ==
  ASSUME TypeOK, NEW S \in SUBSET pool, Mine(S), NEW tip \in [h : Nat, id : Nat],
         tip.h <= Len(chain), OnChain(tip)
  PROVE  OnChain(tip)'
<1>1. Len(chain) \in Nat /\ Len(chain') = Len(chain) + 1 /\ \A i \in 1..Len(chain) : chain'[i] = chain[i]
  BY ChainFields, MineChain
<1>2. tip.h # 0 => tip.h \in 1..Len(chain)
  BY <1>1
<1> QED
  BY <1>1, <1>2 DEF OnChain

(* Without a reorganisation every checkpoint stays on the chain.           *)
LEMMA FreshStep ==
  ASSUME StoredInv, AllFaithful, FreshInv, [Next]_vars
  PROVE  FreshInv'
<1>0. TypeOK /\ reorgs \in Nat /\ db \in ChangeSet /\ Faithful(db)
  BY StateFields DEF StoredInv, TypeOK
<1>1. ASSUME NEW tip, tip.h = 0 PROVE OnChain(tip)'
  BY <1>1 DEF OnChain
<1>2. CASE NetStep
  <2> SUFFICES ASSUME reorgs' = 0
               PROVE  OnChain(db.tip)' /\ \A i \in 0..Versions : OnChain(wallet[i].cs.tip)'
    BY DEF FreshInv
  <2>1. UNCHANGED <<wallet, db>>
    BY <1>0, <1>2, NetTyped
  <2>2. ~\E S \in SUBSET Txs : Reorg(S)
    BY <1>0 DEF Reorg
  <2>3. reorgs = 0
    BY <1>2, <2>2 DEF NetStep, Pay, Mine, BroadcastSweep, MarkComplete, netVars
  <2>4. ASSUME NEW tip \in [h : Nat, id : Nat], tip.h <= Len(chain), OnChain(tip) PROVE OnChain(tip)'
    <3>1. CASE chain' = chain
      BY <2>4, <3>1 DEF OnChain
    <3>2. CASE \E S \in SUBSET pool : Mine(S)
      BY <1>0, <2>4, <3>2, MineKeepsOn
    <3> QED
      BY <1>2, <2>2, <3>1, <3>2 DEF NetStep, Pay, BroadcastSweep, MarkComplete, netVars
  <2>5. ASSUME NEW cs \in ChangeSet, Faithful(cs), OnChain(cs.tip) PROVE OnChain(cs.tip)'
    BY <2>4, <2>5, ChangeSetFields DEF Faithful
  <2>6. OnChain(db.tip)'
    <3>1. PICK c : c = db
      OBVIOUS
    <3>2. OnChain(c.tip)'
      BY <1>0, <2>3, <2>5, <3>1 DEF FreshInv
    <3> QED
      BY <2>1, <3>1, <3>2 DEF OnChain
  <2>7. ASSUME NEW i \in 0..Versions PROVE OnChain(wallet[i].cs.tip)'
    <3>1. PICK c : c = wallet[i].cs
      OBVIOUS
    <3>2. c \in ChangeSet /\ Faithful(c) /\ OnChain(c.tip)
      BY <1>0, <2>3, <3>1, StateFields DEF FreshInv, AllFaithful
    <3>3. OnChain(c.tip)'
      BY <2>5, <3>2
    <3> QED
      BY <2>1, <3>1, <3>3 DEF OnChain
  <2> QED
    BY <2>6, <2>7
<1>3. CASE ~NetStep
  <2>1. TaskMoves
    BY <1>3, Moves
  <2> SUFFICES ASSUME reorgs = 0
               PROVE  OnChain(db.tip)' /\ \A i \in 0..Versions : OnChain(wallet[i].cs.tip)'
    BY <2>1 DEF FreshInv, TaskMoves
  <2>2. OnChain(db.tip) /\ \A i \in 0..Versions : OnChain(wallet[i].cs.tip)
    BY DEF FreshInv
  <2>3. chain' = chain /\ 0 \in 0..Versions /\ OnChain(Genesis) /\ OnChain(ChainTip)
    BY <1>0, <2>1, StateFields, TipOfChain DEF TaskMoves, OnChain, Genesis
  <2>4. ASSUME NEW tip, OnChain(tip) PROVE OnChain(tip)'
    BY <2>3, <2>4 DEF OnChain
  <2>5. OnChain(db.tip)'
    <3>1. PICK tip : tip = db'.tip
      OBVIOUS
    <3>2. OnChain(tip)
      BY <2>1, <2>2, <2>3, <3>1 DEF TaskMoves
    <3>3. OnChain(tip)'
      BY <2>4, <3>2
    <3> QED
      BY <3>1, <3>3 DEF OnChain
  <2>6. ASSUME NEW i \in 0..Versions PROVE OnChain(wallet[i].cs.tip)'
    <3>1. PICK tip : tip = wallet'[i].cs.tip
      OBVIOUS
    <3>2. Synced(wallet[i]).cs.tip = ChainTip
      BY <1>0, StateFields, SyncedShape
    <3>3. OnChain(tip)
      BY <2>1, <2>2, <2>3, <3>1, <3>2 DEF TaskMoves, Moved, SameKnown
    <3>4. OnChain(tip)'
      BY <2>4, <3>3
    <3> QED
      BY <3>1, <3>4 DEF OnChain
  <2> QED
    BY <2>5, <2>6
<1> QED
  BY <1>2, <1>3

(* The sweep is in one place at most; it is lost once.                     *)
LEMMA PlaceStep ==
  ASSUME ~ToolOverlaps, MaxReorgs <= 1, StoredInv, PlaceInv, [Next]_vars
  PROVE  PlaceInv'
<1>0. /\ TypeOK /\ Len(chain) \in Nat /\ reorgs \in Nat /\ restarts \in Nat /\ MaxReorgs \in Nat
      /\ tool \in {"sweep", "mark", "done"}
  BY ChainFields, SyncAssumption DEF StoredInv, TypeOK
<1>1. CASE ~NetStep
  <2>1. TaskMoves
    BY <1>1, Moves
  <2>2. UNCHANGED <<chain, pool, tool, reorgs>> /\ (status' = "complete" => UNCHANGED <<status, recorded>>)
        /\ (lost' => lost)
    BY <2>1 DEF TaskMoves
  <2>3. rebound' => restarts' >= 1
    <3>1. UNCHANGED <<restarts, rebound>> \/ restarts' = restarts + 1
      BY <2>1 DEF TaskMoves
    <3>2. rebound => restarts >= 1
      BY DEF PlaceInv
    <3>3. restarts + 1 >= 1
      BY <1>0
    <3> QED
      BY <3>1, <3>2, <3>3
  <2> QED
    BY <2>2, <2>3 DEF PlaceInv, InChain
<1>2. ASSUME NEW x \in Deposits, Pay(x) PROVE PlaceInv'
  <2>1. x # Sweep /\ pool' = pool \cup {x}
        /\ UNCHANGED <<chain, tool, reorgs, status, recorded, rebound, lost, restarts>>
    BY <1>2, SyncAssumption DEF Pay, rowVars
  <2>2. Sweep \in pool' => Sweep \in pool
    BY <2>1
  <2> QED
    BY <2>1, <2>2 DEF PlaceInv, InChain
<1>3. ASSUME NEW S \in SUBSET pool, Mine(S) PROVE PlaceInv'
  <2> DEFINE m == Len(chain)
  <2>1. /\ Len(chain') = m + 1 /\ \A i \in 1..m : chain'[i] = chain[i]
        /\ chain'[m + 1].txs = S
    <3>1. /\ Len(chain') = m + 1 /\ \A i \in 1..m : chain'[i] = chain[i]
          /\ chain'[m + 1] = [id |-> mined + 1, txs |-> S]
      BY <1>0, <1>3, MineChain
    <3> QED
      BY <3>1
  <2>2. pool' = pool \ S /\ UNCHANGED <<tool, reorgs, status, recorded, rebound, lost, restarts>>
    BY <1>3 DEF Mine, rowVars
  <2>3. \A i \in 1..(m + 1) : (i \in 1..m /\ i # m + 1) \/ i = m + 1
    BY <1>0
  <2>4. \A i \in 1..(m + 1) : Sweep \in chain'[i].txs =>
          (i = m + 1 /\ Sweep \in S) \/ (i \in 1..m /\ Sweep \in chain[i].txs)
    BY <2>1, <2>3
  <2>5. Sweep \in S => Sweep \in pool /\ ~InChain
    BY DEF PlaceInv
  <2>6. InChain' => InChain \/ Sweep \in S
    BY <2>1, <2>4 DEF InChain
  <2>7. \A i, j \in 1..(m + 1) : Sweep \in chain'[i].txs /\ Sweep \in chain'[j].txs => i = j
    BY <2>4, <2>5 DEF PlaceInv, InChain
  <2>8. Sweep \in pool' => Sweep \in pool /\ Sweep \notin S
    BY <2>2
  <2> HIDE DEF m
  <2> QED
    BY <2>1, <2>2, <2>5, <2>6, <2>7, <2>8 DEF PlaceInv
<1>4. ASSUME NEW S \in SUBSET Txs, Reorg(S) PROVE PlaceInv'
  <2> DEFINE m == Len(chain)
  <2>1. /\ m >= 1 /\ Len(chain') = m + 1 /\ \A i \in 1..(m - 1) : chain'[i] = chain[i]
        /\ chain'[m].txs = {} /\ chain'[m + 1].txs = {}
    BY <1>0, <1>4, ReorgChain
  <2>2. /\ pool' = pool \cup S /\ S \subseteq chain[m].txs /\ reorgs < MaxReorgs /\ reorgs' = reorgs + 1
        /\ lost' => lost \/ Sweep \in chain[m].txs \ S
        /\ UNCHANGED <<tool, status, recorded, rebound, restarts>> /\ tool # "mark"
    BY <1>4 DEF Reorg, rowVars, Calm
  <2>3. ~lost /\ reorgs' >= 1
    BY <1>0, <2>2 DEF PlaceInv
  <2>4. \A i \in 1..(m + 1) : (i \in 1..(m - 1) /\ i \in 1..m /\ i # m) \/ i = m \/ i = m + 1
    BY <1>0
  <2>5. \A i \in 1..(m + 1) : Sweep \in chain'[i].txs => i \in 1..m /\ i # m /\ Sweep \in chain[i].txs
    BY <2>1, <2>4
  <2>6. m \in 1..m
    BY <1>0, <2>1
  <2>7. Sweep \in chain[m].txs => ~InChain' /\ InChain /\ Sweep \notin pool /\ tool = "done"
    <3>1. Sweep \in chain[m].txs => ~InChain'
      BY <2>1, <2>5, <2>6 DEF InChain, PlaceInv
    <3>2. Sweep \in chain[m].txs => InChain
      BY <2>6 DEF InChain
    <3> QED
      BY <1>0, <2>2, <3>1, <3>2 DEF PlaceInv
  <2>8. InChain' => InChain
    BY <2>1, <2>5 DEF InChain
  <2>9. \A i, j \in 1..(m + 1) : Sweep \in chain'[i].txs /\ Sweep \in chain'[j].txs => i = j
    BY <2>5 DEF PlaceInv
  <2>10. Sweep \in pool' => Sweep \in pool \/ Sweep \in chain[m].txs
    BY <2>2
  <2>11. lost' => Sweep \in chain[m].txs /\ Sweep \notin pool'
    BY <2>2, <2>3, <2>7
  <2> HIDE DEF m
  <2> QED
    BY <2>1, <2>2, <2>3, <2>7, <2>8, <2>9, <2>10, <2>11 DEF PlaceInv
<1>5. ASSUME BroadcastSweep PROVE PlaceInv'
  <2>1. /\ tool = "sweep" /\ tool' = "mark" /\ pool' = pool \cup {Sweep}
        /\ UNCHANGED <<chain, reorgs, status, recorded, rebound, lost, restarts>>
    BY <1>5 DEF BroadcastSweep
  <2> QED
    BY <2>1 DEF PlaceInv, InChain
<1>6. ASSUME MarkComplete PROVE PlaceInv'
  <2>1. /\ tool = "mark" /\ tool' = "done" /\ recorded' = {Sweep}
        /\ UNCHANGED <<chain, pool, reorgs, rebound, lost, restarts>>
    BY <1>6 DEF MarkComplete, netVars
  <2> QED
    BY <2>1 DEF PlaceInv, InChain
<1> QED
  BY <1>1, <1>2, <1>3, <1>4, <1>5, <1>6 DEF NetStep

(* A sync finds no sweep that is gone, and none in the mempool that is in a*)
(* block.                                                                  *)
LEMMA SyncedForgets ==
  ASSUME TypeOK, NEW w \in Wallet, Faithful(w.cs), ~InChain, Sweep \notin pool
  PROVE  ~Known(Synced(w))
<1> DEFINE from == IF backend = "emitter" THEN w.cs.tip.h + 1 ELSE 1
           found == Visible(w) \cap (IF OnChain(w.cs.tip) THEN TxsFrom(from) ELSE ChainTxs)
<1>1. /\ Synced(w).cs.conf = (IF OnChain(w.cs.tip) THEN w.cs.conf \cup found ELSE found)
      /\ Synced(w).seen = pool \cap Visible(w)
  BY SyncedShape
<1>2. Len(chain) \in Nat /\ w.cs.tip.h \in Nat /\ w.cs.tip.h <= Len(chain)
  BY ChainFields, ChangeSetFields DEF Faithful
<1>3. from \in Nat /\ from >= 1
  BY <1>2
<1>4. Sweep \notin TxsFrom(from) /\ Sweep \notin ChainTxs
  BY <1>3, TxsFromIn, ChainTxsIn DEF InChain
<1>5. Sweep \notin found
  BY <1>4
<1>6. \A i \in 1..w.cs.tip.h : i \in 1..Len(chain)
  BY <1>2
<1>7. OnChain(w.cs.tip) => Sweep \notin w.cs.conf
  BY <1>6 DEF Faithful, InChain
<1> HIDE DEF found
<1> QED
  BY <1>1, <1>5, <1>7 DEF Known

(* A checkpoint with the sweep of the last block is off the chain after it.*)
LEMMA ReorgLoses ==
  ASSUME TypeOK, IdsKnown, PlaceInv, NEW w \in Wallet, Faithful(w.cs), OnChain(w.cs.tip),
         NEW S \in SUBSET Txs, Reorg(S), Sweep \in chain[Len(chain)].txs, Sweep \in w.cs.conf
  PROVE  ~OnChain(w.cs.tip)'
<1> DEFINE m == Len(chain)
<1>1. /\ m \in Nat /\ m >= 1 /\ Len(chain') = m + 1 /\ chain'[m] = [id |-> mined + 1, txs |-> {}]
  BY ReorgChain
<1>2. /\ w.cs.tip.h \in Nat /\ w.cs.tip.h <= m /\ w.cs.tip.id \in Nat /\ w.cs.tip.id <= mined /\ mined \in Nat
  BY ChainFields, ChangeSetFields DEF Faithful
<1>3. PICK i \in 1..w.cs.tip.h : Sweep \in chain[i].txs
  BY DEF Faithful
<1>4. i \in 1..m /\ m \in 1..m
  BY <1>1, <1>2
<1>5. i = m
  BY <1>3, <1>4 DEF PlaceInv
<1>6. w.cs.tip.h = m
  BY <1>1, <1>2, <1>3, <1>5
<1>7. chain'[m].id = mined + 1
  BY <1>1
<1>8. w.cs.tip.id # mined + 1 /\ m # 0
  BY <1>1, <1>2
<1> HIDE DEF m
<1> QED
  BY <1>6, <1>7, <1>8 DEF OnChain

(* The network and the trace of the sweep.                                 *)
LEMMA TraceNet ==
  ASSUME MaxReorgs <= 1, EvictInv, NetStep
  PROVE  UnseenInv' /\ PassedInv' /\ NoticeInv'
<1>0. /\ TypeOK /\ IdsKnown /\ PlaceInv /\ AllFaithful /\ FreshInv /\ UnseenInv /\ PassedInv /\ NoticeInv
      /\ reorgs \in Nat /\ MaxReorgs \in Nat /\ 0 \in 0..Versions
      /\ \A j \in 1..Versions : j \in 0..Versions
  BY SyncAssumption DEF EvictInv, StoredInv, TypeOK
<1>1. UNCHANGED <<wallet, task, dropped>>
  BY <1>0, NetTyped
<1>2. \A i \in 0..Versions : wallet[i] \in Wallet /\ Faithful(wallet[i].cs)
  BY <1>0, StateFields DEF AllFaithful
<1>3. UnseenInv'
  <2>1. reorgs' = 0 => reorgs = 0
    <3>1. reorgs' = reorgs \/ reorgs' = reorgs + 1
      BY DEF NetStep, Pay, Mine, Reorg, BroadcastSweep, MarkComplete, netVars
    <3> QED
      BY <1>0, <3>1
  <2> QED
    BY <1>0, <1>1, <2>1 DEF UnseenInv
<1>4. CASE ~lost /\ lost'
  <2>1. PICK S \in SUBSET Txs : Reorg(S)
    BY <1>4 DEF NetStep, Pay, Mine, BroadcastSweep, MarkComplete
  <2>2. /\ Sweep \in chain[Len(chain)].txs /\ Sweep \in wallet[0].cs.conf /\ reorgs < MaxReorgs
    BY <1>4, <2>1 DEF Reorg
  <2>3. reorgs = 0
    BY <1>0, <2>2
  <2>4. ASSUME NEW i \in 0..Versions, Sweep \in wallet[i].cs.conf PROVE ~OnChain(wallet[i].cs.tip)'
    <3>1. PICK w : w = wallet[i]
      OBVIOUS
    <3>2. w \in Wallet /\ Faithful(w.cs) /\ OnChain(w.cs.tip) /\ Sweep \in w.cs.conf
      BY <1>0, <1>2, <2>3, <2>4, <3>1 DEF FreshInv
    <3>3. ~OnChain(w.cs.tip)'
      BY <1>0, <2>1, <2>2, <3>2, ReorgLoses
    <3> QED
      BY <1>1, <3>1, <3>3 DEF OnChain
  <2>5. PassedInv'
    <3> SUFFICES ASSUME NEW t \in Tasks, NEW j \in 1..Versions, Passed(task[t], j), Known(wallet[j])
                 PROVE  ~OnChain(wallet[j].cs.tip)'
      BY <1>1 DEF PassedInv, Clean, Known, Passed
    <3>1. Sweep \notin wallet[j].seen
      BY <1>0, <2>2, <2>3 DEF UnseenInv
    <3>2. Sweep \in wallet[j].cs.conf
      BY <3>1 DEF Known
    <3> QED
      BY <1>0, <2>4, <3>2
  <2>6. NoticeInv'
    <3>1. ~OnChain(wallet[0].cs.tip)'
      BY <1>0, <2>2, <2>4
    <3> QED
      BY <3>1 DEF NoticeInv
  <2> QED
    BY <1>3, <2>5, <2>6
<1>5. CASE lost
  <2>1. tool = "done" /\ reorgs >= 1
    BY <1>0, <1>5 DEF PlaceInv
  <2>2. ~\E S \in SUBSET Txs : Reorg(S)
    BY <1>0, <2>1 DEF Reorg
  <2>3. UNCHANGED <<status, lost>>
    BY <2>1, <2>2 DEF NetStep, Pay, Mine, BroadcastSweep, MarkComplete, rowVars
  <2>4. ASSUME NEW i \in 0..Versions, OnChain(wallet[i].cs.tip)' PROVE OnChain(wallet[i].cs.tip)
    <3>1. PICK tip : tip = wallet[i].cs.tip
      OBVIOUS
    <3>2. tip \in [h : Nat, id : Nat] /\ tip.h <= Len(chain) /\ tip.id <= mined
      BY <1>0, <1>2, <3>1, StateFields, ChangeSetFields DEF Faithful
    <3>3. OnChain(tip)' => OnChain(tip)
      BY <1>0, <3>2, NetKeepsPrefix
    <3>4. OnChain(tip)'
      BY <1>1, <2>4, <3>1 DEF OnChain
    <3> QED
      BY <3>1, <3>3, <3>4
  <2>5. \A i \in 0..Versions : Clean(wallet[i]) => Clean(wallet[i])'
    BY <1>1, <2>4 DEF Clean, Known
  <2>6. PassedInv'
    BY <1>0, <1>1, <1>5, <2>5 DEF PassedInv, Passed
  <2>7. NoticeInv'
    <3> SUFFICES ASSUME "sync" \notin dropped', OnChain(wallet[0].cs.tip)'
                 PROVE  /\ ~Known(wallet[0])' /\ \A j \in 1..Versions : Clean(wallet[j])'
                        /\ status' = "complete" =>
                              \/ \E j \in 1..Versions : Known(wallet[j])'
                              \/ \E t \in Tasks : Reports(task[t])'
      BY DEF NoticeInv
    <3>1. "sync" \notin dropped /\ OnChain(wallet[0].cs.tip)
      BY <1>0, <1>1, <2>4
    <3>2. /\ ~Known(wallet[0]) /\ \A j \in 1..Versions : Clean(wallet[j])
          /\ status = "complete" =>
               \/ \E j \in 1..Versions : Known(wallet[j])
               \/ \E t \in Tasks : Reports(task[t])
      BY <1>0, <1>5, <3>1 DEF NoticeInv
    <3>3. ~Known(wallet[0])' /\ \A j \in 1..Versions : Clean(wallet[j])'
      BY <1>0, <1>1, <2>5, <3>2 DEF Known
    <3>4. /\ \A j \in 1..Versions : Known(wallet[j]) => Known(wallet[j])'
          /\ \A t \in Tasks : Reports(task[t]) => Reports(task[t])'
      BY <1>1 DEF Known, Reports
    <3> QED
      BY <2>3, <3>2, <3>3, <3>4
  <2> QED
    BY <1>3, <2>6, <2>7
<1>6. CASE ~lost /\ ~lost'
  BY <1>3, <1>6 DEF PassedInv, NoticeInv
<1> QED
  BY <1>4, <1>5, <1>6

(* A step after which the task has no version wallet behind it.            *)
LEMMA PassedAside ==
  ASSUME OneTask, NEW t \in Tasks, \A j \in 1..Versions : ~Passed(task'[t], j)
  PROVE  UnseenInv' /\ PassedInv'
<1>1. \A u \in Tasks : u = t
  BY DEF OneTask
<1>2. \A u \in Tasks : \A j \in 1..Versions : ~Passed(task[u], j)'
  BY <1>1 DEF Passed
<1> QED
  BY <1>2 DEF UnseenInv, PassedInv

(* A step that leaves what the wallets know alone: a report that ends has  *)
(* reverted the version, found it in a version wallet, or was cut short.   *)
LEMMA NoticeAside ==
  ASSUME OneTask, TypeOK, NoticeInv, NEW t \in Tasks,
         UNCHANGED <<chain, lost>>, dropped \subseteq dropped',
         \A i \in 0..Versions : SameKnown(wallet[i], wallet'[i]),
         status' = "complete" => status = "complete",
         Reports(task[t]) /\ ~Known(wallet[0]) /\ status' = "complete" =>
           \/ Reports(task'[t])
           \/ \E j \in 1..Versions : Known(wallet[j])
           \/ "sync" \in dropped'
  PROVE  NoticeInv'
<1>0. 0 \in 0..Versions /\ \A j \in 1..Versions : j \in 0..Versions
  BY SyncAssumption
<1>1. \A u \in Tasks : u = t
  BY DEF OneTask
<1>2. ASSUME NEW i \in 0..Versions
      PROVE  /\ Known(wallet[i])' <=> Known(wallet[i])
             /\ OnChain(wallet[i].cs.tip)' <=> OnChain(wallet[i].cs.tip)
             /\ Clean(wallet[i])' <=> Clean(wallet[i])
  <2>1. SameKnown(wallet[i], wallet'[i])
    BY <1>2
  <2>2. Known(wallet[i])' <=> Known(wallet[i])
    BY <2>1 DEF SameKnown, Known
  <2>3. OnChain(wallet[i].cs.tip)' <=> OnChain(wallet[i].cs.tip)
    BY <2>1 DEF SameKnown, OnChain
  <2> QED
    BY <2>2, <2>3 DEF Clean
<1> SUFFICES ASSUME lost, "sync" \notin dropped', OnChain(wallet[0].cs.tip)'
             PROVE  /\ ~Known(wallet[0])' /\ \A j \in 1..Versions : Clean(wallet[j])'
                    /\ status' = "complete" =>
                         \/ \E j \in 1..Versions : Known(wallet[j])'
                         \/ \E u \in Tasks : Reports(task[u])'
  BY DEF NoticeInv
<1>3. "sync" \notin dropped /\ OnChain(wallet[0].cs.tip)
  BY <1>0, <1>2
<1>4. /\ ~Known(wallet[0]) /\ \A j \in 1..Versions : Clean(wallet[j])
      /\ status = "complete" =>
           \/ \E j \in 1..Versions : Known(wallet[j])
           \/ \E u \in Tasks : Reports(task[u])
  BY <1>3 DEF NoticeInv
<1>5. ~Known(wallet[0])' /\ \A j \in 1..Versions : Clean(wallet[j])'
  BY <1>0, <1>2, <1>4
<1>6. Reports(task'[t]) => Reports(task[t])'
  BY DEF Reports
<1>7. status' = "complete" => (\E j \in 1..Versions : Known(wallet[j])) \/ Reports(task'[t])
  BY <1>1, <1>4
<1> QED
  BY <1>0, <1>2, <1>5, <1>6, <1>7

(* A version wallet is synced: it forgets the sweep, and if it knew it, it *)
(* sees the reorg.                                                         *)
LEMMA TraceVersion ==
  ASSUME OneTask, EvictInv, NEW t \in Tasks, SyncVersion(t)
  PROVE  UnseenInv' /\ PassedInv' /\ NoticeInv'
<1>a. PICK at : at = task[t].at
  OBVIOUS
<1>0. /\ TypeOK /\ IdsKnown /\ PlaceInv /\ AllFaithful /\ FreshInv /\ UnseenInv /\ PassedInv /\ NoticeInv
      /\ 0 \in 0..Versions /\ \A j \in 1..Versions : j \in 0..Versions /\ j \in Nat /\ j # 0
      /\ \A u \in Tasks : u = t
  BY SyncAssumption DEF EvictInv, StoredInv, OneTask
<1>1. at \in 1..Versions /\ at \in 0..Versions /\ at \in Nat /\ at # 0
  BY <1>0, <1>a, StateFields, TaskFields
<1>2. /\ Kept /\ wallet'[0] = wallet[0] /\ wallet'[at] = Synced(wallet[at])
      /\ \A i \in 0..Versions : i # at => wallet'[i] = wallet[i]
      /\ task[t].pc = "versions" /\ task'[t].pc \in {"versions", "inner"}
      /\ task'[t].pc = "versions" => task'[t].at = at + 1
      /\ task'[t].pc = "inner" => at = Versions
      /\ task'[t].reveal = task[t].reveal
      /\ task'[t].reorg = (task[t].reorg \/ ~OnChain(wallet[at].cs.tip))
  BY <1>0, <1>a, SyncVersionStep
<1>3. ~task[t].reveal
  BY <1>2 DEF EvictInv, StoredInv, RevealInv
<1>4. wallet[at] \in Wallet /\ Faithful(wallet[at].cs)
  BY <1>0, <1>1, StateFields DEF AllFaithful
<1>5. UNCHANGED <<chain, pool, reorgs, lost, dropped, status>>
  BY <1>2 DEF Kept
<1>6. ASSUME NEW j \in 1..Versions, Passed(task'[t], j) PROVE j = at \/ (j # at /\ Passed(task[t], j))
  <2>1. j \in Nat /\ Versions \in Nat /\ j <= Versions
    BY SyncAssumption
  <2>2. CASE task'[t].pc = "versions"
    <3>1. j < at + 1
      BY <1>2, <1>6, <2>2 DEF Passed
    <3>2. j = at \/ j < at
      BY <1>1, <2>1, <3>1
    <3> QED
      BY <1>a, <1>2, <3>2 DEF Passed
  <2>3. CASE task'[t].pc = "inner"
    <3>1. j = at \/ j < at
      BY <1>1, <1>2, <2>1, <2>3
    <3> QED
      BY <1>a, <1>2, <3>1 DEF Passed
  <2> QED
    BY <1>2, <2>2, <2>3
<1>7. UnseenInv'
  <2> SUFFICES ASSUME reorgs = 0, Sweep \in wallet[0].cs.conf, NEW j \in 1..Versions, Passed(task'[t], j)
               PROVE  Sweep \notin wallet'[j].seen
    BY <1>0, <1>2, <1>5 DEF UnseenInv, Passed
  <2>1. InChain
    <3>1. /\ OnChain(wallet[0].cs.tip) /\ Faithful(wallet[0].cs)
      BY <1>0 DEF FreshInv, AllFaithful
    <3>2. PICK i \in 1..wallet[0].cs.tip.h : Sweep \in chain[i].txs
      BY <3>1 DEF Faithful
    <3>3. wallet[0].cs.tip.h \in Nat /\ wallet[0].cs.tip.h <= Len(chain) /\ Len(chain) \in Nat
      BY <1>0, <3>1, StateFields, ChangeSetFields, ChainFields DEF Faithful
    <3>4. i \in 1..Len(chain)
      BY <3>3
    <3> QED
      BY <3>2, <3>4 DEF InChain
  <2>2. Sweep \notin pool
    BY <1>0, <2>1 DEF PlaceInv
  <2>3. CASE j = at
    <3>1. Synced(wallet[at]).seen = pool \cap Visible(wallet[at])
      BY <1>0, <1>4, SyncedShape
    <3> QED
      BY <1>2, <2>2, <2>3, <3>1
  <2>4. CASE j # at /\ Passed(task[t], j)
    BY <1>0, <1>2, <2>4 DEF UnseenInv
  <2> QED
    BY <1>6, <2>3, <2>4
<1>8. lost => ~Known(wallet[at])'
  <2>1. lost => ~Known(Synced(wallet[at]))
    BY <1>0, <1>4, SyncedForgets DEF PlaceInv
  <2> QED
    BY <1>2, <2>1 DEF Known
<1>9. ASSUME NEW i \in 0..Versions, i # at
      PROVE  /\ Known(wallet[i])' <=> Known(wallet[i])
             /\ OnChain(wallet[i].cs.tip)' <=> OnChain(wallet[i].cs.tip)
             /\ Clean(wallet[i])' <=> Clean(wallet[i])
  BY <1>2, <1>5, <1>9 DEF Known, Clean, OnChain
<1>10. lost => Clean(wallet[at])'
  BY <1>8 DEF Clean
<1>11. PassedInv'
  <2> SUFFICES ASSUME lost, NEW j \in 1..Versions, Passed(task'[t], j)
               PROVE  Clean(wallet[j])'
    BY <1>0, <1>5 DEF PassedInv, Passed
  <2>1. CASE j = at
    BY <1>10, <2>1
  <2>2. CASE j # at /\ Passed(task[t], j)
    BY <1>0, <1>9, <2>2 DEF PassedInv
  <2> QED
    BY <1>6, <2>1, <2>2
<1>12. NoticeInv'
  <2> SUFFICES ASSUME lost, "sync" \notin dropped, OnChain(wallet[0].cs.tip)'
               PROVE  /\ ~Known(wallet[0])' /\ \A j \in 1..Versions : Clean(wallet[j])'
                      /\ status = "complete" =>
                           \/ \E j \in 1..Versions : Known(wallet[j])'
                           \/ Reports(task[t])'
    BY <1>5 DEF NoticeInv
  <2>1. /\ ~Known(wallet[0]) /\ \A j \in 1..Versions : Clean(wallet[j])
        /\ status = "complete" =>
             \/ \E j \in 1..Versions : Known(wallet[j])
             \/ Reports(task[t])
    BY <1>0, <1>1, <1>9 DEF NoticeInv
  <2>2. ~Known(wallet[0])' /\ \A j \in 1..Versions : Clean(wallet[j])'
    <3>1. ASSUME NEW j \in 1..Versions PROVE Clean(wallet[j])'
      <4>1. CASE j = at
        BY <1>10, <4>1
      <4>2. CASE j # at
        BY <1>0, <1>9, <2>1, <4>2
      <4> QED
        BY <4>1, <4>2
    <3>2. ~Known(wallet[0])'
      BY <1>0, <1>1, <1>9, <2>1
    <3> QED
      BY <3>1, <3>2
  <2>3. ASSUME task[t].reorg \/ ~OnChain(wallet[at].cs.tip) PROVE Reports(task[t])'
    BY <1>2, <1>3, <2>3 DEF Reports
  <2>4. CASE Reports(task[t])
    BY <2>2, <2>3, <2>4 DEF Reports
  <2>5. CASE \E j \in 1..Versions : Known(wallet[j])
    <3>1. PICK j \in 1..Versions : Known(wallet[j])
      BY <2>5
    <3>2. CASE j = at
      <4>1. ~OnChain(wallet[at].cs.tip)
        BY <2>1, <3>1, <3>2 DEF Clean
      <4> QED
        BY <2>2, <2>3, <4>1
    <3>3. CASE j # at
      BY <1>0, <1>9, <2>2, <3>1, <3>3
    <3> QED
      BY <3>2, <3>3
  <2> QED
    BY <2>1, <2>2, <2>4, <2>5
<1> QED
  BY <1>7, <1>11, <1>12

(* inner is synced: it forgets the sweep, and when its checkpoint was off  *)
(* the chain the task reports.                                             *)
LEMMA TraceInner ==
  ASSUME OneTask, EvictInv, NEW t \in Tasks, SyncInner(t)
  PROVE  UnseenInv' /\ PassedInv' /\ NoticeInv'
<1>0. /\ TypeOK /\ IdsKnown /\ PlaceInv /\ AllFaithful /\ PassedInv /\ NoticeInv
      /\ 0 \in 0..Versions /\ \A u \in Tasks : u = t
  BY SyncAssumption DEF EvictInv, StoredInv, OneTask
<1>1. /\ Kept /\ wallet'[0] = Synced(wallet[0]) /\ \A i \in 1..Versions : wallet'[i] = wallet[i]
      /\ task[t].pc = "inner" /\ task'[t].pc \in {"list", "merge"}
      /\ task'[t].reveal = task[t].reveal
      /\ task'[t].reorg = (task[t].reorg \/ ~OnChain(wallet[0].cs.tip))
  BY <1>0, SyncInnerStep
<1>2. ~task[t].reveal
  BY <1>1 DEF EvictInv, StoredInv, RevealInv
<1>3. UNCHANGED <<chain, pool, reorgs, lost, dropped, status>>
  BY <1>1 DEF Kept
<1>4. UnseenInv' /\ PassedInv'
  <2>1. \A j \in 1..Versions : ~Passed(task'[t], j)
    BY <1>1 DEF Passed
  <2> QED
    BY <2>1, PassedAside
<1>5. NoticeInv'
  <2> SUFFICES ASSUME lost, "sync" \notin dropped
               PROVE  /\ ~Known(wallet[0])' /\ \A j \in 1..Versions : Clean(wallet[j])'
                      /\ status = "complete" =>
                           \/ \E j \in 1..Versions : Known(wallet[j])'
                           \/ Reports(task[t])'
    BY <1>3 DEF NoticeInv
  <2>1. ~Known(wallet[0])'
    <3>1. wallet[0] \in Wallet /\ Faithful(wallet[0].cs)
      BY <1>0, StateFields DEF AllFaithful
    <3>2. ~Known(Synced(wallet[0]))
      BY <1>0, <3>1, SyncedForgets DEF PlaceInv
    <3> QED
      BY <1>1, <3>2 DEF Known
  <2>2. \A j \in 1..Versions : Clean(wallet[j])
    BY <1>0, <1>1 DEF PassedInv, Passed
  <2>3. \A j \in 1..Versions : Clean(wallet[j])' /\ (Known(wallet[j]) => Known(wallet[j])')
    BY <1>1, <1>3, <2>2 DEF Clean, Known, OnChain
  <2>4. task[t].reorg \/ ~OnChain(wallet[0].cs.tip) => Reports(task[t])'
    BY <1>1, <1>2 DEF Reports, Synchronised
  <2>5. CASE OnChain(wallet[0].cs.tip)
    <3>1. status = "complete" =>
            \/ \E j \in 1..Versions : Known(wallet[j])
            \/ Reports(task[t])
      BY <1>0, <2>5 DEF NoticeInv
    <3>2. Reports(task[t]) => Reports(task[t])'
      BY <2>4 DEF Reports
    <3> QED
      BY <2>1, <2>3, <3>1, <3>2
  <2>6. CASE ~OnChain(wallet[0].cs.tip)
    BY <2>1, <2>3, <2>4, <2>6
  <2> QED
    BY <2>5, <2>6
<1> QED
  BY <1>4, <1>5

(* Every step keeps the trace of the sweep.                                *)
LEMMA TraceStep ==
  ASSUME OneTask, MaxReorgs <= 1, MaxRestarts <= 1, EvictInv, [Next]_vars
  PROVE  UnseenInv' /\ PassedInv' /\ NoticeInv'
<1>0. /\ TypeOK /\ PlaceInv /\ UnseenInv /\ PassedInv /\ NoticeInv
      /\ \A i \in 0..Versions : i = 0 \/ i \in 1..Versions
  BY SyncAssumption DEF EvictInv, StoredInv
<1>1. CASE UNCHANGED vars
  <2>1. UNCHANGED <<chain, wallet, task, reorgs, lost, dropped, status>>
    BY <1>1 DEF vars, netVars, rowVars, memVars
  <2>2. UnseenInv'
    BY <1>0, <2>1 DEF UnseenInv, Passed
  <2>3. PassedInv'
    BY <1>0, <2>1 DEF PassedInv, Passed, Clean, Known, OnChain
  <2>4. NoticeInv'
    BY <1>0, <2>1 DEF NoticeInv, Clean, Known, OnChain, Reports
  <2> QED
    BY <2>2, <2>3, <2>4
<1>2. ASSUME wallet' = wallet PROVE \A i \in 0..Versions : SameKnown(wallet[i], wallet'[i])
  BY <1>2 DEF SameKnown
<1>3. ASSUME NEW t \in Tasks, NEW page \in BOOLEAN, Start(t, page)
      PROVE  UnseenInv' /\ PassedInv' /\ NoticeInv'
  <2>1. /\ Kept /\ wallet' = wallet /\ task[t].pc = "idle" /\ task'[t].at = 1
        /\ task'[t].pc \in {"versions", "reveal_versions"}
    BY <1>0, <1>3, StartStep
  <2>2. \A j \in 1..Versions : ~(j < 1)
    BY SyncAssumption
  <2>3. \A j \in 1..Versions : ~Passed(task'[t], j)
    BY <2>1, <2>2 DEF Passed
  <2>4. ~Reports(task[t])
    BY <2>1 DEF Reports, Synchronised
  <2>5. NoticeInv'
    BY <1>0, <1>2, <2>1, <2>4, NoticeAside DEF Kept
  <2> QED
    BY <2>3, <2>5, PassedAside
<1>4. ASSUME NEW t \in Tasks, reveal_version_wallets_to_inner(t)
      PROVE  UnseenInv' /\ PassedInv' /\ NoticeInv'
  <2>1. /\ Kept /\ \A i \in 0..Versions : SameKnown(wallet[i], wallet'[i])
        /\ task[t].pc = "reveal_versions" /\ task'[t].pc = "versions" /\ task'[t].at = task[t].at
    BY <1>0, <1>4, RevealVersionsStep
  <2>2. /\ \A u \in Tasks : u = t /\ \A j \in 1..Versions : Passed(task[u], j)' => Passed(task[t], j)
    BY <2>1 DEF OneTask, Passed
  <2>3. 0 \in 0..Versions /\ \A j \in 1..Versions : j \in 0..Versions
    BY SyncAssumption
  <2>4. ASSUME NEW i \in 0..Versions
        PROVE  /\ wallet'[i].cs.conf = wallet[i].cs.conf /\ wallet'[i].seen = wallet[i].seen
               /\ wallet'[i].cs.tip = wallet[i].cs.tip
    BY <2>1, <2>4 DEF SameKnown
  <2>5. UnseenInv'
    BY <1>0, <2>1, <2>2, <2>3, <2>4 DEF UnseenInv, Kept
  <2>6. \A i \in 0..Versions : Clean(wallet[i]) => Clean(wallet[i])'
    BY <2>1, <2>4 DEF Clean, Known, OnChain, Kept
  <2>7. PassedInv'
    BY <1>0, <2>1, <2>2, <2>3, <2>6 DEF PassedInv, Kept
  <2>8. ~Reports(task[t])
    BY <2>1 DEF Reports, Synchronised
  <2>9. NoticeInv'
    BY <1>0, <2>1, <2>8, NoticeAside DEF Kept
  <2> QED
    BY <2>5, <2>7, <2>9
<1>5. ASSUME NEW t \in Tasks, MergeDelta(t) PROVE UnseenInv' /\ PassedInv' /\ NoticeInv'
  <2>1. /\ Kept /\ wallet' = wallet /\ task'[t].pc = "write"
        /\ task'[t].reveal = task[t].reveal /\ task'[t].reorg = task[t].reorg
    BY <1>0, <1>5, MergeStep
  <2>2. Reports(task[t]) => Reports(task'[t])
    BY <2>1 DEF Reports, Synchronised
  <2>3. NoticeInv'
    BY <1>0, <1>2, <2>1, <2>2, NoticeAside DEF Kept
  <2> QED
    BY <2>1, <2>3, PassedAside DEF Passed
<1>6. ASSUME NEW t \in Tasks, WriteChangeset(t) PROVE UnseenInv' /\ PassedInv' /\ NoticeInv'
  <2>1. /\ Kept /\ wallet' = wallet /\ task'[t].reveal = FALSE
        /\ \/ task[t].reveal /\ task'[t].pc = "idle"
           \/ task'[t].pc = "list" /\ task'[t].reorg = task[t].reorg
    BY <1>0, <1>6, WriteStep
  <2>2. Reports(task[t]) => Reports(task'[t])
    BY <2>1 DEF Reports, Synchronised
  <2>3. NoticeInv'
    BY <1>0, <1>2, <2>1, <2>2, NoticeAside DEF Kept
  <2> QED
    BY <2>1, <2>3, PassedAside DEF Passed
<1>7. ASSUME NEW t \in Tasks, ListCompleted(t) PROVE UnseenInv' /\ PassedInv' /\ NoticeInv'
  <2>1. /\ Kept /\ wallet' = wallet
        /\ \/ /\ task'[t].pc \in {"idle", "reveal"}
              /\ ~(task[t].reorg /\ status = "complete" /\ recorded # {})
           \/ /\ task'[t].pc = "check" /\ status = "complete" /\ task'[t].wanted = recorded
              /\ task'[t].reveal = task[t].reveal /\ task'[t].reorg = task[t].reorg
    BY <1>0, <1>7, ListStep
  <2>2. status = "complete" => recorded = {Sweep}
    BY <1>0 DEF PlaceInv
  <2>3. Reports(task[t]) /\ status = "complete" => Reports(task'[t])
    BY <2>1, <2>2 DEF Reports, Synchronised
  <2>4. NoticeInv'
    BY <1>0, <1>2, <2>1, <2>3, NoticeAside DEF Kept
  <2> QED
    BY <2>1, <2>4, PassedAside DEF Passed
<1>8. ASSUME NEW t \in Tasks, CheckPresence(t) PROVE UnseenInv' /\ PassedInv' /\ NoticeInv'
  <2>1. /\ Kept /\ wallet' = wallet /\ task[t].pc = "check" /\ task'[t].pc = "revert"
        /\ task'[t].reveal = task[t].reveal /\ task'[t].reorg = task[t].reorg
        /\ task'[t].absent \subseteq task[t].wanted
        /\ \A x \in task[t].wanted :
             x \in task'[t].absent \/ \E i \in 0..Versions : x \in wallet[i].cs.conf \cup wallet[i].seen
    BY <1>0, <1>8, CheckStep
  <2>2. ASSUME Reports(task[t]), ~Known(wallet[0])
        PROVE  Reports(task'[t]) \/ \E j \in 1..Versions : Known(wallet[j])
    <3>1. task[t].wanted = {Sweep}
      BY <2>1, <2>2 DEF Reports
    <3>2. CASE Sweep \in task'[t].absent
      <4>1. task'[t].absent = {Sweep}
        BY <2>1, <3>1, <3>2
      <4> QED
        BY <2>1, <2>2, <4>1 DEF Reports, Synchronised
    <3>3. CASE \E i \in 0..Versions : Sweep \in wallet[i].cs.conf \cup wallet[i].seen
      BY <1>0, <2>2, <3>3 DEF Known
    <3> QED
      BY <2>1, <3>1, <3>2, <3>3
  <2>3. NoticeInv'
    BY <1>0, <1>2, <2>1, <2>2, NoticeAside DEF Kept
  <2> QED
    BY <2>1, <2>3, PassedAside DEF Passed
<1>9. ASSUME NEW t \in Tasks, Revert(t) PROVE UnseenInv' /\ PassedInv' /\ NoticeInv'
  <2>1. /\ UNCHANGED <<chain, lost, dropped, wallet>> /\ task[t].pc = "revert"
        /\ task'[t].pc \in {"idle", "reveal"}
        /\ \/ /\ status' = status
              /\ ~\E x \in task[t].absent : status = "complete" /\ recorded = {x}
           \/ status' = "pending"
    BY <1>0, <1>9, RevertStep
  <2>2. status = "complete" => recorded = {Sweep}
    BY <1>0 DEF PlaceInv
  <2>3. Reports(task[t]) => status' # "complete"
    BY <2>1, <2>2 DEF Reports
  <2>4. NoticeInv'
    BY <1>0, <1>2, <2>1, <2>3, NoticeAside
  <2> QED
    BY <2>1, <2>4, PassedAside DEF Passed
<1>10. ASSUME NEW t \in Tasks, Reveal(t) PROVE UnseenInv' /\ PassedInv' /\ NoticeInv'
  <2>1. /\ Kept /\ SameKnown(wallet[0], wallet'[0]) /\ \A i \in 1..Versions : wallet'[i] = wallet[i]
        /\ task[t].pc = "reveal" /\ task'[t].pc \in {"idle", "merge"}
    BY <1>0, <1>10, RevealStep DEF SameKnown
  <2>2. \A i \in 0..Versions : SameKnown(wallet[i], wallet'[i])
    BY <1>0, <2>1 DEF SameKnown
  <2>3. ~Reports(task[t])
    BY <2>1 DEF Reports, Synchronised
  <2>4. NoticeInv'
    BY <1>0, <2>1, <2>2, <2>3, NoticeAside DEF Kept
  <2> QED
    BY <2>1, <2>4, PassedAside DEF Passed
<1>11. ASSUME NEW t \in Tasks, Abort(t) PROVE UnseenInv' /\ PassedInv' /\ NoticeInv'
  <2>1. /\ UNCHANGED <<chain, lost, wallet, status>> /\ task'[t].pc = "idle"
        /\ dropped \subseteq dropped' /\ (~task[t].reveal => "sync" \in dropped')
    BY <1>0, <1>11, AbortStep, TaskFields
  <2>2. Reports(task[t]) => "sync" \in dropped'
    BY <2>1 DEF Reports
  <2>3. NoticeInv'
    BY <1>0, <1>2, <2>1, <2>2, NoticeAside
  <2> QED
    BY <2>1, <2>3, PassedAside DEF Passed
<1>12. ASSUME Restart PROVE UnseenInv' /\ PassedInv' /\ NoticeInv'
  <2>1. /\ \A t \in Tasks : task'[t] = Idle
        /\ restarts < MaxRestarts /\ (lost' => lost /\ (tool # "sweep" => rebound))
    BY <1>0, <1>12, RestartStep
  <2>2. restarts \in Nat /\ MaxRestarts \in Nat
    BY <1>0, SyncAssumption DEF TypeOK
  <2>3. ~(restarts >= 1)
    BY <2>1, <2>2
  <2>4. ~lost'
    BY <1>0, <2>1, <2>3 DEF PlaceInv
  <2>5. \A t \in Tasks : \A j \in 1..Versions : ~Passed(task[t], j)'
    BY <2>1, TaskFields DEF Passed
  <2>6. UnseenInv'
    BY <2>5 DEF UnseenInv
  <2> QED
    BY <2>4, <2>6 DEF PassedInv, NoticeInv
<1> QED
  BY <1>1, <1>3, <1>4, <1>5, <1>6, <1>7, <1>8, <1>9, <1>10, <1>11, <1>12, Steps, TraceNet, TraceVersion,
     TraceInner

(* At first no one knows of a sweep.                                       *)
LEMMA EvictInit == Init => EvictInv
<1> SUFFICES ASSUME Init PROVE EvictInv
  OBVIOUS
<1>1. StoredInv /\ TypeOK
  BY StoredInit DEF StoredInv
<1>2. /\ chain = <<>> /\ mined = 0 /\ pool = {} /\ db = Empty /\ status = "pending" /\ rebound = FALSE
      /\ lost = FALSE /\ \A i \in 0..Versions : wallet[i].cs = Empty
  BY DEF Init, AllLoaded, Loaded
<1>3. Len(chain) = 0 /\ \A i \in 1..0 : FALSE
  BY <1>2
<1>4. PlaceInv
  BY <1>2, <1>3 DEF PlaceInv, InChain
<1>5. Faithful(Empty) /\ OnChain(Empty.tip)
  BY <1>2, <1>3, ChangeSetFields DEF Faithful, OnChain
<1>6. AllFaithful /\ FreshInv
  BY <1>2, <1>5 DEF AllFaithful, FreshInv
<1>7. UnseenInv
  <2>1. 0 \in 0..Versions
    BY <1>1, StateFields
  <2> QED
    BY <1>2, <2>1, ChangeSetFields DEF UnseenInv
<1>8. PassedInv /\ NoticeInv
  BY <1>2 DEF PassedInv, NoticeInv
<1> QED
  BY <1>1, <1>4, <1>6, <1>7, <1>8 DEF EvictInv

(* What the trace says when everything has settled.                        *)
LEMMA EvictMeans == EvictInv => EvictedSweepReverted
<1> SUFFICES ASSUME EvictInv, lost, "sync" \notin dropped, Quiet,
                    \A i \in 0..Versions : OnChain(wallet[i].cs.tip)
             PROVE  status # "complete"
  BY DEF EvictedSweepReverted
<1>1. 0 \in 0..Versions /\ \A j \in 1..Versions : j \in 0..Versions
  BY SyncAssumption
<1>2. /\ \A j \in 1..Versions : Clean(wallet[j])
      /\ status = "complete" =>
           \/ \E j \in 1..Versions : Known(wallet[j])
           \/ \E t \in Tasks : Reports(task[t])
  BY <1>1 DEF EvictInv, NoticeInv
<1>3. \A j \in 1..Versions : ~Known(wallet[j])
  BY <1>1, <1>2 DEF Clean
<1>4. \A t \in Tasks : ~Reports(task[t])
  BY DEF Quiet, Reports, Synchronised
<1> QED
  BY <1>2, <1>3, <1>4

(* A migration whose confirmed sweep is reorged out for good does not stay *)
(* complete: in the settled app it is pending again, for any number of     *)
(* versions, deposits and blocks and any faults.  Whoever follows the      *)
(* reorganisation first sees a checkpoint off the chain, so its task       *)
(* reports; and it finds the sweep only in a version wallet that will see  *)
(* the same when it is synced itself.  For one task, one reorganisation and*)
(* one restart; TLC shows that two of either can hide the loss.            *)
THEOREM SyncEvictedSweepReverted ==
  OneTask /\ ~ToolOverlaps /\ MaxReorgs <= 1 /\ MaxRestarts <= 1 /\ Spec => []EvictedSweepReverted
<1>1. OneTask /\ ~ToolOverlaps /\ MaxReorgs <= 1 /\ MaxRestarts <= 1 /\ EvictInv /\ [Next]_vars => EvictInv'
  BY StoredStep, PlaceStep, FaithfulStep, FreshStep, TraceStep DEF EvictInv
<1>2. SUFFICES ASSUME OneTask, ~ToolOverlaps, MaxReorgs <= 1, MaxRestarts <= 1
               PROVE  Spec => []EvictedSweepReverted
  OBVIOUS
<1>3. EvictInv /\ [Next]_vars => EvictInv'
  BY <1>1, <1>2
<1> QED
  BY <1>3, EvictInit, EvictMeans, PTL DEF Spec

-----------------------------------------------------------------------------
(* Tasks that overlap, while the process lives.                            *)

(* inner is synced under its lock and never loaded from its row, so it is  *)
(* faithful however many tasks sync it, and it keeps what it has revealed. *)
LiveInv ==
  /\ TypeOK /\ IdsKnown /\ Faithful(wallet[0].cs)
  /\ shown => wallet[0].cs.revealed = 2
  /\ \A t \in Tasks :
       task[t].reveal => task[t].pc \in {"merge", "write"} /\ wallet[0].cs.revealed = 2

(* What a step of a task does to inner.                                    *)
InnerMoves ==
  /\ UNCHANGED <<backend, chain, mined>>
  /\ \/ wallet'[0].cs = wallet[0].cs
     \/ wallet'[0] = Synced(wallet[0])
     \/ /\ wallet'[0].cs.tip = wallet[0].cs.tip /\ wallet'[0].cs.conf = wallet[0].cs.conf
        /\ wallet'[0].cs.revealed = 2
  /\ shown' => shown \/ wallet[0].cs.revealed = 2
  /\ \A t \in Tasks : task'[t].reveal =>
       \/ task[t].reveal /\ (task'[t].pc = task[t].pc \/ task'[t].pc = "write")
       \/ task'[t].pc = "merge" /\ wallet'[0].cs.revealed = 2

(* Every step but those of the network moves inner like so.                *)
LEMMA TaskInnerMoves ==
  ASSUME MaxRestarts = 0, LiveInv, [Next]_vars, ~NetStep
  PROVE  TypeOK' /\ InnerMoves
<1>0. TypeOK /\ \A t \in Tasks : task[t].reveal => task[t].pc \in {"merge", "write"}
  BY DEF LiveInv
<1> DEFINE moved == TypeOK' /\ InnerMoves
<1>1. CASE UNCHANGED vars
  BY <1>0, <1>1, TypeStep DEF vars, netVars, rowVars, memVars, InnerMoves
<1>2. ASSUME NEW t \in Tasks, NEW page \in BOOLEAN, Start(t, page) PROVE moved
  BY <1>0, <1>2, StartStep DEF InnerMoves, Kept, Others
<1>3. ASSUME NEW t \in Tasks, reveal_version_wallets_to_inner(t) PROVE moved
  BY <1>0, <1>3, RevealVersionsStep DEF InnerMoves, Kept, Others
<1>4. ASSUME NEW t \in Tasks, SyncVersion(t) PROVE moved
  BY <1>0, <1>4, SyncVersionStep DEF InnerMoves, Kept, Others
<1>5. ASSUME NEW t \in Tasks, SyncInner(t) PROVE moved
  BY <1>0, <1>5, SyncInnerStep DEF InnerMoves, Kept, Others
<1>6. ASSUME NEW t \in Tasks, MergeDelta(t) PROVE moved
  BY <1>0, <1>6, MergeStep DEF InnerMoves, Kept, Others
<1>7. ASSUME NEW t \in Tasks, WriteChangeset(t) PROVE moved
  <2>1. task[t].reveal => wallet[0].cs.revealed = 2
    BY DEF LiveInv
  <2> QED
    BY <1>0, <1>7, <2>1, WriteStep DEF InnerMoves, Kept, Others
<1>8. ASSUME NEW t \in Tasks, ListCompleted(t) PROVE moved
  BY <1>0, <1>8, ListStep DEF InnerMoves, Kept, Others
<1>9. ASSUME NEW t \in Tasks, CheckPresence(t) PROVE moved
  BY <1>0, <1>9, CheckStep DEF InnerMoves, Kept, Others
<1>10. ASSUME NEW t \in Tasks, Revert(t) PROVE moved
  BY <1>0, <1>10, RevertStep DEF InnerMoves, Others
<1>11. ASSUME NEW t \in Tasks, Reveal(t) PROVE moved
  BY <1>0, <1>11, RevealStep DEF InnerMoves, Kept, Others
<1>12. ASSUME NEW t \in Tasks, Abort(t) PROVE moved
  BY <1>0, <1>12, AbortStep, TaskFields DEF InnerMoves, Others
<1>13. ASSUME Restart PROVE FALSE
  <2>1. restarts \in Nat /\ restarts < 0
    BY <1>0, <1>13, RestartStep DEF TypeOK
  <2> QED
    BY <2>1
<1> QED
  BY <1>1, <1>2, <1>3, <1>4, <1>5, <1>6, <1>7, <1>8, <1>9, <1>10, <1>11, <1>12, <1>13, Steps

(* So inner stays faithful and keeps what it has revealed.                 *)
LEMMA LiveStep == MaxRestarts = 0 /\ LiveInv /\ [Next]_vars => LiveInv'
<1> SUFFICES ASSUME MaxRestarts = 0, LiveInv, [Next]_vars PROVE LiveInv'
  OBVIOUS
<1>0. TypeOK /\ IdsKnown /\ Faithful(wallet[0].cs) /\ wallet[0] \in Wallet /\ wallet[0].cs \in ChangeSet
  BY StateFields DEF LiveInv
<1>1. CASE NetStep
  <2>1. TypeOK' /\ UNCHANGED <<wallet, task, shown>>
    BY <1>0, <1>1, NetTyped
  <2>2. PICK cs \in ChangeSet : cs = wallet[0].cs
    BY <1>0
  <2>3. IdsKnown' /\ Faithful(cs)'
    BY <1>0, <1>1, <2>2, FaithfulNet
  <2>4. Faithful(wallet[0].cs)'
    BY <2>1, <2>2, <2>3 DEF Faithful, OnChain
  <2> QED
    BY <2>1, <2>3, <2>4 DEF LiveInv
<1>2. CASE ~NetStep
  <2>1. TypeOK' /\ InnerMoves
    BY <1>2, TaskInnerMoves
  <2>2. PICK w \in Wallet : w = wallet[0]
    BY <1>0
  <2>3. /\ Faithful(Synced(w).cs) /\ Synced(w).cs.revealed = w.cs.revealed
    BY <1>0, <2>2, SyncedFaithful, SyncedShape
  <2>4. IdsKnown'
    BY <1>0, <2>1 DEF IdsKnown, InnerMoves
  <2>5. Faithful(wallet[0].cs)'
    <3>1. PICK cs : cs = wallet'[0].cs
      OBVIOUS
    <3>2. Faithful(cs)
      <4>1. CASE wallet'[0].cs = wallet[0].cs
        BY <1>0, <3>1, <4>1
      <4>2. CASE wallet'[0] = Synced(wallet[0])
        BY <2>2, <2>3, <3>1, <4>2
      <4>3. CASE wallet'[0].cs.tip = wallet[0].cs.tip /\ wallet'[0].cs.conf = wallet[0].cs.conf
        BY <1>0, <3>1, <4>3 DEF Faithful
      <4> QED
        BY <2>1, <4>1, <4>2, <4>3 DEF InnerMoves
    <3> QED
      BY <2>1, <3>1, <3>2 DEF InnerMoves, Faithful, OnChain
  <2>6. wallet[0].cs.revealed = 2 => wallet'[0].cs.revealed = 2
    BY <2>1, <2>2, <2>3 DEF InnerMoves
  <2>7. shown' => wallet'[0].cs.revealed = 2
    BY <2>1, <2>6 DEF InnerMoves, LiveInv
  <2>8. ASSUME NEW t \in Tasks, task'[t].reveal
        PROVE  task'[t].pc \in {"merge", "write"} /\ wallet'[0].cs.revealed = 2
    BY <2>1, <2>6, <2>8 DEF InnerMoves, LiveInv
  <2> QED
    BY <2>1, <2>4, <2>5, <2>7, <2>8 DEF LiveInv
<1> QED
  BY <1>1, <1>2

(* What SightInv asks of one task.                                         *)
SightOf(t) ==
  /\ task[t].pc \in Synchronised /\ ~task[t].reveal /\ tool # "sweep"
       /\ "reveal" \notin dropped /\ Standing =>
         Sweep \in wallet[0].cs.conf \cup wallet[0].seen
  /\ task[t].pc \in {"check", "revert"} => tool # "sweep" /\ task[t].wanted \subseteq {Sweep}
  /\ task[t].pc = "revert" /\ Sweep \in task[t].absent /\ "reveal" \notin dropped => ~Standing
  /\ task[t].absent \subseteq {Sweep}

(* A step of a task that does not make inner forget the sweep leaves the   *)
(* others what they have; only its own part is to be shown.                *)
LEMMA SightShared ==
  ASSUME SightInv, NEW t \in Tasks, Others(t), UNCHANGED <<chain, pool, tool, shown>>
                                               \/ (UNCHANGED <<chain, pool, tool>> /\ shown'),
         dropped \subseteq dropped', recorded' \subseteq recorded,
         status' = "complete" => status = "complete",
         tool # "sweep" /\ "reveal" \notin dropped /\ Standing
           /\ Sweep \in wallet[0].cs.conf \cup wallet[0].seen =>
             Sweep \in wallet'[0].cs.conf \cup wallet'[0].seen,
         SightOf(t)'
  PROVE  SightInv'
<1>1. Standing' <=> Standing
  BY DEF Standing, ChainTxs, TxsFrom
<1>2. ASSUME NEW u \in Tasks, u # t PROVE SightOf(u)'
  <2>1. SightOf(u) /\ task'[u] = task[u]
    BY <1>2 DEF SightInv, SightOf, Others
  <2> QED
    BY <1>1, <2>1 DEF SightOf
<1>3. \A u \in Tasks : SightOf(u)'
  BY <1>2
<1> QED
  BY <1>3 DEF SightInv, SightOf

(* The sync of inner by one task finds a standing sweep for all of them.   *)
LEMMA SharedInner ==
  ASSUME LiveInv, SightInv, NEW t \in Tasks, SyncInner(t)
  PROVE  SightInv'
<1>0. TypeOK /\ IdsKnown
  BY DEF LiveInv
<1>1. /\ Kept /\ Others(t) /\ UNCHANGED shown
      /\ wallet'[0] = Synced(wallet[0])
      /\ task'[t].pc \in {"list", "merge"} /\ task'[t].absent = task[t].absent
  BY <1>0, SyncInnerStep
<1>2. PICK w \in Wallet : w = wallet[0]
  BY <1>0, StateFields
<1>3. ASSUME tool # "sweep", Standing
      PROVE  Sweep \in wallet'[0].cs.conf \cup wallet'[0].seen
  <2>1. Faithful(w.cs) /\ w.cs.revealed = 2
    BY <1>2, <1>3 DEF SightInv, LiveInv
  <2> QED
    BY <1>0, <1>1, <1>2, <1>3, <2>1, SyncedSees
<1>4. Standing' <=> Standing
  BY <1>1 DEF Standing, ChainTxs, TxsFrom, Kept
<1>5. SightOf(t)'
  BY <1>1, <1>3, <1>4 DEF SightOf, Kept, SightInv
<1> QED
  BY <1>1, <1>3, <1>5, SightShared DEF Kept

(* What the other steps do, task by task.                                  *)
LEMMA SharedStep == MaxRestarts = 0 /\ ~ToolOverlaps /\ LiveInv /\ SightInv /\ [Next]_vars => SightInv'
<1> SUFFICES ASSUME MaxRestarts = 0, ~ToolOverlaps, LiveInv, SightInv, [Next]_vars PROVE SightInv'
  OBVIOUS
<1>0. /\ TypeOK
      /\ \A t \in Tasks : SightOf(t) /\ (task[t].reveal => task[t].pc \in {"merge", "write"})
  BY DEF LiveInv, SightInv, SightOf
<1>1. CASE UNCHANGED vars
  BY <1>1 DEF SightInv, Standing, ChainTxs, TxsFrom, vars, netVars, rowVars, memVars
<1>2. ASSUME UNCHANGED <<chain, pool>> PROVE Standing' <=> Standing
  BY <1>2 DEF Standing, ChainTxs, TxsFrom
<1>3. ASSUME NEW t \in Tasks, NEW page \in BOOLEAN, Start(t, page) PROVE SightInv'
  <2>1. /\ Kept /\ Others(t) /\ UNCHANGED <<wallet, shown>>
        /\ task'[t].pc \in {"versions", "reveal_versions"} /\ task'[t].absent = {}
    BY <1>0, <1>3, StartStep
  <2>2. SightOf(t)'
    BY <2>1 DEF SightOf, Synchronised
  <2> QED
    BY <2>1, <2>2, SightShared DEF Kept
<1>4. ASSUME NEW t \in Tasks, reveal_version_wallets_to_inner(t) \/ SyncVersion(t) PROVE SightInv'
  <2>1. /\ Kept /\ Others(t) /\ UNCHANGED shown
        /\ wallet'[0].cs = wallet[0].cs /\ wallet'[0].seen = wallet[0].seen
        /\ task'[t].pc \in {"versions", "inner"} /\ task'[t].absent = task[t].absent
    BY <1>0, <1>4, RevealVersionsStep, SyncVersionStep
  <2>2. SightOf(t)'
    BY <1>0, <2>1 DEF SightOf, Synchronised
  <2> QED
    BY <2>1, <2>2, SightShared DEF Kept
<1>5. ASSUME NEW t \in Tasks, MergeDelta(t) PROVE SightInv'
  <2>1. /\ Kept /\ Others(t) /\ UNCHANGED <<wallet, shown>>
        /\ task[t].pc = "merge" /\ task'[t].pc = "write"
        /\ task'[t].reveal = task[t].reveal /\ task'[t].absent = task[t].absent
    BY <1>0, <1>5, MergeStep
  <2>2. SightOf(t)'
    BY <1>0, <1>2, <2>1 DEF SightOf, Synchronised, Kept
  <2> QED
    BY <2>1, <2>2, SightShared DEF Kept
<1>6. ASSUME NEW t \in Tasks, WriteChangeset(t) PROVE SightInv'
  <2>1. /\ Kept /\ Others(t) /\ UNCHANGED wallet /\ task[t].pc = "write"
        /\ \/ task'[t].pc = "idle" /\ shown' = TRUE /\ task'[t].absent = {}
           \/ ~task[t].reveal /\ task'[t].pc = "list" /\ shown' = shown
              /\ task'[t].absent = task[t].absent
    BY <1>0, <1>6, WriteStep
  <2>2. SightOf(t)'
    BY <1>0, <1>2, <2>1 DEF SightOf, Synchronised, Kept
  <2> QED
    BY <2>1, <2>2, SightShared DEF Kept
<1>7. ASSUME NEW t \in Tasks, ListCompleted(t) PROVE SightInv'
  <2>1. /\ Kept /\ Others(t) /\ UNCHANGED <<wallet, shown>> /\ task[t].pc = "list"
        /\ \/ task'[t].pc \in {"idle", "reveal"} /\ task'[t].absent = {}
           \/ /\ task'[t].pc = "check" /\ status = "complete" /\ task'[t].wanted = recorded
              /\ task'[t].absent = task[t].absent
    BY <1>0, <1>7, ListStep
  <2>2. ~task[t].reveal
    BY <1>0, <2>1
  <2>3. SightOf(t)'
    <3>1. CASE task'[t].pc \in {"idle", "reveal"}
      BY <2>1, <3>1 DEF SightOf, Synchronised
    <3>2. CASE task'[t].pc = "check"
      BY <1>0, <1>2, <2>1, <2>2, <3>2 DEF SightOf, Synchronised, Kept, SightInv
    <3> QED
      BY <2>1, <3>1, <3>2
  <2> QED
    BY <2>1, <2>3, SightShared DEF Kept
<1>8. ASSUME NEW t \in Tasks, CheckPresence(t) PROVE SightInv'
  <2>1. /\ Kept /\ Others(t) /\ UNCHANGED <<wallet, shown>>
        /\ task[t].pc = "check" /\ task'[t].pc = "revert"
        /\ task'[t].wanted = task[t].wanted /\ task'[t].absent \subseteq task[t].wanted
        /\ \A x \in task'[t].absent : x \notin wallet[0].cs.conf \cup wallet[0].seen
    BY <1>0, <1>8, CheckStep
  <2>2. ~task[t].reveal
    BY <1>0, <2>1
  <2>3. SightOf(t)'
    BY <1>0, <1>2, <2>1, <2>2 DEF SightOf, Synchronised, Kept
  <2> QED
    BY <2>1, <2>3, SightShared DEF Kept
<1>9. ASSUME NEW t \in Tasks, Revert(t) PROVE SightInv'
  <2>1. /\ Others(t) /\ UNCHANGED <<chain, pool, tool, dropped, wallet, shown>>
        /\ task'[t].pc \in {"idle", "reveal"} /\ task'[t].absent = {}
        /\ recorded' \subseteq recorded /\ (status' = "complete" => status = "complete")
    BY <1>0, <1>9, RevertStep
  <2>2. SightOf(t)'
    BY <2>1 DEF SightOf, Synchronised
  <2> QED
    BY <2>1, <2>2, SightShared
<1>10. ASSUME NEW t \in Tasks, Reveal(t) PROVE SightInv'
  <2>1. /\ Kept /\ Others(t)
        /\ wallet'[0].cs.conf = wallet[0].cs.conf /\ wallet'[0].seen = wallet[0].seen
        /\ \/ task'[t].pc = "idle" /\ shown' = TRUE /\ task'[t].absent = {}
           \/ /\ task'[t].pc = "merge" /\ shown' = shown /\ task'[t].reveal
              /\ task'[t].absent = task[t].absent
    BY <1>0, <1>10, RevealStep
  <2>2. SightOf(t)'
    BY <1>0, <2>1 DEF SightOf, Synchronised
  <2> QED
    BY <2>1, <2>2, SightShared DEF Kept
<1>11. ASSUME NEW t \in Tasks, Abort(t) PROVE SightInv'
  <2>1. /\ Others(t) /\ UNCHANGED <<chain, pool, tool, status, recorded, wallet, shown>>
        /\ dropped \subseteq dropped' /\ task'[t].pc = "idle" /\ task'[t].absent = {}
    BY <1>0, <1>11, AbortStep, TaskFields
  <2>2. SightOf(t)'
    BY <2>1 DEF SightOf, Synchronised
  <2> QED
    BY <2>1, <2>2, SightShared
<1>12. ASSUME Restart PROVE FALSE
  <2>1. restarts \in Nat /\ restarts < 0
    BY <1>0, <1>12, RestartStep DEF TypeOK
  <2> QED
    BY <2>1
<1> QED
  BY <1>0, <1>1, <1>3, <1>4, <1>5, <1>6, <1>7, <1>8, <1>9, <1>10, <1>11, <1>12, Steps, SightNet,
     SharedInner

(* Any number of requests and sockets that overlap: while the process      *)
(* lives and the tool is run while the app rests, reconcile_migration      *)
(* never reverts a version whose sweep stands.  What overlapping tasks     *)
(* write to the row may be stale, but nothing is decided from the row      *)
(* before a restart.                                                       *)
THEOREM SyncNoFalseRevertShared == MaxRestarts = 0 /\ ~ToolOverlaps /\ Spec => NoFalseRevert
<1>1. CASE MaxRestarts = 0 /\ ~ToolOverlaps
  <2>1. LiveInv /\ [Next]_vars => LiveInv'
    BY <1>1, LiveStep
  <2>2. LiveInv /\ SightInv /\ [Next]_vars => SightInv'
    BY <1>1, SharedStep
  <2>3. Init => LiveInv
    <3>1. Init => StoredInv
      BY StoredInit
    <3>2. Init => ~shown /\ \A t \in Tasks : task[t] = Idle
      BY DEF Init
    <3> QED
      BY <3>1, <3>2, TaskFields DEF StoredInv, LiveInv
  <2>4. LiveInv /\ SightInv /\ [Next]_vars =>
          [status = "complete" /\ status' = "pending" /\ "reveal" \notin dropped =>
             Sweep \notin ChainTxs \cup pool]_vars
    BY RevertSound DEF LiveInv
  <2>5. Spec => [](LiveInv /\ SightInv)
    BY <2>1, <2>2, <2>3, SightInit, PTL DEF Spec
  <2> QED
    BY <2>4, <2>5, PTL DEF Spec, NoFalseRevert
<1> QED
  BY <1>1

=============================================================================
