------------------------ MODULE ElementsIngestProofs ------------------------
(***************************************************************************)
(* Proofs about ElementsIngest, for any coins, versions, requests, chains  *)
(* and numbers of reorganisations and faults: the type invariant, that the *)
(* sends implement PaymentLedger, and that the store matches the chain.    *)
(***************************************************************************)
EXTENDS ElementsIngest, SequenceTheorems, WellFoundedInduction, TLAPS

-----------------------------------------------------------------------------
(* The invariants.                                                         *)

(* Types, and what they need: a chain has no more blocks than were mined,  *)
(* and the block in hand is one above the cursor.                          *)
TypeInv ==
  /\ TypeOK /\ Len(chain) <= mined
  /\ InBlock => cursor.h < MaxBlocks

(* The requests: what is broadcast spends something, what awaits its row   *)
(* was accepted, and so was every spend on any branch.                     *)
SendsAccepted ==
  \A s \in Senders : /\ send[s].pc = "broadcast" => send[s].coins # {}
                     /\ send[s].pc = "insert" => send[s].coins \in shipped

Branches == stale \cup {chain}

SpendsShipped ==
  /\ pool.spends \subseteq shipped
  /\ \A B \in Branches : \A i \in 1..Len(B) : B[i].spends \subseteq shipped

LedgerInv == TypeInv /\ SendsAccepted /\ SpendsShipped

(* The network.  Branches that share a block share all below it.  On each  *)
(* of them, and in the mempool beside the best chain, a coin is paid once, *)
(* spent once, and not before it is paid.                                  *)
IdsKnown == \A B \in Branches : \A i \in 1..Len(B) : B[i].id <= mined

Agree(A, B) ==
  \A i \in 1..Len(A), j \in 1..Len(B) :
    A[i].id = B[j].id => i = j /\ \A k \in 1..i : A[k] = B[k]

Tree == \A A, B \in Branches : Agree(A, B)

PaysOnce(B) ==
  \A i \in 1..Len(B) : /\ B[i].pays \subseteq paid
                       /\ \A j \in 1..Len(B) : i # j => B[i].pays \cap B[j].pays = {}

SpendsOnce(B) ==
  \A i \in 1..Len(B) : \A x \in B[i].spends :
    \A j \in 1..Len(B) : \A y \in B[j].spends : i # j \/ x # y => x \cap y = {}

PaidFirst(B) ==
  \A i \in 1..Len(B) : \A x \in B[i].spends : \A c \in x : \E j \in 1..i : c \in B[j].pays

Sound(B) == PaysOnce(B) /\ SpendsOnce(B) /\ PaidFirst(B)

PoolApart ==
  /\ pool.pays \subseteq paid
  /\ \A i \in 1..Len(chain) : chain[i].pays \cap pool.pays = {}
  /\ \A x, y \in pool.spends : x # y => x \cap y = {}
  /\ \A i \in 1..Len(chain) : \A x \in chain[i].spends : \A y \in pool.spends : x \cap y = {}

PaysRecorded == \A c \in paid : owner[c] \in recorded

NetInv ==
  /\ IdsKnown /\ Tree /\ PoolApart /\ PaysRecorded
  /\ \A B \in Branches : Sound(B)

(* The store.  U is the branch whose blocks were scanned, on or off the    *)
(* best chain; F is the height up to which its rows are whole, below the   *)
(* cursor only while a rollback to F is not completed.                     *)
Prefix(A, B) == Len(A) <= Len(B) /\ \A k \in 1..Len(A) : A[k] = B[k]

Trail(U) == U \in Seq(Block) /\ \E B \in Branches : Prefix(U, B)

RowsOf(U) ==
  /\ cursor.h <= Len(U)
  /\ cursor.h = 0 => cursor.id = 0
  /\ cursor.h # 0 => cursor.id = U[cursor.h].id
  /\ \A k \in Heights : blocks[k] # 0 =>
       k <= cursor.h + 1 /\ k <= Len(U) /\ blocks[k] = U[k].id
  /\ InBlock => /\ cursor.h < Len(U) /\ pass.block = U[cursor.h + 1]
                /\ blocks[cursor.h + 1] = pass.block.id

Rollback == {"dropUtxos", "unspend", "dropBlocks", "resetCursor"}

Undo(U, F) ==
  /\ F \in Nat /\ F <= cursor.h
  /\ \A k \in 1..F : blocks[k] = U[k].id
  /\ ~undoing => F = cursor.h
  /\ undoing => /\ ~OnChain(cursor)
                /\ pass.pc \in {"idle", "check"} \cup Rollback
                /\ \A k \in 1..Len(chain) : blocks[k] = chain[k].id => k <= F
  /\ pass.pc \in Rollback => undoing /\ pass.fork = F
  /\ pass.pc = "resetCursor" => \A k \in Heights : k > F => blocks[k] = 0

RightUpTo(U, F) ==
  \A c \in Coins : \A i \in 1..F :
    /\ utxos[c].h = i <=> c \in U[i].pays
    /\ utxos[c].spent = i <=> c \in UNION U[i].spends

(* Rows above the cursor are of the block in hand, or of the next block of *)
(* the best chain, in which a pass was cut short.                          *)
Above(c) == utxos[c].h > cursor.h \/ utxos[c].spent > cursor.h

Beyond(U) ==
  \A c \in Coins : Above(c) =>
    LET n == cursor.h + 1 IN
    /\ n <= Len(U)
    /\ utxos[c].h > cursor.h => utxos[c].h = n /\ c \in U[n].pays
    /\ utxos[c].spent > cursor.h => utxos[c].spent = n /\ c \in UNION U[n].spends
    /\ ~InBlock => n <= Len(chain) /\ chain[n] = U[n]

Progress ==
  /\ pass.pc # "idle" => pass.watched = recorded
  /\ pass.pc \in {"unspend", "dropBlocks", "resetCursor"} =>
       \A c \in Coins : utxos[c].h <= pass.fork
  /\ pass.pc \in {"dropBlocks", "resetCursor"} =>
       \A c \in Coins : utxos[c].spent <= pass.fork
  /\ pass.pc \in {"mark", "tip"} =>
       \A c \in pass.block.pays : utxos[c].h = cursor.h + 1
  /\ pass.pc = "tip" =>
       \A c \in UNION pass.block.spends : utxos[c].h # 0 => utxos[c].spent # 0

ScanInv(U, F) ==
  Trail(U) /\ RowsOf(U) /\ Undo(U, F) /\ RightUpTo(U, F) /\ Beyond(U) /\ Progress

Whole == ~TornReorg /\ ~TornReturn /\ ~LateVersions

StoreInv == Whole /\ TypeInv /\ NetInv /\ \E U, F : ScanInv(U, F)

-----------------------------------------------------------------------------
(* Sequences of blocks and sets of heights.                                *)

(* A set of heights that is not empty has a highest one.                   *)
LEMMA Highest ==
  ASSUME NEW n \in Nat, NEW S \in SUBSET (1..n), S # {}
  PROVE  /\ (CHOOSE h \in S : \A k \in S : k <= h) \in S
         /\ \A k \in S : k <= (CHOOSE h \in S : \A j \in S : j <= h)
<1> DEFINE T == {n - h : h \in S}
<1>0. \A h \in S : h \in Int /\ 1 <= h /\ h <= n /\ n - h \in Nat
  OBVIOUS
<1>1. T \subseteq Nat /\ T # {}
  BY <1>0
<1>2. PICK m \in T : \A y \in T : ~ (<<y, m>> \in OpToRel(<, Nat))
  BY <1>1, NatLessThanWellFounded, WFMin, Zenon
<1>3. \A y \in T : ~ (y < m)
  BY <1>1, <1>2 DEF OpToRel
<1>4. PICK h \in S : m = n - h
  BY <1>2
<1>5. ASSUME NEW k \in S PROVE k <= h
  <2>1. n - k \in T /\ ~(n - k < n - h)
    BY <1>3, <1>4
  <2>2. k \in Int /\ h \in Int
    BY <1>0
  <2> HIDE DEF T
  <2> QED
    BY <2>1, <2>2
<1>6. \E x \in S : \A k \in S : k <= x
  BY <1>5
<1> HIDE DEF T
<1> QED
  BY <1>6

(* The fields of a block.                                                  *)
LEMMA BlockFields ==
  ASSUME NEW B \in Seq(Block), NEW i \in 1..Len(B)
  PROVE  /\ Len(B) \in Nat /\ B[i] \in Block /\ B[i].id \in 1..MaxBlocks
         /\ B[i].pays \in SUBSET Coins /\ B[i].spends \in SUBSET SUBSET Coins
<1>1. B[i] \in Block /\ Len(B) \in Nat
  BY ElementOfSeq, LenProperties
<1> QED
  BY <1>1 DEF Block, Heights

(* The fields of the state.                                                *)
LEMMA Fields ==
  ASSUME TypeOK
  PROVE  /\ chain \in Seq(Block) /\ Len(chain) \in Nat /\ Len(chain) <= MaxBlocks
         /\ Branches \subseteq Seq(Block) /\ MaxBlocks \in Nat
         /\ \A B \in Branches : Len(B) \in Nat /\ Len(B) <= Len(chain)
         /\ cursor.h \in 0..MaxBlocks /\ cursor.id \in 0..MaxBlocks /\ mined \in 0..MaxBlocks
         /\ pool.pays \in SUBSET Coins /\ pool.spends \in SUBSET SUBSET Coins
         /\ \A k \in Heights : blocks[k] \in 0..MaxBlocks
         /\ \A c \in Coins : utxos[c].h \in 0..MaxBlocks /\ utxos[c].spent \in 0..MaxBlocks
<1>1. chain \in Seq(Block) /\ Len(chain) \in Nat /\ Len(chain) <= MaxBlocks /\ MaxBlocks \in Nat
      /\ Branches \subseteq Seq(Block)
  BY LenProperties, IngestAssumption DEF TypeOK, Branches
<1>2. ASSUME NEW B \in Branches PROVE Len(B) \in Nat /\ Len(B) <= Len(chain)
  <2>1. B \in Seq(Block)
    BY <1>1
  <2>2. Len(B) \in Nat
    BY <2>1, LenProperties
  <2> QED
    BY <1>1, <2>2 DEF Branches, TypeOK
<1> QED
  BY <1>1, <1>2 DEF TypeOK

(* A base of the best chain is a trail.                                    *)
LEMMA BaseTrail ==
  ASSUME TypeOK, NEW base \in Bases
  PROVE  Trail(base) /\ base \in Seq(Block) /\ Len(base) \in Nat /\ Len(base) <= Len(chain)
<1>0. PICK B \in Branches : base \in {SubSeq(B, 1, m) : m \in 0..Len(B)}
  BY DEF Bases, Branches
<1>1. PICK n \in 0..Len(B) : base = SubSeq(B, 1, n)
  BY <1>0
<1>2. B \in Seq(Block) /\ Len(B) \in Nat /\ Len(B) <= Len(chain) /\ n \in Int /\ 1 \in Int
  BY <1>0, <1>1, Fields
<1>3. \A i \in 1..n : B[i] \in Block
  BY <1>1, <1>2, BlockFields
<1>4. /\ base \in Seq(Block) /\ Len(base) = (IF 1 <= n THEN n - 1 + 1 ELSE 0)
      /\ \A i \in 1..(n - 1 + 1) : base[i] = B[1 + i - 1]
  BY <1>1, <1>2, <1>3, SubSeqProperties
<1>5. Len(base) = n
  BY <1>1, <1>2, <1>4
<1>6. ASSUME NEW i \in 1..n PROVE base[i] = B[i]
  <2>1. i \in 1..(n - 1 + 1) /\ 1 + i - 1 = i
    BY <1>2
  <2> QED
    BY <1>4, <2>1
<1>7. Prefix(base, B)
  BY <1>1, <1>2, <1>5, <1>6 DEF Prefix
<1> QED
  BY <1>0, <1>1, <1>2, <1>4, <1>5, <1>7 DEF Trail

-----------------------------------------------------------------------------
(* The network's blocks.                                                   *)

(* New blocks on a base: the best chain has them, and every other branch   *)
(* is one of before, or the chain of before that was extended.             *)
Grows(base) ==
  /\ Trail(base) /\ Len(base) <= Len(chain)
  /\ chain' \in Seq(Block) /\ Len(chain') = Len(chain) + 1
  /\ Prefix(base, chain')
  /\ mined' = mined + (Len(chain') - Len(base))
  /\ \A k \in 1..Len(chain') : k > Len(base) => chain'[k].id = mined + (k - Len(base))
  /\ stale' \subseteq Branches
  /\ Branches \subseteq Branches' \/ (base = chain /\ stale' = stale)

(* A block is mined.                                                       *)
LEMMA MineGrows ==
  ASSUME TypeInv, NEW P \in SUBSET pool.pays, NEW S \in SUBSET pool.spends, Mine(P, S)
  PROVE  /\ Grows(chain) /\ mined' \in 0..MaxBlocks
         /\ chain'[Len(chain) + 1].pays = P /\ chain'[Len(chain) + 1].spends = S
<1> DEFINE b == [id |-> mined + 1, pays |-> P, spends |-> S]
<1>0. TypeOK /\ Len(chain) <= mined
  BY DEF TypeInv
<1>1. mined < MaxBlocks /\ mined' = mined + 1 /\ chain' = Append(chain, b) /\ stale' = stale
  BY DEF Mine
<1>2. mined + 1 \in Heights /\ mined + 1 \in 0..MaxBlocks /\ mined \in Nat
  BY <1>0, <1>1, Fields DEF Heights
<1>3. P \in SUBSET Coins /\ S \in SUBSET SUBSET Coins
  BY <1>0 DEF TypeOK
<1>4. b \in Block
  BY <1>2, <1>3 DEF Block
<1>5. chain \in Seq(Block) /\ Len(chain) \in Nat
  BY <1>0, Fields
<1>6. b.id = mined + 1 /\ b.pays = P /\ b.spends = S
  OBVIOUS
<1> HIDE DEF b
<1>7. /\ chain' \in Seq(Block) /\ Len(chain') = Len(chain) + 1
      /\ \A i \in 1..Len(chain) : chain'[i] = chain[i]
      /\ chain'[Len(chain) + 1] = b
  BY <1>1, <1>4, <1>5, AppendProperties
<1>8. Prefix(chain, chain') /\ Prefix(chain, chain)
  BY <1>5, <1>7 DEF Prefix
<1>9. Trail(chain)
  BY <1>5, <1>8 DEF Trail, Branches
<1>10. ASSUME NEW k \in 1..Len(chain'), k > Len(chain)
       PROVE  chain'[k].id = mined + (k - Len(chain))
  <2>1. k = Len(chain) + 1
    BY <1>5, <1>7, <1>10
  <2> QED
    BY <1>2, <1>5, <1>6, <1>7, <2>1
<1>11. mined' = mined + (Len(chain') - Len(chain))
  BY <1>1, <1>2, <1>5, <1>7
<1>12. Grows(chain)
  BY <1>1, <1>5, <1>7, <1>8, <1>9, <1>10, <1>11 DEF Grows, Branches
<1> QED
  BY <1>1, <1>2, <1>6, <1>7, <1>12

(* Empty blocks are built on a base.                                       *)
LEMMA ReorgGrows ==
  ASSUME TypeInv, NEW base \in Bases, NEW P, NEW S, Reorg(base, P, S)
  PROVE  /\ Grows(base) /\ mined' \in 0..MaxBlocks /\ Branches \subseteq Branches'
         /\ \A k \in 1..Len(chain') : k > Len(base) => chain'[k].pays = {} /\ chain'[k].spends = {}
<1> DEFINE new == Len(chain) + 1 - Len(base)
           e == [i \in 1..new |-> [id |-> mined + i, pays |-> {}, spends |-> {}]]
<1>0. TypeOK /\ Len(chain) <= mined
  BY DEF TypeInv
<1>1. mined + new <= MaxBlocks /\ mined' = mined + new /\ chain' = base \o e
      /\ stale' = stale \cup {chain}
  BY DEF Reorg
<1>2. Trail(base) /\ base \in Seq(Block) /\ Len(base) \in Nat /\ Len(base) <= Len(chain)
      /\ Len(chain) \in Nat /\ mined \in Nat /\ MaxBlocks \in Nat
  BY <1>0, BaseTrail, Fields
<1>3. new \in Nat /\ new >= 1
  BY <1>2
<1>4. e \in [1..new -> Block] /\ \A i \in 1..new : e[i].id = mined + i /\ e[i].pays = {} /\ e[i].spends = {}
  <2>1. ASSUME NEW i \in 1..new PROVE mined + i \in Heights
    BY <1>1, <1>2, <1>3 DEF Heights
  <2> HIDE DEF new
  <2> QED
    BY <2>1 DEF Block
<1> HIDE DEF e
<1>5. e \in Seq(Block) /\ Len(e) = new
  <2> HIDE DEF new
  <2>1. e \in Seq(Block)
    BY <1>3, <1>4, SeqDef
  <2>2. DOMAIN e = 1..Len(e) /\ Len(e) \in Nat
    BY <2>1, LenProperties
  <2>3. DOMAIN e = 1..new
    BY <1>4
  <2>4. new \in 1..Len(e) /\ \A i \in 1..Len(e) : i \in 1..new
    BY <1>3, <2>2, <2>3
  <2>5. Len(e) >= 1 /\ Len(e) \in 1..new
    BY <1>3, <2>2, <2>4
  <2>6. \A a, b \in Nat : a \in 1..b /\ b \in 1..a => a = b
    OBVIOUS
  <2>7. Len(e) = new
    BY <1>3, <2>2, <2>4, <2>5, <2>6, Zenon
  <2> QED
    BY <2>1, <2>7
<1>6. /\ chain' \in Seq(Block) /\ Len(chain') = Len(base) + new
      /\ \A i \in 1..(Len(base) + new) : chain'[i] = IF i <= Len(base) THEN base[i] ELSE e[i - Len(base)]
  <2> HIDE DEF new
  <2> QED
    BY <1>1, <1>2, <1>5, ConcatProperties
<1>7. Len(chain') = Len(chain) + 1 /\ mined' = mined + (Len(chain') - Len(base))
      /\ mined' \in 0..MaxBlocks
  BY <1>1, <1>2, <1>6
<1>8. Prefix(base, chain')
  BY <1>2, <1>3, <1>6 DEF Prefix
<1>9. ASSUME NEW k \in 1..Len(chain'), k > Len(base)
      PROVE  chain'[k].id = mined + (k - Len(base)) /\ chain'[k].pays = {} /\ chain'[k].spends = {}
  <2>1. k - Len(base) \in 1..new /\ k \in 1..(Len(base) + new) /\ ~(k <= Len(base))
    BY <1>2, <1>6, <1>9
  <2> QED
    BY <1>4, <1>6, <2>1
<1>10. Branches \subseteq Branches' /\ stale' \subseteq Branches
  BY <1>1 DEF Branches
<1>11. Grows(base)
  BY <1>2, <1>6, <1>7, <1>8, <1>9, <1>10 DEF Grows
<1> QED
  BY <1>7, <1>9, <1>10, <1>11
-----------------------------------------------------------------------------
(* The passes.                                                             *)

(* The fields of a pass.                                                   *)
LEMMA PassFields ==
  ASSUME pass \in Pass
  PROVE  /\ pass.pc \in Stage /\ pass.watched \in SUBSET Versions
         /\ pass.fork \in 0..MaxBlocks /\ pass.upto \in 0..MaxBlocks
         /\ pass.block \in Block \cup {Genesis}
BY DEF Pass

(* No pass is a pass.                                                      *)
LEMMA NoPassTyped ==
  NoPass \in Pass /\ NoPass.pc = "idle" /\ NoPass.block.id = 0
BY IngestAssumption DEF NoPass, Pass, Stage, Genesis

(* A pass goes on to another stage.                                        *)
LEMMA GotoShape ==
  ASSUME pass \in Pass, NEW pc \in Stage, Goto(pc)
  PROVE  /\ pass' \in Pass /\ pass'.pc = pc
         /\ pass'.watched = pass.watched /\ pass'.fork = pass.fork
         /\ pass'.upto = pass.upto /\ pass'.block = pass.block
BY DEF Goto, Pass

(* A store call does all of its statements or ends the pass.               *)
LEMMA StatementsShape ==
  ASSUME TypeOK, NEW all, NEW done, NEW next \in Stage, Statements(all, done, next)
  PROVE  /\ pass' \in Pass /\ faults' \in 0..MaxFaults /\ done \subseteq all
         /\ \/ /\ done = all /\ pass'.pc = next
               /\ pass'.watched = pass.watched /\ pass'.fork = pass.fork
               /\ pass'.upto = pass.upto /\ pass'.block = pass.block
            \/ Fault /\ pass' = NoPass
<1>0. pass \in Pass /\ faults \in 0..MaxFaults /\ MaxFaults \in Nat
  BY IngestAssumption DEF TypeOK
<1>1. CASE done = all /\ Goto(next) /\ UNCHANGED faults
  BY <1>0, <1>1, GotoShape DEF Statements
<1>2. CASE Fault /\ pass' = NoPass
  <2>1. faults' \in 0..MaxFaults
    BY <1>0, <1>2 DEF Fault
  <2> QED
    BY <1>2, <2>1, NoPassTyped DEF Statements
<1> QED
  BY <1>1, <1>2 DEF Statements

(* The fork is a height, and what is stored and on the chain is not above. *)
LEMMA ForkShape ==
  ASSUME TypeOK
  PROVE  /\ Fork \in 0..Len(chain) /\ Fork \in 0..MaxBlocks
         /\ Fork # 0 => blocks[Fork] = chain[Fork].id
         /\ \A k \in 1..Len(chain) : blocks[k] = chain[k].id => k <= Fork
<1> DEFINE same == {h \in 1..Len(chain) : blocks[h] = chain[h].id}
<1>1. Len(chain) \in Nat /\ MaxBlocks \in Nat /\ Len(chain) <= MaxBlocks
  BY Fields
<1>2. CASE same = {}
  <2>1. Fork = 0
    BY <1>2 DEF Fork
  <2> QED
    BY <1>1, <1>2, <2>1
<1>3. CASE same # {}
  <2>1. Fork = CHOOSE h \in same : \A k \in same : k <= h
    BY <1>3 DEF Fork
  <2>2. same \in SUBSET (1..Len(chain))
    OBVIOUS
  <2>3. \A h : h \in same <=> h \in 1..Len(chain) /\ blocks[h] = chain[h].id
    OBVIOUS
  <2> HIDE DEF same
  <2>4. Fork \in same /\ \A k \in same : k <= Fork
    BY <1>1, <1>3, <2>1, <2>2, Highest
  <2> QED
    BY <1>1, <2>3, <2>4
<1> QED
  BY <1>2, <1>3

(* The highest stored block.                                               *)
LEMMA HighestShape ==
  ASSUME TypeOK
  PROVE  /\ HighestStored \in [h : 0..MaxBlocks, id : 0..MaxBlocks]
         /\ HighestStored.h = 0 => HighestStored.id = 0 /\ \A k \in Heights : blocks[k] = 0
         /\ HighestStored.h # 0 => /\ HighestStored.h \in Heights
                                   /\ HighestStored.id = blocks[HighestStored.h]
                                   /\ HighestStored.id # 0
         /\ \A k \in Heights : blocks[k] # 0 => k <= HighestStored.h
<1> DEFINE stored == {h \in Heights : blocks[h] # 0}
           max == CHOOSE h \in stored : \A k \in stored : k <= h
<1>1. MaxBlocks \in Nat /\ \A k \in Heights : blocks[k] \in 0..MaxBlocks
  BY Fields
<1>2. CASE stored = {}
  <2>1. HighestStored = NoTip
    BY <1>2 DEF HighestStored
  <2> QED
    BY <1>1, <1>2, <2>1 DEF NoTip
<1>3. CASE stored # {}
  <2>1. HighestStored = [h |-> max, id |-> blocks[max]]
    BY <1>3 DEF HighestStored
  <2>2. stored \in SUBSET (1..MaxBlocks)
    BY DEF Heights
  <2>3. \A h : h \in stored <=> h \in Heights /\ blocks[h] # 0
    OBVIOUS
  <2> HIDE DEF stored
  <2>4. max \in stored /\ \A k \in stored : k <= max
    BY <1>1, <1>3, <2>2, Highest
  <2> HIDE DEF max
  <2>5. max \in Heights /\ max \in 0..MaxBlocks /\ max # 0 /\ blocks[max] # 0 /\ blocks[max] \in 0..MaxBlocks
    BY <1>1, <2>3, <2>4 DEF Heights
  <2> QED
    BY <2>1, <2>3, <2>4, <2>5
<1> QED
  BY <1>2, <1>3

-----------------------------------------------------------------------------
(* The steps: types, and what each step writes.                            *)

(* The steps of the network.                                               *)
NetStep ==
  \/ \E c \in Coins : Pay(c)
  \/ \E P \in SUBSET pool.pays, S \in SUBSET pool.spends : Mine(P, S)
  \/ \E base \in Bases, P \in SUBSET PaysOf(chain), S \in SUBSET SpendsOf(chain) : Reorg(base, P, S)

(* A step is one of these.                                                 *)
LEMMA Steps ==
  ASSUME [Next]_vars
  PROVE  \/ NetStep
         \/ \E v \in Versions : RecordVersion(v)
         \/ LoadVersions \/ CheckTip \/ DropUtxos \/ UnspendUtxos \/ DropBlocks
         \/ ResetCursor \/ StoreBlock \/ SetTip
         \/ \E done \in SUBSET Coins : CaptureUtxos(done)
         \/ \E done \in SUBSET Coins : MarkSpent(done)
         \/ PassFails
         \/ \E s \in Senders : Send(s)
         \/ UNCHANGED vars
BY DEF Next, Ingest, NetStep

(* A transaction enters or leaves the mempool.                             *)
LEMMA PoolTyped ==
  ASSUME TypeOK
  PROVE  /\ pool.pays \in SUBSET Coins /\ pool.spends \in SUBSET SUBSET Coins
         /\ \A c \in Coins : LET q == [pool EXCEPT !.pays = @ \cup {c}] IN
              /\ q \in [pays : SUBSET Coins, spends : SUBSET SUBSET Coins]
              /\ q.pays = pool.pays \cup {c} /\ q.spends = pool.spends
         /\ \A C \in SUBSET Coins :
              /\ Taken(C) \in [pays : SUBSET Coins, spends : SUBSET SUBSET Coins]
              /\ Taken(C).pays = pool.pays
              /\ Taken(C).spends = {x \in pool.spends : x \cap C = {}} \cup {C}
BY DEF TypeOK, Taken

(* The transactions of a branch.                                           *)
LEMMA OnBranch ==
  ASSUME NEW B \in Seq(Block)
  PROVE  /\ PaysOf(B) \in SUBSET Coins /\ SpendsOf(B) \in SUBSET SUBSET Coins
         /\ \A c : c \in PaysOf(B) <=> \E i \in 1..Len(B) : c \in B[i].pays
         /\ \A x : x \in SpendsOf(B) <=> \E i \in 1..Len(B) : x \in B[i].spends
<1>1. /\ \A c : c \in PaysOf(B) <=> \E i \in 1..Len(B) : c \in B[i].pays
      /\ \A x : x \in SpendsOf(B) <=> \E i \in 1..Len(B) : x \in B[i].spends
  BY DEF PaysOf, SpendsOf
<1>2. \A i \in 1..Len(B) : B[i].pays \in SUBSET Coins /\ B[i].spends \in SUBSET SUBSET Coins
  BY BlockFields
<1> QED
  BY <1>1, <1>2

(* The mempool after a reorganisation.                                     *)
LEMMA ReorgPool ==
  ASSUME TypeOK, NEW base \in Bases, NEW P \in SUBSET PaysOf(chain),
         NEW S \in SUBSET SpendsOf(chain), Reorg(base, P, S)
  PROVE  /\ pool' \in [pays : SUBSET Coins, spends : SUBSET SUBSET Coins]
         /\ pool'.pays = (pool.pays \cup P) \ PaysOf(base)
         /\ pool'.spends \subseteq pool.spends \cup S
         /\ \A x \in pool'.spends : x \cap UNION SpendsOf(base) = {}
<1>1. pool.pays \in SUBSET Coins /\ pool.spends \in SUBSET SUBSET Coins
  BY Fields
<1>2. P \in SUBSET Coins /\ S \in SUBSET SUBSET Coins
  BY Fields, OnBranch
<1> DEFINE pays == (pool.pays \cup P) \ PaysOf(base)
           spends == {x \in pool.spends \cup S : /\ x \subseteq pays \cup PaysOf(base)
                                                 /\ x \cap UNION SpendsOf(base) = {}}
<1>3. pool' = [pays |-> pays, spends |-> spends]
  BY DEF Reorg
<1>4. pays \in SUBSET Coins /\ spends \in SUBSET SUBSET Coins /\ spends \subseteq pool.spends \cup S
      /\ \A x \in spends : x \cap UNION SpendsOf(base) = {}
  BY <1>1, <1>2
<1> HIDE DEF spends
<1> QED
  BY <1>3, <1>4

(* The network's steps are typed.                                          *)
LEMMA NetTyped ==
  ASSUME TypeInv, NetStep
  PROVE  TypeInv' /\ UNCHANGED <<recorded, storeVars, pass, undoing, sendVars, faults>>
<1>0. UNCHANGED <<recorded, blocks, cursor, utxos, pass, undoing, ledger, send, shipped, faults>>
  BY DEF NetStep, Pay, Mine, Reorg, storeVars, sendVars
<1>t. TypeOK /\ Len(chain) <= mined /\ Len(chain) \in Nat /\ mined \in 0..MaxBlocks /\ MaxBlocks \in Nat
  BY Fields DEF TypeInv
<1>i. InBlock' => cursor'.h < MaxBlocks
  BY <1>0 DEF TypeInv, InBlock
<1>g. ASSUME NEW base \in Seq(Block), Grows(base), mined' \in 0..MaxBlocks
      PROVE  /\ chain' \in Seq(Block) /\ Len(chain') <= MaxBlocks /\ Len(chain') <= mined'
             /\ stale' \subseteq Seq(Block) /\ \A B \in stale' : Len(B) <= Len(chain')
  <2>1. Len(base) \in Nat /\ Len(base) <= Len(chain)
    BY <1>g, LenProperties DEF Grows
  <2>2. Len(chain') = Len(chain) + 1 /\ mined' = mined + (Len(chain') - Len(base))
        /\ chain' \in Seq(Block) /\ stale' \subseteq Branches
    BY <1>g DEF Grows
  <2>3. Len(chain') <= MaxBlocks /\ Len(chain') <= mined'
    BY <1>t, <1>g, <2>1, <2>2
  <2>4. Branches \subseteq Seq(Block) /\ \A B \in Branches : Len(B) \in Nat /\ Len(B) <= Len(chain)
    BY <1>t, Fields
  <2>5. \A B \in Branches : Len(B) <= Len(chain')
    BY <1>t, <2>2, <2>4
  <2> QED
    BY <2>2, <2>3, <2>4, <2>5
<1>1. ASSUME NEW c \in Coins, Pay(c) PROVE TypeOK' /\ Len(chain') <= mined'
  <2>1. pool' \in [pays : SUBSET Coins, spends : SUBSET SUBSET Coins]
    BY <1>t, <1>1, PoolTyped DEF Pay
  <2>2. paid' \subseteq Coins /\ UNCHANGED <<chain, stale, mined, reorgs>>
    BY <1>t, <1>1 DEF Pay, TypeOK
  <2> QED
    BY <1>0, <1>t, <2>1, <2>2 DEF TypeOK
<1>2. ASSUME NEW P \in SUBSET pool.pays, NEW S \in SUBSET pool.spends, Mine(P, S)
      PROVE  TypeOK' /\ Len(chain') <= mined'
  <2>1. pool' \in [pays : SUBSET Coins, spends : SUBSET SUBSET Coins]
    BY <1>t, <1>2, PoolTyped DEF Mine
  <2>2. Grows(chain) /\ mined' \in 0..MaxBlocks /\ chain \in Seq(Block)
    BY <1>t, <1>2, MineGrows, Fields
  <2>3. UNCHANGED <<paid, reorgs>>
    BY <1>2 DEF Mine
  <2> QED
    BY <1>0, <1>t, <1>g, <2>1, <2>2, <2>3 DEF TypeOK
<1>3. ASSUME NEW base \in Bases, NEW P \in SUBSET PaysOf(chain), NEW S \in SUBSET SpendsOf(chain),
             Reorg(base, P, S)
      PROVE  TypeOK' /\ Len(chain') <= mined'
  <2>1. pool' \in [pays : SUBSET Coins, spends : SUBSET SUBSET Coins]
    BY <1>t, <1>3, ReorgPool
  <2>2. Grows(base) /\ mined' \in 0..MaxBlocks /\ base \in Seq(Block)
    BY <1>t, <1>3, ReorgGrows, BaseTrail
  <2>3. reorgs' \in 0..MaxReorgs
    <3>1. reorgs \in 0..MaxReorgs /\ MaxReorgs \in Nat
      BY <1>t, IngestAssumption DEF TypeOK
    <3>2. reorgs < MaxReorgs /\ reorgs' = reorgs + 1
      BY <1>3 DEF Reorg
    <3> QED
      BY <3>1, <3>2
  <2>4. paid' = paid
    BY <1>3 DEF Reorg
  <2> QED
    BY <1>0, <1>t, <1>g, <2>1, <2>2, <2>3, <2>4 DEF TypeOK
<1> QED
  BY <1>0, <1>i, <1>1, <1>2, <1>3 DEF NetStep, storeVars, sendVars, TypeInv

(* So are those of the requests, which leave chain and stores alone.       *)
LEMMA SendTyped ==
  ASSUME TypeOK, NEW s \in Senders, Send(s)
  PROVE  /\ TypeOK' /\ UNCHANGED <<chain, stale, paid, mined, reorgs, recorded, storeVars, pass, undoing>>
         /\ pool'.pays = pool.pays
<1>0. send \in [Senders -> [pc : {"idle", "broadcast", "insert"}, coins : SUBSET Coins]]
      /\ send[s].coins \in SUBSET Coins /\ faults \in 0..MaxFaults /\ MaxFaults \in Nat
  BY IngestAssumption DEF TypeOK
<1>1. ASSUME NEW C \in SUBSET Coins, Select(s, C)
      PROVE  /\ TypeOK' /\ UNCHANGED <<chain, stale, paid, mined, reorgs, recorded, storeVars, pass, undoing>>
             /\ pool'.pays = pool.pays
  <2>1. send' \in [Senders -> [pc : {"idle", "broadcast", "insert"}, coins : SUBSET Coins]]
    BY <1>0, <1>1 DEF Select
  <2>2. UNCHANGED <<chain, stale, pool, paid, mined, reorgs, recorded, blocks, cursor, utxos, pass, undoing,
                    ledger, shipped, faults>>
    BY <1>1 DEF Select, netVars, storeVars
  <2> QED
    BY <2>1, <2>2 DEF TypeOK, storeVars
<1>2. ASSUME NEW w \in Wallets, sweep_to(s, w)
      PROVE  \E C \in SUBSET Coins : Select(s, C)
  BY <1>2 DEF sweep_to, Unspent
<1>3. ASSUME NEW w \in Wallets, NEW C \in SUBSET Coins,
             \/ build_sign_and_broadcast(s, w, C)
             \/ build_sign_and_broadcast_asset(s, w, C)
             \/ build_sign_and_broadcast_asset_max(s, w, C)
      PROVE  Select(s, C)
  BY <1>3 DEF build_sign_and_broadcast, build_sign_and_broadcast_asset,
     build_sign_and_broadcast_asset_max
<1>4. CASE Broadcast(s)
  <2>0. UNCHANGED <<chain, stale, paid, mined, reorgs, recorded, blocks, cursor, utxos, pass, undoing, ledger, faults>>
    BY <1>4 DEF Broadcast, storeVars
  <2>1. CASE pool' = Taken(send[s].coins)
             /\ shipped' = shipped \cup {send[s].coins}
             /\ send' = [send EXCEPT ![s].pc = "insert"]
    <3>1. /\ pool' \in [pays : SUBSET Coins, spends : SUBSET SUBSET Coins]
          /\ pool'.pays = pool.pays
      BY <1>0, <2>1, PoolTyped
    <3>2. send' \in [Senders -> [pc : {"idle", "broadcast", "insert"}, coins : SUBSET Coins]]
      BY <1>0, <2>1
    <3>3. shipped' \subseteq SUBSET Coins
      BY <1>0, <2>1 DEF TypeOK
    <3> QED
      BY <2>0, <3>1, <3>2, <3>3 DEF TypeOK, storeVars
  <2>2. CASE send' = [send EXCEPT ![s] = NoSend] /\ UNCHANGED <<pool, shipped>>
    <3>1. send' \in [Senders -> [pc : {"idle", "broadcast", "insert"}, coins : SUBSET Coins]]
      BY <1>0, <2>2 DEF NoSend
    <3> QED
      BY <2>0, <2>2, <3>1 DEF TypeOK, storeVars
  <2> QED
    BY <1>4, <2>1, <2>2 DEF Broadcast
<1>5. CASE InsertLedger(s)
  <2>1. UNCHANGED <<chain, stale, pool, paid, mined, reorgs, recorded, blocks, cursor, utxos, pass, undoing, shipped>>
    BY <1>5 DEF InsertLedger, netVars, storeVars
  <2>2. send' \in [Senders -> [pc : {"idle", "broadcast", "insert"}, coins : SUBSET Coins]]
    BY <1>0, <1>5 DEF InsertLedger, NoSend
  <2>3. ledger' \subseteq SUBSET Coins
    BY <1>0, <1>5 DEF InsertLedger, TypeOK
  <2>4. faults' \in 0..MaxFaults
    BY <1>0, <1>5 DEF InsertLedger
  <2> QED
    BY <2>1, <2>2, <2>3, <2>4 DEF TypeOK, storeVars
<1> QED
  BY <1>1, <1>2, <1>3, <1>4, <1>5 DEF Send

(* What the steps of a pass leave alone.                                   *)
LEMMA IngestLeaves ==
  ASSUME \/ LoadVersions \/ CheckTip \/ DropUtxos \/ UnspendUtxos \/ DropBlocks
         \/ ResetCursor \/ StoreBlock \/ SetTip
         \/ \E done \in SUBSET Coins : CaptureUtxos(done)
         \/ \E done \in SUBSET Coins : MarkSpent(done)
         \/ PassFails
  PROVE  UNCHANGED <<chain, stale, pool, paid, mined, reorgs, recorded, ledger, send, shipped>>
BY DEF LoadVersions, CheckTip, DropUtxos, UnspendUtxos, DropBlocks, ResetCursor, StoreBlock,
   SetTip, CaptureUtxos, MarkSpent, PassFails, netVars, sendVars

(* A step of a pass is typed when what it writes is.                       *)
LEMMA IngestTyped ==
  ASSUME TypeOK, UNCHANGED <<chain, stale, pool, paid, mined, reorgs, recorded, ledger, send, shipped>>,
         pass' \in Pass, blocks' \in [Heights -> 0..MaxBlocks],
         undoing' \in BOOLEAN, cursor' \in [h : 0..MaxBlocks, id : 0..MaxBlocks],
         utxos' \in [Coins -> [h : 0..MaxBlocks, spent : 0..MaxBlocks]],
         faults' \in 0..MaxFaults
  PROVE  TypeOK'
BY DEF TypeOK
(* The same with the invariant.                                            *)
LEMMA IngestKeeps ==
  ASSUME TypeInv,
         UNCHANGED <<chain, stale, pool, paid, mined, reorgs, recorded, ledger, send, shipped>>,
         pass' \in Pass, blocks' \in [Heights -> 0..MaxBlocks], undoing' \in BOOLEAN,
         cursor' \in [h : 0..MaxBlocks, id : 0..MaxBlocks],
         utxos' \in [Coins -> [h : 0..MaxBlocks, spent : 0..MaxBlocks]],
         faults' \in 0..MaxFaults,
         pass'.pc \in {"capture", "mark", "tip"} => cursor'.h < MaxBlocks
  PROVE  TypeInv'
<1>1. TypeOK'
  BY IngestTyped DEF TypeInv
<1> QED
  BY <1>1 DEF TypeInv, InBlock

(* What the store tables hold.                                             *)
LEMMA StoreFields ==
  ASSUME TypeInv
  PROVE  /\ pass \in Pass /\ blocks \in [Heights -> 0..MaxBlocks] /\ undoing \in BOOLEAN
         /\ cursor \in [h : 0..MaxBlocks, id : 0..MaxBlocks]
         /\ utxos \in [Coins -> [h : 0..MaxBlocks, spent : 0..MaxBlocks]]
         /\ \A c \in Coins : utxos[c].h \in 0..MaxBlocks /\ utxos[c].spent \in 0..MaxBlocks
         /\ NoRow \in [h : 0..MaxBlocks, spent : 0..MaxBlocks]
         /\ faults \in 0..MaxFaults /\ recorded \subseteq Versions
         /\ MaxBlocks \in Nat /\ Len(chain) \in 0..MaxBlocks /\ cursor.h \in 0..MaxBlocks
<1>1. TypeOK
  BY DEF TypeInv
<1>2. Len(chain) \in 0..MaxBlocks /\ cursor.h \in 0..MaxBlocks
  BY <1>1, Fields
<1> QED
  BY <1>1, <1>2, IngestAssumption DEF TypeOK, NoRow

(* A pass begins: the recorded versions are the ones it watches.           *)
LEMMA LoadStep ==
  ASSUME TypeInv, LoadVersions
  PROVE  /\ TypeInv' /\ pass.pc = "idle" /\ pass'.pc = "check" /\ pass'.watched = recorded
         /\ UNCHANGED <<blocks, cursor, utxos, undoing>>
<1>0. UNCHANGED <<blocks, cursor, utxos, undoing, faults>> /\ pass.pc = "idle"
  BY DEF LoadVersions, storeVars
<1>1. pass' \in Pass /\ pass'.pc = "check" /\ pass'.watched = recorded
  <2>1. recorded \in SUBSET Versions /\ "check" \in Stage
    BY StoreFields DEF Stage
  <2>2. pass' = [NoPass EXCEPT !.pc = "check", !.watched = recorded]
    BY DEF LoadVersions
  <2> QED
    BY <2>1, <2>2, NoPassTyped DEF Pass
<1>2. TypeInv'
  BY <1>0, <1>1, StoreFields, IngestLeaves, IngestKeeps
<1> QED
  BY <1>0, <1>1, <1>2

(* The tip is compared with the chain: scan, or roll back first.           *)
LEMMA CheckStep ==
  ASSUME TypeInv, CheckTip
  PROVE  /\ TypeInv' /\ UNCHANGED <<blocks, cursor, utxos>> /\ pass'.watched = pass.watched
         /\ pass.pc = "check"
         /\ \/ OnChain(cursor) /\ pass'.pc = "scan" /\ UNCHANGED undoing
            \/ ~OnChain(cursor) /\ pass'.pc = "dropUtxos" /\ pass'.fork = Fork /\ undoing' = TRUE
<1>0. UNCHANGED <<blocks, cursor, utxos, faults>> /\ pass.pc = "check"
  BY DEF CheckTip, storeVars
<1>1. CASE OnChain(cursor)
  <2>1. pass' = [pass EXCEPT !.pc = "scan", !.upto = Len(chain)] /\ UNCHANGED undoing
    BY <1>1 DEF CheckTip
  <2>2. pass' \in Pass /\ pass'.pc = "scan" /\ pass'.watched = pass.watched
    BY <2>1, StoreFields DEF Pass, Stage
  <2>3. TypeInv'
    BY <1>0, <2>1, <2>2, StoreFields, IngestLeaves, IngestKeeps
  <2> QED
    BY <1>0, <1>1, <2>1, <2>2, <2>3
<1>2. CASE ~OnChain(cursor)
  <2>1. pass' = [pass EXCEPT !.pc = "dropUtxos", !.fork = Fork] /\ undoing' = TRUE
    BY <1>2 DEF CheckTip
  <2>2. Fork \in 0..MaxBlocks
    BY ForkShape DEF TypeInv
  <2>3. pass' \in Pass /\ pass'.pc = "dropUtxos" /\ pass'.watched = pass.watched /\ pass'.fork = Fork
    BY <2>1, <2>2, StoreFields DEF Pass, Stage
  <2>4. TypeInv'
    BY <1>0, <2>1, <2>3, StoreFields, IngestLeaves, IngestKeeps
  <2> QED
    BY <1>0, <1>2, <2>1, <2>3, <2>4
<1> QED
  BY <1>1, <1>2

(* Coin rows above the fork are dropped.                                   *)
LEMMA DropUtxosStep ==
  ASSUME TypeInv, DropUtxos
  PROVE  /\ TypeInv' /\ UNCHANGED <<blocks, cursor, undoing>> /\ pass'.watched = pass.watched
         /\ pass.pc = "dropUtxos" /\ pass'.pc = "unspend" /\ pass'.fork = pass.fork
         /\ utxos' = [c \in Coins |-> IF utxos[c].h > pass.fork THEN NoRow ELSE utxos[c]]
<1>0. /\ UNCHANGED <<blocks, cursor, undoing, faults>> /\ pass.pc = "dropUtxos"
      /\ utxos' = [c \in Coins |-> IF utxos[c].h > pass.fork THEN NoRow ELSE utxos[c]]
      /\ Goto("unspend")
  BY DEF DropUtxos
<1>1. /\ pass' \in Pass /\ pass'.pc = "unspend" /\ pass'.watched = pass.watched
      /\ pass'.fork = pass.fork
  BY <1>0, StoreFields, GotoShape DEF Stage
<1>2. utxos' \in [Coins -> [h : 0..MaxBlocks, spent : 0..MaxBlocks]]
  BY <1>0, StoreFields
<1>3. TypeInv'
  BY <1>0, <1>1, <1>2, StoreFields, IngestLeaves, IngestKeeps
<1> QED
  BY <1>0, <1>1, <1>3

(* Spent heights above the fork are cleared.                               *)
LEMMA UnspendStep ==
  ASSUME TypeInv, UnspendUtxos
  PROVE  /\ TypeInv' /\ UNCHANGED <<blocks, cursor, undoing>> /\ pass'.watched = pass.watched
         /\ pass.pc = "unspend" /\ pass'.pc = "dropBlocks" /\ pass'.fork = pass.fork
         /\ \A c \in Coins :
              /\ utxos'[c].h = utxos[c].h
              /\ utxos'[c].spent = (IF utxos[c].spent > pass.fork THEN 0 ELSE utxos[c].spent)
<1>0. /\ UNCHANGED <<blocks, cursor, undoing, faults>> /\ pass.pc = "unspend"
      /\ utxos' = [c \in Coins |-> IF utxos[c].spent > pass.fork
                                   THEN [utxos[c] EXCEPT !.spent = 0] ELSE utxos[c]]
      /\ Goto("dropBlocks")
  BY DEF UnspendUtxos
<1>1. /\ pass' \in Pass /\ pass'.pc = "dropBlocks" /\ pass'.watched = pass.watched
      /\ pass'.fork = pass.fork
  BY <1>0, StoreFields, GotoShape DEF Stage
<1>2. /\ utxos' \in [Coins -> [h : 0..MaxBlocks, spent : 0..MaxBlocks]]
      /\ \A c \in Coins :
           /\ utxos'[c].h = utxos[c].h
           /\ utxos'[c].spent = (IF utxos[c].spent > pass.fork THEN 0 ELSE utxos[c].spent)
  <2>1. 0 \in 0..MaxBlocks
    BY IngestAssumption
  <2> QED
    BY <1>0, <2>1, StoreFields
<1>3. TypeInv'
  BY <1>0, <1>1, <1>2, StoreFields, IngestLeaves, IngestKeeps
<1> QED
  BY <1>0, <1>1, <1>2, <1>3

(* Block rows above the fork are dropped.                                  *)
LEMMA DropBlocksStep ==
  ASSUME TypeInv, DropBlocks
  PROVE  /\ TypeInv' /\ UNCHANGED <<cursor, utxos, undoing>> /\ pass'.watched = pass.watched
         /\ pass.pc = "dropBlocks" /\ pass'.pc = "resetCursor" /\ pass'.fork = pass.fork
         /\ \A k \in Heights : blocks'[k] = IF k > pass.fork THEN 0 ELSE blocks[k]
<1>0. /\ UNCHANGED <<utxos, cursor, undoing, faults>>
      /\ pass.pc = "dropBlocks" /\ Goto("resetCursor")
      /\ blocks' = [h \in Heights |-> IF h > pass.fork THEN 0 ELSE blocks[h]]
  BY DEF DropBlocks
<1>1. /\ pass' \in Pass /\ pass'.pc = "resetCursor" /\ pass'.watched = pass.watched
      /\ pass'.fork = pass.fork
  BY <1>0, StoreFields, GotoShape DEF Stage
<1>2. blocks' \in [Heights -> 0..MaxBlocks]
  BY <1>0, StoreFields
<1>3. TypeInv'
  BY <1>0, <1>1, <1>2, StoreFields, IngestLeaves, IngestKeeps
<1> QED
  BY <1>0, <1>1, <1>3

(* The cursor goes to the highest stored block, if it is above the fork.   *)
LEMMA ResetStep ==
  ASSUME TypeInv, ResetCursor
  PROVE  /\ TypeInv' /\ UNCHANGED <<blocks, utxos>> /\ pass'.watched = pass.watched
         /\ pass.pc = "resetCursor" /\ pass'.pc = "scan" /\ undoing' = FALSE
         /\ cursor' = IF cursor.h > pass.fork THEN HighestStored ELSE cursor
<1>0. /\ UNCHANGED <<blocks, utxos, faults>> /\ pass.pc = "resetCursor" /\ undoing' = FALSE
      /\ cursor' = IF cursor.h > pass.fork THEN HighestStored ELSE cursor
      /\ pass' = [pass EXCEPT !.pc = "scan", !.upto = Len(chain)]
  BY DEF ResetCursor
<1>1. pass' \in Pass /\ pass'.pc = "scan" /\ pass'.watched = pass.watched
  BY <1>0, StoreFields DEF Pass, Stage
<1>2. cursor' \in [h : 0..MaxBlocks, id : 0..MaxBlocks]
  BY <1>0, StoreFields, HighestShape DEF TypeInv
<1>3. TypeInv'
  BY <1>0, <1>1, <1>2, StoreFields, IngestLeaves, IngestKeeps
<1> QED
  BY <1>0, <1>1, <1>3

(* The next block of the chain is stored, or the pass ends.                *)
LEMMA StoreStep ==
  ASSUME TypeInv, StoreBlock
  PROVE  /\ TypeInv' /\ UNCHANGED <<cursor, utxos, undoing>> /\ pass.pc = "scan"
         /\ \/ pass'.pc = "idle" /\ UNCHANGED blocks
            \/ /\ pass'.pc = "capture" /\ pass'.watched = pass.watched
               /\ pass'.block = chain[cursor.h + 1] /\ OnChain(cursor)
               /\ cursor.h + 1 \in 1..Len(chain) /\ cursor.h + 1 \in Heights
               /\ blocks'[cursor.h + 1] = chain[cursor.h + 1].id
               /\ \A k \in Heights : k # cursor.h + 1 => blocks'[k] = blocks[k]
<1>0. UNCHANGED <<utxos, cursor, undoing, faults>> /\ pass.pc = "scan"
  BY DEF StoreBlock
<1> DEFINE h == cursor.h + 1
<1>2. CASE h <= pass.upto /\ OnChain(cursor) /\ h <= Len(chain)
  <2>1. /\ blocks' = [blocks EXCEPT ![h] = chain[h].id]
        /\ pass' = [pass EXCEPT !.pc = "capture", !.block = chain[h]]
    BY <1>2 DEF StoreBlock
  <2>2. h \in 1..Len(chain) /\ h \in Heights /\ cursor.h < MaxBlocks
    BY <1>2, StoreFields DEF Heights
  <2>3. chain[h] \in Block /\ chain[h].id \in 0..MaxBlocks
    <3>1. chain \in Seq(Block)
      BY DEF TypeInv, TypeOK
    <3>2. chain[h] \in Block /\ chain[h].id \in 1..MaxBlocks
      BY <2>2, <3>1, BlockFields
    <3> QED
      BY <3>2, StoreFields
  <2>4. pass' \in Pass /\ pass'.pc = "capture" /\ pass'.watched = pass.watched /\ pass'.block = chain[h]
    BY <2>1, <2>3, StoreFields DEF Pass, Stage
  <2>5. /\ blocks' \in [Heights -> 0..MaxBlocks] /\ blocks'[h] = chain[h].id
        /\ \A k \in Heights : k # h => blocks'[k] = blocks[k]
    BY <2>1, <2>2, <2>3, StoreFields
  <2>6. TypeInv'
    BY <1>0, <2>2, <2>4, <2>5, StoreFields, IngestLeaves, IngestKeeps
  <2> QED
    BY <1>0, <1>2, <2>2, <2>4, <2>5, <2>6
<1>3. CASE ~(h <= pass.upto /\ OnChain(cursor) /\ h <= Len(chain))
  <2>1. pass' = NoPass /\ UNCHANGED blocks
    BY <1>3 DEF StoreBlock
  <2>2. pass' \in Pass /\ pass'.pc = "idle"
    BY <2>1, NoPassTyped
  <2>3. TypeInv'
    BY <1>0, <2>1, <2>2, StoreFields, IngestLeaves, IngestKeeps
  <2> QED
    BY <1>0, <2>1, <2>2, <2>3
<1> QED
  BY <1>2, <1>3

(* A pass fails outside of a store call.                                   *)
LEMMA FailStep ==
  ASSUME TypeInv, PassFails
  PROVE  /\ TypeInv' /\ UNCHANGED <<blocks, cursor, utxos, undoing>>
         /\ pass'.pc = "idle" /\ Fault
<1>0. /\ UNCHANGED <<blocks, cursor, utxos, undoing>> /\ pass' = NoPass /\ Fault
  BY DEF PassFails, storeVars
<1>1. faults' \in 0..MaxFaults
  <2>1. faults \in 0..MaxFaults /\ MaxFaults \in Nat
    BY StoreFields, IngestAssumption
  <2> QED
    BY <1>0, <2>1 DEF Fault
<1>2. TypeInv'
  BY <1>0, <1>1, NoPassTyped, StoreFields, IngestLeaves, IngestKeeps
<1> QED
  BY <1>0, <1>2, NoPassTyped

(* upsert_utxos writes the rows of all watched coins, or of some.          *)
LEMMA CaptureStep ==
  ASSUME TypeInv, NEW done \in SUBSET Coins, CaptureUtxos(done)
  PROVE  /\ TypeInv' /\ UNCHANGED <<blocks, cursor, undoing>> /\ pass.pc = "capture" /\ InBlock
         /\ done \subseteq {c \in pass.block.pays : owner[c] \in pass.watched}
         /\ \/ /\ pass'.pc = "mark" /\ pass'.watched = pass.watched /\ pass'.block = pass.block
               /\ done = {c \in pass.block.pays : owner[c] \in pass.watched}
            \/ pass'.pc = "idle" /\ Fault
         /\ \A c \in Coins :
              /\ utxos'[c].h = (IF c \in done THEN cursor.h + 1 ELSE utxos[c].h)
              /\ utxos'[c].spent = utxos[c].spent
<1> DEFINE all == {c \in pass.block.pays : owner[c] \in pass.watched}
<1>0. /\ UNCHANGED <<blocks, cursor, undoing>> /\ pass.pc = "capture" /\ InBlock
      /\ Statements(all, done, "mark")
      /\ utxos' = [c \in Coins |-> IF c \in done THEN [utxos[c] EXCEPT !.h = cursor.h + 1]
                                   ELSE utxos[c]]
  BY DEF CaptureUtxos, InBlock
<1>1. cursor.h + 1 \in 0..MaxBlocks /\ cursor.h < MaxBlocks
  BY <1>0, StoreFields DEF TypeInv
<1>2. /\ utxos' \in [Coins -> [h : 0..MaxBlocks, spent : 0..MaxBlocks]]
      /\ \A c \in Coins :
           /\ utxos'[c].h = (IF c \in done THEN cursor.h + 1 ELSE utxos[c].h)
           /\ utxos'[c].spent = utxos[c].spent
  BY <1>0, <1>1, StoreFields
<1> HIDE DEF all
<1>3. /\ pass' \in Pass /\ faults' \in 0..MaxFaults /\ done \subseteq all
      /\ \/ /\ done = all /\ pass'.pc = "mark"
            /\ pass'.watched = pass.watched /\ pass'.block = pass.block
         \/ Fault /\ pass' = NoPass
  BY <1>0, StatementsShape DEF Stage, TypeInv
<1>4. TypeInv'
  BY <1>0, <1>1, <1>2, <1>3, StoreFields, IngestLeaves, IngestKeeps
<1> QED
  BY <1>0, <1>2, <1>3, <1>4, NoPassTyped DEF all

(* mark_spent sets the spent heights of all unspent inputs, or of some.    *)
LEMMA MarkStep ==
  ASSUME TypeInv, NEW done \in SUBSET Coins, MarkSpent(done)
  PROVE  LET all == {c \in UNION pass.block.spends : utxos[c].h # 0 /\ utxos[c].spent = 0} IN
         /\ TypeInv' /\ UNCHANGED <<blocks, cursor, undoing>> /\ pass.pc = "mark" /\ InBlock
         /\ done \subseteq all
         /\ \/ /\ pass'.pc = "tip" /\ pass'.watched = pass.watched /\ pass'.block = pass.block
               /\ done = all
            \/ pass'.pc = "idle" /\ Fault
         /\ \A c \in Coins :
              /\ utxos'[c].h = utxos[c].h
              /\ utxos'[c].spent = (IF c \in done THEN cursor.h + 1 ELSE utxos[c].spent)
<1> DEFINE all == {c \in UNION pass.block.spends : utxos[c].h # 0 /\ utxos[c].spent = 0}
<1>0. /\ UNCHANGED <<blocks, cursor, undoing>> /\ pass.pc = "mark" /\ InBlock
      /\ Statements(all, done, "tip")
      /\ utxos' = [c \in Coins |-> IF c \in done THEN [utxos[c] EXCEPT !.spent = cursor.h + 1]
                                   ELSE utxos[c]]
  BY DEF MarkSpent, InBlock
<1>1. cursor.h + 1 \in 0..MaxBlocks /\ cursor.h < MaxBlocks
  BY <1>0, StoreFields DEF TypeInv
<1>2. /\ utxos' \in [Coins -> [h : 0..MaxBlocks, spent : 0..MaxBlocks]]
      /\ \A c \in Coins :
           /\ utxos'[c].h = utxos[c].h
           /\ utxos'[c].spent = (IF c \in done THEN cursor.h + 1 ELSE utxos[c].spent)
  BY <1>0, <1>1, StoreFields
<1> HIDE DEF all
<1>3. /\ pass' \in Pass /\ faults' \in 0..MaxFaults /\ done \subseteq all
      /\ \/ /\ done = all /\ pass'.pc = "tip"
            /\ pass'.watched = pass.watched /\ pass'.block = pass.block
         \/ Fault /\ pass' = NoPass
  BY <1>0, StatementsShape DEF Stage, TypeInv
<1>4. TypeInv'
  BY <1>0, <1>1, <1>2, <1>3, StoreFields, IngestLeaves, IngestKeeps
<1> QED
  BY <1>0, <1>2, <1>3, <1>4, NoPassTyped DEF all

(* set_synced_tip moves the cursor on to the block in hand.                *)
LEMMA TipStep ==
  ASSUME TypeInv, SetTip
  PROVE  /\ TypeInv' /\ UNCHANGED <<blocks, utxos, undoing>> /\ pass.pc = "tip" /\ InBlock
         /\ pass'.pc = "scan" /\ pass'.watched = pass.watched
         /\ cursor'.h = cursor.h + 1 /\ cursor'.id = pass.block.id
<1>0. /\ UNCHANGED <<utxos, blocks, undoing, faults>>
      /\ pass.pc = "tip" /\ InBlock /\ Goto("scan")
      /\ cursor' = [h |-> cursor.h + 1, id |-> pass.block.id]
  BY DEF SetTip, InBlock
<1>1. pass' \in Pass /\ pass'.pc = "scan" /\ pass'.watched = pass.watched
  BY <1>0, StoreFields, GotoShape DEF Stage
<1>2. cursor.h + 1 \in 0..MaxBlocks
  BY <1>0, StoreFields DEF TypeInv
<1>3. pass.block.id \in 0..MaxBlocks
  <2>1. pass.block \in Block \/ pass.block = Genesis
    BY StoreFields, PassFields
  <2> QED
    BY <2>1, StoreFields DEF Block, Genesis, Heights
<1>4. cursor' \in [h : 0..MaxBlocks, id : 0..MaxBlocks]
  BY <1>0, <1>2, <1>3
<1>5. TypeInv'
  BY <1>0, <1>1, <1>4, StoreFields, IngestLeaves, IngestKeeps
<1> QED
  BY <1>0, <1>1, <1>5

(* Every step keeps the type invariant.                                    *)
LEMMA TypeStep == TypeInv /\ [Next]_vars => TypeInv'
<1> SUFFICES ASSUME TypeInv, [Next]_vars PROVE TypeInv'
  OBVIOUS
<1>0. TypeOK
  BY DEF TypeInv
<1>s. TypeOK' /\ UNCHANGED <<chain, mined, cursor, pass>> => TypeInv'
  BY DEF TypeInv, InBlock
<1>1. CASE NetStep
  BY <1>1, NetTyped
<1>2. ASSUME NEW v \in Versions, RecordVersion(v) PROVE TypeInv'
  <2>1. TypeOK'
    BY <1>0, <1>2 DEF RecordVersion, TypeOK, netVars, storeVars, sendVars
  <2> QED
    BY <1>s, <1>2, <2>1 DEF RecordVersion, netVars, storeVars
<1>3. ASSUME NEW s \in Senders, Send(s) PROVE TypeInv'
  BY <1>0, <1>s, <1>3, SendTyped DEF storeVars
<1>4. CASE UNCHANGED vars
  <2>1. TypeOK'
    BY <1>0, <1>4 DEF vars, TypeOK, netVars, storeVars, sendVars
  <2> QED
    BY <1>s, <1>4, <2>1 DEF vars, netVars, storeVars
<1>5. ASSUME NEW done \in SUBSET Coins, CaptureUtxos(done) PROVE TypeInv'
  BY <1>5, CaptureStep
<1>6. ASSUME NEW done \in SUBSET Coins, MarkSpent(done) PROVE TypeInv'
  BY <1>6, MarkStep
<1>7. CASE LoadVersions \/ CheckTip \/ DropUtxos \/ UnspendUtxos \/ DropBlocks
           \/ ResetCursor \/ StoreBlock \/ SetTip \/ PassFails
  BY <1>7, LoadStep, CheckStep, DropUtxosStep, UnspendStep, DropBlocksStep, ResetStep,
     StoreStep, TipStep, FailStep
<1> QED
  BY <1>1, <1>2, <1>3, <1>4, <1>5, <1>6, <1>7, Steps

(* It holds at first.                                                      *)
LEMMA TypeInit == Init => TypeInv
<1> SUFFICES ASSUME Init PROVE TypeInv
  OBVIOUS
<1>1. MaxBlocks \in Nat /\ MaxReorgs \in Nat /\ MaxFaults \in Nat
  BY IngestAssumption
<1>2. chain \in Seq(Block) /\ Len(chain) = 0 /\ mined = 0 /\ pass.pc = "idle"
  BY NoPassTyped DEF Init
<1>3. TypeOK
  <2>1. blocks \in [Heights -> 0..MaxBlocks]
    BY <1>1 DEF Init
  <2>2. cursor \in [h : 0..MaxBlocks, id : 0..MaxBlocks]
    BY <1>1 DEF Init, NoTip
  <2>3. utxos \in [Coins -> [h : 0..MaxBlocks, spent : 0..MaxBlocks]]
    BY <1>1 DEF Init, NoRow
  <2>4. send \in [Senders -> [pc : {"idle", "broadcast", "insert"}, coins : SUBSET Coins]]
    BY DEF Init, NoSend
  <2>5. pass \in Pass /\ stale = {} /\ undoing \in BOOLEAN
    BY NoPassTyped DEF Init
  <2> QED
    BY <1>1, <1>2, <2>1, <2>2, <2>3, <2>4, <2>5 DEF Init, TypeOK
<1> QED
  BY <1>2, <1>3 DEF TypeInv, InBlock

(* The type invariant, whatever is reorganised, recorded late or cut       *)
(* short: the fork, the highest stored block and the cursor are heights.   *)
THEOREM IngestTypeCorrect == Spec => []TypeOK
<1>1. TypeInv => TypeOK
  BY DEF TypeInv
<1> QED
  BY TypeInit, TypeStep, <1>1, PTL DEF Spec
-----------------------------------------------------------------------------
(* The sends and PaymentLedger.                                            *)

LiveSpends == pool.spends \cup SpendsOf(chain)

(* A block of a branch was on a branch before, or is new.                  *)
LEMMA GrownBlock ==
  ASSUME TypeOK, NEW base \in Seq(Block), Grows(base), NEW B \in Branches', NEW i \in 1..Len(B)
  PROVE  \/ B \in Branches
         \/ B = chain' /\ i <= Len(base) /\ B[i] = base[i]
            /\ \E A \in Branches : i \in 1..Len(A) /\ B[i] = A[i]
         \/ B = chain' /\ i > Len(base)
<1>1. stale' \subseteq Branches /\ Prefix(base, chain')
  BY DEF Grows
<1>2. B \in stale' \/ B = chain'
  BY DEF Branches
<1>3. Len(base) \in Nat
  BY LenProperties
<1>4. CASE B = chain' /\ i <= Len(base)
  <2>1. PICK A \in Branches : Prefix(base, A)
    BY DEF Grows, Trail
  <2>2. Len(A) \in Nat
    BY Fields
  <2>3. chain' \in Seq(Block) /\ Len(chain') \in Nat
    BY LenProperties DEF Grows
  <2>4. i \in Nat /\ i >= 1
    BY <1>4, <2>3
  <2>5. i \in 1..Len(base) /\ i \in 1..Len(A)
    BY <1>3, <1>4, <2>1, <2>2, <2>4 DEF Prefix
  <2>6. B[i] = base[i] /\ B[i] = A[i]
    BY <1>1, <1>4, <2>1, <2>5 DEF Prefix
  <2> QED
    BY <1>4, <2>1, <2>5, <2>6
<1>5. CASE B = chain' /\ ~(i <= Len(base))
  <2>1. chain' \in Seq(Block) /\ Len(chain') \in Nat
    BY LenProperties DEF Grows
  <2> QED
    BY <1>3, <1>5, <2>1
<1>6. i <= Len(base) \/ ~(i <= Len(base))
  OBVIOUS
<1> QED
  BY <1>1, <1>2, <1>4, <1>5, <1>6, Zenon

(* A mined block takes spends from the mempool to the chain.               *)
LEMMA MineLive ==
  ASSUME TypeInv, NEW P \in SUBSET pool.pays, NEW S \in SUBSET pool.spends, Mine(P, S)
  PROVE  LiveSpends' = LiveSpends
<1>0. TypeOK /\ chain \in Seq(Block) /\ Len(chain) \in Nat
  BY Fields DEF TypeInv
<1>1. /\ chain' \in Seq(Block) /\ Len(chain') = Len(chain) + 1
      /\ \A k \in 1..Len(chain) : chain'[k] = chain[k]
      /\ chain'[Len(chain) + 1].spends = S
  BY MineGrows DEF Grows, Prefix
<1>2. pool'.spends = pool.spends \ S
  BY DEF Mine
<1>3. SpendsOf(chain') = SpendsOf(chain) \cup S
  <2>1. \A i : i \in 1..Len(chain') <=> i \in 1..Len(chain) \/ i = Len(chain) + 1
    BY <1>0, <1>1
  <2>2. \A x : x \in SpendsOf(chain') <=> x \in SpendsOf(chain) \/ x \in S
    BY <1>0, <1>1, <2>1, OnBranch
  <2> QED
    BY <2>2
<1> QED
  BY <1>2, <1>3 DEF LiveSpends, SpendsOf

(* What a request broadcasts is none of the spends that stand.             *)
LEMMA FreshSpend ==
  ASSUME NEW C, C # {}, Spendable(C), ~Replaces
  PROVE  C \notin LiveSpends /\ \A x \in LiveSpends : x \cap C = {}
BY DEF Spendable, LiveSpends

(* A request chooses something to spend.                                   *)
LEMMA SelectSome ==
  ASSUME TypeOK, NEW s \in Senders, Send(s)
  PROVE  \/ \E C \in SUBSET Coins : C # {} /\ Select(s, C)
         \/ Broadcast(s) \/ InsertLedger(s)
<1>1. ASSUME NEW w \in Wallets, sweep_to(s, w)
      PROVE  \E C \in SUBSET Coins : C # {} /\ Select(s, C)
  BY <1>1 DEF sweep_to, Unspent
<1>2. ASSUME NEW w \in Wallets, NEW C \in SUBSET Coins,
             \/ build_sign_and_broadcast(s, w, C)
             \/ build_sign_and_broadcast_asset(s, w, C)
             \/ build_sign_and_broadcast_asset_max(s, w, C)
      PROVE  C # {} /\ Select(s, C)
  BY <1>2 DEF build_sign_and_broadcast, build_sign_and_broadcast_asset,
     build_sign_and_broadcast_asset_max
<1> QED
  BY <1>1, <1>2 DEF Send

(* The sends of a request.                                                 *)
LEMMA SendsKept ==
  ASSUME TypeOK, SendsAccepted, NEW s \in Senders, Send(s)
  PROVE  SendsAccepted'
<1>0. send \in [Senders -> [pc : {"idle", "broadcast", "insert"}, coins : SUBSET Coins]]
  BY DEF TypeOK
<1>1. ASSUME NEW C \in SUBSET Coins, C # {}, Select(s, C) PROVE SendsAccepted'
  <2>1. send'[s] = [pc |-> "broadcast", coins |-> C] /\ shipped' = shipped
        /\ \A u \in Senders : u # s => send'[u] = send[u]
    BY <1>0, <1>1 DEF Select
  <2> QED
    BY <1>1, <2>1 DEF SendsAccepted
<1>2. CASE Broadcast(s)
  <2>1. shipped \subseteq shipped' /\ \A u \in Senders : u # s => send'[u] = send[u]
    BY <1>0, <1>2 DEF Broadcast
  <2>2. \/ send'[s].pc = "insert" /\ send'[s].coins = send[s].coins /\ send[s].coins \in shipped'
        \/ send'[s].pc = "idle"
    BY <1>0, <1>2 DEF Broadcast, NoSend
  <2> QED
    BY <2>1, <2>2 DEF SendsAccepted
<1>3. CASE InsertLedger(s)
  <2>1. shipped' = shipped /\ send'[s].pc = "idle" /\ \A u \in Senders : u # s => send'[u] = send[u]
    BY <1>0, <1>3 DEF InsertLedger, NoSend
  <2> QED
    BY <2>1 DEF SendsAccepted
<1> QED
  BY <1>1, <1>2, <1>3, SelectSome

(* Spends come to the chain and to the mempool from there.                 *)
LEMMA ShippedKept ==
  ASSUME TypeInv, SpendsShipped, NetStep
  PROVE  SpendsShipped'
<1>0. TypeOK /\ shipped' = shipped /\ chain \in Seq(Block)
  BY NetTyped, Fields DEF TypeInv, sendVars
<1>1. ASSUME NEW c \in Coins, Pay(c) PROVE SpendsShipped'
  <2>1. pool'.spends = pool.spends /\ UNCHANGED <<chain, stale>>
    BY <1>0, <1>1, PoolTyped DEF Pay
  <2> QED
    BY <1>0, <2>1 DEF SpendsShipped, Branches
<1>2. ASSUME NEW P \in SUBSET pool.pays, NEW S \in SUBSET pool.spends, Mine(P, S)
      PROVE  SpendsShipped'
  <2>1. Grows(chain) /\ chain'[Len(chain) + 1].spends = S
    BY <1>2, MineGrows
  <2>2. pool'.spends \subseteq shipped
    BY <1>2 DEF Mine, SpendsShipped
  <2>3. ASSUME NEW B \in Branches', NEW i \in 1..Len(B) PROVE B[i].spends \subseteq shipped
    <3>1. CASE B = chain' /\ i > Len(chain)
      <4>1. Len(chain') = Len(chain) + 1 /\ Len(chain) \in Nat
        BY <1>0, <2>1, Fields DEF Grows
      <4>2. i = Len(chain) + 1
        BY <2>3, <3>1, <4>1
      <4> QED
        BY <2>1, <3>1, <4>2 DEF SpendsShipped
    <3> QED
      BY <1>0, <2>1, <2>3, <3>1, GrownBlock DEF SpendsShipped
  <2> QED
    BY <1>0, <2>2, <2>3 DEF SpendsShipped
<1>3. ASSUME NEW base \in Bases, NEW P \in SUBSET PaysOf(chain), NEW S \in SUBSET SpendsOf(chain),
             Reorg(base, P, S)
      PROVE  SpendsShipped'
  <2>1. /\ Grows(base) /\ base \in Seq(Block)
        /\ \A k \in 1..Len(chain') : k > Len(base) => chain'[k].spends = {}
    BY <1>0, <1>3, ReorgGrows, BaseTrail
  <2>2. pool'.spends \subseteq shipped
    <3>1. SpendsOf(chain) \subseteq shipped
      BY <1>0, OnBranch DEF SpendsShipped, Branches
    <3> QED
      BY <1>0, <1>3, <3>1, ReorgPool DEF SpendsShipped
  <2>3. ASSUME NEW B \in Branches', NEW i \in 1..Len(B) PROVE B[i].spends \subseteq shipped
    <3>1. CASE B = chain' /\ i > Len(base)
      BY <2>1, <2>3, <3>1
    <3> QED
      BY <1>0, <2>1, <2>3, <3>1, GrownBlock DEF SpendsShipped
  <2> QED
    BY <1>0, <2>2, <2>3 DEF SpendsShipped
<1> QED
  BY <1>1, <1>2, <1>3 DEF NetStep

(* Every step keeps the invariant of the requests and, when the node does  *)
(* not replace, is a step of PaymentLedger or leaves it unchanged.         *)
LEMMA LedgerStep ==
  ~Replaces /\ LedgerInv /\ [Next]_vars => LedgerInv' /\ [Ledger!Next]_(Ledger!ledgerVars)
<1> SUFFICES ASSUME ~Replaces, LedgerInv, [Next]_vars
             PROVE  LedgerInv' /\ [Ledger!Next]_(Ledger!ledgerVars)
  OBVIOUS
<1>0. TypeInv /\ TypeOK /\ SendsAccepted /\ SpendsShipped /\ TypeInv'
  BY TypeStep DEF LedgerInv, TypeInv
<1>s. UNCHANGED <<send, shipped>> => SendsAccepted'
  BY <1>0 DEF SendsAccepted
<1>p. UNCHANGED <<pool, chain, stale, shipped>> => SpendsShipped'
  BY <1>0 DEF SpendsShipped, Branches
<1>u. LiveSpends' = LiveSpends /\ UNCHANGED <<shipped, ledger>> =>
        [Ledger!Next]_(Ledger!ledgerVars)
  BY DEF Ledger!ledgerVars, LiveSpends
<1>v. UNCHANGED <<pool, chain>> => LiveSpends' = LiveSpends
  BY DEF LiveSpends
<1>i. SendsAccepted' /\ SpendsShipped' => LedgerInv'
  BY <1>0 DEF LedgerInv
<1>1. CASE NetStep
  <2>0. UNCHANGED <<send, shipped, ledger>> /\ SpendsShipped'
    BY <1>0, <1>1, NetTyped, ShippedKept DEF sendVars
  <2>1. ASSUME NEW c \in Coins, Pay(c) PROVE LiveSpends' = LiveSpends
    <3>1. pool'.spends = pool.spends /\ chain' = chain
      BY <1>0, <2>1, PoolTyped DEF Pay
    <3> QED
      BY <3>1 DEF LiveSpends
  <2>2. ASSUME NEW P \in SUBSET pool.pays, NEW S \in SUBSET pool.spends, Mine(P, S)
        PROVE  LiveSpends' = LiveSpends
    BY <1>0, <2>2, MineLive
  <2>3. ASSUME NEW base \in Bases, NEW P \in SUBSET PaysOf(chain), NEW S \in SUBSET SpendsOf(chain),
               Reorg(base, P, S)
        PROVE  [Ledger!Next]_(Ledger!ledgerVars)
    <3>1. PICK L : L = LiveSpends'
      OBVIOUS
    <3>2. L \in SUBSET shipped
      <4>1. chain' \in Seq(Block) /\ chain' \in Branches'
        BY <1>0 DEF TypeInv, TypeOK, Branches
      <4>2. SpendsOf(chain') \subseteq shipped'
        BY <2>0, <4>1, OnBranch DEF SpendsShipped
      <4>3. pool'.spends \subseteq shipped'
        BY <2>0 DEF SpendsShipped
      <4> QED
        BY <2>0, <3>1, <4>2, <4>3 DEF LiveSpends, SpendsOf
    <3>3. Ledger!Reorganise(L)
      BY <2>0, <3>1 DEF Ledger!Reorganise, LiveSpends
    <3> QED
      BY <3>2, <3>3 DEF Ledger!Next
  <2> QED
    BY <1>1, <1>s, <1>u, <1>i, <2>0, <2>1, <2>2, <2>3 DEF NetStep
<1>2. ASSUME NEW v \in Versions, RecordVersion(v)
      PROVE  UNCHANGED <<pool, chain, stale, send, shipped, ledger>>
  BY <1>2 DEF RecordVersion, netVars, sendVars
<1>3. CASE UNCHANGED vars
  BY <1>s, <1>p, <1>u, <1>v, <1>i, <1>3 DEF vars, netVars, sendVars
<1>4. ASSUME NEW s \in Senders, Send(s)
      PROVE  SpendsShipped' /\ [Ledger!Next]_(Ledger!ledgerVars)
  <2>s. UNCHANGED <<chain, stale>>
    BY <1>0, <1>4, SendTyped
  <2>1. CASE \E C \in SUBSET Coins : C # {} /\ Select(s, C)
    BY <1>p, <1>u, <1>v, <2>s, <2>1 DEF Select, netVars
  <2>2. CASE Broadcast(s)
    <3>c. PICK C : C = send[s].coins
      OBVIOUS
    <3>0. C \in SUBSET Coins /\ C # {} /\ UNCHANGED <<chain, ledger>>
      BY <1>0, <2>2, <3>c DEF Broadcast, SendsAccepted, TypeOK
    <3>1. CASE Spendable(C) /\ pool' = Taken(C) /\ shipped' = shipped \cup {C}
      <4>1. C \notin LiveSpends /\ \A x \in pool.spends : x \cap C = {}
        BY <3>0, <3>1, FreshSpend DEF LiveSpends
      <4>2. pool'.spends = pool.spends \cup {C}
        <5>1. pool'.spends = {x \in pool.spends : x \cap C = {}} \cup {C}
          BY <1>0, <3>0, <3>1, PoolTyped
        <5> QED
          BY <4>1, <5>1
      <4>3. LiveSpends' = LiveSpends \cup {C}
        BY <3>0, <4>2 DEF LiveSpends, SpendsOf
      <4>4. Ledger!Accept(C)
        BY <3>0, <3>1, <4>1, <4>3 DEF Ledger!Accept, LiveSpends
      <4>5. SpendsShipped'
        BY <1>0, <2>s, <3>1, <4>2 DEF SpendsShipped, Branches
      <4> QED
        BY <3>0, <4>4, <4>5 DEF Ledger!Next
    <3>2. CASE UNCHANGED <<pool, shipped>>
      BY <1>p, <1>u, <1>v, <2>s, <3>0, <3>2
    <3> QED
      BY <2>2, <3>c, <3>1, <3>2 DEF Broadcast
  <2>3. CASE InsertLedger(s)
    <3>c. PICK C : C = send[s].coins
      OBVIOUS
    <3>0. C \in SUBSET Coins /\ C \in shipped /\ UNCHANGED <<pool, chain, shipped>>
      BY <1>0, <2>3, <3>c DEF InsertLedger, SendsAccepted, TypeOK, netVars
    <3>1. CASE ledger' = ledger \cup {C}
      <4>1. Ledger!Record(C)
        BY <3>0, <3>1 DEF Ledger!Record, LiveSpends
      <4> QED
        BY <1>p, <2>s, <3>0, <4>1 DEF Ledger!Next
    <3>2. CASE ledger' = ledger
      BY <1>p, <1>u, <1>v, <2>s, <3>0, <3>2
    <3> QED
      BY <2>3, <3>c, <3>1, <3>2 DEF InsertLedger
  <2> QED
    BY <1>0, <1>4, <2>1, <2>2, <2>3, SelectSome
<1>5. ASSUME NEW s \in Senders, Send(s) PROVE SendsAccepted'
  BY <1>0, <1>5, SendsKept
<1>6. CASE \/ LoadVersions \/ CheckTip \/ DropUtxos \/ UnspendUtxos \/ DropBlocks
           \/ ResetCursor \/ StoreBlock \/ SetTip
           \/ \E done \in SUBSET Coins : CaptureUtxos(done)
           \/ \E done \in SUBSET Coins : MarkSpent(done)
           \/ PassFails
  BY <1>s, <1>p, <1>u, <1>v, <1>i, <1>6, IngestLeaves
<1> QED
  BY <1>s, <1>p, <1>u, <1>v, <1>i, <1>1, <1>2, <1>3, <1>4, <1>5, <1>6, Steps

(* The Elements sends implement PaymentLedger for any number of requests,  *)
(* also when two of them chose the same captured coins: a node that does   *)
(* not replace takes one of them, and only what it took is written to      *)
(* elements_transactions.                                                  *)
THEOREM IngestImplementsLedger == ~Replaces /\ Spec => ImplementsLedger
<1>1. Init => LedgerInv /\ Ledger!Init
  <2> SUFFICES ASSUME Init PROVE LedgerInv /\ Ledger!Init
    OBVIOUS
  <2>1. SendsAccepted
    BY DEF Init, SendsAccepted, NoSend
  <2>2. Len(chain) = 0 /\ pool.spends = {} /\ shipped = {} /\ ledger = {} /\ stale = {}
    BY DEF Init
  <2>3. Ledger!Init
    BY <2>2 DEF Ledger!Init, SpendsOf
  <2>4. SpendsShipped
    BY <2>2 DEF SpendsShipped, Branches
  <2> QED
    BY <2>1, <2>3, <2>4, TypeInit DEF LedgerInv
<1>2. ~Replaces /\ Spec => Ledger!Init /\ [][Ledger!Next]_(Ledger!ledgerVars)
  <2>1. CASE ~Replaces
    BY <1>1, <2>1, LedgerStep, PTL DEF Spec
  <2> QED
    BY <2>1
<1> QED
  BY <1>2 DEF ImplementsLedger, Ledger!Spec
-----------------------------------------------------------------------------
(* The network keeps its own rules.                                        *)

(* What holds of the branches holds of a trail.                            *)
LEMMA TrailSound ==
  ASSUME TypeOK, NetInv, NEW U, Trail(U)
  PROVE  /\ U \in Seq(Block) /\ Len(U) \in Nat /\ Len(U) <= Len(chain) /\ Sound(U)
         /\ \A i \in 1..Len(U) : U[i].id \in 1..MaxBlocks /\ U[i].id <= mined
         /\ \A B \in Branches : Agree(U, B)
<1>1. PICK A \in Branches : Prefix(U, A)
  BY DEF Trail
<1>2. U \in Seq(Block) /\ Len(U) \in Nat /\ Len(A) \in Nat /\ Len(U) <= Len(A)
      /\ Len(A) <= Len(chain) /\ Len(chain) \in Nat
  BY <1>1, LenProperties, Fields DEF Trail, Prefix
<1>3. \A i \in 1..Len(U) : i \in 1..Len(A) /\ U[i] = A[i]
  BY <1>1, <1>2 DEF Prefix
<1>4. \A i \in 1..Len(U) : \A k \in 1..i : k \in 1..Len(U)
  BY <1>2
<1>5. Sound(A) /\ \A i \in 1..Len(A) : A[i].id <= mined
  BY <1>1 DEF NetInv, IdsKnown
<1>6. PaysOnce(U)
  BY <1>3, <1>5 DEF Sound, PaysOnce
<1>7. SpendsOnce(U)
  BY <1>3, <1>5 DEF Sound, SpendsOnce
<1>8. PaidFirst(U)
  <2>1. ASSUME NEW i \in 1..Len(U), NEW x \in U[i].spends, NEW c \in x
        PROVE  \E j \in 1..i : c \in U[j].pays
    <3>1. PICK j \in 1..i : c \in A[j].pays
      BY <1>3, <1>5, <2>1 DEF Sound, PaidFirst
    <3> QED
      BY <1>3, <1>4, <3>1
  <2> QED
    BY <2>1 DEF PaidFirst
<1>9. ASSUME NEW B \in Branches PROVE Agree(U, B)
  <2>1. Agree(A, B)
    BY <1>1 DEF NetInv, Tree
  <2>2. ASSUME NEW i \in 1..Len(U), NEW j \in 1..Len(B), U[i].id = B[j].id
        PROVE  i = j /\ \A k \in 1..i : U[k] = B[k]
    <3>1. i = j /\ \A k \in 1..i : A[k] = B[k]
      BY <1>3, <2>1, <2>2 DEF Agree
    <3> QED
      BY <1>3, <1>4, <3>1
  <2> QED
    BY <2>2 DEF Agree
<1>10. \A i \in 1..Len(U) : U[i].id \in 1..MaxBlocks
  BY <1>2, BlockFields
<1>11. Len(U) <= Len(chain)
  BY <1>2
<1> QED
  BY <1>2, <1>3, <1>5, <1>6, <1>7, <1>8, <1>9, <1>10, <1>11 DEF Sound

(* Every branch is a trail.                                                *)
LEMMA BranchTrail ==
  ASSUME TypeOK, NEW B \in Branches
  PROVE  Trail(B)
<1>1. B \in Seq(Block) /\ Len(B) \in Nat
  BY Fields
<1>2. Prefix(B, B)
  BY <1>1 DEF Prefix
<1> QED
  BY <1>1, <1>2 DEF Trail

(* A trail stays one when blocks are added somewhere.                      *)
LEMMA TrailGrows ==
  ASSUME TypeOK, NEW base \in Seq(Block), Grows(base), NEW U, Trail(U)
  PROVE  Trail(U)'
<1>1. PICK A \in Branches : Prefix(U, A)
  BY DEF Trail
<1>2. U \in Seq(Block)
  BY DEF Trail
<1>3. CASE A \in Branches'
  BY <1>1, <1>2, <1>3 DEF Trail
<1>4. CASE A = chain /\ base = chain
  <2>1. Prefix(chain, chain') /\ Prefix(U, chain)
    BY <1>1, <1>4 DEF Grows
  <2>2. Len(U) \in Nat /\ Len(chain) \in Nat /\ Len(chain') \in Nat
    BY <1>2, Fields, LenProperties DEF Grows
  <2>3. Prefix(U, chain')
    BY <2>1, <2>2 DEF Prefix
  <2>4. chain' \in Branches'
    BY DEF Branches
  <2> QED
    BY <1>2, <2>3, <2>4 DEF Trail
<1>5. A \in Branches' \/ (A = chain /\ base = chain)
  BY <1>1 DEF Grows, Branches
<1> QED
  BY <1>3, <1>4, <1>5

(* A block on the new chain that was known is on the base.                 *)
LEMMA KnownOnBase ==
  ASSUME TypeOK, NEW base \in Seq(Block), Grows(base), NEW j \in 1..Len(chain'), chain'[j].id <= mined
  PROVE  j \in 1..Len(base) /\ chain'[j] = base[j] /\ \A k \in 1..j : k \in 1..Len(base) /\ chain'[k] = base[k]
<1>1. Len(base) \in Nat /\ Len(chain') \in Nat /\ mined \in Nat
  BY LenProperties, Fields DEF Grows
<1>2. j <= Len(base)
  <2>1. j > Len(base) => chain'[j].id = mined + (j - Len(base))
    BY DEF Grows
  <2> QED
    BY <1>1, <2>1
<1>3. \A k \in 1..Len(base) : chain'[k] = base[k]
  BY DEF Grows, Prefix
<1> QED
  BY <1>1, <1>2, <1>3

(* New blocks keep the tree, since their ids are new.                      *)
LEMMA TreeGrows ==
  ASSUME TypeOK, NetInv, NEW base \in Seq(Block), Grows(base)
  PROVE  Tree' /\ IdsKnown'
<1>0. Len(base) \in Nat /\ Len(chain') \in Nat /\ mined \in Nat /\ chain' \in Seq(Block)
      /\ Len(base) < Len(chain') /\ Len(chain) \in Nat
  BY LenProperties, Fields DEF Grows
<1>1. Trail(base)
  BY DEF Grows
<1>2. ASSUME NEW A \in Branches PROVE Agree(A, chain') /\ Agree(chain', A)
  <2>0. Agree(base, A)
    BY <1>1, <1>2, TrailSound
  <2>1. ASSUME NEW i \in 1..Len(A), NEW j \in 1..Len(chain'), A[i].id = chain'[j].id
        PROVE  i = j /\ \A k \in 1..i : A[k] = chain'[k]
    <3>1. A[i].id <= mined
      BY <1>2, <2>1 DEF NetInv, IdsKnown
    <3>2. j \in 1..Len(base) /\ chain'[j] = base[j] /\ \A k \in 1..j : chain'[k] = base[k]
      BY <2>1, <3>1, KnownOnBase
    <3>3. j = i /\ \A k \in 1..j : base[k] = A[k]
      BY <2>0, <2>1, <3>2 DEF Agree
    <3> QED
      BY <3>2, <3>3
  <2> QED
    BY <2>1 DEF Agree
<1>3. Agree(chain', chain')
  <2>1. ASSUME NEW i \in 1..Len(chain'), NEW j \in 1..Len(chain'), chain'[i].id = chain'[j].id
        PROVE  i = j
    <3>i. i > Len(base) => chain'[i].id = mined + (i - Len(base))
      BY DEF Grows
    <3>j. j > Len(base) => chain'[j].id = mined + (j - Len(base))
      BY DEF Grows
    <3>1. CASE i > Len(base) /\ j > Len(base)
      BY <1>0, <2>1, <3>i, <3>j, <3>1
    <3>2. CASE i <= Len(base) \/ j <= Len(base)
      <4>1. \A k \in 1..Len(base) : chain'[k] = base[k] /\ base[k].id <= mined
        BY <1>1, TrailSound DEF Grows, Prefix
      <4>2. chain'[i].id <= mined
        BY <1>0, <2>1, <3>2, <4>1
      <4>3. i \in 1..Len(base) /\ j \in 1..Len(base) /\ base[i].id = base[j].id
        BY <2>1, <4>2, KnownOnBase
      <4>4. PICK A \in Branches : Prefix(base, A)
        BY <1>1 DEF Trail
      <4>5. Agree(A, A) /\ Len(A) \in Nat
        BY <4>4, Fields DEF NetInv, Tree
      <4>6. i \in 1..Len(A) /\ j \in 1..Len(A) /\ A[i].id = A[j].id
        BY <1>0, <4>3, <4>4, <4>5 DEF Prefix
      <4> QED
        BY <4>5, <4>6 DEF Agree
    <3> QED
      BY <1>0, <3>1, <3>2
  <2> QED
    BY <2>1 DEF Agree
<1>4. Branches' \subseteq Branches \cup {chain'}
  BY DEF Grows, Branches
<1>5. Tree'
  <2>1. ASSUME NEW A \in Branches', NEW B \in Branches' PROVE Agree(A, B)
    BY <1>2, <1>3, <1>4 DEF NetInv, Tree
  <2> QED
    BY <2>1 DEF Tree, Agree
<1>6. IdsKnown'
  <2>0. mined' = mined + (Len(chain') - Len(base)) /\ mined' \in Nat /\ mined <= mined'
    BY <1>0 DEF Grows
  <2>1. ASSUME NEW B \in Branches', NEW i \in 1..Len(B) PROVE B[i].id <= mined'
    <3>1. CASE B = chain' /\ i > Len(base)
      <4>1. B[i].id = mined + (i - Len(base))
        BY <2>1, <3>1 DEF Grows
      <4> QED
        BY <1>0, <2>0, <2>1, <3>1, <4>1
    <3>2. ASSUME NEW A \in Branches, NEW k \in 1..Len(A) PROVE A[k].id <= mined'
      <4>1. A[k].id <= mined /\ A[k].id \in 1..MaxBlocks
        BY <3>2, Fields, BlockFields DEF NetInv, IdsKnown
      <4> QED
        BY <1>0, <2>0, <4>1
    <3> QED
      BY <2>1, <3>1, <3>2, GrownBlock
  <2> QED
    BY <2>1 DEF IdsKnown
<1> QED
  BY <1>5, <1>6
(* Neither chain nor mempool change, or only a version is recorded.        *)
LEMMA NetStays ==
  ASSUME NetInv, UNCHANGED <<chain, stale, pool, paid, mined>>, recorded \subseteq recorded'
  PROVE  NetInv'
<1>1. Branches' = Branches
  BY DEF Branches
<1>2. IdsKnown' /\ Tree' /\ PoolApart' /\ PaysRecorded'
  BY <1>1 DEF NetInv, IdsKnown, Tree, Agree, PoolApart, PaysRecorded
<1>3. \A B \in Branches' : Sound(B)'
  BY <1>1 DEF NetInv, Sound, PaysOnce, SpendsOnce, PaidFirst
<1> QED
  BY <1>2, <1>3 DEF NetInv

(* A payment to an address of a recorded version.                          *)
LEMMA PayNet ==
  ASSUME TypeOK, NetInv, NEW c \in Coins, Pay(c)
  PROVE  NetInv'
<1>0. /\ c \notin paid /\ owner[c] \in recorded /\ paid' = paid \cup {c} /\ recorded' = recorded
      /\ UNCHANGED <<chain, stale, mined>> /\ pool'.pays = pool.pays \cup {c}
      /\ pool'.spends = pool.spends
  BY PoolTyped DEF Pay
<1>1. Branches' = Branches /\ chain \in Branches
  BY <1>0 DEF Branches
<1>2. IdsKnown' /\ Tree' /\ PaysRecorded'
  BY <1>0, <1>1 DEF NetInv, IdsKnown, Tree, Agree, PaysRecorded
<1>3. ASSUME NEW B \in Branches PROVE Sound(B)'
  <2>1. Sound(B)
    BY DEF NetInv
  <2> QED
    BY <1>0, <2>1 DEF Sound, PaysOnce, SpendsOnce, PaidFirst
<1>4. PoolApart'
  <2>1. \A i \in 1..Len(chain) : chain[i].pays \subseteq paid
    BY <1>1 DEF NetInv, Sound, PaysOnce
  <2>2. PoolApart
    BY DEF NetInv
  <2>3. \A i \in 1..Len(chain) : chain[i].pays \cap pool'.pays = {}
    BY <1>0, <2>1, <2>2 DEF PoolApart
  <2>4. pool'.pays \subseteq paid'
    BY <1>0, <2>2 DEF PoolApart
  <2> QED
    BY <1>0, <2>2, <2>3, <2>4 DEF PoolApart
<1> QED
  BY <1>1, <1>2, <1>3, <1>4 DEF NetInv

(* A block takes payments and spends out of the mempool, and what it       *)
(* spends is paid in it or below.                                          *)
LEMMA MineNet ==
  ASSUME TypeInv, NetInv, NEW P \in SUBSET pool.pays, NEW S \in SUBSET pool.spends, Mine(P, S)
  PROVE  NetInv'
<1> DEFINE m == Len(chain)
<1>0. TypeOK /\ chain \in Seq(Block) /\ m \in Nat /\ chain \in Branches
  BY Fields DEF TypeInv, Branches
<1>1. /\ Grows(chain) /\ Len(chain') = m + 1 /\ \A k \in 1..m : chain'[k] = chain[k]
      /\ chain'[m + 1].pays = P /\ chain'[m + 1].spends = S
  BY MineGrows DEF Grows, Prefix
<1>2. /\ pool'.pays = pool.pays \ P /\ pool'.spends = pool.spends \ S
      /\ UNION S \subseteq PaysOf(chain) \cup P /\ UNCHANGED <<paid, recorded, stale>>
  BY DEF Mine
<1> HIDE DEF m
<1>3. \A i : i \in 1..Len(chain') <=> i \in 1..m \/ i = m + 1
  BY <1>0, <1>1
<1>4. m + 1 \notin 1..m
  BY <1>0
<1>5. PoolApart /\ PaysOnce(chain) /\ SpendsOnce(chain) /\ PaidFirst(chain)
  BY <1>0 DEF NetInv, Sound
<1>6. PaysOnce(chain')
  <2>1. \A i \in 1..m : chain[i].pays \subseteq paid /\ chain[i].pays \cap P = {}
    BY <1>5 DEF PoolApart, PaysOnce, m
  <2>2. P \subseteq paid
    BY <1>5 DEF PoolApart
  <2>3. \A i, j \in 1..m : i # j => chain[i].pays \cap chain[j].pays = {}
    BY <1>5 DEF PaysOnce, m
  <2> QED
    BY <1>1, <1>3, <1>4, <2>1, <2>2, <2>3 DEF PaysOnce
<1>7. SpendsOnce(chain')
  <2>1. \A i \in 1..m : \A x \in chain[i].spends : \A y \in S : x \cap y = {} /\ y \cap x = {}
    BY <1>5 DEF PoolApart, m
  <2>2. \A x, y \in S : x # y => x \cap y = {}
    BY <1>5 DEF PoolApart
  <2>3. \A i, j \in 1..m : \A x \in chain[i].spends : \A y \in chain[j].spends :
          i # j \/ x # y => x \cap y = {}
    BY <1>5 DEF SpendsOnce, m
  <2>4. ASSUME NEW i \in 1..Len(chain'), NEW x \in chain'[i].spends,
               NEW j \in 1..Len(chain'), NEW y \in chain'[j].spends, i # j \/ x # y
        PROVE  x \cap y = {}
    <3>1. CASE i \in 1..m /\ j \in 1..m
      BY <1>1, <2>3, <2>4, <3>1
    <3>2. CASE i \in 1..m /\ j = m + 1
      BY <1>1, <2>1, <2>4, <3>2
    <3>3. CASE i = m + 1 /\ j \in 1..m
      BY <1>1, <2>1, <2>4, <3>3
    <3>4. CASE i = m + 1 /\ j = m + 1
      BY <1>1, <2>2, <2>4, <3>4
    <3> QED
      BY <1>3, <2>4, <3>1, <3>2, <3>3, <3>4
  <2> QED
    BY <2>4 DEF SpendsOnce
<1>8. PaidFirst(chain')
  <2>1. ASSUME NEW i \in 1..m, NEW x \in chain[i].spends, NEW c \in x
        PROVE  \E j \in 1..i : c \in chain'[j].pays
    <3>1. PICK j \in 1..i : c \in chain[j].pays
      BY <1>5, <2>1 DEF PaidFirst, m
    <3>2. j \in 1..m
      BY <1>0, <2>1, <3>1
    <3> QED
      BY <1>1, <3>1, <3>2
  <2>2. ASSUME NEW x \in S, NEW c \in x PROVE \E j \in 1..(m + 1) : c \in chain'[j].pays
    <3>1. c \in P \/ \E j \in 1..m : c \in chain[j].pays
      BY <1>0, <1>2, <2>2, OnBranch DEF m
    <3>2. m + 1 \in 1..(m + 1) /\ \A j \in 1..m : j \in 1..(m + 1)
      BY <1>0
    <3> QED
      BY <1>1, <3>1, <3>2
  <2> QED
    BY <1>1, <1>3, <2>1, <2>2 DEF PaidFirst
<1>9. ASSUME NEW B \in Branches' PROVE Sound(B)'
  <2>1. B \in Branches \/ B = chain'
    BY <1>1 DEF Grows, Branches
  <2>2. Sound(B)
    BY <1>6, <1>7, <1>8, <2>1 DEF NetInv, Sound
  <2> QED
    BY <1>2, <2>2 DEF Sound, PaysOnce, SpendsOnce, PaidFirst
<1>10. PoolApart'
  <2>1. pool'.pays \subseteq paid' /\ \A x, y \in pool'.spends : x # y => x \cap y = {}
    BY <1>2, <1>5 DEF PoolApart
  <2>2. \A i \in 1..Len(chain') : chain'[i].pays \cap pool'.pays = {}
    BY <1>1, <1>2, <1>3, <1>5 DEF PoolApart, m
  <2>3. ASSUME NEW i \in 1..Len(chain'), NEW x \in chain'[i].spends, NEW y \in pool'.spends
        PROVE  x \cap y = {}
    <3>1. y \in pool.spends /\ y \notin S
      BY <1>2, <2>3
    <3>2. CASE i \in 1..m
      BY <1>1, <1>5, <2>3, <3>1, <3>2 DEF PoolApart, m
    <3>3. CASE i = m + 1
      BY <1>1, <1>5, <2>3, <3>1, <3>3 DEF PoolApart
    <3> QED
      BY <1>3, <2>3, <3>2, <3>3
  <2> QED
    BY <2>1, <2>2, <2>3 DEF PoolApart
<1>11. PaysRecorded'
  BY <1>2 DEF NetInv, PaysRecorded
<1>12. Tree' /\ IdsKnown'
  BY <1>0, <1>1, TreeGrows
<1> QED
  BY <1>9, <1>10, <1>11, <1>12 DEF NetInv

(* A reorganisation: the new blocks are empty, and what is queued again    *)
(* conflicts with nothing on the base.                                     *)
LEMMA ReorgNet ==
  ASSUME TypeInv, NetInv, NEW base \in Bases, NEW P \in SUBSET PaysOf(chain),
         NEW S \in SUBSET SpendsOf(chain), Reorg(base, P, S)
  PROVE  NetInv'
<1> DEFINE n == Len(base)
<1>0. TypeOK /\ chain \in Seq(Block) /\ chain \in Branches /\ base \in Seq(Block) /\ n \in Nat
      /\ Trail(base)
  BY Fields, BaseTrail DEF TypeInv, Branches
<1>1. /\ Grows(base) /\ chain' \in Seq(Block) /\ Len(chain') \in Nat /\ n < Len(chain')
      /\ \A k \in 1..n : chain'[k] = base[k]
      /\ \A k \in 1..Len(chain') : k > n => chain'[k].pays = {} /\ chain'[k].spends = {}
  <2>1. Grows(base) /\ \A k \in 1..Len(chain') : k > n => chain'[k].pays = {} /\ chain'[k].spends = {}
    BY ReorgGrows
  <2> HIDE DEF n
  <2>2. chain' \in Seq(Block) /\ Len(chain') = Len(chain) + 1 /\ n <= Len(chain) /\ Len(chain) \in Nat
    BY <1>0, <2>1, Fields DEF Grows, n
  <2> QED
    BY <1>0, <2>1, <2>2 DEF Grows, Prefix, n
<1>2. UNCHANGED <<paid, recorded>>
  BY DEF Reorg
<1> HIDE DEF n
<1>3. \A i \in 1..Len(chain') : i \in 1..n \/ (i > n /\ chain'[i].pays = {} /\ chain'[i].spends = {})
  BY <1>0, <1>1
<1>4. PoolApart /\ Sound(base) /\ Sound(chain)
  BY <1>0, TrailSound DEF NetInv
<1>5. Sound(chain')
  <2>1. PaysOnce(chain')
    BY <1>1, <1>3, <1>4 DEF Sound, PaysOnce, n
  <2>2. SpendsOnce(chain')
    BY <1>1, <1>3, <1>4 DEF Sound, SpendsOnce, n
  <2>3. ASSUME NEW i \in 1..Len(chain'), NEW x \in chain'[i].spends, NEW c \in x
        PROVE  \E j \in 1..i : c \in chain'[j].pays
    <3>1. i \in 1..n /\ x \in base[i].spends
      BY <1>1, <1>3, <2>3
    <3>2. PICK j \in 1..i : c \in base[j].pays
      BY <1>4, <2>3, <3>1 DEF Sound, PaidFirst, n
    <3>3. j \in 1..n
      BY <1>0, <3>1, <3>2
    <3> QED
      BY <1>1, <3>2, <3>3
  <2> QED
    BY <2>1, <2>2, <2>3 DEF Sound, PaidFirst
<1>6. ASSUME NEW B \in Branches' PROVE Sound(B)'
  <2>1. B \in Branches \/ B = chain'
    BY <1>1 DEF Grows, Branches
  <2>2. Sound(B)
    BY <1>5, <2>1 DEF NetInv
  <2> QED
    BY <1>2, <2>2 DEF Sound, PaysOnce, SpendsOnce, PaidFirst
<1>7. PoolApart'
  <2>0. /\ pool'.pays = (pool.pays \cup P) \ PaysOf(base)
        /\ pool'.spends \subseteq pool.spends \cup S
        /\ \A x \in pool'.spends : x \cap UNION SpendsOf(base) = {}
    BY <1>0, ReorgPool
  <2>1. pool'.pays \subseteq paid'
    <3>1. PaysOf(chain) \subseteq paid
      BY <1>0, <1>4, OnBranch DEF Sound, PaysOnce
    <3> QED
      BY <1>2, <1>4, <2>0, <3>1 DEF PoolApart
  <2>2. ASSUME NEW i \in 1..Len(chain') PROVE chain'[i].pays \cap pool'.pays = {}
    <3>1. CASE i \in 1..n
      <4>1. chain'[i].pays \subseteq PaysOf(base)
        BY <1>0, <1>1, <3>1, OnBranch DEF n
      <4> QED
        BY <2>0, <4>1
    <3> QED
      BY <1>3, <2>2, <3>1
  <2>3. ASSUME NEW i \in 1..Len(chain'), NEW x \in chain'[i].spends, NEW y \in pool'.spends
        PROVE  x \cap y = {}
    <3>1. i \in 1..n /\ x \in base[i].spends
      BY <1>1, <1>3, <2>3
    <3>2. x \in SpendsOf(base)
      BY <1>0, <3>1, OnBranch DEF n
    <3> QED
      BY <2>0, <2>3, <3>2
  <2>4. ASSUME NEW x \in pool'.spends, NEW y \in pool'.spends, x # y PROVE x \cap y = {}
    <3>1. ASSUME NEW z \in S PROVE \E i \in 1..Len(chain) : z \in chain[i].spends
      BY <1>0, <3>1, OnBranch
    <3>2. CASE x \in pool.spends /\ y \in pool.spends
      BY <1>4, <2>4, <3>2 DEF PoolApart
    <3>3. CASE x \in S /\ y \in pool.spends
      BY <1>4, <2>4, <3>1, <3>3 DEF PoolApart
    <3>4. CASE x \in pool.spends /\ y \in S
      BY <1>4, <2>4, <3>1, <3>4 DEF PoolApart
    <3>5. CASE x \in S /\ y \in S
      BY <1>4, <2>4, <3>1, <3>5 DEF Sound, SpendsOnce
    <3> QED
      BY <2>0, <2>4, <3>2, <3>3, <3>4, <3>5
  <2> QED
    BY <2>1, <2>2, <2>3, <2>4 DEF PoolApart
<1>8. PaysRecorded'
  BY <1>2 DEF NetInv, PaysRecorded
<1>9. Tree' /\ IdsKnown'
  BY <1>0, <1>1, TreeGrows
<1> QED
  BY <1>6, <1>7, <1>8, <1>9 DEF NetInv

(* A spend is broadcast: it conflicts with nothing on the chain, nor with  *)
(* what it leaves in the mempool.                                          *)
LEMMA SendNet ==
  ASSUME TypeOK, NetInv, NEW s \in Senders, Send(s)
  PROVE  NetInv'
<1>0. UNCHANGED <<chain, stale, paid, mined, recorded>> /\ pool'.pays = pool.pays
  BY SendTyped
<1>1. CASE pool' = pool
  BY <1>0, <1>1, NetStays
<1>2. ASSUME NEW C \in SUBSET Coins, Spendable(C), pool' = Taken(C) PROVE NetInv'
  <2>1. pool'.spends = {x \in pool.spends : x \cap C = {}} \cup {C}
    BY <1>2, PoolTyped
  <2>2. PoolApart /\ chain \in Seq(Block)
    BY Fields DEF NetInv
  <2>3. \A i \in 1..Len(chain) : \A x \in chain[i].spends : x \cap C = {}
    <3>1. \A i \in 1..Len(chain) : \A x \in chain[i].spends : x \in SpendsOf(chain)
      BY <2>2, OnBranch
    <3> QED
      BY <1>2, <3>1 DEF Spendable
  <2>4. \A x, y \in pool'.spends : x # y => x \cap y = {}
    BY <2>1, <2>2 DEF PoolApart
  <2>5. \A i \in 1..Len(chain) : \A x \in chain[i].spends : \A y \in pool'.spends : x \cap y = {}
    BY <2>1, <2>2, <2>3 DEF PoolApart
  <2>6. PoolApart'
    BY <1>0, <2>2, <2>4, <2>5 DEF PoolApart
  <2>7. Branches' = Branches
    BY <1>0 DEF Branches
  <2>8. IdsKnown' /\ Tree' /\ PaysRecorded'
    BY <1>0, <2>7 DEF NetInv, IdsKnown, Tree, Agree, PaysRecorded
  <2>9. \A B \in Branches' : Sound(B)'
    BY <1>0, <2>7 DEF NetInv, Sound, PaysOnce, SpendsOnce, PaidFirst
  <2> QED
    BY <2>6, <2>8, <2>9 DEF NetInv
<1>3. CASE Broadcast(s)
  <2>1. send[s].coins \in SUBSET Coins
    BY DEF TypeOK
  <2> QED
    BY <1>1, <1>2, <1>3, <2>1 DEF Broadcast
<1>4. CASE InsertLedger(s)
  BY <1>1, <1>4 DEF InsertLedger, netVars
<1>5. ASSUME NEW C, Select(s, C) PROVE NetInv'
  BY <1>1, <1>5 DEF Select, netVars
<1> QED
  BY <1>3, <1>4, <1>5, SelectSome

(* The network invariant.                                                  *)
LEMMA NetKept ==
  ASSUME TypeInv, NetInv, [Next]_vars
  PROVE  NetInv'
<1>0. TypeOK
  BY DEF TypeInv
<1>1. CASE NetStep
  BY <1>0, <1>1, PayNet, MineNet, ReorgNet DEF NetStep
<1>2. ASSUME NEW v \in Versions, RecordVersion(v) PROVE NetInv'
  BY <1>2, NetStays DEF RecordVersion, netVars
<1>3. CASE UNCHANGED vars
  BY <1>3, NetStays DEF vars, netVars
<1>4. ASSUME NEW s \in Senders, Send(s) PROVE NetInv'
  BY <1>0, <1>4, SendNet
<1>5. CASE \/ LoadVersions \/ CheckTip \/ DropUtxos \/ UnspendUtxos \/ DropBlocks
           \/ ResetCursor \/ StoreBlock \/ SetTip
           \/ \E done \in SUBSET Coins : CaptureUtxos(done)
           \/ \E done \in SUBSET Coins : MarkSpent(done)
           \/ PassFails
  BY <1>5, IngestLeaves, NetStays
<1> QED
  BY <1>1, <1>2, <1>3, <1>4, <1>5, Steps
-----------------------------------------------------------------------------
(* The store: steps of others.                                             *)

(* A trail is one as long as no branch changes.                            *)
LEMMA TrailStays ==
  ASSUME NEW U, Trail(U), UNCHANGED <<chain, stale>>
  PROVE  Trail(U)'
BY DEF Trail, Branches

(* A trail and the best chain are the same up to a block they share.       *)
LEMMA TrailOnChain ==
  ASSUME TypeOK, NetInv, NEW U, Trail(U), NEW n \in 1..Len(U), n <= Len(chain),
         chain[n].id = U[n].id
  PROVE  \A k \in 1..n : chain[k] = U[k]
<1>1. Len(U) \in Nat /\ Agree(U, chain) /\ Len(chain) \in Nat
  BY TrailSound, Fields DEF Branches
<1>2. n \in 1..Len(chain)
  BY <1>1
<1> QED
  BY <1>1, <1>2 DEF Agree

(* The cursor is on the best chain when the scanned branch is, up to it.   *)
LEMMA CursorOnChain ==
  ASSUME TypeOK, NetInv, NEW U, Trail(U), RowsOf(U), OnChain(cursor)
  PROVE  cursor.h <= Len(chain) /\ \A k \in 1..cursor.h : chain[k] = U[k]
<1>1. cursor.h \in Nat /\ Len(U) \in Nat /\ Len(chain) \in Nat /\ cursor.h <= Len(U)
  BY Fields, TrailSound DEF RowsOf
<1>2. CASE cursor.h = 0
  BY <1>1, <1>2
<1>3. CASE cursor.h # 0
  <2>1. cursor.h \in 1..Len(U) /\ cursor.h <= Len(chain) /\ chain[cursor.h].id = U[cursor.h].id
    BY <1>1, <1>3 DEF OnChain, RowsOf
  <2> QED
    BY <2>1, TrailOnChain
<1> QED
  BY <1>2, <1>3

(* Payments, requests, and a version recorded between passes.              *)
LEMMA OthersScan ==
  ASSUME NEW U, NEW F, ScanInv(U, F),
         UNCHANGED <<chain, stale, blocks, cursor, utxos, undoing, pass>>,
         pass.pc # "idle" => recorded' = recorded
  PROVE  ScanInv(U, F)'
<1>1. Trail(U)'
  BY TrailStays DEF ScanInv
<1>2. RowsOf(U)' /\ Undo(U, F)'
  BY DEF ScanInv, RowsOf, Undo, InBlock, OnChain
<1>3. RightUpTo(U, F)'
  BY DEF ScanInv, RightUpTo
<1>4. Beyond(U)'
  BY DEF ScanInv, Beyond, Above, InBlock
<1>5. Progress'
  BY DEF ScanInv, Progress
<1> QED
  BY <1>1, <1>2, <1>3, <1>4, <1>5 DEF ScanInv

(* Blocks are added to some branch.  No block that was left comes back     *)
(* while a rollback is not completed, and rows above the cursor stay those *)
(* of the best chain's next block.                                         *)
LEMMA GrowScan ==
  ASSUME TypeInv, TypeInv', NetInv, NEW U, NEW F, ScanInv(U, F), NEW base \in Seq(Block), Grows(base),
         UNCHANGED <<recorded, blocks, cursor, utxos, pass, undoing>>,
         undoing => \A k \in 1..Len(base) :
                      base[k].id \in {blocks[k], cursor.id} => base[k].id = chain[k].id,
         base = chain \/ InBlock \/ \A c \in Coins : ~Above(c)
  PROVE  ScanInv(U, F)'
<1>0. /\ TypeOK /\ TypeOK' /\ Trail(U) /\ RowsOf(U) /\ Undo(U, F) /\ RightUpTo(U, F) /\ Beyond(U)
      /\ Progress
  BY DEF TypeInv, ScanInv
<1>1. /\ Len(base) \in Nat /\ Len(chain) \in Nat /\ Len(base) <= Len(chain)
      /\ chain' \in Seq(Block) /\ Len(chain') = Len(chain) + 1 /\ MaxBlocks \in Nat
      /\ Len(chain') <= MaxBlocks /\ cursor.h \in Nat
  <2>1. Len(chain') <= MaxBlocks
    BY <1>0 DEF TypeOK
  <2> QED
    BY <1>0, <2>1, Fields, LenProperties DEF Grows
<1>2. Len(U) \in Nat /\ \A k \in 1..Len(U) : U[k].id <= mined
  BY <1>0, TrailSound
<1>3. Trail(U)'
  BY <1>0, TrailGrows
<1>4. RowsOf(U)'
  BY <1>0 DEF RowsOf, InBlock
<1>5. ASSUME undoing PROVE ~OnChain(cursor)'
  <2>1. ~OnChain(cursor)
    BY <1>0, <1>5 DEF Undo
  <2> SUFFICES ASSUME cursor.h # 0, cursor.h <= Len(chain'), chain'[cursor.h].id = cursor.id
               PROVE  FALSE
    BY <2>1 DEF OnChain
  <2>2. cursor.h \in 1..Len(chain') /\ cursor.h \in 1..Len(U) /\ cursor.id = U[cursor.h].id
    BY <1>0, <1>1, <1>2 DEF RowsOf
  <2>3. cursor.h \in 1..Len(base) /\ chain'[cursor.h] = base[cursor.h]
    BY <1>0, <1>2, <2>2, KnownOnBase
  <2>4. chain[cursor.h].id = cursor.id
    BY <1>5, <2>3
  <2> QED
    BY <1>1, <2>1, <2>3, <2>4 DEF OnChain
<1>6. ASSUME undoing, NEW k \in 1..Len(chain'), blocks[k] = chain'[k].id PROVE k <= F
  <2>1. k \in Heights /\ chain'[k].id # 0
    BY <1>1, <1>6, BlockFields DEF Heights
  <2>2. k \in 1..Len(U) /\ blocks[k] = U[k].id
    BY <1>0, <1>1, <1>2, <1>6, <2>1 DEF RowsOf
  <2>3. k \in 1..Len(base) /\ chain'[k] = base[k]
    BY <1>0, <1>2, <1>6, <2>2, KnownOnBase
  <2>4. blocks[k] = chain[k].id /\ k \in 1..Len(chain)
    BY <1>1, <1>6, <2>3
  <2> QED
    BY <1>0, <1>6, <2>4 DEF Undo
<1>7. Undo(U, F)'
  BY <1>0, <1>5, <1>6 DEF Undo
<1>8. RightUpTo(U, F)'
  BY <1>0 DEF RightUpTo
<1>9. Beyond(U)'
  <2>1. ASSUME NEW c \in Coins, Above(c), ~InBlock
        PROVE  cursor.h + 1 <= Len(chain') /\ chain'[cursor.h + 1] = U[cursor.h + 1]
    <3>1. base = chain
      BY <2>1
    <3>2. cursor.h + 1 <= Len(chain) /\ chain[cursor.h + 1] = U[cursor.h + 1]
      BY <1>0, <2>1 DEF Beyond
    <3>3. \A k \in 1..Len(chain) : chain'[k] = chain[k]
      BY <3>1 DEF Grows, Prefix
    <3> QED
      BY <1>1, <3>2, <3>3
  <2> QED
    BY <1>0, <2>1 DEF Beyond, Above, InBlock
<1>10. Progress'
  BY <1>0 DEF Progress
<1> QED
  BY <1>3, <1>4, <1>7, <1>8, <1>9, <1>10 DEF ScanInv

(* The network's steps.                                                    *)
LEMMA NetScan ==
  ASSUME Whole, TypeInv, NetInv, NEW U, NEW F, ScanInv(U, F), NetStep
  PROVE  ScanInv(U, F)'
<1>0. TypeInv' /\ UNCHANGED <<recorded, blocks, cursor, utxos, pass, undoing>>
  BY NetTyped DEF storeVars
<1>1. ASSUME NEW c \in Coins, Pay(c) PROVE ScanInv(U, F)'
  BY <1>0, <1>1, OthersScan DEF Pay
<1>2. ASSUME NEW P \in SUBSET pool.pays, NEW S \in SUBSET pool.spends, Mine(P, S)
      PROVE  ScanInv(U, F)'
  <2>1. Grows(chain) /\ chain \in Seq(Block)
    BY <1>2, MineGrows DEF TypeInv, TypeOK
  <2> QED
    BY <1>0, <2>1, GrowScan
<1>3. ASSUME NEW base \in Bases, NEW P \in SUBSET PaysOf(chain), NEW S \in SUBSET SpendsOf(chain),
             Reorg(base, P, S)
      PROVE  ScanInv(U, F)'
  <2>1. Grows(base) /\ base \in Seq(Block)
    BY <1>3, ReorgGrows, BaseTrail DEF TypeInv
  <2>2. (~undoing \/ ~ComesBack(base)) /\ (InBlock \/ ~Torn)
    BY <1>3 DEF Reorg, Whole
  <2>3. ~undoing \/ \A k \in 1..Len(base) :
          base[k].id \in {blocks[k], cursor.id} => base[k].id = chain[k].id
    BY <2>2 DEF ComesBack
  <2>4. InBlock \/ \A c \in Coins : ~Above(c)
    BY <2>2 DEF Torn, Above
  <2> QED
    BY <1>0, <2>1, <2>3, <2>4, GrowScan
<1> QED
  BY <1>1, <1>2, <1>3 DEF NetStep

-----------------------------------------------------------------------------
(* The store: steps of a pass.                                             *)

(* What the steps of a pass leave alone, of the invariant.                 *)
LEMMA PassLeaves ==
  ASSUME NEW U, Trail(U),
         \/ LoadVersions \/ CheckTip \/ DropUtxos \/ UnspendUtxos \/ DropBlocks
         \/ ResetCursor \/ StoreBlock \/ SetTip
         \/ \E done \in SUBSET Coins : CaptureUtxos(done)
         \/ \E done \in SUBSET Coins : MarkSpent(done)
         \/ PassFails
  PROVE  Trail(U)' /\ UNCHANGED <<chain, stale, recorded>>
BY IngestLeaves, TrailStays

(* A pass begins.                                                          *)
LEMMA LoadScan ==
  ASSUME TypeInv, NEW U, NEW F, ScanInv(U, F), LoadVersions
  PROVE  ScanInv(U, F)'
<1>0. /\ pass.pc = "idle" /\ pass'.pc = "check" /\ pass'.watched = recorded
      /\ UNCHANGED <<blocks, cursor, utxos, undoing, chain, recorded>> /\ Trail(U)'
  BY LoadStep, PassLeaves DEF ScanInv
<1>2. RowsOf(U)' /\ Undo(U, F)'
  BY <1>0 DEF ScanInv, RowsOf, Undo, InBlock, OnChain, Rollback
<1>3. RightUpTo(U, F)'
  BY <1>0 DEF ScanInv, RightUpTo
<1>4. Beyond(U)'
  BY <1>0 DEF ScanInv, Beyond, Above, InBlock
<1>5. Progress'
  BY <1>0 DEF Progress
<1> QED
  BY <1>0, <1>2, <1>3, <1>4, <1>5 DEF ScanInv

(* The last stored block on the best chain is not above the rows that are  *)
(* whole: one above the cursor would bring the cursor onto the chain.      *)
LEMMA ForkBelow ==
  ASSUME TypeInv, NetInv, NEW U, NEW F, ScanInv(U, F), ~OnChain(cursor)
  PROVE  Fork \in Nat /\ Fork <= F
<1>0. TypeOK /\ Trail(U) /\ RowsOf(U) /\ Undo(U, F)
  BY DEF TypeInv, ScanInv
<1>1. /\ Fork \in 0..Len(chain) /\ Len(chain) \in Nat /\ Len(chain) <= MaxBlocks /\ MaxBlocks \in Nat
      /\ Fork # 0 => blocks[Fork] = chain[Fork].id
  BY <1>0, ForkShape, Fields
<1>2. cursor.h \in Nat /\ Len(U) \in Nat /\ F \in Nat
  BY <1>0, Fields, TrailSound DEF Undo
<1>3. CASE Fork = 0
  BY <1>2, <1>3
<1>4. CASE Fork # 0
  <2>1. Fork \in 1..Len(chain) /\ Fork \in Heights /\ chain[Fork].id # 0
    BY <1>0, <1>1, <1>4, BlockFields, Fields DEF Heights
  <2>2. CASE undoing
    BY <1>0, <1>1, <1>4, <2>1, <2>2 DEF Undo
  <2>3. CASE ~undoing
    <3>1. Fork <= cursor.h + 1 /\ Fork \in 1..Len(U) /\ chain[Fork].id = U[Fork].id /\ F = cursor.h
      BY <1>0, <1>1, <1>2, <1>4, <2>1, <2>3 DEF RowsOf, Undo
    <3>2. \A k \in 1..Fork : chain[k] = U[k]
      BY <1>0, <1>1, <2>1, <3>1, TrailOnChain
    <3>3. Fork # cursor.h + 1
      <4> SUFFICES ASSUME Fork = cursor.h + 1 PROVE FALSE
        OBVIOUS
      <4>1. cursor.h # 0
        BY DEF OnChain
      <4>2. cursor.h \in 1..Fork /\ cursor.h <= Len(chain)
        BY <1>1, <1>2, <4>1
      <4>3. chain[cursor.h].id = cursor.id
        BY <1>0, <3>2, <4>1, <4>2 DEF RowsOf
      <4> QED
        BY <4>2, <4>3 DEF OnChain
    <3> QED
      BY <1>1, <1>2, <3>1, <3>3
  <2> QED
    BY <2>2, <2>3
<1> QED
  BY <1>3, <1>4

(* The tip is checked.                                                     *)
LEMMA CheckScan ==
  ASSUME TypeInv, NetInv, NEW U, NEW F, ScanInv(U, F), CheckTip
  PROVE  \E G : ScanInv(U, G)'
<1>0. /\ pass.pc = "check" /\ pass'.watched = pass.watched
      /\ UNCHANGED <<blocks, cursor, utxos, chain, recorded>> /\ Trail(U)'
  BY CheckStep, PassLeaves DEF ScanInv
<1>1. CASE OnChain(cursor) /\ pass'.pc = "scan" /\ UNCHANGED undoing
  <2>1. RowsOf(U)' /\ Undo(U, F)'
    BY <1>0, <1>1 DEF ScanInv, RowsOf, Undo, InBlock, OnChain, Rollback
  <2>2. RightUpTo(U, F)' /\ Progress'
    BY <1>0, <1>1 DEF ScanInv, RightUpTo, Progress
  <2>3. Beyond(U)'
    BY <1>0, <1>1 DEF ScanInv, Beyond, Above, InBlock
  <2> QED
    BY <1>0, <2>1, <2>2, <2>3 DEF ScanInv
<1>2. CASE ~OnChain(cursor) /\ pass'.pc = "dropUtxos" /\ pass'.fork = Fork /\ undoing' = TRUE
  <2>1. PICK G : G = Fork
    OBVIOUS
  <2>2. G \in Nat /\ G <= F /\ F \in Nat /\ cursor.h \in Nat /\ F <= cursor.h
    BY <1>2, <2>1, ForkBelow, Fields DEF ScanInv, Undo, TypeInv
  <2>3. \A k \in 1..G : k \in 1..F
    BY <2>2
  <2>4. \A k \in 1..Len(chain) : blocks[k] = chain[k].id => k <= G
    BY <2>1, ForkShape DEF TypeInv
  <2>5. Undo(U, G)'
    <3>1. G <= cursor.h
      BY <2>2
    <3>2. \A k \in 1..G : blocks[k] = U[k].id
      BY <2>3 DEF ScanInv, Undo
    <3>3. ~OnChain(cursor)'
      BY <1>0, <1>2 DEF OnChain
    <3> QED
      BY <1>0, <1>2, <2>1, <2>2, <2>4, <3>1, <3>2, <3>3 DEF Undo, Rollback
  <2>6. RowsOf(U)'
    BY <1>0, <1>2 DEF ScanInv, RowsOf, InBlock
  <2>7. RightUpTo(U, G)' /\ Progress'
    BY <1>0, <1>2, <2>3 DEF ScanInv, RightUpTo, Progress
  <2>8. Beyond(U)'
    BY <1>0, <1>2 DEF ScanInv, Beyond, Above, InBlock
  <2> QED
    BY <1>0, <2>5, <2>6, <2>7, <2>8 DEF ScanInv
<1> QED
  BY <1>1, <1>2, CheckStep
(* Where a rollback stands.                                                *)
LEMMA Rolling ==
  ASSUME TypeInv, NEW U, NEW F, ScanInv(U, F), pass.pc \in Rollback
  PROVE  /\ pass.fork = F /\ undoing /\ F \in Nat /\ cursor.h \in Nat /\ F <= cursor.h /\ ~InBlock
         /\ \A c \in Coins : utxos[c].h \in Nat /\ utxos[c].spent \in Nat
<1>1. pass.fork = F /\ undoing /\ F \in Nat /\ F <= cursor.h
  BY DEF ScanInv, Undo
<1>2. cursor.h \in Nat /\ \A c \in Coins : utxos[c].h \in Nat /\ utxos[c].spent \in Nat
  BY StoreFields
<1> QED
  BY <1>1, <1>2 DEF Rollback, InBlock

(* The rollback goes on to a statement that leaves the block rows.         *)
LEMMA RollsOn ==
  ASSUME NEW U, NEW F, ScanInv(U, F), pass.pc \in Rollback,
         pass'.pc \in {"unspend", "dropBlocks"}, pass'.fork = pass.fork,
         UNCHANGED <<chain, blocks, cursor, undoing>>
  PROVE  RowsOf(U)' /\ Undo(U, F)'
BY DEF ScanInv, RowsOf, Undo, InBlock, OnChain, Rollback

(* Rows above the fork are dropped, and none of them is of a coin that is  *)
(* spent at or below it: a coin is paid before it is spent.                *)
LEMMA DropScan ==
  ASSUME TypeInv, NetInv, NEW U, NEW F, ScanInv(U, F), DropUtxos
  PROVE  ScanInv(U, F)'
<1>0. /\ pass.pc = "dropUtxos" /\ pass'.pc = "unspend" /\ pass'.watched = pass.watched
      /\ pass'.fork = pass.fork
      /\ UNCHANGED <<blocks, cursor, undoing, chain, recorded>> /\ Trail(U)'
      /\ utxos' = [c \in Coins |-> IF utxos[c].h > pass.fork THEN NoRow ELSE utxos[c]]
  BY DropUtxosStep, PassLeaves DEF ScanInv
<1>1. /\ pass.fork = F /\ F \in Nat /\ cursor.h \in Nat /\ F <= cursor.h /\ ~InBlock
      /\ \A c \in Coins : utxos[c].h \in Nat /\ utxos[c].spent \in Nat
  BY <1>0, Rolling DEF Rollback
<1>2. RowsOf(U)' /\ Undo(U, F)'
  BY <1>0, RollsOn DEF Rollback
<1>3. \A c \in Coins : \/ utxos[c].h > F /\ utxos'[c].h = 0 /\ utxos'[c].spent = 0
                       \/ utxos[c].h <= F /\ utxos'[c] = utxos[c]
  BY <1>0, <1>1 DEF NoRow
<1>4. RightUpTo(U, F)'
  <2>0. RightUpTo(U, F) /\ PaidFirst(U) /\ Len(U) \in Nat /\ F <= Len(U)
    <3>1. PaidFirst(U) /\ Len(U) \in Nat /\ cursor.h <= Len(U)
      BY TrailSound DEF ScanInv, Sound, TypeInv, RowsOf
    <3> QED
      BY <1>1, <3>1 DEF ScanInv
  <2>1. ASSUME NEW c \in Coins, NEW i \in 1..F
        PROVE  /\ utxos'[c].h = i <=> c \in U[i].pays
               /\ utxos'[c].spent = i <=> c \in UNION U[i].spends
    <3>0. /\ utxos[c].h = i <=> c \in U[i].pays
          /\ utxos[c].spent = i <=> c \in UNION U[i].spends
      BY <2>0 DEF RightUpTo
    <3>1. CASE utxos[c].h <= F /\ utxos'[c] = utxos[c]
      BY <3>0, <3>1
    <3>2. CASE utxos[c].h > F /\ utxos'[c].h = 0 /\ utxos'[c].spent = 0
      <4>1. c \notin U[i].pays /\ utxos'[c].h # i /\ utxos'[c].spent # i
        BY <1>1, <3>0, <3>2
      <4>2. c \notin UNION U[i].spends
        <5> SUFFICES ASSUME NEW x \in U[i].spends, c \in x PROVE FALSE
          OBVIOUS
        <5>1. i \in 1..Len(U)
          BY <1>1, <2>0
        <5>2. PICK j \in 1..i : c \in U[j].pays
          BY <2>0, <5>1 DEF PaidFirst
        <5>3. j \in 1..F
          BY <1>1, <5>2
        <5>4. utxos[c].h = j
          BY <2>0, <5>2, <5>3 DEF RightUpTo
        <5> QED
          BY <1>1, <3>2, <5>3, <5>4
      <4> QED
        BY <4>1, <4>2
    <3> QED
      BY <1>3, <3>1, <3>2
  <2> QED
    BY <2>1 DEF RightUpTo
<1>5. Beyond(U)'
  <2>1. ASSUME NEW c \in Coins, Above(c)' PROVE utxos'[c] = utxos[c]
    BY <1>0, <1>1, <1>3, <2>1 DEF Above
  <2> QED
    BY <1>0, <1>1, <2>1 DEF ScanInv, Beyond, Above, InBlock
<1>6. Progress'
  <2>1. \A c \in Coins : utxos'[c].h <= F
    BY <1>1, <1>3
  <2> QED
    BY <1>0, <1>1, <2>1 DEF ScanInv, Progress
<1> QED
  BY <1>0, <1>2, <1>4, <1>5, <1>6 DEF ScanInv

(* Spent heights above the fork are taken back.                            *)
LEMMA UnspendScan ==
  ASSUME TypeInv, NEW U, NEW F, ScanInv(U, F), UnspendUtxos
  PROVE  ScanInv(U, F)'
<1>0. /\ pass.pc = "unspend" /\ pass'.pc = "dropBlocks" /\ pass'.watched = pass.watched
      /\ pass'.fork = pass.fork
      /\ UNCHANGED <<blocks, cursor, undoing, chain, recorded>> /\ Trail(U)'
      /\ \A c \in Coins :
           /\ utxos'[c].h = utxos[c].h
           /\ utxos'[c].spent = (IF utxos[c].spent > pass.fork THEN 0 ELSE utxos[c].spent)
  BY UnspendStep, PassLeaves DEF ScanInv
<1>1. /\ pass.fork = F /\ F \in Nat /\ cursor.h \in Nat /\ F <= cursor.h /\ ~InBlock
      /\ \A c \in Coins : utxos[c].h \in Nat /\ utxos[c].spent \in Nat
  BY <1>0, Rolling DEF Rollback
<1>2. RowsOf(U)' /\ Undo(U, F)'
  BY <1>0, RollsOn DEF Rollback
<1>3. RightUpTo(U, F)'
  <2>1. ASSUME NEW c \in Coins, NEW i \in 1..F PROVE utxos'[c].spent = i <=> utxos[c].spent = i
    BY <1>0, <1>1
  <2> QED
    BY <1>0, <2>1 DEF ScanInv, RightUpTo
<1>4. Beyond(U)'
  <2>1. ASSUME NEW c \in Coins
        PROVE  utxos'[c].spent > cursor.h => utxos'[c].spent = utxos[c].spent
    BY <1>0, <1>1
  <2> QED
    BY <1>0, <1>1, <2>1 DEF ScanInv, Beyond, Above, InBlock
<1>5. Progress'
  <2>1. \A c \in Coins : utxos'[c].h <= F /\ utxos'[c].spent <= F
    BY <1>0, <1>1 DEF ScanInv, Progress
  <2> QED
    BY <1>0, <1>1, <2>1 DEF ScanInv, Progress
<1> QED
  BY <1>0, <1>2, <1>3, <1>4, <1>5 DEF ScanInv

(* Block rows above the fork are dropped.                                  *)
LEMMA DropBlocksScan ==
  ASSUME TypeInv, NEW U, NEW F, ScanInv(U, F), DropBlocks
  PROVE  ScanInv(U, F)'
<1>0. /\ pass.pc = "dropBlocks" /\ pass'.pc = "resetCursor" /\ pass'.watched = pass.watched
      /\ pass'.fork = pass.fork
      /\ UNCHANGED <<cursor, utxos, undoing, chain, recorded>> /\ Trail(U)'
      /\ \A k \in Heights : blocks'[k] = IF k > pass.fork THEN 0 ELSE blocks[k]
  BY DropBlocksStep, PassLeaves DEF ScanInv
<1>1. /\ pass.fork = F /\ undoing /\ F \in Nat /\ cursor.h \in Nat /\ F <= cursor.h /\ ~InBlock
      /\ cursor.h <= MaxBlocks /\ MaxBlocks \in Nat
  BY <1>0, Rolling, StoreFields DEF Rollback
<1>2. RowsOf(U)'
  <2>1. \A k \in Heights : blocks'[k] # 0 => blocks'[k] = blocks[k]
    BY <1>0
  <2> QED
    BY <1>0, <1>1, <2>1 DEF ScanInv, RowsOf, InBlock
<1>3. Undo(U, F)'
  <2>1. \A k \in 1..F : k \in Heights /\ ~(k > F)
    BY <1>1 DEF Heights
  <2>2. \A k \in 1..F : blocks'[k] = U[k].id
    BY <1>0, <1>1, <2>1 DEF ScanInv, Undo
  <2>3. ASSUME NEW k \in 1..Len(chain), blocks'[k] = chain[k].id PROVE k <= F
    <3>1. TypeOK /\ chain \in Seq(Block)
      BY DEF TypeInv, TypeOK
    <3>2. chain[k].id # 0 /\ k \in Heights
      BY <2>3, <3>1, BlockFields, Fields DEF Heights
    <3>3. ~(k > F)
      BY <1>0, <1>1, <2>3, <3>2
    <3> QED
      BY <1>1, <3>2, <3>3 DEF Heights
  <2>4. ~OnChain(cursor)'
    BY <1>0, <1>1 DEF ScanInv, Undo, OnChain
  <2> QED
    BY <1>0, <1>1, <2>2, <2>3, <2>4 DEF Undo, Rollback
<1>4. RightUpTo(U, F)' /\ Progress'
  BY <1>0 DEF ScanInv, RightUpTo, Progress
<1>5. Beyond(U)'
  BY <1>0, <1>1 DEF ScanInv, Beyond, Above, InBlock
<1> QED
  BY <1>0, <1>2, <1>3, <1>4, <1>5 DEF ScanInv

(* The cursor goes back to the fork, beyond which nothing is left.         *)
LEMMA ResetScan ==
  ASSUME TypeInv, NetInv, NEW U, NEW F, ScanInv(U, F), ResetCursor
  PROVE  ScanInv(U, F)'
<1>0. /\ pass.pc = "resetCursor" /\ pass'.pc = "scan" /\ pass'.watched = pass.watched
      /\ undoing' = FALSE
      /\ UNCHANGED <<blocks, utxos, chain, recorded>> /\ Trail(U)'
      /\ cursor' = IF cursor.h > pass.fork THEN HighestStored ELSE cursor
  BY ResetStep, PassLeaves DEF ScanInv
<1>1. /\ pass.fork = F /\ F \in Nat /\ cursor.h \in Nat /\ F <= cursor.h /\ ~InBlock
      /\ cursor.h <= MaxBlocks /\ MaxBlocks \in Nat /\ TypeOK
      /\ \A c \in Coins : utxos[c].h \in Nat /\ utxos[c].spent \in Nat
  BY <1>0, Rolling, StoreFields DEF Rollback, TypeInv
<1>2. /\ Len(U) \in Nat /\ cursor.h <= Len(U)
      /\ \A k \in 1..Len(U) : U[k].id \in 1..MaxBlocks
  BY <1>1, TrailSound DEF ScanInv, RowsOf
<1>3. /\ \A k \in 1..F : blocks[k] = U[k].id
      /\ \A k \in Heights : k > F => blocks[k] = 0
      /\ \A c \in Coins : utxos[c].h <= F /\ utxos[c].spent <= F
  BY <1>0, <1>1 DEF ScanInv, Undo, Progress
<1>4. cursor'.h = F /\ (F = 0 => cursor'.id = 0) /\ (F # 0 => cursor'.id = U[F].id)
  <2>1. CASE cursor.h > F
    <3>0. /\ HighestStored \in [h : 0..MaxBlocks, id : 0..MaxBlocks]
          /\ HighestStored.h = 0 => HighestStored.id = 0
          /\ HighestStored.h # 0 => /\ HighestStored.h \in Heights
                                    /\ HighestStored.id = blocks[HighestStored.h]
                                    /\ HighestStored.id # 0
          /\ \A k \in Heights : blocks[k] # 0 => k <= HighestStored.h
      BY <1>1, HighestShape
    <3> DEFINE t == HighestStored
    <3> HIDE DEF t
    <3>1. cursor' = t
      BY <1>0, <1>1, <2>1 DEF t
    <3>2. t.h \in Nat /\ (t.h # 0 => t.h \in Heights /\ blocks[t.h] # 0 /\ t.id = blocks[t.h])
      BY <1>1, <3>0 DEF t
    <3>3. t.h <= F
      BY <1>1, <1>3, <3>2
    <3>4. F # 0 => F <= t.h
      <4>1. F # 0 => F \in Heights /\ F \in 1..F /\ F \in 1..Len(U)
        BY <1>1, <1>2 DEF Heights
      <4>2. F # 0 => blocks[F] # 0
        BY <1>2, <1>3, <4>1
      <4> QED
        BY <3>0, <4>1, <4>2 DEF t
    <3>5. t.h = F
      BY <1>1, <3>2, <3>3, <3>4
    <3>6. F # 0 => t.id = U[F].id
      <4>1. F # 0 => F \in 1..F
        BY <1>1
      <4> QED
        BY <1>3, <3>2, <3>5, <4>1
    <3>7. t.h = 0 => t.id = 0
      BY <3>0 DEF t
    <3> QED
      BY <3>1, <3>5, <3>6, <3>7
  <2>2. CASE ~(cursor.h > F)
    <3>1. cursor.h = F /\ cursor' = cursor
      BY <1>0, <1>1, <2>2
    <3> QED
      BY <3>1 DEF ScanInv, RowsOf
  <2> QED
    BY <2>1, <2>2
<1>5. RowsOf(U)'
  <2>1. \A k \in Heights : blocks[k] # 0 => k <= F + 1 /\ k <= Len(U) /\ blocks[k] = U[k].id
    <3>1. ASSUME NEW k \in Heights, blocks[k] # 0 PROVE k <= F + 1
      BY <1>1, <1>3, <3>1 DEF Heights
    <3> QED
      BY <3>1 DEF ScanInv, RowsOf
  <2>2. F <= Len(U)
    BY <1>1, <1>2
  <2> QED
    BY <1>0, <1>4, <2>1, <2>2 DEF RowsOf, InBlock
<1>6. Undo(U, F)'
  BY <1>0, <1>1, <1>3, <1>4 DEF Undo, Rollback
<1>7. RightUpTo(U, F)' /\ Progress'
  BY <1>0 DEF ScanInv, RightUpTo, Progress
<1>8. Beyond(U)'
  <2>1. \A c \in Coins : ~Above(c)'
    BY <1>0, <1>1, <1>3, <1>4 DEF Above
  <2> QED
    BY <2>1 DEF Beyond
<1> QED
  BY <1>0, <1>5, <1>6, <1>7, <1>8 DEF ScanInv

(* The next block of the best chain is stored: that is now the branch that *)
(* is scanned.                                                             *)
LEMMA StoreScan ==
  ASSUME TypeInv, NetInv, NEW U, NEW F, ScanInv(U, F), StoreBlock
  PROVE  \E V : ScanInv(V, F)'
<1> DEFINE n == cursor.h + 1
<1>0. pass.pc = "scan" /\ UNCHANGED <<cursor, utxos, undoing, chain, recorded>> /\ Trail(U)'
  BY StoreStep, PassLeaves DEF ScanInv
<1>1. TypeOK /\ cursor.h \in Nat /\ ~undoing /\ F = cursor.h /\ ~InBlock
  BY <1>0, StoreFields DEF TypeInv, ScanInv, Undo, Rollback, InBlock
<1>2. CASE pass'.pc = "idle" /\ UNCHANGED blocks
  <2>1. RowsOf(U)' /\ Undo(U, F)'
    BY <1>0, <1>1, <1>2 DEF ScanInv, RowsOf, Undo, InBlock, OnChain, Rollback
  <2>2. RightUpTo(U, F)' /\ Progress'
    BY <1>0, <1>2 DEF ScanInv, RightUpTo, Progress
  <2>3. Beyond(U)'
    BY <1>0, <1>1, <1>2 DEF ScanInv, Beyond, Above, InBlock
  <2> QED
    BY <1>0, <2>1, <2>2, <2>3 DEF ScanInv
<1>3. CASE /\ pass'.pc = "capture" /\ pass'.watched = pass.watched
           /\ pass'.block = chain[n] /\ OnChain(cursor) /\ n \in 1..Len(chain) /\ n \in Heights
           /\ blocks'[n] = chain[n].id
           /\ \A k \in Heights : k # n => blocks'[k] = blocks[k]
  <2>1. PICK V : V = chain
    OBVIOUS
  <2>2. Trail(V)'
    <3>1. Trail(V)
      BY <1>1, <2>1, BranchTrail DEF Branches
    <3> QED
      BY <3>1, PassLeaves
  <2>3. /\ Len(V) \in Nat /\ cursor.h < Len(V) /\ \A k \in 1..cursor.h : V[k] = U[k]
    BY <1>1, <1>3, <2>1, CursorOnChain, Fields DEF ScanInv
  <2>4. RowsOf(V)'
    <3>1. (cursor.h = 0 => cursor.id = 0) /\ (cursor.h # 0 => cursor.id = V[cursor.h].id)
      BY <1>3, <2>1 DEF ScanInv, RowsOf, OnChain
    <3>2. ASSUME NEW k \in Heights, blocks'[k] # 0
          PROVE  k <= n /\ k <= Len(V) /\ blocks'[k] = V[k].id
      <4>1. CASE k = n
        BY <1>1, <1>3, <2>1, <2>3, <4>1
      <4>2. CASE k # n
        <5>1. blocks'[k] = blocks[k] /\ k <= n /\ blocks[k] = U[k].id
          BY <1>3, <3>2, <4>2 DEF ScanInv, RowsOf
        <5>2. k \in 1..cursor.h
          BY <1>1, <4>2, <5>1 DEF Heights
        <5> QED
          BY <1>1, <2>3, <5>1, <5>2
      <4> QED
        BY <4>1, <4>2
    <3>3. cursor.h <= Len(V)
      BY <1>1, <2>3
    <3> QED
      BY <1>0, <1>3, <2>1, <2>3, <3>1, <3>2, <3>3 DEF RowsOf, InBlock
  <2>5. Undo(V, F)'
    <3>1. ASSUME NEW k \in 1..F PROVE blocks'[k] = V[k].id
      <4>0. /\ MaxBlocks \in Nat /\ cursor.h \in Nat /\ F = cursor.h
            /\ cursor.h + 1 \in 1..MaxBlocks /\ k \in 1..F
        BY <1>1, <1>3, <3>1, IngestAssumption DEF Heights
      <4>1. k \in Heights /\ k # n /\ k \in 1..cursor.h
        BY <4>0 DEF Heights
      <4>2. blocks[k] = U[k].id
        BY DEF ScanInv, Undo
      <4> QED
        BY <1>3, <2>3, <4>1, <4>2
    <3> QED
      BY <1>0, <1>1, <1>3, <3>1 DEF ScanInv, Undo, Rollback
  <2>6. RightUpTo(V, F)' /\ Progress'
    BY <1>0, <1>1, <1>3, <2>3 DEF ScanInv, RightUpTo, Progress
  <2>7. Beyond(V)'
    BY <1>0, <1>1, <1>3, <2>1 DEF ScanInv, Beyond, Above, InBlock
  <2> QED
    BY <2>2, <2>4, <2>5, <2>6, <2>7 DEF ScanInv
<1> QED
  BY <1>2, <1>3, StoreStep

(* The block in hand is the one that follows the cursor on the scanned     *)
(* branch.                                                                 *)
LEMMA InHand ==
  ASSUME TypeInv, NetInv, NEW U, NEW F, ScanInv(U, F), InBlock
  PROVE  /\ ~undoing /\ F = cursor.h /\ cursor.h \in Nat /\ cursor.h + 1 \in 1..Len(U)
         /\ pass.block = U[cursor.h + 1] /\ blocks[cursor.h + 1] = U[cursor.h + 1].id
         /\ pass.watched = recorded /\ Sound(U) /\ Len(U) \in Nat
         /\ \A i \in 1..F : i \in 1..Len(U) /\ i # cursor.h + 1
<1>1. ~undoing /\ F = cursor.h /\ pass.watched = recorded
  BY DEF ScanInv, Undo, Progress, InBlock, Rollback
<1>2. cursor.h \in Nat /\ Len(U) \in Nat /\ Sound(U)
  BY StoreFields, TrailSound DEF TypeInv, ScanInv
<1>3. /\ cursor.h < Len(U) /\ pass.block = U[cursor.h + 1]
      /\ blocks[cursor.h + 1] = U[cursor.h + 1].id
  BY DEF ScanInv, RowsOf
<1> QED
  BY <1>1, <1>2, <1>3

(* Where a fault may happen in a block: while the block is on the chain.   *)
LEMMA FaultInBlock ==
  ASSUME Whole, TypeInv, NetInv, NEW U, NEW F, ScanInv(U, F), InBlock, Fault
  PROVE  cursor.h + 1 <= Len(chain) /\ chain[cursor.h + 1] = U[cursor.h + 1]
<1> DEFINE n == cursor.h + 1
<1>1. OnChain([h |-> n, id |-> pass.block.id])
  BY DEF Fault, Whole
<1>2. n \in 1..Len(U) /\ pass.block = U[n] /\ Len(U) \in Nat
  BY InHand
<1>3. n <= Len(chain) /\ chain[n].id = U[n].id
  BY <1>1, <1>2 DEF OnChain
<1>4. \A k \in 1..n : chain[k] = U[k]
  BY <1>2, <1>3, TrailOnChain DEF TypeInv, ScanInv
<1> QED
  BY <1>2, <1>3, <1>4

(* A store call in a block, or its end: block rows and cursor stay.        *)
LEMMA InBlockStays ==
  ASSUME NEW U, NEW F, ScanInv(U, F), InBlock, UNCHANGED <<chain, blocks, cursor, undoing>>,
         \/ pass'.pc \in {"mark", "tip"} /\ pass'.block = pass.block
         \/ pass'.pc = "idle"
  PROVE  RowsOf(U)' /\ Undo(U, F)'
<1>1. ~undoing
  BY DEF ScanInv, Undo, InBlock, Rollback
<1>2. RowsOf(U)'
  BY DEF ScanInv, RowsOf, InBlock
<1>3. Undo(U, F)'
  BY <1>1 DEF ScanInv, Undo, InBlock, Rollback
<1> QED
  BY <1>2, <1>3

(* A pass fails: in a block only while that is the next one of the chain.  *)
LEMMA FailScan ==
  ASSUME Whole, TypeInv, NetInv, NEW U, NEW F, ScanInv(U, F), PassFails
  PROVE  ScanInv(U, F)'
<1>0. /\ pass'.pc = "idle" /\ Fault
      /\ UNCHANGED <<blocks, cursor, utxos, undoing, chain, recorded>> /\ Trail(U)'
  BY FailStep, PassLeaves DEF ScanInv
<1>1. RowsOf(U)' /\ Undo(U, F)'
  BY <1>0 DEF ScanInv, RowsOf, Undo, InBlock, OnChain, Rollback
<1>2. RightUpTo(U, F)' /\ Progress'
  BY <1>0 DEF ScanInv, RightUpTo, Progress
<1>3. InBlock => cursor.h + 1 <= Len(chain) /\ chain[cursor.h + 1] = U[cursor.h + 1]
  BY <1>0, FaultInBlock
<1>4. Beyond(U)'
  BY <1>0, <1>3 DEF ScanInv, Beyond, Above, InBlock
<1> QED
  BY <1>0, <1>1, <1>2, <1>4 DEF ScanInv

(* The coins of the block in hand are captured, or some of them before a   *)
(* fault.  They were paid in no block below, and all are of recorded       *)
(* versions, which are the ones the pass watches.                          *)
LEMMA CaptureScan ==
  ASSUME Whole, TypeInv, NetInv, NEW U, NEW F, ScanInv(U, F),
         NEW done \in SUBSET Coins, CaptureUtxos(done)
  PROVE  ScanInv(U, F)'
<1> DEFINE n == cursor.h + 1
           all == {c \in pass.block.pays : owner[c] \in pass.watched}
<1>0. /\ UNCHANGED <<blocks, cursor, undoing, chain, recorded>> /\ Trail(U)'
      /\ pass.pc = "capture" /\ InBlock /\ done \subseteq all
      /\ \/ pass'.pc = "mark" /\ pass'.watched = pass.watched /\ pass'.block = pass.block /\ done = all
         \/ pass'.pc = "idle" /\ Fault
      /\ \A c \in Coins :
           /\ utxos'[c].h = (IF c \in done THEN n ELSE utxos[c].h)
           /\ utxos'[c].spent = utxos[c].spent
  BY CaptureStep, PassLeaves DEF ScanInv
<1>1. /\ ~undoing /\ F = cursor.h /\ cursor.h \in Nat /\ n \in 1..Len(U) /\ pass.block = U[n]
      /\ pass.watched = recorded /\ Sound(U) /\ Len(U) \in Nat
      /\ \A i \in 1..F : i \in 1..Len(U) /\ i # n
  BY <1>0, InHand
<1>2. \A c \in U[n].pays : owner[c] \in recorded
  BY <1>1 DEF Sound, PaysOnce, NetInv, PaysRecorded
<1>3. RowsOf(U)' /\ Undo(U, F)'
  BY <1>0, InBlockStays
<1>4. \A c \in done : c \in U[n].pays
  BY <1>0, <1>1
<1> HIDE DEF n
<1>5. RightUpTo(U, F)'
  <2>1. ASSUME NEW c \in Coins, NEW i \in 1..F PROVE utxos'[c].h = i <=> c \in U[i].pays
    <3>1. CASE c \in done
      <4>1. c \notin U[i].pays
        BY <1>1, <1>4, <3>1 DEF Sound, PaysOnce
      <4> QED
        BY <1>0, <1>1, <3>1, <4>1
    <3>2. CASE c \notin done
      BY <1>0, <3>2 DEF ScanInv, RightUpTo
    <3> QED
      BY <3>1, <3>2
  <2> QED
    BY <1>0, <2>1 DEF ScanInv, RightUpTo
<1>6. Beyond(U)'
  <2>1. pass'.pc = "idle" => n <= Len(chain) /\ chain[n] = U[n]
    BY <1>0, FaultInBlock DEF n
  <2>2. n <= Len(U)
    BY <1>1
  <2>3. ASSUME NEW c \in Coins
        PROVE  /\ utxos'[c].h > cursor.h => utxos'[c].h = n /\ c \in U[n].pays
               /\ utxos'[c].spent > cursor.h => utxos'[c].spent = n /\ c \in UNION U[n].spends
    BY <1>0, <1>4 DEF ScanInv, Beyond, Above, n
  <2> QED
    BY <1>0, <2>1, <2>2, <2>3 DEF Beyond, Above, InBlock, n
<1>7. Progress'
  <2>1. pass'.pc = "mark" => \A c \in pass.block.pays : c \in Coins /\ c \in done
    <3>1. U[n].pays \in SUBSET Coins
      BY <1>1, BlockFields DEF ScanInv, Trail
    <3> QED
      BY <1>0, <1>1, <1>2, <3>1
  <2> QED
    BY <1>0, <1>1, <2>1 DEF Progress, n
<1> QED
  BY <1>0, <1>3, <1>5, <1>6, <1>7 DEF ScanInv

(* The block's inputs that are captured and unspent are marked, or some.   *)
LEMMA MarkScan ==
  ASSUME Whole, TypeInv, NetInv, NEW U, NEW F, ScanInv(U, F),
         NEW done \in SUBSET Coins, MarkSpent(done)
  PROVE  ScanInv(U, F)'
<1> DEFINE n == cursor.h + 1
           all == {c \in UNION pass.block.spends : utxos[c].h # 0 /\ utxos[c].spent = 0}
<1>0. /\ UNCHANGED <<blocks, cursor, undoing, chain, recorded>> /\ Trail(U)'
      /\ pass.pc = "mark" /\ InBlock /\ done \subseteq all
      /\ \/ pass'.pc = "tip" /\ pass'.watched = pass.watched /\ pass'.block = pass.block /\ done = all
         \/ pass'.pc = "idle" /\ Fault
      /\ \A c \in Coins :
           /\ utxos'[c].h = utxos[c].h
           /\ utxos'[c].spent = (IF c \in done THEN n ELSE utxos[c].spent)
  BY MarkStep, PassLeaves DEF ScanInv
<1>1. /\ ~undoing /\ F = cursor.h /\ cursor.h \in Nat /\ n \in 1..Len(U) /\ pass.block = U[n]
      /\ pass.watched = recorded /\ Sound(U) /\ Len(U) \in Nat
      /\ \A i \in 1..F : i \in 1..Len(U) /\ i # n
  BY <1>0, InHand
<1>2. RowsOf(U)' /\ Undo(U, F)'
  BY <1>0, InBlockStays
<1>3. \A c \in done : c \in UNION U[n].spends
  BY <1>0, <1>1
<1> HIDE DEF n
<1>4. RightUpTo(U, F)'
  <2>1. ASSUME NEW c \in Coins, NEW i \in 1..F PROVE utxos'[c].spent = i <=> c \in UNION U[i].spends
    <3>1. CASE c \in done
      <4>1. c \notin UNION U[i].spends
        <5> SUFFICES ASSUME NEW x \in U[i].spends, c \in x PROVE FALSE
          OBVIOUS
        <5>1. PICK y \in U[n].spends : c \in y
          BY <1>3, <3>1
        <5>2. i \in 1..Len(U) /\ i # n
          BY <1>1
        <5>3. x \cap y = {}
          BY <1>1, <5>1, <5>2 DEF Sound, SpendsOnce
        <5> QED
          BY <5>1, <5>3
      <4> QED
        BY <1>0, <1>1, <3>1, <4>1
    <3>2. CASE c \notin done
      BY <1>0, <3>2 DEF ScanInv, RightUpTo
    <3> QED
      BY <3>1, <3>2
  <2> QED
    BY <1>0, <2>1 DEF ScanInv, RightUpTo
<1>5. Beyond(U)'
  <2>1. pass'.pc = "idle" => n <= Len(chain) /\ chain[n] = U[n]
    BY <1>0, FaultInBlock DEF n
  <2>2. n <= Len(U)
    BY <1>1
  <2>3. ASSUME NEW c \in Coins
        PROVE  /\ utxos'[c].h > cursor.h => utxos'[c].h = n /\ c \in U[n].pays
               /\ utxos'[c].spent > cursor.h => utxos'[c].spent = n /\ c \in UNION U[n].spends
    BY <1>0, <1>3 DEF ScanInv, Beyond, Above, n
  <2> QED
    BY <1>0, <2>1, <2>2, <2>3 DEF Beyond, Above, InBlock, n
<1>6. Progress'
  <2>0. U[n].pays \in SUBSET Coins /\ U[n].spends \in SUBSET SUBSET Coins
    BY <1>1, BlockFields DEF ScanInv, Trail
  <2>1. \A c \in pass.block.pays : utxos'[c].h = n
    BY <1>0, <1>1, <2>0 DEF ScanInv, Progress, n
  <2>2. ASSUME pass'.pc = "tip", NEW c \in UNION pass.block.spends, utxos'[c].h # 0
        PROVE  utxos'[c].spent # 0
    <3>1. c \in Coins
      BY <1>1, <2>0, <2>2
    <3>2. CASE c \in done
      BY <1>0, <1>1, <3>1, <3>2
    <3>3. CASE c \notin done
      BY <1>0, <2>2, <3>1, <3>3
    <3> QED
      BY <3>2, <3>3
  <2> QED
    BY <1>0, <1>1, <2>1, <2>2 DEF Progress, n
<1> QED
  BY <1>0, <1>2, <1>4, <1>5, <1>6 DEF ScanInv

(* The cursor moves on to the block in hand, and the rows are right up to  *)
(* it: a coin it spends was paid in it or below, so it has a row, and no   *)
(* block below spends it.                                                  *)
LEMMA TipScan ==
  ASSUME TypeInv, NetInv, NEW U, NEW F, ScanInv(U, F), SetTip
  PROVE  \E G : ScanInv(U, G)'
<1>n. PICK n : n = cursor.h + 1
  OBVIOUS
<1>0. /\ UNCHANGED <<blocks, utxos, undoing, chain, recorded>> /\ Trail(U)'
      /\ pass.pc = "tip" /\ InBlock /\ pass'.pc = "scan" /\ pass'.watched = pass.watched
      /\ cursor'.h = n /\ cursor'.id = pass.block.id
  BY <1>n, TipStep, PassLeaves DEF ScanInv
<1>1. /\ ~undoing /\ F = cursor.h /\ cursor.h \in Nat /\ n \in 1..Len(U) /\ pass.block = U[n]
      /\ blocks[n] = U[n].id /\ pass.watched = recorded /\ Sound(U) /\ Len(U) \in Nat
      /\ \A i \in 1..F : i \in 1..Len(U) /\ i # n
  BY <1>0, <1>n, InHand
<1>2. \A i \in 1..n : i \in 1..F \/ i = n
  BY <1>n, <1>1
<1>u. \A c \in Coins : utxos[c].h \in Nat /\ utxos[c].spent \in Nat
  BY StoreFields
<1>3. RowsOf(U)'
  <2>1. \A k \in Heights : blocks[k] # 0 => k <= n + 1 /\ k <= Len(U) /\ blocks[k] = U[k].id
    <3>1. \A k \in Heights : blocks[k] # 0 => k <= n /\ k <= Len(U) /\ blocks[k] = U[k].id
      BY <1>n DEF ScanInv, RowsOf
    <3> QED
      BY <1>1, <3>1 DEF Heights
  <2> QED
    BY <1>0, <1>1, <2>1 DEF RowsOf, InBlock
<1>4. Undo(U, n)'
  <2>1. \A k \in 1..n : blocks[k] = U[k].id
    BY <1>1, <1>2 DEF ScanInv, Undo
  <2> QED
    BY <1>0, <1>1, <2>1 DEF Undo, Rollback
<1>5. RightUpTo(U, n)'
  <2>1. ASSUME NEW c \in Coins
        PROVE  /\ utxos[c].h = n <=> c \in U[n].pays
               /\ utxos[c].spent = n <=> c \in UNION U[n].spends
    <3>0. /\ utxos[c].h > cursor.h => utxos[c].h = n /\ c \in U[n].pays
          /\ utxos[c].spent > cursor.h => utxos[c].spent = n /\ c \in UNION U[n].spends
      BY <1>n DEF ScanInv, Beyond, Above
    <3>1. n > cursor.h
      BY <1>n, <1>1
    <3>2. c \in U[n].pays => utxos[c].h = n
      BY <1>n, <1>0, <1>1 DEF ScanInv, Progress
    <3>3. ASSUME c \in UNION U[n].spends PROVE utxos[c].spent = n
      <4>1. PICK y \in U[n].spends : c \in y
        BY <3>3
      <4>2. PICK j \in 1..n : c \in U[j].pays
        BY <1>1, <4>1 DEF Sound, PaidFirst
      <4>3. utxos[c].h = j /\ j # 0
        <5>1. j \in 1..F => utxos[c].h = j
          BY <4>2 DEF ScanInv, RightUpTo
        <5> QED
          BY <1>1, <1>2, <3>2, <4>2, <5>1
      <4>4. utxos[c].spent # 0
        BY <1>0, <1>1, <3>3, <4>3 DEF ScanInv, Progress
      <4>5. ~(utxos[c].spent \in 1..F)
        <5> SUFFICES ASSUME utxos[c].spent \in 1..F PROVE FALSE
          OBVIOUS
        <5>1. PICK i \in 1..F : i = utxos[c].spent
          OBVIOUS
        <5>2. PICK x \in U[i].spends : c \in x
          BY <5>1 DEF ScanInv, RightUpTo
        <5>3. x \cap y = {}
          BY <1>1, <4>1, <5>1, <5>2 DEF Sound, SpendsOnce
        <5> QED
          BY <4>1, <5>2, <5>3
      <4>6. utxos[c].spent > cursor.h
        BY <1>1, <1>u, <4>4, <4>5
      <4> QED
        BY <3>0, <4>6
    <3> QED
      BY <3>0, <3>1, <3>2, <3>3
  <2>2. \A c \in Coins : \A i \in 1..F : /\ utxos[c].h = i <=> c \in U[i].pays
                                         /\ utxos[c].spent = i <=> c \in UNION U[i].spends
    BY DEF ScanInv, RightUpTo
  <2> QED
    BY <1>0, <1>2, <2>1, <2>2 DEF RightUpTo
<1>6. Beyond(U)'
  <2>1. ASSUME NEW c \in Coins PROVE ~(utxos[c].h > n) /\ ~(utxos[c].spent > n)
    <3>1. /\ utxos[c].h > cursor.h => utxos[c].h = n
          /\ utxos[c].spent > cursor.h => utxos[c].spent = n
      BY <1>n DEF ScanInv, Beyond, Above
    <3> QED
      BY <1>n, <1>1, <1>u, <3>1
  <2> QED
    BY <1>0, <2>1 DEF Beyond, Above
<1>7. Progress'
  BY <1>0, <1>1 DEF Progress
<1> QED
  BY <1>0, <1>3, <1>4, <1>5, <1>6, <1>7 DEF ScanInv

(* Every step keeps the store's invariant.                                 *)
LEMMA ScanStep ==
  ASSUME StoreInv, [Next]_vars
  PROVE  StoreInv'
<1>0. Whole /\ TypeInv /\ NetInv /\ TypeOK /\ TypeInv' /\ NetInv'
  BY TypeStep, NetKept DEF StoreInv, TypeInv
<1>1. PICK U, F : ScanInv(U, F)
  BY DEF StoreInv
<1>2. (\E V, G : ScanInv(V, G)') => StoreInv'
  BY <1>0 DEF StoreInv, Whole
<1>3. CASE NetStep
  BY <1>0, <1>1, <1>2, <1>3, NetScan
<1>4. ASSUME NEW v \in Versions, RecordVersion(v) PROVE ScanInv(U, F)'
  BY <1>0, <1>1, <1>4, OthersScan DEF RecordVersion, Whole, netVars, storeVars
<1>5. ASSUME NEW s \in Senders, Send(s) PROVE ScanInv(U, F)'
  BY <1>0, <1>1, <1>5, SendTyped, OthersScan DEF storeVars
<1>6. CASE UNCHANGED vars
  BY <1>1, <1>2, <1>6, OthersScan DEF vars, netVars, storeVars
<1>7. ASSUME NEW done \in SUBSET Coins, CaptureUtxos(done) PROVE ScanInv(U, F)'
  BY <1>0, <1>1, <1>7, CaptureScan
<1>8. ASSUME NEW done \in SUBSET Coins, MarkSpent(done) PROVE ScanInv(U, F)'
  BY <1>0, <1>1, <1>8, MarkScan
<1>9. CASE LoadVersions \/ DropUtxos \/ UnspendUtxos \/ DropBlocks \/ ResetCursor \/ PassFails
  BY <1>0, <1>1, <1>2, <1>9, LoadScan, DropScan, UnspendScan, DropBlocksScan, ResetScan, FailScan
<1>10. CASE CheckTip \/ StoreBlock \/ SetTip
  BY <1>0, <1>1, <1>2, <1>10, CheckScan, StoreScan, TipScan
<1> QED
  BY <1>2, <1>3, <1>4, <1>5, <1>6, <1>7, <1>8, <1>9, <1>10, Steps

(* Rows that are right up to the cursor are what a scan of the best chain  *)
(* finds, once the cursor is on it.                                        *)
LEMMA RowsAreScan ==
  ASSUME TypeInv, NetInv, NEW U, NEW F, ScanInv(U, F)
  PROVE  StoreMatchesChain
<1> SUFFICES ASSUME OnChain(cursor), NEW c \in Coins
             PROVE  RowUpTo(c, cursor.h) = Scanned(c, cursor.h)
  BY DEF StoreMatchesChain
<1> DEFINE h == cursor.h
           u == utxos[c]
           paidAt == {i \in 1..h : c \in chain[i].pays}
           spentAt == {i \in 1..h : c \in UNION chain[i].spends}
<1>1. h \in Nat /\ h <= Len(chain) /\ Len(chain) \in Nat /\ \A k \in 1..h : chain[k] = U[k]
  BY CursorOnChain, Fields, StoreFields DEF ScanInv, TypeInv
<1>2. F = h /\ u.h \in Nat /\ u.spent \in Nat /\ u = [h |-> u.h, spent |-> u.spent]
  <2>1. F = h
    BY DEF ScanInv, Undo
  <2>2. utxos[c] \in [h : 0..MaxBlocks, spent : 0..MaxBlocks]
    BY StoreFields DEF TypeInv
  <2> QED
    BY <2>1, <2>2, IngestAssumption
<1>3. \A i \in 1..h : (u.h = i <=> c \in chain[i].pays)
                      /\ (u.spent = i <=> c \in UNION chain[i].spends)
  BY <1>1, <1>2 DEF ScanInv, RightUpTo
<1>4. CASE u.h = 0 \/ u.h > h
  <2>1. paidAt = {}
    BY <1>1, <1>2, <1>3, <1>4
  <2>2. RowUpTo(c, h) = NoRow
    BY <1>4 DEF RowUpTo
  <2> QED
    BY <2>1, <2>2 DEF Scanned
<1>5. CASE ~(u.h = 0 \/ u.h > h)
  <2>1. u.h \in 1..h
    BY <1>1, <1>2, <1>5
  <2>2. paidAt = {u.h}
    BY <1>3, <2>1
  <2>3. owner[c] \in recorded
    <3>1. u.h \in 1..Len(chain) /\ c \in chain[u.h].pays
      BY <1>1, <1>3, <2>1
    <3>2. Sound(chain)
      BY DEF NetInv, Branches
    <3> QED
      BY <3>1, <3>2 DEF NetInv, Sound, PaysOnce, PaysRecorded
  <2>4. u.spent = 0 \/ u.spent > h => spentAt = {}
    BY <1>1, <1>2, <1>3
  <2>5. ~(u.spent = 0 \/ u.spent > h) => spentAt = {u.spent}
    <3>1. ~(u.spent = 0 \/ u.spent > h) => u.spent \in 1..h
      BY <1>1, <1>2
    <3> QED
      BY <1>3, <3>1
  <2> DEFINE only(S) == IF S = {} THEN 0 ELSE CHOOSE i \in S : TRUE
             sp == IF u.spent > h THEN 0 ELSE u.spent
  <2>6. only(paidAt) = u.h
    BY <2>2
  <2>7. only(spentAt) = sp
    <3> HIDE DEF spentAt, u
    <3>1. CASE u.spent = 0 \/ u.spent > h
      <4>1. spentAt = {} /\ sp = 0
        BY <2>4, <3>1
      <4> QED
        BY <4>1
    <3>2. CASE ~(u.spent = 0 \/ u.spent > h)
      <4>1. spentAt = {u.spent} /\ sp = u.spent
        BY <2>5, <3>2
      <4> QED
        BY <4>1
    <3> QED
      BY <3>1, <3>2
  <2>8. RowUpTo(c, h) = [h |-> u.h, spent |-> sp]
    BY <1>2, <1>5 DEF RowUpTo
  <2>9. Scanned(c, h) = [h |-> only(paidAt), spent |-> only(spentAt)]
    BY <2>2, <2>3 DEF Scanned
  <2> HIDE DEF only, sp, paidAt, spentAt, u
  <2> QED
    BY <2>6, <2>7, <2>8, <2>9
<1> QED
  BY <1>4, <1>5

(* However passes are cut short between two statements, whatever is        *)
(* reorganised and whatever branch the node returns to: when the cursor is *)
(* on the best chain, the captured coins and their spent heights are those *)
(* of the chain up to it, for any coins and versions and any numbers of    *)
(* blocks, reorganisations and faults.  Whole names the three exceptions,  *)
(* each of which leaves the store wrong: a version recorded during a pass, *)
(* a block reorganised away half scanned, and a stored block that comes    *)
(* back to the best chain while a rollback is under way or cut short.      *)
THEOREM IngestStoreMatchesChain == Whole /\ Spec => []StoreMatchesChain
<1>1. Whole /\ Init => StoreInv
  <2> SUFFICES ASSUME Whole, Init PROVE StoreInv
    OBVIOUS
  <2>1. /\ chain = <<>> /\ Len(chain) = 0 /\ chain \in Seq(Block) /\ stale = {}
        /\ cursor.h = 0 /\ cursor.id = 0 /\ pass.pc = "idle" /\ undoing = FALSE
        /\ paid = {} /\ pool.pays = {} /\ pool.spends = {}
        /\ \A k \in Heights : blocks[k] = 0
        /\ \A c \in Coins : utxos[c].h = 0 /\ utxos[c].spent = 0
    BY NoPassTyped DEF Init, NoTip, NoRow
  <2>2. NetInv
    BY <2>1 DEF NetInv, IdsKnown, Tree, Agree, PoolApart, PaysRecorded, Branches, Sound,
                PaysOnce, SpendsOnce, PaidFirst
  <2>3. Trail(<<>>)
    BY <2>1 DEF Trail, Branches, Prefix
  <2>4. RowsOf(<<>>)
    BY <2>1 DEF RowsOf, InBlock
  <2>5. Undo(<<>>, 0) /\ RightUpTo(<<>>, 0)
    BY <2>1 DEF Undo, Rollback, RightUpTo
  <2>6. Beyond(<<>>) /\ Progress
    BY <2>1 DEF Beyond, Above, Progress
  <2>7. ScanInv(<<>>, 0)
    BY <2>3, <2>4, <2>5, <2>6 DEF ScanInv
  <2> QED
    BY <2>2, <2>7, TypeInit DEF StoreInv
<1>2. StoreInv /\ [Next]_vars => StoreInv'
  BY ScanStep
<1>3. StoreInv => StoreMatchesChain
  BY RowsAreScan DEF StoreInv
<1>4. CASE Whole
  BY <1>1, <1>2, <1>3, <1>4, PTL DEF Spec
<1> QED
  BY <1>4

=============================================================================
