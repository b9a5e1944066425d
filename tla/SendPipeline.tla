---------------------------- MODULE SendPipeline ----------------------------
(***************************************************************************)
(* Bitcoin sends of one user: send_post and max_spend of                   *)
(* src/handlers/wallet.rs over build_sign_and_broadcast, sweep_to and      *)
(* compute_drain_amount of src/wallet.rs, with the sync that comes first.  *)
(*                                                                         *)
(* A coin is a deposit or the change output of a payment, which is named   *)
(* by the payment.  Of the changeset only the last revealed index of the   *)
(* internal keychain is kept (0: none), where change addresses come from.  *)
(* Amounts, fees and signatures are left out; that a token refuses to sign *)
(* or the funds are too small is a build that fails.                       *)
(***************************************************************************)
EXTENDS Integers, FiniteSets

CONSTANTS
  Tasks,         \* requests of the user that may be in flight together
  Deposits,      \* deposits that may be paid
  OldDeposits,   \* those of them at an earlier federation version
  Lookahead,     \* indexes beyond the last revealed that a wallet recognises
  LateOverlaps,  \* whether a request may start while the transaction of one
                 \* that was dropped is still on its way to the network
  MaxPays,       \* bound on the transactions ever built
  MaxLostWrites, \* bound on changesets whose write fails
  MaxRestarts    \* bound on process restarts

Payments == 1..MaxPays
Coins == Deposits \cup Payments

ASSUME SendAssumption ==
  /\ Deposits \cap (1..MaxPays) = {}
  /\ OldDeposits \subseteq Deposits
  /\ Lookahead \in Nat /\ MaxPays \in Nat
  /\ MaxLostWrites \in Nat /\ MaxRestarts \in Nat
  /\ LateOverlaps \in BOOLEAN

VARIABLES
  arrived,  \* deposits on the network
  net,      \* payment -> what became of it
  tx,       \* payment -> its inputs, its change index (0: no change)
  inner,    \* the wallet of the current federation: what its last sync saw,
            \* the last revealed index, and the index staged and not yet taken
  agg,      \* aggregate: last revealed index
  db,       \* wallets.bdk_changeset: last revealed index
  ledger,   \* transactions: payments recorded
  task,     \* progress of the requests
  late,     \* payments on their way to the network without their request
  lost,     \* changesets whose write failed so far
  restarts  \* process restarts so far

vars == <<arrived, net, tx, inner, agg, db, ledger, task, late, lost, restarts>>

Fate == {"unbuilt", "built", "mempool", "confirmed", "replaced"}

Indexes == 0..MaxPays

NoTx == [ins |-> {}, change |-> 0]

(* A request's locals: what it is to do, the coins its sync showed in the  *)
(* version wallets, its transaction, delta and json of a changeset.        *)
Idle == [pc |-> "idle", kind |-> "amount", balance |-> {}, tx |-> 0, delta |-> 0, json |-> 0]

Kinds == {"amount", "max", "preview"}

Task == [pc : {"idle", "versions", "inner", "merge", "write", "build", "broadcast", "insert"},
         kind : Kinds, balance : SUBSET Coins, tx : 0..MaxPays,
         delta : Indexes, json : Indexes]

Loaded(i) == [deps |-> {}, seen |-> {}, idx |-> i, stage |-> 0]

Init ==
  /\ arrived = {}
  /\ net = [p \in Payments |-> "unbuilt"]
  /\ tx = [p \in Payments |-> NoTx]
  /\ inner = Loaded(0) /\ agg = 0 /\ db = 0
  /\ ledger = {}
  /\ task = [t \in Tasks |-> Idle]
  /\ late = {} /\ lost = 0 /\ restarts = 0

MaxOf(a, b) == IF a >= b THEN a ELSE b

Mempool == {p \in Payments : net[p] = "mempool"}
Live == {p \in Payments : net[p] \in {"mempool", "confirmed"}}
Taken == {p \in Payments : net[p] \in {"mempool", "confirmed", "replaced"}}

WithChange(S) == {p \in S : tx[p].change # 0}
SpentBy(S) == UNION {tx[p].ins : p \in S}

-----------------------------------------------------------------------------
(* The network.                                                            *)
Deposit(d) ==
  /\ d \notin arrived
  /\ arrived' = arrived \cup {d}
  /\ UNCHANGED <<net, tx, inner, agg, db, ledger, task, late, lost, restarts>>

(* A block confirms a payment whose inputs are confirmed too.              *)
Confirm(p) ==
  /\ net[p] = "mempool"
  /\ \A q \in tx[p].ins \cap Payments : net[q] = "confirmed"
  /\ net' = [net EXCEPT ![p] = "confirmed"]
  /\ UNCHANGED <<arrived, tx, inner, agg, db, ledger, task, late, lost, restarts>>

(* What the node's mempool drops when it takes p: the transactions that    *)
(* spend one of its inputs, and all that build on them.                    *)
Conflicts(p) == {q \in Mempool : tx[q].ins \cap tx[p].ins # {}}

Displaced(p) ==
  LET closed(S) == /\ Conflicts(p) \subseteq S
                   /\ \A r \in Mempool : tx[r].ins \cap S # {} => r \in S
  IN {q \in Mempool : \A S \in SUBSET Mempool : closed(S) => q \in S}

(* Inputs must exist and not be spent by a confirmed transaction; one in   *)
(* the mempool is replaced (BDK's transactions signal it) by one that pays *)
(* a higher fee.                                                           *)
Valid(p) ==
  /\ tx[p].ins \subseteq arrived \cup WithChange(Live)
  /\ tx[p].ins \cap SpentBy(Live \ Mempool) = {}
  /\ tx[p].ins \cap Displaced(p) = {}

Arrive(p) ==
  /\ Valid(p)
  /\ net' = [q \in Payments |-> IF q = p THEN "mempool"
                                ELSE IF q \in Displaced(p) THEN "replaced" ELSE net[q]]

-----------------------------------------------------------------------------
Goto(t, pc) == task' = [task EXCEPT ![t].pc = pc]
End(t) == task' = [task EXCEPT ![t] = Idle]

(* Mutant: only the Max button syncs; a send uses the wallet as it is.     *)
Start_NoSync(t, kind) ==
  /\ task[t].pc = "idle"
  /\ task' = [task EXCEPT ![t] = [Idle EXCEPT !.pc = IF kind = "preview" THEN "versions" ELSE "build",
                                              !.kind = kind]]
  /\ UNCHANGED <<arrived, net, tx, inner, agg, db, ledger, late, lost, restarts>>

(* send_post, or max_spend of the Max button: the wallet is loaded and     *)
(* synced first.                                                           *)
Start(t, kind) ==
  /\ LateOverlaps \/ late = {}
  /\ task[t].pc = "idle"
  /\ task' = [task EXCEPT ![t] = [Idle EXCEPT !.pc = "versions", !.kind = kind]]
  /\ UNCHANGED <<arrived, net, tx, inner, agg, db, ledger, late, lost, restarts>>

(* What a synced wallet lists as unspent: deposits, and change that is     *)
(* within the lookahead.                                                   *)
Unspent(deps, seen, upto) ==
  (deps \cup {p \in WithChange(seen) : tx[p].change <= upto}) \ SpentBy(seen)

(* The version wallets are synced one after the other; balance() adds them *)
(* up.                                                                     *)
SyncVersions(t) ==
  /\ task[t].pc = "versions"
  /\ task' = [task EXCEPT ![t].pc = "inner",
                          ![t].balance = Unspent(arrived, Live, MaxPays)]
  /\ UNCHANGED <<arrived, net, tx, inner, agg, db, ledger, late, lost, restarts>>

(* inner is synced under its lock.  Change found beyond the last revealed  *)
(* index reveals it; what is staged is taken.                              *)
FoundIdx ==
  LET found == {tx[p].change : p \in Live} IN
  CHOOSE i \in found \cup {inner.idx} :
    /\ i <= inner.idx + Lookahead
    /\ \A k \in found \cup {inner.idx} : k <= inner.idx + Lookahead => k <= i

SyncInner(t) ==
  LET deps == arrived \ OldDeposits
      same == inner = [deps |-> deps, seen |-> Live, idx |-> FoundIdx, stage |-> 0]
  IN
  /\ task[t].pc = "inner"
  /\ inner' = [deps |-> deps, seen |-> Live, idx |-> FoundIdx, stage |-> 0]
  /\ task' = [task EXCEPT ![t].pc = IF same THEN "build" ELSE "merge",
                          ![t].delta = IF FoundIdx > inner.idx THEN FoundIdx ELSE inner.stage]
  /\ UNCHANGED <<arrived, net, tx, agg, db, ledger, late, lost, restarts>>

(* Under the aggregate's lock the delta is merged and encoded ...          *)
MergeDelta(t) ==
  LET new == MaxOf(agg, task[t].delta) IN
  /\ task[t].pc = "merge"
  /\ agg' = new
  /\ task' = [task EXCEPT ![t].pc = "write", ![t].json = new]
  /\ UNCHANGED <<arrived, net, tx, inner, db, ledger, late, lost, restarts>>

(* ... and written after the lock is released: by persist_sync before the  *)
(* build, and once more after it, before the broadcast.                    *)
WriteChangeset(t) ==
  /\ task[t].pc = "write"
  /\ db' = task[t].json
  /\ Goto(t, IF task[t].tx = 0 THEN "build" ELSE "broadcast")
  /\ UNCHANGED <<arrived, net, tx, inner, agg, ledger, late, lost, restarts>>

-----------------------------------------------------------------------------
(* Mutant: a fresh address every time.                                     *)
NextIdx_AlwaysFresh == inner.idx + 1

(* The index of the next change address: the least that no transaction in  *)
(* the wallet uses.                                                        *)
NextIdx ==
  LET used == {tx[p].change : p \in inner.seen}
      free == (1..MaxPays) \ used
  IN CHOOSE i \in free : \A k \in free : i <= k

NextPay == CHOOSE p \in Payments : net[p] = "unbuilt" /\ \A q \in 1..(p - 1) : net[q] # "unbuilt"

Buildable == \E p \in Payments : net[p] = "unbuilt"

Spendable == Unspent(inner.deps, inner.seen, inner.idx + Lookahead)

(* Mutant: the delta of the build is dropped.                              *)
BuildTx_NoPersist(t, C, change) ==
  /\ task[t].pc = "build"
  /\ Buildable
  /\ C # {} /\ C \subseteq Spendable
  /\ inner' = [inner EXCEPT !.idx = MaxOf(@, change), !.stage = 0]
  /\ tx' = [tx EXCEPT ![NextPay] = [ins |-> C, change |-> change]]
  /\ net' = [net EXCEPT ![NextPay] = "built"]
  /\ task' = [task EXCEPT ![t].tx = NextPay, ![t].pc = "broadcast"]
  /\ UNCHANGED <<arrived, agg, db, ledger, late, lost, restarts>>

(* Under inner's lock a transaction is built, signed by the federation and *)
(* finalised, and the staged delta taken.  The transaction is not entered  *)
(* into the wallet.                                                        *)
BuildTx(t, C, change) ==
  LET new == change > inner.idx
      delta == IF new THEN change ELSE inner.stage
  IN
  /\ task[t].pc = "build"
  /\ Buildable
  /\ C # {} /\ C \subseteq Spendable
  /\ inner' = [inner EXCEPT !.idx = MaxOf(@, change), !.stage = 0]
  /\ tx' = [tx EXCEPT ![NextPay] = [ins |-> C, change |-> change]]
  /\ net' = [net EXCEPT ![NextPay] = "built"]
  /\ task' = [task EXCEPT ![t].tx = NextPay, ![t].delta = delta,
                          ![t].pc = IF delta # 0 THEN "merge" ELSE "broadcast"]
  /\ UNCHANGED <<arrived, agg, db, ledger, late, lost, restarts>>

(* An amount, with change or without.                                      *)
build_sign_and_broadcast(t, C) ==
  /\ task[t].kind = "amount"
  /\ BuildTx(t, C, 0) \/ BuildTx(t, C, NextIdx)

(* Mutant: the drain leaves one coin out.                                  *)
sweep_to_Partial(t, C) ==
  /\ task[t].kind = "max"
  /\ Spendable # {} => Cardinality(C) >= Cardinality(Spendable) - 1
  /\ BuildTx(t, C, 0)

(* Send-Max: every coin of inner, no change.                               *)
sweep_to(t, C) ==
  /\ task[t].kind = "max"
  /\ C = Spendable
  /\ BuildTx(t, C, 0)

(* The Max button: a drain is built and thrown away.                       *)
compute_drain_amount(t) ==
  /\ task[t].pc = "build"
  /\ task[t].kind = "preview"
  /\ End(t)
  /\ UNCHANGED <<arrived, net, tx, inner, agg, db, ledger, late, lost, restarts>>

(* Bad address or amount, too little money: nothing happens.  A token that *)
(* does not sign leaves the change address revealed and staged.            *)
BuildFails(t) ==
  /\ task[t].pc = "build"
  /\ \/ UNCHANGED inner
     \/ /\ task[t].kind = "amount" /\ Buildable /\ Spendable # {}
        /\ NextIdx > inner.idx
        /\ inner' = [inner EXCEPT !.idx = NextIdx, !.stage = NextIdx]
  /\ End(t)
  /\ UNCHANGED <<arrived, net, tx, agg, db, ledger, late, lost, restarts>>

(* broadcast_raw.  Any error, also a lost answer to a transaction that the *)
(* node has taken, ends the request.                                       *)
Broadcast(t) ==
  LET p == task[t].tx IN
  /\ task[t].pc = "broadcast"
  /\ \/ Arrive(p) /\ (Goto(t, "insert") \/ End(t)) /\ UNCHANGED late
     \/ UNCHANGED <<net, late>> /\ End(t)
     \/ late' = late \cup {p} /\ UNCHANGED net /\ End(t)
  /\ UNCHANGED <<arrived, tx, inner, agg, db, ledger, lost, restarts>>

(* spawn_blocking runs on when its request was dropped, and the node takes *)
(* a call whose client has given up.                                       *)
LateArrive(p) ==
  /\ p \in late
  /\ late' = late \ {p}
  /\ Arrive(p) \/ UNCHANGED net
  /\ UNCHANGED <<arrived, tx, inner, agg, db, ledger, task, lost, restarts>>

(* insert_transaction; then the redirect to the page of the transaction.   *)
InsertLedger(t) ==
  /\ task[t].pc = "insert"
  /\ ledger' = ledger \cup {task[t].tx}
  /\ End(t)
  /\ UNCHANGED <<arrived, net, tx, inner, agg, db, late, lost, restarts>>

(* The backend or the database fails, or the request is dropped because    *)
(* its client left: the rest does not happen.                              *)
Abort(t) ==
  /\ task[t].pc \in {"versions", "inner", "write", "insert"}
  /\ lost' = IF task[t].pc = "write" THEN lost + 1 ELSE lost
  /\ lost' <= MaxLostWrites
  /\ End(t)
  /\ UNCHANGED <<arrived, net, tx, inner, agg, db, ledger, late, restarts>>

(* The process is restarted; the wallet comes from its row.                *)
Restart ==
  /\ restarts < MaxRestarts
  /\ restarts' = restarts + 1
  /\ inner' = Loaded(db) /\ agg' = db
  /\ task' = [t \in Tasks |-> Idle]
  /\ UNCHANGED <<arrived, net, tx, db, ledger, late, lost>>

Step(t) ==
  \/ SyncVersions(t) \/ SyncInner(t) \/ MergeDelta(t) \/ WriteChangeset(t)
  \/ \E C \in SUBSET Coins : build_sign_and_broadcast(t, C) \/ sweep_to(t, C)
  \/ compute_drain_amount(t) \/ BuildFails(t)
  \/ Broadcast(t) \/ InsertLedger(t) \/ Abort(t)

Next ==
  \/ \E d \in Deposits : Deposit(d)
  \/ \E p \in Payments : Confirm(p) \/ LateArrive(p)
  \/ \E t \in Tasks : Step(t) \/ \E kind \in Kinds : Start(t, kind)
  \/ Restart

Spec == Init /\ [][Next]_vars

-----------------------------------------------------------------------------
TypeOK ==
  /\ arrived \subseteq Deposits
  /\ net \in [Payments -> Fate]
  /\ tx \in [Payments -> [ins : SUBSET Coins, change : Indexes]]
  /\ inner \in [deps : SUBSET Deposits, seen : SUBSET Payments, idx : Indexes, stage : Indexes]
  /\ agg \in Indexes /\ db \in Indexes
  /\ ledger \subseteq Payments /\ late \subseteq Payments
  /\ task \in [Tasks -> Task]
  /\ lost \in 0..MaxLostWrites /\ restarts \in 0..MaxRestarts

Ledger == INSTANCE PaymentLedger WITH live <- Live, known <- Taken

(* The sends implement PaymentLedger: with errors, lost answers, repeated  *)
(* sends and restarts, no send of the wallet ever pushes out an earlier    *)
(* one that stands, and transactions has rows only for payments that the   *)
(* network has taken.                                                      *)
ImplementsLedger == Ledger!Spec

(* The changeset is written before the broadcast, so a wallet that is      *)
(* restarted from its row still recognises the change of every payment     *)
(* that stands, although a write that failed is never repeated: an index   *)
(* of lookahead for each failed write is enough.                           *)
ChangeFound == \A p \in Live : tx[p].change <= db + Lookahead

(* "Send Max" drains the whole balance to the recipient: every coin that   *)
(* the sync of the request showed in the balance is an input.              *)
SendMaxDrains ==
  \A t \in Tasks : task[t].kind = "max" /\ task[t].tx # 0 =>
    task[t].balance \subseteq tx[task[t].tx].ins
=============================================================================
