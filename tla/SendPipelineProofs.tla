------------------------- MODULE SendPipelineProofs -------------------------
(***************************************************************************)
(* Proofs about SendPipeline: its type invariant for any number of         *)
(* requests; for requests that come one at a time the refinement of        *)
(* PaymentLedger, that change is found after a restart, and that Send-Max  *)
(* drains the balance; and what requests that overlap still keep.          *)
(***************************************************************************)
EXTENDS SendPipeline, FiniteSetTheorems, WellFoundedInduction, TLAPS

-----------------------------------------------------------------------------
(* Least and greatest elements, and the operators that choose one.         *)

(* A nonempty set of naturals has a least element.                         *)
LEMMA NatHasMin ==
  ASSUME NEW S \in SUBSET Nat, S # {}
  PROVE  \E i \in S : \A k \in S : i <= k
<1> DEFINE R == OpToRel(<, Nat)
<1>1. PICK i \in S : \A k \in S : <<k, i>> \notin R
  <2>1. IsWellFoundedOn(R, Nat)
    BY NatLessThanWellFounded
  <2> HIDE DEF R
  <2> QED
    BY <2>1, WFMin
<1>2. ASSUME NEW k \in S, ~(i <= k)
      PROVE  FALSE
  <2>1. k < i
    BY <1>2
  <2>2. <<k, i>> \in R
    BY <2>1 DEF OpToRel
  <2> QED
    BY <2>2, <1>1
<1> QED
  BY <1>1, <1>2

(* A nonempty set of naturals up to a bound has a greatest element.        *)
LEMMA NatHasMax ==
  ASSUME NEW n \in Nat, NEW S \in SUBSET (0..n), S # {}
  PROVE  \E i \in S : \A k \in S : k <= i
<1> DEFINE T == {n - i : i \in S}
<1>1. T \in SUBSET Nat /\ T # {}
  <2>1. \A i \in S : i \in Int /\ n - i \in Nat
    OBVIOUS
  <2>2. PICK s \in S : TRUE
    OBVIOUS
  <2>3. n - s \in T
    OBVIOUS
  <2> QED
    BY <2>1, <2>3
<1>2. PICK j \in T : \A k \in T : j <= k
  <2> HIDE DEF T
  <2> QED
    BY <1>1, NatHasMin
<1>3. PICK i \in S : j = n - i
  BY <1>2
<1>4. ASSUME NEW k \in S
      PROVE  k <= i
  <2>1. n - k \in T
    OBVIOUS
  <2>2. n - i <= n - k
    BY <2>1, <1>2, <1>3
  <2> QED
    BY <2>2
<1> QED
  BY <1>3, <1>4

(* The next payment to be built is one that was not built before.          *)
LEMMA NextPayUnbuilt ==
  ASSUME Buildable
  PROVE  NextPay \in Payments /\ net[NextPay] = "unbuilt"
<1> DEFINE S == {p \in Payments : net[p] = "unbuilt"}
<1>1. S \in SUBSET Nat /\ S # {}
  BY SendAssumption DEF Buildable, Payments
<1>2. PICK p \in S : \A q \in S : p <= q
  <2> HIDE DEF S
  <2> QED
    BY <1>1, NatHasMin
<1>3. \A q \in 1..(p - 1) : net[q] # "unbuilt"
  BY <1>2, SendAssumption DEF Payments
<1>4. \E r \in Payments : net[r] = "unbuilt" /\ \A q \in 1..(r - 1) : net[q] # "unbuilt"
  BY <1>2, <1>3
<1> QED
  BY <1>4 DEF NextPay

(* While a payment is left to build, some change index is unused by the    *)
(* transactions in the wallet: there are as many indexes as payments.      *)
LEMMA NextIdxFree ==
  ASSUME TypeOK, inner.seen \subseteq Taken, Buildable
  PROVE  /\ NextIdx \in 1..MaxPays
         /\ \A k \in 1..MaxPays : (\A p \in inner.seen : tx[p].change # k) => NextIdx <= k
<1> DEFINE used == {tx[p].change : p \in inner.seen}
           free == (1..MaxPays) \ used
<1>1. PICK q \in Payments : net[q] = "unbuilt"
  BY DEF Buildable
<1>2. q \notin inner.seen
  BY <1>1 DEF Taken
<1>3. inner.seen \subseteq Payments \ {q}
  BY <1>2 DEF TypeOK
<1>4. /\ IsFiniteSet(Payments) /\ Cardinality(Payments) = MaxPays
      /\ IsFiniteSet(Payments \ {q}) /\ Cardinality(Payments \ {q}) = MaxPays - 1
  <2>1. IsFiniteSet(Payments) /\ Cardinality(Payments) = MaxPays
    BY FS_Interval, SendAssumption, <1>1 DEF Payments
  <2> QED
    BY <2>1, <1>1, FS_RemoveElement
<1>5. ASSUME free = {}
      PROVE  FALSE
  <2> DEFINE g == [i \in Payments |-> CHOOSE p \in inner.seen : tx[p].change = i]
  <2>1. \A i \in Payments : \E p \in inner.seen : tx[p].change = i
    BY <1>5 DEF Payments
  <2>2. \A i \in Payments : g[i] \in inner.seen /\ tx[g[i]].change = i
    BY <2>1
  <2>3. g \in [Payments -> Payments \ {q}]
    BY <2>2, <1>3
  <2> HIDE DEF g
  <2>4. PICK x, y \in Payments : x # y /\ g[x] = g[y]
    BY <2>3, <1>4, FS_PigeonHole, SendAssumption
  <2> QED
    BY <2>2, <2>4
<1>6. free \in SUBSET Nat
  BY SendAssumption
<1>7. \E i \in free : \A k \in free : i <= k
  <2> HIDE DEF free
  <2> QED
    BY <1>5, <1>6, NatHasMin
<1>8. NextIdx \in free /\ \A k \in free : NextIdx <= k
  BY <1>7 DEF NextIdx
<1> QED
  BY <1>8

(* The index that a sync finds is the greatest within the lookahead.       *)
LEMMA FoundIdxGreatest ==
  ASSUME TypeOK
  PROVE  /\ FoundIdx \in Indexes /\ FoundIdx >= inner.idx
         /\ FoundIdx = inner.idx \/ \E p \in Live : FoundIdx = tx[p].change
         /\ \A p \in Live : tx[p].change <= inner.idx + Lookahead => tx[p].change <= FoundIdx
<1> DEFINE found == {tx[p].change : p \in Live} \cup {inner.idx}
           near == {i \in found : i <= inner.idx + Lookahead}
<1>1. found \in SUBSET (0..MaxPays) /\ inner.idx \in found
  BY DEF TypeOK, Live, Indexes
<1>2. near \in SUBSET (0..MaxPays) /\ inner.idx \in near
  BY <1>1, SendAssumption DEF TypeOK, Indexes
<1>3. PICK i \in near : \A k \in near : k <= i
  <2> HIDE DEF near
  <2> QED
    BY <1>2, NatHasMax, SendAssumption
<1>4. \E j \in found : j <= inner.idx + Lookahead
                       /\ \A k \in found : k <= inner.idx + Lookahead => k <= j
  BY <1>3
<1>5. /\ FoundIdx \in found /\ FoundIdx <= inner.idx + Lookahead
      /\ \A k \in found : k <= inner.idx + Lookahead => k <= FoundIdx
  BY <1>4 DEF FoundIdx
<1>6. FoundIdx >= inner.idx
  BY <1>5, <1>1, <1>2
<1> QED
  BY <1>1, <1>5, <1>6 DEF Indexes

-----------------------------------------------------------------------------
(* Types, for any number of requests in flight.                            *)

(* The type invariant with what makes it inductive: the wallet has seen    *)
(* only payments that the network has taken, and a request that broadcasts *)
(* or records has a transaction.                                           *)
TypeInv ==
  /\ TypeOK
  /\ inner.seen \subseteq Taken
  /\ \A t \in Tasks : task[t].pc \in {"broadcast", "insert"} => task[t].tx # 0

(* What Arrive does to the fates: nothing that was taken is forgotten.     *)
LEMMA ArriveTakes ==
  ASSUME TypeOK, NEW p, Arrive(p)
  PROVE  net' \in [Payments -> Fate] /\ Taken \subseteq Taken'
BY DEF TypeOK, Arrive, Taken, Fate

(* A request that ends, or goes to another point, stays typed.             *)
LEMMA EndTyped ==
  ASSUME TypeOK, NEW t \in Tasks, End(t)
  PROVE  /\ task' \in [Tasks -> Task]
         /\ task'[t] = Idle
         /\ \A u \in Tasks \ {t} : task'[u] = task[u]
BY SendAssumption DEF TypeOK, End, Task, Idle, Kinds, Indexes

(* A request whose record is replaced by a typed one.                      *)
LEMMA TaskSet ==
  ASSUME TypeOK, NEW t \in Tasks, NEW r \in Task, task' = [task EXCEPT ![t] = r]
  PROVE  /\ task' \in [Tasks -> Task]
         /\ task'[t] = r
         /\ \A u \in Tasks \ {t} : task'[u] = task[u]
BY DEF TypeOK

(* The fields of a typed request.                                          *)
LEMMA TaskFields ==
  ASSUME TypeOK, NEW t \in Tasks
  PROVE  /\ task[t] \in Task
         /\ task[t].kind \in Kinds /\ task[t].balance \in SUBSET Coins /\ task[t].tx \in 0..MaxPays
         /\ task[t].delta \in Indexes /\ task[t].json \in Indexes
BY DEF TypeOK, Task

(* Each part of a request preserves the type invariant.                    *)
LEMMA StepTyped ==
  ASSUME TypeInv, NEW t \in Tasks, Step(t)
  PROVE  TypeInv'
<1> USE SendAssumption DEF TypeInv
<1>1. CASE SyncVersions(t)
  <2>1. Unspent(arrived, Live, MaxPays) \in SUBSET Coins
    BY DEF Unspent, WithChange, Live, TypeOK, Coins
  <2> DEFINE r == [task[t] EXCEPT !.pc = "inner", !.balance = Unspent(arrived, Live, MaxPays)]
  <2>2. r \in Task /\ r.pc = "inner"
    BY <2>1, TaskFields DEF Task
  <2>3. task' = [task EXCEPT ![t] = r]
    BY <1>1 DEF SyncVersions
  <2> HIDE DEF r
  <2> QED
    BY <1>1, <2>2, <2>3, TaskSet DEF SyncVersions, TypeOK, Taken
<1>2. CASE SyncInner(t)
  <2>1. Live \subseteq Taken /\ Live \subseteq Payments
    BY DEF Live, Taken
  <2>2. inner'.seen = Live
        /\ inner' \in [deps : SUBSET Deposits, seen : SUBSET Payments, idx : Indexes, stage : Indexes]
    BY <1>2, <2>1, FoundIdxGreatest DEF SyncInner, TypeOK, Indexes
  <2>3. PICK pc \in {"build", "merge"}, delta \in Indexes :
          task' = [task EXCEPT ![t].pc = pc, ![t].delta = delta]
    BY <1>2, FoundIdxGreatest DEF SyncInner, TypeOK
  <2> DEFINE r == [task[t] EXCEPT !.pc = pc, !.delta = delta]
  <2>4. r \in Task /\ r.pc = pc
    BY <2>3, TaskFields DEF Task
  <2>5. task' = [task EXCEPT ![t] = r]
    BY <2>3
  <2>6. UNCHANGED <<arrived, net, tx, agg, db, ledger, late, lost, restarts>>
    BY <1>2 DEF SyncInner
  <2> HIDE DEF r
  <2> QED
    BY <2>1, <2>2, <2>3, <2>4, <2>5, <2>6, TaskSet DEF TypeOK, Taken
<1>3. CASE MergeDelta(t)
  <2> DEFINE new == MaxOf(agg, task[t].delta)
  <2>1. new \in Indexes
    BY <1>3, TaskFields DEF MergeDelta, TypeOK, MaxOf
  <2> DEFINE r == [task[t] EXCEPT !.pc = "write", !.json = new]
  <2>2. r \in Task /\ r.pc = "write"
    <3> HIDE DEF new
    <3> QED
      BY <2>1, TaskFields DEF Task
  <2>3. task' = [task EXCEPT ![t] = r]
    BY <1>3 DEF MergeDelta
  <2> HIDE DEF r
  <2> QED
    BY <1>3, <2>1, <2>2, <2>3, TaskSet DEF MergeDelta, TypeOK, Taken
<1>4. CASE WriteChangeset(t)
  BY <1>4 DEF WriteChangeset, Goto, TypeOK, Taken, Task
<1>5. ASSUME NEW C \in SUBSET Coins, NEW change \in 0..MaxPays, BuildTx(t, C, change)
      PROVE  TypeInv'
  <2>1. NextPay \in Payments /\ net[NextPay] = "unbuilt"
    BY <1>5, NextPayUnbuilt DEF BuildTx
  <2>2. Taken \subseteq Taken'
    BY <1>5, <2>1 DEF BuildTx, Taken, TypeOK
  <2>3. inner' \in [deps : SUBSET Deposits, seen : SUBSET Payments, idx : Indexes, stage : Indexes]
        /\ inner'.seen = inner.seen
    <3>1. MaxOf(inner.idx, change) \in Indexes /\ 0 \in Indexes
      BY DEF TypeOK, MaxOf, Indexes
    <3> QED
      BY <1>5, <3>1 DEF BuildTx, TypeOK
  <2>4. tx' \in [Payments -> [ins : SUBSET Coins, change : Indexes]]
    BY <1>5, <2>1 DEF BuildTx, TypeOK, Indexes
  <2>5. net' \in [Payments -> Fate]
    BY <1>5, <2>1 DEF BuildTx, TypeOK, Fate
  <2>6. task' \in [Tasks -> Task] /\ task'[t].tx # 0
        /\ \A u \in Tasks \ {t} : task'[u] = task[u]
    BY <1>5, <2>1 DEF BuildTx, TypeOK, Task, Indexes, Payments
  <2> QED
    BY <1>5, <2>2, <2>3, <2>4, <2>5, <2>6 DEF BuildTx, TypeOK
<1>6. ASSUME NEW C \in SUBSET Coins, build_sign_and_broadcast(t, C)
      PROVE  TypeInv'
  <2>1. CASE BuildTx(t, C, 0)
    BY <2>1, <1>5
  <2>2. CASE BuildTx(t, C, NextIdx)
    <3>1. NextIdx \in 0..MaxPays
      BY <2>2, NextIdxFree DEF BuildTx
    <3> QED
      BY <2>2, <3>1, <1>5
  <2> QED
    BY <1>6, <2>1, <2>2 DEF build_sign_and_broadcast
<1>7. ASSUME NEW C \in SUBSET Coins, sweep_to(t, C)
      PROVE  TypeInv'
  BY <1>7, <1>5 DEF sweep_to
<1>8. CASE compute_drain_amount(t)
  BY <1>8, EndTyped DEF compute_drain_amount, TypeOK, Taken, Idle
<1>9. CASE BuildFails(t)
  <2>1. inner' \in [deps : SUBSET Deposits, seen : SUBSET Payments, idx : Indexes, stage : Indexes]
        /\ inner'.seen = inner.seen
    <3>1. CASE UNCHANGED inner
      BY <3>1 DEF TypeOK
    <3>2. CASE Buildable /\ inner' = [inner EXCEPT !.idx = NextIdx, !.stage = NextIdx]
      <4>1. NextIdx \in Indexes
        BY <3>2, NextIdxFree DEF Indexes
      <4> QED
        BY <3>2, <4>1 DEF TypeOK
    <3> QED
      BY <1>9, <3>1, <3>2 DEF BuildFails
  <2> QED
    BY <1>9, <2>1, EndTyped DEF BuildFails, TypeOK, Taken, Idle
<1>10. CASE Broadcast(t)
  <2>1. task' \in [Tasks -> Task]
        /\ \A u \in Tasks : task'[u].pc \in {"broadcast", "insert"} => task'[u].tx # 0
    <3>1. CASE End(t)
      BY <3>1, EndTyped DEF Idle
    <3>2. CASE Goto(t, "insert")
      BY <3>2, <1>10 DEF Goto, Broadcast, TypeOK, Task
    <3> QED
      BY <3>1, <3>2, <1>10 DEF Broadcast
  <2>2. net' \in [Payments -> Fate] /\ Taken \subseteq Taken'
    BY <1>10, ArriveTakes DEF Broadcast, TypeOK, Taken
  <2>3. late' \subseteq Payments
    <3>1. task[t].tx \in Payments
      BY <1>10, TaskFields DEF Broadcast, Payments
    <3> QED
      BY <1>10, <3>1 DEF Broadcast, TypeOK
  <2> QED
    BY <1>10, <2>1, <2>2, <2>3 DEF Broadcast, TypeOK
<1>11. CASE InsertLedger(t)
  <2>1. task[t].tx \in Payments
    BY <1>11 DEF InsertLedger, TypeOK, Task, Payments
  <2> QED
    BY <1>11, <2>1, EndTyped DEF InsertLedger, TypeOK, Taken, Idle
<1>12. CASE Abort(t)
  BY <1>12, EndTyped DEF Abort, TypeOK, Taken, Idle
<1> QED
  BY <1>1, <1>2, <1>3, <1>4, <1>6, <1>7, <1>8, <1>9, <1>10, <1>11, <1>12 DEF Step

(* The type invariant is inductive.                                        *)
LEMMA NextTyped ==
  ASSUME TypeInv, [Next]_vars
  PROVE  TypeInv'
<1> USE SendAssumption DEF TypeInv
<1>1. ASSUME NEW d \in Deposits, Deposit(d)
      PROVE  TypeInv'
  BY <1>1 DEF Deposit, TypeOK, Taken
<1>2. ASSUME NEW p \in Payments, Confirm(p)
      PROVE  TypeInv'
  BY <1>2 DEF Confirm, TypeOK, Taken, Fate
<1>3. ASSUME NEW p \in Payments, LateArrive(p)
      PROVE  TypeInv'
  <2>1. net' \in [Payments -> Fate] /\ Taken \subseteq Taken'
    BY <1>3, ArriveTakes DEF LateArrive, TypeOK, Taken
  <2> QED
    BY <1>3, <2>1 DEF LateArrive, TypeOK
<1>4. ASSUME NEW t \in Tasks, NEW kind \in Kinds, Start(t, kind)
      PROVE  TypeInv'
  <2> DEFINE r == [Idle EXCEPT !.pc = "versions", !.kind = kind]
  <2>1. r \in Task /\ r.pc = "versions"
    <3>1. Idle \in Task
      BY DEF Idle, Task, Indexes, Kinds
    <3> QED
      BY <3>1 DEF Task
  <2>2. task' = [task EXCEPT ![t] = r]
    BY <1>4 DEF Start
  <2> HIDE DEF r
  <2> QED
    BY <1>4, <2>1, <2>2, TaskSet DEF Start, TypeOK, Taken
<1>5. CASE Restart
  BY <1>5 DEF Restart, TypeOK, Taken, Task, Idle, Indexes, Loaded, Kinds
<1>6. CASE UNCHANGED vars
  BY <1>6 DEF vars, TypeOK, Taken
<1> QED
  BY <1>1, <1>2, <1>3, <1>4, <1>5, <1>6, StepTyped DEF Next

(* Every reachable state of the sends is well typed; in particular there   *)
(* is always an index for the change of a transaction that is built.       *)
THEOREM SendTypeCorrect == Spec => []TypeOK
<1>1. Init => TypeInv
  BY SendAssumption DEF Init, TypeInv, TypeOK, Taken, Task, Idle, Kinds, Indexes, Loaded, NoTx,
     Fate, Payments, Coins
<1>2. TypeInv /\ [Next]_vars => TypeInv'
  BY NextTyped
<1>3. TypeInv => TypeOK
  BY DEF TypeInv
<1> QED
  BY <1>1, <1>2, <1>3, PTL DEF Spec

-----------------------------------------------------------------------------
(* Requests one at a time: no two of them run together, and none starts    *)
(* while a dropped one's transaction is still under way.                   *)
OneAtATime == ~LateOverlaps /\ \A t, u \in Tasks : t = u

(* A transaction that the network can take without dropping another.       *)
Ready(p) ==
  /\ net[p] = "built"
  /\ tx[p].ins \subseteq arrived \cup WithChange(Live)
  /\ tx[p].ins \cap SpentBy(Live) = {}

(* A request that has synced the wallet and not yet built.                 *)
Synced(t) == task[t].pc = "build" \/ (task[t].pc \in {"merge", "write"} /\ task[t].tx = 0)

(* A request that has built and not yet broadcast.                         *)
Signed(t) == task[t].pc \in {"merge", "write", "broadcast"} /\ task[t].tx # 0

(* What the wallet knows is what stands on the network from the sync of a  *)
(* request up to its broadcast, so what it builds conflicts with nothing.  *)
SeqInv ==
  /\ late # {} => \A t \in Tasks : task[t].pc = "idle"
  /\ \A p, q \in late : p = q
  /\ \A p \in late : Ready(p)
  /\ \A p \in Payments : net[p] # "replaced"
  /\ ledger \subseteq Taken
  /\ inner.deps \subseteq arrived
  /\ \A t \in Tasks :
       /\ Synced(t) => inner.seen = Live
       /\ Signed(t) => Ready(task[t].tx)
       /\ task[t].pc = "insert" => task[t].tx \in Taken
       /\ task[t].pc \in {"idle", "versions", "inner", "build"} => task[t].tx = 0

(* Whether a write is still to come that brings the row up to the wallet.  *)
WriteDue ==
  inner.stage # 0 \/ \E t \in Tasks : task[t].pc \in {"merge", "write"} /\ task[t].delta # 0

(* The wallet is ahead of its row by at most the failed writes, and one    *)
(* index more while a write is due.                                        *)
IdxInv ==
  /\ db <= agg /\ agg <= inner.idx
  /\ inner.idx <= db + lost + 1
  /\ ~WriteDue => inner.idx <= db + lost
  /\ inner.stage \in {0, inner.idx}
  /\ \A p \in Live \cup late : tx[p].change <= db + lost
  /\ \A t \in Tasks :
       /\ task[t].pc \in {"merge", "write", "build", "broadcast"} => inner.stage = 0
       /\ task[t].pc \in {"merge", "write"} => task[t].delta \in {0, inner.idx}
       /\ task[t].pc = "write" => task[t].json = agg /\ task[t].delta <= agg
       /\ Synced(t) => \A p \in Live : tx[p].change <= inner.idx
       /\ Signed(t) => tx[task[t].tx].change <= inner.idx

(* The balance that a request has shown is still there when it builds.     *)
MaxInv ==
  \A t \in Tasks :
    /\ task[t].pc = "inner" => task[t].balance \subseteq Unspent(arrived, Live, MaxPays)
    /\ Synced(t) => task[t].balance \subseteq Spendable
    /\ task[t].kind = "max" /\ task[t].tx # 0 => task[t].balance \subseteq tx[task[t].tx].ins

-----------------------------------------------------------------------------
(* The refinement of PaymentLedger.                                        *)

(* A ready transaction that arrives pushes nothing out of the mempool.     *)
LEMMA ArriveReady ==
  ASSUME TypeOK, NEW p \in Payments, Ready(p), Arrive(p)
  PROVE  /\ net' = [net EXCEPT ![p] = "mempool"]
         /\ Live' = Live \cup {p} /\ Taken' = Taken \cup {p}
<1>1. Conflicts(p) = {}
  BY DEF Conflicts, Mempool, Live, SpentBy, Ready
<1>2. Displaced(p) = {}
  <2>1. {} \in SUBSET Mempool
    OBVIOUS
  <2> QED
    BY <1>1, <2>1 DEF Displaced
<1>3. net' = [net EXCEPT ![p] = "mempool"]
  BY <1>2 DEF Arrive, TypeOK
<1> QED
  BY <1>3 DEF Live, Taken, TypeOK

(* What the wallet builds from what stands is ready.                       *)
LEMMA BuildReady ==
  ASSUME TypeOK, NEW C, C \subseteq Spendable, inner.deps \subseteq arrived, inner.seen = Live
  PROVE  C \subseteq arrived \cup WithChange(Live) /\ C \cap SpentBy(Live) = {}
BY DEF Spendable, Unspent, WithChange

(* A transaction that is being built does not change those that stand.     *)
LEMMA BuildKeepsLive ==
  ASSUME TypeOK, NEW t \in Tasks, NEW C \in SUBSET Coins, NEW change \in Indexes,
         BuildTx(t, C, change), NEW n, n = NextPay
  PROVE  /\ n \in Payments /\ net[n] = "unbuilt"
         /\ net' = [net EXCEPT ![n] = "built"]
         /\ tx'[n] = [ins |-> C, change |-> change]
         /\ \A p \in Payments \ {n} : tx'[p] = tx[p]
         /\ Live' = Live /\ Taken' = Taken /\ n \notin Taken /\ n \notin Live
         /\ WithChange(Live)' = WithChange(Live) /\ SpentBy(Live)' = SpentBy(Live)
<1>1. n \in Payments /\ net[n] = "unbuilt"
  BY NextPayUnbuilt DEF BuildTx
<1>2. net' = [net EXCEPT ![n] = "built"]
  BY DEF BuildTx
<1>3. Live' = Live /\ Taken' = Taken /\ n \notin Taken /\ n \notin Live
  BY <1>1, <1>2 DEF Live, Taken, TypeOK
<1>4. /\ tx'[n] = [ins |-> C, change |-> change]
      /\ \A p \in Payments \ {n} : tx'[p] = tx[p]
  BY <1>1 DEF BuildTx, TypeOK
<1>5. \A p \in Live : tx'[p] = tx[p]
  BY <1>3, <1>4 DEF Live
<1>6. WithChange(Live)' = WithChange(Live)
  BY <1>3, <1>5 DEF WithChange
<1>7. SpentBy(Live)' = SpentBy(Live)
  BY <1>3, <1>5 DEF SpentBy
<1> QED
  BY <1>1, <1>2, <1>3, <1>4, <1>6, <1>7

(* Nothing on the network changes: what is ready stays so.                 *)
LEMMA NetUnchanged ==
  ASSUME UNCHANGED <<arrived, net, tx>>
  PROVE  /\ Live' = Live /\ Taken' = Taken
         /\ \A p \in Payments : Ready(p)' = Ready(p)
BY DEF Live, Taken, Ready, WithChange, SpentBy

(* Each part of a request preserves the sequential invariant.              *)
LEMMA StepSequential ==
  ASSUME OneAtATime, TypeInv, SeqInv, NEW t \in Tasks, Step(t)
  PROVE  SeqInv'
<1> USE SendAssumption
<1>1. /\ \A u \in Tasks : u = t
      /\ TypeOK
      /\ late = {} \/ task[t].pc = "idle"
  BY DEF OneAtATime, TypeInv, SeqInv
<1>2. ASSUME End(t), UNCHANGED <<arrived, net, tx, ledger, late>>, inner'.deps = inner.deps
      PROVE  SeqInv'
  BY <1>1, <1>2, EndTyped, NetUnchanged DEF SeqInv, Idle, Synced, Signed, TypeOK
<1>3. CASE SyncVersions(t)
  <2>1. task'[t].pc = "inner" /\ task'[t].tx = task[t].tx /\ task[t].pc = "versions"
    BY <1>1, <1>3 DEF SyncVersions, TypeOK, Task
  <2> QED
    BY <1>1, <1>3, <2>1, NetUnchanged DEF SyncVersions, SeqInv, Synced, Signed, TypeOK
<1>4. CASE SyncInner(t)
  <2>1. /\ task'[t].pc \in {"build", "merge"} /\ task'[t].tx = task[t].tx /\ task[t].pc = "inner"
        /\ inner'.seen = Live /\ inner'.deps \subseteq arrived
    BY <1>1, <1>4 DEF SyncInner, TypeOK, Task
  <2>2. UNCHANGED <<arrived, net, tx, ledger, late>>
    BY <1>4 DEF SyncInner
  <2> QED
    BY <1>1, <2>1, <2>2, NetUnchanged DEF SeqInv, Synced, Signed, TypeOK
<1>5. CASE MergeDelta(t)
  <2>1. /\ task'[t].pc = "write" /\ task'[t].tx = task[t].tx /\ task[t].pc = "merge"
    BY <1>1, <1>5 DEF MergeDelta, TypeOK, Task
  <2>2. UNCHANGED <<arrived, net, tx, inner, ledger, late>>
    BY <1>5 DEF MergeDelta
  <2> QED
    BY <1>1, <2>1, <2>2, NetUnchanged, TaskFields DEF SeqInv, Synced, Signed, TypeOK, Payments
<1>6. CASE WriteChangeset(t)
  <2>1. /\ task'[t].pc = IF task[t].tx = 0 THEN "build" ELSE "broadcast"
        /\ task'[t].tx = task[t].tx /\ task[t].pc = "write"
    BY <1>1, <1>6 DEF WriteChangeset, Goto, TypeOK, Task
  <2>2. UNCHANGED <<arrived, net, tx, inner, ledger, late>>
    BY <1>6 DEF WriteChangeset
  <2> QED
    BY <1>1, <2>1, <2>2, NetUnchanged, TaskFields DEF SeqInv, Synced, Signed, TypeOK, Payments
<1>7. ASSUME NEW C \in SUBSET Coins, NEW change \in Indexes, BuildTx(t, C, change)
      PROVE  SeqInv'
  <2>1. task[t].pc = "build" /\ late = {} /\ inner.seen = Live /\ C \subseteq Spendable
    BY <1>1, <1>7 DEF BuildTx, SeqInv, Synced
  <2>2. PICK n : n = NextPay
    OBVIOUS
  <2>3. /\ task'[t].pc \in {"merge", "broadcast"} /\ task'[t].tx = n
        /\ inner'.deps = inner.deps /\ UNCHANGED <<arrived, ledger, late>>
    BY <1>1, <1>7, <2>2 DEF BuildTx, TypeOK, Task
  <2>4. Ready(n)'
    <3>1. /\ n \in Payments /\ net' = [net EXCEPT ![n] = "built"]
          /\ tx'[n] = [ins |-> C, change |-> change]
      BY <1>1, <1>7, <2>2, BuildKeepsLive
    <3>2. C \subseteq arrived' \cup WithChange(Live)' /\ C \cap SpentBy(Live)' = {}
      BY <1>1, <1>7, <2>1, <2>2, <2>3, BuildKeepsLive, BuildReady DEF SeqInv
    <3> QED
      BY <1>1, <3>1, <3>2 DEF Ready, TypeOK
  <2>5. /\ net' = [net EXCEPT ![n] = "built"] /\ n \in Payments
        /\ Live' = Live /\ Taken' = Taken
    BY <1>1, <1>7, <2>2, BuildKeepsLive
  <2> QED
    BY <1>1, <2>1, <2>3, <2>4, <2>5 DEF SeqInv, Synced, Signed, TypeOK, Payments
<1>8. ASSUME NEW C \in SUBSET Coins, build_sign_and_broadcast(t, C) \/ sweep_to(t, C)
      PROVE  SeqInv'
  <2>1. CASE BuildTx(t, C, 0)
    BY <2>1, <1>7 DEF Indexes
  <2>2. CASE BuildTx(t, C, NextIdx)
    <3>1. NextIdx \in Indexes
      BY <2>2, NextIdxFree DEF BuildTx, TypeInv, Indexes
    <3> QED
      BY <2>2, <3>1, <1>7
  <2> QED
    BY <1>8, <2>1, <2>2 DEF build_sign_and_broadcast, sweep_to
<1>9. CASE compute_drain_amount(t)
  BY <1>2, <1>9 DEF compute_drain_amount
<1>10. CASE BuildFails(t)
  <2>1. inner'.deps = inner.deps
    BY <1>1, <1>10 DEF BuildFails, TypeOK
  <2> QED
    BY <1>2, <1>10, <2>1 DEF BuildFails
<1>11. CASE Broadcast(t)
  <2>1. PICK p : p = task[t].tx
    OBVIOUS
  <2>2. p \in Payments /\ Ready(p) /\ late = {} /\ task[t].pc = "broadcast"
    BY <1>1, <1>11, <2>1, TaskFields DEF Broadcast, TypeInv, SeqInv, Signed, Payments
  <2>3. UNCHANGED <<arrived, tx, inner, ledger>>
    BY <1>11 DEF Broadcast
  <2>4. CASE Arrive(p) /\ (Goto(t, "insert") \/ End(t)) /\ UNCHANGED late
    <3>1. \/ task'[t].pc = "idle" /\ task'[t].tx = 0
          \/ task'[t].pc = "insert" /\ task'[t].tx = p
      BY <1>1, <2>1, <2>4 DEF Goto, End, Idle, TypeOK, Task
    <3>2. /\ net' = [net EXCEPT ![p] = "mempool"]
          /\ Live' = Live \cup {p} /\ Taken' = Taken \cup {p}
      BY <1>1, <2>2, <2>4, ArriveReady
    <3> QED
      BY <1>1, <2>2, <2>3, <2>4, <3>1, <3>2 DEF SeqInv, Synced, Signed, TypeOK
  <2>5. CASE UNCHANGED <<net, late>> /\ End(t)
    BY <1>2, <2>3, <2>5
  <2>6. CASE late' = late \cup {p} /\ UNCHANGED net /\ End(t)
    <3>1. task'[t].pc = "idle" /\ task'[t].tx = 0
      BY <1>1, <2>6 DEF End, Idle, TypeOK
    <3> QED
      BY <1>1, <2>2, <2>3, <2>6, <3>1, NetUnchanged DEF SeqInv, Synced, Signed, TypeOK
  <2> QED
    BY <1>11, <2>1, <2>4, <2>5, <2>6 DEF Broadcast
<1>12. CASE InsertLedger(t)
  <2>1. task[t].tx \in Taken /\ task[t].pc = "insert"
    BY <1>12 DEF InsertLedger, SeqInv
  <2>2. task'[t].pc = "idle" /\ task'[t].tx = 0
    BY <1>1, <1>12 DEF InsertLedger, End, Idle, TypeOK
  <2> QED
    BY <1>1, <1>12, <2>1, <2>2, NetUnchanged DEF InsertLedger, SeqInv, Synced, Signed, TypeOK
<1>13. CASE Abort(t)
  BY <1>2, <1>13 DEF Abort
<1> QED
  BY <1>3, <1>4, <1>5, <1>6, <1>8, <1>9, <1>10, <1>11, <1>12, <1>13 DEF Step

(* The sequential invariant is inductive.                                  *)
LEMMA NextSequential ==
  ASSUME OneAtATime, TypeInv, SeqInv, [Next]_vars
  PROVE  SeqInv'
<1> USE SendAssumption
<1> TypeOK
  BY DEF TypeInv
<1>1. ASSUME NEW d \in Deposits, Deposit(d)
      PROVE  SeqInv'
  <2>1. Live' = Live /\ Taken' = Taken /\ \A p \in Payments : Ready(p) => Ready(p)'
    BY <1>1 DEF Deposit, Live, Taken, Ready, WithChange, SpentBy
  <2> QED
    BY <1>1, <2>1, TaskFields DEF Deposit, SeqInv, Synced, Signed, TypeOK, Payments
<1>2. ASSUME NEW p \in Payments, Confirm(p)
      PROVE  SeqInv'
  <2>1. Live' = Live /\ Taken' = Taken /\ \A q \in Payments : net[q] = "built" => net'[q] = "built"
    BY <1>2 DEF Confirm, Live, Taken, TypeOK
  <2>2. \A q \in Payments : Ready(q) => Ready(q)'
    BY <1>2, <2>1 DEF Confirm, Ready, WithChange, SpentBy
  <2>3. \A q \in Payments : net'[q] # "replaced"
    BY <1>2 DEF Confirm, SeqInv, TypeOK
  <2> QED
    BY <1>2, <2>1, <2>2, <2>3, TaskFields DEF Confirm, SeqInv, Synced, Signed, TypeOK, Payments
<1>3. ASSUME NEW p \in Payments, LateArrive(p)
      PROVE  SeqInv'
  <2>1. /\ Ready(p) /\ late = {p} /\ late' = {}
        /\ \A t \in Tasks : task[t].pc = "idle"
    BY <1>3 DEF LateArrive, SeqInv
  <2>2. /\ Taken \subseteq Taken'
        /\ \A q \in Payments : net'[q] # "replaced"
    <3>1. CASE UNCHANGED net
      BY <3>1 DEF Taken, SeqInv
    <3>2. CASE Arrive(p)
      BY <3>2, <2>1, ArriveReady DEF SeqInv, TypeOK
    <3> QED
      BY <1>3, <3>1, <3>2 DEF LateArrive
  <2> QED
    BY <1>3, <2>1, <2>2 DEF LateArrive, SeqInv, Synced, Signed
<1>4. ASSUME NEW t \in Tasks, NEW kind \in Kinds, Start(t, kind)
      PROVE  SeqInv'
  <2>1. /\ \A u \in Tasks : u = t
        /\ late = {} /\ task'[t].pc = "versions" /\ task'[t].tx = 0
    BY <1>4 DEF Start, OneAtATime, TypeOK, Idle
  <2> QED
    BY <1>4, <2>1, NetUnchanged DEF Start, SeqInv, Synced, Signed, TypeOK
<1>5. CASE Restart
  <2>1. inner'.deps = {} /\ \A t \in Tasks : task'[t].pc = "idle" /\ task'[t].tx = 0
    BY <1>5 DEF Restart, Loaded, Idle
  <2> QED
    BY <1>5, <2>1, NetUnchanged DEF Restart, SeqInv, Synced, Signed, TypeOK
<1>6. CASE UNCHANGED vars
  BY <1>6, NetUnchanged, TaskFields DEF vars, SeqInv, Synced, Signed, TypeOK, Payments
<1> QED
  BY <1>1, <1>2, <1>3, <1>4, <1>5, <1>6, StepSequential DEF Next

(* A step of the sends is a step of the ledger or changes nothing there.   *)
LEMMA NextRefines ==
  ASSUME OneAtATime, TypeInv, SeqInv, [Next]_vars
  PROVE  [Ledger!Next]_<<Live, Taken, ledger>>
<1> USE SendAssumption
<1> TypeOK
  BY DEF TypeInv
<1>1. ASSUME NEW p \in Payments, Ready(p), Arrive(p), UNCHANGED ledger
      PROVE  Ledger!Next
  <2>1. p \notin Live /\ Live' = Live \cup {p} /\ Taken' = Taken \cup {p}
    BY <1>1, ArriveReady DEF Ready, Live
  <2> QED
    BY <1>1, <2>1 DEF Ledger!Next, Ledger!Accept
<1>2. ASSUME NEW d \in Deposits, Deposit(d)
      PROVE  UNCHANGED <<Live, Taken, ledger>>
  BY <1>2 DEF Deposit, Live, Taken
<1>3. ASSUME NEW p \in Payments, Confirm(p)
      PROVE  UNCHANGED <<Live, Taken, ledger>>
  BY <1>3 DEF Confirm, Live, Taken, TypeOK
<1>4. ASSUME NEW p \in Payments, LateArrive(p)
      PROVE  [Ledger!Next]_<<Live, Taken, ledger>>
  BY <1>4, <1>1 DEF LateArrive, SeqInv, Live, Taken
<1>5. ASSUME NEW t \in Tasks, NEW kind \in Kinds, Start(t, kind)
      PROVE  UNCHANGED <<Live, Taken, ledger>>
  BY <1>5 DEF Start, Live, Taken
<1>6. CASE Restart
  BY <1>6 DEF Restart, Live, Taken
<1>7. ASSUME NEW t \in Tasks, NEW C \in SUBSET Coins,
             build_sign_and_broadcast(t, C) \/ sweep_to(t, C)
      PROVE  UNCHANGED <<Live, Taken, ledger>>
  <2>1. BuildTx(t, C, 0) \/ (BuildTx(t, C, NextIdx) /\ NextIdx \in Indexes)
    BY <1>7, NextIdxFree DEF build_sign_and_broadcast, sweep_to, BuildTx, TypeInv, Indexes
  <2>2. 0 \in Indexes
    BY DEF Indexes
  <2>3. UNCHANGED ledger
    BY <2>1 DEF BuildTx
  <2> QED
    BY <2>1, <2>2, <2>3, BuildKeepsLive
<1>8. ASSUME NEW t \in Tasks, Broadcast(t)
      PROVE  [Ledger!Next]_<<Live, Taken, ledger>>
  <2>1. task[t].tx \in Payments /\ Ready(task[t].tx)
    BY <1>8, TaskFields DEF Broadcast, TypeInv, SeqInv, Signed, Payments
  <2> QED
    BY <1>8, <2>1, <1>1 DEF Broadcast, Live, Taken
<1>9. ASSUME NEW t \in Tasks, InsertLedger(t)
      PROVE  Ledger!Next
  <2>1. task[t].tx \in Taken /\ task[t].tx \in Payments
    BY <1>9 DEF InsertLedger, SeqInv, Taken
  <2>2. Ledger!Record(task[t].tx)
    BY <1>9, <2>1 DEF InsertLedger, Ledger!Record, Live, Taken
  <2> QED
    BY <2>1, <2>2 DEF Ledger!Next
<1>10. ASSUME NEW t \in Tasks,
              \/ SyncVersions(t) \/ SyncInner(t) \/ MergeDelta(t) \/ WriteChangeset(t)
              \/ compute_drain_amount(t) \/ BuildFails(t) \/ Abort(t)
       PROVE  UNCHANGED <<Live, Taken, ledger>>
  BY <1>10 DEF SyncVersions, SyncInner, MergeDelta, WriteChangeset, compute_drain_amount,
     BuildFails, Abort, Live, Taken
<1>11. CASE UNCHANGED vars
  BY <1>11 DEF vars, Live, Taken
<1> QED
  BY <1>2, <1>3, <1>4, <1>5, <1>6, <1>7, <1>8, <1>9, <1>10, <1>11 DEF Next, Step

(* The initial states satisfy the invariants.                              *)
LEMMA InitSequential ==
  ASSUME Init
  PROVE  TypeInv /\ SeqInv
<1>1. TypeInv
  BY SendAssumption DEF Init, TypeInv, TypeOK, Taken, Task, Idle, Kinds, Indexes, Loaded, NoTx,
     Fate, Payments, Coins
<1>2. SeqInv
  BY DEF Init, SeqInv, Loaded, Idle, Synced, Signed
<1> QED
  BY <1>1, <1>2

(* A user whose requests come one at a time: whatever fails in between,    *)
(* the sends implement PaymentLedger.  No send replaces an earlier one     *)
(* that stands, and transactions has rows only for payments that the       *)
(* network has taken.                                                      *)
THEOREM SendImplementsLedger == OneAtATime /\ Spec => ImplementsLedger
<1> DEFINE I == OneAtATime /\ TypeInv /\ SeqInv
<1>1. OneAtATime /\ Init => I /\ Ledger!Init
  BY InitSequential DEF Init, Ledger!Init, Live, Taken
<1>2. I /\ [Next]_vars => I'
  BY NextTyped, NextSequential DEF OneAtATime
<1>3. I /\ [Next]_vars => [Ledger!Next]_(Ledger!ledgerVars)
  BY NextRefines DEF Ledger!ledgerVars
<1> HIDE DEF I
<1> QED
  BY <1>1, <1>2, <1>3, PTL DEF Spec, ImplementsLedger, Ledger!Spec

-----------------------------------------------------------------------------
(* Change is found after a restart.                                        *)

(* The indexes are natural numbers.                                        *)
LEMMA IdxTypes ==
  ASSUME TypeOK
  PROVE  /\ db \in Nat /\ agg \in Nat /\ lost \in Nat /\ lost <= MaxLostWrites
         /\ inner.idx \in Nat /\ inner.stage \in Nat
         /\ \A p \in Payments : tx[p].change \in Nat
         /\ \A t \in Tasks : task[t].delta \in Nat /\ task[t].json \in Nat
BY SendAssumption, TaskFields DEF TypeOK, Indexes

(* When the wallet knows all that stands, and no more than the failed      *)
(* writes separate it from its row, the next index is at most one more.    *)
LEMMA NextIdxNear ==
  ASSUME TypeInv, Buildable, inner.seen = Live, \A p \in Live : tx[p].change <= inner.idx
  PROVE  NextIdx \in 1..MaxPays /\ NextIdx <= inner.idx + 1
<1>1. /\ NextIdx \in 1..MaxPays
      /\ \A k \in 1..MaxPays : (\A p \in inner.seen : tx[p].change # k) => NextIdx <= k
  BY NextIdxFree DEF TypeInv
<1>2. inner.idx \in Nat /\ \A p \in Live : tx[p].change \in Nat
  BY IdxTypes DEF TypeInv, Live
<1>3. \A p \in inner.seen : tx[p].change # inner.idx + 1
  BY <1>2
<1>4. CASE inner.idx + 1 <= MaxPays
  BY <1>1, <1>2, <1>3, <1>4, SendAssumption
<1>5. CASE ~(inner.idx + 1 <= MaxPays)
  BY <1>1, <1>2, <1>5, SendAssumption
<1> QED
  BY <1>4, <1>5

(* Each part of a request preserves the bound on the indexes.              *)
LEMMA StepIndexed ==
  ASSUME OneAtATime, MaxLostWrites <= Lookahead, TypeInv, TypeInv', SeqInv, SeqInv', IdxInv,
         NEW t \in Tasks, Step(t)
  PROVE  IdxInv'
<1> USE SendAssumption
<1>1. /\ \A u \in Tasks : u = t
      /\ TypeOK /\ TypeOK'
      /\ late = {} \/ task[t].pc = "idle"
  BY DEF OneAtATime, TypeInv, SeqInv
<1>2. /\ db \in Nat /\ agg \in Nat /\ lost \in Nat /\ lost <= MaxLostWrites
      /\ inner.idx \in Nat /\ inner.stage \in Nat
      /\ \A p \in Payments : tx[p].change \in Nat
      /\ task[t].delta \in Nat /\ task[t].json \in Nat
  BY <1>1, IdxTypes
<1>3. ASSUME End(t), UNCHANGED <<net, tx, inner, agg, db, late, lost>>,
             task[t].pc \notin {"merge", "write"}
      PROVE  IdxInv'
  <2>1. task'[t].pc = "idle" /\ task'[t].tx = 0
    BY <1>1, <1>3 DEF End, Idle, TypeOK
  <2>2. Live' = Live
    BY <1>3 DEF Live
  <2> QED
    BY <1>1, <1>2, <1>3, <2>1, <2>2 DEF IdxInv, WriteDue, Synced, Signed
<1>4. CASE SyncVersions(t)
  <2>1. task'[t].pc = "inner" /\ task'[t].tx = task[t].tx /\ task[t].pc = "versions"
    BY <1>1, <1>4 DEF SyncVersions, TypeOK, Task
  <2>2. UNCHANGED <<net, tx, inner, agg, db, late, lost>> /\ Live' = Live
    BY <1>4 DEF SyncVersions, Live
  <2> QED
    BY <1>1, <1>2, <2>1, <2>2 DEF IdxInv, WriteDue, Synced, Signed
<1>5. CASE SyncInner(t)
  <2> DEFINE same == inner = [deps |-> arrived \ OldDeposits, seen |-> Live, idx |-> FoundIdx, stage |-> 0]
  <2>0. same => inner.idx = FoundIdx /\ inner.stage = 0
    OBVIOUS
  <2> HIDE DEF same
  <2>1. /\ task'[t].pc = (IF same THEN "build" ELSE "merge")
        /\ task'[t].tx = task[t].tx /\ task[t].pc = "inner"
        /\ task'[t].delta = IF FoundIdx > inner.idx THEN FoundIdx ELSE inner.stage
        /\ inner'.idx = FoundIdx /\ inner'.stage = 0
    BY <1>1, <1>5 DEF SyncInner, TypeOK, Task, same
  <2>2. UNCHANGED <<net, tx, agg, db, late, lost>> /\ Live' = Live
    BY <1>5 DEF SyncInner, Live
  <2>3. /\ FoundIdx \in Nat /\ FoundIdx >= inner.idx
        /\ FoundIdx = inner.idx \/ FoundIdx <= db + lost
    BY <1>1, <1>2, FoundIdxGreatest DEF IdxInv, Indexes
  <2>4. \A p \in Live : tx[p].change <= FoundIdx
    <3>1. \A p \in Live : tx[p].change <= inner.idx + Lookahead
      BY <1>2 DEF IdxInv, Live
    <3> QED
      BY <1>1, <3>1, FoundIdxGreatest
  <2>5. task'[t].pc = "build" => FoundIdx = inner.idx /\ inner.stage = 0
    BY <2>0, <2>1
  <2>6. task'[t].tx = 0
    BY <2>1 DEF SeqInv
  <2> QED
    BY <1>1, <1>2, <2>1, <2>2, <2>3, <2>4, <2>5, <2>6 DEF IdxInv, WriteDue, Synced, Signed
<1>6. CASE MergeDelta(t)
  <2>1. /\ task'[t].pc = "write" /\ task'[t].tx = task[t].tx /\ task[t].pc = "merge"
        /\ task'[t].delta = task[t].delta /\ task'[t].json = agg'
        /\ agg' = MaxOf(agg, task[t].delta)
    BY <1>1, <1>6 DEF MergeDelta, TypeOK, Task
  <2>2. UNCHANGED <<net, tx, inner, db, late, lost>> /\ Live' = Live
    BY <1>6 DEF MergeDelta, Live
  <2> QED
    BY <1>1, <1>2, <2>1, <2>2 DEF IdxInv, WriteDue, Synced, Signed, MaxOf
<1>7. CASE WriteChangeset(t)
  <2>1. /\ task'[t].pc = IF task[t].tx = 0 THEN "build" ELSE "broadcast"
        /\ task'[t].tx = task[t].tx /\ task[t].pc = "write"
        /\ task'[t].delta = task[t].delta /\ db' = agg
    BY <1>1, <1>7 DEF WriteChangeset, Goto, TypeOK, Task, IdxInv
  <2>2. UNCHANGED <<net, tx, inner, agg, late, lost>> /\ Live' = Live
    BY <1>7 DEF WriteChangeset, Live
  <2>3. inner.idx <= agg + lost /\ db <= agg
    BY <1>1, <1>2, <2>1 DEF IdxInv, WriteDue
  <2>4. \A p \in Live \cup late : tx[p].change <= agg + lost
    BY <1>1, <1>2, <2>3 DEF IdxInv, Live, TypeOK
  <2> QED
    BY <1>1, <1>2, <2>1, <2>2, <2>3, <2>4 DEF IdxInv, WriteDue, Synced, Signed
<1>8. ASSUME NEW C \in SUBSET Coins, NEW change \in Indexes, change <= inner.idx + 1,
             BuildTx(t, C, change)
      PROVE  IdxInv'
  <2>1. PICK n : n = NextPay
    OBVIOUS
  <2>2. /\ task[t].pc = "build" /\ late = {} /\ inner.stage = 0 /\ task[t].tx = 0
        /\ inner.idx <= db + lost
        /\ change \in Nat
    BY <1>1, <1>2, <1>8 DEF BuildTx, SeqInv, IdxInv, WriteDue, Indexes
  <2>3. /\ n \in Payments /\ tx'[n] = [ins |-> C, change |-> change]
        /\ \A p \in Payments \ {n} : tx'[p] = tx[p]
        /\ Live' = Live /\ n \notin Live
    <3>1. n \in Payments /\ tx'[n] = [ins |-> C, change |-> change]
      BY <1>1, <1>8, <2>1, BuildKeepsLive
    <3>2. \A p \in Payments \ {n} : tx'[p] = tx[p]
      BY <1>1, <1>8, <2>1, BuildKeepsLive
    <3>3. Live' = Live /\ n \notin Live
      BY <1>1, <1>8, <2>1, BuildKeepsLive
    <3> QED
      BY <3>1, <3>2, <3>3
  <2>4. /\ task'[t].tx = n /\ inner'.idx = MaxOf(inner.idx, change) /\ inner'.stage = 0
        /\ task'[t].delta = IF change > inner.idx THEN change ELSE 0
        /\ task'[t].pc = IF task'[t].delta # 0 THEN "merge" ELSE "broadcast"
    BY <1>1, <1>8, <2>1, <2>2 DEF BuildTx, TypeOK, Task
  <2>5. UNCHANGED <<agg, db, late, lost>>
    BY <1>8 DEF BuildTx
  <2>6. \A p \in Live' \cup late' : tx'[p].change <= db + lost
    BY <2>2, <2>3, <2>5 DEF IdxInv, Live
  <2>7. n # 0
    BY <2>3 DEF Payments
  <2> QED
    BY <1>1, <1>2, <1>8, <2>2, <2>3, <2>4, <2>5, <2>6, <2>7 DEF IdxInv, WriteDue, Synced, Signed, MaxOf
<1>9. task[t].pc = "build" => inner.seen = Live /\ \A p \in Live : tx[p].change <= inner.idx
  BY DEF SeqInv, IdxInv, Synced
<1>10. ASSUME NEW C \in SUBSET Coins, build_sign_and_broadcast(t, C) \/ sweep_to(t, C)
       PROVE  IdxInv'
  <2>1. CASE BuildTx(t, C, 0)
    BY <2>1, <1>2, <1>8 DEF Indexes
  <2>2. CASE BuildTx(t, C, NextIdx)
    <3>1. NextIdx \in Indexes /\ NextIdx <= inner.idx + 1
      BY <2>2, <1>9, NextIdxNear DEF BuildTx, Indexes
    <3> QED
      BY <2>2, <3>1, <1>8
  <2> QED
    BY <1>10, <2>1, <2>2 DEF build_sign_and_broadcast, sweep_to
<1>11. CASE compute_drain_amount(t)
  BY <1>3, <1>11 DEF compute_drain_amount
<1>12. CASE BuildFails(t)
  <2>1. CASE UNCHANGED inner
    BY <1>3, <1>12, <2>1 DEF BuildFails
  <2>2. CASE /\ Buildable /\ NextIdx > inner.idx
             /\ inner' = [inner EXCEPT !.idx = NextIdx, !.stage = NextIdx]
    <3>1. NextIdx \in Nat /\ NextIdx <= inner.idx + 1
      BY <1>9, <1>12, <2>2, NextIdxNear DEF BuildFails
    <3>2. inner'.idx = NextIdx /\ inner'.stage = NextIdx
      BY <1>1, <2>2 DEF TypeOK
    <3>3. /\ task'[t].pc = "idle" /\ task'[t].tx = 0 /\ task[t].pc = "build"
          /\ UNCHANGED <<net, tx, agg, db, late, lost>> /\ Live' = Live
      BY <1>1, <1>12 DEF BuildFails, End, Idle, TypeOK, Live
    <3>4. inner.idx <= db + lost
      BY <1>1, <3>3 DEF IdxInv, WriteDue
    <3> QED
      BY <1>1, <1>2, <2>2, <3>1, <3>2, <3>3, <3>4 DEF IdxInv, WriteDue, Synced, Signed
  <2> QED
    BY <1>12, <2>1, <2>2 DEF BuildFails
<1>13. CASE Broadcast(t)
  <2>1. PICK p : p = task[t].tx
    OBVIOUS
  <2>2. /\ p \in Payments /\ Ready(p) /\ late = {} /\ task[t].pc = "broadcast"
    BY <1>1, <1>13, <2>1, TaskFields DEF Broadcast, TypeInv, SeqInv, Signed, Payments
  <2>3. inner.idx <= db + lost /\ tx[p].change <= db + lost /\ inner.stage = 0
    BY <1>1, <1>2, <2>1, <2>2 DEF IdxInv, WriteDue, Signed, Payments
  <2>4. UNCHANGED <<tx, inner, agg, db, lost>>
    BY <1>13 DEF Broadcast
  <2>5. Live' \cup late' \subseteq Live \cup {p}
    <3>1. CASE Arrive(p) /\ UNCHANGED late
      BY <1>1, <2>2, <3>1, ArriveReady
    <3>2. CASE UNCHANGED net /\ (UNCHANGED late \/ late' = late \cup {p})
      BY <2>2, <3>2 DEF Live
    <3> QED
      BY <1>13, <2>1, <3>1, <3>2 DEF Broadcast
  <2>6. \/ task'[t].pc = "idle" /\ task'[t].tx = 0
        \/ task'[t].pc = "insert" /\ task'[t].tx = p
    BY <1>1, <1>13, <2>1 DEF Broadcast, Goto, End, Idle, TypeOK, Task
  <2> QED
    BY <1>1, <1>2, <2>3, <2>4, <2>5, <2>6 DEF IdxInv, WriteDue, Synced, Signed
<1>14. CASE InsertLedger(t)
  BY <1>3, <1>14 DEF InsertLedger
<1>15. CASE Abort(t)
  <2>1. /\ task'[t].pc = "idle" /\ task'[t].tx = 0
        /\ UNCHANGED <<net, tx, inner, agg, db, late>> /\ Live' = Live
        /\ task[t].pc \in {"versions", "inner", "write", "insert"}
        /\ lost' = IF task[t].pc = "write" THEN lost + 1 ELSE lost
    BY <1>1, <1>15 DEF Abort, End, Idle, TypeOK, Live
  <2>2. \A p \in Live \cup late : tx[p].change <= db + lost'
    BY <1>1, <1>2, <2>1 DEF IdxInv, Live, TypeOK
  <2> QED
    BY <1>1, <1>2, <2>1, <2>2 DEF IdxInv, WriteDue, Synced, Signed
<1> QED
  BY <1>4, <1>5, <1>6, <1>7, <1>10, <1>11, <1>12, <1>13, <1>14, <1>15 DEF Step

(* The bound on the indexes is inductive.                                  *)
LEMMA NextIndexed ==
  ASSUME OneAtATime, MaxLostWrites <= Lookahead, TypeInv, TypeInv', SeqInv, SeqInv', IdxInv,
         [Next]_vars
  PROVE  IdxInv'
<1> USE SendAssumption
<1> TypeOK
  BY DEF TypeInv
<1>1. /\ db \in Nat /\ agg \in Nat /\ lost \in Nat /\ inner.idx \in Nat
      /\ \A p \in Payments : tx[p].change \in Nat
  BY IdxTypes
<1>2. ASSUME NEW d \in Deposits, Deposit(d)
      PROVE  IdxInv'
  <2>1. UNCHANGED <<net, tx, inner, agg, db, task, late, lost>> /\ Live' = Live
    BY <1>2 DEF Deposit, Live
  <2> QED
    BY <2>1 DEF IdxInv, WriteDue, Synced, Signed
<1>3. ASSUME NEW p \in Payments, Confirm(p)
      PROVE  IdxInv'
  <2>1. UNCHANGED <<tx, inner, agg, db, task, late, lost>> /\ Live' = Live
    BY <1>3 DEF Confirm, Live, TypeOK
  <2> QED
    BY <2>1 DEF IdxInv, WriteDue, Synced, Signed
<1>4. ASSUME NEW p \in Payments, LateArrive(p)
      PROVE  IdxInv'
  <2>1. UNCHANGED <<tx, inner, agg, db, task, lost>> /\ Live' \cup late' \subseteq Live \cup late
    <3>1. CASE UNCHANGED net
      BY <1>4, <3>1 DEF LateArrive, Live
    <3>2. CASE Arrive(p)
      BY <1>4, <3>2, ArriveReady DEF LateArrive, SeqInv
    <3> QED
      BY <1>4, <3>1, <3>2 DEF LateArrive
  <2>2. \A t \in Tasks : ~Synced(t)
    BY <1>4 DEF LateArrive, SeqInv, Synced
  <2> QED
    BY <2>1, <2>2 DEF IdxInv, WriteDue, Synced, Signed
<1>5. ASSUME NEW t \in Tasks, NEW kind \in Kinds, Start(t, kind)
      PROVE  IdxInv'
  <2>1. /\ \A u \in Tasks : u = t
        /\ task'[t].pc = "versions" /\ task'[t].tx = 0 /\ task[t].pc = "idle"
        /\ UNCHANGED <<net, tx, inner, agg, db, late, lost>> /\ Live' = Live
    BY <1>5 DEF Start, OneAtATime, TypeOK, Idle, Live
  <2> QED
    BY <2>1 DEF IdxInv, WriteDue, Synced, Signed
<1>6. CASE Restart
  <2>1. /\ inner'.idx = db /\ inner'.stage = 0 /\ agg' = db
        /\ \A t \in Tasks : task'[t].pc = "idle" /\ task'[t].tx = 0
        /\ UNCHANGED <<net, tx, db, late, lost>> /\ Live' = Live
    BY <1>6 DEF Restart, Loaded, Idle, Live
  <2> QED
    BY <1>1, <2>1 DEF IdxInv, WriteDue, Synced, Signed
<1>7. CASE UNCHANGED vars
  <2>1. UNCHANGED <<net, tx, inner, agg, db, task, late, lost>> /\ Live' = Live
    BY <1>7 DEF vars, Live
  <2> QED
    BY <2>1 DEF IdxInv, WriteDue, Synced, Signed
<1> QED
  BY <1>2, <1>3, <1>4, <1>5, <1>6, <1>7, StepIndexed DEF Next

(* One user's requests one at a time: as long as no more writes of the     *)
(* changeset fail than the wallet looks ahead, a wallet restarted from its *)
(* row recognises the change of every payment that stands.                 *)
THEOREM SendChangeFound ==
  OneAtATime /\ MaxLostWrites <= Lookahead /\ Spec => []ChangeFound
<1> DEFINE I == /\ OneAtATime /\ MaxLostWrites <= Lookahead
                /\ TypeInv /\ SeqInv /\ IdxInv
<1>1. OneAtATime /\ MaxLostWrites <= Lookahead /\ Init => I
  <2> SUFFICES ASSUME Init PROVE IdxInv
    BY InitSequential
  <2>1. Live = {} /\ late = {} /\ inner.idx = 0 /\ inner.stage = 0 /\ db = 0 /\ agg = 0 /\ lost = 0
    BY DEF Init, Live, Loaded
  <2>2. \A t \in Tasks : task[t].pc = "idle" /\ task[t].tx = 0
    BY DEF Init, Idle
  <2> QED
    BY <2>1, <2>2 DEF IdxInv, WriteDue, Synced, Signed
<1>2. I /\ [Next]_vars => I'
  BY NextTyped, NextSequential, NextIndexed DEF OneAtATime
<1>3. I => ChangeFound
  <2> SUFFICES ASSUME I, NEW p \in Live PROVE tx[p].change <= db + Lookahead
    BY DEF ChangeFound
  <2>1. tx[p].change <= db + lost /\ lost <= Lookahead
    BY IdxTypes, SendAssumption DEF IdxInv, TypeInv
  <2> QED
    BY <2>1, IdxTypes, SendAssumption DEF TypeInv, Live
<1> HIDE DEF I
<1> QED
  BY <1>1, <1>2, <1>3, PTL DEF Spec

-----------------------------------------------------------------------------
(* Send-Max drains the balance that was shown.                             *)

(* What is unspent depends on what stands, and grows with deposits.        *)
LEMMA UnspentGrows ==
  ASSUME TypeOK, NEW D, NEW E, D \subseteq E, NEW S, NEW i, NEW k,
         \A p \in S : tx[p].change <= k
  PROVE  Unspent(D, S, i) \subseteq Unspent(E, S, k)
BY DEF Unspent, WithChange

(* Each part of a request keeps the balance it showed within reach.        *)
LEMMA StepDrains ==
  ASSUME OneAtATime, MaxLostWrites <= Lookahead, OldDeposits = {},
         TypeInv, SeqInv, IdxInv, MaxInv, NEW t \in Tasks, Step(t)
  PROVE  MaxInv'
<1> USE SendAssumption
<1>1. (\A u \in Tasks : u = t) /\ TypeOK /\ task[t] \in Task
  BY TaskFields DEF OneAtATime, TypeInv
<1>2. ASSUME End(t)
      PROVE  MaxInv'
  <2>1. task'[t].pc = "idle" /\ task'[t].tx = 0
    BY <1>1, <1>2 DEF End, Idle, TypeOK
  <2> QED
    BY <1>1, <2>1 DEF MaxInv, Synced
<1>3. CASE SyncVersions(t)
  <2>1. /\ task'[t].pc = "inner" /\ task'[t].tx = 0
        /\ task'[t].balance = Unspent(arrived, Live, MaxPays)
    BY <1>1, <1>3 DEF SyncVersions, TypeOK, Task, SeqInv
  <2>2. Unspent(arrived, Live, MaxPays)' = Unspent(arrived, Live, MaxPays)
    BY <1>3 DEF SyncVersions, Unspent, Live, WithChange, SpentBy
  <2> QED
    BY <1>1, <2>1, <2>2 DEF MaxInv, Synced
<1>4. CASE SyncInner(t)
  <2>1. /\ task'[t].pc \in {"build", "merge"} /\ task'[t].tx = 0
        /\ task'[t].balance = task[t].balance /\ task[t].pc = "inner"
    BY <1>1, <1>4 DEF SyncInner, TypeOK, Task, SeqInv
  <2>2. /\ inner'.deps = arrived /\ inner'.seen = Live /\ inner'.idx = FoundIdx /\ tx' = tx
    BY <1>4 DEF SyncInner
  <2>3. Spendable' = Unspent(arrived, Live, FoundIdx + Lookahead)
    BY <2>2 DEF Spendable, Unspent, WithChange, SpentBy
  <2>4. \A p \in Live : tx[p].change <= FoundIdx + Lookahead
    <3>1. FoundIdx \in Nat /\ FoundIdx >= inner.idx
      BY <1>1, FoundIdxGreatest DEF Indexes
    <3>2. \A p \in Live : tx[p].change \in Nat /\ tx[p].change <= db + lost
      BY <1>1, IdxTypes DEF IdxInv, Live
    <3>3. db \in Nat /\ lost \in Nat /\ lost <= MaxLostWrites /\ db <= inner.idx /\ inner.idx \in Nat
      BY <1>1, IdxTypes DEF IdxInv
    <3> QED
      BY <3>1, <3>2, <3>3
  <2>5. task[t].balance \subseteq Unspent(arrived, Live, FoundIdx + Lookahead)
    BY <1>1, <2>1, <2>4, UnspentGrows DEF MaxInv
  <2> QED
    BY <1>1, <2>1, <2>3, <2>5 DEF MaxInv, Synced
<1>5. ASSUME UNCHANGED <<tx, inner>>, task'[t].balance = task[t].balance,
             task'[t].kind = task[t].kind, task'[t].tx = task[t].tx,
             task[t].pc \in {"merge", "write"}, task'[t].pc \in {"write", "build", "broadcast"},
             task'[t].pc = "build" => task[t].tx = 0
      PROVE  MaxInv'
  <2>1. Spendable' = Spendable
    BY <1>5 DEF Spendable, Unspent, WithChange, SpentBy
  <2> QED
    BY <1>1, <1>5, <2>1 DEF MaxInv, Synced
<1>6. CASE MergeDelta(t)
  <2>1. /\ task'[t].balance = task[t].balance /\ task'[t].kind = task[t].kind
        /\ task'[t].tx = task[t].tx /\ task[t].pc = "merge" /\ task'[t].pc = "write"
    BY <1>1, <1>6 DEF MergeDelta, TypeOK, Task
  <2> QED
    BY <1>5, <1>6, <2>1 DEF MergeDelta
<1>7. CASE WriteChangeset(t)
  <2>1. /\ task'[t].balance = task[t].balance /\ task'[t].kind = task[t].kind
        /\ task'[t].tx = task[t].tx /\ task[t].pc = "write"
        /\ task'[t].pc = IF task[t].tx = 0 THEN "build" ELSE "broadcast"
    BY <1>1, <1>7 DEF WriteChangeset, Goto, TypeOK, Task
  <2> QED
    BY <1>5, <1>7, <2>1 DEF WriteChangeset
<1>8. ASSUME NEW C \in SUBSET Coins, NEW change \in Indexes, BuildTx(t, C, change),
             task[t].kind = "max" => C = Spendable
      PROVE  MaxInv'
  <2>1. PICK n : n = NextPay
    OBVIOUS
  <2>2. /\ task'[t].pc \in {"merge", "broadcast"} /\ task'[t].tx = n /\ task[t].pc = "build"
        /\ task'[t].balance = task[t].balance /\ task'[t].kind = task[t].kind
    BY <1>1, <1>8, <2>1 DEF BuildTx, TypeOK, Task
  <2>3. n \in Payments /\ tx'[n] = [ins |-> C, change |-> change]
    BY <1>1, <1>8, <2>1, BuildKeepsLive
  <2>4. n # 0 /\ tx'[n].ins = C
    BY <2>3 DEF Payments
  <2>5. task[t].balance \subseteq Spendable
    BY <2>2 DEF MaxInv, Synced
  <2> QED
    BY <1>1, <1>8, <2>2, <2>4, <2>5 DEF MaxInv, Synced
<1>9. ASSUME NEW C \in SUBSET Coins, build_sign_and_broadcast(t, C)
      PROVE  MaxInv'
  <2>1. BuildTx(t, C, 0) \/ (BuildTx(t, C, NextIdx) /\ NextIdx \in Indexes)
    BY <1>9, NextIdxFree DEF build_sign_and_broadcast, BuildTx, TypeInv, Indexes
  <2>2. task[t].kind # "max" /\ 0 \in Indexes
    BY <1>9 DEF build_sign_and_broadcast, Indexes
  <2> QED
    BY <1>8, <2>1, <2>2
<1>10. ASSUME NEW C \in SUBSET Coins, sweep_to(t, C)
       PROVE  MaxInv'
  BY <1>8, <1>10 DEF sweep_to, Indexes
<1>11. CASE Broadcast(t)
  <2>1. CASE End(t)
    BY <1>2, <2>1
  <2>2. CASE Goto(t, "insert")
    <3>1. /\ task'[t].balance = task[t].balance /\ task'[t].kind = task[t].kind
          /\ task'[t].tx = task[t].tx /\ task'[t].pc = "insert"
      BY <1>1, <2>2 DEF Goto, TypeOK, Task
    <3>2. tx' = tx
      BY <1>11 DEF Broadcast
    <3> QED
      BY <1>1, <3>1, <3>2 DEF MaxInv, Synced
  <2> QED
    BY <1>11, <2>1, <2>2 DEF Broadcast
<1>12. CASE compute_drain_amount(t) \/ BuildFails(t) \/ InsertLedger(t) \/ Abort(t)
  BY <1>2, <1>12 DEF compute_drain_amount, BuildFails, InsertLedger, Abort
<1> QED
  BY <1>3, <1>4, <1>6, <1>7, <1>9, <1>10, <1>11, <1>12 DEF Step

(* The invariant of Send-Max is inductive.                                 *)
LEMMA NextDrains ==
  ASSUME OneAtATime, MaxLostWrites <= Lookahead, OldDeposits = {},
         TypeInv, SeqInv, IdxInv, MaxInv, [Next]_vars
  PROVE  MaxInv'
<1> USE SendAssumption
<1> TypeOK
  BY DEF TypeInv
<1>1. ASSUME UNCHANGED <<tx, inner, task>>, arrived \subseteq arrived', Live' = Live
      PROVE  MaxInv'
  <2>1. Spendable' = Spendable
    BY <1>1 DEF Spendable, Unspent, WithChange, SpentBy
  <2>2. Unspent(arrived, Live, MaxPays) \subseteq Unspent(arrived, Live, MaxPays)'
    BY <1>1 DEF Unspent, WithChange, SpentBy
  <2> QED
    BY <1>1, <2>1, <2>2 DEF MaxInv, Synced
<1>2. ASSUME NEW d \in Deposits, Deposit(d)
      PROVE  MaxInv'
  BY <1>1, <1>2 DEF Deposit, Live
<1>3. ASSUME NEW p \in Payments, Confirm(p)
      PROVE  MaxInv'
  <2>1. Live' = Live
    BY <1>3 DEF Confirm, Live, TypeOK
  <2> QED
    BY <1>1, <1>3, <2>1 DEF Confirm
<1>4. ASSUME \A t \in Tasks : task'[t].pc \in {"idle", "versions"} /\ task'[t].tx = 0
      PROVE  MaxInv'
  BY <1>4 DEF MaxInv, Synced
<1>5. ASSUME NEW p \in Payments, LateArrive(p)
      PROVE  MaxInv'
  BY <1>4, <1>5 DEF LateArrive, SeqInv
<1>6. ASSUME NEW t \in Tasks, NEW kind \in Kinds, Start(t, kind)
      PROVE  MaxInv'
  <2>1. task'[t].pc = "versions" /\ task'[t].tx = 0 /\ \A u \in Tasks : u = t
    BY <1>6 DEF Start, OneAtATime, TypeOK, Idle
  <2> QED
    BY <1>4, <2>1
<1>7. CASE Restart
  <2>1. \A t \in Tasks : task'[t].pc = "idle" /\ task'[t].tx = 0
    BY <1>7 DEF Restart, Idle
  <2> QED
    BY <1>4, <2>1
<1>8. CASE UNCHANGED vars
  BY <1>1, <1>8 DEF vars, Live
<1> QED
  BY <1>2, <1>3, <1>5, <1>6, <1>7, <1>8, StepDrains DEF Next

(* A user whose coins are all at the current federation, with requests one *)
(* at a time and no more failed writes than the lookahead: "Send Max"      *)
(* spends every coin of the balance that its own sync showed.              *)
THEOREM SendMaxDrainsBalance ==
  OneAtATime /\ MaxLostWrites <= Lookahead /\ OldDeposits = {} /\ Spec => []SendMaxDrains
<1> DEFINE H == OneAtATime /\ MaxLostWrites <= Lookahead /\ OldDeposits = {}
           I == H /\ TypeInv /\ SeqInv /\ IdxInv /\ MaxInv
<1>1. H /\ Init => I
  <2> SUFFICES ASSUME Init PROVE IdxInv /\ MaxInv
    BY InitSequential
  <2>1. Live = {} /\ late = {} /\ inner.idx = 0 /\ inner.stage = 0 /\ db = 0 /\ agg = 0 /\ lost = 0
    BY DEF Init, Live, Loaded
  <2>2. \A t \in Tasks : task[t].pc = "idle" /\ task[t].tx = 0
    BY DEF Init, Idle
  <2> QED
    BY <2>1, <2>2 DEF IdxInv, MaxInv, WriteDue, Synced, Signed
<1>2. I /\ [Next]_vars => I'
  BY NextTyped, NextSequential, NextIndexed, NextDrains DEF OneAtATime
<1>3. I => SendMaxDrains
  BY DEF MaxInv, SendMaxDrains
<1>4. H <=> OneAtATime /\ MaxLostWrites <= Lookahead /\ OldDeposits = {}
  OBVIOUS
<1> HIDE DEF H, I
<1> QED
  BY <1>1, <1>2, <1>3, <1>4, PTL DEF Spec

-----------------------------------------------------------------------------
(* Requests that overlap.  A send may then replace an earlier one; this is *)
(* what is left of the ledger's promise.                                   *)

(* The payments that stand fit together: no coin is spent twice, and every *)
(* input is a deposit or the change of another payment that stands.        *)
StandTogether ==
  /\ \A p, q \in Live : p # q => tx[p].ins \cap tx[q].ins = {}
  /\ \A p \in Live : tx[p].ins \subseteq arrived \cup WithChange(Live)

(* Confirmed payments build on confirmed ones, what was built has inputs,  *)
(* and what a request holds or has sent off was built.                     *)
OverlapInv ==
  /\ StandTogether
  /\ \A p \in Payments :
       /\ net[p] # "unbuilt" => tx[p].ins # {}
       /\ net[p] = "confirmed" => \A q \in tx[p].ins \cap Payments : net[q] = "confirmed"
  /\ \A p \in late : net[p] # "unbuilt"
  /\ ledger \subseteq Taken
  /\ \A t \in Tasks :
       /\ task[t].tx # 0 => net[task[t].tx] # "unbuilt"
       /\ task[t].pc = "insert" => task[t].tx \in Taken

(* A payment that is displaced takes along what spends the same coins and  *)
(* what builds on it; confirmed payments are never displaced.              *)
LEMMA DisplacedClosed ==
  ASSUME NEW p
  PROVE  /\ Displaced(p) \subseteq Mempool
         /\ \A q \in Mempool : tx[q].ins \cap tx[p].ins # {} => q \in Displaced(p)
         /\ \A q \in Mempool : tx[q].ins \cap Displaced(p) # {} => q \in Displaced(p)
<1>1. Displaced(p) \subseteq Mempool
  BY DEF Displaced
<1>2. ASSUME NEW q \in Mempool, tx[q].ins \cap tx[p].ins # {}
      PROVE  q \in Displaced(p)
  BY <1>2 DEF Displaced, Conflicts
<1>3. ASSUME NEW q \in Mempool, NEW c \in tx[q].ins, c \in Displaced(p)
      PROVE  q \in Displaced(p)
  BY <1>3 DEF Displaced
<1> QED
  BY <1>1, <1>2, <1>3

(* A payment that arrives: those that still stand fit together.            *)
LEMMA ArriveStands ==
  ASSUME TypeOK, OverlapInv, NEW p \in Payments, net[p] # "unbuilt", Arrive(p),
         UNCHANGED <<arrived, tx>>
  PROVE  /\ StandTogether'
         /\ p \in Taken' /\ Taken \subseteq Taken'
         /\ \A q \in Payments : net'[q] = "unbuilt" <=> net[q] = "unbuilt"
         /\ \A q \in Payments : net'[q] = "confirmed" <=> net[q] = "confirmed"
<1> USE SendAssumption
<1>1. /\ net'[p] = "mempool"
      /\ \A q \in Displaced(p) \ {p} : net'[q] = "replaced"
      /\ \A q \in Payments \ (Displaced(p) \cup {p}) : net'[q] = net[q]
  <2>1. Displaced(p) \subseteq Payments
    BY DisplacedClosed DEF Mempool
  <2> QED
    BY <2>1 DEF Arrive
<1>2. tx[p].ins # {} /\ net[p] # "confirmed"
  <2>1. tx[p].ins # {}
    BY DEF OverlapInv
  <2>2. ASSUME net[p] = "confirmed"
        PROVE  FALSE
    <3>1. p \in Live \ Mempool
      BY <2>2 DEF Live, Mempool
    <3>2. tx[p].ins \subseteq SpentBy(Live \ Mempool)
      BY <3>1 DEF SpentBy
    <3> QED
      BY <3>2, <2>1 DEF Arrive, Valid
  <2> QED
    BY <2>1, <2>2
<1>3. \A q \in Displaced(p) : q \in Payments /\ net[q] = "mempool"
  BY DisplacedClosed DEF Mempool
<1>4. Live' = (Live \ Displaced(p)) \cup {p}
  BY <1>1, <1>3 DEF Live
<1>5. ASSUME NEW q \in Live \ Displaced(p), q # p
      PROVE  tx[q].ins \cap tx[p].ins = {}
  <2>1. CASE q \in Mempool
    BY <2>1, <1>5, DisplacedClosed
  <2>2. CASE q \notin Mempool
    <3>1. tx[q].ins \subseteq SpentBy(Live \ Mempool)
      BY <2>2 DEF SpentBy
    <3> QED
      BY <3>1 DEF Arrive, Valid
  <2> QED
    BY <2>1, <2>2
<1>6. \A q, r \in Live' : q # r => tx[q].ins \cap tx[r].ins = {}
  BY <1>4, <1>5 DEF OverlapInv, StandTogether
<1>7. WithChange(Live)' = {q \in Live' : tx[q].change # 0}
  BY DEF WithChange
<1>8. ASSUME NEW q \in Live', NEW c \in tx[q].ins
      PROVE  c \in arrived \cup WithChange(Live)'
  <2>1. c \in arrived \cup WithChange(Live)
    <3>1. CASE q = p
      BY <3>1, <1>8 DEF Arrive, Valid
    <3>2. CASE q # p
      BY <3>2, <1>4, <1>8 DEF OverlapInv, StandTogether
    <3> QED
      BY <3>1, <3>2
  <2>2. c \notin Displaced(p)
    <3>1. CASE q = p
      BY <3>1, <1>8 DEF Arrive, Valid
    <3>2. CASE q # p /\ q \in Mempool
      BY <3>2, <1>4, <1>8, DisplacedClosed
    <3>3. CASE q # p /\ q \notin Mempool
      <4>1. q \in Payments /\ net[q] = "confirmed"
        BY <3>3, <1>4 DEF Live, Mempool
      <4>2. c \in Payments => net[c] = "confirmed"
        BY <4>1, <1>8 DEF OverlapInv
      <4> QED
        BY <4>2, <1>3
    <3> QED
      BY <3>1, <3>2, <3>3
  <2> QED
    BY <2>1, <2>2, <1>4, <1>7 DEF WithChange
<1>9. StandTogether'
  BY <1>6, <1>8 DEF StandTogether
<1>10. /\ \A q \in Payments : net'[q] = "unbuilt" <=> net[q] = "unbuilt"
       /\ \A q \in Payments : net'[q] = "confirmed" <=> net[q] = "confirmed"
  BY <1>1, <1>2, <1>3
<1>11. p \in Taken' /\ Taken \subseteq Taken'
  BY <1>1, ArriveTakes DEF Taken
<1> QED
  BY <1>9, <1>10, <1>11

(* A step that leaves the transactions alone keeps the invariant when the  *)
(* payments still fit together, none is forgotten and the requests hold    *)
(* no other transactions than before.                                      *)
LEMMA OverlapKept ==
  ASSUME TypeInv, OverlapInv, UNCHANGED tx, StandTogether',
         Taken \subseteq Taken', ledger' \subseteq Taken',
         \A q \in Payments : net'[q] = "unbuilt" <=> net[q] = "unbuilt",
         \A q \in Payments : net[q] = "confirmed" => net'[q] = "confirmed",
         \A q \in Payments : net'[q] = "confirmed" =>
           \A r \in tx[q].ins \cap Payments : net'[r] = "confirmed",
         \A q \in late' : q \in Payments /\ net[q] # "unbuilt",
         \A u \in Tasks : \/ task'[u].tx = 0 /\ task'[u].pc # "insert"
                          \/ task'[u].tx = task[u].tx /\ task'[u].pc = task[u].pc
                          \/ task'[u].tx = task[u].tx /\ task'[u].pc # "insert"
                          \/ task'[u].tx = task[u].tx /\ task[u].tx \in Taken'
  PROVE  OverlapInv'
<1>1. \A u \in Tasks : task[u].tx \in 0..MaxPays
  BY TaskFields DEF TypeInv
<1>2. \A u \in Tasks : task[u].tx # 0 => task[u].tx \in Payments
  BY <1>1, SendAssumption DEF Payments
<1>3. \A u \in Tasks : task'[u].tx # 0 => net'[task'[u].tx] # "unbuilt"
  BY <1>2 DEF OverlapInv
<1>4. \A u \in Tasks : task'[u].pc = "insert" => task'[u].tx \in Taken'
  BY DEF OverlapInv
<1>5. \A q \in Payments : net'[q] # "unbuilt" => tx'[q].ins # {}
  BY DEF OverlapInv
<1> QED
  BY <1>3, <1>4, <1>5 DEF OverlapInv

(* The network unchanged, and only the requests moved on.                  *)
LEMMA OverlapAside ==
  ASSUME TypeInv, OverlapInv, UNCHANGED <<arrived, net, tx, late, ledger>>,
         \A u \in Tasks : \/ task'[u].tx = 0 /\ task'[u].pc # "insert"
                          \/ task'[u].tx = task[u].tx /\ task'[u].pc = task[u].pc
                          \/ task'[u].tx = task[u].tx /\ task'[u].pc # "insert"
  PROVE  OverlapInv'
<1>1. Live' = Live /\ Taken' = Taken /\ WithChange(Live)' = WithChange(Live)
  BY DEF Live, Taken, WithChange
<1>2. StandTogether'
  BY <1>1 DEF OverlapInv, StandTogether
<1> QED
  BY <1>1, <1>2, OverlapKept DEF OverlapInv, TypeInv, TypeOK

(* A transaction that is built is new: it changes nothing for the others.  *)
LEMMA OverlapBuild ==
  ASSUME TypeInv, OverlapInv, NEW t \in Tasks, NEW C \in SUBSET Coins, NEW change \in Indexes,
         BuildTx(t, C, change)
  PROVE  OverlapInv'
<1> DEFINE n == NextPay
<1> TypeOK
  BY DEF TypeInv
<1>1. /\ n \in Payments /\ net[n] = "unbuilt"
      /\ net' = [net EXCEPT ![n] = "built"]
      /\ tx'[n] = [ins |-> C, change |-> change]
      /\ \A p \in Payments \ {n} : tx'[p] = tx[p]
      /\ Live' = Live /\ Taken' = Taken /\ n \notin Taken /\ n \notin Live
      /\ WithChange(Live)' = WithChange(Live)
  BY BuildKeepsLive
<1>2. /\ C # {} /\ UNCHANGED <<arrived, late, ledger>>
      /\ task'[t].tx = n /\ task'[t].pc \in {"merge", "broadcast"}
      /\ \A u \in Tasks \ {t} : task'[u] = task[u]
  BY TaskFields DEF BuildTx, TypeOK
<1> HIDE DEF n
<1>3. \A p \in Payments : net'[p] = IF p = n THEN "built" ELSE net[p]
  BY <1>1 DEF TypeOK
<1>4. StandTogether'
  <2>1. \A p \in Live : tx'[p] = tx[p]
    BY <1>1 DEF Live
  <2> QED
    BY <1>1, <1>2, <2>1 DEF OverlapInv, StandTogether
<1>5. ASSUME NEW p \in Payments
      PROVE  /\ net'[p] # "unbuilt" => tx'[p].ins # {}
             /\ net'[p] = "confirmed" => \A q \in tx'[p].ins \cap Payments : net'[q] = "confirmed"
  <2>1. CASE p = n
    BY <2>1, <1>1, <1>2, <1>3
  <2>2. CASE p # n
    BY <2>2, <1>1, <1>3 DEF OverlapInv
  <2> QED
    BY <2>1, <2>2
<1>6. \A u \in Tasks : task[u].tx # 0 => task[u].tx \in Payments
  BY TaskFields, SendAssumption DEF Payments
<1>7. ASSUME NEW u \in Tasks
      PROVE  /\ task'[u].tx # 0 => net'[task'[u].tx] # "unbuilt"
             /\ task'[u].pc = "insert" => task'[u].tx \in Taken'
  <2>1. CASE u = t
    BY <2>1, <1>1, <1>2, <1>3
  <2>2. CASE u # t
    BY <2>2, <1>1, <1>2, <1>3, <1>6 DEF OverlapInv
  <2> QED
    BY <2>1, <2>2
<1>8. \A p \in late' : net'[p] # "unbuilt"
  BY <1>2, <1>3 DEF OverlapInv, TypeOK
<1>9. ledger' \subseteq Taken'
  BY <1>1, <1>2 DEF OverlapInv
<1> QED
  BY <1>4, <1>5, <1>7, <1>8, <1>9 DEF OverlapInv

(* A broadcast, answered or not.                                           *)
LEMMA OverlapBroadcast ==
  ASSUME TypeInv, OverlapInv, NEW t \in Tasks, Broadcast(t)
  PROVE  OverlapInv'
<1> DEFINE p == task[t].tx
<1> TypeOK
  BY DEF TypeInv
<1>1. p \in Payments /\ net[p] # "unbuilt" /\ UNCHANGED <<arrived, tx, ledger>>
  BY TaskFields, SendAssumption DEF Broadcast, TypeInv, OverlapInv, Payments
<1>2. /\ End(t) => task'[t].tx = 0 /\ task'[t].pc = "idle"
      /\ Goto(t, "insert") => task'[t].tx = p
      /\ \A u \in Tasks \ {t} : task'[u] = task[u]
  <2>1. End(t) => task'[t] = Idle /\ \A u \in Tasks \ {t} : task'[u] = task[u]
    BY EndTyped
  <2>2. Goto(t, "insert") => /\ task'[t] = [task[t] EXCEPT !.pc = "insert"]
                             /\ \A u \in Tasks \ {t} : task'[u] = task[u]
    BY DEF Goto, TypeOK
  <2>3. End(t) \/ Goto(t, "insert")
    BY DEF Broadcast
  <2> QED
    BY <2>1, <2>2, <2>3, TaskFields DEF Idle, Task
<1>3. CASE UNCHANGED net /\ End(t) /\ late' \subseteq late \cup {p}
  <2>1. Live' = Live /\ Taken' = Taken /\ WithChange(Live)' = WithChange(Live)
    BY <1>1, <1>3 DEF Live, Taken, WithChange
  <2>2. StandTogether'
    BY <1>1, <2>1 DEF OverlapInv, StandTogether
  <2>3. \A q \in late' : q \in Payments /\ net[q] # "unbuilt"
    BY <1>1, <1>3 DEF OverlapInv, TypeOK
  <2> QED
    BY <1>1, <1>2, <1>3, <2>1, <2>2, <2>3, OverlapKept DEF OverlapInv
<1>4. CASE Arrive(p) /\ (Goto(t, "insert") \/ End(t)) /\ UNCHANGED late
  <2>1. /\ StandTogether'
        /\ p \in Taken' /\ Taken \subseteq Taken'
        /\ \A q \in Payments : net'[q] = "unbuilt" <=> net[q] = "unbuilt"
        /\ \A q \in Payments : net'[q] = "confirmed" <=> net[q] = "confirmed"
    <3> HIDE DEF p
    <3> QED
      BY <1>1, <1>4, ArriveStands
  <2>2. \A q \in late' : q \in Payments /\ net[q] # "unbuilt"
    BY <1>4 DEF OverlapInv, TypeOK
  <2>3. \A u \in Tasks : \/ task'[u].tx = 0 /\ task'[u].pc # "insert"
                         \/ task'[u].tx = task[u].tx /\ task'[u].pc = task[u].pc
                         \/ task'[u].tx = task[u].tx /\ task[u].tx \in Taken'
    BY <1>2, <1>4, <2>1
  <2>4. ledger' \subseteq Taken'
    BY <1>1, <2>1 DEF OverlapInv
  <2>5. \A q \in Payments : net'[q] = "confirmed" =>
          \A r \in tx[q].ins \cap Payments : net'[r] = "confirmed"
    BY <2>1 DEF OverlapInv
  <2> QED
    BY <1>1, <2>1, <2>2, <2>3, <2>4, <2>5, OverlapKept
<1> QED
  BY <1>3, <1>4 DEF Broadcast

(* Each part of a request preserves the invariant.                         *)
LEMMA OverlapStep ==
  ASSUME TypeInv, OverlapInv, NEW t \in Tasks, Step(t)
  PROVE  OverlapInv'
<1> USE SendAssumption
<1> TypeOK
  BY DEF TypeInv
<1>1. CASE SyncVersions(t)
  BY <1>1, TaskFields, OverlapAside DEF SyncVersions, TypeOK
<1>2. CASE SyncInner(t)
  <2>1. /\ task'[t].tx = task[t].tx /\ task'[t].pc # "insert"
        /\ \A u \in Tasks \ {t} : task'[u] = task[u]
    BY <1>2, TaskFields DEF SyncInner, TypeOK
  <2>2. UNCHANGED <<arrived, net, tx, late, ledger>>
    BY <1>2 DEF SyncInner
  <2> QED
    BY <2>1, <2>2, OverlapAside
<1>3. CASE MergeDelta(t)
  BY <1>3, TaskFields, OverlapAside DEF MergeDelta, TypeOK
<1>4. CASE WriteChangeset(t)
  BY <1>4, TaskFields, OverlapAside DEF WriteChangeset, Goto, TypeOK
<1>5. ASSUME NEW C \in SUBSET Coins, build_sign_and_broadcast(t, C) \/ sweep_to(t, C)
      PROVE  OverlapInv'
  <2>1. BuildTx(t, C, 0) \/ (BuildTx(t, C, NextIdx) /\ NextIdx \in Indexes)
    BY <1>5, NextIdxFree DEF build_sign_and_broadcast, sweep_to, BuildTx, TypeInv, Indexes
  <2>2. 0 \in Indexes
    BY DEF Indexes
  <2> QED
    BY <2>1, <2>2, OverlapBuild
<1>6. CASE compute_drain_amount(t) \/ BuildFails(t) \/ Abort(t)
  <2>1. End(t) /\ UNCHANGED <<arrived, net, tx, late, ledger>>
    BY <1>6 DEF compute_drain_amount, BuildFails, Abort
  <2> QED
    BY <2>1, EndTyped, OverlapAside DEF Idle
<1>7. CASE Broadcast(t)
  BY <1>7, OverlapBroadcast
<1>8. CASE InsertLedger(t)
  <2>1. /\ UNCHANGED <<arrived, net, tx, late>>
        /\ ledger' \subseteq Taken /\ End(t)
    BY <1>8 DEF InsertLedger, OverlapInv
  <2>2. Live' = Live /\ Taken' = Taken /\ WithChange(Live)' = WithChange(Live)
    BY <2>1 DEF Live, Taken, WithChange
  <2>3. StandTogether'
    BY <2>1, <2>2 DEF OverlapInv, StandTogether
  <2> QED
    BY <2>1, <2>2, <2>3, EndTyped, OverlapKept DEF OverlapInv, TypeOK, Idle
<1> QED
  BY <1>1, <1>2, <1>3, <1>4, <1>5, <1>6, <1>7, <1>8 DEF Step

(* The invariant is inductive.                                             *)
LEMMA OverlapNext ==
  ASSUME TypeInv, OverlapInv, [Next]_vars
  PROVE  OverlapInv'
<1> USE SendAssumption
<1> TypeOK
  BY DEF TypeInv
<1>1. ASSUME NEW d \in Deposits, Deposit(d)
      PROVE  OverlapInv'
  <2>1. /\ arrived \subseteq arrived'
        /\ UNCHANGED <<net, tx, late, ledger, task>>
    BY <1>1 DEF Deposit
  <2>2. Live' = Live /\ Taken' = Taken /\ WithChange(Live)' = WithChange(Live)
    BY <2>1 DEF Live, Taken, WithChange
  <2>3. StandTogether'
    BY <2>1, <2>2 DEF OverlapInv, StandTogether
  <2> QED
    BY <2>1, <2>2, <2>3, OverlapKept DEF OverlapInv, TypeOK
<1>2. ASSUME NEW p \in Payments, Confirm(p)
      PROVE  OverlapInv'
  <2>1. /\ UNCHANGED <<arrived, tx, late, ledger, task>>
        /\ net[p] = "mempool"
        /\ \A q \in Payments : net'[q] = IF q = p THEN "confirmed" ELSE net[q]
        /\ \A q \in tx[p].ins \cap Payments : net[q] = "confirmed"
    BY <1>2 DEF Confirm, TypeOK
  <2>2. Live' = Live /\ Taken' = Taken
    BY <2>1 DEF Live, Taken
  <2>3. WithChange(Live)' = WithChange(Live)
    BY <2>1, <2>2 DEF WithChange
  <2>4. StandTogether'
    BY <2>1, <2>2, <2>3 DEF OverlapInv, StandTogether
  <2>5. \A q \in Payments : net'[q] = "confirmed" =>
          \A r \in tx[q].ins \cap Payments : net'[r] = "confirmed"
    BY <2>1 DEF OverlapInv
  <2>6. \A q \in late' : q \in Payments /\ net[q] # "unbuilt"
    BY <2>1 DEF OverlapInv, TypeOK
  <2> QED
    BY <2>1, <2>2, <2>4, <2>5, <2>6, OverlapKept DEF OverlapInv
<1>3. ASSUME NEW p \in Payments, LateArrive(p)
      PROVE  OverlapInv'
  <2>1. /\ UNCHANGED <<arrived, tx, ledger, task>> /\ late' \subseteq late
        /\ net[p] # "unbuilt"
        /\ \A q \in late' : q \in Payments /\ net[q] # "unbuilt"
    BY <1>3 DEF LateArrive, OverlapInv, TypeOK
  <2>2. CASE UNCHANGED net
    BY <2>1, <2>2, NetUnchanged, OverlapKept
       DEF OverlapInv, StandTogether, WithChange, Live, Taken
  <2>3. CASE Arrive(p)
    <3>1. /\ StandTogether' /\ Taken \subseteq Taken'
          /\ \A q \in Payments : net'[q] = "unbuilt" <=> net[q] = "unbuilt"
          /\ \A q \in Payments : net'[q] = "confirmed" <=> net[q] = "confirmed"
      BY <2>1, <2>3, ArriveStands
    <3>2. \A q \in Payments : net'[q] = "confirmed" =>
            \A r \in tx[q].ins \cap Payments : net'[r] = "confirmed"
      BY <3>1 DEF OverlapInv
    <3> QED
      BY <2>1, <3>1, <3>2, OverlapKept DEF OverlapInv
  <2> QED
    BY <1>3, <2>2, <2>3 DEF LateArrive
<1>4. ASSUME NEW t \in Tasks, NEW kind \in Kinds, Start(t, kind)
      PROVE  OverlapInv'
  <2>1. /\ task'[t].tx = 0 /\ task'[t].pc = "versions"
        /\ \A u \in Tasks \ {t} : task'[u] = task[u]
    BY <1>4 DEF Start, TypeOK, Idle
  <2> QED
    BY <1>4, <2>1, OverlapAside DEF Start
<1>5. CASE Restart
  <2>1. \A u \in Tasks : task'[u].tx = 0 /\ task'[u].pc = "idle"
    BY <1>5 DEF Restart, Idle
  <2> QED
    BY <1>5, <2>1, OverlapAside DEF Restart
<1>6. CASE UNCHANGED vars
  BY <1>6, OverlapAside DEF vars
<1> QED
  BY <1>1, <1>2, <1>3, <1>4, <1>5, <1>6, OverlapStep DEF Next

(* Sends that overlap in any way, also with transactions of requests that  *)
(* were dropped: one may replace another, but then it takes along all that *)
(* build on it.  The payments that stand never spend a coin twice and      *)
(* build only on deposits and on each other, and transactions has rows     *)
(* only for payments that the network has taken.                           *)
THEOREM SendOverlapSound == Spec => [](StandTogether /\ ledger \subseteq Taken)
<1>1. Init => TypeInv /\ OverlapInv
  <2>1. Init => Live = {}
    BY DEF Init, Live
  <2>2. Init => OverlapInv
    BY <2>1 DEF Init, OverlapInv, StandTogether, Taken, Idle
  <2> QED
    BY <2>2, InitSequential
<1>2. TypeInv /\ OverlapInv /\ [Next]_vars => (TypeInv /\ OverlapInv)'
  BY NextTyped, OverlapNext
<1>3. OverlapInv => StandTogether /\ ledger \subseteq Taken
  BY DEF OverlapInv
<1> QED
  BY <1>1, <1>2, <1>3, PTL DEF Spec

=============================================================================
