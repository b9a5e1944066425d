---------------------- MODULE WalletProvisioningProofs ----------------------
(***************************************************************************)
(* Proofs about WalletProvisioning, for any set of users and requests.     *)
(*                                                                         *)
(* TypeOK is not inductive by itself: the row that InsertWallet writes     *)
(* takes its key from the task's signers, and the boot position may only   *)
(* advance while the boot task still has a seed to finish.  TaskOK records *)
(* what each program point knows about the locals.                         *)
(***************************************************************************)
EXTENDS WalletProvisioning, TLAPS

TaskOK(p) ==
  LET t == task[p] IN
  /\ t.pc \in {"insert", "build"} => t.signers \in Nat
  /\ t.pc \in {"build", "record", "publish"} => t.key \in Nat
  /\ t.pc \in {"find", "alloc", "insert"} => t.key = NoKey
  /\ p = Boot => t.key = NoKey /\ t.pc \notin {"build", "record", "publish"}
  /\ p = Boot /\ t.pc # "idle" => ~Serving

(* MAX(account_idx) is defined on a table that is not empty.               *)
HasMax(c) ==
  UsedIdx(c) # {} => \E m \in UsedIdx(c) : \A n \in UsedIdx(c) : n <= m

TypeInv ==
  /\ TypeOK
  /\ \A p \in Procs : TaskOK(p)
  /\ \A c \in Chains : HasMax(c)

(* What the seeding order of main.rs gives for each boot position.         *)
LEMMA SeedFacts ==
  /\ Len(SeedOrder) \in Nat \ {0}
  /\ SeedSteps \in Nat
  /\ Admin \in Users
  /\ FirstSeed \in 1..(SeedSteps + 1)
  /\ \A p \in 1..SeedSteps : SeedChain(p) \in Chains /\ SeedUser(p) \in Users
<1>1. Len(SeedOrder) \in Nat \ {0}
  BY SeedAssumption
<1>2. SeedSteps \in Nat /\ FirstSeed \in 1..(SeedSteps + 1)
  BY <1>1, ProcAssumption DEF SeedSteps, FirstSeed
<1>3. Admin \in Users
  BY <1>1, SeedAssumption
<1>4. ASSUME NEW p \in 1..SeedSteps
      PROVE  SeedChain(p) \in Chains /\ SeedUser(p) \in Users
  BY <1>1, SeedAssumption DEF SeedSteps, SeedChain, SeedUser, Chains
<1> QED
  BY <1>1, <1>2, <1>3, <1>4

(* A fresh set of locals of load_or_init has the type of a task.           *)
LEMMA TaskRecord ==
  ASSUME NEW pc \in Step, NEW c \in Chains, NEW u \in Users
  PROVE  NewTask(pc, c, u) \in Task /\ Idle \in Task
BY SeedFacts DEF NewTask, Idle, Task, Key, NoKey, Step, Chains

(* With a maximum in the table, the index handed out is a natural number.  *)
LEMMA NextIdxType ==
  ASSUME NEW c \in Chains, wallets \subseteq Row, HasMax(c)
  PROVE  next_account_idx(c) \in Nat
<1>1. UsedIdx(c) \subseteq Nat
  BY DEF UsedIdx, Row
<1>2. CASE UsedIdx(c) = {}
  BY <1>2 DEF next_account_idx
<1>3. CASE UsedIdx(c) # {}
  <2>1. (CHOOSE m \in UsedIdx(c) : \A n \in UsedIdx(c) : n <= m) \in UsedIdx(c)
    BY <1>3 DEF HasMax
  <2> QED
    BY <1>1, <1>3, <2>1 DEF next_account_idx
<1> QED
  BY <1>2, <1>3

(* Inserting one row keeps a maximum: the old one or the new row's index.  *)
LEMMA InsertKeepsMax ==
  ASSUME wallets \subseteq Row, NEW row \in Row, wallets' = wallets \cup {row},
         NEW c \in Chains, HasMax(c)
  PROVE  HasMax(c)'
<1>1. UsedIdx(c) \subseteq Nat /\ row.account_idx \in Nat
  BY DEF UsedIdx, Row
<1>2. UsedIdx(c)' = UsedIdx(c) \cup (IF row.chain = c THEN {row.account_idx} ELSE {})
  BY DEF UsedIdx
<1>3. CASE row.chain # c
  BY <1>2, <1>3 DEF HasMax
<1>4. CASE row.chain = c /\ UsedIdx(c) = {}
  BY <1>1, <1>2, <1>4 DEF HasMax
<1>5. CASE row.chain = c /\ UsedIdx(c) # {}
  <2>1. PICK m \in UsedIdx(c) : \A n \in UsedIdx(c) : n <= m
    BY <1>5 DEF HasMax
  <2>2. CASE row.account_idx <= m
    BY <1>1, <1>2, <1>5, <2>1, <2>2 DEF HasMax
  <2>3. CASE m <= row.account_idx
    BY <1>1, <1>2, <1>5, <2>1, <2>3 DEF HasMax
  <2> QED
    BY <1>1, <2>1, <2>2, <2>3
<1> QED
  BY <1>3, <1>4, <1>5

(* An empty database and a process that has just started are well typed.   *)
LEMMA InitType == Init => TypeInv
<1> SUFFICES ASSUME Init PROVE TypeInv
  OBVIOUS
<1> USE SeedFacts, ProcAssumption DEF Init
<1>1. Idle \in Task /\ Idle.pc = "idle" /\ Idle.key = NoKey
  BY TaskRecord DEF Idle, NewTask, Task, Step, Chains, Key, NoKey
<1>2. TypeOK
  BY <1>1 DEF TypeOK, AllIdle, Key, NoKey, Chains
<1>3. ASSUME NEW p \in Procs PROVE TaskOK(p)
  BY <1>1 DEF TaskOK, AllIdle
<1>4. ASSUME NEW c \in Chains PROVE HasMax(c)
  BY DEF HasMax, UsedIdx
<1> QED
  BY <1>2, <1>3, <1>4 DEF TypeInv

(* A step of p writes p's locals only: the other tasks keep theirs, and    *)
(* the boot position moves only under the boot task itself.                *)
LEMMA OthersKeep ==
  ASSUME TypeInv, NEW p \in Procs, NEW t \in Task,
         task' = [task EXCEPT ![p] = t],
         seedPos' = seedPos \/ p = Boot
  PROVE  /\ task' \in [Procs -> Task]
         /\ task'[p] = t
         /\ \A q \in Procs \ {p} : task'[q] = task[q] /\ TaskOK(q)'
<1>1. task \in [Procs -> Task]
  BY DEF TypeInv, TypeOK
<1>2. ASSUME NEW q \in Procs \ {p} PROVE TaskOK(q)'
  <2>1. task'[q] = task[q]
    BY <1>1
  <2> QED
    BY <2>1 DEF TypeInv, TaskOK, Serving
<1> QED
  BY <1>1, <1>2

(* Steps that only change p's locals.                                      *)
LEMMA LocalStep ==
  ASSUME TypeInv, NEW p \in Procs, NEW t \in Task,
         task' = [task EXCEPT ![p] = t],
         UNCHANGED <<wallets, seedPos, restarts>>,
         version0' \in [Chains -> [Users -> Key]],
         signerCache' \in [Users -> Key],
         walletCache' \in [Chains -> [Users -> Key]],
         t.pc \in {"insert", "build"} => t.signers \in Nat,
         t.pc \in {"build", "record", "publish"} => t.key \in Nat,
         t.pc \in {"find", "alloc", "insert"} => t.key = NoKey,
         p = Boot => t.key = NoKey /\ t.pc \notin {"build", "record", "publish"},
         p = Boot /\ t.pc # "idle" => ~Serving
  PROVE  TypeInv'
<1>1. /\ task' \in [Procs -> Task]
      /\ task'[p] = t
      /\ \A q \in Procs \ {p} : TaskOK(q)'
  BY OthersKeep
<1>2. TaskOK(p)'
  BY <1>1 DEF TaskOK, Serving
<1>3. TypeOK'
  BY <1>1 DEF TypeInv, TypeOK
<1>4. \A c \in Chains : HasMax(c)'
  BY DEF TypeInv, HasMax, UsedIdx
<1> QED
  BY <1>1, <1>2, <1>3, <1>4 DEF TypeInv

(* A task that ends, with a row inserted or not: the boot task moves on to *)
(* its next seed.                                                          *)
LEMMA EndStep ==
  ASSUME TypeInv, NEW p \in Procs, Fail(p), task[p].pc # "idle",
         UNCHANGED <<version0, signerCache, walletCache, restarts>>,
         wallets' \subseteq Row, \A c \in Chains : HasMax(c)'
  PROVE  TypeInv'
<1> DEFINE t == Idle
<1>1. t \in Task /\ t.pc = "idle" /\ t.key = NoKey
  BY SeedFacts, TaskRecord DEF Idle, NewTask, Task, Step, Chains, Key, NoKey
<1>2. task' = [task EXCEPT ![p] = t] /\ (seedPos' = seedPos \/ p = Boot)
  BY DEF Fail
<1>3. /\ task' \in [Procs -> Task]
      /\ task'[p] = t
      /\ \A q \in Procs \ {p} : TaskOK(q)'
  BY <1>1, <1>2, OthersKeep
<1>4. TaskOK(p)'
  BY <1>1, <1>3 DEF TaskOK
<1>5. seedPos' \in 1..(SeedSteps + 1)
  BY SeedFacts DEF Fail, TypeInv, TypeOK, TaskOK, Serving
<1>6. TypeOK'
  BY <1>3, <1>5 DEF TypeInv, TypeOK
<1> QED
  BY <1>3, <1>4, <1>6 DEF TypeInv

(* Every step of a task keeps the types, action by action.                 *)
LEMMA WorkType ==
  ASSUME TypeInv, NEW p \in Procs, Work(p)
  PROVE  TypeInv'
<1> DEFINE t == task[p]
<1>0. /\ t \in Task /\ TaskOK(p) /\ task \in [Procs -> Task]
      /\ \A c \in Chains : HasMax(c)
      /\ wallets \subseteq Row
      /\ version0 \in [Chains -> [Users -> Key]]
      /\ signerCache \in [Users -> Key]
      /\ walletCache \in [Chains -> [Users -> Key]]
  BY DEF TypeInv, TypeOK
<1> USE <1>0
<1>1. CASE FindWallet(p)
  <2> USE <1>1 DEF FindWallet
  <2>1. CASE RowOf(t.chain, t.user) = {} /\ p = Boot /\ t.user = Admin
    <3> DEFINE n == [t EXCEPT !.pc = "signers", !.idx = AdminIdx]
    <3>1. n \in Task /\ n.pc = "signers" /\ n.key = t.key
      BY SeedAssumption DEF Task, Step
    <3>2. task' = [task EXCEPT ![p] = n]
      BY <2>1
    <3>3. t.key = NoKey /\ ~Serving
      BY <2>1 DEF TaskOK
    <3> HIDE DEF n
    <3> QED
      BY <3>1, <3>2, <3>3, <2>1, LocalStep
  <2>2. CASE RowOf(t.chain, t.user) = {} /\ ~(p = Boot /\ t.user = Admin)
    <3> DEFINE n == [t EXCEPT !.pc = "alloc"]
    <3>1. n \in Task /\ n.pc = "alloc" /\ n.key = t.key
      BY DEF Task, Step
    <3>2. task' = [task EXCEPT ![p] = n]
      BY <2>2 DEF Goto
    <3>3. t.key = NoKey /\ (p = Boot => ~Serving)
      BY <2>2 DEF TaskOK
    <3> HIDE DEF n
    <3> QED
      BY <3>1, <3>2, <3>3, <2>2, LocalStep
  <2>3. CASE RowOf(t.chain, t.user) # {} /\ p = Boot
    BY <2>3, EndStep DEF Succeed, HasMax, UsedIdx
  <2>4. CASE RowOf(t.chain, t.user) # {} /\ p # Boot
    <3>1. PICK w \in RowOf(t.chain, t.user) :
             task' = [task EXCEPT ![p].pc = "signers",
                                  ![p].idx = w.account_idx, ![p].key = w.key]
      BY <2>4
    <3> DEFINE n == [t EXCEPT !.pc = "signers", !.idx = w.account_idx, !.key = w.key]
    <3>2. n \in Task /\ n.pc = "signers"
      BY DEF Task, Step, RowOf, Row, Key
    <3>3. task' = [task EXCEPT ![p] = n]
      BY <3>1
    <3> HIDE DEF n
    <3> QED
      BY <3>2, <3>3, <2>4, LocalStep
  <2> QED
    BY <2>1, <2>2, <2>3, <2>4
<1>2. CASE AllocIdx(p)
  <2> DEFINE n == [t EXCEPT !.pc = "signers", !.idx = next_account_idx(t.chain)]
  <2>1. next_account_idx(t.chain) \in Nat
    BY NextIdxType DEF Task
  <2>2. n \in Task /\ n.pc = "signers" /\ n.key = t.key
    BY <2>1 DEF Task, Step
  <2>3. task' = [task EXCEPT ![p] = n]
    BY <1>2 DEF AllocIdx
  <2>4. t.key = NoKey /\ (p = Boot => ~Serving)
    BY <1>2 DEF AllocIdx, TaskOK
  <2> HIDE DEF n
  <2> QED
    BY <1>2, <2>2, <2>3, <2>4, LocalStep DEF AllocIdx
<1>3. CASE SignersCached(p)
  <2>1. CASE signerCache[t.user] # NoKey
    <3> DEFINE n == [t EXCEPT !.pc = AfterSigners(t), !.signers = signerCache[t.user]]
    <3>1. signerCache[t.user] \in Nat
      BY <2>1 DEF Task, Key
    <3>2. AfterSigners(t) \in {"insert", "build"}
      BY DEF AfterSigners
    <3>3. n \in Task /\ n.pc = AfterSigners(t) /\ n.key = t.key /\ n.signers \in Nat
      BY <3>1, <3>2 DEF Task, Step, Key
    <3>4. task' = [task EXCEPT ![p] = n]
      BY <1>3, <2>1 DEF SignersCached
    <3>5. /\ n.pc = "build" => t.key \in Nat
          /\ n.pc = "insert" => t.key = NoKey
          /\ p = Boot => n.pc = "insert" /\ t.key = NoKey /\ ~Serving
      BY <1>3, <3>3 DEF SignersCached, AfterSigners, TaskOK, Task, Key
    <3> HIDE DEF n
    <3> QED
      BY <1>3, <3>2, <3>3, <3>4, <3>5, LocalStep DEF SignersCached
  <2>2. CASE signerCache[t.user] = NoKey
    <3> DEFINE n == [t EXCEPT !.pc = "derive"]
    <3>1. n \in Task /\ n.pc = "derive" /\ n.key = t.key
      BY DEF Task, Step
    <3>2. task' = [task EXCEPT ![p] = n]
      BY <1>3, <2>2 DEF SignersCached, Goto
    <3>3. p = Boot => t.key = NoKey /\ ~Serving
      BY <1>3 DEF SignersCached, TaskOK
    <3> HIDE DEF n
    <3> QED
      BY <1>3, <3>1, <3>2, <3>3, LocalStep DEF SignersCached
  <2> QED
    BY <2>1, <2>2
<1>4. CASE DeriveSigners(p)
  <2> DEFINE kept == IF signerCache[t.user] # NoKey THEN signerCache[t.user] ELSE t.idx
             n == [t EXCEPT !.pc = AfterSigners(t), !.signers = kept]
  <2>1. kept \in Nat
    BY DEF Task, Key
  <2>2. AfterSigners(t) \in {"insert", "build"}
    BY DEF AfterSigners
  <2>3. n \in Task /\ n.pc = AfterSigners(t) /\ n.key = t.key /\ n.signers \in Nat
    BY <2>1, <2>2 DEF Task, Step, Key
  <2>4. /\ task' = [task EXCEPT ![p] = n]
        /\ signerCache' = [signerCache EXCEPT ![t.user] = kept]
    BY <1>4 DEF DeriveSigners
  <2>5. /\ n.pc = "build" => t.key \in Nat
        /\ n.pc = "insert" => t.key = NoKey
        /\ p = Boot => n.pc = "insert" /\ t.key = NoKey /\ ~Serving
    BY <1>4, <2>3 DEF DeriveSigners, AfterSigners, TaskOK, Task, Key
  <2>6. signerCache' \in [Users -> Key]
    BY <2>1, <2>4 DEF Key
  <2>7. UNCHANGED <<wallets, version0, walletCache, seedPos, restarts>>
    BY <1>4 DEF DeriveSigners
  <2> HIDE DEF n, kept
  <2> QED
    BY <2>2, <2>3, <2>4, <2>5, <2>6, <2>7, LocalStep
<1>5. CASE Abandon(p)
  BY <1>5, EndStep DEF Abandon, HasMax, UsedIdx
<1>6. CASE InsertWallet(p)
  <2> DEFINE row == [chain |-> t.chain, user |-> t.user,
                     account_idx |-> t.idx, key |-> t.signers]
  <2>0. row \in Row /\ t.signers \in Nat /\ t.pc = "insert" /\ t.pc # "idle"
    BY <1>6 DEF InsertWallet, Row, Task, TaskOK
  <2>1. CASE UniqueViolation(t.chain, t.user, t.idx)
    BY <1>6, <2>0, <2>1, EndStep DEF InsertWallet, HasMax, UsedIdx
  <2>2. CASE ~UniqueViolation(t.chain, t.user, t.idx)
    <3>1. wallets' = wallets \cup {row}
      BY <1>6, <2>2 DEF InsertWallet
    <3>2. wallets' \subseteq Row
      BY <2>0, <3>1
    <3>3. \A c \in Chains : HasMax(c)'
      <4> HIDE DEF row
      <4> QED BY <2>0, <3>1, InsertKeepsMax
    <3>4. CASE p = Boot
      BY <1>6, <2>0, <2>2, <3>2, <3>3, <3>4, EndStep DEF InsertWallet, Succeed
    <3>5. CASE p # Boot
      <4> DEFINE n == [t EXCEPT !.pc = "signers", !.key = t.signers]
      <4>1. n \in Task /\ n.pc = "signers"
        BY <2>0 DEF Task, Step, Key
      <4>2. task' = [task EXCEPT ![p] = n] /\ seedPos' = seedPos
        BY <1>6, <2>2, <3>5 DEF InsertWallet
      <4>3. UNCHANGED <<version0, signerCache, walletCache, restarts>>
        BY <1>6 DEF InsertWallet
      <4> HIDE DEF n, row
      <4>4. /\ task' \in [Procs -> Task]
            /\ task'[p] = n
            /\ \A q \in Procs \ {p} : TaskOK(q)'
        BY <4>1, <4>2, OthersKeep
      <4>5. TaskOK(p)'
        BY <3>5, <4>1, <4>4 DEF TaskOK
      <4>6. TypeOK'
        BY <3>2, <4>2, <4>3, <4>4 DEF TypeInv, TypeOK
      <4> QED
        BY <3>3, <4>4, <4>5, <4>6 DEF TypeInv
    <3> QED
      BY <3>4, <3>5
  <2> QED
    BY <2>1, <2>2
<1>7. CASE BuildWallet(p)
  <2>0. t.pc = "build" /\ t.key \in Nat /\ t.signers \in Nat /\ p # Boot
    BY <1>7 DEF BuildWallet, TaskOK
  <2>1. CASE t.chain = "btc" /\ t.signers # t.key
    <3> DEFINE n == [t EXCEPT !.pc = "record", !.key = t.signers]
    <3>1. n \in Task /\ n.pc = "record" /\ n.key \in Nat
      BY <2>0 DEF Task, Step, Key
    <3>2. task' = [task EXCEPT ![p] = n] /\ seedPos' = seedPos
      BY <1>7, <2>1 DEF BuildWallet
    <3>3. wallets' = {IF w \in RowOf("btc", t.user) THEN Rebound(w, t.signers) ELSE w
                        : w \in wallets}
      BY <1>7, <2>1 DEF BuildWallet
    <3>4. ASSUME NEW w \in wallets
          PROVE  /\ Rebound(w, t.signers) \in Row
                 /\ Rebound(w, t.signers).chain = w.chain
                 /\ Rebound(w, t.signers).account_idx = w.account_idx
      BY <2>0 DEF Rebound, Row
    <3>5. wallets' \subseteq Row
      BY <3>3, <3>4
    <3>6. ASSUME NEW c \in Chains PROVE UsedIdx(c)' = UsedIdx(c)
      <4> DEFINE f(w) == IF w \in RowOf("btc", t.user) THEN Rebound(w, t.signers) ELSE w
      <4>1. \A w \in wallets : f(w) \in wallets' /\ f(w).chain = w.chain
                               /\ f(w).account_idx = w.account_idx
        BY <3>3, <3>4
      <4>2. \A v \in wallets' : \E w \in wallets : v = f(w)
        BY <3>3
      <4> HIDE DEF f
      <4>3. ASSUME NEW i \in UsedIdx(c) PROVE i \in UsedIdx(c)'
        BY <4>1 DEF UsedIdx
      <4>4. ASSUME NEW i \in UsedIdx(c)' PROVE i \in UsedIdx(c)
        BY <4>1, <4>2 DEF UsedIdx
      <4> QED
        BY <4>3, <4>4
    <3>7. \A c \in Chains : HasMax(c)'
      BY <3>6 DEF HasMax
    <3> HIDE DEF n
    <3>8. /\ task' \in [Procs -> Task]
          /\ task'[p] = n
          /\ \A q \in Procs \ {p} : TaskOK(q)'
      BY <3>1, <3>2, OthersKeep
    <3>9. TaskOK(p)'
      BY <2>0, <3>1, <3>8 DEF TaskOK
    <3>10. TypeOK'
      BY <1>7, <3>2, <3>5, <3>8 DEF TypeInv, TypeOK, BuildWallet
    <3> QED
      BY <3>7, <3>8, <3>9, <3>10 DEF TypeInv
  <2>2. CASE ~(t.chain = "btc" /\ t.signers # t.key)
    <3> DEFINE n == [t EXCEPT !.pc = "record"]
    <3>1. n \in Task /\ n.pc = "record" /\ n.key \in Nat
      BY <2>0 DEF Task, Step
    <3>2. task' = [task EXCEPT ![p] = n] /\ wallets' = wallets
      BY <1>7, <2>2 DEF BuildWallet, Goto
    <3> HIDE DEF n
    <3> QED
      BY <1>7, <2>0, <3>1, <3>2, LocalStep DEF BuildWallet
  <2> QED
    BY <2>1, <2>2
<1>8. CASE RecordVersion(p)
  <2> DEFINE n == [t EXCEPT !.pc = "publish"]
  <2>0. t.key \in Nat /\ p # Boot
    BY <1>8 DEF RecordVersion, TaskOK
  <2>1. n \in Task /\ n.pc = "publish" /\ n.key \in Nat
    BY <2>0 DEF Task, Step
  <2>2. task' = [task EXCEPT ![p] = n]
    BY <1>8 DEF RecordVersion, Goto
  <2>3. version0' \in [Chains -> [Users -> Key]]
    <3>1. CASE UNCHANGED version0
      BY <3>1
    <3>2. CASE version0' = [version0 EXCEPT ![t.chain][t.user] = t.key]
      BY <2>0, <3>2 DEF Task, Key
    <3> QED
      BY <1>8, <3>1, <3>2 DEF RecordVersion
  <2> HIDE DEF n
  <2> QED
    BY <1>8, <2>0, <2>1, <2>2, <2>3, LocalStep DEF RecordVersion
<1>9. CASE PublishWallet(p)
  <2>0. p # Boot
    BY <1>9 DEF PublishWallet, TaskOK
  <2>1. Idle \in Task /\ Idle.pc = "idle" /\ Idle.key = NoKey
    BY SeedFacts, TaskRecord DEF Idle, NewTask, Task, Step, Chains, Key, NoKey
  <2>2. walletCache' \in [Chains -> [Users -> Key]]
    BY <1>9 DEF PublishWallet, Task
  <2> QED
    BY <1>9, <2>0, <2>1, <2>2, LocalStep DEF PublishWallet
<1> QED
  BY <1>1, <1>2, <1>3, <1>4, <1>5, <1>6, <1>7, <1>8, <1>9 DEF Work

(* Requests and seeds that start, the steps of a task, and a restart, each *)
(* keep the type invariant.                                                *)
LEMMA StepType == TypeInv /\ [Next]_vars => TypeInv'
<1> SUFFICES ASSUME TypeInv, [Next]_vars PROVE TypeInv'
  OBVIOUS
<1>1. ASSUME NEW r \in Requests, NEW c \in Chains, NEW u \in Users, StartRequest(r, c, u)
      PROVE  TypeInv'
  <2> DEFINE n == NewTask("find", c, u)
  <2>1. n \in Task /\ n.pc = "find" /\ n.key = NoKey
    BY TaskRecord DEF NewTask, Step
  <2>2. task' = [task EXCEPT ![r] = n] /\ r \in Procs /\ r # Boot
    BY <1>1, ProcAssumption DEF StartRequest, Procs
  <2> HIDE DEF n
  <2> QED
    BY <1>1, <2>1, <2>2, LocalStep DEF StartRequest, TypeInv, TypeOK
<1>2. CASE StartSeed
  <2> DEFINE n == NewTask("find", SeedChain(seedPos), SeedUser(seedPos))
  <2>1. seedPos \in 1..SeedSteps
    BY <1>2, SeedFacts DEF StartSeed, Serving, TypeInv, TypeOK
  <2>2. n \in Task /\ n.pc = "find" /\ n.key = NoKey
    BY <2>1, SeedFacts, TaskRecord DEF NewTask, Step
  <2>3. task' = [task EXCEPT ![Boot] = n] /\ Boot \in Procs /\ ~Serving
    BY <1>2 DEF StartSeed, Procs
  <2> HIDE DEF n
  <2> QED
    BY <1>2, <2>2, <2>3, LocalStep DEF StartSeed, TypeInv, TypeOK
<1>3. CASE Restart
  <2> USE SeedFacts, ProcAssumption, <1>3 DEF Restart
  <2>1. Idle \in Task /\ Idle.pc = "idle" /\ Idle.key = NoKey
    BY TaskRecord DEF Idle, NewTask, Task, Step, Chains, Key, NoKey
  <2>2. TypeOK'
    BY <2>1 DEF TypeInv, TypeOK, AllIdle, Key, NoKey
  <2>3. ASSUME NEW p \in Procs PROVE TaskOK(p)'
    BY <2>1 DEF TaskOK, AllIdle
  <2>4. ASSUME NEW c \in Chains PROVE HasMax(c)'
    BY DEF TypeInv, HasMax, UsedIdx
  <2> QED
    BY <2>2, <2>3, <2>4 DEF TypeInv
<1>4. CASE UNCHANGED vars
  BY <1>4 DEF TypeInv, TypeOK, TaskOK, HasMax, UsedIdx, Serving, vars
<1> QED
  BY <1>1, <1>2, <1>3, <1>4, WorkType DEF Next

(* Type correctness of the provisioning flow, with what each program point *)
(* knows about its locals.                                                 *)
THEOREM TypeInvariant == Spec => []TypeInv
BY InitType, StepType, PTL DEF Spec

(* The types declared in WalletProvisioning hold in every state that       *)
(* requests, seeding, token errors and restarts of src/main.rs, hsm.rs,    *)
(* wallet.rs and db.rs can reach.                                          *)
THEOREM TypeCorrect == Spec => []TypeOK
<1>1. TypeInv => TypeOK
  BY DEF TypeInv
<1> QED
  BY TypeInvariant, <1>1, PTL

-----------------------------------------------------------------------------
(* What a manager serves.  The signers cached for a user never change      *)
(* while the process lives, and every build of the user's Bitcoin wallet   *)
(* moves its row to them; an Elements row is never rewritten.  So a task   *)
(* with a row in hand knows the row's key, or one that its build replaces. *)
RowHas(rows, c, u, k) == \E w \in rows : w.chain = c /\ w.user = u /\ w.key = k

HandOK(p) ==
  LET t == task[p]
      k == signerCache[t.user]
  IN
  /\ t.pc \in {"insert", "build"} => t.signers = k
  /\ t.chain = "btc" /\ t.pc \in {"record", "publish"} => t.key = k
  /\ t.key # NoKey =>
       RowHas(wallets, t.chain, t.user, t.key) \/ (t.chain = "btc" /\ RowHas(wallets, t.chain, t.user, k))

ServedOK(c, u) ==
  walletCache[c][u] # NoKey =>
    /\ RowHas(wallets, c, u, walletCache[c][u])
    /\ c = "btc" => walletCache[c][u] = signerCache[u]

ServedInv ==
  /\ TypeInv
  /\ \A p \in Procs : HandOK(p)
  /\ \A c \in Chains, u \in Users : ServedOK(c, u)

(* A row's key stays, or becomes the key of the cached signers.            *)
RowsKeep ==
  \A c \in Chains, u \in Users, k \in Nat :
    RowHas(wallets, c, u, k) => RowHas(wallets', c, u, k) \/ (c = "btc" /\ RowHas(wallets', c, u, signerCache'[u]))

SignersKeep ==
  \A u \in Users : signerCache[u] # NoKey => signerCache'[u] = signerCache[u]

(* Only stored keys are natural numbers.                                   *)
LEMMA RowHasNat ==
  ASSUME TypeInv, NEW c, NEW u, NEW k, RowHas(wallets, c, u, k)
  PROVE  k \in Nat /\ k # NoKey
BY DEF TypeInv, TypeOK, RowHas, Row, NoKey

(* The tasks that do not move keep what they know, and what is served      *)
(* stays right.                                                            *)
LEMMA HandKept ==
  ASSUME ServedInv, RowsKeep, SignersKeep, NEW q \in Procs, task'[q] = task[q]
  PROVE  HandOK(q)'
<1> DEFINE t == task[q]
           k == signerCache[t.user]
           m == signerCache'[t.user]
<1>1. /\ t \in Task /\ t.chain \in Chains /\ t.user \in Users /\ t.key \in Key /\ k \in Key
      /\ HandOK(q) /\ TaskOK(q) /\ TypeInv
  <2>1. t \in Task
    BY DEF ServedInv, TypeInv, TypeOK
  <2> QED
    BY <2>1 DEF ServedInv, TypeInv, TypeOK, Task
<1>2. k # NoKey => m = k
  BY <1>1 DEF SignersKeep
<1>3. \A n \in Nat : n # NoKey
  BY DEF NoKey
<1>4. t.pc \in {"insert", "build"} => t.signers = m
  BY <1>1, <1>2, <1>3 DEF HandOK, TaskOK
<1>5. t.chain = "btc" /\ t.pc \in {"record", "publish"} => t.key = m
  BY <1>1, <1>2, <1>3 DEF HandOK, TaskOK
<1>6. ASSUME t.key # NoKey
      PROVE  RowHas(wallets', t.chain, t.user, t.key) \/ (t.chain = "btc" /\ RowHas(wallets', t.chain, t.user, m))
  <2>1. PICK n : n \in {t.key, k} /\ RowHas(wallets, t.chain, t.user, n) /\ (n = t.key \/ t.chain = "btc")
    BY <1>1, <1>6 DEF HandOK
  <2>2. n \in Nat /\ n # NoKey
    BY <1>1, <2>1, RowHasNat
  <2>3. RowHas(wallets', t.chain, t.user, n) \/ (t.chain = "btc" /\ RowHas(wallets', t.chain, t.user, m))
    BY <1>1, <2>1, <2>2 DEF RowsKeep
  <2>4. CASE n = t.key
    BY <2>3, <2>4
  <2>5. CASE n = k /\ t.chain = "btc"
    BY <1>2, <2>2, <2>3, <2>5
  <2> QED
    BY <2>1, <2>4, <2>5
<1>7. PICK r : r = t
  OBVIOUS
<1>8. task'[q] = r /\ signerCache'[r.user] = m
  BY <1>7
<1> QED
  BY <1>4, <1>5, <1>6, <1>7, <1>8 DEF HandOK
(* What is served stays right while the caches of wallets do not change.   *)
LEMMA ServedKept ==
  ASSUME ServedInv, RowsKeep, SignersKeep, NEW c \in Chains, NEW u \in Users,
         walletCache'[c][u] = walletCache[c][u]
  PROVE  ServedOK(c, u)'
<1> DEFINE k == walletCache[c][u]
<1>1. SUFFICES ASSUME k # NoKey
               PROVE  RowHas(wallets', c, u, k) /\ (c = "btc" => k = signerCache'[u])
  BY DEF ServedOK
<1>2. TypeInv /\ RowHas(wallets, c, u, k) /\ (c = "btc" => k = signerCache[u])
  BY <1>1 DEF ServedInv, ServedOK
<1>3. k \in Nat
  BY <1>2, RowHasNat
<1>4. c = "btc" => k = signerCache'[u]
  BY <1>1, <1>2 DEF SignersKeep
<1>5. RowHas(wallets', c, u, k) \/ (c = "btc" /\ RowHas(wallets', c, u, signerCache'[u]))
  BY <1>2, <1>3 DEF RowsKeep
<1>6. CASE RowHas(wallets', c, u, k)
  BY <1>4, <1>6
<1>7. CASE c = "btc" /\ RowHas(wallets', c, u, signerCache'[u])
  BY <1>4, <1>7
<1> QED
  BY <1>5, <1>6, <1>7

(* A step of one task that writes no wallet to a manager's cache.          *)
LEMMA HandStep ==
  ASSUME ServedInv, TypeInv', RowsKeep, SignersKeep, walletCache' = walletCache,
         NEW p \in Procs, NEW n \in Task, task' = [task EXCEPT ![p] = n],
         n.pc \in {"insert", "build"} => n.signers = signerCache'[n.user],
         n.chain = "btc" /\ n.pc \in {"record", "publish"} => n.key = signerCache'[n.user],
         n.key # NoKey =>
           \/ RowHas(wallets', n.chain, n.user, n.key)
           \/ n.chain = "btc" /\ RowHas(wallets', n.chain, n.user, signerCache'[n.user])
  PROVE  ServedInv'
<1>1. task \in [Procs -> Task]
  BY DEF ServedInv, TypeInv, TypeOK
<1>2. task'[p] = n /\ \A q \in Procs \ {p} : task'[q] = task[q]
  BY <1>1
<1>3. HandOK(p)'
  BY <1>2 DEF HandOK
<1>4. \A q \in Procs : HandOK(q)'
  BY <1>2, <1>3, HandKept
<1>5. \A c \in Chains, u \in Users : ServedOK(c, u)'
  BY ServedKept
<1> QED
  BY <1>4, <1>5 DEF ServedInv

(* Rows and signers that are left alone.                                   *)
LEMMA Untouched ==
  ASSUME UNCHANGED <<wallets, signerCache>>
  PROVE  RowsKeep /\ SignersKeep
BY DEF RowsKeep, SignersKeep

(* A task that ends knows nothing.                                         *)
LEMMA IdleKnows == Idle \in Task /\ Idle.pc = "idle" /\ Idle.key = NoKey
BY SeedFacts, TaskRecord DEF Idle, NewTask, Task, Step, Chains, Key, NoKey

(* An end, with a row inserted or not.                                     *)
LEMMA HandEnd ==
  ASSUME ServedInv, TypeInv', RowsKeep, UNCHANGED <<signerCache, walletCache>>,
         NEW p \in Procs, Fail(p)
  PROVE  ServedInv'
<1>1. task' = [task EXCEPT ![p] = Idle]
  BY DEF Fail
<1>2. SignersKeep
  BY DEF SignersKeep
<1>3. PICK n \in Task : n = Idle
  BY IdleKnows
<1>4. task' = [task EXCEPT ![p] = n] /\ n.pc = "idle" /\ n.key = NoKey
  BY <1>1, <1>3, IdleKnows
<1> QED
  BY <1>2, <1>4, HandStep

(* Every step of a task keeps what is served right, action by action.      *)
LEMMA HandWork ==
  ASSUME ServedInv, TypeInv', NEW p \in Procs, Work(p)
  PROVE  ServedInv'
<1>0. /\ task[p] \in Task /\ TaskOK(p) /\ HandOK(p) /\ task \in [Procs -> Task]
      /\ TypeInv /\ wallets \subseteq Row /\ signerCache \in [Users -> Key]
      /\ walletCache \in [Chains -> [Users -> Key]]
  BY DEF ServedInv, TypeInv, TypeOK
<1>t. PICK t \in Task : t = task[p]
  BY <1>0
<1>k. /\ t.pc \in {"insert", "build"} => t.signers = signerCache[t.user] /\ t.signers \in Nat
      /\ t.chain = "btc" /\ t.pc \in {"record", "publish"} => t.key = signerCache[t.user]
      /\ t.key # NoKey => \/ RowHas(wallets, t.chain, t.user, t.key)
                          \/ t.chain = "btc" /\ RowHas(wallets, t.chain, t.user, signerCache[t.user])
      /\ t.pc \in {"find", "alloc", "insert"} => t.key = NoKey
      /\ t.pc \in {"build", "record", "publish"} => t.key \in Nat /\ t.key # NoKey
      /\ t.chain \in Chains /\ t.user \in Users /\ t.idx \in Nat
  BY <1>0, <1>t DEF HandOK, TaskOK, NoKey, Task
<1>1. CASE FindWallet(p)
  <2>0. t.pc = "find" /\ UNCHANGED <<wallets, signerCache, walletCache>>
    BY <1>1, <1>t DEF FindWallet
  <2>1. RowsKeep /\ SignersKeep
    BY <2>0, Untouched
  <2>2. CASE p = Boot /\ RowOf(t.chain, t.user) # {}
    <3>1. Fail(p)
      BY <1>1, <1>t, <2>2 DEF FindWallet, Succeed
    <3> QED
      BY <2>0, <2>1, <3>1, HandEnd
  <2>3. CASE RowOf(t.chain, t.user) = {}
    <3>1. \/ task' = [task EXCEPT ![p].pc = "signers", ![p].idx = AdminIdx]
          \/ task' = [task EXCEPT ![p].pc = "alloc"]
      BY <1>1, <1>t, <2>3 DEF FindWallet, Goto
    <3>2. CASE task' = [task EXCEPT ![p].pc = "signers", ![p].idx = AdminIdx]
      <4>1. PICK n : n = [t EXCEPT !.pc = "signers", !.idx = AdminIdx]
        OBVIOUS
      <4>2. n \in Task /\ n.pc = "signers" /\ n.key = NoKey
        BY <1>k, <2>0, <4>1, SeedAssumption DEF Task, Step
      <4>3. task' = [task EXCEPT ![p] = n]
        BY <1>0, <1>t, <3>2, <4>1
      <4> QED
        BY <2>0, <2>1, <4>2, <4>3, HandStep
    <3>3. CASE task' = [task EXCEPT ![p].pc = "alloc"]
      <4>1. PICK n : n = [t EXCEPT !.pc = "alloc"]
        OBVIOUS
      <4>2. n \in Task /\ n.pc = "alloc" /\ n.key = NoKey
        BY <1>k, <2>0, <4>1 DEF Task, Step
      <4>3. task' = [task EXCEPT ![p] = n]
        BY <1>0, <1>t, <3>3, <4>1
      <4> QED
        BY <2>0, <2>1, <4>2, <4>3, HandStep
    <3> QED
      BY <3>1, <3>2, <3>3
  <2>4. CASE p # Boot /\ RowOf(t.chain, t.user) # {}
    <3>1. PICK w \in RowOf(t.chain, t.user) :
             task' = [task EXCEPT ![p].pc = "signers",
                                  ![p].idx = w.account_idx, ![p].key = w.key]
      BY <1>1, <1>t, <2>4 DEF FindWallet
    <3>2. w \in Row /\ w.key \in Key /\ w.account_idx \in Nat /\ RowHas(wallets', t.chain, t.user, w.key)
      BY <1>0, <2>0 DEF RowOf, Row, Key, RowHas
    <3>3. PICK n : n = [t EXCEPT !.pc = "signers", !.idx = w.account_idx, !.key = w.key]
      OBVIOUS
    <3>4. n \in Task /\ n.pc = "signers" /\ n.key = w.key /\ n.chain = t.chain /\ n.user = t.user
      BY <3>2, <3>3 DEF Task, Step
    <3>5. task' = [task EXCEPT ![p] = n]
      BY <1>0, <1>t, <3>1, <3>3
    <3> QED
      BY <2>0, <2>1, <3>2, <3>4, <3>5, HandStep
  <2> QED
    BY <2>2, <2>3, <2>4
<1>2. CASE AllocIdx(p)
  <2>0. t.pc = "alloc" /\ UNCHANGED <<wallets, signerCache, walletCache>>
    BY <1>2, <1>t DEF AllocIdx
  <2>1. RowsKeep /\ SignersKeep
    BY <2>0, Untouched
  <2>2. PICK i \in Nat : i = next_account_idx(t.chain)
    BY <1>0, <1>k, NextIdxType DEF TypeInv
  <2>3. PICK n : n = [t EXCEPT !.pc = "signers", !.idx = i]
    OBVIOUS
  <2>4. n \in Task /\ n.pc = "signers" /\ n.key = NoKey
    BY <1>k, <2>0, <2>3 DEF Task, Step
  <2>5. task' = [task EXCEPT ![p].pc = "signers", ![p].idx = i]
    BY <1>2, <1>t, <2>2 DEF AllocIdx
  <2>6. task' = [task EXCEPT ![p] = n]
    BY <1>0, <1>t, <2>3, <2>5
  <2> QED
    BY <2>0, <2>1, <2>4, <2>6, HandStep
<1>3. CASE SignersCached(p)
  <2>0. t.pc = "signers" /\ UNCHANGED <<wallets, signerCache, walletCache>>
    BY <1>3, <1>t DEF SignersCached
  <2>1. RowsKeep /\ SignersKeep
    BY <2>0, Untouched
  <2>2. CASE signerCache[t.user] # NoKey
    <3>1. PICK pc \in {"insert", "build"}, k \in Key : pc = AfterSigners(t) /\ k = signerCache[t.user]
      BY <1>0, <1>k DEF AfterSigners
    <3>2. PICK n : n = [t EXCEPT !.pc = pc, !.signers = k]
      OBVIOUS
    <3>3. /\ n \in Task /\ n.pc = pc /\ n.key = t.key /\ n.signers = k
          /\ n.chain = t.chain /\ n.user = t.user
      BY <3>2 DEF Task, Step
    <3>4. task' = [task EXCEPT ![p].pc = pc, ![p].signers = k]
      BY <1>3, <1>t, <2>2, <3>1 DEF SignersCached
    <3>5. task' = [task EXCEPT ![p] = n]
      BY <1>0, <1>t, <3>2, <3>4
    <3> QED
      BY <1>k, <2>0, <2>1, <3>1, <3>3, <3>5, HandStep
  <2>3. CASE signerCache[t.user] = NoKey
    <3>1. PICK n : n = [t EXCEPT !.pc = "derive"]
      OBVIOUS
    <3>2. /\ n \in Task /\ n.pc = "derive" /\ n.key = t.key
          /\ n.chain = t.chain /\ n.user = t.user
      BY <3>1 DEF Task, Step
    <3>3. task' = [task EXCEPT ![p] = n]
      BY <1>0, <1>3, <1>t, <2>3, <3>1 DEF SignersCached, Goto
    <3> QED
      BY <1>k, <2>0, <2>1, <3>2, <3>3, HandStep
  <2> QED
    BY <2>2, <2>3
<1>4. CASE DeriveSigners(p)
  <2>0. t.pc = "derive" /\ UNCHANGED <<wallets, walletCache>>
    BY <1>4, <1>t DEF DeriveSigners
  <2>1. PICK k \in Nat : k = IF signerCache[t.user] # NoKey THEN signerCache[t.user] ELSE t.idx
    BY <1>0, <1>k DEF Key
  <2>2. PICK pc \in {"insert", "build"} : pc = AfterSigners(t)
    BY DEF AfterSigners
  <2>3. /\ signerCache' = [signerCache EXCEPT ![t.user] = k]
        /\ task' = [task EXCEPT ![p].pc = pc, ![p].signers = k]
    BY <1>4, <1>t, <2>1, <2>2 DEF DeriveSigners
  <2>4. SignersKeep /\ signerCache'[t.user] = k
    BY <1>0, <1>k, <2>1, <2>3 DEF SignersKeep
  <2>5. RowsKeep
    BY <2>0 DEF RowsKeep
  <2>6. PICK n : n = [t EXCEPT !.pc = pc, !.signers = k]
    OBVIOUS
  <2>7. /\ n \in Task /\ n.pc = pc /\ n.key = t.key /\ n.signers = k
        /\ n.chain = t.chain /\ n.user = t.user
    BY <2>6 DEF Task, Step, Key
  <2>8. task' = [task EXCEPT ![p] = n]
    BY <1>0, <1>t, <2>3, <2>6
  <2>9. t.key # NoKey => \/ RowHas(wallets', t.chain, t.user, t.key)
                         \/ t.chain = "btc" /\ RowHas(wallets', t.chain, t.user, signerCache'[t.user])
    <3>1. CASE RowHas(wallets, t.chain, t.user, t.key)
      BY <2>0, <3>1
    <3>2. CASE t.chain = "btc" /\ RowHas(wallets, t.chain, t.user, signerCache[t.user])
      <4>1. signerCache[t.user] # NoKey
        BY <1>0, <3>2, RowHasNat
      <4> QED
        BY <1>k, <2>0, <2>4, <3>2, <4>1 DEF SignersKeep
    <3> QED
      BY <1>k, <3>1, <3>2
  <2> QED
    BY <2>0, <2>4, <2>5, <2>7, <2>8, <2>9, HandStep
<1>5. CASE Abandon(p)
  <2>1. Fail(p) /\ UNCHANGED <<wallets, signerCache, walletCache>>
    BY <1>5 DEF Abandon
  <2> QED
    BY <2>1, Untouched, HandEnd
<1>6. CASE InsertWallet(p)
  <2>0. t.pc = "insert" /\ UNCHANGED <<signerCache, walletCache>>
    BY <1>6, <1>t DEF InsertWallet
  <2>1. CASE UniqueViolation(t.chain, t.user, t.idx)
    <3>1. Fail(p) /\ wallets' = wallets
      BY <1>6, <1>t, <2>1 DEF InsertWallet
    <3> QED
      BY <2>0, <3>1, Untouched, HandEnd
  <2>2. CASE ~UniqueViolation(t.chain, t.user, t.idx)
    <3>1. PICK row : row = [chain |-> t.chain, user |-> t.user, account_idx |-> t.idx, key |-> t.signers]
      OBVIOUS
    <3>2. wallets' = wallets \cup {row}
      BY <1>6, <1>t, <2>2, <3>1 DEF InsertWallet
    <3>3. RowsKeep
      BY <3>2 DEF RowsKeep, RowHas
    <3>4. SignersKeep
      BY <2>0 DEF SignersKeep
    <3>5. RowHas(wallets', t.chain, t.user, t.signers)
      BY <3>1, <3>2 DEF RowHas
    <3>6. CASE p = Boot
      <4>1. Fail(p)
        BY <1>6, <1>t, <2>2, <3>6 DEF InsertWallet, Succeed
      <4> QED
        BY <2>0, <3>3, <4>1, HandEnd
    <3>7. CASE p # Boot
      <4>1. PICK n : n = [t EXCEPT !.pc = "signers", !.key = t.signers]
        OBVIOUS
      <4>2. /\ n \in Task /\ n.pc = "signers" /\ n.key = t.signers
            /\ n.chain = t.chain /\ n.user = t.user
        BY <1>k, <2>0, <4>1 DEF Task, Step, Key
      <4>3. task' = [task EXCEPT ![p].pc = "signers", ![p].key = t.signers]
        BY <1>6, <1>t, <2>2, <3>7 DEF InsertWallet
      <4>4. task' = [task EXCEPT ![p] = n]
        BY <1>0, <1>t, <4>1, <4>3
      <4> QED
        BY <2>0, <3>3, <3>4, <3>5, <4>2, <4>4, HandStep
    <3> QED
      BY <3>6, <3>7
  <2> QED
    BY <2>1, <2>2
<1>7. CASE BuildWallet(p)
  <2>0. t.pc = "build" /\ UNCHANGED <<signerCache, walletCache>>
    BY <1>7, <1>t DEF BuildWallet
  <2>1. SignersKeep
    BY <2>0 DEF SignersKeep
  <2>2. PICK s \in Nat : s = t.signers /\ s = signerCache[t.user] /\ s = signerCache'[t.user]
    BY <1>k, <2>0
  <2>3. CASE t.chain = "btc" /\ t.signers # t.key
    <3>1. /\ wallets' = {IF w \in RowOf("btc", t.user) THEN Rebound(w, s) ELSE w : w \in wallets}
          /\ task' = [task EXCEPT ![p].pc = "record", ![p].key = s]
      BY <1>7, <1>t, <2>2, <2>3 DEF BuildWallet
    <3>2. ASSUME NEW w \in wallets, w.chain = "btc", w.user = t.user
          PROVE  RowHas(wallets', "btc", t.user, s)
      <4>1. Rebound(w, s) \in wallets'
        BY <3>1, <3>2 DEF RowOf
      <4>2. Rebound(w, s).chain = "btc" /\ Rebound(w, s).user = t.user /\ Rebound(w, s).key = s
        BY <1>0, <3>2 DEF Rebound, Row
      <4> QED
        BY <4>1, <4>2 DEF RowHas
    <3>3. ASSUME NEW w \in wallets, ~(w.chain = "btc" /\ w.user = t.user)
          PROVE  w \in wallets'
      BY <3>1, <3>3 DEF RowOf
    <3>4. ASSUME NEW c \in Chains, NEW u \in Users, NEW k \in Nat, RowHas(wallets, c, u, k)
          PROVE  RowHas(wallets', c, u, k) \/ (c = "btc" /\ RowHas(wallets', c, u, signerCache'[u]))
      <4>1. PICK w \in wallets : w.chain = c /\ w.user = u /\ w.key = k
        BY <3>4 DEF RowHas
      <4>2. CASE c = "btc" /\ u = t.user
        BY <2>2, <3>2, <4>1, <4>2
      <4>3. CASE ~(c = "btc" /\ u = t.user)
        BY <3>3, <4>1, <4>3 DEF RowHas
      <4> QED
        BY <4>2, <4>3
    <3>5. RowsKeep
      BY <3>4 DEF RowsKeep
    <3>6. RowHas(wallets', "btc", t.user, s)
      BY <1>k, <2>0, <2>3, <3>2 DEF RowHas
    <3>7. PICK n : n = [t EXCEPT !.pc = "record", !.key = s]
      OBVIOUS
    <3>8. /\ n \in Task /\ n.pc = "record" /\ n.key = s
          /\ n.chain = "btc" /\ n.user = t.user
      BY <2>3, <3>7 DEF Task, Step, Key
    <3>9. task' = [task EXCEPT ![p] = n]
      BY <1>0, <1>t, <3>1, <3>7
    <3> QED
      BY <2>0, <2>1, <2>2, <3>5, <3>6, <3>8, <3>9, HandStep
  <2>4. CASE ~(t.chain = "btc" /\ t.signers # t.key)
    <3>1. wallets' = wallets /\ task' = [task EXCEPT ![p].pc = "record"]
      BY <1>7, <1>t, <2>4 DEF BuildWallet, Goto
    <3>2. RowsKeep
      BY <2>0, <3>1, Untouched
    <3>3. PICK n : n = [t EXCEPT !.pc = "record"]
      OBVIOUS
    <3>4. /\ n \in Task /\ n.pc = "record" /\ n.key = t.key
          /\ n.chain = t.chain /\ n.user = t.user
      BY <3>3 DEF Task, Step
    <3>5. task' = [task EXCEPT ![p] = n]
      BY <1>0, <1>t, <3>1, <3>3
    <3>6. RowHas(wallets', t.chain, t.user, t.key) /\ (t.chain = "btc" => t.key = s)
      BY <1>k, <2>0, <2>2, <2>4, <3>1
    <3> QED
      BY <2>0, <2>1, <2>2, <3>2, <3>4, <3>5, <3>6, HandStep
  <2> QED
    BY <2>3, <2>4
<1>8. CASE RecordVersion(p)
  <2>0. t.pc = "record" /\ UNCHANGED <<wallets, signerCache, walletCache>>
    BY <1>8, <1>t DEF RecordVersion
  <2>1. RowsKeep /\ SignersKeep
    BY <2>0, Untouched
  <2>2. PICK n : n = [t EXCEPT !.pc = "publish"]
    OBVIOUS
  <2>3. /\ n \in Task /\ n.pc = "publish" /\ n.key = t.key
        /\ n.chain = t.chain /\ n.user = t.user
    BY <2>2 DEF Task, Step
  <2>4. task' = [task EXCEPT ![p] = n]
    BY <1>0, <1>8, <1>t, <2>2 DEF RecordVersion, Goto
  <2> QED
    BY <1>k, <2>0, <2>1, <2>3, <2>4, HandStep
<1>9. CASE PublishWallet(p)
  <2>0. /\ t.pc = "publish" /\ UNCHANGED <<wallets, signerCache>>
        /\ task' = [task EXCEPT ![p] = Idle]
        /\ walletCache' = IF walletCache[t.chain][t.user] = NoKey
                          THEN [walletCache EXCEPT ![t.chain][t.user] = t.key]
                          ELSE walletCache
    BY <1>9, <1>t DEF PublishWallet
  <2>1. RowsKeep /\ SignersKeep
    BY <2>0, Untouched
  <2>2. task'[p] = Idle /\ \A q \in Procs \ {p} : task'[q] = task[q]
    BY <1>0, <2>0
  <2>3. HandOK(p)'
    BY <2>2, IdleKnows DEF HandOK
  <2>4. \A q \in Procs : HandOK(q)'
    BY <2>1, <2>2, <2>3, HandKept
  <2>5. ASSUME NEW c \in Chains, NEW u \in Users PROVE ServedOK(c, u)'
    <3>1. CASE walletCache'[c][u] = walletCache[c][u]
      BY <2>1, <3>1, ServedKept
    <3>2. CASE walletCache'[c][u] # walletCache[c][u]
      <4>1. c = t.chain /\ u = t.user /\ walletCache'[c][u] = t.key
        BY <1>0, <1>k, <2>0, <3>2
      <4>2. RowHas(wallets', c, u, t.key) /\ (c = "btc" => t.key = signerCache'[u])
        BY <1>k, <2>0, <4>1
      <4> QED
        BY <4>1, <4>2 DEF ServedOK
    <3> QED
      BY <3>1, <3>2
  <2> QED
    BY <2>4, <2>5 DEF ServedInv
<1> QED
  BY <1>1, <1>2, <1>3, <1>4, <1>5, <1>6, <1>7, <1>8, <1>9 DEF Work

(* Requests and seeds that start, and a restart, know nothing.             *)
LEMMA ServedStep == ServedInv /\ [Next]_vars => ServedInv'
<1> SUFFICES ASSUME ServedInv, [Next]_vars PROVE ServedInv'
  OBVIOUS
<1>0. TypeInv /\ TypeInv'
  BY StepType DEF ServedInv
<1>1. ASSUME NEW r \in Requests, NEW c \in Chains, NEW u \in Users, StartRequest(r, c, u)
      PROVE  ServedInv'
  <2>1. PICK n : n = NewTask("find", c, u)
    OBVIOUS
  <2>2. n \in Task /\ n.pc = "find" /\ n.key = NoKey
    BY <2>1, TaskRecord DEF NewTask, Step
  <2>3. /\ task' = [task EXCEPT ![r] = n] /\ r \in Procs
        /\ UNCHANGED <<wallets, signerCache, walletCache>>
    BY <1>1, <2>1 DEF StartRequest, Procs
  <2> QED
    BY <1>0, <2>2, <2>3, Untouched, HandStep
<1>2. CASE StartSeed
  <2>1. seedPos \in 1..SeedSteps
    BY <1>0, <1>2, SeedFacts DEF StartSeed, Serving, TypeInv, TypeOK
  <2>2. PICK n : n = NewTask("find", SeedChain(seedPos), SeedUser(seedPos))
    OBVIOUS
  <2>3. n \in Task /\ n.pc = "find" /\ n.key = NoKey
    BY <2>1, <2>2, SeedFacts, TaskRecord DEF NewTask, Step
  <2>4. /\ task' = [task EXCEPT ![Boot] = n] /\ Boot \in Procs
        /\ UNCHANGED <<wallets, signerCache, walletCache>>
    BY <1>2, <2>2 DEF StartSeed, Procs
  <2> QED
    BY <1>0, <2>3, <2>4, Untouched, HandStep
<1>3. CASE Restart
  <2>1. /\ \A q \in Procs : task'[q] = Idle
        /\ \A c \in Chains, u \in Users : walletCache'[c][u] = NoKey
    BY <1>3 DEF Restart, AllIdle
  <2>2. \A q \in Procs : HandOK(q)'
    BY <2>1, IdleKnows DEF HandOK
  <2>3. \A c \in Chains, u \in Users : ServedOK(c, u)'
    BY <2>1 DEF ServedOK
  <2> QED
    BY <1>0, <2>2, <2>3 DEF ServedInv
<1>4. CASE UNCHANGED vars
  <2>1. RowsKeep /\ SignersKeep /\ UNCHANGED <<task, walletCache>>
    BY <1>4, Untouched DEF vars
  <2> QED
    BY <1>0, <2>1, HandKept, ServedKept DEF ServedInv
<1> QED
  BY <1>0, <1>1, <1>2, <1>3, <1>4, HandWork DEF Next

(* A process that has just started serves nothing.                         *)
LEMMA ServedInit == Init => ServedInv
<1> SUFFICES ASSUME Init PROVE ServedInv
  OBVIOUS
<1>1. /\ \A q \in Procs : task[q] = Idle
      /\ \A c \in Chains, u \in Users : walletCache[c][u] = NoKey
  BY DEF Init, AllIdle
<1>2. \A q \in Procs : HandOK(q)
  BY <1>1, IdleKnows DEF HandOK
<1> QED
  BY <1>1, <1>2, InitType DEF ServedInv, ServedOK

(* The wallet a manager serves is the one its row describes, for any users *)
(* and requests, whether or not boot seeds, and through token errors,      *)
(* clients that leave and restarts: even where accounts end up sharing     *)
(* keys, what is shown is what the next process will watch.                *)
THEOREM ServedPersisted == Spec => []ServedWalletIsPersisted
<1>1. ServedInv => ServedWalletIsPersisted
  BY DEF ServedInv, ServedOK, ServedWalletIsPersisted, RowHas, RowOf
<1> QED
  BY <1>1, ServedInit, ServedStep, PTL DEF Spec
=============================================================================
