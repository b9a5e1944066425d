------------------------ MODULE WalletIsolationProofs ------------------------
(***************************************************************************)
(* When boot seeds every wallet and neither a token nor the database       *)
(* fails, no two wallets share keys, whatever requests, clients that leave *)
(* and restarts do afterwards.                                             *)
(*                                                                         *)
(* The argument: the signer cache is keyed by user alone, so a user's keys *)
(* are right only if every account index ever asked for him is the same    *)
(* one.  Sequential seeding makes that index a function of his place in    *)
(* the seeding order (Acct); the wallets that exist are always a prefix of *)
(* the seeding steps, so MAX + 1 reproduces it after any restart; and by   *)
(* the time a request runs every row is there, so no request allocates.    *)
(***************************************************************************)
EXTENDS WalletProvisioningProofs

L == Len(SeedOrder)

Pos(u) == CHOOSE i \in 1..L : SeedOrder[i] = u

(* The account index of a user, on both chains.                            *)
Acct(u) == IF u = Admin THEN AdminIdx ELSE Pos(u) - 1

Seeded(j) == RowOf(SeedChain(j), SeedUser(j)) # {}

SeededTask(p) ==
  LET t == task[p] IN
  t.pc # "idle" =>
    /\ t.signers \in {NoKey, Acct(t.user)}
    /\ t.pc \notin {"find", "alloc"} => t.idx = Acct(t.user)
    /\ p = Boot => /\ t.chain = SeedChain(seedPos) /\ t.user = SeedUser(seedPos)
                   /\ t.pc # "find" => ~Seeded(seedPos)
                   /\ t.pc = "alloc" => t.user # Admin
    /\ p # Boot => /\ Serving
                   /\ t.pc \notin {"alloc", "insert"}
                   /\ t.pc # "find" => t.key = Acct(t.user)

SeededInv ==
  /\ EagerSeed /\ ~Faults
  /\ TypeInv
  /\ \A w \in wallets : w.account_idx = Acct(w.user) /\ w.key = Acct(w.user)
  /\ \A u \in Users : signerCache[u] \in {NoKey, Acct(u)}
  /\ \A p \in Procs : SeededTask(p)
  /\ \A j \in 1..SeedSteps : j < seedPos => Seeded(j)
  /\ \A j, k \in 1..SeedSteps : j <= k /\ Seeded(k) => Seeded(j)

(* Each user has one place in the seeding order.                           *)
LEMMA PosFacts ==
  /\ L \in Nat \ {0}
  /\ \A u \in Users : Pos(u) \in 1..L /\ SeedOrder[Pos(u)] = u
  /\ \A i \in 1..L : SeedOrder[i] \in Users /\ Pos(SeedOrder[i]) = i
<1>1. L \in Nat \ {0}
  BY SeedAssumption DEF L
<1>2. \A u \in Users : Pos(u) \in 1..L /\ SeedOrder[Pos(u)] = u
  BY SeedAssumption DEF L, Pos
<1>3. \A i \in 1..L : SeedOrder[i] \in Users
  BY SeedAssumption DEF L
<1>4. ASSUME NEW i \in 1..L PROVE Pos(SeedOrder[i]) = i
  BY <1>2, <1>3, SeedAssumption DEF L
<1> QED
  BY <1>1, <1>2, <1>3, <1>4

(* Two users never have the same account index: the admin's lies beyond    *)
(* every place in the order.                                               *)
LEMMA AcctInjective ==
  /\ \A u \in Users : Acct(u) \in Nat
  /\ \A u, v \in Users : Acct(u) = Acct(v) => u = v
<1>1. \A u \in Users : u # Admin => Acct(u) = Pos(u) - 1 /\ Pos(u) \in 1..L
  BY PosFacts DEF Acct
<1>2. Acct(Admin) = AdminIdx /\ AdminIdx \in Nat /\ AdminIdx >= L
  BY SeedAssumption DEF Acct, L
<1>3. \A u \in Users : Acct(u) \in Nat
  BY <1>1, <1>2, PosFacts
<1>4. ASSUME NEW u \in Users, NEW v \in Users, Acct(u) = Acct(v) PROVE u = v
  <2>1. CASE u = Admin \/ v = Admin
    BY <1>1, <1>2, <1>4, <2>1, PosFacts
  <2>2. CASE u # Admin /\ v # Admin
    <3>1. Pos(u) = Pos(v)
      BY <1>1, <1>4, <2>2, PosFacts
    <3> QED
      BY <3>1, PosFacts
  <2> QED
    BY <2>1, <2>2
<1> QED
  BY <1>3, <1>4

(* The seeding step of a user on a chain: every pair has one, and only one.*)
StepOf(c, u) == IF c = "btc" THEN Pos(u) ELSE L + Pos(u)

(* The seeding steps and the pairs of chain and user correspond one to one.*)
LEMMA StepOfFacts ==
  /\ \A c \in Chains, u \in Users :
       /\ StepOf(c, u) \in 1..SeedSteps
       /\ SeedChain(StepOf(c, u)) = c
       /\ SeedUser(StepOf(c, u)) = u
  /\ \A j \in 1..SeedSteps : StepOf(SeedChain(j), SeedUser(j)) = j
<1>1. ASSUME NEW c \in Chains, NEW u \in Users
      PROVE  /\ StepOf(c, u) \in 1..SeedSteps
             /\ SeedChain(StepOf(c, u)) = c
             /\ SeedUser(StepOf(c, u)) = u
  <2>1. Pos(u) \in 1..L /\ SeedOrder[Pos(u)] = u /\ L \in Nat \ {0}
    BY PosFacts
  <2>2. CASE c = "btc"
    BY <2>1, <2>2 DEF StepOf, SeedSteps, SeedChain, SeedUser, L
  <2>3. CASE c = "elements"
    <3>1. StepOf(c, u) = L + Pos(u) /\ ~(StepOf(c, u) <= L) /\ StepOf(c, u) - L = Pos(u)
      BY <2>1, <2>3 DEF StepOf
    <3> QED
      BY <2>1, <2>3, <3>1 DEF SeedSteps, SeedChain, SeedUser, L
  <2> QED
    BY <2>2, <2>3 DEF Chains
<1>2. ASSUME NEW j \in 1..SeedSteps PROVE StepOf(SeedChain(j), SeedUser(j)) = j
  <2>1. CASE j <= L
    BY <2>1, PosFacts DEF SeedSteps, SeedChain, SeedUser, StepOf, L
  <2>2. CASE ~(j <= L)
    <3>1. j - L \in 1..L /\ SeedUser(j) = SeedOrder[j - L] /\ SeedChain(j) = "elements"
      BY <2>2, PosFacts DEF SeedSteps, SeedUser, SeedChain, L
    <3>2. Pos(SeedUser(j)) = j - L
      BY <3>1, PosFacts
    <3> QED
      BY <3>1, <3>2, PosFacts DEF StepOf, SeedSteps
  <2> QED
    BY <2>1, <2>2
<1> QED
  BY <1>1, <1>2

(* MAX(account_idx) + 1 gives a user his own index when the rows of the    *)
(* chain are those of the seeding steps before his.                        *)
LEMMA AllocGivesAcct ==
  ASSUME SeededInv, seedPos \in 1..SeedSteps,
         ~Seeded(seedPos), SeedUser(seedPos) # Admin
  PROVE  next_account_idx(SeedChain(seedPos)) = Acct(SeedUser(seedPos))
<1> DEFINE c == SeedChain(seedPos)
           u == SeedUser(seedPos)
           k == Pos(u)
<1>0. c \in Chains /\ u \in Users /\ k \in 1..L /\ SeedOrder[k] = u
  BY SeedFacts, PosFacts
<1>1. seedPos = StepOf(c, u) /\ Acct(u) = k - 1 /\ wallets \subseteq Row /\ L \in Nat
  BY StepOfFacts, PosFacts DEF Acct, SeededInv, TypeInv, TypeOK
<1> HIDE DEF c, u, k
<1>2. k < L
  BY <1>0, SeedAssumption DEF u, L
<1>3. ASSUME NEW i \in UsedIdx(c) PROVE i \in 0..(k - 2)
  <2>1. PICK w \in wallets : w.chain = c /\ w.account_idx = i
    BY DEF UsedIdx
  <2>2. w.user \in Users /\ i = Acct(w.user) /\ w \in RowOf(c, w.user)
    BY <1>1, <2>1 DEF Row, SeededInv, RowOf
  <2> DEFINE j == StepOf(c, w.user)
  <2>3. j \in 1..SeedSteps /\ Seeded(j)
    BY <1>0, <2>2, StepOfFacts DEF Seeded
  <2>4. j < seedPos
    BY <2>3, SeedFacts DEF SeededInv
  <2>5. Pos(w.user) < k /\ Pos(w.user) \in 1..L
    BY <1>0, <1>1, <2>2, <2>4, PosFacts DEF StepOf
  <2>6. w.user # Admin
    BY <1>2, <1>0, <2>2, <2>5, PosFacts, SeedAssumption DEF L
  <2> QED
    BY <1>0, <1>1, <2>2, <2>5, <2>6 DEF Acct
<1>4. ASSUME NEW i \in 0..(k - 2) PROVE i \in UsedIdx(c)
  <2> DEFINE v == SeedOrder[i + 1]
             j == StepOf(c, v)
  <2>1. i + 1 \in 1..L /\ i + 1 < k
    BY <1>0, <1>1
  <2>2. v \in Users /\ Pos(v) = i + 1
    BY <2>1, PosFacts
  <2>3. v # Admin
    BY <1>2, <1>0, <1>1, <2>1, SeedAssumption DEF L
  <2>4. j \in 1..SeedSteps /\ j < seedPos /\ SeedChain(j) = c /\ SeedUser(j) = v
    BY <1>0, <1>1, <2>1, <2>2, StepOfFacts, PosFacts DEF StepOf
  <2>5. PICK w \in RowOf(c, v) : TRUE
    BY <2>4 DEF SeededInv, Seeded
  <2>6. w \in wallets /\ w.chain = c /\ w.account_idx = Acct(v)
    BY <2>5 DEF RowOf, SeededInv
  <2>7. Acct(v) = i
    BY <2>2, <2>3 DEF Acct
  <2> QED
    BY <2>6, <2>7 DEF UsedIdx
<1>5. UsedIdx(c) = 0..(k - 2)
  BY <1>3, <1>4
<1>6. CASE k = 1
  <2>1. UsedIdx(c) = {}
    BY <1>5, <1>6
  <2> QED
    BY <1>1, <1>6, <2>1 DEF next_account_idx, c, u
<1>7. CASE k > 1
  <2> DEFINE m == CHOOSE m \in UsedIdx(c) : \A n \in UsedIdx(c) : n <= m
  <2>1. k - 2 \in UsedIdx(c) /\ \A n \in UsedIdx(c) : n <= k - 2
    BY <1>0, <1>1, <1>5, <1>7
  <2>2. m \in UsedIdx(c) /\ \A n \in UsedIdx(c) : n <= m
    BY <2>1
  <2>3. m = k - 2
    BY <1>0, <1>1, <1>5, <2>1, <2>2
  <2>4. UsedIdx(c) # {}
    BY <2>1
  <2>5. next_account_idx(c) = m + 1
    BY <2>4 DEF next_account_idx
  <2> HIDE DEF m
  <2>6. next_account_idx(c) = k - 1
    BY <1>0, <2>3, <2>5
  <2> QED
    BY <1>1, <2>6 DEF c, u
<1> QED
  BY <1>0, <1>1, <1>6, <1>7

(* A step that writes one task's locals and no row.                        *)
LEMMA SeededLocal ==
  ASSUME SeededInv, TypeInv', NEW p \in Procs, NEW n,
         task' = [task EXCEPT ![p] = n],
         UNCHANGED <<wallets, seedPos>>,
         \A u \in Users : signerCache'[u] \in {NoKey, Acct(u)},
         n.pc # "idle" =>
           /\ n.signers \in {NoKey, Acct(n.user)}
           /\ n.pc \notin {"find", "alloc"} => n.idx = Acct(n.user)
           /\ p = Boot => /\ n.chain = SeedChain(seedPos) /\ n.user = SeedUser(seedPos)
                          /\ n.pc # "find" => ~Seeded(seedPos)
                          /\ n.pc = "alloc" => n.user # Admin
           /\ p # Boot => /\ Serving
                          /\ n.pc \notin {"alloc", "insert"}
                          /\ n.pc # "find" => n.key = Acct(n.user)
  PROVE  SeededInv'
<1>1. task \in [Procs -> Task]
  BY DEF SeededInv, TypeInv, TypeOK
<1>2. \A j : Seeded(j)' <=> Seeded(j)
  BY DEF Seeded, RowOf
<1>3. ASSUME NEW q \in Procs PROVE SeededTask(q)'
  <2>1. CASE q = p
    <3>1. task'[q] = n
      BY <1>1, <2>1
    <3> QED
      BY <1>2, <2>1, <3>1 DEF SeededTask, Serving
  <2>2. CASE q # p
    <3>1. task'[q] = task[q] /\ SeededTask(q)
      BY <1>1, <2>2 DEF SeededInv
    <3> QED
      BY <1>2, <3>1 DEF SeededTask, Serving
  <2> QED
    BY <2>1, <2>2
<1> QED
  BY <1>2, <1>3 DEF SeededInv

(* The boot task finishes a seed whose row is now there.                   *)
LEMMA SeededEnd ==
  ASSUME SeededInv, TypeInv', ~Serving, task[Boot].pc # "idle",
         task' = [task EXCEPT ![Boot] = Idle],
         seedPos' = seedPos + 1,
         signerCache' = signerCache,
         \A w \in wallets' : w.account_idx = Acct(w.user) /\ w.key = Acct(w.user),
         \A j \in 1..SeedSteps : Seeded(j)' <=> Seeded(j) \/ j = seedPos
  PROVE  SeededInv'
<1>1. task \in [Procs -> Task] /\ seedPos \in 1..SeedSteps /\ SeedSteps \in Nat
  BY SeedFacts DEF SeededInv, TypeInv, TypeOK, Serving
<1>2. ASSUME NEW q \in Procs PROVE SeededTask(q)'
  <2>1. CASE q = Boot
    <3>1. task'[q].pc = "idle"
      BY <1>1, <2>1 DEF Idle, NewTask
    <3> QED
      BY <3>1 DEF SeededTask
  <2>2. CASE q # Boot
    <3>1. task'[q] = task[q] /\ SeededTask(q)
      BY <1>1, <2>2 DEF SeededInv
    <3>2. task[q].pc = "idle"
      BY <2>2, <3>1 DEF SeededTask
    <3> QED
      BY <3>1, <3>2 DEF SeededTask
  <2> QED
    BY <2>1, <2>2
<1>3. \A j \in 1..SeedSteps : j < seedPos' => Seeded(j)'
  BY <1>1 DEF SeededInv
<1>4. ASSUME NEW j \in 1..SeedSteps, NEW k \in 1..SeedSteps, j <= k, Seeded(k)'
      PROVE  Seeded(j)'
  <2>1. CASE j < seedPos'
    BY <1>3, <2>1
  <2>2. CASE ~(j < seedPos')
    BY <1>1, <1>4, <2>2 DEF SeededInv
  <2> QED
    BY <2>1, <2>2
<1> QED
  BY <1>2, <1>3, <1>4 DEF SeededInv

(* The work of a task, action by action.                                   *)
LEMMA SeededWork ==
  ASSUME SeededInv, TypeInv', NEW p \in Procs, Work(p)
  PROVE  SeededInv'
<1> DEFINE t == task[p]
<1>0. /\ t \in Task /\ TaskOK(p) /\ SeededTask(p) /\ task \in [Procs -> Task]
      /\ \A u \in Users : signerCache[u] \in {NoKey, Acct(u)}
      /\ signerCache \in [Users -> Key]
      /\ wallets \subseteq Row
      /\ t.user \in Users /\ t.chain \in Chains
      /\ t.user \in Users => Acct(t.user) \in Nat
      /\ ~Faults
  BY AcctInjective DEF SeededInv, TypeInv, TypeOK, Task
<1>00. p = Boot /\ t.pc # "idle" =>
         /\ ~Serving /\ seedPos \in 1..SeedSteps
         /\ t.chain = SeedChain(seedPos) /\ t.user = SeedUser(seedPos)
  BY <1>0, SeedFacts DEF SeededInv, TypeInv, TypeOK, TaskOK, SeededTask, Serving
<1>000. p # Boot /\ t.pc # "idle" => RowOf(t.chain, t.user) # {}
  <2> SUFFICES ASSUME p # Boot, t.pc # "idle" PROVE RowOf(t.chain, t.user) # {}
    OBVIOUS
  <2>1. Serving
    BY <1>0 DEF SeededTask
  <2>2. PICK j \in 1..SeedSteps : SeedChain(j) = t.chain /\ SeedUser(j) = t.user
    BY <1>0, StepOfFacts
  <2>3. j < seedPos
    BY <2>1, SeedFacts DEF Serving, SeededInv, TypeInv, TypeOK
  <2> QED
    BY <2>2, <2>3 DEF SeededInv, Seeded
<1> USE <1>0
<1>1. CASE FindWallet(p)
  <2>0. t.pc = "find" /\ UNCHANGED <<wallets, version0, signerCache, walletCache, restarts>>
    BY <1>1 DEF FindWallet
  <2>1. CASE RowOf(t.chain, t.user) = {} /\ t.user = Admin
    <3> DEFINE n == [t EXCEPT !.pc = "signers", !.idx = AdminIdx]
    <3>1. p = Boot
      BY <1>000, <2>0, <2>1
    <3>2. task' = [task EXCEPT ![p] = n] /\ seedPos' = seedPos
      BY <1>1, <2>1, <3>1 DEF FindWallet
    <3>3. /\ n.pc = "signers" /\ n.idx = AdminIdx /\ n.user = t.user
          /\ n.chain = t.chain /\ n.signers = t.signers
      BY DEF Task
    <3>4. AdminIdx = Acct(t.user)
      BY <2>1 DEF Acct
    <3>5. ~Seeded(seedPos)
      BY <1>00, <2>0, <2>1, <3>1 DEF Seeded
    <3> HIDE DEF n
    <3> QED
      BY <1>00, <2>0, <3>1, <3>2, <3>3, <3>4, <3>5, SeededLocal DEF SeededTask
  <2>2. CASE RowOf(t.chain, t.user) = {} /\ t.user # Admin
    <3> DEFINE n == [t EXCEPT !.pc = "alloc"]
    <3>1. p = Boot
      BY <1>000, <2>0, <2>2
    <3>2. task' = [task EXCEPT ![p] = n] /\ seedPos' = seedPos
      BY <1>1, <2>2, <3>1 DEF FindWallet, Goto
    <3>3. /\ n.pc = "alloc" /\ n.user = t.user
          /\ n.chain = t.chain /\ n.signers = t.signers
      BY DEF Task
    <3>4. ~Seeded(seedPos)
      BY <1>00, <2>0, <2>2, <3>1 DEF Seeded
    <3> HIDE DEF n
    <3> QED
      BY <1>00, <2>0, <2>2, <3>1, <3>2, <3>3, <3>4, SeededLocal DEF SeededTask
  <2>3. CASE RowOf(t.chain, t.user) # {} /\ p = Boot
    <3>1. task' = [task EXCEPT ![Boot] = Idle] /\ seedPos' = seedPos + 1
      BY <1>1, <2>3 DEF FindWallet, Succeed, Fail
    <3>2. Seeded(seedPos)
      BY <1>00, <2>0, <2>3 DEF Seeded
    <3>3. \A j : Seeded(j)' <=> Seeded(j)
      BY <2>0 DEF Seeded, RowOf
    <3>4. \A w \in wallets' : w.account_idx = Acct(w.user) /\ w.key = Acct(w.user)
      BY <2>0 DEF SeededInv
    <3>5. task[Boot].pc # "idle" /\ ~Serving
      BY <1>00, <2>0, <2>3
    <3> QED
      BY <2>0, <3>1, <3>2, <3>3, <3>4, <3>5, SeededEnd
  <2>4. CASE RowOf(t.chain, t.user) # {} /\ p # Boot
    <3>1. PICK w \in RowOf(t.chain, t.user) :
             task' = [task EXCEPT ![p].pc = "signers",
                                  ![p].idx = w.account_idx, ![p].key = w.key]
      BY <1>1, <2>4 DEF FindWallet
    <3> DEFINE n == [t EXCEPT !.pc = "signers", !.idx = w.account_idx, !.key = w.key]
    <3>2. /\ n.pc = "signers" /\ n.idx = w.account_idx /\ n.key = w.key
          /\ n.user = t.user /\ n.signers = t.signers
      BY DEF Task
    <3>3. w.account_idx = Acct(t.user) /\ w.key = Acct(t.user)
      BY DEF RowOf, SeededInv
    <3>4. task' = [task EXCEPT ![p] = n] /\ seedPos' = seedPos
      BY <1>1, <2>4, <3>1 DEF FindWallet
    <3> HIDE DEF n
    <3> QED
      BY <2>0, <2>4, <3>2, <3>3, <3>4, SeededLocal DEF SeededTask
  <2> QED
    BY <2>1, <2>2, <2>3, <2>4
<1>2. CASE AllocIdx(p)
  <2> DEFINE n == [t EXCEPT !.pc = "signers", !.idx = next_account_idx(t.chain)]
  <2>1. t.pc = "alloc" /\ p = Boot
    BY <1>2 DEF AllocIdx, SeededTask
  <2>2. ~Seeded(seedPos) /\ t.user # Admin
    BY <2>1 DEF SeededTask
  <2>3. next_account_idx(t.chain) = Acct(t.user)
    BY <1>00, <2>1, <2>2, AllocGivesAcct
  <2>4. /\ task' = [task EXCEPT ![p] = n]
        /\ UNCHANGED <<wallets, signerCache, seedPos>>
    BY <1>2 DEF AllocIdx
  <2>5. /\ n.pc = "signers" /\ n.idx = Acct(t.user) /\ n.user = t.user
        /\ n.chain = t.chain /\ n.signers = t.signers
    BY <2>3 DEF Task
  <2> HIDE DEF n
  <2> QED
    BY <1>00, <2>1, <2>2, <2>4, <2>5, SeededLocal DEF SeededTask
<1>3. CASE SignersCached(p)
  <2>0. t.pc = "signers" /\ UNCHANGED <<wallets, signerCache, seedPos>>
    BY <1>3 DEF SignersCached
  <2>1. CASE signerCache[t.user] # NoKey
    <3> DEFINE n == [t EXCEPT !.pc = AfterSigners(t), !.signers = signerCache[t.user]]
    <3>1. task' = [task EXCEPT ![p] = n]
      BY <1>3, <2>1 DEF SignersCached
    <3>2. AfterSigners(t) \in {"insert", "build"} /\ (p # Boot => AfterSigners(t) = "build")
      BY <2>0 DEF AfterSigners, SeededTask, NoKey
    <3>3. /\ n.pc = AfterSigners(t) /\ n.idx = t.idx /\ n.user = t.user
          /\ n.chain = t.chain /\ n.key = t.key /\ n.signers = Acct(t.user)
      BY <2>1 DEF Task
    <3> HIDE DEF n
    <3> QED
      BY <2>0, <3>1, <3>2, <3>3, SeededLocal DEF SeededTask
  <2>2. CASE signerCache[t.user] = NoKey
    <3> DEFINE n == [t EXCEPT !.pc = "derive"]
    <3>1. task' = [task EXCEPT ![p] = n]
      BY <1>3, <2>2 DEF SignersCached, Goto
    <3>2. /\ n.pc = "derive" /\ n.idx = t.idx /\ n.user = t.user
          /\ n.chain = t.chain /\ n.key = t.key /\ n.signers = t.signers
      BY DEF Task
    <3> HIDE DEF n
    <3> QED
      BY <2>0, <3>1, <3>2, SeededLocal DEF SeededTask
  <2> QED
    BY <2>1, <2>2
<1>4. CASE DeriveSigners(p)
  <2> DEFINE kept == IF signerCache[t.user] # NoKey THEN signerCache[t.user] ELSE t.idx
             n == [t EXCEPT !.pc = AfterSigners(t), !.signers = kept]
  <2>0. t.pc = "derive" /\ UNCHANGED <<wallets, seedPos>>
    BY <1>4 DEF DeriveSigners
  <2>1. kept = Acct(t.user)
    BY <2>0 DEF SeededTask
  <2>2. AfterSigners(t) \in {"insert", "build"} /\ (p # Boot => AfterSigners(t) = "build")
    BY <2>0 DEF AfterSigners, SeededTask, NoKey
  <2>3. /\ task' = [task EXCEPT ![p] = n]
        /\ signerCache' = [signerCache EXCEPT ![t.user] = kept]
    BY <1>4 DEF DeriveSigners
  <2>4. /\ n.pc = AfterSigners(t) /\ n.idx = t.idx /\ n.user = t.user
        /\ n.chain = t.chain /\ n.key = t.key /\ n.signers = Acct(t.user)
    BY <2>1 DEF Task
  <2>5. \A u \in Users : signerCache'[u] \in {NoKey, Acct(u)}
    BY <2>1, <2>3
  <2> HIDE DEF n, kept
  <2> QED
    BY <2>0, <2>2, <2>3, <2>4, <2>5, SeededLocal DEF SeededTask
<1>5. CASE Abandon(p)
  <2>1. task' = [task EXCEPT ![p] = Idle] /\ UNCHANGED <<wallets, signerCache, seedPos>>
    BY <1>5 DEF Abandon, Fail
  <2>2. Idle.pc = "idle"
    BY DEF Idle, NewTask
  <2> HIDE DEF t
  <2> QED
    BY <2>1, <2>2, SeededLocal
<1>6. CASE InsertWallet(p)
  <2> DEFINE row == [chain |-> t.chain, user |-> t.user,
                     account_idx |-> t.idx, key |-> t.signers]
  <2>0. t.pc = "insert" /\ p = Boot /\ t.idx = Acct(t.user)
    BY <1>6 DEF InsertWallet, SeededTask
  <2>1. t.signers = Acct(t.user)
    BY <2>0 DEF TaskOK, SeededTask, NoKey
  <2>2. RowOf(t.chain, t.user) = {}
    BY <1>00, <2>0 DEF SeededTask, Seeded
  <2>3. ~UniqueViolation(t.chain, t.user, t.idx)
    <3> SUFFICES ASSUME NEW w \in wallets, w.chain = t.chain,
                        w.user = t.user \/ w.account_idx = t.idx
                 PROVE  FALSE
      BY DEF UniqueViolation
    <3>1. w.user \in Users /\ w.account_idx = Acct(w.user)
      BY DEF SeededInv, Row
    <3>2. w.user = t.user
      BY <2>0, <3>1, AcctInjective
    <3> QED
      BY <2>2, <3>2 DEF RowOf
  <2>4. /\ wallets' = wallets \cup {row}
        /\ task' = [task EXCEPT ![Boot] = Idle] /\ seedPos' = seedPos + 1
        /\ signerCache' = signerCache
    BY <1>6, <2>0, <2>3 DEF InsertWallet, Succeed, Fail
  <2>5. row.account_idx = Acct(row.user) /\ row.key = Acct(row.user)
        /\ row.chain = t.chain /\ row.user = t.user
    BY <2>0, <2>1
  <2> HIDE DEF row
  <2>6. \A w \in wallets' : w.account_idx = Acct(w.user) /\ w.key = Acct(w.user)
    BY <2>4, <2>5 DEF SeededInv
  <2>7. ASSUME NEW j \in 1..SeedSteps
        PROVE  Seeded(j)' <=> Seeded(j) \/ j = seedPos
    <3>1. RowOf(SeedChain(j), SeedUser(j))' =
            RowOf(SeedChain(j), SeedUser(j)) \cup
              (IF SeedChain(j) = t.chain /\ SeedUser(j) = t.user THEN {row} ELSE {})
      BY <2>4, <2>5 DEF RowOf
    <3>2. SeedChain(j) = t.chain /\ SeedUser(j) = t.user <=> j = seedPos
      BY <1>00, <2>0, StepOfFacts
    <3> QED
      BY <3>1, <3>2 DEF Seeded
  <2>8. task[Boot].pc # "idle" /\ ~Serving
    BY <1>00, <2>0
  <2> QED
    BY <2>4, <2>6, <2>7, <2>8, SeededEnd
<1>7. CASE BuildWallet(p)
  <2> DEFINE n == [t EXCEPT !.pc = "record"]
  <2>0. t.pc = "build" /\ p # Boot
    BY <1>7 DEF BuildWallet, TaskOK
  <2>1. t.signers = t.key
    BY <2>0 DEF TaskOK, SeededTask, NoKey
  <2>2. task' = [task EXCEPT ![p] = n] /\ UNCHANGED <<wallets, signerCache, seedPos>>
    BY <1>7, <2>1 DEF BuildWallet, Goto
  <2>3. /\ n.pc = "record" /\ n.idx = t.idx /\ n.user = t.user
        /\ n.key = t.key /\ n.signers = t.signers
    BY DEF Task
  <2> HIDE DEF n
  <2> QED
    BY <2>0, <2>2, <2>3, SeededLocal DEF SeededTask
<1>8. CASE RecordVersion(p)
  <2> DEFINE n == [t EXCEPT !.pc = "publish"]
  <2>0. t.pc = "record" /\ p # Boot
    BY <1>8 DEF RecordVersion, TaskOK
  <2>2. task' = [task EXCEPT ![p] = n] /\ UNCHANGED <<wallets, signerCache, seedPos>>
    BY <1>8 DEF RecordVersion, Goto
  <2>3. /\ n.pc = "publish" /\ n.idx = t.idx /\ n.user = t.user
        /\ n.key = t.key /\ n.signers = t.signers
    BY DEF Task
  <2> HIDE DEF n
  <2> QED
    BY <2>0, <2>2, <2>3, SeededLocal DEF SeededTask
<1>9. CASE PublishWallet(p)
  <2>1. task' = [task EXCEPT ![p] = Idle] /\ UNCHANGED <<wallets, signerCache, seedPos>>
    BY <1>9 DEF PublishWallet
  <2>2. Idle.pc = "idle"
    BY DEF Idle, NewTask
  <2> HIDE DEF t
  <2> QED
    BY <2>1, <2>2, SeededLocal
<1> QED
  BY <1>1, <1>2, <1>3, <1>4, <1>5, <1>6, <1>7, <1>8, <1>9 DEF Work

(* A process that has just started on an empty database, with eager        *)
(* seeding on.                                                             *)
LEMMA SeededInit == Init /\ EagerSeed /\ ~Faults => SeededInv
<1> SUFFICES ASSUME Init, EagerSeed, ~Faults PROVE SeededInv
  OBVIOUS
<1>1. TypeInv
  BY InitType
<1>2. ASSUME NEW p \in Procs PROVE SeededTask(p)
  <2>1. task[p].pc = "idle"
    BY DEF Init, AllIdle, Idle, NewTask
  <2> QED
    BY <2>1 DEF SeededTask
<1>3. \A u \in Users : signerCache[u] \in {NoKey, Acct(u)}
  BY DEF Init
<1>4. seedPos = 1 /\ \A j : ~Seeded(j)
  BY DEF Init, FirstSeed, Seeded, RowOf
<1> QED
  BY <1>1, <1>2, <1>3, <1>4 DEF SeededInv, Init

(* Starting a request or a seed, a task's work and a restart keep it.      *)
LEMMA SeededStep == SeededInv /\ [Next]_vars => SeededInv'
<1> SUFFICES ASSUME SeededInv, [Next]_vars PROVE SeededInv'
  OBVIOUS
<1>0. TypeInv' /\ task \in [Procs -> Task]
  BY StepType DEF SeededInv, TypeInv, TypeOK
<1>1. ASSUME NEW r \in Requests, NEW c \in Chains, NEW u \in Users, StartRequest(r, c, u)
      PROVE  SeededInv'
  <2> DEFINE n == NewTask("find", c, u)
  <2>1. n.pc = "find" /\ n.signers = NoKey
    BY DEF NewTask
  <2>2. /\ task' = [task EXCEPT ![r] = n] /\ r \in Procs /\ r # Boot /\ Serving
        /\ UNCHANGED <<wallets, signerCache, seedPos>>
    BY <1>1, ProcAssumption DEF StartRequest, Procs
  <2> HIDE DEF n
  <2> QED
    BY <1>0, <2>1, <2>2, SeededLocal DEF SeededInv
<1>2. CASE StartSeed
  <2> DEFINE n == NewTask("find", SeedChain(seedPos), SeedUser(seedPos))
  <2>1. /\ n.pc = "find" /\ n.signers = NoKey
        /\ n.chain = SeedChain(seedPos) /\ n.user = SeedUser(seedPos)
    BY DEF NewTask
  <2>2. /\ task' = [task EXCEPT ![Boot] = n] /\ Boot \in Procs
        /\ UNCHANGED <<wallets, signerCache, seedPos>>
    BY <1>2 DEF StartSeed, Procs
  <2> HIDE DEF n
  <2> QED
    BY <1>0, <2>1, <2>2, SeededLocal DEF SeededInv
<1>3. CASE Restart
  <2>1. ASSUME NEW p \in Procs PROVE SeededTask(p)'
    <3>1. task'[p].pc = "idle"
      BY <1>3 DEF Restart, AllIdle, Idle, NewTask
    <3> QED
      BY <3>1 DEF SeededTask
  <2>2. \A j : Seeded(j)' <=> Seeded(j)
    BY <1>3 DEF Restart, Seeded, RowOf
  <2>3. seedPos' = 1 /\ wallets' = wallets
    BY <1>3 DEF Restart, FirstSeed, SeededInv
  <2>4. \A u \in Users : signerCache'[u] \in {NoKey, Acct(u)}
    BY <1>3 DEF Restart
  <2> QED
    BY <1>0, <2>1, <2>2, <2>3, <2>4 DEF SeededInv
<1>4. CASE UNCHANGED vars
  BY <1>0, <1>4 DEF SeededInv, SeededTask, Serving, Seeded, RowOf, vars
<1> QED
  BY <1>0, <1>1, <1>2, <1>3, <1>4, SeededWork DEF Next

(* The inductive invariant holds of every behaviour with eager seeding,    *)
(* tokens and a database that answer.                                      *)
THEOREM SeededInvariant == EagerSeed /\ ~Faults /\ Spec => []SeededInv
BY SeededInit, SeededStep, PTL DEF Spec

(* migrations/0002_wallets.sql: two wallets never share key material.  It  *)
(* holds of src/main.rs's default start, for any number of users, requests *)
(* and restarts, as long as seeding meets no token or database error.      *)
THEOREM SeededKeyIsolation == EagerSeed /\ ~Faults /\ Spec => []KeyIsolation
<1>1. SeededInv => KeyIsolation
  <2> SUFFICES ASSUME SeededInv, NEW v \in wallets, NEW w \in wallets,
                      v.chain = w.chain, v.key = w.key
               PROVE  v = w
    BY DEF KeyIsolation
  <2>1. v \in Row /\ w \in Row
    BY DEF SeededInv, TypeInv, TypeOK
  <2>2. /\ v.account_idx = Acct(v.user) /\ v.key = Acct(v.user)
        /\ w.account_idx = Acct(w.user) /\ w.key = Acct(w.user)
    BY DEF SeededInv
  <2>3. v.user = w.user
    BY <2>1, <2>2, AcctInjective DEF Row
  <2> QED
    BY <2>1, <2>2, <2>3 DEF Row
<1> QED
  BY <1>1, SeededInvariant, PTL

(* Every row's keys are the ones its account_idx derives, so that          *)
(* build_user_wallet finds them again after a restart.                     *)
THEOREM SeededKeyMatchesAccount ==
  EagerSeed /\ ~Faults /\ Spec => []KeyMatchesAccount
<1>1. SeededInv => KeyMatchesAccount
  BY DEF SeededInv, KeyMatchesAccount
<1> QED
  BY <1>1, SeededInvariant, PTL

(* No step of load_or_init, seeding or a restart rewrites or removes a row *)
(* that is there: the rebind of build_user_wallet never fires.             *)
THEOREM SeededDescriptorStable ==
  EagerSeed /\ ~Faults /\ Spec => DescriptorStable
<1>1. SeededInv /\ [Next]_vars => [\A w \in wallets : w \in wallets']_vars
  <2> SUFFICES ASSUME SeededInv, Next PROVE \A w \in wallets : w \in wallets'
    OBVIOUS
  <2>1. CASE \E p \in Procs : BuildWallet(p)
    <3>1. PICK p \in Procs : BuildWallet(p)
      BY <2>1
    <3>2. SeededTask(p) /\ TaskOK(p)
      BY DEF SeededInv, TypeInv
    <3>3. task[p].signers = task[p].key
      BY <3>1, <3>2 DEF BuildWallet, TaskOK, SeededTask, NoKey
    <3> QED
      BY <3>1, <3>3 DEF BuildWallet
  <2>2. CASE ~(\E p \in Procs : BuildWallet(p))
    BY <2>2 DEF Next, Work, StartRequest, StartSeed, Restart, FindWallet, AllocIdx,
                SignersCached, DeriveSigners, Abandon, InsertWallet,
                RecordVersion, PublishWallet
  <2> QED
    BY <2>1, <2>2
<1> QED
  BY <1>1, SeededInvariant, PTL DEF Spec, DescriptorStable
=============================================================================
