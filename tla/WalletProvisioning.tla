------------------------- MODULE WalletProvisioning -------------------------
(***************************************************************************)
(* First-use provisioning of the per-user wallets: HsmFleet's signer cache *)
(* (src/hsm.rs), load_or_init / ensure_wallet_for_user of the Bitcoin and  *)
(* the Elements wallet managers (src/wallet.rs, src/elements_wallet.rs),   *)
(* the wallets tables (src/db.rs) and the boot-time seeding of src/main.rs.*)
(*                                                                         *)
(* A signer set is abstracted to the account index of the BIP-48 path it   *)
(* was derived at: every token holds one seed, so that index is all that   *)
(* tells the key material of two wallets of one chain apart.  A descriptor *)
(* is abstracted to the index of the signers it was built from (its key).  *)
(***************************************************************************)
EXTENDS Integers, Sequences, FiniteSets

CONSTANTS
  Users,        \* users.id of the seeded accounts
  SeedOrder,    \* the order in which boot seeds their wallets, Admin last
  Admin,        \* admin@test.com, seeded at a fixed account index
  AdminIdx,     \* that index (99 in src/main.rs)
  Requests,     \* HTTP requests that may be in flight together
  Boot,         \* the boot task, before the listener is bound
  EagerSeed,    \* FALSE when APP_SKIP_EAGER_SEED is set
  Faults,       \* whether a token or the database may fail
  MaxRestarts   \* bound on the process restarts explored

Chains == {"btc", "elements"}
Procs  == Requests \cup {Boot}
NoKey  == -1

(***************************************************************************)
(* The boot task seeds finitely many users in a fixed order; the index     *)
(* reserved for the admin lies beyond the ones the others are given.       *)
(***************************************************************************)
ASSUME SeedAssumption ==
  /\ Len(SeedOrder) \in Nat \ {0}
  /\ SeedOrder \in [1..Len(SeedOrder) -> Users]
  /\ \A u \in Users : \E i \in 1..Len(SeedOrder) : SeedOrder[i] = u
  /\ \A i, j \in 1..Len(SeedOrder) : SeedOrder[i] = SeedOrder[j] => i = j
  /\ SeedOrder[Len(SeedOrder)] = Admin
  /\ AdminIdx \in Nat
  /\ AdminIdx >= Len(SeedOrder)

ASSUME ProcAssumption ==
  /\ Boot \notin Requests
  /\ EagerSeed \in BOOLEAN
  /\ Faults \in BOOLEAN
  /\ MaxRestarts \in Nat

VARIABLES
  wallets,      \* rows of the wallets and elements_wallets tables
  version0,     \* key of the federation_versions row 0 of a wallet, if any
  signerCache,  \* HsmFleet.cache: user -> path index of the cached signers
  walletCache,  \* the managers' caches: chain, user -> key of the wallet
  task,         \* progress of the requests and of the boot task
  seedPos,      \* next seeding step of the boot task
  restarts      \* process restarts so far

vars == <<wallets, version0, signerCache, walletCache, task, seedPos, restarts>>

Row == [chain : Chains, user : Users, account_idx : Nat, key : Nat]

Key == Nat \cup {NoKey}

(***************************************************************************)
(* The locals of load_or_init: the chain and user it works for, the index  *)
(* and key of the row in hand (key NoKey while it is being created) and    *)
(* the signers obtained.                                                   *)
(***************************************************************************)
Step == {"idle", "find", "alloc", "signers", "derive", "insert",
         "build", "record", "publish"}

Task == [pc : Step, chain : Chains, user : Users,
         idx : Nat, key : Key, signers : Key]

SeedSteps == 2 * Len(SeedOrder)

Serving == seedPos > SeedSteps

SeedChain(p) == IF p <= Len(SeedOrder) THEN "btc" ELSE "elements"
SeedUser(p)  == SeedOrder[IF p <= Len(SeedOrder) THEN p ELSE p - Len(SeedOrder)]

(***************************************************************************)
(* db.rs: lookups on the tables and the next free account index.           *)
(***************************************************************************)
RowOf(c, u) == {w \in wallets : w.chain = c /\ w.user = u}

UsedIdx(c) == {w.account_idx : w \in {v \in wallets : v.chain = c}}

(* Mutant: the increment of COALESCE(MAX(account_idx) + 1, 0) is lost.     *)
next_account_idx_NoIncrement(c) ==
  IF UsedIdx(c) = {} THEN -1
  ELSE CHOOSE m \in UsedIdx(c) : \A n \in UsedIdx(c) : n <= m

next_account_idx(c) ==
  IF UsedIdx(c) = {} THEN 0
  ELSE (CHOOSE m \in UsedIdx(c) : \A n \in UsedIdx(c) : n <= m) + 1

(* UNIQUE (user_id) and UNIQUE (account_idx) of one wallets table.         *)
UniqueViolation(c, u, i) ==
  \E w \in wallets : w.chain = c /\ (w.user = u \/ w.account_idx = i)

-----------------------------------------------------------------------------
NewTask(pc, c, u) == [pc |-> pc, chain |-> c, user |-> u,
                      idx |-> 0, key |-> NoKey, signers |-> NoKey]

Idle == NewTask("idle", "btc", Admin)

AllIdle == [p \in Procs |-> Idle]

FirstSeed == IF EagerSeed THEN 1 ELSE SeedSteps + 1

Init ==
  /\ wallets = {}
  /\ version0 = [c \in Chains |-> [u \in Users |-> NoKey]]
  /\ signerCache = [u \in Users |-> NoKey]
  /\ walletCache = [c \in Chains |-> [u \in Users |-> NoKey]]
  /\ task = AllIdle
  /\ seedPos = FirstSeed
  /\ restarts = 0

Goto(p, pc) == task' = [task EXCEPT ![p].pc = pc]

(* Mutant: a seed that ends does not advance the boot loop.                *)
Fail_StaysOnSeed(p) ==
  /\ task' = [task EXCEPT ![p] = Idle]
  /\ UNCHANGED seedPos

(* An error returned with `?`: the request answers 5xx; the boot task logs *)
(* a warning and goes on with the next seed.                               *)
Fail(p) ==
  /\ task' = [task EXCEPT ![p] = Idle]
  /\ seedPos' = IF p = Boot THEN seedPos + 1 ELSE seedPos

Succeed(p) == Fail(p)

(* Mutant: the listener is bound before the wallets are seeded.            *)
StartRequest_BeforeSeeding(r, c, u) ==
  /\ task[r].pc = "idle"
  /\ walletCache[c][u] = NoKey
  /\ task' = [task EXCEPT ![r] = NewTask("find", c, u)]
  /\ UNCHANGED <<wallets, version0, signerCache, walletCache, seedPos, restarts>>

(***************************************************************************)
(* A request enters load_or_init; the manager's cache misses.  (On a hit   *)
(* it returns the cached wallet and changes nothing.)                      *)
(***************************************************************************)
StartRequest(r, c, u) ==
  /\ Serving
  /\ task[r].pc = "idle"
  /\ walletCache[c][u] = NoKey
  /\ task' = [task EXCEPT ![r] = NewTask("find", c, u)]
  /\ UNCHANGED <<wallets, version0, signerCache, walletCache, seedPos, restarts>>

(* The boot loop takes up its next user, Bitcoin wallets first.            *)
StartSeed ==
  /\ ~Serving
  /\ task[Boot].pc = "idle"
  /\ task' = [task EXCEPT ![Boot] =
                NewTask("find", SeedChain(seedPos), SeedUser(seedPos))]
  /\ UNCHANGED <<wallets, version0, signerCache, walletCache, seedPos, restarts>>

(* find_wallet_for_user: a row ends the seeding of that user; a request    *)
(* goes on to build the wallet from it.                                    *)
FindWallet(p) ==
  LET t == task[p] IN
  /\ t.pc = "find"
  /\ \/ /\ RowOf(t.chain, t.user) = {}
        /\ IF p = Boot /\ t.user = Admin
           THEN task' = [task EXCEPT ![p].pc = "signers", ![p].idx = AdminIdx]
           ELSE Goto(p, "alloc")
        /\ UNCHANGED seedPos
     \/ /\ p = Boot
        /\ RowOf(t.chain, t.user) # {}
        /\ Succeed(p)
     \/ /\ p # Boot
        /\ \E w \in RowOf(t.chain, t.user) :
             task' = [task EXCEPT ![p].pc = "signers",
                                  ![p].idx = w.account_idx, ![p].key = w.key]
        /\ UNCHANGED seedPos
  /\ UNCHANGED <<wallets, version0, signerCache, walletCache, restarts>>

(* create_wallet_for_user: SELECT COALESCE(MAX(account_idx) + 1, 0).       *)
AllocIdx(p) ==
  /\ task[p].pc = "alloc"
  /\ task' = [task EXCEPT ![p].pc = "signers",
                          ![p].idx = next_account_idx(task[p].chain)]
  /\ UNCHANGED <<wallets, version0, signerCache, walletCache, seedPos, restarts>>

(* Where signers_for returns to: create_wallet_for_user_at or, once there  *)
(* is a row, build_user_wallet.                                            *)
AfterSigners(t) == IF t.key = NoKey THEN "insert" ELSE "build"

(***************************************************************************)
(* HsmFleet::signers_for.  The cache is looked up by user alone; on a miss *)
(* the lock is released while the tokens derive at the given path, and the *)
(* first set to come back is the one kept (entry().or_insert).             *)
(***************************************************************************)
SignersCached(p) ==
  LET t == task[p] IN
  /\ t.pc = "signers"
  /\ IF signerCache[t.user] # NoKey
     THEN task' = [task EXCEPT ![p].pc = AfterSigners(t),
                               ![p].signers = signerCache[t.user]]
     ELSE Goto(p, "derive")
  /\ UNCHANGED <<wallets, version0, signerCache, walletCache, seedPos, restarts>>

(* Mutant: insert instead of entry().or_insert: the last set derived wins. *)
DeriveSigners_LastWins(p) ==
  LET t == task[p] IN
  /\ t.pc = "derive"
  /\ signerCache' = [signerCache EXCEPT ![t.user] = t.idx]
  /\ task' = [task EXCEPT ![p].pc = AfterSigners(t), ![p].signers = t.idx]
  /\ UNCHANGED <<wallets, version0, walletCache, seedPos, restarts>>

DeriveSigners(p) ==
  LET t == task[p]
      kept == IF signerCache[t.user] # NoKey THEN signerCache[t.user] ELSE t.idx
  IN
  /\ t.pc = "derive"
  /\ signerCache' = [signerCache EXCEPT ![t.user] = kept]
  /\ task' = [task EXCEPT ![p].pc = AfterSigners(t), ![p].signers = kept]
  /\ UNCHANGED <<wallets, version0, walletCache, seedPos, restarts>>

(* Mutant: what fails is begun again, without limit.                       *)
Abandon_Retries(p) ==
  /\ Faults \/ p # Boot
  /\ task[p].pc # "idle"
  /\ Goto(p, "find")
  /\ UNCHANGED <<wallets, version0, signerCache, walletCache, seedPos, restarts>>

(* A token or the database answers an await with an error, or the client   *)
(* of a request goes away and the request is dropped at an await.  Signers *)
(* that were cached and rows that were inserted stay.                      *)
Abandon(p) ==
  /\ Faults \/ p # Boot
  /\ task[p].pc # "idle"
  /\ Fail(p)
  /\ UNCHANGED <<wallets, version0, signerCache, walletCache, restarts>>

(***************************************************************************)
(* create_wallet_for_user_at: the descriptor is built from the signers in  *)
(* hand and inserted with the allocated index.  A unique violation is      *)
(* returned to the caller.  The boot task stops here; a request builds the *)
(* wallet from the new row.                                                *)
(***************************************************************************)
InsertWallet(p) ==
  LET t == task[p]
      row == [chain |-> t.chain, user |-> t.user,
              account_idx |-> t.idx, key |-> t.signers]
  IN
  /\ t.pc = "insert"
  /\ \/ /\ UniqueViolation(t.chain, t.user, t.idx)
        /\ Fail(p)
        /\ UNCHANGED wallets
     \/ /\ ~UniqueViolation(t.chain, t.user, t.idx)
        /\ wallets' = wallets \cup {row}
        /\ IF p = Boot
           THEN Succeed(p)
           ELSE /\ task' = [task EXCEPT ![p].pc = "signers", ![p].key = t.signers]
                /\ UNCHANGED seedPos
  /\ UNCHANGED <<version0, signerCache, walletCache, restarts>>

(***************************************************************************)
(* build_user_wallet.  Bitcoin rebuilds the current federation from the    *)
(* signers in hand and, when its descriptor is not the row's, rewrites the *)
(* row (rebind_inner_to_current_federation).  Elements keeps the row's.    *)
(***************************************************************************)
Rebound(w, k) == [w EXCEPT !.key = k]

BuildWallet(p) ==
  LET t == task[p] IN
  /\ t.pc = "build"
  /\ IF t.chain = "btc" /\ t.signers # t.key
     THEN /\ wallets' = {IF w \in RowOf("btc", t.user) THEN Rebound(w, t.signers) ELSE w
                           : w \in wallets}
          /\ task' = [task EXCEPT ![p].pc = "record", ![p].key = t.signers]
     ELSE /\ Goto(p, "record")
          /\ UNCHANGED wallets
  /\ UNCHANGED <<version0, signerCache, walletCache, seedPos, restarts>>

(* The bootstrap federation version 0, recorded when none is stored.  An   *)
(* error of the insert, a conflict or any other, is dropped.               *)
RecordVersion(p) ==
  LET t == task[p] IN
  /\ t.pc = "record"
  /\ \/ /\ version0[t.chain][t.user] = NoKey
        /\ version0' = [version0 EXCEPT ![t.chain][t.user] = t.key]
     \/ UNCHANGED version0
  /\ Goto(p, "publish")
  /\ UNCHANGED <<wallets, signerCache, walletCache, seedPos, restarts>>

(* cache.entry(user_id).or_insert(uw): the first wallet built is served.   *)
PublishWallet(p) ==
  LET t == task[p] IN
  /\ t.pc = "publish"
  /\ walletCache' = IF walletCache[t.chain][t.user] = NoKey
                    THEN [walletCache EXCEPT ![t.chain][t.user] = t.key]
                    ELSE walletCache
  /\ task' = [task EXCEPT ![p] = Idle]
  /\ UNCHANGED <<wallets, version0, signerCache, seedPos, restarts>>

(* The process dies at any point and is started again: memory is lost,     *)
(* the tables stay, and boot seeds once more.                              *)
Restart ==
  /\ restarts < MaxRestarts
  /\ restarts' = restarts + 1
  /\ signerCache' = [u \in Users |-> NoKey]
  /\ walletCache' = [c \in Chains |-> [u \in Users |-> NoKey]]
  /\ task' = AllIdle
  /\ seedPos' = FirstSeed
  /\ UNCHANGED <<wallets, version0>>

Work(p) ==
  \/ FindWallet(p) \/ AllocIdx(p) \/ SignersCached(p) \/ DeriveSigners(p)
  \/ Abandon(p) \/ InsertWallet(p) \/ BuildWallet(p)
  \/ RecordVersion(p) \/ PublishWallet(p)

Next ==
  \/ \E r \in Requests, c \in Chains, u \in Users : StartRequest(r, c, u)
  \/ StartSeed
  \/ \E p \in Procs : Work(p)
  \/ Restart

(* Every task is polled by the runtime until it returns; nobody has to     *)
(* send a request, and the process need not be restarted.                  *)
Fairness ==
  /\ WF_vars(StartSeed)
  /\ \A p \in Procs : WF_vars(Work(p))

Spec == Init /\ [][Next]_vars /\ Fairness

-----------------------------------------------------------------------------
TypeOK ==
  /\ wallets \subseteq Row
  /\ version0 \in [Chains -> [Users -> Key]]
  /\ signerCache \in [Users -> Key]
  /\ walletCache \in [Chains -> [Users -> Key]]
  /\ task \in [Procs -> Task]
  /\ seedPos \in 1..(SeedSteps + 1)
  /\ restarts \in 0..MaxRestarts

(* No two wallets of one chain rest on the same key material               *)
(* (migrations/0002_wallets.sql), however requests, seeding and restarts   *)
(* interleave.                                                             *)
KeyIsolation ==
  \A v, w \in wallets : v.chain = w.chain /\ v.key = w.key => v = w

(* Each wallet's xpubs are derived at the account index its row records    *)
(* (migrations/0002_wallets.sql): the index alone is enough to recover the *)
(* keys after a restart, which is how build_user_wallet finds them.        *)
KeyMatchesAccount ==
  \A w \in wallets : w.key = w.account_idx

(* The wallet a manager serves from its cache is the one its table row     *)
(* describes: a receive address shown to the user is one the next process  *)
(* will still watch.                                                       *)
ServedWalletIsPersisted ==
  \A c \in Chains, u \in Users :
    walletCache[c][u] # NoKey =>
      \E w \in RowOf(c, u) : w.key = walletCache[c][u]

(* Without a federation change a wallet never moves to other keys: no step *)
(* of a request or a restart rewrites the descriptor of a row that is      *)
(* already there (rebind_inner_to_current_federation is for migrations).   *)
DescriptorStable ==
  [][\A w \in wallets : w \in wallets']_vars

(* Every request and every seeding step that was begun is answered, with   *)
(* the wallet or with an error, unless the process is restarted.           *)
TasksComplete ==
  \A p \in Procs : task[p].pc # "idle" ~> task[p].pc = "idle"

(* A seeding step that fails never keeps the server from coming up.        *)
ServerComesUp == ~Serving ~> Serving
=============================================================================
