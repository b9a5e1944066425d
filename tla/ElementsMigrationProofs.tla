----------------------- MODULE ElementsMigrationProofs -----------------------
(***************************************************************************)
(* Proofs about ElementsMigration, for any number of accounts, federations *)
(* and invocations of the tool, with and without --sweep-only: its type    *)
(* invariant and that funds stay tracked; and, for invocations that do not *)
(* overlap, that complete means swept.                                     *)
(***************************************************************************)
EXTENDS ElementsMigration, SequenceTheorems, TLAPS

-----------------------------------------------------------------------------
(* The versions of an account.                                             *)

(* A list written out position by position is a list of versions.          *)
LEMMA VersionList ==
  ASSUME NEW n \in Nat, NEW f \in [1..n -> Version]
  PROVE  f \in Seq(Version) /\ Len(f) = n
<1>1. f \in Seq(Version)
  BY SeqDef
<1> QED
  BY <1>1, LenProperties

(* A recorded version goes to the end and becomes the latest.              *)
LEMMA Recorded ==
  ASSUME NEW vs \in Seq(Version), NEW f \in Feds
  PROVE  LET ws == Append(vs, NewVersion(f)) IN
         /\ ws \in Seq(Version) /\ ws # <<>> /\ Latest(ws) = f
         /\ Feds_of(vs) \subseteq Feds_of(ws) /\ f \in Feds_of(ws)
<1> DEFINE ws == Append(vs, NewVersion(f))
<1>1. NewVersion(f) \in Version /\ NewVersion(f).fed = f
  BY DEF NewVersion, Version, Status, NoTx
<1>2. /\ ws \in Seq(Version) /\ Len(ws) = Len(vs) + 1 /\ Len(vs) \in Nat
      /\ ws[Len(vs) + 1] = NewVersion(f)
      /\ \A i \in 1..Len(vs) : ws[i] = vs[i]
  BY <1>1, AppendProperties
<1> HIDE DEF ws
<1>3. Feds_of(vs) \subseteq Feds_of(ws) /\ f \in Feds_of(ws)
  BY <1>1, <1>2 DEF Feds_of
<1>4. Latest(ws) = f /\ ws # <<>>
  BY <1>1, <1>2 DEF Latest
<1> QED
  BY <1>2, <1>3, <1>4 DEF ws

(* The first version.                                                      *)
LEMMA FirstRecorded ==
  LET ws == <<NewVersion(Fed0)>> IN
  ws \in Seq(Version) /\ ws # <<>> /\ Latest(ws) = Fed0 /\ Fed0 \in Feds_of(ws)
<1>1. NewVersion(Fed0) \in Version /\ NewVersion(Fed0).fed = Fed0
  BY ElementsMigrationAssumption DEF NewVersion, Version, Status, NoTx
<1> DEFINE ws == <<NewVersion(Fed0)>>
<1>2. ws \in Seq(Version) /\ Len(ws) = 1 /\ ws[1] = NewVersion(Fed0)
  BY <1>1
<1> HIDE DEF ws
<1>3. Latest(ws) = Fed0 /\ Fed0 \in Feds_of(ws) /\ ws # <<>>
  BY <1>1, <1>2 DEF Latest, Feds_of
<1> QED
  BY <1>2, <1>3 DEF ws

(* The latest of some versions is one of them.                             *)
LEMMA LatestRecorded ==
  ASSUME NEW vs \in Seq(Version), vs # <<>>
  PROVE  /\ Latest(vs) \in Feds_of(vs) /\ Latest(vs) \in Feds
         /\ Len(vs) \in Nat /\ Len(vs) >= 1
<1>1. Len(vs) \in Nat /\ Len(vs) >= 1
  BY EmptySeq
<1>2. vs[Len(vs)] \in Version
  BY <1>1
<1> QED
  BY <1>1, <1>2 DEF Latest, Feds_of, Version

(* Rewriting statuses leaves the federations as they are.                  *)
LEMMA Restated ==
  ASSUME NEW vs \in Seq(Version), NEW k \in Nat, NEW sweep \in Nat, NEW marked
  PROVE  /\ Pending(vs, k) \in Seq(Version) /\ Len(Pending(vs, k)) = Len(vs)
         /\ Completed(vs, marked, sweep) \in Seq(Version) /\ Len(Completed(vs, marked, sweep)) = Len(vs)
         /\ \A i \in 1..Len(vs) : /\ Pending(vs, k)[i].fed = vs[i].fed
                                  /\ Completed(vs, marked, sweep)[i].fed = vs[i].fed
<1>0. Len(vs) \in Nat /\ \A i \in 1..Len(vs) : vs[i] \in Version
  OBVIOUS
<1>1. \A v \in Version : [v EXCEPT !.status = "pending"] \in Version
                        /\ [v EXCEPT !.status = "pending"].fed = v.fed
  BY DEF Version, Status
<1>2. \A v \in Version :
         LET w == [v EXCEPT !.status = "complete",
                            !.sweep = IF sweep = NoTx THEN @ ELSE sweep]
         IN w \in Version /\ w.fed = v.fed
  BY DEF Version, Status
<1>3. /\ Pending(vs, k) \in [1..Len(vs) -> Version]
      /\ \A i \in 1..Len(vs) : Pending(vs, k)[i].fed = vs[i].fed
  BY <1>0, <1>1 DEF Pending
<1>4. /\ Completed(vs, marked, sweep) \in [1..Len(vs) -> Version]
      /\ \A i \in 1..Len(vs) : Completed(vs, marked, sweep)[i].fed = vs[i].fed
  BY <1>0, <1>2 DEF Completed
<1> QED
  BY <1>0, <1>3, <1>4, VersionList

(* The same federations at the same places: nothing of interest changed.   *)
LEMMA SameFeds ==
  ASSUME NEW vs \in Seq(Version), NEW ws \in Seq(Version), Len(ws) = Len(vs),
         \A i \in 1..Len(vs) : ws[i].fed = vs[i].fed
  PROVE  /\ Feds_of(ws) = Feds_of(vs)
         /\ vs # <<>> => ws # <<>> /\ Latest(ws) = Latest(vs)
<1>1. Feds_of(ws) = Feds_of(vs)
  BY DEF Feds_of
<1>2. vs # <<>> => Len(vs) \in 1..Len(vs) /\ ws # <<>>
  BY EmptySeq
<1> QED
  BY <1>1, <1>2 DEF Latest

-----------------------------------------------------------------------------
(* What steps do to the versions table.                                    *)

(* Federations are never forgotten, and which is the latest of an account  *)
(* that has some changes only by an insert of the tool.                    *)
VersionsGrow == \A a \in Accounts : Feds_of(versions[a]) \subseteq Feds_of(versions'[a])

LatestKept ==
  \A a \in Accounts : versions[a] # <<>> =>
    versions'[a] # <<>> /\ Latest(versions'[a]) = Latest(versions[a])

(* The versions of one account are replaced.                               *)
LEMMA OneAccount ==
  ASSUME versions \in [Accounts -> Seq(Version)], NEW a \in Accounts, NEW ws \in Seq(Version),
         versions' = [versions EXCEPT ![a] = ws], Feds_of(versions[a]) \subseteq Feds_of(ws)
  PROVE  /\ versions' \in [Accounts -> Seq(Version)] /\ versions'[a] = ws /\ VersionsGrow
         /\ \A b \in Accounts \ {a} : versions'[b] = versions[b]
         /\ (versions[a] # <<>> => ws # <<>> /\ Latest(ws) = Latest(versions[a])) => LatestKept
BY DEF VersionsGrow, LatestKept

(* Loading a wallet.                                                       *)
LEMMA Loading ==
  ASSUME versions \in [Accounts -> Seq(Version)], NEW a \in Accounts, LoadWallet(a)
  PROVE  /\ versions' \in [Accounts -> Seq(Version)] /\ VersionsGrow /\ LatestKept
         /\ Bound(a) \in Feds
         /\ ~BootFaults => Bound(a) \in Feds_of(versions'[a])
<1>1. CASE versions[a] = <<>> /\ versions' = [versions EXCEPT ![a] = <<NewVersion(Fed0)>>]
  <2> DEFINE ws == <<NewVersion(Fed0)>>
  <2>1. ws \in Seq(Version) /\ Fed0 \in Feds_of(ws)
    BY FirstRecorded
  <2>2. Feds_of(versions[a]) = {}
    BY <1>1 DEF Feds_of
  <2> HIDE DEF ws
  <2>3. /\ versions' \in [Accounts -> Seq(Version)] /\ versions'[a] = ws /\ VersionsGrow /\ LatestKept
    BY <1>1, <2>1, <2>2, OneAccount DEF ws
  <2> QED
    BY <1>1, <2>1, <2>3, ElementsMigrationAssumption DEF Bound
<1>2. CASE versions[a] # <<>> /\ UNCHANGED versions
  <2>1. Latest(versions[a]) \in Feds_of(versions[a]) /\ Latest(versions[a]) \in Feds
    BY <1>2, LatestRecorded
  <2> QED
    BY <1>2, <2>1 DEF Bound, VersionsGrow, LatestKept
<1>3. CASE BootFaults /\ versions[a] = <<>> /\ UNCHANGED versions
  BY <1>3, ElementsMigrationAssumption DEF Bound, VersionsGrow, LatestKept
<1> QED
  BY <1>1, <1>2, <1>3 DEF LoadWallet

-----------------------------------------------------------------------------
(* Types.                                                                  *)

(* The fields of an invocation.                                            *)
LEMMA LocalFields ==
  ASSUME TypeOK, NEW t \in Tools
  PROVE  /\ tool[t] \in Locals
         /\ tool[t].target \in Feds /\ tool[t].only \in BOOLEAN /\ tool[t].batched \in BOOLEAN
         /\ tool[t].acct \in Accounts /\ tool[t].funded \in BOOLEAN
         /\ tool[t].bound \in [Accounts -> Feds]
         /\ tool[t].dest \in [Accounts -> [fed : Feds, index : Nat]]
         /\ tool[t].coins \in SUBSET Coin /\ tool[t].fee \in SUBSET Coin
         /\ tool[t].change \in SUBSET Coin /\ tool[t].left \in SUBSET Accounts
         /\ tool[t].sweptBy \in [Accounts -> Nat] /\ tool[t].known \in SUBSET Coin
BY DEF TypeOK, Locals

(* The locals of an invocation are replaced.                               *)
LEMMA ToolSet ==
  ASSUME tool \in [Tools -> Locals], NEW t \in Tools, NEW r \in Locals,
         tool' = [tool EXCEPT ![t] = r]
  PROVE  /\ tool' \in [Tools -> Locals] /\ tool'[t] = r
         /\ \A u \in Tools \ {t} : tool'[u] = tool[u]
OBVIOUS

(* An invocation that has ended has locals.                                *)
LEMMA EndedTyped == Ended \in Locals
<1>1. 1 \in Accounts /\ Fed0 \in Feds /\ NoTx \in Nat /\ 0 \in Nat
  BY ElementsMigrationAssumption DEF Accounts, NoTx
<1> DEFINE b == [a \in Accounts |-> Fed0]
           d == [a \in Accounts |-> [fed |-> Fed0, index |-> 0]]
           s == [a \in Accounts |-> NoTx]
<1>2. b \in [Accounts -> Feds] /\ d \in [Accounts -> [fed : Feds, index : Nat]] /\ s \in [Accounts -> Nat]
  BY <1>1
<1> HIDE DEF b, d, s
<1>3. Ended = [pc |-> "idle", target |-> Fed0, only |-> FALSE, batched |-> FALSE,
               acct |-> 1, funded |-> FALSE, bound |-> b, dest |-> d,
               coins |-> {}, fee |-> {}, change |-> {}, left |-> {},
               sweptBy |-> s, known |-> {}]
  BY DEF Ended, b, d, s
<1> QED
  BY <1>1, <1>2, <1>3 DEF Locals, Stage

(* A turn of a loop over the accounts moves the stage and the account.     *)
LEMMA Turned ==
  ASSUME NEW r \in Locals, NEW pc \in Stage, NEW next \in Stage
  PROVE  LET n == Turn(r, pc, next) IN
         /\ n \in Locals
         /\ n.only = r.only /\ n.bound = r.bound /\ n.dest = r.dest
         /\ n.coins = r.coins /\ n.fee = r.fee /\ n.change = r.change
         /\ n.left = r.left /\ n.known = r.known
         /\ IF r.acct = N THEN n.pc = next /\ n.acct = 1
            ELSE n.pc = pc /\ n.acct = r.acct + 1 /\ r.acct < N
<1>1. r.acct \in Accounts /\ 1 \in Accounts /\ (r.acct # N => r.acct + 1 \in Accounts /\ r.acct < N)
  BY ElementsMigrationAssumption DEF Locals, Accounts
<1>2. CASE r.acct = N
  <2> DEFINE n == [r EXCEPT !.pc = next, !.acct = 1]
  <2>1. /\ n \in Locals /\ n.pc = next /\ n.acct = 1
        /\ n.only = r.only /\ n.bound = r.bound /\ n.dest = r.dest
        /\ n.coins = r.coins /\ n.fee = r.fee /\ n.change = r.change
        /\ n.left = r.left /\ n.known = r.known
    BY <1>1 DEF Locals
  <2>2. Turn(r, pc, next) = n
    BY <1>2 DEF Turn
  <2> HIDE DEF n
  <2> QED
    BY <1>2, <2>1, <2>2
<1>3. CASE r.acct # N
  <2> DEFINE n == [r EXCEPT !.pc = pc, !.acct = r.acct + 1]
  <2>1. /\ n \in Locals /\ n.pc = pc /\ n.acct = r.acct + 1
        /\ n.only = r.only /\ n.bound = r.bound /\ n.dest = r.dest
        /\ n.coins = r.coins /\ n.fee = r.fee /\ n.change = r.change
        /\ n.left = r.left /\ n.known = r.known
    BY <1>1, <1>3 DEF Locals
  <2>2. Turn(r, pc, next) = n
    BY <1>3 DEF Turn
  <2> HIDE DEF n
  <2> QED
    BY <1>1, <1>3, <2>1, <2>2
<1> QED
  BY <1>2, <1>3

(* New coins are coins.                                                    *)
LEMMA CoinTyped ==
  ASSUME txs \in Nat, NEW a \in Accounts, NEW f \in Feds
  PROVE  NewCoin(a, f) \in Coin /\ NewCoin(a, f) = [acct |-> a, fed |-> f, tx |-> txs + 1]
BY DEF NewCoin, Coin

(* What a sweep pays, and what it records.                                 *)
LEMMA PaidTyped ==
  ASSUME TypeOK, NEW t \in Tools, NEW S \in SUBSET Accounts
  PROVE  /\ Paid(tool[t], S) \in SUBSET Coin
         /\ RecordSweep(tool[t], S) \in [Accounts -> Nat]
<1>1. txs \in Nat
  BY DEF TypeOK
<1>2. \A a \in Accounts : tool[t].dest[a].fed \in Feds
  BY LocalFields
<1> QED
  BY <1>1, <1>2, CoinTyped, LocalFields DEF Paid, RecordSweep

(* Broadcast spends coins and makes coins.                                 *)
LEMMA BroadcastTyped ==
  ASSUME TypeOK, NEW r, NEW inputs, NEW outputs \in SUBSET Coin, Broadcast(r, inputs, outputs)
  PROVE  utxos' \in SUBSET Coin /\ txs' \in Nat /\ captured' \in SUBSET Coin
BY DEF Broadcast, TypeOK

(* An invocation that has broadcast everything.                            *)
LEMMA SweptTyped ==
  ASSUME TypeOK, NEW t \in Tools, NEW s \in [Accounts -> Nat], NEW P \in SUBSET Coin
  PROVE  LET n == Swept(tool[t], s, P) IN
         /\ n \in Locals /\ n.pc = "mark" /\ n.sweptBy = s /\ n.known = tool[t].known \cup P
<1>1. tool[t].known \cup P \in SUBSET Coin
  BY LocalFields
<1> QED
  BY <1>1, EndedTyped DEF Swept, Locals, Stage

-----------------------------------------------------------------------------
(* The steps of the tool: types, and what each does to its locals.         *)

(* Only tool t moves, and everything else but what is named stays typed.   *)
Moves(t) == /\ tool' \in [Tools -> Locals]
            /\ \A u \in Tools \ {t} : tool'[u] = tool[u]

(* Discovery binds one wallet; the versions only grow by version 0.        *)
LEMMA LoadShape ==
  ASSUME TypeOK, NEW t \in Tools, LoadAccount(t)
  PROVE  /\ TypeOK' /\ Moves(t) /\ VersionsGrow /\ LatestKept
         /\ LET r == tool[t]
                n == tool'[t]
            IN /\ r.pc = "load"
               /\ n.pc = (IF r.acct = N THEN "resolve" ELSE "load")
               /\ n.acct = (IF r.acct = N THEN 1 ELSE r.acct + 1)
               /\ r.acct # N => r.acct < N
               /\ n.bound = [r.bound EXCEPT ![r.acct] = Bound(r.acct)]
               /\ n.known = r.known /\ n.change = r.change
<1> DEFINE r == tool[t]
           a == r.acct
           m == [r EXCEPT !.bound[a] = Bound(a), !.funded = r.funded \/ CapturedOf(a) # {}]
           n == Turn(m, "load", "resolve")
<1>1. /\ versions' \in [Accounts -> Seq(Version)] /\ VersionsGrow /\ LatestKept
      /\ Bound(a) \in Feds
  <2>1. versions \in [Accounts -> Seq(Version)] /\ a \in Accounts
    BY LocalFields DEF TypeOK
  <2> QED
    BY <2>1, Loading DEF LoadAccount
<1>2. [r.bound EXCEPT ![a] = Bound(a)] \in [Accounts -> Feds]
  BY <1>1, LocalFields
<1>3. /\ m \in Locals /\ m.acct = r.acct /\ m.known = r.known /\ m.change = r.change
      /\ m.bound = [r.bound EXCEPT ![a] = Bound(a)]
  BY <1>2, LocalFields DEF Locals
<1>4. tool' = [tool EXCEPT ![t] = n] /\ r.pc = "load"
  BY DEF LoadAccount
<1> HIDE DEF m
<1>5. /\ n \in Locals /\ n.only = m.only /\ n.bound = m.bound /\ n.dest = m.dest
      /\ n.coins = m.coins /\ n.fee = m.fee /\ n.change = m.change
      /\ n.left = m.left /\ n.known = m.known
      /\ IF m.acct = N THEN n.pc = "resolve" /\ n.acct = 1
         ELSE n.pc = "load" /\ n.acct = m.acct + 1 /\ m.acct < N
  BY <1>3, Turned DEF Stage
<1> HIDE DEF n
<1>7. Moves(t) /\ tool'[t] = n
  BY <1>4, <1>5, ToolSet DEF TypeOK, Moves
<1>8. TypeOK'
  BY <1>1, <1>7 DEF LoadAccount, TypeOK, Moves, chainVars, appVars
<1> QED
  BY <1>1, <1>3, <1>4, <1>5, <1>7, <1>8

(* A destination is resolved: with --sweep-only it is the latest version.  *)
LEMMA ResolveShape ==
  ASSUME TypeOK, NEW t \in Tools, ResolveAccount(t)
  PROVE  /\ TypeOK' /\ Moves(t)
         /\ LET r == tool[t]
                n == tool'[t]
                d == NewFed(r, versions[r.acct])
            IN /\ r.pc = "resolve" /\ n.only = r.only
               /\ r.only => versions[r.acct] # <<>> /\ d.fed = Latest(versions[r.acct])
               /\ n.pc = (IF r.acct # N THEN "resolve" ELSE IF r.only THEN "read" ELSE "insert")
               /\ n.acct = (IF r.acct = N THEN 1 ELSE r.acct + 1)
               /\ r.acct # N => r.acct < N
               /\ n.dest = [r.dest EXCEPT ![r.acct] = d]
               /\ n.bound = r.bound /\ n.known = r.known /\ n.change = r.change
<1> DEFINE r == tool[t]
           a == r.acct
           d == NewFed(r, versions[a])
           m == [r EXCEPT !.dest[a] = d]
           next == IF r.only THEN "read" ELSE "insert"
           n == Turn(m, "resolve", next)
<1>0. versions[a] \in Seq(Version) /\ a \in Accounts /\ Len(versions[a]) \in Nat
  BY LocalFields DEF TypeOK
<1>1. (r.only => versions[a] # <<>>) /\ r.pc = "resolve"
  BY DEF ResolveAccount
<1>2. d \in [fed : Feds, index : Nat] /\ (r.only => d.fed = Latest(versions[a]))
  <2>1. CASE r.only
    <3>1. Latest(versions[a]) \in Feds /\ Len(versions[a]) - 1 \in Nat
      BY <1>0, <1>1, <2>1, LatestRecorded
    <3> QED
      BY <2>1, <3>1 DEF NewFed
  <2>2. CASE ~r.only
    BY <1>0, <2>2, LocalFields DEF NewFed
  <2> QED
    BY <2>1, <2>2
<1> HIDE DEF d
<1>3. [r.dest EXCEPT ![a] = d] \in [Accounts -> [fed : Feds, index : Nat]]
  BY <1>2, LocalFields
<1>4. /\ m \in Locals /\ m.acct = r.acct /\ m.known = r.known /\ m.change = r.change
      /\ m.dest = [r.dest EXCEPT ![a] = d] /\ m.bound = r.bound /\ m.only = r.only
  BY <1>3, LocalFields DEF Locals
<1>5. tool' = [tool EXCEPT ![t] = n]
  BY DEF ResolveAccount, d
<1> HIDE DEF m
<1>6. /\ n \in Locals /\ n.only = m.only /\ n.bound = m.bound /\ n.dest = m.dest
      /\ n.coins = m.coins /\ n.fee = m.fee /\ n.change = m.change
      /\ n.left = m.left /\ n.known = m.known
      /\ IF m.acct = N THEN n.pc = next /\ n.acct = 1
         ELSE n.pc = "resolve" /\ n.acct = m.acct + 1 /\ m.acct < N
  <2>1. next \in Stage /\ "resolve" \in Stage
    BY DEF Stage
  <2> HIDE DEF next
  <2> QED
    BY <1>4, <2>1, Turned
<1> HIDE DEF n
<1>8. Moves(t) /\ tool'[t] = n
  BY <1>5, <1>6, ToolSet DEF TypeOK, Moves
<1>9. TypeOK'
  BY <1>8 DEF ResolveAccount, TypeOK, Moves, chainVars, appVars
<1> QED
  BY <1>1, <1>2, <1>4, <1>6, <1>8, <1>9 DEF d

(* Step 1 makes the destination of one account its latest version.         *)
LEMMA InsertShape ==
  ASSUME TypeOK, NEW t \in Tools, InsertVersion(t)
  PROVE  /\ TypeOK' /\ Moves(t) /\ VersionsGrow
         /\ LET r == tool[t]
                n == tool'[t]
                f == r.dest[r.acct].fed
            IN /\ r.pc = "insert" /\ n.pc = "pending" /\ n.acct = r.acct
               /\ n.dest = r.dest /\ n.bound = r.bound /\ n.known = r.known /\ n.change = r.change
               /\ f \in Feds_of(versions'[r.acct])
               /\ versions'[r.acct] # <<>> /\ Latest(versions'[r.acct]) = f
               /\ \A b \in Accounts \ {r.acct} : versions'[b] = versions[b]
<1> DEFINE r == tool[t]
           a == r.acct
           f == r.dest[a].fed
           ws == Append(versions[a], NewVersion(f))
           n == [r EXCEPT !.pc = "pending"]
<1>1. a \in Accounts /\ f \in Feds /\ versions[a] \in Seq(Version)
  BY LocalFields DEF TypeOK
<1>2. /\ ws \in Seq(Version) /\ ws # <<>> /\ Latest(ws) = f
      /\ Feds_of(versions[a]) \subseteq Feds_of(ws) /\ f \in Feds_of(ws)
  BY <1>1, Recorded
<1>3. versions' = [versions EXCEPT ![a] = ws] /\ r.pc = "insert"
  BY DEF InsertVersion
<1> HIDE DEF ws
<1>4. /\ versions' \in [Accounts -> Seq(Version)] /\ versions'[a] = ws /\ VersionsGrow
      /\ \A b \in Accounts \ {a} : versions'[b] = versions[b]
  BY <1>1, <1>2, <1>3, OneAccount DEF TypeOK
<1>5. /\ n \in Locals /\ n.pc = "pending" /\ n.acct = r.acct
      /\ n.dest = r.dest /\ n.bound = r.bound /\ n.known = r.known /\ n.change = r.change
  BY LocalFields DEF Locals, Stage
<1>6. tool' = [tool EXCEPT ![t] = n]
  BY DEF InsertVersion
<1> HIDE DEF n
<1>7. Moves(t) /\ tool'[t] = n
  BY <1>5, <1>6, ToolSet DEF TypeOK, Moves
<1>8. TypeOK'
  BY <1>4, <1>7 DEF InsertVersion, TypeOK, Moves, chainVars, appVars
<1> QED
  BY <1>2, <1>3, <1>4, <1>5, <1>7, <1>8

(* Older versions become pending; no federation and no latest one changes. *)
LEMMA PendingShape ==
  ASSUME TypeOK, NEW t \in Tools, SetPending(t)
  PROVE  /\ TypeOK' /\ Moves(t) /\ VersionsGrow /\ LatestKept
         /\ LET r == tool[t]
                n == tool'[t]
            IN /\ r.pc = "pending"
               /\ n.pc = (IF r.acct = N THEN "read" ELSE "insert")
               /\ n.acct = (IF r.acct = N THEN 1 ELSE r.acct + 1)
               /\ r.acct # N => r.acct < N
               /\ n.dest = r.dest /\ n.bound = r.bound /\ n.known = r.known /\ n.change = r.change
<1> DEFINE r == tool[t]
           a == r.acct
           ws == Pending(versions[a], r.dest[a].index)
           n == Turn(r, "insert", "read")
<1>1. a \in Accounts /\ versions[a] \in Seq(Version) /\ r.dest[a].index \in Nat /\ r \in Locals
  BY LocalFields DEF TypeOK
<1>2. /\ ws \in Seq(Version) /\ Feds_of(ws) = Feds_of(versions[a])
      /\ versions[a] # <<>> => ws # <<>> /\ Latest(ws) = Latest(versions[a])
  <2>1. ws \in Seq(Version) /\ Len(ws) = Len(versions[a])
        /\ \A i \in 1..Len(versions[a]) : ws[i].fed = versions[a][i].fed
    <3>1. 0 \in Nat
      OBVIOUS
    <3> QED
      BY <1>1, <3>1, Restated
  <2> HIDE DEF ws
  <2> QED
    BY <1>1, <2>1, SameFeds
<1>3. /\ versions' \in [Accounts -> Seq(Version)] /\ VersionsGrow /\ LatestKept
  <2>1. CASE versions' = [versions EXCEPT ![a] = ws]
    <3> HIDE DEF ws
    <3> QED
      BY <1>1, <1>2, <2>1, OneAccount DEF TypeOK
  <2>2. CASE UNCHANGED versions
    BY <2>2 DEF TypeOK, VersionsGrow, LatestKept
  <2> QED
    BY <2>1, <2>2 DEF SetPending
<1>4. tool' = [tool EXCEPT ![t] = n] /\ r.pc = "pending"
  BY DEF SetPending
<1>5. /\ n \in Locals /\ n.only = r.only /\ n.bound = r.bound /\ n.dest = r.dest
      /\ n.coins = r.coins /\ n.fee = r.fee /\ n.change = r.change
      /\ n.left = r.left /\ n.known = r.known
      /\ IF r.acct = N THEN n.pc = "read" /\ n.acct = 1
         ELSE n.pc = "insert" /\ n.acct = r.acct + 1 /\ r.acct < N
  <2>1. r \in Locals /\ "insert" \in Stage /\ "read" \in Stage
    BY <1>1 DEF Stage
  <2> HIDE DEF r
  <2> QED
    BY <2>1, Turned
<1> HIDE DEF n
<1>7. Moves(t) /\ tool'[t] = n
  BY <1>4, <1>5, ToolSet DEF TypeOK, Moves
<1>8. TypeOK'
  BY <1>3, <1>7 DEF SetPending, TypeOK, Moves, chainVars, appVars
<1> QED
  BY <1>3, <1>4, <1>5, <1>7, <1>8

(* Step 2 reads the captured coins of one account.                         *)
LEMMA ReadShape ==
  ASSUME TypeOK, NEW t \in Tools, ReadCoins(t)
  PROVE  /\ TypeOK' /\ Moves(t)
         /\ LET r == tool[t]
                n == tool'[t]
                a == r.acct
            IN /\ r.pc = "read"
               /\ n.pc = (IF r.acct = N THEN "sweep" ELSE "read")
               /\ n.acct = (IF r.acct = N THEN 1 ELSE r.acct + 1)
               /\ r.acct # N => r.acct < N
               /\ n.dest = r.dest /\ n.bound = r.bound /\ n.change = r.change
               /\ n.known = (IF a = 1 THEN captured ELSE r.known)
               /\ n.fee = (IF a = FeeAccount THEN CapturedOf(a) ELSE r.fee)
               /\ n.coins = (IF a = FeeAccount THEN r.coins ELSE r.coins \cup CapturedOf(a))
               /\ n.left = (IF a = FeeAccount \/ CapturedOf(a) = {} THEN r.left ELSE r.left \cup {a})
<1> DEFINE r == tool[t]
           a == r.acct
           coins == IF a = FeeAccount THEN r.coins ELSE r.coins \cup CapturedOf(a)
           fee == IF a = FeeAccount THEN CapturedOf(a) ELSE r.fee
           left == IF a = FeeAccount \/ CapturedOf(a) = {} THEN r.left ELSE r.left \cup {a}
           known == IF a = 1 THEN captured ELSE r.known
           m == [r EXCEPT !.coins = coins, !.fee = fee, !.left = left, !.known = known]
           n == Turn(m, "read", "sweep")
<1>1. /\ coins \in SUBSET Coin /\ fee \in SUBSET Coin /\ left \in SUBSET Accounts
      /\ known \in SUBSET Coin
  BY LocalFields DEF TypeOK, CapturedOf
<1>2. tool' = [tool EXCEPT ![t] = n] /\ r.pc = "read"
  BY DEF ReadCoins
<1> HIDE DEF coins, fee, left, known
<1>3. /\ m \in Locals /\ m.acct = r.acct /\ m.dest = r.dest /\ m.bound = r.bound
      /\ m.change = r.change /\ m.coins = coins /\ m.fee = fee /\ m.left = left /\ m.known = known
  BY <1>1, LocalFields DEF Locals
<1> HIDE DEF m
<1>4. /\ n \in Locals /\ n.only = m.only /\ n.bound = m.bound /\ n.dest = m.dest
      /\ n.coins = m.coins /\ n.fee = m.fee /\ n.change = m.change
      /\ n.left = m.left /\ n.known = m.known
      /\ IF m.acct = N THEN n.pc = "sweep" /\ n.acct = 1
         ELSE n.pc = "read" /\ n.acct = m.acct + 1 /\ m.acct < N
  BY <1>3, Turned DEF Stage
<1> HIDE DEF n
<1>6. Moves(t) /\ tool'[t] = n
  BY <1>2, <1>4, ToolSet DEF TypeOK, Moves
<1>7. TypeOK'
  BY <1>6 DEF ReadCoins, TypeOK, Moves, chainVars, appVars
<1> QED
  BY <1>2, <1>3, <1>4, <1>6, <1>7 DEF coins, fee, left, known

(* A batched transaction: what it spends, what it pays, what stays planned. *)
LEMMA CustomersShape ==
  ASSUME TypeOK, NEW t \in Tools, NEW S \in SUBSET Accounts,
         NEW seed \in tool[t].fee \cup tool[t].change, SweepCustomers(t, S, seed)
  PROVE  /\ TypeOK' /\ Moves(t) /\ versions' = versions
         /\ LET r == tool[t]
                n == tool'[t]
                change == NewCoin(FeeAccount, r.bound[FeeAccount])
                moved == {c \in r.coins : c.acct \in S}
                feeIn == IF r.change = {} THEN {seed} ELSE r.change
                made == Paid(r, S) \cup {change}
            IN /\ r.pc = "sweep" /\ n.pc = "sweep" /\ r.batched /\ n.batched
               /\ n.dest = r.dest /\ n.bound = r.bound /\ n.coins = r.coins
               /\ n.left = r.left \ S /\ n.fee = r.fee \ feeIn /\ n.change = {change}
               /\ n.known = r.known \cup made
               /\ S \subseteq r.left
               /\ utxos' = (utxos \ (moved \cup feeIn)) \cup made /\ txs' = txs + 1
<1> DEFINE r == tool[t]
           change == NewCoin(FeeAccount, r.bound[FeeAccount])
           moved == {c \in r.coins : c.acct \in S}
           feeIn == IF r.change = {} THEN {seed} ELSE r.change
           made == Paid(r, S) \cup {change}
           sb == RecordSweep(r, S)
           n == [r EXCEPT !.left = @ \ S, !.fee = @ \ feeIn, !.change = {change},
                          !.sweptBy = sb, !.known = @ \cup made]
<1>1. change \in Coin /\ made \in SUBSET Coin /\ sb \in [Accounts -> Nat]
  BY PaidTyped, CoinTyped, LocalFields, ElementsMigrationAssumption DEF TypeOK
<1>2. /\ r.pc = "sweep" /\ r.batched /\ S \subseteq r.left
      /\ Broadcast(r, moved \cup feeIn, made) /\ tool' = [tool EXCEPT ![t] = n]
  BY DEF SweepCustomers
<1> HIDE DEF change, made, sb, feeIn
<1>3. /\ n \in Locals /\ n.pc = r.pc /\ n.batched = r.batched
      /\ n.dest = r.dest /\ n.bound = r.bound /\ n.coins = r.coins
      /\ n.left = r.left \ S /\ n.fee = r.fee \ feeIn /\ n.change = {change}
      /\ n.known = r.known \cup made
  BY <1>1, LocalFields DEF Locals
<1> HIDE DEF n
<1>4. Moves(t) /\ tool'[t] = n
  BY <1>2, <1>3, ToolSet DEF TypeOK, Moves
<1>5. utxos' \in SUBSET Coin /\ txs' \in Nat /\ captured' \in SUBSET Coin
  BY <1>1, <1>2, BroadcastTyped
<1>6. versions' = versions /\ UNCHANGED <<handed, deposits, runs>>
  BY DEF SweepCustomers, appVars
<1>7. TypeOK'
  BY <1>4, <1>5, <1>6 DEF TypeOK, Moves
<1>8. utxos' = (utxos \ (moved \cup feeIn)) \cup made /\ txs' = txs + 1
  BY <1>2 DEF Broadcast
<1> QED
  BY <1>2, <1>3, <1>4, <1>6, <1>7, <1>8 DEF change, made, feeIn

(* The last transaction of either strategy spends all that is planned.     *)
LEMMA FinalShape ==
  ASSUME TypeOK, NEW t \in Tools, SweepFeeAccount(t) \/ SweepAll(t)
  PROVE  /\ TypeOK' /\ Moves(t) /\ versions' = versions
         /\ tool[t].pc = "sweep" /\ tool'[t].pc = "mark" /\ tool'[t].change = {}
         /\ \E inputs \in SUBSET Coin, S \in SUBSET Accounts :
              /\ tool'[t].known = tool[t].known \cup Paid(tool[t], S)
              /\ utxos' = (utxos \ inputs) \cup Paid(tool[t], S) /\ txs' = txs + 1
              /\ tool[t].fee \subseteq inputs
              /\ \A c \in tool[t].coins : c.acct \in tool[t].left => c \in inputs
              /\ tool[t].batched => tool[t].change \subseteq inputs
<1> DEFINE r == tool[t]
<1>0. FeeAccount \in Accounts /\ r.left \in SUBSET Accounts
  BY LocalFields, ElementsMigrationAssumption
<1>1. PICK S \in SUBSET Accounts, inputs \in SUBSET Coin, sb \in [Accounts -> Nat] :
        /\ Broadcast(r, inputs, Paid(r, S))
        /\ tool' = [tool EXCEPT ![t] = Swept(r, sb, Paid(r, S))]
        /\ r.fee \subseteq inputs
        /\ \A c \in r.coins : c.acct \in r.left => c \in inputs
        /\ r.batched => r.change \subseteq inputs
  <2>1. CASE SweepFeeAccount(t)
    <3>1. {FeeAccount} \in SUBSET Accounts /\ r.fee \cup r.change \in SUBSET Coin
          /\ r.sweptBy \in [Accounts -> Nat]
      BY <1>0, LocalFields
    <3>2. /\ Broadcast(r, r.fee \cup r.change, Paid(r, {FeeAccount})) /\ r.left = {}
          /\ tool' = [tool EXCEPT ![t] = Swept(r, r.sweptBy, Paid(r, {FeeAccount}))]
      BY <2>1 DEF SweepFeeAccount
    <3> QED
      BY <3>1, <3>2
  <2>2. CASE SweepAll(t)
    <3>1. r.left \cup {FeeAccount} \in SUBSET Accounts /\ r.coins \cup r.fee \in SUBSET Coin
          /\ RecordSweep(r, r.left) \in [Accounts -> Nat]
      BY <1>0, LocalFields, PaidTyped
    <3>2. /\ Broadcast(r, r.coins \cup r.fee, Paid(r, r.left \cup {FeeAccount})) /\ ~r.batched
          /\ tool' = [tool EXCEPT ![t] =
               Swept(r, RecordSweep(r, r.left), Paid(r, r.left \cup {FeeAccount}))]
      BY <2>2 DEF SweepAll
    <3> QED
      BY <3>1, <3>2
  <2> QED
    BY <2>1, <2>2
<1>2. Paid(r, S) \in SUBSET Coin
  BY PaidTyped
<1> DEFINE n == Swept(r, sb, Paid(r, S))
<1>3. n \in Locals /\ n.pc = "mark" /\ n.known = r.known \cup Paid(r, S)
  BY <1>1, <1>2, SweptTyped
<1>4. n.change = {}
  BY EndedTyped DEF Swept, Ended
<1> HIDE DEF n
<1>5. Moves(t) /\ tool'[t] = n
  BY <1>1, <1>3, ToolSet DEF TypeOK, Moves, n
<1>6. utxos' \in SUBSET Coin /\ txs' \in Nat /\ captured' \in SUBSET Coin
  BY <1>1, <1>2, BroadcastTyped
<1>7. versions' = versions /\ UNCHANGED <<handed, deposits, runs>> /\ r.pc = "sweep"
  BY DEF SweepFeeAccount, SweepAll, appVars
<1>8. TypeOK'
  BY <1>5, <1>6, <1>7 DEF TypeOK, Moves
<1>9. utxos' = (utxos \ inputs) \cup Paid(r, S) /\ txs' = txs + 1
  BY <1>1 DEF Broadcast
<1> QED
  BY <1>1, <1>3, <1>4, <1>5, <1>7, <1>8, <1>9

(* Marking changes statuses only.                                          *)
LEMMA MarkShape ==
  ASSUME TypeOK, NEW t \in Tools, MarkAccount(t)
  PROVE  /\ TypeOK' /\ Moves(t) /\ VersionsGrow /\ LatestKept
         /\ tool[t].pc = "mark" /\ tool'[t].pc \in {"idle", "mark"} /\ tool'[t].known \subseteq tool[t].known
         /\ tool'[t].change \subseteq tool[t].change
<1> DEFINE r == tool[t]
           a == r.acct
<1>0. /\ a \in Accounts /\ versions[a] \in Seq(Version) /\ r.sweptBy[a] \in Nat /\ r \in Locals
      /\ r.pc = "mark"
  BY LocalFields DEF TypeOK, MarkAccount
<1>1. PICK marked : versions' = [versions EXCEPT ![a] = Completed(@, marked, r.sweptBy[a])]
  BY DEF MarkAccount
<1> DEFINE ws == Completed(versions[a], marked, r.sweptBy[a])
<1>2. /\ ws \in Seq(Version) /\ Feds_of(ws) = Feds_of(versions[a])
      /\ versions[a] # <<>> => ws # <<>> /\ Latest(ws) = Latest(versions[a])
  <2>1. ws \in Seq(Version) /\ Len(ws) = Len(versions[a])
        /\ \A i \in 1..Len(versions[a]) : ws[i].fed = versions[a][i].fed
    <3> DEFINE vs == versions[a]
               sw == r.sweptBy[a]
    <3>1. vs \in Seq(Version) /\ sw \in Nat /\ 0 \in Nat
      BY <1>0
    <3> HIDE DEF vs, sw
    <3>2. LET w == Completed(vs, marked, sw) IN
          w \in Seq(Version) /\ Len(w) = Len(vs) /\ \A i \in 1..Len(vs) : w[i].fed = vs[i].fed
      BY <3>1, Restated
    <3> QED
      BY <3>2 DEF vs, sw
  <2> HIDE DEF ws
  <2> QED
    BY <1>0, <2>1, SameFeds
<1>3. versions' = [versions EXCEPT ![a] = ws]
  BY <1>1
<1> HIDE DEF ws
<1>4. versions' \in [Accounts -> Seq(Version)] /\ VersionsGrow /\ LatestKept
  BY <1>0, <1>2, <1>3, OneAccount DEF TypeOK
<1>5. PICK n \in Locals : /\ tool' = [tool EXCEPT ![t] = n]
                          /\ n.pc \in {"idle", "mark"} /\ n.known \subseteq r.known
                          /\ n.change \subseteq r.change
  <2>1. CASE a = N
    <3>1. Ended.pc = "idle" /\ Ended.known = {} /\ Ended.change = {}
      BY DEF Ended
    <3> QED
      BY <2>1, <3>1, EndedTyped DEF MarkAccount
  <2>2. CASE a # N
    <3> DEFINE n == [r EXCEPT !.acct = a + 1]
    <3>1. a + 1 \in Accounts
      BY <1>0, <2>2, ElementsMigrationAssumption DEF Accounts
    <3>2. n \in Locals /\ n.pc = r.pc /\ n.known = r.known /\ n.change = r.change
      BY <1>0, <3>1 DEF Locals
    <3>3. tool' = [tool EXCEPT ![t] = n]
      BY <2>2 DEF MarkAccount
    <3> HIDE DEF n
    <3> QED
      BY <1>0, <3>2, <3>3
  <2> QED
    BY <2>1, <2>2
<1>6. Moves(t) /\ tool'[t] = n
  BY <1>5, ToolSet DEF TypeOK, Moves
<1>7. TypeOK'
  BY <1>4, <1>6 DEF MarkAccount, TypeOK, Moves, chainVars, appVars
<1> QED
  BY <1>0, <1>4, <1>5, <1>6, <1>7

(* A run starts, stops or ends: its locals are the first ones.             *)
LEMMA OtherShape ==
  ASSUME TypeOK, NEW t \in Tools,
         \/ EndRun(t) \/ MismatchedInput(t)
         \/ \E f \in Feds, mode \in Modes : StartRun(t, f, mode)
  PROVE  /\ TypeOK' /\ Moves(t) /\ UNCHANGED <<versions, utxos, captured, txs, handed>>
         /\ tool'[t].pc \in {"idle", "mismatch", "load"}
         /\ tool'[t].known = {} /\ tool'[t].change = {} /\ tool'[t].acct = 1
<1>0. Ended \in Locals /\ Ended.pc = "idle" /\ Ended.known = {} /\ Ended.change = {} /\ Ended.acct = 1
  BY EndedTyped DEF Ended
<1>1. PICK n \in Locals : /\ tool' = [tool EXCEPT ![t] = n]
                          /\ n.pc \in {"idle", "mismatch", "load"}
                          /\ n.known = {} /\ n.change = {} /\ n.acct = 1
                          /\ runs' \in 0..MaxRuns
  <2>1. CASE EndRun(t)
    BY <1>0, <2>1 DEF EndRun, TypeOK
  <2>2. CASE MismatchedInput(t)
    <3> DEFINE n == [Ended EXCEPT !.pc = "mismatch", !.only = tool[t].only]
    <3>1. n \in Locals /\ n.pc = "mismatch" /\ n.known = {} /\ n.change = {} /\ n.acct = 1
      BY <1>0, LocalFields DEF Locals, Stage
    <3>2. tool' = [tool EXCEPT ![t] = n] /\ runs' = runs
      BY <2>2 DEF MismatchedInput
    <3> HIDE DEF n
    <3> QED
      BY <3>1, <3>2 DEF TypeOK
  <2>3. ASSUME NEW f \in Feds, NEW mode \in Modes, StartRun(t, f, mode)
        PROVE  \E n \in Locals : /\ tool' = [tool EXCEPT ![t] = n]
                                 /\ n.pc \in {"idle", "mismatch", "load"}
                                 /\ n.known = {} /\ n.change = {} /\ n.acct = 1
                                 /\ runs' \in 0..MaxRuns
    <3> DEFINE n == [Ended EXCEPT !.pc = "load", !.target = f, !.only = mode.only,
                                  !.batched = mode.batched]
    <3>1. mode.only \in BOOLEAN /\ mode.batched \in BOOLEAN
      BY ElementsMigrationAssumption
    <3>2. n \in Locals /\ n.pc = "load" /\ n.known = {} /\ n.change = {} /\ n.acct = 1
      BY <1>0, <3>1 DEF Locals, Stage
    <3>3. tool' = [tool EXCEPT ![t] = n]
      BY <2>3 DEF StartRun
    <3>4. runs' \in 0..MaxRuns
      <4>1. runs \in 0..MaxRuns /\ MaxRuns \in Nat
        BY ElementsMigrationAssumption DEF TypeOK
      <4>2. runs < MaxRuns /\ runs' = runs + 1
        BY <2>3 DEF StartRun
      <4> QED
        BY <4>1, <4>2
    <3> HIDE DEF n
    <3> QED
      BY <3>2, <3>3, <3>4
  <2> QED
    BY <2>1, <2>2, <2>3
<1>2. Moves(t) /\ tool'[t] = n
  BY <1>1, ToolSet DEF TypeOK, Moves
<1>3. UNCHANGED <<versions, utxos, captured, txs, handed, deposits>>
  BY DEF EndRun, MismatchedInput, StartRun, chainVars, appVars
<1>4. TypeOK'
  BY <1>1, <1>2, <1>3 DEF TypeOK, Moves
<1> QED
  BY <1>1, <1>2, <1>3, <1>4

(* The application and the ingestion task leave the tool alone.            *)
AppStep ==
  \/ \E a \in Accounts : AppLoad(a)
  \/ \E a \in Accounts, f \in Feds : Deposit(a, f) \/ AppSend(a, f)
  \/ \E c \in utxos \ captured : IngestPaid(c)
  \/ \E c \in captured \ utxos : IngestSpent(c)

(* They are typed steps, and no step of theirs forgets a federation or     *)
(* changes which one is the latest.                                        *)
LEMMA AppShape ==
  ASSUME TypeOK, AppStep
  PROVE  TypeOK' /\ tool' = tool /\ runs' = runs /\ VersionsGrow /\ LatestKept
<1>1. ASSUME NEW a \in Accounts, AppLoad(a)
      PROVE  TypeOK' /\ tool' = tool /\ runs' = runs /\ VersionsGrow /\ LatestKept
  <2>1. /\ versions' \in [Accounts -> Seq(Version)] /\ VersionsGrow /\ LatestKept
        /\ Bound(a) \in Feds
    BY <1>1, Loading DEF AppLoad, TypeOK
  <2>2. handed' \in [Accounts -> SUBSET Feds]
    BY <1>1, <2>1 DEF AppLoad, TypeOK
  <2> QED
    BY <1>1, <2>1, <2>2 DEF AppLoad, TypeOK, chainVars
<1>2. ASSUME NEW a \in Accounts, NEW f \in Feds, Deposit(a, f)
      PROVE  TypeOK' /\ tool' = tool /\ runs' = runs /\ versions' = versions
  <2>1. NewCoin(a, f) \in Coin /\ txs + 1 \in Nat
    BY CoinTyped DEF TypeOK
  <2>2. deposits' \in 0..MaxDeposits
    <3>1. deposits \in 0..MaxDeposits /\ MaxDeposits \in Nat
      BY ElementsMigrationAssumption DEF TypeOK
    <3>2. deposits < MaxDeposits /\ deposits' = deposits + 1
      BY <1>2 DEF Deposit
    <3> QED
      BY <3>1, <3>2
  <2>3. utxos' \subseteq Coin /\ txs' \in Nat
    BY <1>2, <2>1 DEF Deposit, TypeOK
  <2> QED
    BY <1>2, <2>2, <2>3 DEF Deposit, TypeOK
<1>3. ASSUME NEW a \in Accounts, NEW f \in Feds, AppSend(a, f)
      PROVE  TypeOK' /\ tool' = tool /\ runs' = runs /\ versions' = versions
  BY <1>3 DEF AppSend, TypeOK, appVars
<1>4. ASSUME NEW c \in utxos \ captured, IngestPaid(c)
      PROVE  TypeOK' /\ tool' = tool /\ runs' = runs /\ versions' = versions
  BY <1>4 DEF IngestPaid, TypeOK, appVars
<1>5. ASSUME NEW c \in captured \ utxos, IngestSpent(c)
      PROVE  TypeOK' /\ tool' = tool /\ runs' = runs /\ versions' = versions
  BY <1>5 DEF IngestSpent, TypeOK, appVars
<1>6. versions' = versions => VersionsGrow /\ LatestKept
  BY DEF VersionsGrow, LatestKept
<1> QED
  BY <1>1, <1>2, <1>3, <1>4, <1>5, <1>6 DEF AppStep

(* A step is one of the application, one of an invocation, or none.        *)
LEMMA Steps ==
  ASSUME [Next]_vars
  PROVE  \/ AppStep
         \/ \E t \in Tools :
              \/ LoadAccount(t) \/ ResolveAccount(t) \/ InsertVersion(t)
              \/ SetPending(t) \/ ReadCoins(t)
              \/ \E S \in SUBSET Accounts, seed \in tool[t].fee \cup tool[t].change :
                   SweepCustomers(t, S, seed)
              \/ SweepFeeAccount(t) \/ SweepAll(t) \/ MarkAccount(t)
              \/ EndRun(t) \/ MismatchedInput(t)
              \/ \E f \in Feds, mode \in Modes : StartRun(t, f, mode)
         \/ UNCHANGED vars
BY DEF Next, ToolStep, AppStep

(* Every step keeps the types.                                             *)
LEMMA TypeStep == TypeOK /\ [Next]_vars => TypeOK'
<1> SUFFICES ASSUME TypeOK, [Next]_vars PROVE TypeOK'
  OBVIOUS
<1>1. CASE AppStep
  BY <1>1, AppShape
<1>2. CASE UNCHANGED vars
  BY <1>2 DEF vars, chainVars, appVars, TypeOK
<1>3. ASSUME NEW t \in Tools,
             \/ LoadAccount(t) \/ ResolveAccount(t) \/ InsertVersion(t)
             \/ SetPending(t) \/ ReadCoins(t)
             \/ \E S \in SUBSET Accounts, seed \in tool[t].fee \cup tool[t].change :
                  SweepCustomers(t, S, seed)
             \/ SweepFeeAccount(t) \/ SweepAll(t) \/ MarkAccount(t)
             \/ EndRun(t) \/ MismatchedInput(t)
             \/ \E f \in Feds, mode \in Modes : StartRun(t, f, mode)
      PROVE  TypeOK'
  <2>1. LoadAccount(t) => TypeOK'
    BY LoadShape
  <2>2. ResolveAccount(t) => TypeOK'
    BY ResolveShape
  <2>3. InsertVersion(t) => TypeOK'
    BY InsertShape
  <2>4. SetPending(t) => TypeOK'
    BY PendingShape
  <2>5. ReadCoins(t) => TypeOK'
    BY ReadShape
  <2>6. (\E S \in SUBSET Accounts, seed \in tool[t].fee \cup tool[t].change :
           SweepCustomers(t, S, seed)) => TypeOK'
    BY CustomersShape
  <2>7. SweepFeeAccount(t) \/ SweepAll(t) => TypeOK'
    BY FinalShape
  <2>8. MarkAccount(t) => TypeOK'
    BY MarkShape
  <2>9. EndRun(t) \/ MismatchedInput(t)
        \/ (\E f \in Feds, mode \in Modes : StartRun(t, f, mode)) => TypeOK'
    BY OtherShape
  <2> QED
    BY <1>3, <2>1, <2>2, <2>3, <2>4, <2>5, <2>6, <2>7, <2>8, <2>9
<1> QED
  BY <1>1, <1>2, <1>3, Steps

(* The first state is typed.                                               *)
LEMMA TypeInit == Init => TypeOK
<1> SUFFICES ASSUME Init PROVE TypeOK
  OBVIOUS
<1>1. versions \in [Accounts -> Seq(Version)] /\ handed \in [Accounts -> SUBSET Feds]
  BY DEF Init
<1>2. tool \in [Tools -> Locals]
  BY EndedTyped DEF Init
<1>3. runs \in 0..MaxRuns /\ deposits \in 0..MaxDeposits
  BY ElementsMigrationAssumption DEF Init
<1> QED
  BY <1>1, <1>2, <1>3 DEF Init, TypeOK

(* The type invariant, whatever overlaps and whichever inserts and updates *)
(* of the tool and of build_user_wallet fail.                              *)
THEOREM ElementsTypeCorrect == Spec => []TypeOK
<1> QED
  BY TypeInit, TypeStep, PTL DEF Spec

-----------------------------------------------------------------------------
(* The invariants.                                                         *)

(* The accounts whose wallet an invocation has loaded, and those whose     *)
(* destination it has found or made recorded.                              *)
Bounded(r) ==
  {a \in Accounts : \/ r.pc = "load" /\ a < r.acct
                    \/ r.pc \in {"resolve", "insert", "pending", "read", "sweep"}}

Resolved(r) ==
  {a \in Accounts : \/ r.pc = "resolve" /\ r.only /\ a < r.acct
                    \/ r.pc = "insert" /\ a < r.acct
                    \/ r.pc = "pending" /\ a <= r.acct
                    \/ r.pc \in {"read", "sweep"}}

(* Change goes to a federation a wallet was bound to, payments go to the   *)
(* destinations: both are recorded before the first sweep.                 *)
TrackInv ==
  /\ ~BootFaults
  /\ TypeOK
  /\ FundsTracked
  /\ \A a \in Accounts : handed[a] \subseteq Feds_of(versions[a])
  /\ \A t \in Tools :
       /\ \A a \in Bounded(tool[t]) : tool[t].bound[a] \in Feds_of(versions[a])
       /\ \A a \in Resolved(tool[t]) : tool[t].dest[a].fed \in Feds_of(versions[a])

(* What holds of the invocations that did not move, because no federation  *)
(* is forgotten.                                                           *)
LEMMA TrackOthers ==
  ASSUME TrackInv, NEW t \in Tools, TypeOK', Moves(t), VersionsGrow,
         handed' = handed, FundsTracked',
         \A a \in Bounded(tool'[t]) : tool'[t].bound[a] \in Feds_of(versions'[a]),
         \A a \in Resolved(tool'[t]) : tool'[t].dest[a].fed \in Feds_of(versions'[a])
  PROVE  TrackInv'
<1>1. \A a \in Accounts : handed'[a] \subseteq Feds_of(versions'[a])
  BY DEF TrackInv, VersionsGrow
<1>2. ASSUME NEW u \in Tools
      PROVE  /\ \A a \in Bounded(tool'[u]) : tool'[u].bound[a] \in Feds_of(versions'[a])
             /\ \A a \in Resolved(tool'[u]) : tool'[u].dest[a].fed \in Feds_of(versions'[a])
  <2>1. CASE u = t
    BY <2>1
  <2>2. CASE u # t
    <3>1. tool'[u] = tool[u]
      BY <2>2 DEF Moves
    <3>2. Bounded(tool[u]) \subseteq Accounts /\ Resolved(tool[u]) \subseteq Accounts
      BY DEF Bounded, Resolved
    <3> QED
      BY <3>1, <3>2 DEF TrackInv, VersionsGrow
  <2> QED
    BY <2>1, <2>2
<1>3. Bounded(tool[t])' = Bounded(tool'[t]) /\ Resolved(tool[t])' = Resolved(tool'[t])
  BY DEF Bounded, Resolved
<1>4. ~BootFaults
  BY DEF TrackInv
<1> QED
  BY <1>1, <1>2, <1>4 DEF TrackInv, Bounded, Resolved

(* Coins that stay where they are stay tracked.                            *)
LEMMA TrackedStay ==
  ASSUME TypeOK, FundsTracked, VersionsGrow
  PROVE  \A c \in utxos : c.fed \in Feds_of(versions'[c.acct])
BY DEF TypeOK, FundsTracked, VersionsGrow, Coin

(* Coins paid to destinations that are recorded are tracked.               *)
LEMMA PaidTracked ==
  ASSUME TrackInv, NEW t \in Tools, tool[t].pc = "sweep", NEW S \in SUBSET Accounts
  PROVE  /\ \A c \in Paid(tool[t], S) : c.fed \in Feds_of(versions[c.acct])
         /\ LET c == NewCoin(FeeAccount, tool[t].bound[FeeAccount])
            IN  c.fed \in Feds_of(versions[c.acct])
<1>1. Bounded(tool[t]) = Accounts /\ Resolved(tool[t]) = Accounts
  BY DEF Bounded, Resolved
<1>2. \A a \in Accounts : /\ tool[t].bound[a] \in Feds_of(versions[a])
                          /\ tool[t].dest[a].fed \in Feds_of(versions[a])
  BY <1>1 DEF TrackInv
<1> QED
  BY <1>2, ElementsMigrationAssumption DEF Paid, NewCoin

(* No step loses track: a destination is recorded before it is paid, also  *)
(* when it was resolved long before.                                       *)
LEMMA TrackStep == TrackInv /\ [Next]_vars => TrackInv'
<1> SUFFICES ASSUME TrackInv, [Next]_vars PROVE TrackInv'
  OBVIOUS
<1>0. TypeOK /\ FundsTracked /\ TypeOK' /\ ~BootFaults
  BY TypeStep DEF TrackInv
<1>00. versions' = versions => VersionsGrow
  BY DEF VersionsGrow
<1>1. CASE AppStep
  <2>1. tool' = tool /\ VersionsGrow
    BY <1>0, <1>1, AppShape
  <2>2. \A c \in utxos : c.fed \in Feds_of(versions'[c.acct])
    BY <1>0, <2>1, TrackedStay
  <2>3. FundsTracked' /\ \A a \in Accounts : handed'[a] \subseteq Feds_of(versions'[a])
    <3>0. \A a \in Accounts : handed[a] \subseteq Feds_of(versions'[a])
      BY <2>1 DEF TrackInv, VersionsGrow
    <3>1. ASSUME NEW a \in Accounts, AppLoad(a)
          PROVE  utxos' = utxos /\ \A b \in Accounts : handed'[b] \subseteq Feds_of(versions'[b])
      <4>1. Bound(a) \in Feds_of(versions'[a])
        BY <1>0, <3>1, Loading DEF AppLoad, TypeOK
      <4> QED
        BY <1>0, <3>0, <3>1, <4>1 DEF AppLoad, TypeOK, chainVars
    <3>2. ASSUME NEW a \in Accounts, NEW f \in Feds, Deposit(a, f)
          PROVE  FundsTracked' /\ handed' = handed
      <4>1. NewCoin(a, f).fed = f /\ NewCoin(a, f).acct = a /\ f \in Feds_of(versions'[a])
        BY <3>0, <3>2 DEF NewCoin, Deposit
      <4> QED
        BY <2>2, <3>2, <4>1 DEF Deposit, FundsTracked
    <3>3. ASSUME NEW a \in Accounts, NEW f \in Feds, AppSend(a, f)
          PROVE  FundsTracked' /\ handed' = handed
      BY <2>2, <3>3 DEF AppSend, FundsTracked, appVars
    <3>4. ASSUME NEW c \in utxos \ captured, IngestPaid(c)
          PROVE  utxos' = utxos /\ handed' = handed
      BY <3>4 DEF IngestPaid, appVars
    <3>5. ASSUME NEW c \in captured \ utxos, IngestSpent(c)
          PROVE  utxos' = utxos /\ handed' = handed
      BY <3>5 DEF IngestSpent, appVars
    <3>6. utxos' = utxos => FundsTracked'
      BY <2>2 DEF FundsTracked
    <3> QED
      BY <1>1, <3>0, <3>1, <3>2, <3>3, <3>4, <3>5, <3>6 DEF AppStep
  <2>4. ASSUME NEW u \in Tools
        PROVE  /\ \A a \in Bounded(tool[u]) : tool[u].bound[a] \in Feds_of(versions'[a])
               /\ \A a \in Resolved(tool[u]) : tool[u].dest[a].fed \in Feds_of(versions'[a])
    <3>1. Bounded(tool[u]) \subseteq Accounts /\ Resolved(tool[u]) \subseteq Accounts
      BY DEF Bounded, Resolved
    <3> QED
      BY <2>1, <3>1 DEF TrackInv, VersionsGrow
  <2> QED
    BY <1>0, <2>1, <2>3, <2>4 DEF TrackInv, Bounded, Resolved
<1>2. CASE UNCHANGED vars
  BY <1>2 DEF vars, chainVars, appVars, TrackInv, TypeOK, FundsTracked, Bounded, Resolved
<1>3. ASSUME NEW t \in Tools, LoadAccount(t) PROVE TrackInv'
  <2> DEFINE r == tool[t]
             n == tool'[t]
  <2>1. /\ Moves(t) /\ VersionsGrow /\ r.pc = "load"
        /\ n.pc = (IF r.acct = N THEN "resolve" ELSE "load")
        /\ n.acct = (IF r.acct = N THEN 1 ELSE r.acct + 1)
        /\ n.bound = [r.bound EXCEPT ![r.acct] = Bound(r.acct)]
    BY <1>0, <1>3, LoadShape
  <2>2. r.acct \in Accounts /\ r.bound \in [Accounts -> Feds]
    BY <1>0, LocalFields
  <2>3. Bound(r.acct) \in Feds_of(versions'[r.acct])
    BY <1>0, <1>3, <2>2, Loading DEF LoadAccount, TypeOK
  <2>4. utxos' = utxos /\ handed' = handed /\ FundsTracked'
    <3>1. utxos' = utxos /\ handed' = handed
      BY <1>3 DEF LoadAccount, chainVars, appVars
    <3> QED
      BY <1>0, <2>1, <3>1, TrackedStay DEF FundsTracked
  <2>5. ASSUME NEW a \in Bounded(n) PROVE n.bound[a] \in Feds_of(versions'[a])
    <3>1. a \in Accounts /\ (a = r.acct \/ a < r.acct)
      BY <2>1, <2>2, <2>5, ElementsMigrationAssumption DEF Bounded, Accounts
    <3>2. a # r.acct => a \in Bounded(r) /\ n.bound[a] = r.bound[a]
      BY <2>1, <2>2, <3>1 DEF Bounded, Accounts
    <3> QED
      BY <2>1, <2>2, <2>3, <3>1, <3>2 DEF TrackInv, VersionsGrow
  <2>6. Resolved(n) = {}
    <3>1. n.pc = "resolve" => n.acct = 1
      BY <2>1
    <3> QED
      BY <2>1, <3>1 DEF Resolved, Accounts
  <2> QED
    BY <1>0, <2>1, <2>4, <2>5, <2>6, TrackOthers
<1>4. ASSUME NEW t \in Tools, ResolveAccount(t) PROVE TrackInv'
  <2> DEFINE r == tool[t]
             n == tool'[t]
             d == NewFed(r, versions[r.acct])
  <2>1. /\ Moves(t) /\ r.pc = "resolve" /\ n.only = r.only
        /\ r.only => versions[r.acct] # <<>> /\ d.fed = Latest(versions[r.acct])
        /\ n.pc = (IF r.acct # N THEN "resolve" ELSE IF r.only THEN "read" ELSE "insert")
        /\ n.acct = (IF r.acct = N THEN 1 ELSE r.acct + 1)
        /\ n.dest = [r.dest EXCEPT ![r.acct] = d] /\ n.bound = r.bound
    BY <1>0, <1>4, ResolveShape
  <2>2. r.acct \in Accounts /\ r.dest \in [Accounts -> [fed : Feds, index : Nat]]
        /\ versions[r.acct] \in Seq(Version)
    BY <1>0, LocalFields DEF TypeOK
  <2>3. r.only => d.fed \in Feds_of(versions[r.acct])
    BY <2>1, <2>2, LatestRecorded
  <2> HIDE DEF d
  <2>4. versions' = versions /\ utxos' = utxos /\ handed' = handed /\ FundsTracked'
    <3>1. utxos' = utxos /\ handed' = handed /\ versions' = versions
      BY <1>4 DEF ResolveAccount, chainVars, appVars
    <3> QED
      BY <1>0, <3>1 DEF FundsTracked
  <2>5. Bounded(n) = Accounts /\ Bounded(r) = Accounts
    BY <2>1 DEF Bounded
  <2>6. ASSUME NEW a \in Resolved(n) PROVE n.dest[a].fed \in Feds_of(versions'[a])
    <3>1. a \in Accounts /\ (a = r.acct \/ a < r.acct) /\ r.only
      BY <2>1, <2>2, <2>6, ElementsMigrationAssumption DEF Resolved, Accounts
    <3>2. a # r.acct => a \in Resolved(r) /\ n.dest[a] = r.dest[a]
      BY <2>1, <2>2, <3>1 DEF Resolved, Accounts
    <3> QED
      BY <2>1, <2>2, <2>3, <2>4, <3>1, <3>2 DEF TrackInv
  <2>7. \A a \in Bounded(n) : n.bound[a] \in Feds_of(versions'[a])
    BY <2>1, <2>4, <2>5 DEF TrackInv
  <2> QED
    BY <1>0, <1>00, <2>1, <2>4, <2>6, <2>7, TrackOthers
<1>5. ASSUME NEW t \in Tools, InsertVersion(t) PROVE TrackInv'
  <2> DEFINE r == tool[t]
             n == tool'[t]
  <2>1. /\ Moves(t) /\ VersionsGrow /\ r.pc = "insert" /\ n.pc = "pending" /\ n.acct = r.acct
        /\ n.dest = r.dest /\ n.bound = r.bound
        /\ r.dest[r.acct].fed \in Feds_of(versions'[r.acct])
    BY <1>0, <1>5, InsertShape
  <2>2. r.acct \in Accounts
    BY <1>0, LocalFields
  <2>3. utxos' = utxos /\ handed' = handed /\ FundsTracked'
    <3>1. utxos' = utxos /\ handed' = handed
      BY <1>5 DEF InsertVersion, chainVars, appVars
    <3> QED
      BY <1>0, <2>1, <3>1, TrackedStay DEF FundsTracked
  <2>4. \A a \in Bounded(n) : n.bound[a] \in Feds_of(versions'[a])
    BY <2>1 DEF TrackInv, Bounded, VersionsGrow
  <2>5. ASSUME NEW a \in Resolved(n) PROVE n.dest[a].fed \in Feds_of(versions'[a])
    <3>1. a \in Accounts /\ (a = r.acct \/ a < r.acct)
      BY <2>1, <2>2, <2>5 DEF Resolved, Accounts
    <3>2. a # r.acct => a \in Resolved(r)
      BY <2>1, <3>1 DEF Resolved
    <3> QED
      BY <2>1, <3>1, <3>2 DEF TrackInv, VersionsGrow
  <2> QED
    BY <1>0, <2>1, <2>3, <2>4, <2>5, TrackOthers
<1>6. ASSUME NEW t \in Tools, SetPending(t) PROVE TrackInv'
  <2> DEFINE r == tool[t]
             n == tool'[t]
  <2>1. /\ Moves(t) /\ VersionsGrow /\ r.pc = "pending"
        /\ n.pc = (IF r.acct = N THEN "read" ELSE "insert")
        /\ n.acct = (IF r.acct = N THEN 1 ELSE r.acct + 1)
        /\ n.dest = r.dest /\ n.bound = r.bound
    BY <1>0, <1>6, PendingShape
  <2>2. r.acct \in Accounts
    BY <1>0, LocalFields
  <2>3. utxos' = utxos /\ handed' = handed /\ FundsTracked'
    <3>1. utxos' = utxos /\ handed' = handed
      BY <1>6 DEF SetPending, chainVars, appVars
    <3> QED
      BY <1>0, <2>1, <3>1, TrackedStay DEF FundsTracked
  <2>4. \A a \in Bounded(n) : n.bound[a] \in Feds_of(versions'[a])
    BY <2>1 DEF TrackInv, Bounded, VersionsGrow
  <2>5. ASSUME NEW a \in Resolved(n) PROVE n.dest[a].fed \in Feds_of(versions'[a])
    <3>1. a \in Accounts /\ a <= r.acct
      BY <2>1, <2>2, <2>5, ElementsMigrationAssumption DEF Resolved, Accounts
    <3>2. a \in Resolved(r)
      BY <2>1, <3>1 DEF Resolved
    <3> QED
      BY <2>1, <3>1, <3>2 DEF TrackInv, VersionsGrow
  <2> QED
    BY <1>0, <2>1, <2>3, <2>4, <2>5, TrackOthers
<1>7. ASSUME NEW t \in Tools, ReadCoins(t) PROVE TrackInv'
  <2> DEFINE r == tool[t]
             n == tool'[t]
  <2>1. /\ Moves(t) /\ r.pc = "read" /\ n.pc \in {"sweep", "read"}
        /\ n.dest = r.dest /\ n.bound = r.bound
    BY <1>0, <1>7, ReadShape
  <2>2. versions' = versions /\ handed' = handed /\ FundsTracked'
    BY <1>0, <1>7 DEF ReadCoins, chainVars, appVars, FundsTracked
  <2>3. /\ \A a \in Bounded(n) : n.bound[a] \in Feds_of(versions'[a])
        /\ \A a \in Resolved(n) : n.dest[a].fed \in Feds_of(versions'[a])
    BY <2>1, <2>2 DEF TrackInv, Bounded, Resolved
  <2> QED
    BY <1>0, <1>00, <2>1, <2>2, <2>3, TrackOthers
<1>8. ASSUME NEW t \in Tools, NEW S \in SUBSET Accounts,
             NEW seed \in tool[t].fee \cup tool[t].change, SweepCustomers(t, S, seed)
      PROVE  TrackInv'
  <2> DEFINE r == tool[t]
             n == tool'[t]
             change == NewCoin(FeeAccount, r.bound[FeeAccount])
  <2>1. /\ Moves(t) /\ versions' = versions /\ r.pc = "sweep" /\ n.pc = "sweep"
        /\ n.dest = r.dest /\ n.bound = r.bound
    BY <1>0, <1>8, CustomersShape
  <2>5. utxos' \subseteq utxos \cup Paid(r, S) \cup {change}
    BY <1>8 DEF SweepCustomers, Broadcast
  <2>2. /\ \A c \in Paid(r, S) : c.fed \in Feds_of(versions[c.acct])
        /\ change.fed \in Feds_of(versions[change.acct])
    BY <2>1, PaidTracked
  <2> HIDE DEF change
  <2>3. handed' = handed /\ FundsTracked'
    BY <1>0, <1>8, <2>1, <2>2, <2>5 DEF SweepCustomers, appVars, FundsTracked
  <2>4. /\ \A a \in Bounded(n) : n.bound[a] \in Feds_of(versions'[a])
        /\ \A a \in Resolved(n) : n.dest[a].fed \in Feds_of(versions'[a])
    BY <2>1 DEF TrackInv, Bounded, Resolved
  <2> QED
    BY <1>0, <1>00, <2>1, <2>3, <2>4, TrackOthers
<1>9. ASSUME NEW t \in Tools, SweepFeeAccount(t) \/ SweepAll(t) PROVE TrackInv'
  <2>1. Moves(t) /\ versions' = versions /\ tool[t].pc = "sweep" /\ tool'[t].pc = "mark"
    BY <1>0, <1>9, FinalShape
  <2>2. PICK S \in SUBSET Accounts : utxos' \subseteq utxos \cup Paid(tool[t], S)
    BY <1>0, <1>9, FinalShape
  <2>3. \A c \in Paid(tool[t], S) : c.fed \in Feds_of(versions[c.acct])
    BY <2>1, PaidTracked
  <2>4. handed' = handed /\ FundsTracked'
    BY <1>0, <1>9, <2>1, <2>2, <2>3 DEF SweepFeeAccount, SweepAll, appVars, FundsTracked
  <2>5. Bounded(tool'[t]) = {} /\ Resolved(tool'[t]) = {}
    BY <2>1 DEF Bounded, Resolved
  <2> QED
    BY <1>0, <1>00, <2>1, <2>4, <2>5, TrackOthers
<1>10. ASSUME NEW t \in Tools, MarkAccount(t) PROVE TrackInv'
  <2>1. Moves(t) /\ VersionsGrow /\ tool'[t].pc \in {"idle", "mark"}
    BY <1>0, <1>10, MarkShape
  <2>2. handed' = handed /\ utxos' = utxos
    BY <1>10 DEF MarkAccount, chainVars, appVars
  <2>3. FundsTracked'
    BY <1>0, <2>1, <2>2, TrackedStay DEF FundsTracked
  <2>5. Bounded(tool'[t]) = {} /\ Resolved(tool'[t]) = {}
    BY <2>1 DEF Bounded, Resolved
  <2> QED
    BY <1>0, <2>1, <2>2, <2>3, <2>5, TrackOthers
<1>11. ASSUME NEW t \in Tools,
              \/ EndRun(t) \/ MismatchedInput(t)
              \/ \E f \in Feds, mode \in Modes : StartRun(t, f, mode)
       PROVE  TrackInv'
  <2>1. /\ Moves(t) /\ tool'[t].pc \in {"idle", "mismatch", "load"} /\ tool'[t].acct = 1
        /\ UNCHANGED <<versions, utxos, handed>>
    BY <1>0, <1>11, OtherShape
  <2>2. FundsTracked'
    BY <1>0, <2>1 DEF FundsTracked
  <2>3. Bounded(tool'[t]) = {} /\ Resolved(tool'[t]) = {}
    BY <2>1 DEF Bounded, Resolved, Accounts
  <2> QED
    BY <1>0, <1>00, <2>1, <2>2, <2>3, TrackOthers
<1> QED
  BY <1>1, <1>2, <1>3, <1>4, <1>5, <1>6, <1>7, <1>8, <1>9, <1>10, <1>11, Steps

(* Where version 0 is always recorded, every coin of every account lies at *)
(* a federation that the ingestion task watches, whatever invocations of   *)
(* the tool overlap, end half-way or resume with --sweep-only.             *)
THEOREM ElementsFundsTracked == ~BootFaults /\ Spec => []FundsTracked
<1> SUFFICES ASSUME ~BootFaults PROVE Spec => []FundsTracked
  OBVIOUS
<1>1. Init => TrackInv
  <2> SUFFICES ASSUME Init PROVE TrackInv
    OBVIOUS
  <2>1. Ended.pc = "idle"
    BY DEF Ended
  <2>2. \A t \in Tools : Bounded(tool[t]) = {} /\ Resolved(tool[t]) = {}
    BY <2>1 DEF Init, Bounded, Resolved
  <2>3. FundsTracked /\ \A a \in Accounts : handed[a] \subseteq Feds_of(versions[a])
    BY DEF Init, FundsTracked
  <2> QED
    BY <2>2, <2>3, TypeInit DEF TrackInv
<1>2. TrackInv => FundsTracked
  BY DEF TrackInv
<1> QED
  BY <1>1, <1>2, TrackStep, PTL DEF Spec

IsLatest(a, f) == versions[a] # <<>> /\ Latest(versions[a]) = f

(* A coin that one of the remaining transactions spends.                   *)
Planned(r, c) ==
  IF c.acct = FeeAccount THEN c \in r.fee \cup r.change
  ELSE c \in r.coins /\ c.acct \in r.left

OneTool == \A t, u \in Tools : t = u

CoinsNumbered == \A c \in utxos \cup captured : c.tx <= txs

(* The coins an invocation answers for are captured and yet to be read, or *)
(* planned, or at the latest federation of their account.                  *)
SweepLocal(r) ==
  /\ \A c \in r.known : c.tx <= txs
  /\ \A a \in Resolved(r) : IsLatest(a, r.dest[a].fed)
  /\ r.change # {} => r.pc = "sweep" /\ r.batched
  /\ r.pc = "read" => \/ r.acct = 1
                      \/ \A c \in r.known \cap utxos :
                           IF c.acct < r.acct THEN Planned(r, c) ELSE c \in captured
  /\ r.pc = "sweep" => \A c \in r.known \cap utxos : Planned(r, c) \/ IsLatest(c.acct, c.fed)
  /\ r.pc = "mark" => \A c \in r.known \cap utxos : IsLatest(c.acct, c.fed)

SweepInv ==
  OneTool /\ TypeOK /\ CoinsNumbered /\ \A t \in Tools : SweepLocal(tool[t])

(* Which coins the steps of the application and of the ingestion task make *)
(* and take: new ones have a new number, and one that is captured and      *)
(* unspent stays captured.                                                 *)
LEMMA AppCoins ==
  ASSUME TypeOK, CoinsNumbered, AppStep
  PROVE  /\ CoinsNumbered' /\ txs' \in Nat /\ txs <= txs'
         /\ \A c \in utxos' : c \in utxos \/ c.tx > txs
         /\ \A c \in captured : c \in utxos' => c \in captured'
<1>0. txs \in Nat /\ \A c \in utxos \cup captured : c.tx \in Nat /\ c.tx <= txs
  BY DEF TypeOK, Coin, CoinsNumbered
<1>1. ASSUME NEW a \in Accounts, AppLoad(a)
      PROVE  utxos' = utxos /\ captured' = captured /\ txs' = txs
  BY <1>1 DEF AppLoad, chainVars
<1>2. ASSUME NEW a \in Accounts, NEW f \in Feds, Deposit(a, f)
      PROVE  utxos' = utxos \cup {NewCoin(a, f)} /\ captured' = captured /\ txs' = txs + 1
  BY <1>2 DEF Deposit
<1>3. ASSUME NEW a \in Accounts, NEW f \in Feds, AppSend(a, f)
      PROVE  utxos' \subseteq utxos /\ captured' = captured /\ txs' = txs
  BY <1>3 DEF AppSend
<1>4. ASSUME NEW c \in utxos \ captured, IngestPaid(c)
      PROVE  utxos' = utxos /\ captured' = captured \cup {c} /\ txs' = txs
  BY <1>4 DEF IngestPaid
<1>5. ASSUME NEW c \in captured \ utxos, IngestSpent(c)
      PROVE  utxos' = utxos /\ captured' = captured \ {c} /\ txs' = txs
  BY <1>5 DEF IngestSpent
<1>6. \A a, f : NewCoin(a, f).tx = txs + 1
  BY DEF NewCoin
<1>7. CASE \E a \in Accounts, f \in Feds : Deposit(a, f)
  BY <1>0, <1>2, <1>6, <1>7 DEF CoinsNumbered
<1>8. CASE ~\E a \in Accounts, f \in Feds : Deposit(a, f)
  <2>1. /\ txs' = txs /\ utxos' \subseteq utxos /\ captured' \subseteq captured \cup utxos
        /\ \A c \in captured : c \in utxos' => c \in captured'
    BY <1>1, <1>3, <1>4, <1>5, <1>8 DEF AppStep
  <2> QED
    BY <1>0, <2>1 DEF CoinsNumbered
<1> QED
  BY <1>7, <1>8

(* What holds of an invocation that did not move.                          *)
LEMMA SweepStill ==
  ASSUME TypeOK, NEW t \in Tools, tool'[t] = tool[t], SweepLocal(tool[t]), LatestKept,
         txs' \in Nat, txs <= txs',
         \A c \in utxos' : c \in utxos \/ c.tx > txs,
         \A c \in captured : c \in utxos' => c \in captured'
  PROVE  SweepLocal(tool[t])'
<1>r. PICK r \in Locals : r = tool[t]
  BY LocalFields
<1>s. SweepLocal(r)
  BY <1>r
<1>0. txs \in Nat /\ r.known \subseteq Coin /\ \A c \in Coin : c.tx \in Nat /\ c.acct \in Accounts
  BY DEF TypeOK, Locals, Coin
<1>1. \A c \in r.known : c.tx <= txs /\ c.tx <= txs'
  BY <1>s, <1>0 DEF SweepLocal
<1>2. \A c \in r.known \cap utxos' : c \in utxos
  BY <1>0, <1>1
<1>3. \A a \in Accounts : \A f : IsLatest(a, f) => IsLatest(a, f)'
  BY DEF IsLatest, LatestKept
<1>4. \A a \in Resolved(r) : IsLatest(a, r.dest[a].fed)'
  BY <1>s, <1>3 DEF SweepLocal, Resolved
<1>5. r.change # {} => r.pc = "sweep" /\ r.batched
  BY <1>s DEF SweepLocal
<1>6. r.pc = "read" => \/ r.acct = 1
                       \/ \A c \in r.known \cap utxos' :
                            IF c.acct < r.acct THEN Planned(r, c) ELSE c \in captured'
  BY <1>s, <1>2 DEF SweepLocal
<1>7. r.pc = "sweep" => \A c \in r.known \cap utxos' : Planned(r, c) \/ IsLatest(c.acct, c.fed)'
  BY <1>s, <1>0, <1>2, <1>3 DEF SweepLocal
<1>8. r.pc = "mark" => \A c \in r.known \cap utxos' : IsLatest(c.acct, c.fed)'
  BY <1>s, <1>0, <1>2, <1>3 DEF SweepLocal
<1> QED
  BY <1>r, <1>1, <1>4, <1>5, <1>6, <1>7, <1>8 DEF SweepLocal, Resolved, Planned, IsLatest

(* With a single invocation, what holds of the one that moved suffices.    *)
LEMMA SweepOnly ==
  ASSUME SweepInv, NEW t \in Tools, TypeOK', CoinsNumbered', SweepLocal(tool[t])'
  PROVE  SweepInv'
<1>1. \A u \in Tools : u = t
  BY DEF SweepInv, OneTool
<1>2. OneTool
  BY DEF SweepInv
<1> QED
  BY <1>1, <1>2 DEF SweepInv, OneTool

(* The coins a sweep pays have a new number, and those of a sweep stage    *)
(* lie at the latest federation.                                           *)
LEMMA PaidLatest ==
  ASSUME TypeOK, NEW t \in Tools, SweepLocal(tool[t]), tool[t].pc = "sweep",
         NEW S \in SUBSET Accounts
  PROVE  \A c \in Paid(tool[t], S) : c.tx = txs + 1 /\ IsLatest(c.acct, c.fed)
<1>1. \A a \in Accounts : IsLatest(a, tool[t].dest[a].fed)
  BY DEF SweepLocal, Resolved
<1> QED
  BY <1>1 DEF Paid, NewCoin

(* An invocation that has no destination: before it resolved any, or after *)
(* its last sweep.                                                         *)
LEMMA SweepIdle ==
  ASSUME NEW t \in Tools, Resolved(tool'[t]) = {},
         tool'[t].pc \notin {"read", "sweep"}, tool'[t].change = {},
         \A c \in tool'[t].known : c.tx <= txs',
         tool'[t].pc = "mark" => \A c \in tool'[t].known \cap utxos' : IsLatest(c.acct, c.fed)'
  PROVE  SweepLocal(tool[t])'
BY DEF SweepLocal, Resolved, IsLatest

(* No step of the only invocation, or of what runs beside it, loses a coin *)
(* that the invocation answers for.                                        *)
LEMMA SweepStep == SweepInv /\ [Next]_vars => SweepInv'
<1> SUFFICES ASSUME SweepInv, [Next]_vars PROVE SweepInv'
  OBVIOUS
<1>0. /\ OneTool /\ TypeOK /\ CoinsNumbered /\ TypeOK' /\ txs \in Nat /\ txs' \in Nat
      /\ \A t \in Tools : SweepLocal(tool[t])
  BY TypeStep DEF SweepInv, TypeOK
<1>a. UNCHANGED chainVars => CoinsNumbered'
  BY <1>0 DEF chainVars, CoinsNumbered
<1>b. \A t \in Tools : tool[t].pc # "sweep" => tool[t].change = {}
  BY <1>0 DEF SweepLocal
<1>c. \A t \in Tools : \A c \in tool[t].known : c \in Coin /\ c.tx \in Nat /\ c.tx <= txs
                                                /\ c.acct \in Accounts
  BY <1>0, LocalFields DEF SweepLocal, Coin
<1>d. LatestKept => \A a \in Accounts : \A f : IsLatest(a, f) => IsLatest(a, f)'
  BY DEF IsLatest, LatestKept
<1>1. CASE AppStep
  <2>1. tool' = tool /\ LatestKept
    BY <1>0, <1>1, AppShape
  <2>2. /\ CoinsNumbered' /\ txs <= txs' /\ \A c \in utxos' : c \in utxos \/ c.tx > txs
        /\ \A c \in captured : c \in utxos' => c \in captured'
    BY <1>0, <1>1, AppCoins
  <2>3. \A t \in Tools : SweepLocal(tool[t])'
    BY <1>0, <2>1, <2>2, SweepStill
  <2> QED
    BY <1>0, <2>2, <2>3 DEF SweepInv, OneTool
<1>2. CASE UNCHANGED vars
  <2>1. UNCHANGED <<versions, utxos, captured, txs, tool>>
    BY <1>2 DEF vars, chainVars
  <2>2. LatestKept /\ CoinsNumbered' /\ txs <= txs'
    BY <1>0, <2>1 DEF LatestKept, CoinsNumbered
  <2>3. \A t \in Tools : SweepLocal(tool[t])'
    BY <1>0, <2>1, <2>2, SweepStill
  <2> QED
    BY <1>0, <2>2, <2>3 DEF SweepInv, OneTool
<1>3. ASSUME NEW t \in Tools, LoadAccount(t) PROVE SweepInv'
  <2> DEFINE r == tool[t]
             n == tool'[t]
  <2>1. /\ r.pc = "load" /\ n.pc = (IF r.acct = N THEN "resolve" ELSE "load")
        /\ n.acct = (IF r.acct = N THEN 1 ELSE r.acct + 1)
        /\ n.known = r.known /\ n.change = r.change
    BY <1>0, <1>3, LoadShape
  <2>2. UNCHANGED chainVars
    BY <1>3 DEF LoadAccount
  <2>3. Resolved(n) = {}
    BY <2>1 DEF Resolved, Accounts
  <2>4. SweepLocal(tool[t])'
    BY <1>b, <1>c, <2>1, <2>2, <2>3, SweepIdle DEF chainVars
  <2> QED
    BY <1>0, <1>a, <2>2, <2>4, SweepOnly
<1>4. ASSUME NEW t \in Tools, ResolveAccount(t) PROVE SweepInv'
  <2> DEFINE r == tool[t]
             n == tool'[t]
             d == NewFed(r, versions[r.acct])
  <2>1. /\ r.pc = "resolve" /\ n.only = r.only
        /\ r.only => versions[r.acct] # <<>> /\ d.fed = Latest(versions[r.acct])
        /\ n.pc = (IF r.acct # N THEN "resolve" ELSE IF r.only THEN "read" ELSE "insert")
        /\ n.acct = (IF r.acct = N THEN 1 ELSE r.acct + 1)
        /\ n.dest = [r.dest EXCEPT ![r.acct] = d]
        /\ n.known = r.known /\ n.change = r.change
    BY <1>0, <1>4, ResolveShape
  <2> HIDE DEF d
  <2>2. UNCHANGED chainVars /\ UNCHANGED <<versions, txs>>
    BY <1>4 DEF ResolveAccount, chainVars
  <2>3. r.acct \in Accounts /\ r.dest \in [Accounts -> [fed : Feds, index : Nat]]
    BY <1>0, LocalFields
  <2>4. ASSUME NEW a \in Resolved(n) PROVE IsLatest(a, n.dest[a].fed)
    <3>1. a \in Accounts /\ (a = r.acct \/ a < r.acct) /\ r.only
      BY <2>1, <2>3, <2>4, ElementsMigrationAssumption DEF Resolved, Accounts
    <3>2. CASE a = r.acct
      BY <2>1, <2>3, <3>1, <3>2 DEF IsLatest
    <3>3. CASE a # r.acct
      <4>1. a \in Resolved(r) /\ n.dest[a] = r.dest[a]
        BY <2>1, <2>3, <3>1, <3>3 DEF Resolved, Accounts
      <4> QED
        BY <1>0, <4>1 DEF SweepLocal
    <3> QED
      BY <3>2, <3>3
  <2>5. /\ \A c \in n.known : c.tx <= txs' /\ n.change = {}
        /\ n.pc = "read" => n.acct = 1
        /\ n.pc \notin {"sweep", "mark"}
    BY <1>b, <1>c, <2>1, <2>2
  <2>6. n.change = {}
    BY <1>b, <2>1
  <2>7. SweepLocal(tool[t])'
    BY <2>2, <2>4, <2>5, <2>6 DEF SweepLocal, Resolved, IsLatest
  <2> QED
    BY <1>0, <1>a, <2>2, <2>7, SweepOnly
<1>5. ASSUME NEW t \in Tools, InsertVersion(t) PROVE SweepInv'
  <2> DEFINE r == tool[t]
             n == tool'[t]
  <2>1. /\ r.pc = "insert" /\ n.pc = "pending" /\ n.acct = r.acct
        /\ n.dest = r.dest /\ n.known = r.known /\ n.change = r.change
        /\ versions'[r.acct] # <<>> /\ Latest(versions'[r.acct]) = r.dest[r.acct].fed
        /\ \A b \in Accounts \ {r.acct} : versions'[b] = versions[b]
    BY <1>0, <1>5, InsertShape
  <2>2. UNCHANGED chainVars /\ txs' = txs
    BY <1>5 DEF InsertVersion, chainVars
  <2>3. r.acct \in Accounts
    BY <1>0, LocalFields
  <2>4. ASSUME NEW a \in Resolved(n)
        PROVE  versions'[a] # <<>> /\ Latest(versions'[a]) = n.dest[a].fed
    <3>1. a \in Accounts /\ (a = r.acct \/ a < r.acct)
      BY <2>1, <2>3, <2>4 DEF Resolved, Accounts
    <3>2. CASE a = r.acct
      BY <2>1, <3>2 DEF IsLatest
    <3>3. CASE a # r.acct
      <4>1. a \in Resolved(r)
        BY <2>1, <3>1, <3>3 DEF Resolved
      <4>2. IsLatest(a, r.dest[a].fed)
        BY <1>0, <4>1 DEF SweepLocal
      <4> QED
        BY <2>1, <3>1, <3>3, <4>2 DEF IsLatest
    <3> QED
      BY <3>2, <3>3
  <2>5. (\A c \in n.known : c.tx <= txs') /\ n.change = {}
    BY <1>b, <1>c, <2>1, <2>2
  <2>6. SweepLocal(tool[t])'
    BY <2>1, <2>4, <2>5 DEF SweepLocal, Resolved, IsLatest
  <2> QED
    BY <1>0, <1>a, <2>2, <2>6, SweepOnly
<1>6. ASSUME NEW t \in Tools, SetPending(t) PROVE SweepInv'
  <2> DEFINE r == tool[t]
             n == tool'[t]
  <2>1. /\ LatestKept /\ r.pc = "pending"
        /\ n.pc = (IF r.acct = N THEN "read" ELSE "insert")
        /\ n.acct = (IF r.acct = N THEN 1 ELSE r.acct + 1)
        /\ n.dest = r.dest /\ n.known = r.known /\ n.change = r.change
    BY <1>0, <1>6, PendingShape
  <2>2. UNCHANGED chainVars /\ txs' = txs
    BY <1>6 DEF SetPending, chainVars
  <2>3. r.acct \in Accounts
    BY <1>0, LocalFields
  <2>4. ASSUME NEW a \in Resolved(n)
        PROVE  versions'[a] # <<>> /\ Latest(versions'[a]) = n.dest[a].fed
    <3>1. a \in Accounts /\ a <= r.acct
      BY <2>1, <2>3, <2>4, ElementsMigrationAssumption DEF Resolved, Accounts
    <3>2. a \in Resolved(r)
      BY <2>1, <3>1 DEF Resolved
    <3>3. IsLatest(a, r.dest[a].fed)
      BY <1>0, <3>2 DEF SweepLocal
    <3> QED
      BY <2>1, <3>1, <3>3 DEF LatestKept, IsLatest
  <2>5. /\ \A c \in n.known : c.tx <= txs'
        /\ n.change = {} /\ (n.pc = "read" => n.acct = 1) /\ n.pc \notin {"sweep", "mark"}
    BY <1>b, <1>c, <2>1, <2>2
  <2>6. SweepLocal(tool[t])'
    BY <2>4, <2>5 DEF SweepLocal, Resolved, IsLatest
  <2> QED
    BY <1>0, <1>a, <2>2, <2>6, SweepOnly
<1>7. ASSUME NEW t \in Tools, ReadCoins(t) PROVE SweepInv'
  <2> DEFINE r == tool[t]
             n == tool'[t]
             a == r.acct
  <2>1. /\ r.pc = "read" /\ n.pc = (IF r.acct = N THEN "sweep" ELSE "read")
        /\ n.acct = (IF r.acct = N THEN 1 ELSE r.acct + 1)
        /\ n.dest = r.dest /\ n.change = r.change
        /\ n.known = (IF a = 1 THEN captured ELSE r.known)
        /\ n.fee = (IF a = FeeAccount THEN CapturedOf(a) ELSE r.fee)
        /\ n.coins = (IF a = FeeAccount THEN r.coins ELSE r.coins \cup CapturedOf(a))
        /\ n.left = (IF a = FeeAccount \/ CapturedOf(a) = {} THEN r.left ELSE r.left \cup {a})
    BY <1>0, <1>7, ReadShape
  <2>2. UNCHANGED chainVars /\ UNCHANGED <<versions, utxos, captured, txs>>
    BY <1>7 DEF ReadCoins, chainVars
  <2>3. a \in Accounts
    BY <1>0, LocalFields
  <2>4. \A b \in Resolved(n) : IsLatest(b, n.dest[b].fed)
    <3>1. Resolved(r) = Accounts /\ Resolved(n) \subseteq Accounts
      BY <2>1 DEF Resolved
    <3> QED
      BY <1>0, <2>1, <3>1 DEF SweepLocal
  <2>5. n.known \subseteq Coin /\ (\A c \in n.known : c.tx <= txs) /\ n.change = {}
    <3>1. captured \subseteq Coin /\ \A c \in captured : c.tx <= txs
      BY <1>0 DEF TypeOK, CoinsNumbered
    <3> QED
      BY <1>b, <1>c, <2>1, <3>1
  <2>6. ASSUME NEW c \in n.known \cap utxos
        PROVE  IF c.acct <= a THEN Planned(n, c) ELSE c \in captured
    <3>0. c.acct \in Accounts /\ c.acct \in Int /\ a \in Int
      BY <2>3, <2>5, <2>6 DEF Coin, Accounts
    <3>1. c.acct >= a => c \in captured
      <4>1. CASE a = 1
        BY <2>1, <2>6, <4>1
      <4>2. CASE a # 1
        BY <1>0, <2>1, <2>6, <3>0, <4>2 DEF SweepLocal
      <4> QED
        BY <4>1, <4>2
    <3>2. CASE c.acct = a
      <4>1. c \in CapturedOf(a)
        BY <3>0, <3>1, <3>2 DEF CapturedOf
      <4> QED
        BY <2>1, <3>0, <3>2, <4>1 DEF Planned
    <3>3. CASE c.acct < a
      <4>1. a # 1
        BY <3>0, <3>3 DEF Accounts
      <4>2. Planned(r, c)
        BY <1>0, <2>1, <2>6, <3>3, <4>1 DEF SweepLocal
      <4>3. c.acct # a /\ c.acct <= a
        BY <3>0, <3>3
      <4>4. CASE c.acct = FeeAccount
        <5>1. n.fee = r.fee
          BY <2>1, <4>3, <4>4
        <5> QED
          BY <2>1, <4>2, <4>3, <4>4, <5>1 DEF Planned
      <4>5. CASE c.acct # FeeAccount
        <5>1. r.coins \subseteq n.coins /\ r.left \subseteq n.left
          BY <2>1
        <5> QED
          BY <4>2, <4>3, <4>5, <5>1 DEF Planned
      <4> QED
        BY <4>4, <4>5
    <3> QED
      BY <3>0, <3>1, <3>2, <3>3
  <2>7. n.pc = "read" =>
          \A c \in n.known \cap utxos : IF c.acct < n.acct THEN Planned(n, c) ELSE c \in captured
    <3>1. \A c \in n.known : c.acct \in Int
      BY <2>5 DEF Coin, Accounts
    <3>2. n.pc = "read" => n.acct = a + 1 /\ a \in Int
      BY <2>1, <2>3 DEF Accounts
    <3> QED
      BY <2>6, <3>1, <3>2
  <2>8. n.pc = "sweep" => \A c \in n.known \cap utxos : Planned(n, c)
    <3>1. \A c \in n.known : c.acct <= N /\ N \in Nat
      BY <2>5, ElementsMigrationAssumption DEF Coin, Accounts
    <3>2. n.pc = "sweep" => a = N
      BY <2>1
    <3> QED
      BY <2>6, <3>1, <3>2
  <2>9. n.pc # "mark"
    BY <2>1
  <2>10. SweepLocal(tool[t])'
    BY <2>2, <2>4, <2>5, <2>7, <2>8, <2>9 DEF SweepLocal, Resolved, IsLatest, Planned
  <2> QED
    BY <1>0, <1>a, <2>2, <2>10, SweepOnly
<1>8. ASSUME NEW t \in Tools, NEW S \in SUBSET Accounts,
             NEW seed \in tool[t].fee \cup tool[t].change, SweepCustomers(t, S, seed)
      PROVE  SweepInv'
  <2> DEFINE r == tool[t]
             n == tool'[t]
             change == NewCoin(FeeAccount, r.bound[FeeAccount])
             moved == {c \in r.coins : c.acct \in S}
             feeIn == IF r.change = {} THEN {seed} ELSE r.change
             made == Paid(r, S) \cup {change}
  <2>1. /\ versions' = versions /\ r.pc = "sweep" /\ n.pc = "sweep" /\ n.batched
        /\ n.dest = r.dest /\ n.coins = r.coins
        /\ n.left = r.left \ S /\ n.fee = r.fee \ feeIn /\ n.change = {change}
        /\ n.known = r.known \cup made
        /\ utxos' = (utxos \ (moved \cup feeIn)) \cup made /\ txs' = txs + 1
    BY <1>0, <1>8, CustomersShape
  <2>2. captured' = captured
    BY <1>8 DEF SweepCustomers, Broadcast
  <2>3. \A c \in Paid(r, S) : c.tx = txs + 1 /\ IsLatest(c.acct, c.fed)
    BY <1>0, <2>1, PaidLatest
  <2>4. change.acct = FeeAccount /\ change.tx = txs + 1
    BY DEF NewCoin
  <2>f. r.change = {} \/ feeIn = r.change
    OBVIOUS
  <2> HIDE DEF change, feeIn
  <2>5. CoinsNumbered'
    <3>1. \A c \in utxos \cup captured : c.tx \in Nat /\ c.tx <= txs
      BY <1>0 DEF TypeOK, Coin, CoinsNumbered
    <3> QED
      BY <1>0, <2>1, <2>2, <2>3, <2>4, <3>1 DEF CoinsNumbered
  <2>6. \A b \in Resolved(n) : IsLatest(b, n.dest[b].fed)
    <3>1. Resolved(r) = Accounts /\ Resolved(n) = Accounts
      BY <2>1 DEF Resolved
    <3> QED
      BY <1>0, <2>1, <3>1 DEF SweepLocal
  <2>7. \A c \in n.known : c.tx <= txs'
    BY <1>0, <1>c, <2>1, <2>3, <2>4
  <2>8. ASSUME NEW c \in n.known \cap utxos'
        PROVE  Planned(n, c) \/ IsLatest(c.acct, c.fed)
    <3>1. CASE c \in Paid(r, S)
      BY <2>3, <3>1
    <3>2. CASE c = change
      BY <2>1, <2>4, <3>2 DEF Planned
    <3>3. CASE c \notin made
      <4>1. c \in r.known \cap utxos /\ c \notin moved /\ c \notin feeIn
        BY <2>1, <2>8, <3>3
      <4>2. Planned(r, c) \/ IsLatest(c.acct, c.fed)
        BY <1>0, <2>1, <4>1 DEF SweepLocal
      <4>3. Planned(r, c) => Planned(n, c)
        BY <2>1, <2>f, <4>1 DEF Planned
      <4> QED
        BY <4>2, <4>3
    <3> QED
      BY <3>1, <3>2, <3>3
  <2>9. SweepLocal(tool[t])'
    BY <2>1, <2>6, <2>7, <2>8 DEF SweepLocal, Resolved, IsLatest, Planned
  <2> QED
    BY <1>0, <2>5, <2>9, SweepOnly
<1>9. ASSUME NEW t \in Tools, SweepFeeAccount(t) \/ SweepAll(t) PROVE SweepInv'
  <2> DEFINE r == tool[t]
             n == tool'[t]
  <2>1. versions' = versions /\ r.pc = "sweep" /\ n.pc = "mark" /\ n.change = {}
    BY <1>0, <1>9, FinalShape
  <2>2. PICK inputs \in SUBSET Coin, S \in SUBSET Accounts :
          /\ n.known = r.known \cup Paid(r, S)
          /\ utxos' = (utxos \ inputs) \cup Paid(r, S) /\ txs' = txs + 1
          /\ r.fee \subseteq inputs
          /\ \A c \in r.coins : c.acct \in r.left => c \in inputs
          /\ r.batched => r.change \subseteq inputs
    BY <1>0, <1>9, FinalShape
  <2>3. captured' = captured
    BY <1>9 DEF SweepFeeAccount, SweepAll, Broadcast
  <2>4. \A c \in Paid(r, S) : c.tx = txs + 1 /\ IsLatest(c.acct, c.fed)
    BY <1>0, <2>1, PaidLatest
  <2>5. CoinsNumbered'
    <3>1. \A c \in utxos \cup captured : c.tx \in Nat /\ c.tx <= txs
      BY <1>0 DEF TypeOK, Coin, CoinsNumbered
    <3> QED
      BY <1>0, <2>2, <2>3, <2>4, <3>1 DEF CoinsNumbered
  <2>6. \A c \in n.known : c.tx <= txs'
    BY <1>0, <1>c, <2>2, <2>4
  <2>7. r.change \subseteq inputs
    BY <1>0, <2>2 DEF SweepLocal
  <2>8. ASSUME NEW c \in n.known \cap utxos' PROVE IsLatest(c.acct, c.fed)
    <3>1. CASE c \in Paid(r, S)
      BY <2>4, <3>1
    <3>2. CASE c \notin Paid(r, S)
      <4>1. c \in r.known \cap utxos /\ c \notin inputs
        BY <2>2, <2>8, <3>2
      <4>2. ~Planned(r, c)
        BY <2>2, <2>7, <4>1 DEF Planned
      <4> QED
        BY <1>0, <2>1, <4>1, <4>2 DEF SweepLocal
    <3> QED
      BY <3>1, <3>2
  <2>9. \A c \in n.known \cap utxos' : IsLatest(c.acct, c.fed)'
    BY <2>1, <2>8 DEF IsLatest
  <2>10. Resolved(n) = {}
    BY <2>1 DEF Resolved
  <2>11. SweepLocal(tool[t])'
    BY <2>1, <2>6, <2>9, <2>10, SweepIdle
  <2> QED
    BY <1>0, <2>5, <2>11, SweepOnly
<1>10. ASSUME NEW t \in Tools, MarkAccount(t) PROVE SweepInv'
  <2> DEFINE r == tool[t]
             n == tool'[t]
  <2>1. /\ LatestKept /\ r.pc = "mark" /\ n.pc \in {"idle", "mark"}
        /\ n.known \subseteq r.known /\ n.change \subseteq r.change
    BY <1>0, <1>10, MarkShape
  <2>2. UNCHANGED chainVars /\ UNCHANGED <<utxos, txs>>
    BY <1>10 DEF MarkAccount, chainVars
  <2>3. \A c \in n.known \cap utxos' : IsLatest(c.acct, c.fed)'
    BY <1>0, <1>c, <1>d, <2>1, <2>2 DEF SweepLocal
  <2>4. Resolved(n) = {}
    BY <2>1 DEF Resolved
  <2>5. SweepLocal(tool[t])'
    BY <1>b, <1>c, <2>1, <2>2, <2>3, <2>4, SweepIdle
  <2> QED
    BY <1>0, <1>a, <2>2, <2>5, SweepOnly
<1>11. ASSUME NEW t \in Tools,
              \/ EndRun(t) \/ MismatchedInput(t)
              \/ \E f \in Feds, mode \in Modes : StartRun(t, f, mode)
       PROVE  SweepInv'
  <2>1. /\ tool'[t].pc \in {"idle", "mismatch", "load"} /\ tool'[t].acct = 1
        /\ tool'[t].known = {} /\ tool'[t].change = {}
        /\ UNCHANGED <<utxos, captured, txs>>
    BY <1>0, <1>11, OtherShape
  <2>2. Resolved(tool'[t]) = {}
    BY <2>1 DEF Resolved
  <2>3. SweepLocal(tool[t])'
    BY <2>1, <2>2, SweepIdle
  <2> QED
    BY <1>0, <1>a, <2>1, <2>3, SweepOnly DEF chainVars
<1> QED
  BY <1>1, <1>2, <1>3, <1>4, <1>5, <1>6, <1>7, <1>8, <1>9, <1>10, <1>11, Steps

(* An invocation that nothing overlaps marks a version complete only when  *)
(* no coin that it read, paid or left as change still lies at that         *)
(* version, whatever the application and the ingestion task do meanwhile.  *)
THEOREM ElementsCompleteMeansSwept == OneTool /\ Spec => CompleteMeansSwept
<1> SUFFICES ASSUME OneTool PROVE Spec => CompleteMeansSwept
  OBVIOUS
<1> DEFINE P == \A t \in Tools : tool[t].pc = "mark" /\ tool'[t] # tool[t] =>
                  \A c \in utxos \cap tool[t].known : LET vs == versions'[c.acct] IN
                    \A i \in 1..(Len(vs) - 1) :
                      vs[i].status = "complete" /\ vs[i].fed = c.fed => c.fed = Latest(vs)
<1>1. Init => SweepInv
  <2> SUFFICES ASSUME Init PROVE SweepInv
    OBVIOUS
  <2>1. Ended.pc = "idle" /\ Ended.known = {} /\ Ended.change = {}
    BY DEF Ended
  <2>2. \A t \in Tools : SweepLocal(tool[t])
    BY <2>1 DEF Init, SweepLocal, Resolved
  <2>3. CoinsNumbered
    BY DEF Init, CoinsNumbered
  <2> QED
    BY <2>2, <2>3, TypeInit DEF SweepInv
<1>2. SweepInv /\ [Next]_vars => P
  <2> SUFFICES ASSUME SweepInv, [Next]_vars, NEW t \in Tools,
                      tool[t].pc = "mark", tool'[t] # tool[t],
                      NEW c \in utxos \cap tool[t].known
               PROVE  c.fed = Latest(versions'[c.acct])
    OBVIOUS
  <2>0. TypeOK /\ SweepLocal(tool[t]) /\ \A u \in Tools : u = t
    BY DEF SweepInv, OneTool
  <2>1. c.acct \in Accounts /\ IsLatest(c.acct, c.fed)
    BY <2>0, LocalFields DEF SweepLocal, Coin
  <2>2. LatestKept
    <3>1. CASE AppStep
      BY <2>0, <3>1, AppShape
    <3>2. CASE UNCHANGED vars
      BY <3>2 DEF vars, LatestKept
    <3>3. CASE ~AppStep /\ ~UNCHANGED vars
      <4>1. \/ MarkAccount(t) \/ EndRun(t) \/ MismatchedInput(t)
            \/ \E f \in Feds, mode \in Modes : StartRun(t, f, mode)
        BY <2>0, <3>3, Steps DEF LoadAccount, ResolveAccount, InsertVersion, SetPending,
           ReadCoins, SweepCustomers, SweepFeeAccount, SweepAll
      <4>2. MarkAccount(t) => LatestKept
        BY <2>0, MarkShape
      <4>3. \/ EndRun(t) \/ MismatchedInput(t)
            \/ \E f \in Feds, mode \in Modes : StartRun(t, f, mode)
            => versions' = versions
        BY <2>0, OtherShape
      <4> QED
        BY <4>1, <4>2, <4>3 DEF LatestKept
    <3> QED
      BY <3>1, <3>2, <3>3
  <2> QED
    BY <2>1, <2>2 DEF IsLatest, LatestKept
<1> HIDE DEF P
<1>3. Spec => [][P]_vars
  BY <1>1, <1>2, SweepStep, PTL DEF Spec
<1>4. [][P]_vars <=> CompleteMeansSwept
  BY DEF P, CompleteMeansSwept
<1> QED
  BY <1>3, <1>4
==============================================================================
