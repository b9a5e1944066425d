---------------------- MODULE FederationMigrationProofs ----------------------
(***************************************************************************)
(* Proofs about FederationMigration for any number of accounts, any        *)
(* federations and any number of overlapping invocations of the tool.      *)
(*                                                                         *)
(* FundsTracked is not inductive: a sweep pays the run's target, so the    *)
(* target must be recorded for every account before the first sweep, and   *)
(* change goes to the fee account's old federation, which must be recorded *)
(* too.  Versions are only ever appended, so what one run relies on no     *)
(* other run takes away.                                                   *)
(***************************************************************************)
EXTENDS FederationMigration, TLAPS, SequenceTheorems

HasFed(a, f) == f \in Feds_of(versions[a])

(* What a run knows of the versions table at each stage.                   *)
ToolOK(t) ==
  LET r == tool[t] IN
  /\ ~r.only
  /\ r.pc = "plan" => r.acct = 1
  /\ r.pc \in {"step1", "insert", "pending"} =>
       \A a \in Accounts : a < r.acct => HasFed(a, r.target)
  /\ r.pc = "pending" => HasFed(r.acct, r.target) /\ r.read < Len(versions[r.acct])
  /\ r.pc \in {"confirm", "sweep"} => \A a \in Accounts : HasFed(a, r.target)
  /\ r.pc = "sweep" => HasFed(FeeAccount, r.oldFed)

TrackInv ==
  /\ ~AllowSweepOnly
  /\ TypeOK
  /\ LatestNotApplicable
  /\ ~BootFaults => /\ FundsTracked
                    /\ \A a \in Accounts : \A f \in handed[a] : HasFed(a, f)
  /\ \A t \in Tools : ToolOK(t)

-----------------------------------------------------------------------------
(* The loops over the accounts stay among them.                            *)
LEMMA NextAccount ==
  ASSUME NEW a \in Accounts
  PROVE  /\ a # N => a + 1 \in Accounts
         /\ (IF a = N THEN 1 ELSE a + 1) \in Accounts
BY AccountAssumption DEF Accounts

(* A list written out position by position is a list of versions.          *)
LEMMA SeqOfVersions ==
  ASSUME NEW n \in Nat, NEW f \in [1..n -> Version]
  PROVE  f \in Seq(Version) /\ Len(f) = n
<1>1. f \in Seq(Version)
  BY SeqDef
<1>2. Len(f) \in Nat /\ DOMAIN f = 1..Len(f) /\ DOMAIN f = 1..n
  BY <1>1, LenProperties
<1> QED
  BY <1>1, <1>2

(* The bootstrap keeps what is stored and leaves at least one version.     *)
LEMMA BootstrapFacts ==
  ASSUME NEW vs \in Seq(Version)
  PROVE  /\ Bootstrapped(vs) \in Seq(Version)
         /\ Len(Bootstrapped(vs)) \in Nat /\ Len(Bootstrapped(vs)) >= 1
         /\ Len(vs) <= Len(Bootstrapped(vs))
         /\ Feds_of(vs) \subseteq Feds_of(Bootstrapped(vs))
         /\ Latest(Bootstrapped(vs)) \in Feds_of(Bootstrapped(vs))
         /\ Latest(Bootstrapped(vs)) \in Feds
         /\ (vs # <<>> => vs[Len(vs)].status = "not_applicable") =>
              Bootstrapped(vs)[Len(Bootstrapped(vs))].status = "not_applicable"
<1>0. NewVersion(Fed0) \in Version /\ NewVersion(Fed0).status = "not_applicable"
  BY FedAssumption DEF NewVersion, Version, Status, NoTx
<1>1. CASE vs = <<>>
  <2> DEFINE b == <<NewVersion(Fed0)>>
  <2>1. Bootstrapped(vs) = b /\ b \in Seq(Version) /\ Len(b) = 1 /\ Len(vs) = 0
        /\ b[1] = NewVersion(Fed0)
    BY <1>0, <1>1 DEF Bootstrapped
  <2> HIDE DEF b
  <2>2. Feds_of(vs) = {}
    BY <2>1 DEF Feds_of
  <2>3. b[1].fed \in Feds_of(b)
    BY <2>1 DEF Feds_of
  <2>4. Latest(b) = b[1].fed /\ b[1].fed \in Feds
    BY <1>0, <2>1 DEF Latest, Version
  <2>5. b[Len(b)].status = "not_applicable"
    BY <1>0, <2>1
  <2> QED
    BY <2>1, <2>2, <2>3, <2>4, <2>5
<1>2. CASE vs # <<>>
  <2>1. Bootstrapped(vs) = vs /\ Len(vs) \in Nat /\ Len(vs) >= 1
    BY <1>2, EmptySeq DEF Bootstrapped
  <2>2. vs[Len(vs)] \in Version
    BY <2>1
  <2> QED
    BY <1>2, <2>1, <2>2 DEF Feds_of, Latest, Version
<1> QED
  BY <1>1, <1>2

(* A new version goes to the end; the older ones stay as they are.         *)
LEMMA AppendFacts ==
  ASSUME NEW vs \in Seq(Version), NEW f \in Feds
  PROVE  LET ws == Append(vs, NewVersion(f)) IN
         /\ ws \in Seq(Version)
         /\ Len(ws) = Len(vs) + 1
         /\ Feds_of(vs) \subseteq Feds_of(ws)
         /\ f \in Feds_of(ws)
         /\ ws[Len(ws)].status = "not_applicable"
<1> DEFINE ws == Append(vs, NewVersion(f))
<1>1. NewVersion(f) \in Version /\ NewVersion(f).fed = f
      /\ NewVersion(f).status = "not_applicable"
  BY DEF NewVersion, Version, Status, NoTx
<1>2. /\ ws \in Seq(Version) /\ Len(ws) = Len(vs) + 1 /\ Len(vs) \in Nat
      /\ ws[Len(vs) + 1] = NewVersion(f)
      /\ \A i \in 1..Len(vs) : ws[i] = vs[i]
  BY <1>1, AppendProperties
<1> HIDE DEF ws
<1>3. Feds_of(vs) \subseteq Feds_of(ws) /\ f \in Feds_of(ws)
  BY <1>1, <1>2 DEF Feds_of
<1> QED
  BY <1>1, <1>2, <1>3 DEF ws

(* Rewriting statuses keeps the length and the federations; the newest     *)
(* version is not touched when only older ones are meant.                  *)
LEMMA StatusFacts ==
  ASSUME NEW vs \in Seq(Version), NEW k \in Nat, NEW sweep \in Nat,
         NEW marked \in SUBSET (1..(Len(vs) - 1))
  PROVE  /\ Pending(vs, k) \in Seq(Version) /\ Len(Pending(vs, k)) = Len(vs)
         /\ Feds_of(Pending(vs, k)) = Feds_of(vs)
         /\ k < Len(vs) => Pending(vs, k)[Len(vs)] = vs[Len(vs)]
         /\ Completed(vs, marked, sweep) \in Seq(Version) /\ Len(Completed(vs, marked, sweep)) = Len(vs)
         /\ Feds_of(Completed(vs, marked, sweep)) = Feds_of(vs)
         /\ vs # <<>> => Completed(vs, marked, sweep)[Len(vs)] = vs[Len(vs)]
<1>0. Len(vs) \in Nat /\ (vs # <<>> => Len(vs) >= 1) /\ \A i \in 1..Len(vs) : vs[i] \in Version
  BY EmptySeq
<1>1. \A v \in Version : [v EXCEPT !.status = "pending"] \in Version
                        /\ [v EXCEPT !.status = "pending"].fed = v.fed
  BY DEF Version, Status
<1>2. \A v \in Version :
         LET w == [v EXCEPT !.status = "complete",
                            !.sweep = IF sweep = NoTx THEN @ ELSE sweep]
         IN w \in Version /\ w.fed = v.fed
  BY DEF Version, Status
<1>3. Pending(vs, k) \in [1..Len(vs) -> Version]
  BY <1>0, <1>1 DEF Pending
<1>4. Completed(vs, marked, sweep) \in [1..Len(vs) -> Version]
  BY <1>0, <1>2 DEF Completed
<1>5. \A i \in 1..Len(vs) : Pending(vs, k)[i].fed = vs[i].fed
  BY <1>0, <1>1 DEF Pending
<1>6. \A i \in 1..Len(vs) : Completed(vs, marked, sweep)[i].fed = vs[i].fed
  BY <1>0, <1>2 DEF Completed
<1>7. /\ Pending(vs, k) \in Seq(Version) /\ Len(Pending(vs, k)) = Len(vs)
      /\ Completed(vs, marked, sweep) \in Seq(Version) /\ Len(Completed(vs, marked, sweep)) = Len(vs)
  BY <1>0, <1>3, <1>4, SeqOfVersions
<1>8. Feds_of(Pending(vs, k)) = Feds_of(vs) /\ Feds_of(Completed(vs, marked, sweep)) = Feds_of(vs)
  BY <1>5, <1>6, <1>7 DEF Feds_of
<1>9. k < Len(vs) => Pending(vs, k)[Len(vs)] = vs[Len(vs)]
  BY <1>0 DEF Pending
<1>10. vs # <<>> => Completed(vs, marked, sweep)[Len(vs)] = vs[Len(vs)]
  BY <1>0 DEF Completed
<1> QED
  BY <1>7, <1>8, <1>9, <1>10

-----------------------------------------------------------------------------
(* Versions are only appended: no step takes one away from another run.    *)
VersionsGrow ==
  \A a \in Accounts :
    /\ Len(versions[a]) <= Len(versions'[a])
    /\ Feds_of(versions[a]) \subseteq Feds_of(versions'[a])

(* A run that does not move keeps what it knows.                           *)
LEMMA KeepTool ==
  ASSUME TrackInv, TypeOK', VersionsGrow, NEW t \in Tools, tool'[t] = tool[t]
  PROVE  ToolOK(t)'
<1>1. ToolOK(t) /\ tool[t].acct \in Accounts /\ tool[t].read \in Nat
  BY DEF TrackInv, TypeOK, Locals
<1>2. \A a \in Accounts : Len(versions[a]) \in Nat /\ Len(versions'[a]) \in Nat
  BY LenProperties DEF TrackInv, TypeOK
<1>3. \A f : \A a \in Accounts : HasFed(a, f) => HasFed(a, f)'
  BY DEF VersionsGrow, HasFed
<1>4. tool[t].read < Len(versions[tool[t].acct]) => tool[t].read < Len(versions'[tool[t].acct])
  BY <1>1, <1>2 DEF VersionsGrow
<1> QED
  BY <1>1, <1>3, <1>4, AccountAssumption DEF ToolOK

(* A step of one run, from what it writes and what it then knows.          *)
LEMMA ToolStepInv ==
  ASSUME TrackInv, TypeOK', VersionsGrow, LatestNotApplicable',
         NEW t \in Tools, NEW n,
         tool' = [tool EXCEPT ![t] = n],
         handed' = handed,
         \A c \in utxos' : c \in utxos \/ c.fed \in Feds_of(versions'[c.acct]),
         ~n.only,
         n.pc = "plan" => n.acct = 1,
         n.pc \in {"step1", "insert", "pending"} =>
           \A a \in Accounts : a < n.acct => n.target \in Feds_of(versions'[a]),
         n.pc = "pending" => /\ n.target \in Feds_of(versions'[n.acct])
                             /\ n.read < Len(versions'[n.acct]),
         n.pc \in {"confirm", "sweep"} =>
           \A a \in Accounts : n.target \in Feds_of(versions'[a]),
         n.pc = "sweep" => n.oldFed \in Feds_of(versions'[FeeAccount])
  PROVE  TrackInv'
<1>1. tool \in [Tools -> Locals]
  BY DEF TrackInv, TypeOK
<1>2. ToolOK(t)'
  BY <1>1 DEF ToolOK, HasFed
<1>3. ASSUME NEW s \in Tools, s # t PROVE ToolOK(s)'
  BY <1>1, <1>3, KeepTool
<1>4. \A f : \A a \in Accounts : HasFed(a, f) => HasFed(a, f)'
  BY DEF VersionsGrow, HasFed
<1>5. ASSUME ~BootFaults PROVE FundsTracked'
  <2> SUFFICES ASSUME NEW c \in utxos' PROVE HasFed(c.acct, c.fed)'
    BY DEF FundsTracked, HasFed
  <2>1. CASE c \in utxos
    <3>1. c.acct \in Accounts /\ HasFed(c.acct, c.fed)
      BY <1>5, <2>1 DEF TrackInv, TypeOK, Coin, FundsTracked, HasFed
    <3> QED
      BY <1>4, <3>1
  <2> QED
    BY <2>1 DEF HasFed
<1>6. ~BootFaults => \A a \in Accounts : \A f \in handed'[a] : HasFed(a, f)'
  BY <1>4 DEF TrackInv
<1> QED
  BY <1>2, <1>3, <1>5, <1>6 DEF TrackInv

(* Steps that leave the versions table alone.                              *)
LEMMA SameVersions ==
  ASSUME TrackInv, versions' = versions
  PROVE  VersionsGrow /\ LatestNotApplicable'
<1>1. \A a \in Accounts : Len(versions[a]) \in Nat
  BY LenProperties DEF TrackInv, TypeOK
<1> QED
  BY <1>1 DEF VersionsGrow, TrackInv, LatestNotApplicable

(* Rewriting the versions of one account.                                  *)
LEMMA OneAccount ==
  ASSUME TrackInv, NEW a \in Accounts, NEW ws \in Seq(Version),
         versions' = [versions EXCEPT ![a] = ws],
         Len(versions[a]) <= Len(ws), Feds_of(versions[a]) \subseteq Feds_of(ws),
         ws # <<>> => ws[Len(ws)].status = "not_applicable"
  PROVE  /\ VersionsGrow /\ LatestNotApplicable'
         /\ versions' \in [Accounts -> Seq(Version)]
         /\ versions'[a] = ws
<1>1. versions \in [Accounts -> Seq(Version)]
  BY DEF TrackInv, TypeOK
<1>2. versions' \in [Accounts -> Seq(Version)] /\ versions'[a] = ws
      /\ \A b \in Accounts : b # a => versions'[b] = versions[b]
  BY <1>1
<1>3. \A b \in Accounts : Len(versions[b]) \in Nat
  BY <1>1, LenProperties
<1>4. VersionsGrow
  BY <1>2, <1>3 DEF VersionsGrow
<1>5. LatestNotApplicable'
  BY <1>2 DEF TrackInv, LatestNotApplicable
<1> QED
  BY <1>2, <1>4, <1>5

(* Loading a wallet bootstraps version 0, unless the insert fails, and     *)
(* leaves the rest as it is.                                               *)
LEMMA LoadGrows ==
  ASSUME TrackInv, NEW a \in Accounts, LoadWallet(a)
  PROVE  /\ VersionsGrow /\ LatestNotApplicable'
         /\ versions' \in [Accounts -> Seq(Version)]
         /\ row' \in [Accounts -> Feds]
         /\ ~BootFaults => versions'[a] = Bootstrapped(versions[a])
<1> DEFINE b == Bootstrapped(versions[a])
<1>1. versions \in [Accounts -> Seq(Version)] /\ row \in [Accounts -> Feds]
  BY DEF TrackInv, TypeOK
<1>2. row' = [row EXCEPT ![a] = Latest(b)]
  BY DEF LoadWallet
<1>3. /\ b \in Seq(Version) /\ Latest(b) \in Feds
      /\ Len(versions[a]) <= Len(b) /\ Feds_of(versions[a]) \subseteq Feds_of(b)
      /\ (versions[a] # <<>> => versions[a][Len(versions[a])].status = "not_applicable") =>
           b[Len(b)].status = "not_applicable"
  BY <1>1, BootstrapFacts
<1>4. b[Len(b)].status = "not_applicable"
  BY <1>3 DEF TrackInv, LatestNotApplicable
<1>5. row' \in [Accounts -> Feds]
  BY <1>1, <1>2, <1>3
<1>6. CASE versions' = [versions EXCEPT ![a] = b]
  <2> HIDE DEF b
  <2> QED
    BY <1>3, <1>4, <1>5, <1>6, OneAccount DEF b
<1>7. CASE UNCHANGED versions /\ (versions[a] # <<>> \/ BootFaults)
  <2>1. VersionsGrow /\ LatestNotApplicable'
    BY <1>7, SameVersions
  <2>2. ~BootFaults => versions'[a] = Bootstrapped(versions[a])
    BY <1>7 DEF Bootstrapped
  <2> QED
    BY <1>1, <1>5, <1>7, <2>1, <2>2
<1> QED
  BY <1>6, <1>7 DEF LoadWallet

-----------------------------------------------------------------------------
(* The locals of a run that has ended.                                     *)
LEMMA EndedFacts == Ended \in Locals /\ Ended.pc = "idle" /\ ~Ended.only
<1> DEFINE none == [a \in Accounts |-> NoTx]
<1>1. none \in [Accounts -> Nat] /\ 1 \in Accounts /\ Fed0 \in Feds
  BY AccountAssumption, FedAssumption DEF Accounts, NoTx
<1> HIDE DEF none
<1>2. Ended = [pc |-> "idle", target |-> Fed0, only |-> FALSE, acct |-> 1,
               current |-> Fed0, plan |-> {}, read |-> 0, oldFed |-> Fed0,
               change |-> {}, left |-> {}, sweptBy |-> none, loadedAt |-> 0]
  BY DEF Ended, none
<1> QED
  BY <1>1, <1>2 DEF Locals, Stage

(* Each step of the tool.                                                  *)
LEMMA ToolKeeps ==
  ASSUME TrackInv, NEW t \in Tools, ToolStep(t)
  PROVE  TrackInv'
<1> DEFINE r == tool[t]
<1>0. /\ r \in Locals /\ ToolOK(t) /\ tool \in [Tools -> Locals]
      /\ versions \in [Accounts -> Seq(Version)]
      /\ utxos \subseteq Coin /\ txs \in Nat
      /\ claim \in [Accounts -> Nat]
      /\ r.acct \in Accounts /\ r.plan \subseteq Coin /\ r.target \in Feds
      /\ r.oldFed \in Feds /\ r.change \subseteq Coin /\ ~r.only
      /\ r.loadedAt \in Nat /\ r.sweptBy \in [Accounts -> Nat] /\ r.read \in Nat
  BY DEF TrackInv, TypeOK, Locals, ToolOK
<1>00. \A a \in Accounts : Len(versions[a]) \in Nat /\ versions[a] \in Seq(Version)
  BY <1>0, LenProperties
<1>000. N \in Nat /\ FeeAccount \in Accounts /\ Accounts = 1..N
  BY AccountAssumption DEF Accounts
<1> USE <1>0
<1>1. CASE EndRun(t)
  <2>1. tool' = [tool EXCEPT ![t] = Ended] /\ UNCHANGED <<versions, row, utxos, txs, runs, claim, appVars>>
    BY <1>1 DEF EndRun
  <2>2. TypeOK'
    BY <2>1, EndedFacts DEF TrackInv, TypeOK, appVars
  <2>3. VersionsGrow /\ LatestNotApplicable'
    BY <2>1, SameVersions
  <2> HIDE DEF r
  <2> QED
    BY <2>1, <2>2, <2>3, EndedFacts, ToolStepInv DEF appVars
<1>2. CASE LoadAccount(t)
  <2> DEFINE a == r.acct
             vs == Bootstrapped(versions[a])
             n(found) == [r EXCEPT !.pc = IF a = N THEN "plan" ELSE "load",
                   !.acct = IF a = N THEN 1 ELSE a + 1,
                   !.current = IF a = 1 THEN Latest(vs) ELSE r.current,
                   !.plan = r.plan \cup found]
  <2>1. PICK found \in {Found(a, vs)} \cup (IF SyncFaults THEN {{}} ELSE {}) :
           tool' = [tool EXCEPT ![t] = n(found)]
    BY <1>2 DEF LoadAccount
  <2>2. LoadWallet(a) /\ UNCHANGED <<utxos, txs, runs, claim, appVars>>
    BY <1>2 DEF LoadAccount
  <2>3. VersionsGrow /\ LatestNotApplicable'
        /\ versions' \in [Accounts -> Seq(Version)] /\ row' \in [Accounts -> Feds]
    BY <2>2, LoadGrows
  <2>4. found \subseteq Coin
    BY DEF Found
  <2>5. Latest(vs) \in Feds
    BY <1>00, BootstrapFacts
  <2>6. (IF a = N THEN 1 ELSE a + 1) \in Accounts
    BY NextAccount
  <2> HIDE DEF vs, a
  <2>7. n(found) \in Locals /\ n(found).pc \in {"plan", "load"} /\ ~n(found).only
        /\ (n(found).pc = "plan" => n(found).acct = 1)
    BY <2>4, <2>5, <2>6 DEF Locals, Stage
  <2> HIDE DEF n
  <2>8. TypeOK'
    BY <2>1, <2>2, <2>3, <2>7 DEF TrackInv, TypeOK, appVars
  <2> HIDE DEF r
  <2> QED
    BY <2>1, <2>2, <2>3, <2>7, <2>8, ToolStepInv DEF appVars
<1>3. CASE DecidePlan(t)
  <2> DEFINE n(pc) == [r EXCEPT !.pc = pc]
  <2>1. UNCHANGED <<versions, row, utxos, txs, runs, claim, appVars>> /\ r.acct = 1
    BY <1>3 DEF DecidePlan, ToolOK
  <2>2. PICK pc \in {"same", "step1"} : tool' = [tool EXCEPT ![t] = n(pc)]
    BY <1>3 DEF DecidePlan
  <2>3. n(pc) \in Locals /\ n(pc).pc = pc /\ ~n(pc).only /\ n(pc).acct = 1
    BY <2>1 DEF Locals, Stage
  <2> HIDE DEF n
  <2>4. TypeOK'
    BY <2>1, <2>2, <2>3 DEF TrackInv, TypeOK, appVars
  <2>5. VersionsGrow /\ LatestNotApplicable'
    BY <2>1, SameVersions
  <2>6. \A a \in Accounts : ~(a < 1)
    BY <1>000
  <2> HIDE DEF r
  <2> QED
    BY <2>1, <2>2, <2>3, <2>4, <2>5, <2>6, ToolStepInv DEF appVars
<1>4. CASE ReadVersions(t)
  <2> DEFINE n == [r EXCEPT !.pc = "insert", !.read = Len(versions[r.acct])]
  <2>1. /\ UNCHANGED <<versions, row, utxos, txs, runs, claim, appVars>>
        /\ tool' = [tool EXCEPT ![t] = n]
    BY <1>4 DEF ReadVersions
  <2>2. n \in Locals /\ n.pc = "insert" /\ ~n.only /\ n.acct = r.acct /\ n.target = r.target
    BY <1>00 DEF Locals, Stage
  <2>3. \A a \in Accounts : a < r.acct => r.target \in Feds_of(versions[a])
    BY <1>4 DEF ReadVersions, ToolOK, HasFed
  <2> HIDE DEF n
  <2>4. TypeOK'
    BY <2>1, <2>2 DEF TrackInv, TypeOK, appVars
  <2>5. VersionsGrow /\ LatestNotApplicable'
    BY <2>1, SameVersions
  <2> HIDE DEF r
  <2> QED
    BY <2>1, <2>2, <2>3, <2>4, <2>5, ToolStepInv DEF appVars
<1>5. CASE InsertVersion(t)
  <2> DEFINE n == [r EXCEPT !.pc = "pending"]
             a == r.acct
             ws == Append(versions[a], NewVersion(r.target))
  <2>1. /\ UNCHANGED <<row, utxos, txs, runs, claim, appVars>>
        /\ tool' = [tool EXCEPT ![t] = n]
        /\ versions' = [versions EXCEPT ![a] = ws]
        /\ Len(versions[a]) = r.read
    BY <1>5 DEF InsertVersion
  <2>2. /\ n \in Locals /\ n.pc = "pending" /\ ~n.only /\ n.acct = a
        /\ n.target = r.target /\ n.read = r.read
    BY DEF Locals, Stage
  <2>3. \A b \in Accounts : b < a => r.target \in Feds_of(versions[b])
    BY <1>5 DEF InsertVersion, ToolOK, HasFed
  <2>4. /\ ws \in Seq(Version) /\ Len(ws) = Len(versions[a]) + 1
        /\ Feds_of(versions[a]) \subseteq Feds_of(ws) /\ r.target \in Feds_of(ws)
        /\ ws[Len(ws)].status = "not_applicable"
    BY <1>00, AppendFacts
  <2> HIDE DEF n, ws, a
  <2>0. a \in Accounts
    BY DEF a
  <2>5. /\ VersionsGrow /\ LatestNotApplicable'
        /\ versions' \in [Accounts -> Seq(Version)] /\ versions'[a] = ws
    <3>1. Len(versions[a]) <= Len(ws)
      BY <1>00, <2>0, <2>4
    <3> QED
      BY <2>0, <2>1, <2>4, <3>1, OneAccount
  <2>8. TypeOK'
    BY <2>1, <2>2, <2>5 DEF TrackInv, TypeOK, appVars
  <2>9. \A b \in Accounts : b < a => r.target \in Feds_of(versions'[b])
    BY <2>3, <2>5 DEF VersionsGrow
  <2>10. r.read < Len(versions'[a])
    BY <1>00, <2>0, <2>1, <2>4, <2>5
  <2> HIDE DEF r
  <2> QED
    BY <2>1, <2>2, <2>4, <2>5, <2>8, <2>9, <2>10, ToolStepInv DEF appVars
<1>6. CASE SetPending(t)
  <2> DEFINE a == r.acct
             n == [r EXCEPT !.pc = IF a = N THEN "confirm" ELSE "step1",
                            !.acct = IF a = N THEN 1 ELSE a + 1]
  <2>1. PICK ws \in {versions[a], Pending(versions[a], r.read)} :
           versions' = [versions EXCEPT ![a] = ws]
    BY <1>6 DEF SetPending
  <2>2. /\ UNCHANGED <<row, utxos, txs, runs, claim, appVars>>
        /\ tool' = [tool EXCEPT ![t] = n]
    BY <1>6 DEF SetPending
  <2>3. /\ r.read < Len(versions[a]) /\ r.target \in Feds_of(versions[a])
        /\ \A b \in Accounts : b < a => r.target \in Feds_of(versions[b])
    BY <1>6 DEF SetPending, ToolOK, HasFed
  <2>4. (IF a = N THEN 1 ELSE a + 1) \in Accounts /\ a \in Accounts
    BY NextAccount
  <2>5. /\ n \in Locals /\ ~n.only /\ n.target = r.target
        /\ \/ n.pc = "confirm" /\ a = N
           \/ n.pc = "step1" /\ n.acct = a + 1
    BY <2>4 DEF Locals, Stage
  <2> DEFINE vs == versions[a]
  <2>6. vs \in Seq(Version) /\ Len(vs) \in Nat /\ vs # <<>>
        /\ vs[Len(vs)].status = "not_applicable"
    <3>1. vs \in Seq(Version) /\ Len(vs) \in Nat
      BY <1>00, <2>4
    <3>2. vs # <<>>
      BY <2>3, <3>1, EmptySeq
    <3> QED
      BY <2>4, <3>1, <3>2 DEF TrackInv, LatestNotApplicable
  <2> HIDE DEF n, a
  <2>7. ws \in Seq(Version) /\ Len(ws) = Len(vs) /\ Feds_of(ws) = Feds_of(vs)
        /\ ws[Len(vs)] = vs[Len(vs)]
    <3> HIDE DEF vs
    <3>1. /\ Pending(vs, r.read) \in Seq(Version) /\ Len(Pending(vs, r.read)) = Len(vs)
          /\ Feds_of(Pending(vs, r.read)) = Feds_of(vs)
          /\ r.read < Len(vs) => Pending(vs, r.read)[Len(vs)] = vs[Len(vs)]
      BY <2>6, StatusFacts
    <3>2. ws \in {vs, Pending(vs, r.read)} /\ r.read < Len(vs)
      BY <2>1, <2>3 DEF vs
    <3> QED
      BY <2>6, <3>1, <3>2
  <2>8. /\ VersionsGrow /\ LatestNotApplicable'
        /\ versions' \in [Accounts -> Seq(Version)]
    <3>1. Len(vs) <= Len(ws)
      BY <2>6, <2>7
    <3> QED
      BY <2>1, <2>4, <2>6, <2>7, <3>1, OneAccount
  <2>10. TypeOK'
    BY <2>2, <2>5, <2>8 DEF TrackInv, TypeOK, appVars
  <2>11. \A b \in Accounts : b < a + 1 => r.target \in Feds_of(versions'[b])
    <3>1. \A b \in Accounts : b < a + 1 => b < a \/ b = a
      BY <1>000, <2>4
    <3> QED
      BY <2>3, <2>8, <3>1 DEF VersionsGrow
  <2>12. a = N => \A b \in Accounts : r.target \in Feds_of(versions'[b])
    BY <1>000, <2>11
  <2> HIDE DEF r
  <2> QED
    BY <2>2, <2>5, <2>8, <2>10, <2>11, <2>12, ToolStepInv DEF appVars
<1>7. CASE ConfirmSweep(t)
  <2> DEFINE vs == versions[FeeAccount]
             n == [r EXCEPT !.pc = "sweep",
                            !.oldFed = vs[Len(vs) - 1].fed,
                            !.change = PlanOf(r, FeeAccount),
                            !.left = {c.acct : c \in r.plan} \ {FeeAccount}]
  <2>1. /\ UNCHANGED <<versions, row, utxos, txs, runs, claim, appVars>>
        /\ tool' = [tool EXCEPT ![t] = n] /\ Len(vs) >= 2
    BY <1>7 DEF ConfirmSweep
  <2>2. Len(vs) - 1 \in 1..Len(vs) /\ vs[Len(vs) - 1] \in Version
    BY <1>00, <1>000, <2>1
  <2>3. vs[Len(vs) - 1].fed \in Feds_of(vs) /\ vs[Len(vs) - 1].fed \in Feds
    BY <2>2 DEF Feds_of, Version
  <2>4. PlanOf(r, FeeAccount) \subseteq Coin /\ {c.acct : c \in r.plan} \subseteq Accounts
    BY DEF PlanOf, Coin
  <2>5. \A a \in Accounts : r.target \in Feds_of(versions[a])
    BY <1>7 DEF ConfirmSweep, ToolOK, HasFed
  <2>6. /\ n \in Locals /\ n.pc = "sweep" /\ ~n.only /\ n.target = r.target
        /\ n.oldFed = vs[Len(vs) - 1].fed
    BY <2>3, <2>4 DEF Locals, Stage
  <2> HIDE DEF n
  <2>7. TypeOK'
    BY <2>1, <2>6 DEF TrackInv, TypeOK, appVars
  <2>8. VersionsGrow /\ LatestNotApplicable'
    BY <2>1, SameVersions
  <2> HIDE DEF r
  <2> QED
    BY <2>1, <2>3, <2>5, <2>6, <2>7, <2>8, ToolStepInv DEF appVars
<1>8. ASSUME NEW S \in SUBSET Accounts, SweepCustomers(t, S) PROVE TrackInv'
  <2> DEFINE inputs == SweepInputs(r, S)
             change == NewCoin(FeeAccount, r.oldFed, FALSE)
             paid == {NewCoin(a, r.target, FALSE) : a \in S}
             by == RecordSweep(r, S)
             n == [r EXCEPT !.left = r.left \ S, !.change = {change}, !.sweptBy = by]
  <2>1. /\ tool' = [tool EXCEPT ![t] = n] /\ txs' = txs + 1
        /\ utxos' = (utxos \ inputs) \cup paid \cup {change}
        /\ UNCHANGED <<versions, row, runs, claim, appVars>>
        /\ r.pc = "sweep"
    BY <1>8 DEF SweepCustomers
  <2>2. change \in Coin /\ change.acct = FeeAccount /\ change.fed = r.oldFed
    BY <1>000 DEF NewCoin, Coin
  <2>3. \A c \in paid : c \in Coin /\ c.acct \in Accounts /\ c.fed = r.target
    <3>1. ASSUME NEW c \in paid PROVE c \in Coin /\ c.acct \in Accounts /\ c.fed = r.target
      <4>1. PICK a \in S : c = NewCoin(a, r.target, FALSE)
        BY <3>1
      <4>2. a \in Accounts
        OBVIOUS
      <4> HIDE DEF r
      <4> QED
        BY <4>1, <4>2 DEF NewCoin, Coin
    <3> QED
      BY <3>1
  <2>4. by \in [Accounts -> Nat]
    BY DEF RecordSweep
  <2> HIDE DEF change, paid, by, inputs
  <2>5. /\ n \in Locals /\ n.pc = "sweep" /\ ~n.only /\ n.target = r.target
        /\ n.oldFed = r.oldFed
    BY <2>1, <2>2, <2>4 DEF Locals
  <2> HIDE DEF n
  <2>6. TypeOK'
    BY <2>1, <2>2, <2>3, <2>5 DEF TrackInv, TypeOK, appVars
  <2>7. VersionsGrow /\ LatestNotApplicable'
    BY <2>1, SameVersions
  <2>8. /\ r.oldFed \in Feds_of(versions[FeeAccount])
        /\ \A a \in Accounts : r.target \in Feds_of(versions[a])
    BY <2>1 DEF ToolOK, HasFed
  <2>9. \A c \in utxos' : c \in utxos \/ c.fed \in Feds_of(versions'[c.acct])
    BY <2>1, <2>2, <2>3, <2>8
  <2> HIDE DEF r
  <2> QED
    BY <2>1, <2>5, <2>6, <2>7, <2>8, <2>9, ToolStepInv DEF appVars
<1>9. CASE SweepFeeAccount(t)
  <2> DEFINE paid == NewCoin(FeeAccount, r.target, FALSE)
             n == [r EXCEPT !.pc = "mark", !.change = {}]
  <2>1. /\ tool' = [tool EXCEPT ![t] = n] /\ txs' = txs + 1
        /\ utxos' = (utxos \ r.change) \cup {paid}
        /\ UNCHANGED <<versions, row, runs, claim, appVars>>
        /\ r.pc = "sweep"
    BY <1>9 DEF SweepFeeAccount
  <2>2. paid \in Coin /\ paid.acct = FeeAccount /\ paid.fed = r.target
    BY <1>000 DEF NewCoin, Coin
  <2>3. n \in Locals /\ n.pc = "mark" /\ ~n.only
    BY DEF Locals, Stage
  <2> HIDE DEF paid, n
  <2>4. TypeOK'
    BY <2>1, <2>2, <2>3 DEF TrackInv, TypeOK, appVars
  <2>5. VersionsGrow /\ LatestNotApplicable'
    BY <2>1, SameVersions
  <2>6. r.target \in Feds_of(versions[FeeAccount])
    BY <1>000, <2>1 DEF ToolOK, HasFed
  <2>7. \A c \in utxos' : c \in utxos \/ c.fed \in Feds_of(versions'[c.acct])
    BY <2>1, <2>2, <2>6
  <2> HIDE DEF r
  <2> QED
    BY <2>1, <2>3, <2>4, <2>5, <2>7, ToolStepInv DEF appVars
<1>10. CASE MarkAccount(t)
  <2>0. PICK marked \in SUBSET (1..(Len(versions[r.acct]) - 1)) :
          versions' = [versions EXCEPT ![r.acct] =
                         Completed(versions[r.acct], marked, r.sweptBy[r.acct])]
    BY <1>10 DEF MarkAccount
  <2> DEFINE a == r.acct
             vs == versions[a]
             ws == Completed(vs, marked, r.sweptBy[a])
             n == IF a = N THEN Ended ELSE [r EXCEPT !.acct = a + 1]
  <2>1. /\ tool' = [tool EXCEPT ![t] = n]
        /\ versions' = [versions EXCEPT ![a] = ws]
        /\ claim' = [claim EXCEPT ![a] = r.loadedAt]
        /\ UNCHANGED <<row, utxos, txs, runs, appVars>>
        /\ r.pc = "mark"
    BY <1>10, <2>0 DEF MarkAccount
  <2>2. a # N => a + 1 \in Accounts
    BY NextAccount
  <2>3. n \in Locals /\ n.pc \in {"idle", "mark"} /\ ~n.only
    BY <2>1, <2>2, EndedFacts DEF Locals
  <2>4. marked \in SUBSET (1..(Len(vs) - 1)) /\ vs \in Seq(Version) /\ Len(vs) \in Nat
        /\ r.sweptBy[a] \in Nat /\ a \in Accounts
        /\ (vs # <<>> => vs[Len(vs)].status = "not_applicable")
    BY <1>00 DEF TrackInv, LatestNotApplicable
  <2> HIDE DEF n, vs, a
  <2>5. /\ ws \in Seq(Version) /\ Len(ws) = Len(vs) /\ Feds_of(ws) = Feds_of(vs)
        /\ vs # <<>> => ws[Len(vs)] = vs[Len(vs)]
    <3>1. \A k \in Nat : Len(Pending(vs, k)) = Len(vs)
      BY <2>4, StatusFacts
    <3> QED
      BY <2>4, StatusFacts
  <2> HIDE DEF ws
  <2>6. ws # <<>> => ws[Len(ws)].status = "not_applicable"
    <3>1. vs = <<>> => Len(ws) = 0
      BY <2>4, <2>5, EmptySeq
    <3> QED
      BY <2>4, <2>5, <3>1, EmptySeq
  <2>7. /\ VersionsGrow /\ LatestNotApplicable'
        /\ versions' \in [Accounts -> Seq(Version)]
    <3>1. Len(vs) <= Len(ws) /\ Feds_of(vs) \subseteq Feds_of(ws)
      BY <2>4, <2>5
    <3>2. Len(versions[a]) <= Len(ws) /\ Feds_of(versions[a]) \subseteq Feds_of(ws)
      BY <3>1 DEF vs
    <3> QED
      BY <2>1, <2>4, <2>5, <2>6, <3>2, OneAccount
  <2>8. claim' \in [Accounts -> Nat]
    BY <2>1, <2>4
  <2>9. TypeOK'
    BY <2>1, <2>3, <2>7, <2>8 DEF TrackInv, TypeOK, appVars
  <2> HIDE DEF r
  <2> QED
    BY <2>1, <2>3, <2>7, <2>9, ToolStepInv DEF appVars
<1> QED
  BY <1>1, <1>2, <1>3, <1>4, <1>5, <1>6, <1>7, <1>8, <1>9, <1>10 DEF ToolStep

(* The operator's start of a run, and the application's steps.             *)
LEMMA StartKeeps ==
  ASSUME TrackInv, NEW t \in Tools, NEW f \in Feds, NEW only \in BOOLEAN,
         StartRun(t, f, only)
  PROVE  TrackInv'
<1> DEFINE n == [Ended EXCEPT !.pc = "load", !.target = f, !.only = only, !.loadedAt = txs]
<1>1. /\ tool' = [tool EXCEPT ![t] = n] /\ runs < MaxRuns /\ runs' = runs + 1
      /\ UNCHANGED <<versions, row, utxos, txs, claim, appVars>>
      /\ ~only
  BY DEF StartRun, TrackInv
<1>2. tool \in [Tools -> Locals] /\ txs \in Nat /\ runs \in 0..MaxRuns /\ MaxRuns \in Nat
  BY FedAssumption DEF TrackInv, TypeOK
<1>3. n \in Locals /\ n.pc = "load" /\ ~n.only
  <2> USE <1>1, <1>2, EndedFacts
  <2> HIDE DEF Ended
  <2> QED
    BY DEF Locals, Stage
<1>4. VersionsGrow /\ LatestNotApplicable'
  BY <1>1, SameVersions
<1> HIDE DEF n
<1>5. TypeOK'
  BY <1>1, <1>2, <1>3 DEF TrackInv, TypeOK, appVars
<1> QED
  BY <1>1, <1>3, <1>4, <1>5, ToolStepInv DEF appVars

LEMMA AppKeeps ==
  ASSUME TrackInv, TypeOK', VersionsGrow, LatestNotApplicable', tool' = tool,
         ~BootFaults => \A c \in utxos' : c \in utxos \/ c.fed \in Feds_of(versions'[c.acct]),
         ~BootFaults => \A a \in Accounts : \A f \in handed'[a] :
           f \in handed[a] \/ f \in Feds_of(versions'[a])
  PROVE  TrackInv'
<1>1. \A t \in Tools : ToolOK(t)'
  BY KeepTool
<1>2. \A f : \A a \in Accounts : HasFed(a, f) => HasFed(a, f)'
  BY DEF VersionsGrow, HasFed
<1>3. ASSUME ~BootFaults PROVE FundsTracked'
  <2> SUFFICES ASSUME NEW c \in utxos' PROVE HasFed(c.acct, c.fed)'
    BY DEF FundsTracked, HasFed
  <2>1. CASE c \in utxos
    <3>1. c.acct \in Accounts /\ HasFed(c.acct, c.fed)
      BY <1>3, <2>1 DEF TrackInv, TypeOK, Coin, FundsTracked, HasFed
    <3> QED
      BY <1>2, <3>1
  <2> QED
    BY <1>3, <2>1 DEF HasFed
<1>4. ASSUME ~BootFaults PROVE \A a \in Accounts : \A f \in handed'[a] : HasFed(a, f)'
  <2> SUFFICES ASSUME NEW a \in Accounts, NEW f \in handed'[a] PROVE HasFed(a, f)'
    OBVIOUS
  <2>1. CASE f \in handed[a]
    BY <1>2, <1>4, <2>1 DEF TrackInv
  <2> QED
    BY <1>4, <2>1 DEF HasFed
<1> QED
  BY <1>1, <1>3, <1>4 DEF TrackInv

(* The initial state, and every step.                                      *)
LEMMA TrackInit ==
  ASSUME ~AllowSweepOnly, Init
  PROVE  TrackInv
<1> DEFINE none == [a \in Accounts |-> <<>>]
<1>1. versions = none /\ none \in [Accounts -> Seq(Version)]
  BY DEF Init
<1>2. TypeOK
  BY <1>1, EndedFacts, FedAssumption DEF Init, TypeOK
<1>3. LatestNotApplicable
  BY <1>1 DEF LatestNotApplicable
<1>4. FundsTracked
  BY DEF Init, FundsTracked
<1>5. \A t \in Tools : ToolOK(t)
  BY EndedFacts DEF Init, ToolOK
<1>6. \A a \in Accounts : handed[a] = {}
  BY DEF Init
<1> QED
  BY <1>2, <1>3, <1>4, <1>5, <1>6 DEF TrackInv

LEMMA TrackStep ==
  ASSUME TrackInv, [Next]_vars
  PROVE  TrackInv'
<1>0. /\ utxos \subseteq Coin /\ txs \in Nat /\ deposits \in 0..MaxDeposits
      /\ MaxDeposits \in Nat /\ served \in [Accounts -> SUBSET Feds]
      /\ handed \in [Accounts -> SUBSET Feds]
      /\ versions \in [Accounts -> Seq(Version)]
  BY FedAssumption DEF TrackInv, TypeOK
<1>1. ASSUME NEW t \in Tools, NEW f \in Feds, NEW only \in BOOLEAN, StartRun(t, f, only)
      PROVE  TrackInv'
  BY <1>1, StartKeeps
<1>2. ASSUME NEW t \in Tools, ToolStep(t) PROVE TrackInv'
  BY <1>2, ToolKeeps
<1>3. ASSUME NEW a \in Accounts, AppLoad(a) PROVE TrackInv'
  <2> DEFINE b == Bootstrapped(versions[a])
             f == Latest(b)
  <2>1. /\ LoadWallet(a) /\ served' = [served EXCEPT ![a] = {f}]
        /\ handed' = [handed EXCEPT ![a] = @ \cup {f}]
        /\ UNCHANGED <<utxos, txs, tool, runs, deposits, claim>>
    BY <1>3 DEF AppLoad
  <2>2. /\ VersionsGrow /\ LatestNotApplicable'
        /\ versions' \in [Accounts -> Seq(Version)] /\ row' \in [Accounts -> Feds]
        /\ ~BootFaults => versions'[a] = b
    BY <2>1, LoadGrows
  <2>3. f \in Feds /\ (~BootFaults => f \in Feds_of(versions'[a]))
    BY <1>0, <2>2, BootstrapFacts
  <2> HIDE DEF f
  <2>4. TypeOK'
    BY <1>0, <2>1, <2>2, <2>3 DEF TrackInv, TypeOK
  <2>5. ~BootFaults => \A c \in Accounts : \A g \in handed'[c] :
          g \in handed[c] \/ g \in Feds_of(versions'[c])
    BY <1>0, <2>1, <2>3
  <2> QED
    BY <2>1, <2>2, <2>4, <2>5, AppKeeps
<1>4. ASSUME NEW a \in Accounts, AppSend(a) PROVE TrackInv'
  <2>1. /\ utxos' \subseteq utxos /\ txs' = txs + 1
        /\ UNCHANGED <<versions, row, tool, runs, claim, appVars>>
    BY <1>4 DEF AppSend
  <2>2. VersionsGrow /\ LatestNotApplicable'
    BY <2>1, SameVersions
  <2>3. TypeOK'
    BY <1>0, <2>1 DEF TrackInv, TypeOK, appVars
  <2> QED
    BY <2>1, <2>2, <2>3, AppKeeps DEF appVars
<1>5. ASSUME NEW a \in Accounts, NEW f \in Feds, Deposit(a, f) PROVE TrackInv'
  <2> DEFINE c == NewCoin(a, f, TRUE)
  <2>1. /\ utxos' = utxos \cup {c} /\ txs' = txs + 1 /\ f \in handed[a]
        /\ deposits < MaxDeposits /\ deposits' = deposits + 1
        /\ UNCHANGED <<versions, row, served, handed, tool, runs, claim>>
    BY <1>5 DEF Deposit
  <2>2. c \in Coin /\ c.acct = a /\ c.fed = f
    BY <1>0 DEF NewCoin, Coin
  <2> HIDE DEF c
  <2>3. ~BootFaults => f \in Feds_of(versions[a])
    BY <2>1 DEF TrackInv, HasFed
  <2>4. VersionsGrow /\ LatestNotApplicable'
    BY <2>1, SameVersions
  <2>5. TypeOK'
    BY <1>0, <2>1, <2>2 DEF TrackInv, TypeOK
  <2>6. ~BootFaults => \A d \in utxos' : d \in utxos \/ d.fed \in Feds_of(versions'[d.acct])
    BY <2>1, <2>2, <2>3
  <2> QED
    BY <2>1, <2>4, <2>5, <2>6, AppKeeps
<1>6. CASE AppRestart
  <2>1. /\ served' = [a \in Accounts |-> {}]
        /\ UNCHANGED <<versions, row, utxos, txs, handed, tool, runs, deposits, claim>>
    BY <1>6 DEF AppRestart
  <2>2. VersionsGrow /\ LatestNotApplicable'
    BY <2>1, SameVersions
  <2>3. TypeOK'
    BY <1>0, <2>1 DEF TrackInv, TypeOK
  <2> QED
    BY <2>1, <2>2, <2>3, AppKeeps
<1>7. CASE UNCHANGED vars
  <2>1. VersionsGrow /\ LatestNotApplicable'
    BY <1>7, SameVersions DEF vars
  <2>2. TypeOK'
    BY <1>7 DEF TrackInv, TypeOK, vars
  <2> QED
    BY <1>7, <2>1, <2>2, AppKeeps DEF vars
<1> QED
  BY <1>1, <1>2, <1>3, <1>4, <1>5, <1>6, <1>7 DEF Next

-----------------------------------------------------------------------------
(* The inductive invariant, as long as the operator never passes           *)
(* --sweep-only, however many invocations of the tool overlap and wherever *)
(* each of them stops.  What it says of coins needs version 0 recorded.    *)
THEOREM TrackInvariant == ~AllowSweepOnly /\ Spec => []TrackInv
<1>1. ~AllowSweepOnly /\ Init => TrackInv
  BY TrackInit
<1>2. TrackInv /\ [Next]_vars => TrackInv'
  BY TrackStep
<1> QED
  BY <1>1, <1>2, PTL DEF Spec

(* Without --sweep-only, and as long as the insert of version 0 whose      *)
(* error build_federated_wallet drops succeeds, no coin ever lies at a     *)
(* federation that is not recorded for its account: after a restart the    *)
(* application can rebuild the wallet that holds it.                       *)
THEOREM MigrationFundsTracked ==
  ~AllowSweepOnly /\ ~BootFaults /\ Spec => []FundsTracked
<1> SUFFICES ASSUME ~BootFaults PROVE ~AllowSweepOnly /\ Spec => []FundsTracked
  OBVIOUS
<1>1. TrackInv => FundsTracked
  BY DEF TrackInv
<1> QED
  BY <1>1, TrackInvariant, PTL

(* The newest version of an account stays 'not_applicable', whatever order *)
(* overlapping runs insert and mark in (0006_migration_status.sql).        *)
THEOREM MigrationLatestNotApplicable == ~AllowSweepOnly /\ Spec => []LatestNotApplicable
<1>1. TrackInv => LatestNotApplicable
  BY DEF TrackInv
<1> QED
  BY <1>1, TrackInvariant, PTL

(* Type correctness of the migration without --sweep-only.                 *)
THEOREM MigrationTypeCorrect == ~AllowSweepOnly /\ Spec => []TypeOK
<1>1. TrackInv => TypeOK
  BY DEF TrackInv
<1> QED
  BY <1>1, TrackInvariant, PTL

-----------------------------------------------------------------------------
(***************************************************************************)
(* CompleteMeansSwept, for invocations that do not overlap, without        *)
(* --sweep-only and with syncs that succeed.  A run has to know, from its  *)
(* discovery loop to its last update, where every coin is that it owes a   *)
(* sweep; and a coin at the newest version must not be at an older one     *)
(* too, so the federations of an account have to be distinct.              *)
(***************************************************************************)
OneTool == \A t, u \in Tools : t = u

(* Of the versions of one account: the newest, the ones before it, the     *)
(* second to last one, and no federation twice.                            *)
TopAt(vs, f) == vs # <<>> /\ Latest(vs) = f
OlderNot(vs, f) == \A i \in 1..(Len(vs) - 1) : vs[i].fed # f
PrevOpen(vs) == Len(vs) >= 2 => vs[Len(vs) - 1].status # "complete"
Distinct(vs) == \A i, j \in 1..Len(vs) : vs[i].fed = vs[j].fed => i = j

(* The first account is the first in every loop of the tool: it has every  *)
(* federation that any account has.                                        *)
VersionsOK(vv) ==
  /\ \A a \in Accounts : Distinct(vv[a]) /\ Feds_of(vv[a]) \subseteq Feds_of(vv[1]) \cup {Fed0}
  /\ vv[1] # <<>> => Fed0 \in Feds_of(vv[1])

(* CompleteMeansSwept of given versions, coins and history.                *)
Swept(vv, uu, cl) ==
  \A c \in uu : \A i \in 1..(Len(vv[c.acct]) - 1) :
    vv[c.acct][i].status = "complete" /\ vv[c.acct][i].fed = c.fed =>
      c.deposit /\ c.tx > cl[c.acct]

(* The accounts a run has loaded, has recorded the new version for, and    *)
(* has still to record it for.                                             *)
Loaded(r) == {a \in Accounts : r.pc # "idle" /\ (r.pc = "load" => a < r.acct)}
Processed(r) == {a \in Accounts : \/ r.pc \in {"step1", "insert"} /\ a < r.acct
                                  \/ r.pc = "pending" /\ a <= r.acct
                                  \/ r.pc \in {"confirm", "sweep"}}
Unprocessed(r) == {a \in Accounts : \/ r.pc \in {"step1", "insert"} /\ a >= r.acct
                                    \/ r.pc = "pending" /\ a > r.acct}

(* What a run knows of the versions.                                       *)
Knows(r, vv) ==
  /\ \A a \in Loaded(r) : vv[a] # <<>>
  /\ \A a \in Processed(r) : TopAt(vv[a], r.target) /\ PrevOpen(vv[a])
  /\ \A a \in Unprocessed(r) : r.target \notin Feds_of(vv[a])
  /\ r.pc \in {"load", "plan"} =>
       /\ \A a \in Accounts : OlderNot(vv[a], r.target)
       /\ 1 \in Loaded(r) => Latest(vv[1]) = r.current
  /\ r.pc = "sweep" => /\ Len(vv[FeeAccount]) >= 2
                       /\ vv[FeeAccount][Len(vv[FeeAccount]) - 1].fed = r.oldFed

(* The coins a run owes a sweep, and those its remaining transactions      *)
(* spend.                                                                  *)
Due(r, c) == ~c.deposit \/ c.tx <= r.loadedAt
Planned(r, c) == IF c.acct = FeeAccount THEN c \in r.change
                                        ELSE c \in r.plan /\ c.acct \in r.left

(* What a run knows of the coins.                                          *)
Covers(r, vv, uu) ==
  /\ r.pc \in {"load", "plan", "step1", "insert", "pending", "confirm"} =>
       \A c \in uu : Due(r, c) /\ c.acct \in Loaded(r) => c \in r.plan
  /\ r.pc = "sweep" =>
       \A c \in uu : Due(r, c) => Planned(r, c) \/ TopAt(vv[c.acct], c.fed)
  /\ r.pc = "mark" => \A c \in uu : Due(r, c) => TopAt(vv[c.acct], c.fed)

(* Nothing is numbered beyond the last transaction.                        *)
Numbered(uu, cl, last) ==
  /\ \A c \in uu : c.tx <= last
  /\ \A a \in Accounts : cl[a] <= last

SweptInv ==
  /\ OneTool /\ ~SyncFaults /\ ~BootFaults
  /\ VersionsOK(versions)
  /\ Numbered(utxos, claim, txs)
  /\ Swept(versions, utxos, claim)
  /\ \A t \in Tools : /\ tool[t].loadedAt <= txs
                      /\ Knows(tool[t], versions)
                      /\ Covers(tool[t], versions, utxos)

-----------------------------------------------------------------------------
(* Of the invocations only the one that moves is anything but idle.        *)
LEMMA MoveOne ==
  ASSUME TrackInv, SweptInv, NEW t \in Tools, NEW n, tool' = [tool EXCEPT ![t] = n],
         VersionsOK(versions'), Numbered(utxos', claim', txs'),
         Swept(versions', utxos', claim'),
         n.loadedAt <= txs', Knows(n, versions'), Covers(n, versions', utxos')
  PROVE  SweptInv'
<1>1. tool \in [Tools -> Locals] /\ \A u \in Tools : u = t
  BY DEF TrackInv, TypeOK, SweptInv, OneTool
<1>2. \A u \in Tools : tool'[u] = n
  BY <1>1
<1> QED
  BY <1>2 DEF SweptInv

(* Loading a wallet changes the versions of an account only from none to   *)
(* version 0.                                                              *)
Booted(vv, ww) ==
  \A a \in Accounts : ww[a] = vv[a] \/ (vv[a] = <<>> /\ ww[a] = <<NewVersion(Fed0)>>)

LEMMA OneVersion ==
  ASSUME NEW vs, vs = <<NewVersion(Fed0)>>
  PROVE  /\ Len(vs) = 1 /\ vs # <<>> /\ vs[1].fed = Fed0
         /\ Feds_of(vs) = {Fed0} /\ Distinct(vs) /\ Latest(vs) = Fed0
<1>1. Len(vs) = 1 /\ vs[1] = NewVersion(Fed0) /\ vs # <<>>
  OBVIOUS
<1>2. vs[1].fed = Fed0
  BY <1>1 DEF NewVersion
<1>3. \A i \in 1..1 : i = 1
  OBVIOUS
<1> QED
  BY <1>1, <1>2, <1>3 DEF Feds_of, Distinct, Latest

(* The invariant's facts about versions and coins survive such a load, and *)
(* coins that are spent or come in as later deposits.                      *)
LEMMA EnvironmentVersions ==
  ASSUME NEW vv, NEW ww, NEW uu, NEW cl, Booted(vv, ww), VersionsOK(vv), Swept(vv, uu, cl),
         uu \subseteq Coin
  PROVE  VersionsOK(ww) /\ Swept(ww, uu, cl)
<1>0. 1 \in Accounts
  BY AccountAssumption DEF Accounts
<1>1. \A a \in Accounts : Distinct(ww[a])
  BY OneVersion DEF Booted, VersionsOK
<1>2. Feds_of(<<>>) = {}
  BY DEF Feds_of
<1>3. Feds_of(vv[1]) \subseteq Feds_of(ww[1])
  BY <1>0, <1>2 DEF Booted
<1>4. \A a \in Accounts : Feds_of(ww[a]) \subseteq Feds_of(vv[1]) \cup {Fed0}
  BY OneVersion DEF Booted, VersionsOK
<1>5. ww[1] # <<>> => Fed0 \in Feds_of(ww[1])
  BY <1>0, OneVersion DEF Booted, VersionsOK
<1>6. VersionsOK(ww)
  BY <1>1, <1>3, <1>4, <1>5 DEF VersionsOK
<1>7. ASSUME NEW c \in uu, NEW i \in 1..(Len(ww[c.acct]) - 1),
             ww[c.acct][i].status = "complete", ww[c.acct][i].fed = c.fed
      PROVE  c.deposit /\ c.tx > cl[c.acct]
  <2>1. c.acct \in Accounts
    BY DEF Coin
  <2>2. CASE ww[c.acct] = vv[c.acct]
    BY <1>7, <2>2 DEF Swept
  <2>3. CASE ww[c.acct] = <<NewVersion(Fed0)>>
    <3>1. Len(ww[c.acct]) = 1
      BY <2>3, OneVersion
    <3>2. i \in 1..0
      BY <3>1
    <3> QED
      BY <3>2
  <2> QED
    BY <2>1, <2>2, <2>3 DEF Booted
<1> QED
  BY <1>6, <1>7 DEF Swept

LEMMA EnvironmentRun ==
  ASSUME NEW vv, NEW ww, NEW uu, NEW nu, NEW r \in Locals,
         Booted(vv, ww), Knows(r, vv), Covers(r, vv, uu), uu \subseteq Coin,
         \A c \in nu : c \in uu \/ ~Due(r, c)
  PROVE  Knows(r, ww) /\ Covers(r, ww, nu)
<1>0. 1 \in Accounts /\ FeeAccount \in Accounts
  BY AccountAssumption DEF Accounts
<1>1. \A a \in Accounts : vv[a] # <<>> => ww[a] = vv[a]
  BY DEF Booted
<1>2. \A a \in Accounts : ww[a] = vv[a] \/ Len(ww[a]) = 1
  BY OneVersion DEF Booted
<1>3. \A a \in Loaded(r) : a \in Accounts /\ ww[a] = vv[a] /\ ww[a] # <<>>
  BY <1>1 DEF Knows, Loaded
<1>4. \A a \in Processed(r) \cup Unprocessed(r) : a \in Loaded(r)
  BY DEF Processed, Unprocessed, Loaded
<1>5. \A a \in Accounts : OlderNot(vv[a], r.target) => OlderNot(ww[a], r.target)
  <2> SUFFICES ASSUME NEW a \in Accounts, OlderNot(vv[a], r.target)
               PROVE  OlderNot(ww[a], r.target)
    OBVIOUS
  <2>1. CASE Len(ww[a]) = 1
    BY <2>1 DEF OlderNot
  <2> QED
    BY <1>2, <2>1
<1>6. r.pc = "sweep" => FeeAccount \in Loaded(r)
  BY <1>0 DEF Loaded
<1>7. Knows(r, ww)
  BY <1>0, <1>3, <1>4, <1>5, <1>6 DEF Knows
<1>8. \A c \in uu : c.acct \in Accounts
  BY DEF Coin
<1>9. \A c \in uu : TopAt(vv[c.acct], c.fed) => TopAt(ww[c.acct], c.fed)
  BY <1>1, <1>8 DEF TopAt
<1> QED
  BY <1>7, <1>9 DEF Covers
(* A step that is none of the tool's.                                      *)
LEMMA EnvironmentKeeps ==
  ASSUME TrackInv, SweptInv, tool' = tool, claim' = claim, Booted(versions, versions'),
         txs' \in Nat, txs <= txs', utxos' \subseteq Coin,
         \A c \in utxos' : c \in utxos \/ (c.deposit /\ c.tx = txs' /\ txs' = txs + 1)
  PROVE  SweptInv'
<1>0. /\ txs \in Nat /\ utxos \subseteq Coin /\ tool \in [Tools -> Locals]
      /\ claim \in [Accounts -> Nat] /\ \A c \in utxos : c.tx \in Nat
  BY DEF TrackInv, TypeOK, Coin
<1>1. VersionsOK(versions') /\ Swept(versions', utxos, claim)
  BY <1>0, EnvironmentVersions DEF SweptInv
<1>2. Numbered(utxos', claim', txs')
  <2>1. \A c \in utxos' : c.tx <= txs'
    BY <1>0 DEF SweptInv, Numbered
  <2>2. \A a \in Accounts : claim[a] <= txs'
    BY <1>0 DEF SweptInv, Numbered
  <2> QED
    BY <2>1, <2>2 DEF Numbered
<1>3. Swept(versions', utxos', claim')
  <2> SUFFICES ASSUME NEW c \in utxos', c \notin utxos, c.acct \in Accounts
               PROVE  c.deposit /\ c.tx > claim[c.acct]
    <3>1. \A c \in utxos' : c.acct \in Accounts
      BY DEF Coin
    <3> QED
      BY <1>1, <3>1 DEF Swept
  <2>1. claim[c.acct] <= txs /\ claim[c.acct] \in Nat
    BY <1>0 DEF SweptInv, Numbered
  <2> QED
    BY <1>0, <2>1
<1>4. ASSUME NEW t \in Tools
      PROVE  /\ tool[t].loadedAt <= txs'
             /\ Knows(tool[t], versions') /\ Covers(tool[t], versions', utxos')
  <2>1. tool[t] \in Locals /\ tool[t].loadedAt \in Nat /\ tool[t].loadedAt <= txs
    BY <1>0 DEF SweptInv, Locals
  <2>2. \A c \in utxos' : c \in utxos \/ ~Due(tool[t], c)
    BY <1>0, <2>1 DEF Due
  <2>3. Knows(tool[t], versions) /\ Covers(tool[t], versions, utxos)
    BY DEF SweptInv
  <2>4. tool[t].loadedAt <= txs'
    BY <1>0, <2>1
  <2> QED
    BY <1>0, <2>1, <2>2, <2>3, <2>4, EnvironmentRun
<1> QED
  BY <1>1, <1>2, <1>3, <1>4 DEF SweptInv

(* Loading a wallet, by the tool or by the application.                    *)
LEMMA LoadBoots ==
  ASSUME TrackInv, ~BootFaults, NEW a \in Accounts, LoadWallet(a)
  PROVE  Booted(versions, versions') /\ versions'[a] # <<>>
         /\ versions'[a] = Bootstrapped(versions[a])
         /\ Feds_of(versions[a]) \subseteq Feds_of(versions'[a])
<1>1. versions \in [Accounts -> Seq(Version)]
  BY DEF TrackInv, TypeOK
<1>2. versions' = [versions EXCEPT ![a] = Bootstrapped(versions[a])]
  BY <1>1 DEF LoadWallet, Bootstrapped
<1>3. Booted(versions, versions')
  BY <1>1, <1>2 DEF Booted, Bootstrapped
<1>4. versions'[a] = Bootstrapped(versions[a])
  BY <1>1, <1>2
<1>5. Bootstrapped(versions[a]) # <<>>
  BY OneVersion DEF Bootstrapped
<1>6. Feds_of(versions[a]) \subseteq Feds_of(Bootstrapped(versions[a]))
  BY <1>1, BootstrapFacts
<1> QED
  BY <1>3, <1>4, <1>5, <1>6

(* Steps that leave the versions alone.                                    *)
LEMMA SameBoots ==
  ASSUME versions' = versions
  PROVE  Booted(versions, versions')
BY DEF Booted

-----------------------------------------------------------------------------
(* The steps of a run.  The discovery loop finds every coin of the account *)
(* it loads: the account's versions cover them all (FundsTracked).         *)
LEMMA SweptLoad ==
  ASSUME TrackInv, SweptInv, NEW t \in Tools, LoadAccount(t)
  PROVE  SweptInv'
<1> DEFINE r == tool[t]
           a == r.acct
           vs == Bootstrapped(versions[a])
           n == [r EXCEPT !.pc = IF a = N THEN "plan" ELSE "load",
                          !.acct = IF a = N THEN 1 ELSE a + 1,
                          !.current = IF a = 1 THEN Latest(vs) ELSE r.current,
                          !.plan = r.plan \cup Found(a, vs)]
<1>0. /\ r \in Locals /\ a \in Accounts /\ utxos \subseteq Coin /\ N \in Nat
      /\ 1 \in Accounts /\ \A b \in Accounts : b \in Nat /\ b >= 1 /\ b <= N
  BY AccountAssumption DEF TrackInv, TypeOK, Locals, Accounts
<1>1. /\ r.pc = "load" /\ LoadWallet(a) /\ UNCHANGED <<utxos, txs, claim>>
      /\ tool' = [tool EXCEPT ![t] = n]
  BY DEF LoadAccount, SweptInv
<1>2. /\ Booted(versions, versions') /\ versions'[a] # <<>> /\ versions'[a] = vs
      /\ Feds_of(versions[a]) \subseteq Feds_of(vs)
  BY <1>0, <1>1, LoadBoots DEF SweptInv
<1>3. /\ n.pc = (IF a = N THEN "plan" ELSE "load") /\ n.target = r.target
      /\ n.acct = (IF a = N THEN 1 ELSE a + 1)
      /\ n.current = (IF a = 1 THEN Latest(vs) ELSE r.current)
      /\ n.plan = r.plan \cup Found(a, vs) /\ n.loadedAt = r.loadedAt
  BY <1>0 DEF Locals
<1>4. \A c \in utxos : c.acct = a => c \in Found(a, vs)
  BY <1>2 DEF SweptInv, TrackInv, FundsTracked, Found
<1> HIDE DEF vs, n
<1>5. /\ r.loadedAt <= txs /\ Knows(r, versions) /\ Covers(r, versions, utxos)
      /\ VersionsOK(versions) /\ Numbered(utxos, claim, txs)
      /\ Swept(versions, utxos, claim)
  BY DEF SweptInv
<1>6. Knows(r, versions') /\ Covers(r, versions', utxos)
  BY <1>0, <1>2, <1>5, EnvironmentRun
<1>7. VersionsOK(versions') /\ Swept(versions', utxos, claim)
  BY <1>0, <1>2, <1>5, EnvironmentVersions
<1>8. /\ Loaded(r) = {b \in Accounts : b < a} /\ Loaded(n) = Loaded(r) \cup {a}
      /\ Processed(n) = {} /\ Unprocessed(n) = {}
  <2>1. Loaded(r) = {b \in Accounts : b < a}
    BY <1>1 DEF Loaded
  <2>2. CASE a = N
    <3>1. \A b \in Accounts : b < a \/ b = a
      BY <1>0, <2>2
    <3>2. n.pc = "plan"
      BY <1>3, <2>2
    <3> QED
      BY <1>0, <2>1, <3>1, <3>2 DEF Loaded, Processed, Unprocessed
  <2>3. CASE a # N
    <3>1. n.pc = "load" /\ n.acct = a + 1
      BY <1>3, <2>3
    <3>2. \A b \in Accounts : b < a + 1 <=> b < a \/ b = a
      BY <1>0
    <3>3. Loaded(n) = {b \in Accounts : b < a + 1}
      BY <3>1 DEF Loaded
    <3> HIDE DEF a
    <3>4. Loaded(n) = {b \in Accounts : b < a} \cup {a}
      BY <1>0, <3>2, <3>3
    <3> QED
      BY <2>1, <3>1, <3>4 DEF Processed, Unprocessed
  <2> QED
    BY <2>2, <2>3
<1>9. n.pc \in {"load", "plan"}
  BY <1>3
<1>10. 1 \in Loaded(n) => Latest(versions'[1]) = n.current
  <2>1. CASE a = 1
    BY <1>2, <1>3, <2>1
  <2>2. CASE a # 1
    <3>1. 1 \in Loaded(n) => 1 \in Loaded(r)
      BY <1>8, <2>2
    <3> QED
      BY <1>1, <1>3, <1>6, <2>2, <3>1 DEF Knows
  <2> QED
    BY <2>1, <2>2
<1>11. \A b \in Loaded(n) : versions'[b] # <<>>
  BY <1>2, <1>6, <1>8 DEF Knows
<1>12. \A b \in Accounts : OlderNot(versions'[b], n.target)
  BY <1>1, <1>3, <1>6 DEF Knows
<1>13. Knows(n, versions')
  BY <1>8, <1>9, <1>10, <1>11, <1>12 DEF Knows
<1>14. \A c \in utxos : Due(n, c) /\ c.acct \in Loaded(n) => c \in n.plan
  BY <1>1, <1>3, <1>4, <1>6, <1>8 DEF Covers, Due
<1>15. Covers(n, versions', utxos)
  BY <1>9, <1>14 DEF Covers
<1> QED
  BY <1>1, <1>3, <1>5, <1>7, <1>13, <1>15, MoveOne

(* The plan is made only for a target that no account has a version of.    *)
LEMMA SweptPlan ==
  ASSUME TrackInv, SweptInv, NEW t \in Tools, DecidePlan(t)
  PROVE  SweptInv'
<1> DEFINE r == tool[t]
           n(pc) == [r EXCEPT !.pc = pc]
<1>0. /\ r \in Locals /\ ~r.only /\ 1 \in Accounts
      /\ \A b \in Accounts : b \in Nat /\ b >= 1
      /\ \A b \in Accounts : versions[b] \in Seq(Version)
  <2>1. r \in Locals /\ \A b \in Accounts : versions[b] \in Seq(Version)
    BY DEF TrackInv, TypeOK
  <2>2. ~r.only
    BY DEF TrackInv, ToolOK
  <2>3. 1 \in Accounts /\ \A b \in Accounts : b \in Nat /\ b >= 1
    BY AccountAssumption DEF Accounts
  <2> QED
    BY <2>1, <2>2, <2>3
<1>1. r.pc = "plan" /\ UNCHANGED <<versions, utxos, txs, claim>>
  BY DEF DecidePlan
<1>2. PICK pc \in {"same", "step1"} :
        tool' = [tool EXCEPT ![t] = n(pc)] /\ (pc = "step1" => r.current # r.target)
  BY <1>0 DEF DecidePlan
<1>3. /\ n(pc).pc = pc /\ n(pc).target = r.target /\ n(pc).acct = r.acct
      /\ n(pc).plan = r.plan /\ n(pc).loadedAt = r.loadedAt
  BY <1>0 DEF Locals
<1>4. r.acct = 1
  BY <1>1 DEF TrackInv, ToolOK
<1> HIDE DEF n
<1>5. /\ r.loadedAt <= txs /\ Knows(r, versions) /\ Covers(r, versions, utxos)
      /\ VersionsOK(versions) /\ Numbered(utxos, claim, txs)
      /\ Swept(versions, utxos, claim)
  BY DEF SweptInv
<1>6. Loaded(r) = Accounts /\ Loaded(n(pc)) = Accounts /\ Processed(n(pc)) = {}
  BY <1>0, <1>1, <1>3, <1>4 DEF Loaded, Processed
<1>7. pc = "step1" => \A b \in Accounts : r.target \notin Feds_of(versions[b])
  <2> SUFFICES ASSUME pc = "step1" PROVE \A b \in Accounts : r.target \notin Feds_of(versions[b])
    OBVIOUS
  <2>1. /\ versions[1] # <<>> /\ Latest(versions[1]) = r.current
        /\ OlderNot(versions[1], r.target) /\ r.current # r.target
    BY <1>0, <1>1, <1>2, <1>5, <1>6 DEF Knows
  <2>2. Len(versions[1]) \in Nat
    BY <1>0, LenProperties
  <2>3. r.target \notin Feds_of(versions[1])
    <3> SUFFICES ASSUME NEW i \in 1..Len(versions[1]), versions[1][i].fed = r.target
                 PROVE  FALSE
      BY DEF Feds_of
    <3>1. i = Len(versions[1]) \/ i \in 1..(Len(versions[1]) - 1)
      BY <2>2
    <3> QED
      BY <2>1, <3>1 DEF Latest, OlderNot
  <2> QED
    BY <1>5, <2>1, <2>3 DEF VersionsOK
<1>8. Knows(n(pc), versions)
  <2>1. \A b \in Unprocessed(n(pc)) : pc = "step1" /\ b \in Accounts
    BY <1>3 DEF Unprocessed
  <2>2. \A b \in Accounts : versions[b] # <<>>
    BY <1>5, <1>6 DEF Knows
  <2> QED
    BY <1>3, <1>6, <1>7, <2>1, <2>2 DEF Knows
<1>9. Covers(n(pc), versions, utxos)
  BY <1>1, <1>3, <1>5, <1>6 DEF Covers, Due
<1> QED
  BY <1>1, <1>2, <1>3, <1>5, <1>8, <1>9, MoveOne

(* Reading the number of versions changes nothing that the run knows.      *)
LEMMA SweptRead ==
  ASSUME TrackInv, SweptInv, NEW t \in Tools, ReadVersions(t)
  PROVE  SweptInv'
<1> DEFINE r == tool[t]
           n == [r EXCEPT !.pc = "insert", !.read = Len(versions[r.acct])]
<1>0. r \in Locals
  BY DEF TrackInv, TypeOK
<1>1. /\ r.pc = "step1" /\ UNCHANGED <<versions, utxos, txs, claim>>
      /\ tool' = [tool EXCEPT ![t] = n]
  BY DEF ReadVersions
<1>2. /\ n.pc = "insert" /\ n.target = r.target /\ n.acct = r.acct
      /\ n.plan = r.plan /\ n.loadedAt = r.loadedAt
  BY <1>0 DEF Locals
<1> HIDE DEF n
<1>3. /\ r.loadedAt <= txs /\ Knows(r, versions) /\ Covers(r, versions, utxos)
      /\ VersionsOK(versions) /\ Numbered(utxos, claim, txs)
      /\ Swept(versions, utxos, claim)
  BY DEF SweptInv
<1>4. Loaded(n) = Loaded(r) /\ Processed(n) = Processed(r) /\ Unprocessed(n) = Unprocessed(r)
  BY <1>1, <1>2 DEF Loaded, Processed, Unprocessed
<1>5. Knows(n, versions)
  BY <1>1, <1>2, <1>3, <1>4 DEF Knows
<1>6. Covers(n, versions, utxos)
  BY <1>1, <1>2, <1>3, <1>4 DEF Covers, Due
<1> QED
  BY <1>1, <1>2, <1>3, <1>5, <1>6, MoveOne
(* The new version of one account: the one before it is not complete, and  *)
(* no federation is recorded twice.                                        *)
LEMMA AppendNew ==
  ASSUME NEW vs \in Seq(Version), NEW f \in Feds, vs # <<>>,
         vs[Len(vs)].status = "not_applicable", f \notin Feds_of(vs), Distinct(vs),
         NEW ws, ws = Append(vs, NewVersion(f))
  PROVE  /\ TopAt(ws, f) /\ PrevOpen(ws) /\ Distinct(ws)
         /\ Feds_of(ws) = Feds_of(vs) \cup {f}
         /\ \A i \in 1..(Len(ws) - 1) :
              ws[i].status = "complete" => i \in 1..(Len(vs) - 1) /\ ws[i] = vs[i]
<1>1. NewVersion(f) \in Version /\ NewVersion(f).fed = f
  BY DEF NewVersion, Version, Status, NoTx
<1>2. /\ ws \in Seq(Version) /\ Len(ws) = Len(vs) + 1 /\ Len(vs) \in Nat
      /\ ws[Len(vs) + 1] = NewVersion(f)
      /\ \A i \in 1..Len(vs) : ws[i] = vs[i]
  BY <1>1, AppendProperties
<1>3. Len(vs) >= 1
  BY <1>2, EmptySeq
<1>4. ws # <<>> /\ Latest(ws) = f
  BY <1>1, <1>2 DEF Latest
<1>5. PrevOpen(ws)
  BY <1>2, <1>3 DEF PrevOpen
<1>6. \A i \in 1..Len(ws) : i \in 1..Len(vs) \/ i = Len(vs) + 1
  BY <1>2
<1>7. \A i \in 1..Len(vs) : i \in 1..Len(ws) /\ vs[i].fed # f
  <2>1. \A i \in 1..Len(vs) : i \in 1..Len(ws)
    BY <1>2
  <2> QED
    BY <2>1 DEF Feds_of
<1>8. Distinct(ws)
  BY <1>1, <1>2, <1>6, <1>7 DEF Distinct
<1>9. Feds_of(ws) = Feds_of(vs) \cup {f}
  <2>1. Len(vs) + 1 \in 1..Len(ws)
    BY <1>2
  <2> QED
    BY <1>1, <1>2, <1>6, <1>7, <2>1 DEF Feds_of
<1>10. ASSUME NEW i \in 1..(Len(ws) - 1), ws[i].status = "complete"
       PROVE  i \in 1..(Len(vs) - 1) /\ ws[i] = vs[i]
  <2>1. i \in 1..Len(vs)
    BY <1>2
  <2>2. i # Len(vs)
    BY <1>2, <1>10, <2>1
  <2> QED
    BY <1>2, <2>1, <2>2
<1> QED
  BY <1>4, <1>5, <1>8, <1>9, <1>10 DEF TopAt

(* Step 1 records the target, the first account first.                     *)
LEMMA SweptInsert ==
  ASSUME TrackInv, SweptInv, NEW t \in Tools, InsertVersion(t)
  PROVE  SweptInv'
<1> DEFINE r == tool[t]
           a == r.acct
           vs == versions[a]
           n == [r EXCEPT !.pc = "pending"]
<1>0. /\ r \in Locals /\ a \in Accounts /\ utxos \subseteq Coin /\ r.target \in Feds
      /\ versions \in [Accounts -> Seq(Version)]
      /\ vs # <<>> => vs[Len(vs)].status = "not_applicable"
  BY DEF TrackInv, TypeOK, Locals, LatestNotApplicable
<1>00. 1 \in Accounts /\ \A b \in Accounts : b \in Nat /\ b >= 1
  BY AccountAssumption DEF Accounts
<1>1. /\ r.pc = "insert" /\ UNCHANGED <<utxos, txs, claim>>
      /\ tool' = [tool EXCEPT ![t] = n]
      /\ versions' = [versions EXCEPT ![a] = Append(vs, NewVersion(r.target))]
  BY DEF InsertVersion
<1>2. /\ n.pc = "pending" /\ n.target = r.target /\ n.acct = a
      /\ n.plan = r.plan /\ n.loadedAt = r.loadedAt
  BY <1>0 DEF Locals
<1> HIDE DEF n
<1>3. /\ r.loadedAt <= txs /\ Knows(r, versions) /\ Covers(r, versions, utxos)
      /\ VersionsOK(versions) /\ Numbered(utxos, claim, txs)
      /\ Swept(versions, utxos, claim)
  BY DEF SweptInv
<1>4. /\ a \in Loaded(r) /\ a \in Unprocessed(r) /\ Loaded(n) = Loaded(r)
      /\ \A b \in Processed(n) : b \in Processed(r) \/ b = a
      /\ \A b \in Unprocessed(n) : b \in Unprocessed(r) /\ b # a
      /\ \A b \in Loaded(r) : b \in Accounts
      /\ 1 \in Processed(r) \/ a = 1
  <2>1. \A b \in Accounts : /\ b <= a => b < a \/ b = a
                            /\ b > a => b >= a /\ b # a
    BY <1>0, <1>00
  <2>2. a >= a /\ (1 < a \/ a = 1)
    BY <1>0, <1>00
  <2> HIDE DEF a
  <2> QED
    BY <1>0, <1>00, <1>1, <1>2, <2>1, <2>2 DEF Loaded, Processed, Unprocessed, a
<1>5. vs # <<>> /\ r.target \notin Feds_of(vs) /\ Distinct(vs)
  BY <1>0, <1>3, <1>4 DEF Knows, VersionsOK
<1>6. PICK ws : ws = Append(vs, NewVersion(r.target))
  OBVIOUS
<1>7. /\ versions'[a] = ws /\ \A b \in Accounts : b # a => versions'[b] = versions[b]
      /\ vs \in Seq(Version)
  BY <1>0, <1>1, <1>6
<1> HIDE DEF vs, a
<1>8. /\ TopAt(ws, r.target) /\ PrevOpen(ws) /\ Distinct(ws)
      /\ Feds_of(ws) = Feds_of(vs) \cup {r.target}
      /\ \A i \in 1..(Len(ws) - 1) :
           ws[i].status = "complete" => i \in 1..(Len(vs) - 1) /\ ws[i] = vs[i]
  BY <1>0, <1>5, <1>6, <1>7, AppendNew
<1>9. VersionsOK(versions')
  <2>1. \A b \in Accounts : Distinct(versions'[b])
    BY <1>3, <1>7, <1>8 DEF VersionsOK
  <2>2. Feds_of(versions[1]) \subseteq Feds_of(versions'[1])
    BY <1>00, <1>7, <1>8 DEF vs
  <2>3. r.target \in Feds_of(versions'[1])
    <3>1. CASE a = 1
      BY <1>7, <1>8, <3>1
    <3>2. CASE a # 1
      <4>1. TopAt(versions[1], r.target)
        BY <1>3, <1>4, <3>2 DEF Knows
      <4>2. versions[1] \in Seq(Version)
        BY <1>0, <1>00
      <4>3. Latest(versions[1]) \in Feds_of(versions[1])
        <5>1. Len(versions[1]) \in 1..Len(versions[1])
          BY <4>1, <4>2, EmptySeq, LenProperties DEF TopAt
        <5> QED
          BY <5>1 DEF Latest, Feds_of
      <4> QED
        BY <2>2, <4>1, <4>3 DEF TopAt
    <3> QED
      BY <3>1, <3>2
  <2>4. \A b \in Accounts : Feds_of(versions'[b]) \subseteq Feds_of(versions'[1]) \cup {Fed0}
    <3>1. \A b \in Accounts : Feds_of(versions[b]) \subseteq Feds_of(versions'[1]) \cup {Fed0}
      BY <1>3, <2>2 DEF VersionsOK
    <3>2. Feds_of(vs) \subseteq Feds_of(versions'[1]) \cup {Fed0}
      BY <1>0, <3>1 DEF vs
    <3>3. Feds_of(versions'[a]) \subseteq Feds_of(versions'[1]) \cup {Fed0}
      BY <1>7, <1>8, <2>3, <3>2
    <3> QED
      BY <1>7, <3>1, <3>3
  <2>5. Fed0 \in Feds_of(versions'[1])
    <3>1. versions[1] # <<>>
      <4>1. 1 \in Loaded(r)
        BY <1>00, <1>1 DEF Loaded
      <4> QED
        BY <1>3, <4>1 DEF Knows
    <3> QED
      BY <1>3, <2>2, <3>1 DEF VersionsOK
  <2> QED
    BY <2>1, <2>4, <2>5 DEF VersionsOK
<1>10. Swept(versions', utxos, claim)
  <2> SUFFICES ASSUME NEW c \in utxos, NEW i \in 1..(Len(versions'[c.acct]) - 1),
                      versions'[c.acct][i].status = "complete",
                      versions'[c.acct][i].fed = c.fed
               PROVE  c.deposit /\ c.tx > claim[c.acct]
    BY DEF Swept
  <2>1. c.acct \in Accounts
    BY <1>0 DEF Coin
  <2>2. CASE c.acct = a
    <3>1. i \in 1..(Len(vs) - 1) /\ vs[i].status = "complete" /\ vs[i].fed = c.fed
      BY <1>7, <1>8, <2>2
    <3> QED
      BY <1>3, <2>2, <3>1 DEF Swept, vs
  <2>3. CASE c.acct # a
    BY <1>3, <1>7, <2>1, <2>3 DEF Swept
  <2> QED
    BY <2>2, <2>3
<1>11. Knows(n, versions')
  <2>1. \A b \in Loaded(n) : versions'[b] # <<>>
    BY <1>3, <1>4, <1>7, <1>8 DEF Knows, TopAt
  <2>2. \A b \in Processed(n) : TopAt(versions'[b], n.target) /\ PrevOpen(versions'[b])
    <3>1. \A b \in Processed(n) : b \in Accounts
      BY DEF Processed
    <3> QED
      BY <1>2, <1>3, <1>4, <1>7, <1>8, <3>1 DEF Knows
  <2>3. \A b \in Unprocessed(n) : n.target \notin Feds_of(versions'[b])
    <3>1. \A b \in Unprocessed(n) : b \in Accounts
      BY DEF Unprocessed
    <3> QED
      BY <1>2, <1>3, <1>4, <1>7, <3>1 DEF Knows
  <2> QED
    BY <1>2, <2>1, <2>2, <2>3 DEF Knows
<1>12. Covers(n, versions', utxos)
  BY <1>1, <1>2, <1>3, <1>4 DEF Covers, Due
<1> QED
  BY <1>1, <1>2, <1>3, <1>9, <1>10, <1>11, <1>12, MoveOne
(* Rewriting statuses leaves the federations where they are.               *)
SameFeds(vs, ws) == Len(ws) = Len(vs) /\ \A i \in 1..Len(vs) : ws[i].fed = vs[i].fed

LEMMA SameFedsFacts ==
  ASSUME NEW vs \in Seq(Version), NEW ws \in Seq(Version), SameFeds(vs, ws)
  PROVE  /\ vs # <<>> <=> ws # <<>>
         /\ \A f : TopAt(vs, f) <=> TopAt(ws, f)
         /\ Feds_of(ws) = Feds_of(vs)
         /\ Distinct(vs) => Distinct(ws)
<1>1. Len(ws) = Len(vs) /\ Len(vs) \in Nat
  BY LenProperties DEF SameFeds
<1>2. (vs # <<>> <=> ws # <<>>) /\ (vs # <<>> => Len(vs) >= 1)
  BY <1>1, EmptySeq
<1>3. vs # <<>> => Latest(ws) = Latest(vs)
  BY <1>1, <1>2 DEF SameFeds, Latest
<1>4. Feds_of(ws) = Feds_of(vs)
  BY DEF SameFeds, Feds_of
<1>5. Distinct(vs) => Distinct(ws)
  BY DEF SameFeds, Distinct
<1> QED
  BY <1>2, <1>3, <1>4, <1>5 DEF TopAt

(* The updates of Step 1 and of the end of a run.                          *)
LEMMA PendingFeds ==
  ASSUME NEW vs \in Seq(Version), NEW k \in Nat
  PROVE  /\ SameFeds(vs, Pending(vs, k)) /\ Pending(vs, k) \in Seq(Version)
         /\ \A i \in 1..Len(vs) : Pending(vs, k)[i].status = "complete" => vs[i].status = "complete"
<1>1. Len(vs) \in Nat /\ \A i \in 1..Len(vs) : vs[i] \in Version
  BY LenProperties
<1>2. \A v \in Version : /\ [v EXCEPT !.status = "pending"] \in Version
                         /\ [v EXCEPT !.status = "pending"].fed = v.fed
                         /\ [v EXCEPT !.status = "pending"].status = "pending"
  BY DEF Version, Status
<1>3. Pending(vs, k) \in [1..Len(vs) -> Version]
  BY <1>1, <1>2 DEF Pending
<1>4. \A i \in 1..Len(vs) : Pending(vs, k)[i].fed = vs[i].fed
  BY <1>1, <1>2 DEF Pending
<1>5. \A i \in 1..Len(vs) : Pending(vs, k)[i].status = "complete" => vs[i].status = "complete"
  BY <1>1, <1>2 DEF Pending
<1>6. Pending(vs, k) \in Seq(Version) /\ Len(Pending(vs, k)) = Len(vs)
  BY <1>1, <1>3, SeqOfVersions
<1> QED
  BY <1>4, <1>5, <1>6 DEF SameFeds

LEMMA CompletedFeds ==
  ASSUME NEW vs \in Seq(Version), NEW sweep \in Nat,
         NEW marked \in SUBSET (1..(Len(vs) - 1))
  PROVE  SameFeds(vs, Completed(vs, marked, sweep)) /\ Completed(vs, marked, sweep) \in Seq(Version)
<1>1. Len(vs) \in Nat /\ \A i \in 1..Len(vs) : vs[i] \in Version
  BY LenProperties
<1>2. \A v \in Version :
         LET w == [v EXCEPT !.status = "complete",
                            !.sweep = IF sweep = NoTx THEN @ ELSE sweep]
         IN w \in Version /\ w.fed = v.fed
  BY DEF Version, Status
<1>3. Completed(vs, marked, sweep) \in [1..Len(vs) -> Version]
  BY <1>1, <1>2 DEF Completed
<1>4. \A i \in 1..Len(vs) : Completed(vs, marked, sweep)[i].fed = vs[i].fed
  BY <1>1, <1>2 DEF Completed
<1>5. /\ Completed(vs, marked, sweep) \in Seq(Version)
      /\ Len(Completed(vs, marked, sweep)) = Len(vs)
  BY <1>1, <1>3, SeqOfVersions
<1> QED
  BY <1>4, <1>5 DEF SameFeds

(* What follows for the table when statuses are rewritten.                 *)
LEMMA RestatusTable ==
  ASSUME NEW vv, NEW ww,
         \A b \in Accounts : /\ vv[b] \in Seq(Version) /\ ww[b] \in Seq(Version)
                             /\ SameFeds(vv[b], ww[b])
  PROVE  /\ \A b \in Accounts : SameFeds(vv[b], ww[b])
         /\ \A b \in Accounts : vv[b] # <<>> <=> ww[b] # <<>>
         /\ \A b \in Accounts : \A f : TopAt(vv[b], f) <=> TopAt(ww[b], f)
         /\ \A b \in Accounts : Feds_of(ww[b]) = Feds_of(vv[b])
         /\ VersionsOK(vv) => VersionsOK(ww)
<1>0. 1 \in Accounts
  BY AccountAssumption DEF Accounts
<1>1. \A b \in Accounts : /\ vv[b] # <<>> <=> ww[b] # <<>>
                          /\ \A f : TopAt(vv[b], f) <=> TopAt(ww[b], f)
                          /\ Feds_of(ww[b]) = Feds_of(vv[b])
                          /\ Distinct(vv[b]) => Distinct(ww[b])
  BY SameFedsFacts
<1>2. VersionsOK(vv) => VersionsOK(ww)
  BY <1>0, <1>1 DEF VersionsOK
<1> QED
  BY <1>1, <1>2

(* A status that turns pending was not complete.                           *)
LEMMA SweptPending ==
  ASSUME TrackInv, SweptInv, NEW t \in Tools, SetPending(t)
  PROVE  SweptInv'
<1> DEFINE r == tool[t]
           a == r.acct
           n == [r EXCEPT !.pc = IF a = N THEN "confirm" ELSE "step1",
                          !.acct = IF a = N THEN 1 ELSE a + 1]
<1>0. /\ r \in Locals /\ a \in Accounts /\ utxos \subseteq Coin /\ r.read \in Nat
      /\ versions \in [Accounts -> Seq(Version)] /\ versions[a] \in Seq(Version)
  BY DEF TrackInv, TypeOK, Locals
<1>00. N \in Nat /\ 1 \in Accounts /\ \A b \in Accounts : b \in Nat /\ b >= 1 /\ b <= N
  BY AccountAssumption DEF Accounts
<1>1. /\ r.pc = "pending" /\ UNCHANGED <<utxos, txs, claim>>
      /\ tool' = [tool EXCEPT ![t] = n]
  BY DEF SetPending
<1>2. PICK ws \in {versions[a], Pending(versions[a], r.read)} :
        versions' = [versions EXCEPT ![a] = ws]
  BY DEF SetPending
<1>3. /\ n.pc = (IF a = N THEN "confirm" ELSE "step1") /\ n.target = r.target
      /\ n.acct = (IF a = N THEN 1 ELSE a + 1)
      /\ n.plan = r.plan /\ n.loadedAt = r.loadedAt
  BY <1>0 DEF Locals
<1> HIDE DEF n
<1>4. /\ r.loadedAt <= txs /\ Knows(r, versions) /\ Covers(r, versions, utxos)
      /\ VersionsOK(versions) /\ Numbered(utxos, claim, txs)
      /\ Swept(versions, utxos, claim)
  BY DEF SweptInv
<1>5. /\ ws \in Seq(Version) /\ SameFeds(versions[a], ws)
      /\ \A i \in 1..Len(versions[a]) : ws[i].status = "complete" => versions[a][i].status = "complete"
  <2>1. SameFeds(versions[a], versions[a])
    BY DEF SameFeds
  <2>2. /\ Pending(versions[a], r.read) \in Seq(Version)
        /\ SameFeds(versions[a], Pending(versions[a], r.read))
        /\ \A i \in 1..Len(versions[a]) :
             Pending(versions[a], r.read)[i].status = "complete" =>
               versions[a][i].status = "complete"
    BY <1>0, PendingFeds
  <2> QED
    BY <1>0, <1>2, <2>1, <2>2
<1>6. /\ \A b \in Accounts : SameFeds(versions[b], versions'[b])
      /\ \A b \in Accounts : versions[b] # <<>> <=> versions'[b] # <<>>
      /\ \A b \in Accounts : \A f : TopAt(versions[b], f) <=> TopAt(versions'[b], f)
      /\ \A b \in Accounts : Feds_of(versions'[b]) = Feds_of(versions[b])
      /\ VersionsOK(versions')
  <2>1. \A b \in Accounts : /\ versions[b] \in Seq(Version) /\ versions'[b] \in Seq(Version)
                             /\ SameFeds(versions[b], versions'[b])
    <3>1. \A b \in Accounts : SameFeds(versions[b], versions[b])
      BY DEF SameFeds
    <3> QED
      BY <1>0, <1>2, <1>5, <3>1
  <2> QED
    BY <1>4, <2>1, RestatusTable
<1>7. \A b \in Accounts : \A i \in 1..Len(versions[b]) :
        versions'[b][i].status = "complete" => versions[b][i].status = "complete"
  BY <1>0, <1>2, <1>5
<1>8. \A b \in Accounts : /\ Len(versions'[b]) = Len(versions[b]) /\ Len(versions[b]) \in Nat
                          /\ \A i \in 1..Len(versions[b]) : versions'[b][i].fed = versions[b][i].fed
  BY <1>0, <1>6, LenProperties DEF SameFeds
<1>9. /\ Loaded(n) = Loaded(r) /\ \A b \in Processed(n) : b \in Processed(r)
      /\ \A b \in Unprocessed(n) : b \in Unprocessed(r)
  <2>1. CASE a = N
    <3>1. \A b \in Accounts : b <= a
      BY <1>00, <2>1
    <3>2. n.pc = "confirm"
      BY <1>3, <2>1
    <3> QED
      BY <1>1, <3>1, <3>2 DEF Loaded, Processed, Unprocessed
  <2>2. CASE a # N
    <3>1. n.pc = "step1" /\ n.acct = a + 1
      BY <1>3, <2>2
    <3>2. \A b \in Accounts : (b < a + 1 => b <= a) /\ (b >= a + 1 => b > a)
      BY <1>0, <1>00
    <3> QED
      BY <1>1, <3>1, <3>2 DEF Loaded, Processed, Unprocessed
  <2> QED
    BY <2>1, <2>2
<1>10. \A b \in Accounts : PrevOpen(versions[b]) => PrevOpen(versions'[b])
  <2> SUFFICES ASSUME NEW b \in Accounts, PrevOpen(versions[b]), Len(versions[b]) >= 2
               PROVE  versions'[b][Len(versions[b]) - 1].status # "complete"
    BY <1>8 DEF PrevOpen
  <2>1. Len(versions[b]) - 1 \in 1..Len(versions[b])
    BY <1>8
  <2> QED
    BY <1>7, <2>1 DEF PrevOpen
<1>11. Knows(n, versions')
  <2>1. \A b \in Loaded(n) : versions'[b] # <<>>
    BY <1>4, <1>6, <1>9 DEF Knows, Loaded
  <2>2. \A b \in Processed(n) : TopAt(versions'[b], n.target) /\ PrevOpen(versions'[b])
    <3>1. \A b \in Processed(n) : b \in Accounts
      BY DEF Processed
    <3> QED
      BY <1>3, <1>4, <1>6, <1>9, <1>10, <3>1 DEF Knows
  <2>3. \A b \in Unprocessed(n) : n.target \notin Feds_of(versions'[b])
    <3>1. \A b \in Unprocessed(n) : b \in Accounts
      BY DEF Unprocessed
    <3> QED
      BY <1>3, <1>4, <1>6, <1>9, <3>1 DEF Knows
  <2> QED
    BY <1>3, <2>1, <2>2, <2>3 DEF Knows
<1>12. Covers(n, versions', utxos)
  BY <1>1, <1>3, <1>4, <1>9 DEF Covers, Due
<1>13. Swept(versions', utxos, claim)
  <2> SUFFICES ASSUME NEW c \in utxos, NEW i \in 1..(Len(versions'[c.acct]) - 1),
                      versions'[c.acct][i].status = "complete",
                      versions'[c.acct][i].fed = c.fed
               PROVE  c.deposit /\ c.tx > claim[c.acct]
    BY DEF Swept
  <2>1. c.acct \in Accounts
    BY <1>0 DEF Coin
  <2>2. i \in 1..(Len(versions[c.acct]) - 1) /\ i \in 1..Len(versions[c.acct])
    BY <1>8, <2>1
  <2> QED
    BY <1>4, <1>7, <1>8, <2>1, <2>2 DEF Swept
<1> QED
  BY <1>1, <1>3, <1>4, <1>6, <1>11, <1>12, <1>13, MoveOne
(* The newest federation is no older one, and the second to last one is    *)
(* only itself.                                                            *)
LEMMA OlderFacts ==
  ASSUME NEW vs \in Seq(Version), Distinct(vs), NEW i \in 1..(Len(vs) - 1)
  PROVE  /\ \A f : TopAt(vs, f) => vs[i].fed # f
         /\ Len(vs) >= 2 /\ vs[i].fed = vs[Len(vs) - 1].fed => i = Len(vs) - 1
<1>1. Len(vs) \in Nat
  BY LenProperties
<1>2. i \in 1..Len(vs) /\ Len(vs) \in 1..Len(vs) /\ i # Len(vs)
  BY <1>1
<1>3. Len(vs) >= 2 => Len(vs) - 1 \in 1..Len(vs)
  BY <1>1
<1> QED
  BY <1>2, <1>3 DEF Distinct, TopAt, Latest

(* Step 2 begins: every coin owed a sweep is in the plan, the fee          *)
(* account's as its first change.                                          *)
LEMMA SweptConfirm ==
  ASSUME TrackInv, SweptInv, NEW t \in Tools, ConfirmSweep(t)
  PROVE  SweptInv'
<1> DEFINE r == tool[t]
           vs == versions[FeeAccount]
           n == [r EXCEPT !.pc = "sweep",
                          !.oldFed = vs[Len(vs) - 1].fed,
                          !.change = PlanOf(r, FeeAccount),
                          !.left = {c.acct : c \in r.plan} \ {FeeAccount}]
<1>0. r \in Locals /\ utxos \subseteq Coin
  BY DEF TrackInv, TypeOK
<1>1. /\ r.pc = "confirm" /\ UNCHANGED <<versions, utxos, txs, claim>>
      /\ tool' = [tool EXCEPT ![t] = n] /\ Len(vs) >= 2
  BY DEF ConfirmSweep
<1>2. /\ n.pc = "sweep" /\ n.target = r.target /\ n.oldFed = vs[Len(vs) - 1].fed
      /\ n.plan = r.plan /\ n.loadedAt = r.loadedAt /\ n.change = PlanOf(r, FeeAccount)
      /\ n.left = {c.acct : c \in r.plan} \ {FeeAccount}
  BY <1>0 DEF Locals
<1> HIDE DEF n
<1>3. /\ r.loadedAt <= txs /\ Knows(r, versions) /\ Covers(r, versions, utxos)
      /\ VersionsOK(versions) /\ Numbered(utxos, claim, txs)
      /\ Swept(versions, utxos, claim)
  BY DEF SweptInv
<1>4. /\ Loaded(n) = Accounts /\ Loaded(r) = Accounts /\ Processed(n) = Processed(r)
      /\ Unprocessed(n) = {}
  BY <1>1, <1>2 DEF Loaded, Processed, Unprocessed
<1>5. Knows(n, versions)
  BY <1>1, <1>2, <1>3, <1>4 DEF Knows
<1>6. \A c \in utxos : Due(n, c) => Planned(n, c)
  <2> SUFFICES ASSUME NEW c \in utxos, Due(n, c) PROVE Planned(n, c)
    OBVIOUS
  <2>1. c \in r.plan
    BY <1>0, <1>1, <1>2, <1>3, <1>4 DEF Covers, Due, Coin
  <2>2. CASE c.acct = FeeAccount
    BY <1>2, <2>1, <2>2 DEF Planned, PlanOf
  <2>3. CASE c.acct # FeeAccount
    BY <1>2, <2>1, <2>3 DEF Planned
  <2> QED
    BY <2>2, <2>3
<1>7. Covers(n, versions, utxos)
  BY <1>2, <1>6 DEF Covers
<1> QED
  BY <1>1, <1>2, <1>3, <1>5, <1>7, MoveOne

(* The coins of a sweep transaction: those at the target are at the newest *)
(* version, the change is at the second to last, which is not complete.    *)
LEMMA SweepKeeps ==
  ASSUME TrackInv, NEW r, Knows(r, versions), r.pc = "sweep", VersionsOK(versions),
         NEW c \in Coin, c.fed = r.target \/ (c.acct = FeeAccount /\ c.fed = r.oldFed)
  PROVE  /\ c.fed = r.target => TopAt(versions[c.acct], c.fed)
         /\ \A i \in 1..(Len(versions[c.acct]) - 1) :
              ~(versions[c.acct][i].status = "complete" /\ versions[c.acct][i].fed = c.fed)
<1> DEFINE vs == versions[c.acct]
<1>0. c.acct \in Accounts /\ vs \in Seq(Version) /\ Distinct(vs)
  BY DEF TrackInv, TypeOK, Coin, VersionsOK
<1>1. TopAt(vs, r.target) /\ PrevOpen(vs)
  <2>1. c.acct \in Processed(r)
    BY <1>0 DEF Processed
  <2> QED
    BY <2>1 DEF Knows
<1>2. c.acct = FeeAccount => Len(vs) >= 2 /\ vs[Len(vs) - 1].fed = r.oldFed
  BY DEF Knows
<1> HIDE DEF vs
<1>3. ASSUME NEW i \in 1..(Len(vs) - 1), vs[i].status = "complete", vs[i].fed = c.fed
      PROVE  FALSE
  <2>1. vs[i].fed # r.target
    BY <1>0, <1>1, OlderFacts
  <2>2. Len(vs) >= 2 /\ vs[i].fed = vs[Len(vs) - 1].fed
    BY <1>2, <1>3, <2>1
  <2>3. i = Len(vs) - 1
    BY <1>0, <2>2, OlderFacts
  <2> QED
    BY <1>1, <1>3, <2>2, <2>3 DEF PrevOpen
<1> QED
  BY <1>1, <1>3 DEF vs

(* A sweep of customers spends what was planned for them and the change.   *)
LEMMA SweptCustomers ==
  ASSUME TrackInv, SweptInv, NEW t \in Tools, NEW S \in SUBSET Accounts, SweepCustomers(t, S)
  PROVE  SweptInv'
<1> DEFINE r == tool[t]
           change == NewCoin(FeeAccount, r.oldFed, FALSE)
           paid == {NewCoin(a, r.target, FALSE) : a \in S}
           by == RecordSweep(r, S)
           n == [r EXCEPT !.left = r.left \ S, !.change = {change}, !.sweptBy = by]
<1>0. /\ r \in Locals /\ utxos \subseteq Coin /\ txs \in Nat /\ r.loadedAt \in Nat
      /\ claim \in [Accounts -> Nat] /\ FeeAccount \in Accounts
      /\ r.target \in Feds /\ r.oldFed \in Feds
  BY AccountAssumption DEF TrackInv, TypeOK, Locals
<1>1. /\ r.pc = "sweep" /\ txs' = txs + 1 /\ UNCHANGED <<versions, claim>>
      /\ tool' = [tool EXCEPT ![t] = n]
      /\ utxos' = (utxos \ SweepInputs(r, S)) \cup paid \cup {change}
  BY DEF SweepCustomers
<1>2. /\ n.pc = r.pc /\ n.target = r.target /\ n.oldFed = r.oldFed /\ n.plan = r.plan
      /\ n.loadedAt = r.loadedAt /\ n.change = {change} /\ n.left = r.left \ S
  BY <1>0 DEF Locals
<1>3. /\ change \in Coin /\ change.acct = FeeAccount /\ change.fed = r.oldFed
      /\ change.tx = txs + 1
  BY <1>0 DEF NewCoin, Coin
<1>4. ASSUME NEW c \in paid PROVE c \in Coin /\ c.fed = r.target /\ c.tx = txs + 1
  <2>1. PICK a \in S : c = NewCoin(a, r.target, FALSE)
    OBVIOUS
  <2>2. a \in Accounts
    OBVIOUS
  <2> HIDE DEF r
  <2> QED
    BY <1>0, <2>1, <2>2 DEF NewCoin, Coin
<1> HIDE DEF n, change, paid, by
<1>5. /\ r.loadedAt <= txs /\ Knows(r, versions) /\ Covers(r, versions, utxos)
      /\ VersionsOK(versions) /\ Numbered(utxos, claim, txs)
      /\ Swept(versions, utxos, claim)
  BY DEF SweptInv
<1> HIDE DEF r
<1>6. \A c \in paid : TopAt(versions[c.acct], c.fed)
  BY <1>1, <1>4, <1>5, SweepKeeps
<1>7. Swept(versions, utxos', claim)
  <2>1. \A c \in paid \cup {change} : \A i \in 1..(Len(versions[c.acct]) - 1) :
          ~(versions[c.acct][i].status = "complete" /\ versions[c.acct][i].fed = c.fed)
    BY <1>1, <1>3, <1>4, <1>5, SweepKeeps
  <2> QED
    BY <1>1, <1>5, <2>1 DEF Swept
<1>8. Numbered(utxos', claim, txs')
  <2>1. \A c \in utxos : c.tx \in Nat
    BY <1>0 DEF Coin
  <2>2. \A c \in utxos' : c.tx <= txs'
    BY <1>0, <1>1, <1>3, <1>4, <1>5, <2>1 DEF Numbered
  <2>3. \A a \in Accounts : claim[a] <= txs'
    BY <1>0, <1>1, <1>5 DEF Numbered
  <2> QED
    BY <2>2, <2>3 DEF Numbered
<1>9. /\ Loaded(n) = Loaded(r) /\ Processed(n) = Processed(r) /\ Unprocessed(n) = Unprocessed(r)
  BY <1>1, <1>2 DEF Loaded, Processed, Unprocessed
<1>10. Knows(n, versions)
  BY <1>1, <1>2, <1>5, <1>9 DEF Knows
<1>11. ASSUME NEW c \in utxos', Due(n, c)
       PROVE  Planned(n, c) \/ TopAt(versions[c.acct], c.fed)
  <2>1. CASE c \in paid
    BY <1>6, <2>1
  <2>2. CASE c = change
    BY <1>2, <1>3, <2>2 DEF Planned
  <2>3. CASE c \in utxos /\ c \notin SweepInputs(r, S)
    <3>1. Planned(r, c) \/ TopAt(versions[c.acct], c.fed)
      BY <1>1, <1>2, <1>5, <1>11, <2>3 DEF Covers, Due
    <3>2. c \notin r.change
      BY <2>3 DEF SweepInputs
    <3>3. c \in r.plan => c.acct \notin S
      BY <2>3 DEF SweepInputs, PlanOf
    <3> QED
      BY <1>2, <3>1, <3>2, <3>3 DEF Planned
  <2> QED
    BY <1>1, <2>1, <2>2, <2>3
<1>12. Covers(n, versions, utxos')
  BY <1>1, <1>2, <1>11 DEF Covers
<1>13. n.loadedAt <= txs'
  BY <1>0, <1>1, <1>2, <1>5
<1> QED
  BY <1>1, <1>5, <1>7, <1>8, <1>10, <1>12, <1>13, MoveOne

(* The last sweep leaves no coin that was owed one anywhere but at the     *)
(* newest version.                                                         *)
LEMMA SweptFeeAccount ==
  ASSUME TrackInv, SweptInv, NEW t \in Tools, SweepFeeAccount(t)
  PROVE  SweptInv'
<1> DEFINE r == tool[t]
           paid == NewCoin(FeeAccount, r.target, FALSE)
           n == [r EXCEPT !.pc = "mark", !.change = {}]
<1>0. /\ r \in Locals /\ utxos \subseteq Coin /\ txs \in Nat /\ r.loadedAt \in Nat
      /\ claim \in [Accounts -> Nat] /\ FeeAccount \in Accounts /\ r.target \in Feds
  BY AccountAssumption DEF TrackInv, TypeOK, Locals
<1>1. /\ r.pc = "sweep" /\ r.left = {} /\ txs' = txs + 1 /\ UNCHANGED <<versions, claim>>
      /\ tool' = [tool EXCEPT ![t] = n] /\ utxos' = (utxos \ r.change) \cup {paid}
  BY DEF SweepFeeAccount
<1>2. n.pc = "mark" /\ n.loadedAt = r.loadedAt
  BY <1>0 DEF Locals
<1>3. paid \in Coin /\ paid.fed = r.target /\ paid.tx = txs + 1
  BY <1>0 DEF NewCoin, Coin
<1> HIDE DEF n, paid
<1>4. /\ r.loadedAt <= txs /\ Knows(r, versions) /\ Covers(r, versions, utxos)
      /\ VersionsOK(versions) /\ Numbered(utxos, claim, txs)
      /\ Swept(versions, utxos, claim)
  BY DEF SweptInv
<1> HIDE DEF r
<1>5. /\ TopAt(versions[paid.acct], paid.fed)
      /\ \A i \in 1..(Len(versions[paid.acct]) - 1) :
           ~(versions[paid.acct][i].status = "complete" /\ versions[paid.acct][i].fed = paid.fed)
  BY <1>1, <1>3, <1>4, SweepKeeps
<1>6. Swept(versions, utxos', claim)
  BY <1>1, <1>4, <1>5 DEF Swept
<1>7. Numbered(utxos', claim, txs')
  <2>1. \A c \in utxos : c.tx \in Nat
    BY <1>0 DEF Coin
  <2>2. \A c \in utxos' : c.tx <= txs'
    BY <1>0, <1>1, <1>3, <1>4, <2>1 DEF Numbered
  <2>3. \A a \in Accounts : claim[a] <= txs'
    BY <1>0, <1>1, <1>4 DEF Numbered
  <2> QED
    BY <2>2, <2>3 DEF Numbered
<1>8. Loaded(n) = Loaded(r) /\ Processed(n) = {} /\ Unprocessed(n) = {}
  BY <1>1, <1>2 DEF Loaded, Processed, Unprocessed
<1>9. Knows(n, versions)
  BY <1>2, <1>4, <1>8 DEF Knows
<1>10. \A c \in utxos' : Due(n, c) => TopAt(versions[c.acct], c.fed)
  <2>1. \A c \in utxos : Due(n, c) => Planned(r, c) \/ TopAt(versions[c.acct], c.fed)
    BY <1>1, <1>2, <1>4 DEF Covers, Due
  <2>2. \A c \in utxos : Planned(r, c) => c \in r.change
    BY <1>1 DEF Planned
  <2> QED
    BY <1>1, <1>5, <2>1, <2>2
<1>11. Covers(n, versions, utxos')
  BY <1>2, <1>10 DEF Covers
<1>12. n.loadedAt <= txs'
  BY <1>0, <1>1, <1>2, <1>4
<1> QED
  BY <1>1, <1>4, <1>6, <1>7, <1>9, <1>11, <1>12, MoveOne
(* A run that has ended knows nothing and owes nothing.                    *)
LEMMA EndedOK ==
  ASSUME NEW vv, NEW uu
  PROVE  Ended.loadedAt = 0 /\ Knows(Ended, vv) /\ Covers(Ended, vv, uu)
<1>1. Ended.pc = "idle" /\ Ended.loadedAt = 0
  BY DEF Ended
<1>2. Loaded(Ended) = {} /\ Processed(Ended) = {} /\ Unprocessed(Ended) = {}
  BY <1>1 DEF Loaded, Processed, Unprocessed
<1> QED
  BY <1>1, <1>2 DEF Knows, Covers

(* The updates to complete: a coin that was owed a sweep is at the newest  *)
(* version and so at none of the older ones; any other is a deposit made   *)
(* since the run was started.                                              *)
LEMMA SweptMark ==
  ASSUME TrackInv, SweptInv, NEW t \in Tools, MarkAccount(t)
  PROVE  SweptInv'
<1> DEFINE r == tool[t]
           a == r.acct
           n == IF a = N THEN Ended ELSE [r EXCEPT !.acct = a + 1]
<1>0. /\ r \in Locals /\ a \in Accounts /\ utxos \subseteq Coin /\ txs \in Nat
      /\ r.loadedAt \in Nat /\ claim \in [Accounts -> Nat] /\ r.sweptBy[a] \in Nat
      /\ versions \in [Accounts -> Seq(Version)] /\ versions[a] \in Seq(Version)
  BY DEF TrackInv, TypeOK, Locals
<1>1. PICK marked \in SUBSET (1..(Len(versions[a]) - 1)) :
        versions' = [versions EXCEPT ![a] = Completed(versions[a], marked, r.sweptBy[a])]
  BY DEF MarkAccount
<1>2. /\ r.pc = "mark" /\ UNCHANGED <<utxos, txs>>
      /\ claim' = [claim EXCEPT ![a] = r.loadedAt]
      /\ tool' = [tool EXCEPT ![t] = n]
  BY DEF MarkAccount
<1>3. a # N => n.pc = "mark" /\ n.loadedAt = r.loadedAt
  BY <1>0, <1>2 DEF Locals
<1>30. a = N => n = Ended
  OBVIOUS
<1> HIDE DEF n
<1>4. /\ r.loadedAt <= txs /\ Knows(r, versions) /\ Covers(r, versions, utxos)
      /\ VersionsOK(versions) /\ Numbered(utxos, claim, txs)
      /\ Swept(versions, utxos, claim)
  BY DEF SweptInv
<1>5. PICK ws : ws = Completed(versions[a], marked, r.sweptBy[a])
  OBVIOUS
<1>6. ws \in Seq(Version) /\ SameFeds(versions[a], ws)
  BY <1>0, <1>5, CompletedFeds
<1>7. versions'[a] = ws /\ \A b \in Accounts : b # a => versions'[b] = versions[b]
  BY <1>0, <1>1, <1>5
<1> HIDE DEF a
<1>8. \A b \in Accounts : /\ versions[b] \in Seq(Version) /\ versions'[b] \in Seq(Version)
                          /\ SameFeds(versions[b], versions'[b])
  <2>1. \A b \in Accounts : SameFeds(versions[b], versions[b])
    BY DEF SameFeds
  <2> QED
    BY <1>0, <1>6, <1>7, <2>1
<1>9. /\ \A b \in Accounts : versions[b] # <<>> <=> versions'[b] # <<>>
      /\ \A b \in Accounts : \A f : TopAt(versions[b], f) <=> TopAt(versions'[b], f)
      /\ VersionsOK(versions')
  BY <1>4, <1>8, RestatusTable
<1>10. Numbered(utxos', claim', txs')
  <2>1. \A b \in Accounts : claim'[b] <= txs
    BY <1>0, <1>2, <1>4 DEF Numbered
  <2> QED
    BY <1>2, <1>4, <2>1 DEF Numbered
<1>11. \A c \in utxos : c.acct \in Accounts
  BY <1>0 DEF Coin
<1>12. \A c \in utxos : Due(r, c) => TopAt(versions'[c.acct], c.fed)
  BY <1>2, <1>4, <1>9, <1>11 DEF Covers
<1>13. Swept(versions', utxos, claim')
  <2> SUFFICES ASSUME NEW c \in utxos, NEW i \in 1..(Len(versions'[c.acct]) - 1),
                      versions'[c.acct][i].status = "complete",
                      versions'[c.acct][i].fed = c.fed
               PROVE  c.deposit /\ c.tx > claim'[c.acct]
    BY DEF Swept
  <2>1. CASE c.acct = a
    <3>1. Distinct(versions'[c.acct]) /\ versions'[c.acct] \in Seq(Version)
      BY <1>8, <1>9, <1>11 DEF VersionsOK
    <3>2. ~TopAt(versions'[c.acct], c.fed)
      BY <3>1, OlderFacts
    <3>3. ~Due(r, c)
      BY <1>12, <3>2
    <3>4. c.tx \in Nat /\ claim'[a] = r.loadedAt
      BY <1>0, <1>2 DEF Coin
    <3> QED
      BY <1>0, <2>1, <3>3, <3>4 DEF Due
  <2>2. CASE c.acct # a
    <3>1. versions'[c.acct] = versions[c.acct] /\ claim'[c.acct] = claim[c.acct]
      BY <1>0, <1>2, <1>7, <1>11, <2>2
    <3> QED
      BY <1>4, <3>1 DEF Swept
  <2> QED
    BY <2>1, <2>2
<1>14. CASE a = N
  <2>1. n.loadedAt <= txs /\ Knows(n, versions') /\ Covers(n, versions', utxos)
    <3>1. 0 <= txs
      BY <1>0
    <3> QED
      BY <1>14, <1>30, <3>1, EndedOK
  <2> QED
    BY <1>2, <1>9, <1>10, <1>13, <2>1, MoveOne
<1>15. CASE a # N
  <2>1. /\ Loaded(n) = Accounts /\ Loaded(r) = Accounts
        /\ Processed(n) = {} /\ Unprocessed(n) = {}
    BY <1>2, <1>3, <1>15 DEF Loaded, Processed, Unprocessed
  <2>2. Knows(n, versions')
    BY <1>3, <1>4, <1>9, <1>15, <2>1 DEF Knows
  <2>3. Covers(n, versions', utxos)
    BY <1>3, <1>12, <1>15 DEF Covers, Due
  <2> QED
    BY <1>2, <1>3, <1>4, <1>9, <1>10, <1>13, <1>15, <2>2, <2>3, MoveOne
<1> QED
  BY <1>14, <1>15

(* A run may end anywhere, and a new one owes a sweep to what is there.    *)
LEMMA SweptEnd ==
  ASSUME TrackInv, SweptInv, NEW t \in Tools, EndRun(t)
  PROVE  SweptInv'
<1>1. tool' = [tool EXCEPT ![t] = Ended] /\ UNCHANGED <<versions, utxos, txs, claim>>
  BY DEF EndRun
<1>2. /\ VersionsOK(versions) /\ Numbered(utxos, claim, txs)
      /\ Swept(versions, utxos, claim)
  BY DEF SweptInv
<1>3. Ended.loadedAt <= txs /\ Knows(Ended, versions) /\ Covers(Ended, versions, utxos)
  <2>1. 0 <= txs
    BY DEF TrackInv, TypeOK
  <2> QED
    BY <2>1, EndedOK
<1> QED
  BY <1>1, <1>2, <1>3, MoveOne

LEMMA SweptStart ==
  ASSUME TrackInv, SweptInv, NEW t \in Tools, NEW f \in Feds, NEW only \in BOOLEAN,
         StartRun(t, f, only)
  PROVE  SweptInv'
<1> DEFINE n == [Ended EXCEPT !.pc = "load", !.target = f, !.only = only, !.loadedAt = txs]
<1>1. /\ tool' = [tool EXCEPT ![t] = n] /\ UNCHANGED <<versions, utxos, txs, claim>>
      /\ \A a \in Accounts : OlderNot(versions[a], f)
  BY DEF StartRun, OlderNot
<1>2. n.pc = "load" /\ n.target = f /\ n.acct = 1 /\ n.loadedAt = txs
  BY DEF Ended
<1> HIDE DEF n
<1>3. /\ VersionsOK(versions) /\ Numbered(utxos, claim, txs)
      /\ Swept(versions, utxos, claim) /\ txs \in Nat
  BY DEF SweptInv, TrackInv, TypeOK
<1>4. Loaded(n) = {} /\ Processed(n) = {} /\ Unprocessed(n) = {}
  <2>1. \A a \in Accounts : ~(a < 1)
    BY AccountAssumption DEF Accounts
  <2> QED
    BY <1>2, <2>1 DEF Loaded, Processed, Unprocessed
<1>5. Knows(n, versions) /\ Covers(n, versions, utxos)
  BY <1>1, <1>2, <1>4 DEF Knows, Covers
<1>6. n.loadedAt <= txs
  BY <1>2, <1>3
<1> QED
  BY <1>1, <1>3, <1>5, <1>6, MoveOne

-----------------------------------------------------------------------------
(* The initial state, and every step.                                      *)
LEMMA SweptInit ==
  ASSUME OneTool, ~SyncFaults, ~BootFaults, Init
  PROVE  SweptInv
<1>1. /\ versions = [a \in Accounts |-> <<>>] /\ utxos = {} /\ txs = 0
      /\ claim = [a \in Accounts |-> 0] /\ \A t \in Tools : tool[t] = Ended
  BY DEF Init
<1>0. 1 \in Accounts
  BY AccountAssumption DEF Accounts
<1>2. \A a \in Accounts : versions[a] = <<>>
  BY <1>1
<1>3. Feds_of(<<>>) = {} /\ Distinct(<<>>)
  BY DEF Feds_of, Distinct
<1>4. VersionsOK(versions)
  BY <1>0, <1>2, <1>3 DEF VersionsOK
<1>5. Numbered(utxos, claim, txs) /\ Swept(versions, utxos, claim)
  BY <1>1 DEF Numbered, Swept
<1>6. \A t \in Tools : /\ tool[t].loadedAt <= txs
                       /\ Knows(tool[t], versions) /\ Covers(tool[t], versions, utxos)
  BY <1>1, EndedOK
<1> QED
  BY <1>4, <1>5, <1>6 DEF SweptInv

LEMMA SweptStep ==
  ASSUME TrackInv, SweptInv, [Next]_vars
  PROVE  SweptInv'
<1>0. txs \in Nat /\ utxos \subseteq Coin
  BY DEF TrackInv, TypeOK
<1>1. ASSUME NEW t \in Tools, NEW f \in Feds, NEW only \in BOOLEAN, StartRun(t, f, only)
      PROVE  SweptInv'
  BY <1>1, SweptStart
<1>2. ASSUME NEW t \in Tools, ToolStep(t) PROVE SweptInv'
  BY <1>2, SweptLoad, SweptPlan, SweptRead, SweptInsert, SweptPending, SweptConfirm,
     SweptCustomers, SweptFeeAccount, SweptMark, SweptEnd DEF ToolStep
<1>3. ASSUME NEW a \in Accounts, AppLoad(a) PROVE SweptInv'
  <2>1. LoadWallet(a) /\ UNCHANGED <<utxos, txs, tool, claim>>
    BY <1>3 DEF AppLoad
  <2>2. Booted(versions, versions')
    BY <2>1, LoadBoots DEF SweptInv
  <2> QED
    BY <1>0, <2>1, <2>2, EnvironmentKeeps
<1>4. ASSUME NEW a \in Accounts, AppSend(a) PROVE SweptInv'
  <2>1. utxos' \subseteq utxos /\ txs' = txs + 1 /\ UNCHANGED <<versions, tool, claim>>
    BY <1>4 DEF AppSend
  <2>2. txs' \in Nat /\ txs <= txs' /\ utxos' \subseteq Coin
    BY <1>0, <2>1
  <2> QED
    BY <2>1, <2>2, SameBoots, EnvironmentKeeps
<1>5. ASSUME NEW a \in Accounts, NEW f \in Feds, Deposit(a, f) PROVE SweptInv'
  <2> DEFINE c == NewCoin(a, f, TRUE)
  <2>1. /\ utxos' = utxos \cup {c} /\ txs' = txs + 1 /\ UNCHANGED <<versions, tool, claim>>
    BY <1>5 DEF Deposit
  <2>2. c \in Coin /\ c.deposit /\ c.tx = txs + 1
    BY <1>0 DEF NewCoin, Coin
  <2> HIDE DEF c
  <2>3. txs' \in Nat /\ txs <= txs' /\ utxos' \subseteq Coin
    BY <1>0, <2>1, <2>2
  <2>4. \A d \in utxos' : d \in utxos \/ (d.deposit /\ d.tx = txs' /\ txs' = txs + 1)
    BY <2>1, <2>2
  <2> QED
    BY <2>1, <2>3, <2>4, SameBoots, EnvironmentKeeps
<1>6. CASE AppRestart \/ UNCHANGED vars
  <2>1. UNCHANGED <<versions, utxos, txs, tool, claim>>
    BY <1>6 DEF AppRestart, vars
  <2>2. txs' \in Nat /\ txs <= txs' /\ utxos' \subseteq Coin
    BY <1>0, <2>1
  <2> QED
    BY <2>1, <2>2, SameBoots, EnvironmentKeeps
<1> QED
  BY <1>1, <1>2, <1>3, <1>4, <1>5, <1>6 DEF Next

(* An older version marked complete holds none of the account's coins that *)
(* the marking invocation could know of (the loops over                    *)
(* set_migration_complete and update_migration_status), as long as         *)
(* invocations do not overlap, none is given --sweep-only, syncs succeed   *)
(* and so does the insert of version 0; for any accounts, federations,     *)
(* runs that stop anywhere, deposits to old addresses, and sends and loads *)
(* of the application in between.                                          *)
THEOREM MigrationCompleteMeansSwept ==
  OneTool /\ ~AllowSweepOnly /\ ~SyncFaults /\ ~BootFaults /\ Spec => []CompleteMeansSwept
<1>1. OneTool /\ ~SyncFaults /\ ~BootFaults /\ Init => SweptInv
  BY SweptInit
<1>2. TrackInv /\ SweptInv /\ [Next]_vars => SweptInv'
  BY SweptStep
<1>3. SweptInv => CompleteMeansSwept
  BY DEF SweptInv, Swept, CompleteMeansSwept
<1> QED
  BY <1>1, <1>2, <1>3, TrackInvariant, PTL DEF Spec
=============================================================================
