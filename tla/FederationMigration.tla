------------------------ MODULE FederationMigration ------------------------
(***************************************************************************)
(* Rotation of the Bitcoin federation: examples/federation_migration.rs    *)
(* records a new federation version for every account, sweeps the funds to *)
(* it and marks the older versions complete, while the web application     *)
(* loads wallets, hands out addresses and spends (src/wallet.rs), and both *)
(* share the tables of src/db.rs.                                          *)
(*                                                                         *)
(* A federation (signers and threshold) is a model value; an account's     *)
(* descriptor is determined by it.  A coin is known by the account and the *)
(* federation of its address and by the number of the transaction that     *)
(* created it.  Amounts and fees are left out.                             *)
(***************************************************************************)
EXTENDS FederationVersions, FiniteSets

CONSTANTS
  N,             \* accounts are 1..N, in the order of account_idx
  FeeAccount,    \* fee_account_idx of the tool's configuration
  Feds,          \* federations
  Fed0,          \* the one of the application's configuration
  Tools,         \* invocations of the tool that may overlap
  AllowSweepOnly,\* whether the operator may pass --sweep-only
  SyncFaults,    \* whether a sync of the tool may fail
  BootFaults,    \* whether the insert of version 0 may fail
  MaxRuns,       \* bound on invocations
  MaxDeposits    \* bound on deposits

Accounts == 1..N

ASSUME AccountAssumption ==
  /\ N \in Nat \ {0}
  /\ FeeAccount \in Accounts

ASSUME FedAssumption ==
  /\ Fed0 \in Feds
  /\ AllowSweepOnly \in BOOLEAN
  /\ SyncFaults \in BOOLEAN
  /\ BootFaults \in BOOLEAN
  /\ MaxRuns \in Nat
  /\ MaxDeposits \in Nat

VARIABLES
  versions,  \* federation_versions: account -> versions, oldest first
  row,       \* wallets.descriptor: account -> federation
  utxos,     \* unspent coins, confirmed or in the mempool
  txs,       \* transactions so far, for numbering them
  served,    \* application: the federations of the wallets it has cached
  handed,    \* federations an account's deposit addresses were shown for
  tool,      \* progress of each invocation
  runs,      \* invocations so far
  deposits,  \* deposits so far
  claim      \* history: transactions there were when the invocation that
             \* last marked account a was started

appVars == <<served, handed, deposits>>
vars == <<versions, row, utxos, txs, served, handed, tool, runs, deposits, claim>>

Coin == [acct : Accounts, fed : Feds, tx : Nat, deposit : BOOLEAN]

Version == [fed : Feds, status : Status, sweep : Nat]

-----------------------------------------------------------------------------
(* Locals of the tool's main: the configured target, the account in hand,  *)
(* the first account's federation, the coins found, the version index read *)
(* for the account in hand, the fee account's old federation, its chained  *)
(* change, the customers still to sweep and the sweep of each account.     *)
Stage == {"idle", "load", "plan", "same", "step1", "insert", "pending",
          "confirm", "sweep", "mark"}

Locals == [pc : Stage, target : Feds, only : BOOLEAN, acct : Accounts,
           current : Feds, plan : SUBSET Coin, read : Nat, oldFed : Feds,
           change : SUBSET Coin, left : SUBSET Accounts,
           sweptBy : [Accounts -> Nat], loadedAt : Nat]

Ended == [pc |-> "idle", target |-> Fed0, only |-> FALSE, acct |-> 1,
          current |-> Fed0, plan |-> {}, read |-> 0, oldFed |-> Fed0,
          change |-> {}, left |-> {}, sweptBy |-> [a \in Accounts |-> NoTx],
          loadedAt |-> 0]

Init ==
  /\ versions = [a \in Accounts |-> <<>>]
  /\ row = [a \in Accounts |-> Fed0]
  /\ utxos = {}
  /\ txs = 0
  /\ served = [a \in Accounts |-> {}]
  /\ handed = [a \in Accounts |-> {}]
  /\ tool = [t \in Tools |-> Ended]
  /\ runs = 0
  /\ deposits = 0
  /\ claim = [a \in Accounts |-> 0]

(* The process ends at this point: a declined prompt, an error that exits, *)
(* a dry run, the end of main, or a crash.  Nothing else is written.       *)
EndRun(t) ==
  /\ tool[t].pc # "idle"
  /\ tool' = [tool EXCEPT ![t] = Ended]
  /\ UNCHANGED <<versions, row, utxos, txs, runs, claim, appVars>>

(***************************************************************************)
(* build_user_wallet: the wallet is bound to the latest stored version, or *)
(* to the configured federation when none is stored, and                   *)
(* wallets.descriptor is rewritten to it.  The configured federation is    *)
(* then recorded as version 0, but an error of that insert is dropped by   *)
(* .ok(): the wallet built is the same, the table stays empty.             *)
(***************************************************************************)
Bootstrapped(vs) == IF vs = <<>> THEN <<NewVersion(Fed0)>> ELSE vs

LoadWallet(a) ==
  /\ \/ /\ versions[a] = <<>>
        /\ versions' = [versions EXCEPT ![a] = Bootstrapped(versions[a])]
     \/ /\ versions[a] # <<>> \/ BootFaults
        /\ UNCHANGED versions
  /\ row' = [row EXCEPT ![a] = Latest(Bootstrapped(versions[a]))]

-----------------------------------------------------------------------------
(* The operator starts the tool.  A rotation does not go back to an older  *)
(* federation.                                                             *)
StartRun(t, f, only) ==
  /\ tool[t].pc = "idle"
  /\ runs < MaxRuns
  /\ only => AllowSweepOnly
  /\ \A a \in Accounts : \A i \in 1..(Len(versions[a]) - 1) : versions[a][i].fed # f
  /\ runs' = runs + 1
  /\ tool' = [tool EXCEPT ![t] =
                [Ended EXCEPT !.pc = "load", !.target = f, !.only = only, !.loadedAt = txs]]
  /\ UNCHANGED <<versions, row, utxos, txs, claim, appVars>>

(* The coins of an account that its version wallets find.                  *)
Found(a, vs) == {c \in utxos : c.acct = a /\ c.fed \in Feds_of(vs)}

(* One turn of the discovery loop: load, sync, refuse an account with a    *)
(* migration in progress, note its coins.  A failed sync is only a warning.*)
LoadAccount(t) ==
  LET r == tool[t]
      a == r.acct
      vs == Bootstrapped(versions[a])
  IN
  /\ r.pc = "load"
  /\ LoadWallet(a)
  /\ \A i \in 1..Len(vs) : vs[i].status # "in_progress"
  /\ \E found \in {Found(a, vs)} \cup (IF SyncFaults THEN {{}} ELSE {}) :
       tool' = [tool EXCEPT ![t] =
         [r EXCEPT !.pc = IF a = N THEN "plan" ELSE "load",
                   !.acct = IF a = N THEN 1 ELSE a + 1,
                   !.current = IF a = 1 THEN Latest(vs) ELSE r.current,
                   !.plan = r.plan \cup found]]
  /\ UNCHANGED <<utxos, txs, runs, claim, appVars>>

PlanOf(r, a) == {c \in r.plan : c.acct = a}

(* The federation of the first account is compared with the target; equal  *)
(* ends the run.  The sweep plan needs funds on the fee account.           *)
DecidePlan(t) ==
  LET r == tool[t] IN
  /\ r.pc = "plan"
  /\ \/ /\ r.current = r.target
        /\ tool' = [tool EXCEPT ![t].pc = "same"]
     \/ /\ r.current # r.target
        /\ r.plan # {} => PlanOf(r, FeeAccount) # {}
        /\ tool' = [tool EXCEPT ![t].pc = IF r.only THEN "confirm" ELSE "step1"]
  /\ UNCHANGED <<versions, row, utxos, txs, runs, claim, appVars>>

(* Step 1, for each account: the next version index is the number of       *)
(* versions read; the insert fails when that index has been taken since.   *)
ReadVersions(t) ==
  LET r == tool[t] IN
  /\ r.pc = "step1"
  /\ tool' = [tool EXCEPT ![t].pc = "insert", ![t].read = Len(versions[r.acct])]
  /\ UNCHANGED <<versions, row, utxos, txs, runs, claim, appVars>>

(* Mutant: the federation found is recorded once more, not the new one.    *)
InsertVersion_RecordsCurrent(t) ==
  LET r == tool[t] IN
  /\ r.pc = "insert"
  /\ Len(versions[r.acct]) = r.read
  /\ versions' = [versions EXCEPT ![r.acct] = Append(@, NewVersion(r.current))]
  /\ tool' = [tool EXCEPT ![t].pc = "pending"]
  /\ UNCHANGED <<row, utxos, txs, runs, claim, appVars>>

InsertVersion(t) ==
  LET r == tool[t] IN
  /\ r.pc = "insert"
  /\ Len(versions[r.acct]) = r.read
  /\ versions' = [versions EXCEPT ![r.acct] = Append(@, NewVersion(r.target))]
  /\ tool' = [tool EXCEPT ![t].pc = "pending"]
  /\ UNCHANGED <<row, utxos, txs, runs, claim, appVars>>

(* An error of the update is only a warning.                               *)
SetPending(t) ==
  LET r == tool[t]
      a == r.acct
  IN
  /\ r.pc = "pending"
  /\ \E vs \in {versions[a], Pending(versions[a], r.read)} :
       versions' = [versions EXCEPT ![a] = vs]
  /\ tool' = [tool EXCEPT ![t].pc = IF a = N THEN "confirm" ELSE "step1",
                          ![t].acct = IF a = N THEN 1 ELSE a + 1]
  /\ UNCHANGED <<row, utxos, txs, runs, claim, appVars>>

(* Step 2 is confirmed.  The fee account's second to last version is taken *)
(* for the old federation.                                                 *)
ConfirmSweep(t) ==
  LET r == tool[t]
      vs == versions[FeeAccount]
  IN
  /\ r.pc = "confirm"
  /\ r.plan # {}
  /\ Len(vs) >= 2
  /\ tool' = [tool EXCEPT ![t].pc = "sweep",
                          ![t].oldFed = vs[Len(vs) - 1].fed,
                          ![t].change = PlanOf(r, FeeAccount),
                          ![t].left = {c.acct : c \in r.plan} \ {FeeAccount}]
  /\ UNCHANGED <<versions, row, utxos, txs, runs, claim, appVars>>

NewCoin(a, f, deposit) == [acct |-> a, fed |-> f, tx |-> txs + 1, deposit |-> deposit]

(* The inputs of a sweep transaction: the coins noted for its customers    *)
(* and the fee account's, from the second on the chained change.           *)
SweepInputs(r, S) == (UNION {PlanOf(r, a) : a \in S}) \cup r.change

(* account_sweep_txid: the transaction with an account's customer output.  *)
RecordSweep(r, S) == [a \in Accounts |-> IF a \in S THEN txs + 1 ELSE r.sweptBy[a]]

(***************************************************************************)
(* A sweep transaction of the plan moves one or, batched, several          *)
(* customers.  It is accepted only while every input is unspent.  The      *)
(* change goes back to the fee account's old federation.                   *)
(***************************************************************************)
SweepCustomers(t, S) ==
  LET r == tool[t]
      change == NewCoin(FeeAccount, r.oldFed, FALSE)
  IN
  /\ r.pc = "sweep"
  /\ S # {} /\ S \subseteq r.left
  /\ SweepInputs(r, S) \subseteq utxos
  /\ txs' = txs + 1
  /\ utxos' = (utxos \ SweepInputs(r, S))
                \cup {NewCoin(a, r.target, FALSE) : a \in S} \cup {change}
  /\ tool' = [tool EXCEPT ![t] = [r EXCEPT !.left = r.left \ S, !.change = {change},
                                           !.sweptBy = RecordSweep(r, S)]]
  /\ UNCHANGED <<versions, row, runs, claim, appVars>>

(* Mutant: the fee account's sweep does not wait for the customers'.       *)
SweepFeeAccount_First(t) ==
  LET r == tool[t] IN
  /\ r.pc = "sweep"
  /\ r.change \subseteq utxos
  /\ txs' = txs + 1
  /\ utxos' = (utxos \ r.change) \cup {NewCoin(FeeAccount, r.target, FALSE)}
  /\ tool' = [tool EXCEPT ![t].pc = "mark", ![t].change = {}]
  /\ UNCHANGED <<versions, row, runs, claim, appVars>>

(* The last transaction moves the fee account itself.                      *)
SweepFeeAccount(t) ==
  LET r == tool[t] IN
  /\ r.pc = "sweep"
  /\ r.left = {}
  /\ r.change \subseteq utxos
  /\ txs' = txs + 1
  /\ utxos' = (utxos \ r.change) \cup {NewCoin(FeeAccount, r.target, FALSE)}
  /\ tool' = [tool EXCEPT ![t].pc = "mark", ![t].change = {}]
  /\ UNCHANGED <<versions, row, runs, claim, appVars>>

(* Every version below the highest is updated, one statement each.  Errors *)
(* are ignored, so any of them may be left out; of those a run that stops  *)
(* half way leaves out the rest.                                           *)
MarkAccount(t) ==
  LET r == tool[t]
      a == r.acct
  IN
  /\ r.pc = "mark"
  /\ \E marked \in SUBSET (1..(Len(versions[a]) - 1)) :
       versions' = [versions EXCEPT ![a] = Completed(@, marked, r.sweptBy[a])]
  /\ claim' = [claim EXCEPT ![a] = r.loadedAt]
  /\ tool' = [tool EXCEPT ![t] = IF a = N THEN Ended ELSE [r EXCEPT !.acct = a + 1]]
  /\ UNCHANGED <<row, utxos, txs, runs, appVars>>

-----------------------------------------------------------------------------
(* The web application loads an account's wallet and shows its addresses.  *)
AppLoad(a) ==
  LET f == Latest(Bootstrapped(versions[a])) IN
  /\ served[a] = {}
  /\ LoadWallet(a)
  /\ served' = [served EXCEPT ![a] = {f}]
  /\ handed' = [handed EXCEPT ![a] = @ \cup {f}]
  /\ UNCHANGED <<utxos, txs, tool, runs, deposits, claim>>

AppRestart ==
  /\ served # [a \in Accounts |-> {}]
  /\ served' = [a \in Accounts |-> {}]
  /\ UNCHANGED <<versions, row, utxos, txs, handed, tool, runs, deposits, claim>>

(* Somebody pays to an address shown before, however long ago.             *)
Deposit(a, f) ==
  /\ deposits < MaxDeposits
  /\ f \in handed[a]
  /\ deposits' = deposits + 1
  /\ txs' = txs + 1
  /\ utxos' = utxos \cup {NewCoin(a, f, TRUE)}
  /\ UNCHANGED <<versions, row, served, handed, tool, runs, claim>>

(* Send-Max: the served wallet spends everything its descriptor holds.  (A *)
(* send that keeps change is this and a deposit of the change.)            *)
AppSend(a) ==
  LET spent == {c \in utxos : c.acct = a /\ c.fed \in served[a]} IN
  /\ spent # {}
  /\ utxos' = utxos \ spent
  /\ txs' = txs + 1
  /\ UNCHANGED <<versions, row, tool, runs, claim, appVars>>

ToolStep(t) ==
  \/ LoadAccount(t) \/ DecidePlan(t) \/ ReadVersions(t) \/ InsertVersion(t)
  \/ SetPending(t) \/ ConfirmSweep(t) \/ SweepFeeAccount(t) \/ MarkAccount(t)
  \/ \E S \in SUBSET Accounts : SweepCustomers(t, S)
  \/ EndRun(t)

Next ==
  \/ \E t \in Tools, f \in Feds, only \in BOOLEAN : StartRun(t, f, only)
  \/ \E t \in Tools : ToolStep(t)
  \/ \E a \in Accounts : AppLoad(a) \/ AppSend(a)
  \/ \E a \in Accounts, f \in Feds : Deposit(a, f)
  \/ AppRestart

Spec == Init /\ [][Next]_vars

-----------------------------------------------------------------------------
TypeOK ==
  /\ versions \in [Accounts -> Seq(Version)]
  /\ row \in [Accounts -> Feds]
  /\ utxos \subseteq Coin
  /\ txs \in Nat
  /\ served \in [Accounts -> SUBSET Feds]
  /\ handed \in [Accounts -> SUBSET Feds]
  /\ tool \in [Tools -> Locals]
  /\ runs \in 0..MaxRuns
  /\ deposits \in 0..MaxDeposits
  /\ claim \in [Accounts -> Nat]

(* Every coin lies at a federation recorded for its account: after any     *)
(* restart build_federated_wallet rebuilds a version wallet that finds it  *)
(* and the signers that can spend it.  (With BootFaults the dropped error  *)
(* of the insert of version 0 breaks it.)                                  *)
FundsTracked ==
  \A c \in utxos : c.fed \in Feds_of(versions[c.acct])

(* migrations/0006_migration_status.sql: "The current (latest) version is  *)
(* always 'not_applicable'", also while invocations of the tool overlap.   *)
LatestNotApplicable ==
  \A a \in Accounts : LET vs == versions[a] IN
    vs # <<>> => vs[Len(vs)].status = "not_applicable"

(* An older version marked complete holds none of the account's coins that *)
(* the marking invocation could know of: what is left came in as a deposit *)
(* after that invocation was started.                                      *)
CompleteMeansSwept ==
  \A c \in utxos : \A i \in 1..(Len(versions[c.acct]) - 1) :
    versions[c.acct][i].status = "complete" /\ versions[c.acct][i].fed = c.fed =>
      c.deposit /\ c.tx > claim[c.acct]

(* The tool says "Re-run this tool later to complete the migration" and a  *)
(* later run says "Nothing to do" only when nothing is left to do: no coin *)
(* that was there when it started lies at an older federation.             *)
NothingToDoMeansMigrated ==
  \A t \in Tools : tool[t].pc = "same" =>
    \A c \in utxos : c.tx <= tool[t].loadedAt => c.fed = tool[t].target
=============================================================================
