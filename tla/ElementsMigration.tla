------------------------- MODULE ElementsMigration -------------------------
(***************************************************************************)
(* The Elements half of examples/federation_migration.rs                   *)
(* (run_elements_migration) beside the web application and its ingestion   *)
(* task.  It differs from the Bitcoin half in what it trusts: the coins    *)
(* are those captured in elements_utxos, the current federation is the one *)
(* of the application's configuration, destinations are resolved for every *)
(* account before Step 1, and inputs are spent with the descriptor that    *)
(* the account's wallet was bound to when the run loaded it.               *)
(*                                                                         *)
(* A federation stands for the script its descriptor gives an account; the *)
(* blinding key of a version does not change that script.  Amounts, assets *)
(* and fees are left out.  elements_wallets.descriptor is only ever a copy *)
(* of the latest version, or of the configured federation while there is   *)
(* none, and is not kept.                                                  *)
(***************************************************************************)
EXTENDS FederationVersions, FiniteSets

CONSTANTS
  N,             \* accounts are 1..N, in the order of account_idx
  FeeAccount,    \* fee_account_idx of the tool's configuration
  Feds,          \* federations
  Fed0,          \* the one of the application's configuration
  Tools,         \* invocations of the tool that may overlap
  Modes,         \* how it may be run: --sweep-only or not, batched or not
  BootFaults,    \* whether the insert of version 0 may fail
  MarkFaults,    \* whether an update to complete may fail
  MaxRuns,       \* bound on invocations
  MaxDeposits    \* bound on deposits

Accounts == 1..N

ASSUME ElementsMigrationAssumption ==
  /\ N \in Nat \ {0} /\ FeeAccount \in Accounts
  /\ Fed0 \in Feds
  /\ Modes \subseteq [only : BOOLEAN, batched : BOOLEAN]
  /\ BootFaults \in BOOLEAN /\ MarkFaults \in BOOLEAN
  /\ MaxRuns \in Nat /\ MaxDeposits \in Nat

VARIABLES
  versions,  \* federation_versions: account -> versions, oldest first
  utxos,     \* unspent coins of the chain and the mempool
  captured,  \* elements_utxos: the rows that are not spent
  txs,       \* transactions so far, for numbering them
  handed,    \* federations of an account's wallets that the application has
             \* loaded, with the deposit addresses it shows
  tool,      \* progress of each invocation
  runs,      \* invocations so far
  deposits   \* deposits so far

chainVars == <<utxos, captured, txs>>
appVars == <<handed, deposits>>
vars == <<versions, chainVars, appVars, tool, runs>>

Coin == [acct : Accounts, fed : Feds, tx : Nat]

Version == [fed : Feds, status : Status, sweep : Nat]

(* Locals of run_elements_migration: the arguments; the account in hand;   *)
(* whether any captured coin was seen; the federation each wallet is bound *)
(* to; new_feds, with the version index read; the coins to sweep, of which *)
(* those of the fee account and its chained change are kept apart; the     *)
(* accounts left to sweep; account_sweep_txid; as history, the coins it    *)
(* answers for: captured as it was at Step 2, and those it made.           *)
Stage == {"idle", "load", "resolve", "insert", "pending", "read",
          "sweep", "mismatch", "mark"}

Locals == [pc : Stage, target : Feds, only : BOOLEAN, batched : BOOLEAN,
           acct : Accounts, funded : BOOLEAN, bound : [Accounts -> Feds],
           dest : [Accounts -> [fed : Feds, index : Nat]],
           coins : SUBSET Coin, fee : SUBSET Coin, change : SUBSET Coin,
           left : SUBSET Accounts, sweptBy : [Accounts -> Nat],
           known : SUBSET Coin]

Ended == [pc |-> "idle", target |-> Fed0, only |-> FALSE, batched |-> FALSE,
          acct |-> 1, funded |-> FALSE, bound |-> [a \in Accounts |-> Fed0],
          dest |-> [a \in Accounts |-> [fed |-> Fed0, index |-> 0]],
          coins |-> {}, fee |-> {}, change |-> {}, left |-> {},
          sweptBy |-> [a \in Accounts |-> NoTx], known |-> {}]

Init ==
  /\ versions = [a \in Accounts |-> <<>>]
  /\ utxos = {} /\ captured = {} /\ txs = 0
  /\ handed = [a \in Accounts |-> {}]
  /\ tool = [t \in Tools |-> Ended]
  /\ runs = 0 /\ deposits = 0

CapturedOf(a) == {c \in captured : c.acct = a}

(***************************************************************************)
(* build_user_wallet: version 0 is recorded when nothing is stored (an     *)
(* error is dropped by .ok()); the wallet is bound to the latest version.  *)
(***************************************************************************)
Bound(a) == IF versions[a] = <<>> THEN Fed0 ELSE Latest(versions[a])

LoadWallet(a) ==
  \/ /\ versions[a] = <<>>
     /\ versions' = [versions EXCEPT ![a] = <<NewVersion(Fed0)>>]
  \/ /\ versions[a] # <<>> \/ BootFaults
     /\ UNCHANGED versions

-----------------------------------------------------------------------------
(* The operator runs the tool.  A target that is the federation of the     *)
(* application's configuration is "Nothing to do": such a run loads the    *)
(* wallets, as AppLoad does, and ends.                                     *)
StartRun(t, f, mode) ==
  /\ tool[t].pc = "idle"
  /\ runs < MaxRuns
  /\ f # Fed0
  /\ runs' = runs + 1
  /\ tool' = [tool EXCEPT ![t] =
       [Ended EXCEPT !.pc = "load", !.target = f, !.only = mode.only,
                     !.batched = mode.batched]]
  /\ UNCHANGED <<versions, chainVars, appVars>>

(* The process ends here: a declined prompt, an error that exits, a dry    *)
(* run, a rejected sweep, the end, or a crash.                             *)
EndRun(t) ==
  /\ tool[t].pc # "idle"
  /\ tool' = [tool EXCEPT ![t] = Ended]
  /\ UNCHANGED <<versions, chainVars, appVars, runs>>

(* The loops over the accounts: the next turn of stage pc, or stage next.  *)
Turn(r, pc, next) ==
  IF r.acct = N THEN [r EXCEPT !.pc = next, !.acct = 1]
  ELSE [r EXCEPT !.pc = pc, !.acct = r.acct + 1]

(* Discovery: refuse a migration in progress, load, sum up what is captured. *)
LoadAccount(t) ==
  LET r == tool[t]
      a == r.acct
  IN
  /\ r.pc = "load"
  /\ \A i \in 1..Len(versions[a]) : versions[a][i].status # "in_progress"
  /\ LoadWallet(a)
  /\ tool' = [tool EXCEPT ![t] =
       Turn([r EXCEPT !.bound[a] = Bound(a),
                      !.funded = r.funded \/ CapturedOf(a) # {}], "load", "resolve")]
  /\ UNCHANGED <<chainVars, appVars, runs>>

(* Mutant: --sweep-only takes the configured federation for recorded.      *)
NewFed_Configured(r, vs) ==
  [fed |-> r.target, index |-> Len(vs)]

(* The destination: with --sweep-only the latest version, otherwise the    *)
(* target, to become the version after those read here.                    *)
NewFed(r, vs) ==
  IF r.only THEN [fed |-> Latest(vs), index |-> Len(vs) - 1]
  ELSE [fed |-> r.target, index |-> Len(vs)]

ResolveAccount(t) ==
  LET r == tool[t]
      a == r.acct
  IN
  /\ r.pc = "resolve"
  /\ r.only => versions[a] # <<>>
  /\ tool' = [tool EXCEPT ![t] =
       Turn([r EXCEPT !.dest[a] = NewFed(r, versions[a])],
            "resolve", IF r.only THEN "read" ELSE "insert")]
  /\ UNCHANGED <<versions, chainVars, appVars, runs>>

(* Step 1: the insert fails, and the run ends, when the index was taken.   *)
InsertVersion(t) ==
  LET r == tool[t]
      a == r.acct
  IN
  /\ r.pc = "insert"
  /\ Len(versions[a]) = r.dest[a].index
  /\ versions' = [versions EXCEPT ![a] = Append(@, NewVersion(r.dest[a].fed))]
  /\ tool' = [tool EXCEPT ![t].pc = "pending"]
  /\ UNCHANGED <<chainVars, appVars, runs>>

(* An error of the update is only a warning.                               *)
SetPending(t) ==
  LET r == tool[t]
      a == r.acct
  IN
  /\ r.pc = "pending"
  /\ \/ versions' = [versions EXCEPT ![a] = Pending(@, r.dest[a].index)]
     \/ UNCHANGED versions
  /\ tool' = [tool EXCEPT ![t] = Turn(r, "insert", "read")]
  /\ UNCHANGED <<chainVars, appVars, runs>>

(* Step 2, unless nothing was seen at the beginning: the captured coins    *)
(* are read again; accounts without any are left out.                      *)
ReadCoins(t) ==
  LET r == tool[t]
      a == r.acct
  IN
  /\ r.pc = "read" /\ r.funded
  /\ tool' = [tool EXCEPT ![t] =
       Turn([r EXCEPT !.coins = IF a = FeeAccount THEN @ ELSE @ \cup CapturedOf(a),
                      !.fee = IF a = FeeAccount THEN CapturedOf(a) ELSE @,
                      !.left = IF a = FeeAccount \/ CapturedOf(a) = {} THEN @
                               ELSE @ \cup {a},
                      !.known = IF a = 1 THEN captured ELSE @], "read", "sweep")]
  /\ UNCHANGED <<versions, chainVars, appVars, runs>>

-----------------------------------------------------------------------------
(* A captured coin can be spent with a descriptor only when it lies at a   *)
(* script of that descriptor.                                              *)
Matches(r, C) == \A c \in C : c.fed = r.bound[c.acct]

NewCoin(a, f) == [acct |-> a, fed |-> f, tx |-> txs + 1]

(* broadcast_via_backend accepts a transaction whose inputs are unspent.   *)
Broadcast(r, inputs, outputs) ==
  /\ Matches(r, inputs) /\ inputs \subseteq utxos
  /\ utxos' = (utxos \ inputs) \cup outputs
  /\ txs' = txs + 1
  /\ UNCHANGED captured

Paid(r, S) == {NewCoin(a, r.dest[a].fed) : a \in S}

RecordSweep(r, S) == [a \in Accounts |-> IF a \in S THEN txs + 1 ELSE r.sweptBy[a]]

(* Every transaction of the plan is out.                                   *)
Swept(r, sweptBy, paid) ==
  [Ended EXCEPT !.pc = "mark", !.sweptBy = sweptBy, !.known = r.known \cup paid]

(* Batched: the customers of one planned transaction, the fee from the     *)
(* chained change or, at first, from one coin of the fee account.  What is *)
(* left of it stays at the fee account's old federation.                   *)
SweepCustomers(t, S, seed) ==
  LET r == tool[t]
      change == NewCoin(FeeAccount, r.bound[FeeAccount])
      moved == {c \in r.coins : c.acct \in S}
      made == Paid(r, S) \cup {change}
      feeIn == IF r.change = {} THEN {seed} ELSE r.change
  IN
  /\ r.pc = "sweep" /\ r.batched
  /\ S # {} /\ S \subseteq r.left
  /\ Broadcast(r, moved \cup feeIn, made)
  /\ tool' = [tool EXCEPT ![t] =
       [r EXCEPT !.left = @ \ S, !.fee = @ \ feeIn, !.change = {change},
                 !.sweptBy = RecordSweep(r, S), !.known = @ \cup made]]
  /\ UNCHANGED <<versions, appVars, runs>>

(* Mutant: the first coin is skipped whether it was the seed or not.       *)
SweepFeeAccount_SkipsFirst(t) ==
  LET r == tool[t] IN
  /\ r.pc = "sweep" /\ r.batched
  /\ r.left = {}
  /\ \E first \in r.fee :
       /\ r.fee \cup r.change # {first}
       /\ Broadcast(r, (r.fee \ {first}) \cup r.change, Paid(r, {FeeAccount}))
  /\ tool' = [tool EXCEPT ![t] = Swept(r, r.sweptBy, Paid(r, {FeeAccount}))]
  /\ UNCHANGED <<versions, appVars, runs>>

(* Batched, is_fee_final: what is left of the fee account's coins and the  *)
(* chained change cross to the new federation.                             *)
SweepFeeAccount(t) ==
  LET r == tool[t] IN
  /\ r.pc = "sweep" /\ r.batched
  /\ r.left = {} /\ r.fee \cup r.change # {}
  /\ Broadcast(r, r.fee \cup r.change, Paid(r, {FeeAccount}))
  /\ tool' = [tool EXCEPT ![t] = Swept(r, r.sweptBy, Paid(r, {FeeAccount}))]
  /\ UNCHANGED <<versions, appVars, runs>>

(* account-for-account: one transaction for everybody.                     *)
SweepAll(t) ==
  LET r == tool[t] IN
  /\ r.pc = "sweep" /\ ~r.batched
  /\ r.fee # {}
  /\ Broadcast(r, r.coins \cup r.fee, Paid(r, r.left \cup {FeeAccount}))
  /\ tool' = [tool EXCEPT ![t] =
       Swept(r, RecordSweep(r, r.left), Paid(r, r.left \cup {FeeAccount}))]
  /\ UNCHANGED <<versions, appVars, runs>>

(* "script pubkey didn't match the descriptor": a planned input cannot be  *)
(* spent, the run is over.                                                 *)
MismatchedInput(t) ==
  LET r == tool[t] IN
  /\ r.pc = "sweep"
  /\ r.fee \cup r.change # {}
  /\ ~Matches(r, r.fee \cup {c \in r.coins : c.acct \in r.left})
  /\ tool' = [tool EXCEPT ![t] = [Ended EXCEPT !.pc = "mismatch", !.only = r.only]]
  /\ UNCHANGED <<versions, chainVars, appVars, runs>>

(* Every version below the highest, one statement each, errors ignored.    *)
MarkAccount(t) ==
  LET r == tool[t]
      a == r.acct
  IN
  /\ r.pc = "mark"
  /\ \E marked \in SUBSET (1..(Len(versions[a]) - 1)) :
       /\ MarkFaults \/ marked = 1..(Len(versions[a]) - 1)
       /\ versions' = [versions EXCEPT ![a] = Completed(@, marked, r.sweptBy[a])]
  /\ tool' = [tool EXCEPT ![t] = IF a = N THEN Ended ELSE [r EXCEPT !.acct = a + 1]]
  /\ UNCHANGED <<chainVars, appVars, runs>>

ToolStep(t) ==
  \/ LoadAccount(t) \/ ResolveAccount(t) \/ InsertVersion(t)
  \/ SetPending(t) \/ ReadCoins(t)
  \/ \E S \in SUBSET Accounts, seed \in tool[t].fee \cup tool[t].change :
       SweepCustomers(t, S, seed)
  \/ SweepFeeAccount(t) \/ SweepAll(t) \/ MismatchedInput(t)
  \/ MarkAccount(t) \/ EndRun(t)

-----------------------------------------------------------------------------
(* The application loads a wallet, at first use or first after a restart,  *)
(* and shows its addresses.  It may go on serving a wallet it has loaded   *)
(* however old: when it is restarted is not kept.                          *)
AppLoad(a) ==
  /\ Bound(a) \notin handed[a]
  /\ LoadWallet(a)
  /\ handed' = [handed EXCEPT ![a] = @ \cup {Bound(a)}]
  /\ UNCHANGED <<chainVars, deposits, tool, runs>>

(* Somebody pays to an address shown before, however long ago.             *)
Deposit(a, f) ==
  /\ deposits < MaxDeposits
  /\ f \in handed[a]
  /\ deposits' = deposits + 1
  /\ utxos' = utxos \cup {NewCoin(a, f)}
  /\ txs' = txs + 1
  /\ UNCHANGED <<versions, captured, handed, tool, runs>>

(* Send-Max: sweep_to offers every captured coin of the wallet, spent with *)
(* the descriptor of the wallet loaded.                                    *)
AppSend(a, f) ==
  LET spent == CapturedOf(a) IN
  /\ f \in handed[a]
  /\ spent # {} /\ spent \subseteq utxos
  /\ \A c \in spent : c.fed = f
  /\ utxos' = utxos \ spent
  /\ UNCHANGED <<versions, captured, txs, appVars, tool, runs>>

(* The ingestion task catches up with the chain, coin by coin (module      *)
(* ElementsIngest): what is paid to a recorded version is captured, what   *)
(* was spent is marked.                                                    *)
IngestPaid(c) ==
  /\ c.fed \in Feds_of(versions[c.acct])
  /\ captured' = captured \cup {c}
  /\ UNCHANGED <<versions, utxos, txs, appVars, tool, runs>>

IngestSpent(c) ==
  /\ captured' = captured \ {c}
  /\ UNCHANGED <<versions, utxos, txs, appVars, tool, runs>>

Next ==
  \/ \E t \in Tools, f \in Feds, mode \in Modes : StartRun(t, f, mode)
  \/ \E t \in Tools : ToolStep(t)
  \/ \E a \in Accounts : AppLoad(a)
  \/ \E a \in Accounts, f \in Feds : Deposit(a, f) \/ AppSend(a, f)
  \/ \E c \in utxos \ captured : IngestPaid(c)
  \/ \E c \in captured \ utxos : IngestSpent(c)

Spec == Init /\ [][Next]_vars

-----------------------------------------------------------------------------
TypeOK ==
  /\ versions \in [Accounts -> Seq(Version)]
  /\ utxos \subseteq Coin /\ captured \subseteq Coin /\ txs \in Nat
  /\ handed \in [Accounts -> SUBSET Feds]
  /\ tool \in [Tools -> Locals]
  /\ runs \in 0..MaxRuns /\ deposits \in 0..MaxDeposits

(* Every coin lies at a federation recorded for its account, so that the   *)
(* ingestion task watches for it: also for --sweep-only, for a destination *)
(* resolved long before its version is inserted, for chained change.       *)
FundsTracked ==
  \A c \in utxos : c.fed \in Feds_of(versions[c.acct])

(* When an invocation marks versions complete, those that are not the      *)
(* current federation hold no coin that was captured when Step 2 began,    *)
(* and none that the invocation made itself, change included.              *)
CompleteMeansSwept ==
  [][\A t \in Tools : tool[t].pc = "mark" /\ tool'[t] # tool[t] =>
       \A c \in utxos \cap tool[t].known : LET vs == versions'[c.acct] IN
         \A i \in 1..(Len(vs) - 1) :
           vs[i].status = "complete" /\ vs[i].fed = c.fed => c.fed = Latest(vs)]_vars

(* The tool says "Re-run with --sweep-only later to complete the           *)
(* migration": such a run is never stopped by inputs that do not belong to *)
(* the descriptors it loaded.                                              *)
SweepOnlyResumes ==
  \A t \in Tools : tool[t].pc = "mismatch" => ~tool[t].only
=============================================================================
