------------------------- MODULE FederationVersions -------------------------
(***************************************************************************)
(* The federation_versions rows of one wallet, oldest first, and the       *)
(* statements of src/db.rs that the migration tool and the wallet managers *)
(* run on them.  Both chains share the table.  A federation stands for the *)
(* descriptor of a version: its signers, threshold and script type.        *)
(***************************************************************************)
EXTENDS Integers, Sequences

NoTx == 0

Status == {"not_applicable", "pending", "in_progress", "complete"}

NewVersion(f) == [fed |-> f, status |-> "not_applicable", sweep |-> NoTx]

Feds_of(vs) == {vs[i].fed : i \in 1..Len(vs)}

Latest(vs) == vs[Len(vs)].fed

(* Mutant: version_index <= $2.                                            *)
Pending_IncludesNew(vs, k) ==
  [i \in 1..Len(vs) |->
     IF i <= k + 1 /\ vs[i].status = "not_applicable"
     THEN [vs[i] EXCEPT !.status = "pending"] ELSE vs[i]]

(* set_pending_migration_for_older_versions: version_index < $2.           *)
Pending(vs, k) ==
  [i \in 1..Len(vs) |->
     IF i <= k /\ vs[i].status = "not_applicable"
     THEN [vs[i] EXCEPT !.status = "pending"] ELSE vs[i]]

(* Mutant: a status that the CHECK of the table does not know.             *)
Completed_UnknownStatus(vs, marked, sweep) ==
  [i \in 1..Len(vs) |->
     IF i \in marked THEN [vs[i] EXCEPT !.status = "completed"] ELSE vs[i]]

(* set_migration_complete with the account's sweep, or a bare              *)
(* update_migration_status when it has none.                               *)
Completed(vs, marked, sweep) ==
  [i \in 1..Len(vs) |->
     IF i \notin marked THEN vs[i]
     ELSE [vs[i] EXCEPT !.status = "complete",
                        !.sweep = IF sweep = NoTx THEN @ ELSE sweep]]
=============================================================================
