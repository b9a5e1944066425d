---------------------------- MODULE PaymentLedger ----------------------------
(***************************************************************************)
(* What the sends of a wallet promise, whatever happens inside.  The       *)
(* network takes a payment, which adds to the payments that stand and      *)
(* never pushes another one of the wallet out; a payment is written to the *)
(* ledger only when the network has taken it.  That a row is written is    *)
(* not promised: the insert may fail, or the process die before it.        *)
(* SendPipeline (Bitcoin) and ElementsIngest (Elements) implement this.    *)
(***************************************************************************)
CONSTANT Payments  \* payments that may be made

VARIABLES
  live,    \* payments that stand: in the mempool or on the chain
  known,   \* payments the network has taken at some time
  ledger   \* rows of the transactions table

ledgerVars == <<live, known, ledger>>

Init == live = {} /\ known = {} /\ ledger = {}

Accept(p) ==
  /\ p \notin live
  /\ live' = live \cup {p}
  /\ known' = known \cup {p}
  /\ UNCHANGED ledger

Record(p) ==
  /\ p \in known
  /\ ledger' = ledger \cup {p}
  /\ UNCHANGED <<live, known>>

(* The network's own doing: a reorganisation drops payments, and may bring *)
(* back some that it had dropped.                                          *)
Reorganise(L) ==
  /\ live' = L
  /\ UNCHANGED <<known, ledger>>

Next ==
  \/ \E p \in Payments : Accept(p) \/ Record(p)
  \/ \E L \in SUBSET known : Reorganise(L)

Spec == Init /\ [][Next]_ledgerVars
=============================================================================
