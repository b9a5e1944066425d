---------------------------- MODULE WatchSession ----------------------------
(***************************************************************************)
(* The live-balance sockets of one user, src/handlers/ws.rs: drive with    *)
(* its two loops, drive_watched over the Electrum WatchPool and            *)
(* drive_polled over a timer, and sync_and_push.                           *)
(*                                                                         *)
(* WatchPool is not part of the repository.  From its use here: watch and  *)
(* unwatch count references per script, a script with a reference is       *)
(* subscribed, and a change of its status is broadcast to every receiver   *)
(* that exists by then, through a buffer that drops the oldest when full.  *)
(*                                                                         *)
(* The balance is, per script, how many of its changes are known: a        *)
(* payment in the mempool, its confirmation.  A sync is one step here;     *)
(* WalletSync has its parts.                                               *)
(***************************************************************************)
EXTENDS Integers, Sequences, FiniteSets

CONSTANTS
  Sessions,    \* sockets the user may have open together
  Scripts,     \* addresses of the current federation
  Modes,       \* backends to consider: watched (Electrum), polled (others)
  SyncFaults,  \* those of them in which a sync may fail
  WatchFaults, \* whether pool.watch may fail
  BufferSize,  \* updates that the broadcast buffer holds for a receiver
  MaxChanges,  \* bound on the status changes of a script (a payment, its
               \* confirmation)
  MaxLeaks     \* bound on the calls of pool.unwatch that fail, per script

ASSUME WatchAssumption ==
  /\ Modes \subseteq {"watched", "polled"} /\ SyncFaults \subseteq Modes
  /\ WatchFaults \in BOOLEAN /\ IsFiniteSet(Sessions)
  /\ BufferSize \in Nat \ {0} /\ MaxChanges \in Nat /\ MaxLeaks \in Nat

VARIABLES
  mode,      \* the backend of this deployment
  revealed,  \* scripts of the revealed addresses
  chain,     \* script -> how far its payment has come
  wallet,    \* the same as the wallet knows it, since its last sync
  count,     \* WatchPool: references per script
  leaked,    \* history: script -> its unwatches that failed
  notices,   \* status changes that the server has not broadcast yet
  session    \* the sockets

vars == <<mode, revealed, chain, wallet, count, leaked, notices, session>>

Status == 0..MaxChanges
Balance == [Scripts -> Status]
Nothing == [x \in Scripts |-> 0]

(* A session's locals: the scripts it watches, those of a loop over them   *)
(* still to come, its receiver (whether it exists, its updates, whether it *)
(* fell behind) and last_sent, a set of at most one balance.               *)
Session == [pc : {"closed", "watch", "updates", "sync", "push", "loop", "unwatch"},
            scripts : SUBSET Scripts, todo : SUBSET Scripts,
            receiving : BOOLEAN, queue : Seq(Scripts), lagged : BOOLEAN,
            last : SUBSET Balance]

Closed == [pc |-> "closed", scripts |-> {}, todo |-> {}, receiving |-> FALSE,
           queue |-> <<>>, lagged |-> FALSE, last |-> {}]

Init ==
  /\ mode \in Modes
  /\ revealed = {}
  /\ chain = Nothing /\ wallet = Nothing
  /\ count = [x \in Scripts |-> 0] /\ leaked = [x \in Scripts |-> 0]
  /\ notices = {}
  /\ session = [s \in Sessions |-> Closed]

Goto(s, pc) == session' = [session EXCEPT ![s].pc = pc]

-----------------------------------------------------------------------------
(* A receive page reveals an address.                                      *)
Reveal(x) ==
  /\ x \notin revealed
  /\ revealed' = revealed \cup {x}
  /\ UNCHANGED <<mode, chain, wallet, count, leaked, notices, session>>

(* Somebody pays to a revealed address, and the payment is confirmed.  The *)
(* Electrum server reports subscribed scripts.                             *)
Change(x) ==
  /\ x \in revealed /\ chain[x] < MaxChanges
  /\ chain' = [chain EXCEPT ![x] = @ + 1]
  /\ notices' = IF count[x] > 0 THEN notices \cup {x} ELSE notices
  /\ UNCHANGED <<mode, revealed, wallet, count, leaked, session>>

(* WatchPool sends an update to every receiver; a full buffer loses its    *)
(* oldest one, and the receiver is told that it lagged.                    *)
Received(r, x) ==
  IF ~r.receiving THEN r
  ELSE IF Len(r.queue) < BufferSize THEN [r EXCEPT !.queue = Append(@, x)]
  ELSE [r EXCEPT !.queue = Append(Tail(@), x), !.lagged = TRUE]

Deliver(x) ==
  /\ x \in notices
  /\ notices' = notices \ {x}
  /\ session' = [s \in Sessions |-> Received(session[s], x)]
  /\ UNCHANGED <<mode, revealed, chain, wallet, count, leaked>>

-----------------------------------------------------------------------------
(* The scripts of the receive addresses revealed by now.                   *)
watched_scripts == revealed

(* drive: the loop of the backend in use; drive_watched fixes the scripts  *)
(* of the session once.                                                    *)
Connect(s) ==
  /\ session[s].pc = "closed"
  /\ session' = [session EXCEPT ![s] =
       IF mode = "polled" THEN [Closed EXCEPT !.pc = "loop"]
       ELSE [Closed EXCEPT !.pc = IF watched_scripts = {} THEN "updates" ELSE "watch",
                           !.scripts = watched_scripts, !.todo = watched_scripts]]
  /\ UNCHANGED <<mode, revealed, chain, wallet, count, leaked, notices>>

(* One step of a loop over the scripts.                                    *)
ForEach(s, x, next) ==
  LET left == session[s].todo \ {x} IN
  /\ x \in session[s].todo
  /\ session' = [session EXCEPT ![s].todo = left,
                                ![s].pc = IF left = {} THEN next ELSE @]

(* pool.watch; an error is logged and the loop goes on.                    *)
Watch(s, x) ==
  /\ session[s].pc = "watch"
  /\ \E ok \in {TRUE, ~WatchFaults} :
       count' = IF ok THEN [count EXCEPT ![x] = @ + 1] ELSE count
  /\ ForEach(s, x, "updates")
  /\ UNCHANGED <<mode, revealed, chain, wallet, leaked, notices>>

(* Mutant: the initial snapshot is pushed before the receiver is created.  *)
Updates_AfterSnapshot(s) ==
  LET r == session[s] IN
  /\ \/ r.pc = "updates" /\ Goto(s, "sync")
     \/ r.pc = "loop" /\ ~r.receiving /\ session' = [session EXCEPT ![s].receiving = TRUE]
  /\ UNCHANGED <<mode, revealed, chain, wallet, count, leaked, notices>>

(* pool.updates(): from here on the session receives; then the initial     *)
(* snapshot.                                                               *)
Updates(s) ==
  /\ session[s].pc = "updates"
  /\ session' = [session EXCEPT ![s].pc = "sync", ![s].receiving = TRUE]
  /\ UNCHANGED <<mode, revealed, chain, wallet, count, leaked, notices>>

(* sync_and_push: the wallet is synced; an error ends the wake.            *)
Sync(s) ==
  /\ session[s].pc = "sync"
  /\ wallet' = chain
  /\ Goto(s, "push")
  /\ UNCHANGED <<mode, revealed, chain, count, leaked, notices>>

SyncFails(s) ==
  /\ session[s].pc = "sync"
  /\ mode \in SyncFaults
  /\ Goto(s, "loop")
  /\ UNCHANGED <<mode, revealed, chain, wallet, count, leaked, notices>>

(* The balance is read and sent if it differs from the last one sent.      *)
Push(s) ==
  /\ session[s].pc = "push"
  /\ session' = [session EXCEPT ![s].pc = "loop", ![s].last = {wallet}]
  /\ UNCHANGED <<mode, revealed, chain, wallet, count, leaked, notices>>

(* Mutant: having lagged is taken for an update of no interest.            *)
Recv_LagIgnored(s) ==
  LET r == session[s]
      next == IF r.lagged THEN [r EXCEPT !.lagged = FALSE]
              ELSE [r EXCEPT !.queue = Tail(@),
                             !.pc = IF Head(r.queue) \in r.scripts THEN "sync" ELSE @]
  IN
  /\ r.pc = "loop" /\ mode = "watched"
  /\ r.lagged \/ r.queue # <<>>
  /\ session' = [session EXCEPT ![s] = next]
  /\ UNCHANGED <<mode, revealed, chain, wallet, count, leaked, notices>>

(* select: an update.  One for a script of the session, or having lagged,  *)
(* wakes it; others are ignored.                                           *)
Recv(s) ==
  LET r == session[s]
      next == IF r.lagged THEN [r EXCEPT !.lagged = FALSE, !.pc = "sync"]
              ELSE [r EXCEPT !.queue = Tail(@),
                             !.pc = IF Head(r.queue) \in r.scripts THEN "sync" ELSE @]
  IN
  /\ r.pc = "loop" /\ mode = "watched"
  /\ r.lagged \/ r.queue # <<>>
  /\ session' = [session EXCEPT ![s] = next]
  /\ UNCHANGED <<mode, revealed, chain, wallet, count, leaked, notices>>

(* select in drive_polled: the ticker.                                     *)
Tick(s) ==
  /\ session[s].pc = "loop" /\ mode = "polled"
  /\ Goto(s, "sync")
  /\ UNCHANGED <<mode, revealed, chain, wallet, count, leaked, notices>>

(* Mutant: a push that fails returns at once.                              *)
Leave_NoUnwatch(s) ==
  /\ session[s].pc \in {"loop", "push"}
  /\ session' = [session EXCEPT ![s] =
       IF @.scripts = {} \/ @.pc = "push" THEN Closed
       ELSE [@ EXCEPT !.pc = "unwatch", !.todo = session[s].scripts]]
  /\ UNCHANGED <<mode, revealed, chain, wallet, count, leaked, notices>>

(* The client has gone: the loop sees it, or a push fails.  A pool that    *)
(* closes its channel ends the loop too.                                   *)
Leave(s) ==
  /\ session[s].pc = "loop" \/ (session[s].pc = "push" /\ session[s].last # {wallet})
  /\ session' = [session EXCEPT ![s] =
       IF @.scripts = {} THEN Closed
       ELSE [@ EXCEPT !.pc = "unwatch", !.todo = session[s].scripts]]
  /\ UNCHANGED <<mode, revealed, chain, wallet, count, leaked, notices>>

(* pool.unwatch of every script, whether or not its watch had succeeded.   *)
(* An error is logged and the loop goes on; the reference may stay.        *)
Unwatch(s, x) ==
  /\ session[s].pc = "unwatch"
  /\ \/ /\ count' = [count EXCEPT ![x] = IF @ > 0 THEN @ - 1 ELSE 0]
        /\ UNCHANGED leaked
     \/ /\ leaked[x] < MaxLeaks
        /\ leaked' = [leaked EXCEPT ![x] = @ + 1]
        /\ UNCHANGED count
  /\ ForEach(s, x, "closed")
  /\ UNCHANGED <<mode, revealed, chain, wallet, notices>>

Run(s) ==
  \/ Updates(s) \/ Push(s) \/ Recv(s) \/ Tick(s)
  \/ \E x \in Scripts : Watch(s, x) \/ Unwatch(s, x)

Next ==
  \/ \E x \in Scripts : Reveal(x) \/ Change(x) \/ Deliver(x)
  \/ \E s \in Sessions : Connect(s) \/ Run(s) \/ Sync(s) \/ SyncFails(s) \/ Leave(s)

(* The runtime polls every socket task and the timer ticks; the server's   *)
(* notifications arrive; and a sync that is tried again and again succeeds *)
(* in the end.                                                             *)
Fairness ==
  /\ \A x \in Scripts : WF_vars(Deliver(x))
  /\ \A s \in Sessions : WF_vars(Run(s)) /\ SF_vars(Sync(s))

Spec == Init /\ [][Next]_vars /\ Fairness

-----------------------------------------------------------------------------
TypeOK ==
  /\ mode \in Modes
  /\ revealed \subseteq Scripts
  /\ chain \in Balance /\ wallet \in Balance
  /\ count \in [Scripts -> 0..(Cardinality(Sessions) + MaxLeaks)]
  /\ leaked \in [Scripts -> 0..MaxLeaks]
  /\ notices \subseteq Scripts
  /\ session \in [Sessions -> Session]

Holds(s, x) ==
  LET r == session[s] IN
  /\ x \in r.scripts
  /\ \/ r.pc = "watch" /\ x \notin r.todo
     \/ r.pc \in {"updates", "sync", "push", "loop"}
     \/ r.pc = "unwatch" /\ x \in r.todo

(* Unwatch on exit is "ref-counted, so shared addresses stay subscribed    *)
(* for other sessions": whichever way a session ends, the pool holds a     *)
(* reference to a script for every session that subscribed it, and of the  *)
(* sessions that have left only those whose unwatch of it failed.  An      *)
(* unwatch that fails thus never costs another session its subscription.   *)
SubscriptionsHeld ==
  \A x \in Scripts : count[x] = Cardinality({s \in Sessions : Holds(s, x)}) + leaked[x]

(* An update for the session is on its way: not broadcast yet, in its      *)
(* buffer, or pushed out of the buffer by later ones.                      *)
UpdateComing(s, x) ==
  LET r == session[s] IN
  x \in notices \/ r.lagged \/ \E i \in 1..Len(r.queue) : r.queue[i] = x

(* No wake-up is lost: a session that waits in select, and whose client    *)
(* has not seen the latest of a script it watches, has an update on its    *)
(* way that will wake it, wherever between watch, updates, snapshot and    *)
(* push the change came and whatever the buffer dropped.                   *)
NoLostWakeup ==
  \A s \in Sessions : \A x \in session[s].scripts :
    session[s].pc = "loop" =>
      (\E b \in session[s].last : b[x] = chain[x]) \/ UpdateComing(s, x)

Open(s) == session[s].pc \notin {"closed", "unwatch"}
Covers(s, x) == mode = "polled" \/ x \in session[s].scripts

(* "the server pushes the current balance whenever it changes": a payment  *)
(* to an address the session watches, and its confirmation, is pushed in   *)
(* the end, unless the session ends; also when the payment comes between   *)
(* two steps of connecting, or the updates overrun the buffer.             *)
PaymentShown ==
  \A s \in Sessions, x \in Scripts, k \in 1..MaxChanges :
    (Open(s) /\ Covers(s, x) /\ chain[x] >= k)
      ~> (~Open(s) \/ \E b \in session[s].last : b[x] >= k)
=============================================================================
