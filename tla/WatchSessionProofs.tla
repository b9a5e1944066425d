------------------------- MODULE WatchSessionProofs -------------------------
(***************************************************************************)
(* Proofs about WatchSession: its type invariant, that the pool holds the  *)
(* references of the sessions that subscribed, and that no session waits   *)
(* for a wake-up that was lost, for any number of sessions, scripts and    *)
(* changes and any buffer.                                                 *)
(***************************************************************************)
EXTENDS WatchSession, FiniteSetTheorems, SequenceTheorems, TLAPS

(* The sessions that hold a reference to a script.                         *)
Holders(x) == {s \in Sessions : Holds(s, x)}

(* Types without the bound on the counts, and that a loop runs over        *)
(* scripts of its session.                                                 *)
ShapeInv ==
  /\ mode \in Modes
  /\ revealed \subseteq Scripts
  /\ chain \in Balance /\ wallet \in Balance
  /\ count \in [Scripts -> Nat] /\ leaked \in [Scripts -> 0..MaxLeaks]
  /\ notices \subseteq Scripts
  /\ session \in [Sessions -> Session]
  /\ \A s \in Sessions : session[s].todo \subseteq session[s].scripts

(* The pool has no more references than holders and failed unwatches, and  *)
(* exactly as many when no watch fails: an unwatch whose watch had failed  *)
(* takes a reference of another session away.                              *)
CountInv ==
  \A x \in Scripts :
    /\ count[x] <= Cardinality(Holders(x)) + leaked[x]
    /\ ~WatchFaults => count[x] = Cardinality(Holders(x)) + leaked[x]

(* The fields of a session.                                                *)
LEMMA SessionFields ==
  ASSUME ShapeInv, NEW s \in Sessions
  PROVE  /\ session[s] \in Session
         /\ session[s].scripts \in SUBSET Scripts /\ session[s].todo \in SUBSET Scripts
         /\ session[s].queue \in Seq(Scripts) /\ session[s].last \in SUBSET Balance
BY DEF ShapeInv, Session

(* A session whose record is replaced.                                     *)
LEMMA SessionSet ==
  ASSUME ShapeInv, NEW s \in Sessions, NEW r \in Session, r.todo \subseteq r.scripts,
         session' = [session EXCEPT ![s] = r]
  PROVE  /\ session' \in [Sessions -> Session] /\ session'[s] = r
         /\ \A q \in Sessions \ {s} : session'[q] = session[q]
         /\ \A q \in Sessions : session'[q].todo \subseteq session'[q].scripts
BY DEF ShapeInv

(* Closed is a session.                                                    *)
LEMMA ClosedTyped == Closed \in Session
BY DEF Closed, Session

(* Holders are finitely many.                                              *)
LEMMA HoldersFinite ==
  ASSUME NEW x \in Scripts
  PROVE  /\ IsFiniteSet(Holders(x)) /\ Cardinality(Holders(x)) \in Nat
         /\ Cardinality(Holders(x)) <= Cardinality(Sessions)
<1>1. Holders(x) \in SUBSET Sessions
  BY DEF Holders
<1> QED
  BY <1>1, FS_Subset, FS_CardinalityType, WatchAssumption

(* Updates reach a receiver as members of its buffer.                      *)
LEMMA ReceivedTyped ==
  ASSUME NEW r \in Session, NEW x \in Scripts
  PROVE  /\ Received(r, x) \in Session
         /\ Received(r, x).pc = r.pc
         /\ Received(r, x).scripts = r.scripts /\ Received(r, x).todo = r.todo
<1>1. r.queue \in Seq(Scripts)
  BY DEF Session
<1>2. CASE ~r.receiving
  BY <1>2 DEF Received, Session
<1>3. CASE r.receiving /\ Len(r.queue) < BufferSize
  <2>1. Append(r.queue, x) \in Seq(Scripts)
    BY <1>1
  <2> QED
    BY <1>3, <2>1 DEF Received, Session
<1>4. CASE r.receiving /\ ~(Len(r.queue) < BufferSize)
  <2>1. r.queue # << >>
    BY <1>1, <1>4, WatchAssumption
  <2>2. Append(Tail(r.queue), x) \in Seq(Scripts)
    BY <1>1, <2>1
  <2> QED
    BY <1>4, <2>2 DEF Received, Session
<1> QED
  BY <1>2, <1>3, <1>4

(* One step of a loop over the scripts of a session.                       *)
LEMMA ForEachTyped ==
  ASSUME ShapeInv, NEW s \in Sessions, NEW x \in Scripts, NEW next \in {"updates", "closed"},
         ForEach(s, x, next)
  PROVE  /\ session' \in [Sessions -> Session]
         /\ session'[s].todo = session[s].todo \ {x}
         /\ session'[s].scripts = session[s].scripts
         /\ session'[s].pc = IF session[s].todo \ {x} = {} THEN next ELSE session[s].pc
         /\ \A q \in Sessions \ {s} : session'[q] = session[q]
         /\ \A q \in Sessions : session'[q].todo \subseteq session'[q].scripts
<1> DEFINE left == session[s].todo \ {x}
           pc == IF left = {} THEN next ELSE session[s].pc
           r == [session[s] EXCEPT !.todo = left, !.pc = pc]
<1>1. pc \in {"closed", "watch", "updates", "sync", "push", "loop", "unwatch"}
  BY SessionFields DEF Session
<1>2. left \in SUBSET Scripts
  BY SessionFields
<1>3. /\ r \in Session /\ r.todo = left /\ r.pc = pc /\ r.scripts = session[s].scripts
  <2> HIDE DEF left, pc
  <2> QED
    BY <1>1, <1>2, SessionFields DEF Session
<1>4. session' = [session EXCEPT ![s] = r]
  BY DEF ForEach, ShapeInv, Session
<1>5. r.todo \subseteq r.scripts
  BY <1>3 DEF ShapeInv
<1> HIDE DEF r
<1> QED
  BY <1>3, <1>4, <1>5, SessionSet

-----------------------------------------------------------------------------
(* No references move: the same sessions hold the same scripts.            *)
LEMMA SameHolders ==
  ASSUME CountInv, count' = count, leaked' = leaked,
         \A q \in Sessions, x \in Scripts : Holds(q, x)' = Holds(q, x)
  PROVE  CountInv'
<1>1. \A x \in Scripts : Holders(x)' = Holders(x)
  BY DEF Holders
<1> QED
  BY <1>1 DEF CountInv

(* A session that goes on with the scripts it holds.                       *)
LEMMA HoldingOn ==
  ASSUME ShapeInv, CountInv, NEW s \in Sessions, NEW r \in Session, count' = count, leaked' = leaked,
         session' = [session EXCEPT ![s] = r],
         session[s].pc \in {"updates", "sync", "push", "loop"},
         r.pc \in {"updates", "sync", "push", "loop"},
         r.scripts = session[s].scripts, r.todo = session[s].todo
  PROVE  /\ session' \in [Sessions -> Session]
         /\ \A q \in Sessions : session'[q].todo \subseteq session'[q].scripts
         /\ CountInv'
<1>1. r.todo \subseteq r.scripts
  BY DEF ShapeInv
<1>2. /\ session' \in [Sessions -> Session] /\ session'[s] = r
      /\ \A q \in Sessions \ {s} : session'[q] = session[q]
      /\ \A q \in Sessions : session'[q].todo \subseteq session'[q].scripts
  BY <1>1, SessionSet
<1>3. \A q \in Sessions, x \in Scripts : Holds(q, x)' = Holds(q, x)
  BY <1>2 DEF Holds
<1> QED
  BY <1>2, <1>3, SameHolders

(* Watch takes a reference for the session, or fails to.                   *)
LEMMA WatchCounts ==
  ASSUME ShapeInv, CountInv, NEW s \in Sessions, NEW x \in Scripts, Watch(s, x)
  PROVE  ShapeInv' /\ CountInv'
<1> USE WatchAssumption
<1>1. /\ session' \in [Sessions -> Session]
      /\ session'[s].todo = session[s].todo \ {x}
      /\ session'[s].scripts = session[s].scripts
      /\ session'[s].pc = IF session[s].todo \ {x} = {} THEN "updates" ELSE session[s].pc
      /\ \A q \in Sessions \ {s} : session'[q] = session[q]
      /\ \A q \in Sessions : session'[q].todo \subseteq session'[q].scripts
  BY ForEachTyped DEF Watch
<1>2. session[s].pc = "watch" /\ x \in session[s].todo /\ x \in session[s].scripts
  BY DEF Watch, ForEach, ShapeInv
<1>3. /\ count' = [count EXCEPT ![x] = @ + 1] \/ (count' = count /\ WatchFaults)
      /\ leaked' = leaked
  BY DEF Watch
<1>4. Holders(x)' = Holders(x) \cup {s} /\ s \notin Holders(x)
  BY <1>1, <1>2 DEF Holders, Holds
<1>5. \A y \in Scripts \ {x} : Holders(y)' = Holders(y)
  <2> SUFFICES ASSUME NEW y \in Scripts, y # x, NEW q \in Sessions PROVE Holds(q, y)' = Holds(q, y)
    BY DEF Holders
  <2>1. CASE q # s
    BY <1>1, <2>1 DEF Holds
  <2>2. CASE q = s
    BY <1>1, <1>2, <2>2 DEF Holds
  <2> QED
    BY <2>1, <2>2
<1>6. Cardinality(Holders(x)') = Cardinality(Holders(x)) + 1 /\ Cardinality(Holders(x)) \in Nat
  BY <1>4, HoldersFinite, FS_AddElement
<1>7. CountInv'
  BY <1>3, <1>5, <1>6 DEF CountInv, ShapeInv
<1>8. count' \in [Scripts -> Nat]
  BY <1>3 DEF ShapeInv
<1> QED
  BY <1>1, <1>7, <1>8 DEF Watch, ShapeInv

(* Unwatch gives back what the session holds, or fails to.                 *)
LEMMA UnwatchCounts ==
  ASSUME ShapeInv, CountInv, NEW s \in Sessions, NEW x \in Scripts, Unwatch(s, x)
  PROVE  ShapeInv' /\ CountInv'
<1> USE WatchAssumption
<1>1. /\ session' \in [Sessions -> Session]
      /\ session'[s].todo = session[s].todo \ {x}
      /\ session'[s].scripts = session[s].scripts
      /\ session'[s].pc = IF session[s].todo \ {x} = {} THEN "closed" ELSE session[s].pc
      /\ \A q \in Sessions \ {s} : session'[q] = session[q]
      /\ \A q \in Sessions : session'[q].todo \subseteq session'[q].scripts
  BY ForEachTyped DEF Unwatch
<1>2. session[s].pc = "unwatch" /\ x \in session[s].todo /\ x \in session[s].scripts
  BY DEF Unwatch, ForEach, ShapeInv
<1>3. \/ /\ count' = [count EXCEPT ![x] = IF @ > 0 THEN @ - 1 ELSE 0]
         /\ leaked' = leaked
      \/ /\ leaked[x] < MaxLeaks /\ leaked' = [leaked EXCEPT ![x] = @ + 1]
         /\ count' = count
  BY DEF Unwatch
<1>4. Holders(x)' = Holders(x) \ {s} /\ s \in Holders(x)
  BY <1>1, <1>2 DEF Holders, Holds
<1>5. \A y \in Scripts \ {x} : Holders(y)' = Holders(y)
  <2> SUFFICES ASSUME NEW y \in Scripts, y # x, NEW q \in Sessions PROVE Holds(q, y)' = Holds(q, y)
    BY DEF Holders
  <2>1. CASE q # s
    BY <1>1, <2>1 DEF Holds
  <2>2. CASE q = s
    BY <1>1, <1>2, <2>2 DEF Holds
  <2> QED
    BY <2>1, <2>2
<1>6. /\ Cardinality(Holders(x)') = Cardinality(Holders(x)) - 1
      /\ Cardinality(Holders(x)) \in Nat /\ Cardinality(Holders(x)') \in Nat
  <2>1. IsFiniteSet(Holders(x)) /\ Cardinality(Holders(x)) \in Nat
    BY HoldersFinite
  <2>2. IsFiniteSet(Holders(x) \ {s}) /\ Cardinality(Holders(x) \ {s}) = Cardinality(Holders(x)) - 1
    BY <1>4, <2>1, FS_RemoveElement
  <2> QED
    BY <1>4, <2>1, <2>2, FS_CardinalityType
<1>7. CountInv'
  BY <1>3, <1>5, <1>6 DEF CountInv, ShapeInv
<1>8. count' \in [Scripts -> Nat] /\ leaked' \in [Scripts -> 0..MaxLeaks]
  BY <1>3 DEF ShapeInv
<1> QED
  BY <1>1, <1>7, <1>8 DEF Unwatch, ShapeInv

(* The invariant is inductive.                                             *)
LEMMA NextCounts ==
  ASSUME ShapeInv, CountInv, [Next]_vars
  PROVE  ShapeInv' /\ CountInv'
<1> USE WatchAssumption
<1>1. ASSUME UNCHANGED <<count, leaked, session>>
      PROVE  CountInv'
  <2>1. \A q \in Sessions, x \in Scripts : Holds(q, x)' = Holds(q, x)
    BY <1>1 DEF Holds
  <2> QED
    BY <1>1, <2>1, SameHolders
<1>2. ASSUME NEW x \in Scripts, Reveal(x)
      PROVE  ShapeInv' /\ CountInv'
  BY <1>1, <1>2 DEF Reveal, ShapeInv
<1>3. ASSUME NEW x \in Scripts, Change(x)
      PROVE  ShapeInv' /\ CountInv'
  <2>1. chain' \in Balance
    BY <1>3 DEF Change, ShapeInv, Balance, Status
  <2> QED
    BY <1>1, <1>3, <2>1 DEF Change, ShapeInv
<1>4. ASSUME NEW x \in Scripts, Deliver(x)
      PROVE  ShapeInv' /\ CountInv'
  <2>1. \A q \in Sessions : session'[q] = Received(session[q], x) /\ session[q] \in Session
    BY <1>4, SessionFields DEF Deliver
  <2>2. \A q \in Sessions : /\ session'[q] \in Session /\ session'[q].pc = session[q].pc
                            /\ session'[q].scripts = session[q].scripts
                            /\ session'[q].todo = session[q].todo
    BY <2>1, ReceivedTyped
  <2>3. session' \in [Sessions -> Session]
    BY <1>4, <2>2 DEF Deliver
  <2>4. \A q \in Sessions, y \in Scripts : Holds(q, y)' = Holds(q, y)
    BY <2>2 DEF Holds
  <2> QED
    BY <1>4, <2>2, <2>3, <2>4, SameHolders DEF Deliver, ShapeInv
<1>5. ASSUME NEW s \in Sessions, Connect(s)
      PROVE  ShapeInv' /\ CountInv'
  <2>1. PICK r \in Session :
          /\ session' = [session EXCEPT ![s] = r]
          /\ r.todo \subseteq r.scripts
          /\ \/ r.scripts = {}
             \/ r.pc = "watch" /\ r.todo = r.scripts
    <3>1. CASE mode = "polled"
      <4> DEFINE r == [Closed EXCEPT !.pc = "loop"]
      <4>1. r \in Session /\ r.scripts = {} /\ r.todo = {}
        BY ClosedTyped DEF Session, Closed
      <4>2. session' = [session EXCEPT ![s] = r]
        BY <1>5, <3>1 DEF Connect
      <4> QED
        BY <4>1, <4>2
    <3>2. CASE mode # "polled"
      <4> DEFINE pc == IF revealed = {} THEN "updates" ELSE "watch"
                 r == [Closed EXCEPT !.pc = pc, !.scripts = revealed, !.todo = revealed]
      <4>1. pc \in {"updates", "watch"} /\ revealed \in SUBSET Scripts
        BY DEF ShapeInv
      <4>2. r \in Session /\ r.scripts = revealed /\ r.todo = revealed /\ r.pc = pc
        <5> HIDE DEF pc
        <5> QED
          BY <4>1, ClosedTyped DEF Session
      <4>3. session' = [session EXCEPT ![s] = r]
        BY <1>5, <3>2 DEF Connect, watched_scripts
      <4>4. r.scripts = {} \/ (r.pc = "watch" /\ r.todo = r.scripts)
        BY <4>2
      <4> HIDE DEF r
      <4> QED
        BY <4>2, <4>3, <4>4
    <3> QED
      BY <3>1, <3>2
  <2>2. /\ session' \in [Sessions -> Session] /\ session'[s] = r
        /\ \A q \in Sessions \ {s} : session'[q] = session[q]
        /\ \A q \in Sessions : session'[q].todo \subseteq session'[q].scripts
    BY <2>1, SessionSet
  <2>3. \A q \in Sessions, x \in Scripts : Holds(q, x)' = Holds(q, x)
    BY <1>5, <2>1, <2>2 DEF Connect, Holds
  <2> QED
    BY <1>5, <2>2, <2>3, SameHolders DEF Connect, ShapeInv
<1>6. ASSUME NEW s \in Sessions, Updates(s)
      PROVE  ShapeInv' /\ CountInv'
  <2> DEFINE r == [session[s] EXCEPT !.pc = "sync", !.receiving = TRUE]
  <2>1. r \in Session /\ r.pc = "sync" /\ r.scripts = session[s].scripts /\ r.todo = session[s].todo
    BY SessionFields DEF Session
  <2>2. session' = [session EXCEPT ![s] = r] /\ session[s].pc = "updates" /\ UNCHANGED <<count, leaked>>
    BY <1>6 DEF Updates
  <2> HIDE DEF r
  <2> QED
    BY <1>6, <2>1, <2>2, HoldingOn DEF Updates, ShapeInv
<1>7. ASSUME NEW s \in Sessions, Sync(s) \/ SyncFails(s) \/ Tick(s)
      PROVE  ShapeInv' /\ CountInv'
  <2>1. PICK pc \in {"push", "loop", "sync"} : Goto(s, pc)
    BY <1>7 DEF Sync, SyncFails, Tick
  <2> DEFINE r == [session[s] EXCEPT !.pc = pc]
  <2>2. r \in Session /\ r.pc = pc /\ r.scripts = session[s].scripts /\ r.todo = session[s].todo
    BY SessionFields DEF Session
  <2>3. /\ session' = [session EXCEPT ![s] = r] /\ UNCHANGED <<count, leaked>>
        /\ session[s].pc \in {"sync", "loop"}
    BY <1>7, <2>1 DEF Goto, Sync, SyncFails, Tick
  <2>4. wallet' \in Balance
    BY <1>7 DEF Sync, SyncFails, Tick, ShapeInv
  <2> HIDE DEF r
  <2>5. /\ session' \in [Sessions -> Session] /\ CountInv'
        /\ \A q \in Sessions : session'[q].todo \subseteq session'[q].scripts
    BY <2>2, <2>3, HoldingOn
  <2> QED
    BY <1>7, <2>4, <2>5 DEF Sync, SyncFails, Tick, ShapeInv
<1>8. ASSUME NEW s \in Sessions, Push(s)
      PROVE  ShapeInv' /\ CountInv'
  <2> DEFINE r == [session[s] EXCEPT !.pc = "loop", !.last = {wallet}]
  <2>0. {wallet} \in SUBSET Balance
    BY DEF ShapeInv
  <2>1. r \in Session /\ r.pc = "loop" /\ r.scripts = session[s].scripts /\ r.todo = session[s].todo
    BY <2>0, SessionFields DEF Session
  <2>2. session' = [session EXCEPT ![s] = r] /\ session[s].pc = "push" /\ UNCHANGED <<count, leaked>>
    BY <1>8 DEF Push
  <2> HIDE DEF r
  <2> QED
    BY <1>8, <2>1, <2>2, HoldingOn DEF Push, ShapeInv
<1>9. ASSUME NEW s \in Sessions, Recv(s)
      PROVE  ShapeInv' /\ CountInv'
  <2>1. PICK r \in Session : /\ session' = [session EXCEPT ![s] = r]
                             /\ r.pc \in {"sync", "loop"}
                             /\ r.scripts = session[s].scripts /\ r.todo = session[s].todo
    <3>1. CASE session[s].lagged
      <4> DEFINE r == [session[s] EXCEPT !.lagged = FALSE, !.pc = "sync"]
      <4>1. r \in Session /\ r.pc = "sync" /\ r.scripts = session[s].scripts /\ r.todo = session[s].todo
        BY SessionFields DEF Session
      <4>2. session' = [session EXCEPT ![s] = r]
        BY <1>9, <3>1 DEF Recv
      <4> HIDE DEF r
      <4> QED
        BY <4>1, <4>2
    <3>2. CASE ~session[s].lagged
      <4> DEFINE pc == IF Head(session[s].queue) \in session[s].scripts THEN "sync" ELSE session[s].pc
                 r == [session[s] EXCEPT !.queue = Tail(session[s].queue), !.pc = pc]
      <4>1. session[s].queue # << >> /\ session[s].pc = "loop"
        BY <1>9, <3>2 DEF Recv
      <4>2. Tail(session[s].queue) \in Seq(Scripts)
        BY <4>1, SessionFields, HeadTailProperties
      <4>3. pc \in {"sync", "loop"}
        BY <4>1
      <4>4. r \in Session /\ r.pc = pc /\ r.scripts = session[s].scripts /\ r.todo = session[s].todo
        <5> HIDE DEF pc
        <5> QED
          BY <4>2, <4>3, SessionFields DEF Session
      <4>5. session' = [session EXCEPT ![s] = r]
        BY <1>9, <3>2 DEF Recv
      <4> HIDE DEF r, pc
      <4> QED
        BY <4>3, <4>4, <4>5
    <3> QED
      BY <3>1, <3>2
  <2>2. session[s].pc = "loop" /\ UNCHANGED <<count, leaked>>
    BY <1>9 DEF Recv
  <2>3. /\ session' \in [Sessions -> Session] /\ CountInv'
        /\ \A q \in Sessions : session'[q].todo \subseteq session'[q].scripts
    BY <2>1, <2>2, HoldingOn
  <2>4. UNCHANGED <<mode, revealed, chain, wallet, count, leaked, notices>>
    BY <1>9 DEF Recv
  <2> QED
    BY <2>3, <2>4 DEF ShapeInv
<1>10. ASSUME NEW s \in Sessions, Leave(s)
       PROVE  ShapeInv' /\ CountInv'
  <2> DEFINE r == IF session[s].scripts = {} THEN Closed
                  ELSE [session[s] EXCEPT !.pc = "unwatch", !.todo = session[s].scripts]
  <2>1. /\ r \in Session
        /\ r.todo = r.scripts /\ r.scripts = session[s].scripts
        /\ r.scripts # {} => r.pc = "unwatch"
    <3>1. CASE session[s].scripts = {}
      BY <3>1, ClosedTyped DEF Closed
    <3>2. CASE session[s].scripts # {}
      BY <3>2, SessionFields DEF Session
    <3> QED
      BY <3>1, <3>2
  <2>2. session' = [session EXCEPT ![s] = r] /\ session[s].pc \in {"loop", "push"}
    BY <1>10 DEF Leave, ShapeInv
  <2> HIDE DEF r
  <2>3. /\ session' \in [Sessions -> Session] /\ session'[s] = r
        /\ \A q \in Sessions \ {s} : session'[q] = session[q]
        /\ \A q \in Sessions : session'[q].todo \subseteq session'[q].scripts
    BY <2>1, <2>2, SessionSet
  <2>4. \A q \in Sessions, x \in Scripts : Holds(q, x)' = Holds(q, x)
    BY <2>1, <2>2, <2>3 DEF Holds
  <2> QED
    BY <1>10, <2>3, <2>4, SameHolders DEF Leave, ShapeInv
<1>11. CASE UNCHANGED vars
  BY <1>1, <1>11 DEF vars, ShapeInv
<1> QED
  BY <1>2, <1>3, <1>4, <1>5, <1>6, <1>7, <1>8, <1>9, <1>10, <1>11, WatchCounts, UnwatchCounts
     DEF Next, Run

(* Initially nothing is watched.                                           *)
LEMMA InitCounts ==
  ASSUME Init
  PROVE  ShapeInv /\ CountInv
<1>1. \A s \in Sessions : session[s] = Closed
  BY DEF Init
<1>2. \A x \in Scripts : Holders(x) = {}
  BY <1>1 DEF Holders, Holds, Closed
<1>3. CountInv
  BY <1>2, FS_EmptySet DEF CountInv, Init
<1>4. ShapeInv
  BY <1>1, ClosedTyped, WatchAssumption DEF Init, ShapeInv, Nothing, Balance, Status, Closed
<1> QED
  BY <1>3, <1>4

(* The counts and the types hold in every reachable state.                 *)
LEMMA WatchInvariant == Spec => [](ShapeInv /\ CountInv)
BY InitCounts, NextCounts, PTL DEF Spec

(* Every reachable state of the sockets is well typed; the pool never has  *)
(* more references to a script than there are sessions and unwatches of it *)
(* that failed, whether or not a watch may fail.                           *)
THEOREM WatchTypeCorrect == Spec => []TypeOK
<1>1. ShapeInv /\ CountInv => TypeOK
  <2> SUFFICES ASSUME ShapeInv, CountInv
               PROVE  count \in [Scripts -> 0..(Cardinality(Sessions) + MaxLeaks)]
    BY DEF ShapeInv, TypeOK
  <2>1. Cardinality(Sessions) \in Nat
    BY FS_CardinalityType, WatchAssumption
  <2>2. \A x \in Scripts : count[x] \in 0..(Cardinality(Sessions) + MaxLeaks)
    BY <2>1, HoldersFinite, WatchAssumption DEF CountInv, ShapeInv
  <2> QED
    BY <2>2 DEF ShapeInv
<1> QED
  BY <1>1, WatchInvariant, PTL

(* Any number of sessions, in any interleaving of connecting, receiving    *)
(* and leaving, with any number of failing calls of pool.unwatch: as long  *)
(* as pool.watch succeeds, the pool holds exactly one reference per script *)
(* and session that subscribed it, and one per unwatch that failed.        *)
THEOREM WatchSubscriptionsHeld == ~WatchFaults /\ Spec => []SubscriptionsHeld
<1> DEFINE I == ~WatchFaults /\ ShapeInv /\ CountInv
<1>1. ~WatchFaults /\ Init => I
  BY InitCounts
<1>2. I /\ [Next]_vars => I'
  BY NextCounts
<1>3. I => SubscriptionsHeld
  BY DEF CountInv, SubscriptionsHeld, Holders
<1> HIDE DEF I
<1> QED
  BY <1>1, <1>2, <1>3, PTL DEF Spec

-----------------------------------------------------------------------------
(* No wake-up is lost.                                                     *)

(* A session that has come to its first sync receives; one about to push   *)
(* has a wallet up to date, or an update on its way, and so has one that   *)
(* waits.  A polling session watches nothing.                              *)
WakeOf(s, x) ==
  /\ session[s].pc \in {"sync", "push", "loop"} => session[s].receiving
  /\ session[s].pc = "push" => wallet[x] = chain[x] \/ UpdateComing(s, x)
  /\ session[s].pc = "loop" => (\E b \in session[s].last : b[x] = chain[x]) \/ UpdateComing(s, x)

WakeInv ==
  \A s \in Sessions :
    /\ mode = "polled" => session[s].scripts = {}
    /\ \A x \in session[s].scripts : WakeOf(s, x)

(* A session that holds a script keeps it subscribed.                      *)
LEMMA HeldSubscribed ==
  ASSUME ~WatchFaults, ShapeInv, CountInv, NEW s \in Sessions, NEW x \in Scripts, Holds(s, x)
  PROVE  count[x] > 0
<1>1. s \in Holders(x)
  BY DEF Holders
<1>2. IsFiniteSet(Holders(x)) /\ Cardinality(Holders(x)) \in Nat
  BY HoldersFinite
<1>3. Cardinality(Holders(x)) # 0
  BY <1>1, <1>2, FS_EmptySet
<1>4. count[x] = Cardinality(Holders(x)) + leaked[x] /\ leaked[x] \in Nat
  BY WatchAssumption DEF CountInv, ShapeInv
<1> QED
  BY <1>2, <1>3, <1>4

(* An update that is delivered is in the buffer or has made it lag.        *)
LEMMA ReceivedComes ==
  ASSUME NEW r \in Session, NEW x \in Scripts, r.receiving
  PROVE  LET q == Received(r, x) IN
         /\ q.receiving /\ q.last = r.last /\ (r.lagged => q.lagged)
         /\ \E i \in 1..Len(q.queue) : q.queue[i] = x
         /\ q.lagged \/ \A i \in 1..Len(r.queue) : i \in 1..Len(q.queue) /\ q.queue[i] = r.queue[i]
<1>1. r.queue \in Seq(Scripts) /\ Len(r.queue) \in Nat
  BY DEF Session
<1>2. CASE Len(r.queue) < BufferSize
  <2>1. PICK u : u = Append(r.queue, x)
    OBVIOUS
  <2>2. /\ Len(u) = Len(r.queue) + 1 /\ u[Len(r.queue) + 1] = x
        /\ \A i \in 1..Len(r.queue) : u[i] = r.queue[i]
    BY <1>1, <2>1, AppendProperties
  <2>3. Len(r.queue) + 1 \in 1..Len(u) /\ \A i \in 1..Len(r.queue) : i \in 1..Len(u)
    BY <1>1, <2>2
  <2>4. Received(r, x) = [r EXCEPT !.queue = u]
    BY <1>2, <2>1 DEF Received
  <2>5. /\ Received(r, x).queue = u /\ Received(r, x).receiving = r.receiving
        /\ Received(r, x).last = r.last /\ Received(r, x).lagged = r.lagged
    BY <2>4 DEF Session
  <2> QED
    BY <2>2, <2>3, <2>5
<1>3. CASE ~(Len(r.queue) < BufferSize)
  <2>1. r.queue # << >>
    BY <1>1, <1>3, WatchAssumption
  <2>2. Tail(r.queue) \in Seq(Scripts)
    BY <1>1, <2>1
  <2>3. PICK v : v = Tail(r.queue)
    OBVIOUS
  <2>4. PICK u : u = Append(v, x)
    OBVIOUS
  <2>5. Len(v) \in Nat /\ Len(u) = Len(v) + 1 /\ u[Len(v) + 1] = x
    BY <2>2, <2>3, <2>4, AppendProperties
  <2>6. Len(v) + 1 \in 1..Len(u)
    BY <2>5
  <2>7. Received(r, x) = [r EXCEPT !.queue = u, !.lagged = TRUE]
    BY <1>3, <2>3, <2>4 DEF Received
  <2>8. /\ Received(r, x).queue = u /\ Received(r, x).receiving = r.receiving
        /\ Received(r, x).last = r.last /\ Received(r, x).lagged = TRUE
    BY <2>7 DEF Session
  <2> QED
    BY <2>5, <2>6, <2>8
<1> QED
  BY <1>2, <1>3

(* A session that is left alone, when the wallet may only catch up.        *)
LEMMA WakeOthers ==
  ASSUME WakeInv, NEW s \in Sessions, UNCHANGED <<mode, chain, notices>>,
         wallet' = wallet \/ wallet' = chain, session'[s] = session[s]
  PROVE  /\ mode' = "polled" => session'[s].scripts = {}
         /\ \A x \in session'[s].scripts : WakeOf(s, x)'
<1>1. /\ mode = "polled" => session[s].scripts = {}
      /\ \A x \in session[s].scripts : WakeOf(s, x)
  BY DEF WakeInv
<1>2. ASSUME NEW x \in session[s].scripts PROVE WakeOf(s, x)'
  <2>1. WakeOf(s, x)
    BY <1>1, <1>2
  <2>2. UpdateComing(s, x) => UpdateComing(s, x)'
    BY DEF UpdateComing
  <2>3. wallet[x] = chain[x] => wallet'[x] = chain'[x]
    OBVIOUS
  <2> QED
    BY <2>1, <2>2, <2>3 DEF WakeOf
<1> QED
  BY <1>1, <1>2

(* A session's own step: the others are left alone.                        *)
LEMMA WakeOwn ==
  ASSUME WakeInv, NEW s \in Sessions, UNCHANGED <<mode, chain, notices>>,
         wallet' = wallet \/ wallet' = chain,
         \A q \in Sessions \ {s} : session'[q] = session[q],
         mode = "polled" => session'[s].scripts = {},
         \A x \in session'[s].scripts : WakeOf(s, x)'
  PROVE  WakeInv'
<1>1. ASSUME NEW q \in Sessions
      PROVE  /\ mode' = "polled" => session'[q].scripts = {}
             /\ \A x \in session'[q].scripts : WakeOf(q, x)'
  <2>1. CASE q = s
    BY <2>1
  <2>2. CASE q # s
    BY <2>2, WakeOthers
  <2> QED
    BY <2>1, <2>2
<1> QED
  BY <1>1 DEF WakeInv

(* A status change of a watched script is noticed.                         *)
LEMMA WakeChange ==
  ASSUME ~WatchFaults, ShapeInv, CountInv, WakeInv, NEW x \in Scripts, Change(x)
  PROVE  WakeInv'
<1>1. /\ UNCHANGED <<mode, wallet, session>> /\ chain' = [chain EXCEPT ![x] = @ + 1]
      /\ notices' = IF count[x] > 0 THEN notices \cup {x} ELSE notices
  BY DEF Change
<1>2. chain \in [Scripts -> Status]
  BY DEF ShapeInv, Balance
<1>3. ASSUME NEW s \in Sessions, NEW y \in session[s].scripts PROVE WakeOf(s, y)'
  <2>1. WakeOf(s, y) /\ y \in Scripts
    BY <1>3, SessionFields DEF WakeInv
  <2>2. UpdateComing(s, y) => UpdateComing(s, y)'
    BY <1>1 DEF UpdateComing
  <2>3. CASE y # x
    <3>1. chain'[y] = chain[y]
      BY <1>1, <1>2, <2>1, <2>3
    <3> QED
      BY <1>1, <2>1, <2>2, <3>1 DEF WakeOf
  <2>4. CASE y = x /\ session[s].pc \in {"push", "loop"}
    <3>1. Holds(s, x)
      BY <2>4 DEF Holds
    <3>2. x \in notices'
      BY <1>1, <3>1, HeldSubscribed
    <3>3. UpdateComing(s, y)'
      BY <2>4, <3>2 DEF UpdateComing
    <3> QED
      BY <1>1, <2>1, <3>3 DEF WakeOf
  <2>5. CASE session[s].pc \notin {"push", "loop"}
    BY <1>1, <2>1, <2>5 DEF WakeOf
  <2> QED
    BY <2>3, <2>4, <2>5
<1> QED
  BY <1>1, <1>3 DEF WakeInv

(* A broadcast reaches every session that receives.                        *)
LEMMA WakeDeliver ==
  ASSUME ShapeInv, WakeInv, NEW x \in Scripts, Deliver(x)
  PROVE  WakeInv'
<1>1. /\ UNCHANGED <<mode, chain, wallet>> /\ notices' = notices \ {x}
      /\ \A s \in Sessions : session'[s] = Received(session[s], x)
  BY DEF Deliver
<1>2. \A s \in Sessions : session'[s].scripts = session[s].scripts /\ session'[s].pc = session[s].pc
  BY <1>1, SessionFields, ReceivedTyped
<1>3. ASSUME NEW s \in Sessions, NEW y \in session[s].scripts PROVE WakeOf(s, y)'
  <2>1. WakeOf(s, y) /\ y \in Scripts /\ session[s] \in Session
    BY <1>3, SessionFields DEF WakeInv
  <2>2. CASE session[s].pc \notin {"sync", "push", "loop"}
    BY <1>2, <2>2 DEF WakeOf
  <2>3. CASE session[s].pc \in {"sync", "push", "loop"}
    <3>1. session[s].receiving
      BY <2>1, <2>3 DEF WakeOf
    <3>2. PICK q : q = session'[s]
      OBVIOUS
    <3>3. /\ q.receiving /\ q.last = session[s].last /\ (session[s].lagged => q.lagged)
          /\ \E i \in 1..Len(q.queue) : q.queue[i] = x
          /\ \/ q.lagged
             \/ \A i \in 1..Len(session[s].queue) : i \in 1..Len(q.queue) /\ q.queue[i] = session[s].queue[i]
      BY <1>1, <2>1, <3>1, <3>2, ReceivedComes
    <3>4. ASSUME UpdateComing(s, y)
          PROVE  (y \in notices \ {x}) \/ q.lagged \/ \E i \in 1..Len(q.queue) : q.queue[i] = y
      <4>1. CASE y \in notices
        BY <3>3, <4>1
      <4>2. CASE session[s].lagged
        BY <3>3, <4>2
      <4>3. CASE \E i \in 1..Len(session[s].queue) : session[s].queue[i] = y
        BY <3>3, <4>3
      <4> QED
        BY <3>4, <4>1, <4>2, <4>3 DEF UpdateComing
    <3>5. UpdateComing(s, y) => UpdateComing(s, y)'
      BY <1>1, <3>2, <3>4 DEF UpdateComing
    <3> QED
      BY <1>1, <1>2, <2>1, <3>2, <3>3, <3>5 DEF WakeOf
  <2> QED
    BY <2>2, <2>3
<1> QED
  BY <1>1, <1>2, <1>3 DEF WakeInv

(* An update that is received and does not wake the session was for none   *)
(* of its scripts; the others stay in the buffer.                          *)
LEMMA WakeRecv ==
  ASSUME ShapeInv, WakeInv, NEW s \in Sessions, Recv(s)
  PROVE  WakeInv'
<1> DEFINE r == session[s]
<1>0. /\ r \in Session /\ r.queue \in Seq(Scripts) /\ session \in [Sessions -> Session] /\ r.pc = "loop"
      /\ mode = "watched"
  BY SessionFields DEF Recv, ShapeInv
<1>1. PICK q : /\ session' = [session EXCEPT ![s] = q]
               /\ q.scripts = r.scripts /\ q.receiving = r.receiving /\ q.last = r.last
               /\ \/ q.pc = "sync"
                  \/ /\ q.pc = "loop" /\ ~r.lagged /\ q.lagged = r.lagged
                     /\ r.queue # << >> /\ q.queue = Tail(r.queue) /\ Head(r.queue) \notin r.scripts
  <2>1. CASE r.lagged
    <3>1. PICK q : q = [r EXCEPT !.lagged = FALSE, !.pc = "sync"]
      OBVIOUS
    <3>2. session' = [session EXCEPT ![s] = q]
      BY <2>1, <3>1 DEF Recv
    <3>3. q.scripts = r.scripts /\ q.receiving = r.receiving /\ q.last = r.last /\ q.pc = "sync"
      BY <1>0, <3>1 DEF Session
    <3> QED
      BY <3>2, <3>3
  <2>2. CASE ~r.lagged
    <3>1. PICK pc : pc = IF Head(r.queue) \in r.scripts THEN "sync" ELSE r.pc
      OBVIOUS
    <3>2. PICK v : v = Tail(r.queue)
      OBVIOUS
    <3>3. PICK q : q = [r EXCEPT !.queue = v, !.pc = pc]
      OBVIOUS
    <3>4. session' = [session EXCEPT ![s] = q] /\ r.queue # << >>
      BY <2>2, <3>1, <3>2, <3>3 DEF Recv
    <3>5. /\ q.scripts = r.scripts /\ q.receiving = r.receiving /\ q.last = r.last /\ q.pc = pc
          /\ q.queue = v /\ q.lagged = r.lagged
      BY <1>0, <3>3 DEF Session
    <3> HIDE DEF r
    <3> QED
      BY <1>0, <2>2, <3>1, <3>2, <3>4, <3>5
  <2> QED
    BY <2>1, <2>2
<1>2. UNCHANGED <<mode, chain, notices, wallet>> /\ mode # "polled"
  BY <1>0 DEF Recv
<1>3. session'[s] = q /\ \A u \in Sessions \ {s} : session'[u] = session[u]
  BY <1>0, <1>1
<1>4. ASSUME NEW x \in q.scripts PROVE WakeOf(s, x)'
  <2>1. WakeOf(s, x) /\ r.receiving
    BY <1>0, <1>1, <1>4 DEF WakeInv, WakeOf
  <2>2. CASE q.pc = "sync"
    BY <1>1, <1>3, <2>1, <2>2 DEF WakeOf
  <2>3. CASE /\ q.pc = "loop" /\ ~r.lagged /\ q.lagged = r.lagged
             /\ r.queue # << >> /\ q.queue = Tail(r.queue) /\ Head(r.queue) \notin r.scripts
    <3>1. ASSUME NEW i \in 1..Len(r.queue), r.queue[i] = x
          PROVE  \E k \in 1..Len(q.queue) : q.queue[k] = x
      <4>1. Head(r.queue) = r.queue[1] /\ Len(r.queue) \in Nat
        BY <1>0, <2>3
      <4>2. i # 1
        BY <1>1, <1>4, <2>3, <3>1, <4>1
      <4>3. Len(q.queue) = Len(r.queue) - 1 /\ \A k \in 1..(Len(r.queue) - 1) : q.queue[k] = r.queue[k + 1]
        BY <1>0, <2>3, HeadTailProperties
      <4>4. i - 1 \in 1..(Len(r.queue) - 1) /\ (i - 1) + 1 = i
        BY <4>1, <4>2
      <4>5. q.queue[i - 1] = r.queue[i]
        BY <4>3, <4>4
      <4> QED
        BY <3>1, <4>3, <4>4, <4>5
    <3>2. UpdateComing(s, x) => UpdateComing(s, x)'
      BY <1>2, <1>3, <2>3, <3>1 DEF UpdateComing
    <3> QED
      BY <1>0, <1>1, <1>2, <1>3, <2>1, <2>3, <3>2 DEF WakeOf
  <2> QED
    BY <1>1, <2>2, <2>3
<1> QED
  BY <1>2, <1>3, <1>4, WakeOwn

(* A step after which the session does not sync, push or wait.             *)
LEMMA WakeAside ==
  ASSUME WakeInv, NEW s \in Sessions, UNCHANGED <<mode, chain, notices, wallet>>,
         \A q \in Sessions \ {s} : session'[q] = session[q],
         mode = "polled" => session'[s].scripts = {},
         session'[s].pc \notin {"sync", "push", "loop"} \/ session'[s].scripts = {}
  PROVE  WakeInv'
<1>1. \A x \in session'[s].scripts : WakeOf(s, x)'
  BY DEF WakeOf
<1> QED
  BY <1>1, WakeOwn

(* The invariant is inductive.                                             *)
LEMMA WakeStep ==
  ASSUME ~WatchFaults, "watched" \notin SyncFaults, ShapeInv, CountInv, WakeInv, [Next]_vars
  PROVE  WakeInv'
<1>0. session \in [Sessions -> Session] /\ mode \in {"watched", "polled"}
  BY WatchAssumption DEF ShapeInv
<1>a. \A s \in Sessions : /\ mode = "polled" => session[s].scripts = {}
                          /\ \A x \in session[s].scripts : WakeOf(s, x)
  BY DEF WakeInv
<1>1. CASE UNCHANGED vars
  BY <1>1 DEF vars, WakeInv, WakeOf, UpdateComing
<1>2. ASSUME NEW x \in Scripts, Reveal(x) PROVE WakeInv'
  BY <1>2 DEF Reveal, WakeInv, WakeOf, UpdateComing
<1>3. ASSUME NEW s \in Sessions, Connect(s) PROVE WakeInv'
  <2>1. PICK r : r = IF mode = "polled" THEN [Closed EXCEPT !.pc = "loop"]
                     ELSE [Closed EXCEPT !.pc = IF watched_scripts = {} THEN "updates" ELSE "watch",
                                         !.scripts = watched_scripts, !.todo = watched_scripts]
    OBVIOUS
  <2>2. /\ session' = [session EXCEPT ![s] = r] /\ UNCHANGED <<mode, chain, notices, wallet>>
    BY <1>3, <2>1 DEF Connect
  <2>3. /\ mode = "polled" => r.scripts = {}
        /\ r.pc \notin {"sync", "push", "loop"} \/ r.scripts = {}
    BY <2>1 DEF Closed
  <2>4. session'[s] = r /\ \A q \in Sessions \ {s} : session'[q] = session[q]
    BY <1>0, <2>2
  <2> QED
    BY <2>2, <2>3, <2>4, WakeAside
<1>4. ASSUME NEW s \in Sessions, NEW x \in Scripts, Watch(s, x) \/ Unwatch(s, x) PROVE WakeInv'
  <2>1. PICK next \in {"updates", "closed"} : ForEach(s, x, next)
    BY <1>4 DEF Watch, Unwatch
  <2>2. /\ session'[s].scripts = session[s].scripts
        /\ session'[s].pc = IF session[s].todo \ {x} = {} THEN next ELSE session[s].pc
        /\ \A q \in Sessions \ {s} : session'[q] = session[q]
    BY <2>1, ForEachTyped
  <2>3. /\ session[s].pc \in {"watch", "unwatch"} /\ UNCHANGED <<mode, chain, notices, wallet>>
    BY <1>4 DEF Watch, Unwatch
  <2>4. session'[s].pc \notin {"sync", "push", "loop"}
    BY <2>2, <2>3
  <2> QED
    BY <1>a, <2>2, <2>3, <2>4, WakeAside
<1>5. ASSUME NEW s \in Sessions, Updates(s) PROVE WakeInv'
  <2>1. PICK r : r = [session[s] EXCEPT !.pc = "sync", !.receiving = TRUE]
    OBVIOUS
  <2>2. r.pc = "sync" /\ r.receiving /\ r.scripts = session[s].scripts
    BY <1>0, <2>1 DEF Session
  <2>3. session' = [session EXCEPT ![s] = r] /\ UNCHANGED <<mode, chain, notices, wallet>>
    BY <1>0, <1>5, <2>1 DEF Updates
  <2>4. session'[s] = r /\ \A q \in Sessions \ {s} : session'[q] = session[q]
    BY <1>0, <2>3
  <2>5. \A x \in session'[s].scripts : WakeOf(s, x)'
    BY <2>2, <2>4 DEF WakeOf
  <2> QED
    BY <1>a, <2>2, <2>3, <2>4, <2>5, WakeOwn
<1>6. ASSUME NEW s \in Sessions, Sync(s) PROVE WakeInv'
  <2>1. PICK r : r = [session[s] EXCEPT !.pc = "push"]
    OBVIOUS
  <2>2. r.pc = "push" /\ r.receiving = session[s].receiving /\ r.scripts = session[s].scripts
    BY <1>0, <2>1 DEF Session
  <2>3. /\ session' = [session EXCEPT ![s] = r] /\ UNCHANGED <<mode, chain, notices>> /\ wallet' = chain
        /\ session[s].pc = "sync"
    BY <1>0, <1>6, <2>1 DEF Sync, Goto
  <2>4. session'[s] = r /\ \A q \in Sessions \ {s} : session'[q] = session[q]
    BY <1>0, <2>3
  <2>5. \A x \in session'[s].scripts : WakeOf(s, x)'
    BY <1>a, <2>2, <2>3, <2>4 DEF WakeOf
  <2> QED
    BY <1>a, <2>2, <2>3, <2>4, <2>5, WakeOwn
<1>7. ASSUME NEW s \in Sessions, SyncFails(s) \/ Tick(s) PROVE WakeInv'
  <2>1. mode = "polled"
    BY <1>0, <1>7 DEF SyncFails, Tick
  <2>2. PICK pc : session' = [session EXCEPT ![s].pc = pc]
    BY <1>7 DEF SyncFails, Tick, Goto
  <2>3. /\ session'[s].scripts = session[s].scripts
        /\ \A q \in Sessions \ {s} : session'[q] = session[q]
    BY <1>0, <2>2 DEF Session
  <2>4. UNCHANGED <<mode, chain, notices, wallet>>
    BY <1>7 DEF SyncFails, Tick
  <2>5. session'[s].scripts = {}
    BY <1>a, <2>1, <2>3
  <2> QED
    BY <2>3, <2>4, <2>5, WakeAside
<1>8. ASSUME NEW s \in Sessions, Push(s) PROVE WakeInv'
  <2>1. PICK r : r = [session[s] EXCEPT !.pc = "loop", !.last = {wallet}]
    OBVIOUS
  <2>2. /\ r.pc = "loop" /\ r.last = {wallet} /\ r.receiving = session[s].receiving
        /\ r.scripts = session[s].scripts /\ r.queue = session[s].queue /\ r.lagged = session[s].lagged
    BY <1>0, <2>1 DEF Session
  <2>3. /\ session' = [session EXCEPT ![s] = r] /\ UNCHANGED <<mode, chain, notices, wallet>>
        /\ session[s].pc = "push"
    BY <1>0, <1>8, <2>1 DEF Push
  <2>4. session'[s] = r /\ \A q \in Sessions \ {s} : session'[q] = session[q]
    BY <1>0, <2>3
  <2>5. ASSUME NEW x \in session'[s].scripts PROVE WakeOf(s, x)'
    <3>1. session[s].receiving /\ (wallet[x] = chain[x] \/ UpdateComing(s, x))
      BY <1>a, <2>2, <2>3, <2>4, <2>5 DEF WakeOf
    <3>2. UpdateComing(s, x) => UpdateComing(s, x)'
      BY <2>2, <2>3, <2>4 DEF UpdateComing
    <3> QED
      BY <2>2, <2>3, <2>4, <3>1, <3>2 DEF WakeOf
  <2> QED
    BY <1>a, <2>2, <2>3, <2>4, <2>5, WakeOwn
<1>9. ASSUME NEW s \in Sessions, Leave(s) PROVE WakeInv'
  <2>1. PICK r : r = IF session[s].scripts = {} THEN Closed
                     ELSE [session[s] EXCEPT !.pc = "unwatch", !.todo = session[s].scripts]
    OBVIOUS
  <2>2. r.pc \in {"closed", "unwatch"} /\ r.scripts = session[s].scripts
    <3>1. CASE session[s].scripts = {}
      BY <2>1, <3>1 DEF Closed
    <3>2. CASE session[s].scripts # {}
      BY <1>0, <2>1, <3>2 DEF Session
    <3> QED
      BY <3>1, <3>2
  <2>3. session' = [session EXCEPT ![s] = r] /\ UNCHANGED <<mode, chain, notices, wallet>>
    BY <1>0, <1>9, <2>1 DEF Leave
  <2>4. session'[s] = r /\ \A q \in Sessions \ {s} : session'[q] = session[q]
    BY <1>0, <2>3
  <2> QED
    BY <1>a, <2>2, <2>3, <2>4, WakeAside
<1> QED
  BY <1>1, <1>2, <1>3, <1>4, <1>5, <1>6, <1>7, <1>8, <1>9, WakeChange, WakeDeliver, WakeRecv
     DEF Next, Run

(* No session is deaf: any number of sockets of a user may connect, wait   *)
(* and leave in any order while addresses are revealed and paid, with any  *)
(* buffer; as long as watches and the syncs of the event-driven loop       *)
(* succeed, a waiting session that is behind has an update on its way.     *)
(* The order of drive_watched carries it: subscribe, receive, then sync.   *)
THEOREM WatchNoLostWakeup ==
  ~WatchFaults /\ "watched" \notin SyncFaults /\ Spec => []NoLostWakeup
<1> DEFINE C == ~WatchFaults /\ "watched" \notin SyncFaults
           I == C /\ ShapeInv /\ CountInv /\ WakeInv
<1>1. C /\ Init => I
  <2> SUFFICES ASSUME Init PROVE WakeInv
    BY InitCounts
  <2>1. \A s \in Sessions : session[s].scripts = {}
    BY DEF Init, Closed
  <2> QED
    BY <2>1 DEF WakeInv
<1>2. I /\ [Next]_vars => I'
  BY NextCounts, WakeStep
<1>3. I => NoLostWakeup
  BY DEF WakeInv, WakeOf, NoLostWakeup
<1> HIDE DEF I
<1>4. C /\ Spec => []NoLostWakeup
  <2> HIDE DEF C
  <2> QED
    BY <1>1, <1>2, <1>3, PTL DEF Spec
<1> QED
  BY <1>4

=============================================================================
