---------------------------- MODULE WebhooksProofs ----------------------------
(***************************************************************************)
(* Proofs about Webhooks for any hooks, users, events and dispatches and   *)
(* every MAX_FAILURES.                                                     *)
(***************************************************************************)
EXTENDS Webhooks, TLAPS

\* The actions of a dispatch under way.
Inside(d) == (\E h \in Hook, success \in BOOLEAN : Deliver(d, h, success)) \/ Record(d)

\* Next by kinds of steps, with the parameters named.
LEMMA NextCases ==
    ASSUME Next
    PROVE  \/ \E h \in Hook, u \in User, events \in SUBSET VALID_EVENTS : CreateWebhook(h, u, events)
           \/ \E h \in Hook, u \in User : DeleteWebhook(h, u)
           \/ \E h \in Hook : CommitDelete(h)
           \/ \E d \in Dispatch, event \in VALID_EVENTS, users \in SUBSET User :
                 Select(d, event, users)
           \/ \E d \in Dispatch, h \in Hook, success \in BOOLEAN : Deliver(d, h, success)
           \/ \E d \in Dispatch : Record(d) \/ Commit(d) \/ Abort(d) \/ Die(d)
<1>1. \A users : users \in {User} \cup {{u} : u \in User} => users \in SUBSET User
  OBVIOUS
<1>2. QED
  BY <1>1 DEF Next, Advance

\* Init establishes the types.
LEMMA InitTypeOK == Init => TypeOK
BY DEF Init, TypeOK, Status

\* What a written row is.
LEMMA WrittenType ==
    ASSUME TypeOK, NEW d \in Dispatch, NEW h \in Hook
    PROVE  /\ Written(d, h) \in [status : Status, fails : Nat, user : User, events : SUBSET VALID_EVENTS]
           /\ Written(d, h).fails = count[d][h]
           /\ count[d][h] = 0 => Written(d, h).status = row[h].status
           /\ count[d][h] # 0 /\ count[d][h] >= MAX_FAILURES => Written(d, h).status = "failed"
           /\ count[d][h] # 0 /\ ~(count[d][h] >= MAX_FAILURES) => Written(d, h).status = "active"
<1> DEFINE c == count[d][h]
           st == IF c = 0 THEN row[h].status ELSE IF c >= MAX_FAILURES THEN "failed" ELSE "active"
<1>1. c \in Nat /\ row[h] \in [status : Status, fails : Nat, user : User, events : SUBSET VALID_EVENTS]
  BY DEF TypeOK
<1>2. st \in Status
  BY <1>1 DEF Status
<1>3. Written(d, h) = [row[h] EXCEPT !.fails = c, !.status = st]
  BY DEF Written
<1>4. QED
  BY <1>1, <1>2, <1>3

\* What a dispatch keeps for itself is well typed when it leaves.
LEMMA LeavesType ==
    ASSUME TypeOK, NEW d \in Dispatch, Leaves(d)
    PROVE  /\ at' \in [Dispatch -> {"idle", "running", "ended"}]
           /\ todo' \in [Dispatch -> SUBSET Hook]
           /\ updating' \in [Dispatch -> SUBSET Hook]
           /\ count' \in [Dispatch -> [Hook -> Nat]]
           /\ locked' \in [Dispatch -> SUBSET Hook]
<1>1. [h \in Hook |-> 0] \in [Hook -> Nat]
  OBVIOUS
<1>2. count' \in [Dispatch -> [Hook -> Nat]]
  BY <1>1 DEF Leaves, TypeOK
<1>3. QED
  BY <1>2 DEF Leaves, TypeOK

\* What a delivery does to the lists of its dispatch.
LEMMA DeliverLists ==
    ASSUME TypeOK, NEW d \in Dispatch, NEW h \in Hook, NEW success \in BOOLEAN, Deliver(d, h, success)
    PROVE  /\ todo' \in [Dispatch -> SUBSET Hook] /\ updating' \in [Dispatch -> SUBSET Hook]
           /\ \A e \in Dispatch : todo'[e] \subseteq todo[e]
           /\ \A e \in Dispatch : updating[e] \subseteq todo[e] => updating'[e] \subseteq todo'[e]
<1>1. CASE success /\ count[d][h] = 0
  <2>1. todo' = [todo EXCEPT ![d] = todo[d] \ {h}] /\ updating' = updating /\ updating[d] = {}
    BY <1>1 DEF Deliver
  <2>2. QED
    BY <2>1 DEF TypeOK
<1>2. CASE ~(success /\ count[d][h] = 0)
  <2>1. todo' = todo /\ updating' = [updating EXCEPT ![d] = {h}] /\ h \in todo[d]
    BY <1>2 DEF Deliver
  <2>2. QED
    BY <2>1 DEF TypeOK
<1>3. QED
  BY <1>1, <1>2

\* Every step preserves the types.
LEMMA NextTypeOK == TypeOK /\ [Next]_vars => TypeOK'
<1> SUFFICES ASSUME TypeOK, [Next]_vars PROVE TypeOK'
  OBVIOUS
<1> USE DEF calls, history
<1>1. ASSUME NEW h \in Hook, NEW u \in User, NEW events \in SUBSET VALID_EVENTS,
             CreateWebhook(h, u, events)
      PROVE  TypeOK'
  BY <1>1 DEF CreateWebhook, TypeOK, Status
<1>2. ASSUME NEW h \in Hook, CommitDelete(h) \/ \E u \in User : DeleteWebhook(h, u)
      PROVE  TypeOK'
  <2>1. CASE CommitDelete(h)
    BY <2>1 DEF CommitDelete, TypeOK, Status
  <2>2. ASSUME NEW u \in User, DeleteWebhook(h, u)
        PROVE  TypeOK'
    BY <2>2 DEF DeleteWebhook, TypeOK
  <2>3. QED
    BY <1>2, <2>1, <2>2
<1>3. ASSUME NEW d \in Dispatch, NEW event \in VALID_EVENTS, NEW users \in SUBSET User,
             Select(d, event, users)
      PROVE  TypeOK'
  BY <1>3 DEF Select, TypeOK
<1>4. ASSUME NEW d \in Dispatch, NEW h \in Hook, NEW success \in BOOLEAN, Deliver(d, h, success)
      PROVE  TypeOK'
  <2>1. count' \in [Dispatch -> [Hook -> Nat]] /\ failures' \in [Hook -> Nat]
    BY <1>4 DEF Deliver, TypeOK
  <2>2. todo' \in [Dispatch -> SUBSET Hook] /\ updating' \in [Dispatch -> SUBSET Hook]
    BY <1>4, DeliverLists
  <2>3. UNCHANGED <<row, deleting, at, locked, streak, overlapped, staleReader>>
    BY <1>4 DEF Deliver
  <2>4. QED
    BY <2>1, <2>2, <2>3 DEF TypeOK
<1>5. ASSUME NEW d \in Dispatch, Record(d)
      PROVE  TypeOK'
  BY <1>5 DEF Record, TypeOK
<1>6. ASSUME NEW d \in Dispatch, Commit(d)
      PROVE  TypeOK'
  <2>1. row' \in [Hook -> [status : Status, fails : Nat, user : User, events : SUBSET VALID_EVENTS]]
    BY <1>6, WrittenType DEF Commit, TypeOK
  <2>2. streak' \in [Hook -> Nat] /\ staleReader' \in [Hook -> SUBSET Dispatch]
    BY <1>6 DEF Commit, TypeOK
  <2>3. QED
    BY <1>6, <2>1, <2>2, LeavesType DEF Commit, Leaves, TypeOK
<1>7. ASSUME NEW d \in Dispatch, Abort(d) \/ Die(d)
      PROVE  TypeOK'
  BY <1>7, LeavesType DEF Abort, Die, Leaves, TypeOK
<1>8. CASE UNCHANGED vars
  BY <1>8 DEF vars, TypeOK
<1>9. QED
  BY <1>1, <1>2, <1>3, <1>4, <1>5, <1>6, <1>7, <1>8, NextCases

\* The variables always have the types TypeOK gives them.
THEOREM TypeCorrect == Spec => []TypeOK
BY InitTypeOK, NextTypeOK, PTL DEF Spec
-----------------------------------------------------------------------------
\* No dispatch knows of more failures of a hook than there were.
KnownHappened == \A d \in Dispatch, h \in Hook : count[d][h] <= failures[h]

\* Who has a failed hook in hand had it when the hook was marked.
HandsWereFull ==
    \A h \in Hook : row[h].status = "failed" =>
        \A d \in Dispatch : h \in InHand(d) => d \in staleReader[h]

HandsRun == \A d \in Dispatch : /\ at[d] # "running" => InHand(d) = {}
                                /\ updating[d] \subseteq todo[d]

IInv == TypeOK /\ CountHasFailures /\ KnownHappened /\ HandsWereFull /\ HandsRun

LEMMA InitIInv == Init => IInv
BY InitTypeOK DEF Init, IInv, CountHasFailures, KnownHappened, HandsWereFull, HandsRun, InHand

\* Counts never get ahead of the failures.
LEMMA NextCounts == IInv /\ [Next]_vars => CountHasFailures' /\ KnownHappened'
<1> SUFFICES ASSUME IInv, [Next]_vars PROVE CountHasFailures' /\ KnownHappened'
  OBVIOUS
<1> USE DEF calls, history
<1>0. TypeOK /\ TypeOK'
  BY NextTypeOK DEF IInv
<1>1. ASSUME NEW h \in Hook, NEW u \in User, NEW events \in SUBSET VALID_EVENTS,
             CreateWebhook(h, u, events)
      PROVE  CountHasFailures' /\ KnownHappened'
  BY <1>1, <1>0 DEF CreateWebhook, TypeOK, IInv, CountHasFailures, KnownHappened
<1>2. ASSUME NEW h \in Hook, CommitDelete(h) \/ \E u \in User : DeleteWebhook(h, u)
      PROVE  CountHasFailures' /\ KnownHappened'
  <2>1. CASE CommitDelete(h)
    BY <2>1, <1>0 DEF CommitDelete, TypeOK, IInv, CountHasFailures, KnownHappened
  <2>2. ASSUME NEW u \in User, DeleteWebhook(h, u)
        PROVE  CountHasFailures' /\ KnownHappened'
    BY <2>2, <1>0 DEF DeleteWebhook, IInv, CountHasFailures, KnownHappened
  <2>3. QED
    BY <1>2, <2>1, <2>2
<1>3. ASSUME NEW d \in Dispatch, NEW event \in VALID_EVENTS, NEW users \in SUBSET User,
             Select(d, event, users)
      PROVE  CountHasFailures' /\ KnownHappened'
  <2>1. CountHasFailures'
    BY <1>3, <1>0 DEF Select, TypeOK, IInv, CountHasFailures
  <2>2. \A h \in Hook : row[h].fails \in Nat /\ row[h].fails <= failures[h] /\ failures[h] \in Nat
    BY <1>0 DEF TypeOK, IInv, CountHasFailures
  <2>3. KnownHappened'
    BY <1>3, <1>0, <2>2 DEF Select, TypeOK, IInv, KnownHappened
  <2>4. QED
    BY <2>1, <2>3
<1>4. ASSUME NEW d \in Dispatch, NEW h \in Hook, NEW success \in BOOLEAN, Deliver(d, h, success)
      PROVE  CountHasFailures' /\ KnownHappened'
  <2>1. \A g \in Hook : failures[g] <= failures'[g] /\ failures[g] \in Nat /\ failures'[g] \in Nat
    BY <1>4, <1>0 DEF Deliver, TypeOK
  <2>2. CountHasFailures'
    BY <1>4, <1>0, <2>1, FailuresAssumption DEF Deliver, TypeOK, IInv, CountHasFailures
  <2>3. \A e \in Dispatch, g \in Hook : count[e][g] \in Nat
    BY <1>0 DEF TypeOK
  <2>4. KnownHappened'
    BY <1>4, <1>0, <2>1, <2>3 DEF Deliver, TypeOK, IInv, KnownHappened
  <2>5. QED
    BY <2>2, <2>4
<1>5. ASSUME NEW d \in Dispatch, Record(d)
      PROVE  CountHasFailures' /\ KnownHappened'
  BY <1>5, <1>0 DEF Record, TypeOK, IInv, CountHasFailures, KnownHappened
<1>6. ASSUME NEW d \in Dispatch, Leaves(d)
      PROVE  KnownHappened'
  BY <1>6, <1>0 DEF Leaves, TypeOK, IInv, KnownHappened
<1>7. ASSUME NEW d \in Dispatch, Commit(d)
      PROVE  CountHasFailures'
  <2>1. failures' = failures
    BY <1>7 DEF Commit, Leaves
  <2>2. ASSUME NEW h \in Hook, h \in locked[d]
        PROVE  /\ row'[h].fails <= failures[h]
               /\ row'[h].status = "failed" => failures[h] >= MAX_FAILURES
    <3>1. row'[h] = Written(d, h)
      BY <1>7, <2>2, <1>0 DEF Commit
    <3>2. count[d][h] \in Nat /\ failures[h] \in Nat /\ count[d][h] <= failures[h]
      BY <1>0 DEF TypeOK, IInv, KnownHappened
    <3>3. row[h].status = "failed" => failures[h] >= MAX_FAILURES
      BY DEF IInv, CountHasFailures
    <3>4. QED
      BY <3>1, <3>2, <3>3, <1>0, WrittenType, FailuresAssumption
  <2>3. \A h \in Hook : h \notin locked[d] => row'[h] = row[h]
    BY <1>7 DEF Commit
  <2>4. QED
    BY <2>1, <2>2, <2>3 DEF IInv, CountHasFailures
<1>8. ASSUME NEW d \in Dispatch, Abort(d) \/ Die(d)
      PROVE  CountHasFailures' /\ Leaves(d)
  BY <1>8, <1>0 DEF Abort, Die, Leaves, IInv, CountHasFailures
<1>9. CASE UNCHANGED vars
  BY <1>9 DEF vars, IInv, CountHasFailures, KnownHappened
<1>10. QED
  BY <1>1, <1>2, <1>3, <1>4, <1>5, <1>6, <1>7, <1>8, <1>9, NextCases DEF Commit

\* Hands fill only with active hooks and only while their dispatch runs.
LEMMA NextHands == IInv /\ [Next]_vars => HandsWereFull' /\ HandsRun'
<1> SUFFICES ASSUME IInv, [Next]_vars PROVE HandsWereFull' /\ HandsRun'
  OBVIOUS
<1> USE DEF calls, history, InHand
<1>0. TypeOK /\ TypeOK'
  BY NextTypeOK DEF IInv
<1>1. ASSUME NEW h \in Hook, NEW u \in User, NEW events \in SUBSET VALID_EVENTS,
             CreateWebhook(h, u, events)
      PROVE  HandsWereFull' /\ HandsRun'
  BY <1>1, <1>0 DEF CreateWebhook, TypeOK, IInv, HandsWereFull, HandsRun
<1>2. ASSUME NEW h \in Hook, CommitDelete(h) \/ \E u \in User : DeleteWebhook(h, u)
      PROVE  HandsWereFull' /\ HandsRun'
  <2>1. CASE CommitDelete(h)
    BY <2>1, <1>0 DEF CommitDelete, TypeOK, IInv, HandsWereFull, HandsRun
  <2>2. ASSUME NEW u \in User, DeleteWebhook(h, u)
        PROVE  HandsWereFull' /\ HandsRun'
    BY <2>2, <1>0 DEF DeleteWebhook, IInv, HandsWereFull, HandsRun
  <2>3. QED
    BY <1>2, <2>1, <2>2
<1>3. ASSUME NEW d \in Dispatch, NEW event \in VALID_EVENTS, NEW users \in SUBSET User,
             Select(d, event, users)
      PROVE  HandsWereFull' /\ HandsRun'
  <2>1. \A h \in Hook : row[h].status = "failed" => h \notin todo'[d]
    BY <1>3, <1>0 DEF Select, TypeOK
  <2>2. \A e \in Dispatch \ {d} : todo'[e] = todo[e]
    BY <1>3, <1>0 DEF Select, TypeOK
  <2>3. HandsWereFull'
    BY <1>3, <2>1, <2>2 DEF Select, IInv, HandsWereFull
  <2>4. HandsRun'
    BY <1>3, <1>0 DEF Select, TypeOK, IInv, HandsRun
  <2>5. QED
    BY <2>3, <2>4
<1>4. ASSUME NEW d \in Dispatch, NEW h \in Hook, NEW success \in BOOLEAN, Deliver(d, h, success)
      PROVE  HandsWereFull' /\ HandsRun'
  <2>1. \A e \in Dispatch : todo'[e] \subseteq todo[e]
    BY <1>4, <1>0, DeliverLists
  <2>2. row' = row /\ staleReader' = staleReader /\ locked' = locked /\ at' = at
    BY <1>4 DEF Deliver
  <2>3. HandsWereFull'
    BY <2>1, <2>2 DEF IInv, HandsWereFull
  <2>4. \A e \in Dispatch : updating'[e] \subseteq todo'[e]
    BY <1>4, <1>0, DeliverLists DEF IInv, HandsRun
  <2>5. HandsRun'
    BY <2>1, <2>2, <2>4 DEF IInv, HandsRun
  <2>6. QED
    BY <2>3, <2>5
<1>5. ASSUME NEW d \in Dispatch, Record(d)
      PROVE  HandsWereFull' /\ HandsRun'
  <2>1. \A e \in Dispatch : todo'[e] \cup locked'[e] \subseteq todo[e] \cup locked[e]
    BY <1>5, <1>0 DEF Record, TypeOK, IInv, HandsRun
  <2>2. HandsWereFull'
    BY <1>5, <2>1 DEF Record, IInv, HandsWereFull
  <2>3. HandsRun'
    BY <1>5, <2>1, <1>0 DEF Record, TypeOK, IInv, HandsRun
  <2>4. QED
    BY <2>2, <2>3
<1>6. ASSUME NEW d \in Dispatch, Leaves(d)
      PROVE  /\ HandsRun'
             /\ \A e \in Dispatch : /\ InHand(e)' = IF e = d THEN {} ELSE InHand(e)
  BY <1>6, <1>0 DEF Leaves, TypeOK, IInv, HandsRun
<1>7. ASSUME NEW d \in Dispatch, Commit(d)
      PROVE  HandsWereFull'
  <2>1. Leaves(d)
    BY <1>7 DEF Commit
  <2>2. ASSUME NEW h \in Hook, row'[h].status = "failed", NEW e \in Dispatch, h \in InHand(e)'
        PROVE  e \in staleReader'[h]
    <3>1. e # d /\ h \in InHand(e)
      BY <1>6, <2>1, <2>2
    <3>2. CASE h \in locked[d] /\ count[d][h] >= MAX_FAILURES
      BY <1>7, <3>1, <3>2 DEF Commit
    <3>3. CASE h \in locked[d] /\ ~(count[d][h] >= MAX_FAILURES)
      <4>1. row'[h] = Written(d, h) /\ staleReader'[h] = staleReader[h]
        BY <1>7, <3>3 DEF Commit
      <4>2. row[h].status = "failed"
        BY <4>1, <3>3, <2>2, <1>0, WrittenType
      <4>3. QED
        BY <4>1, <4>2, <3>1 DEF IInv, HandsWereFull
    <3>4. CASE h \notin locked[d]
      BY <1>7, <3>1, <3>4, <2>2 DEF Commit, IInv, HandsWereFull
    <3>5. QED
      BY <3>2, <3>3, <3>4
  <2>3. QED
    BY <2>2 DEF HandsWereFull
<1>8. ASSUME NEW d \in Dispatch, Abort(d) \/ Die(d)
      PROVE  Leaves(d) /\ HandsWereFull'
  <2>1. Leaves(d) /\ row' = row /\ staleReader' = staleReader
    BY <1>8 DEF Abort, Die
  <2>2. QED
    BY <2>1, <1>6 DEF IInv, HandsWereFull
<1>9. CASE UNCHANGED vars
  BY <1>9 DEF vars, IInv, HandsWereFull, HandsRun
<1>10. QED
  BY <1>1, <1>2, <1>3, <1>4, <1>5, <1>6, <1>7, <1>8, <1>9, NextCases DEF Commit

\* IInv holds in every reachable state.
THEOREM Inductive == Spec => []IInv
<1>1. IInv /\ [Next]_vars => IInv'
  BY NextTypeOK, NextCounts, NextHands DEF IInv
<1>2. QED
  BY InitIInv, <1>1, PTL DEF Spec

\* A hook fails only after enough of its deliveries did, and never carries
\* more failures than happened.
THEOREM CountsHaveFailures == Spec => []CountHasFailures
<1>1. IInv => CountHasFailures
  BY DEF IInv
<1>2. QED
  BY Inductive, <1>1, PTL

\* Only a dispatch that had the hook in hand when it was marked brings it back.
THEOREM Reactivation == Spec => ReactivatedByStaleReader
<1> DEFINE Back == \A h \in Hook : row[h].status = "failed" /\ row'[h].status = "active" =>
                       \E d \in staleReader[h] : at[d] = "running" /\ at'[d] = "ended"
<1>1. IInv /\ [Next]_vars => [Back]_vars
  <2> SUFFICES ASSUME IInv, Next,
                      NEW h \in Hook, row[h].status = "failed", row'[h].status = "active"
               PROVE  \E d \in staleReader[h] : at[d] = "running" /\ at'[d] = "ended"
    BY DEF vars
  <2> USE DEF calls, history
  <2>0. TypeOK
    BY DEF IInv
  <2>1. \E d \in Dispatch : Commit(d)
    BY NextCases, <2>0 DEF CreateWebhook, DeleteWebhook, CommitDelete, Select, Deliver, Record,
                           Abort, Die, TypeOK
  <2>2. PICK d \in Dispatch : Commit(d)
    BY <2>1
  <2>3. h \in locked[d]
    BY <2>2 DEF Commit
  <2>4. d \in staleReader[h]
    BY <2>3 DEF IInv, HandsWereFull, InHand
  <2>5. at[d] = "running" /\ at'[d] = "ended"
    BY <2>2, <2>0 DEF Commit, Leaves, TypeOK
  <2>6. QED
    BY <2>4, <2>5
<1>2. QED
  BY Inductive, <1>1, PTL DEF Spec, ReactivatedByStaleReader
-----------------------------------------------------------------------------
\* No hook is in hand before it exists, and none is listed twice.
HandsKnow ==
    /\ \A d \in Dispatch : todo[d] \cap locked[d] = {}
    /\ \A h \in Hook : row[h].status = "none" =>
          /\ streak[h] = 0 /\ \A d \in Dispatch : h \notin InHand(d)

\* A hook that never was in two hands: one dispatch at most has it, which
\* knows the count of the row, and the row counts the streak.
Serial(h) ==
    /\ \A d, e \in Dispatch : h \in InHand(d) /\ h \in InHand(e) => d = e
    /\ \A d \in Dispatch : h \in todo[d] \ updating[d] => count[d][h] = row[h].fails
    /\ \A d \in Dispatch : h \in updating[d] \cup locked[d] => count[d][h] \in {0, row[h].fails + 1}
    /\ \A d \in Dispatch : h \in InHand(d) => row[h].status \in {"active", "deleted"}
    /\ row[h].fails = streak[h]
    /\ Exists(h) => (row[h].status = "failed" <=> streak[h] >= MAX_FAILURES)

SInv == IInv /\ HandsKnow /\ \A h \in Hook : h \notin overlapped => Serial(h)

LEMMA InitSInv == Init => SInv
BY InitIInv, FailuresAssumption DEF Init, SInv, HandsKnow, Serial, InHand, Exists

\* Steps that leave the rows and the dispatches alone, or add a row.
LEMMA RouterSInv ==
    ASSUME SInv, TypeOK', NEW g \in Hook,
           \/ CommitDelete(g)
           \/ \E u \in User : DeleteWebhook(g, u)
           \/ \E u \in User, events \in SUBSET VALID_EVENTS : CreateWebhook(g, u, events)
    PROVE  HandsKnow' /\ \A h \in Hook : h \notin overlapped' => Serial(h)'
<1> USE DEF calls, history, InHand
<1>0. TypeOK
  BY DEF SInv, IInv
<1>1. CASE CommitDelete(g)
  BY <1>0, <1>1 DEF CommitDelete, TypeOK, SInv, HandsKnow, Serial, Exists
<1>2. ASSUME NEW u \in User, DeleteWebhook(g, u)
      PROVE  HandsKnow' /\ \A h \in Hook : h \notin overlapped' => Serial(h)'
  BY <1>2 DEF DeleteWebhook, SInv, HandsKnow, Serial, Exists
<1>3. ASSUME NEW u \in User, NEW events \in SUBSET VALID_EVENTS, CreateWebhook(g, u, events)
      PROVE  HandsKnow' /\ \A h \in Hook : h \notin overlapped' => Serial(h)'
  <2>1. /\ UNCHANGED <<calls, history>> /\ row[g].status = "none" /\ row'[g].status = "active"
        /\ row'[g].fails = 0 /\ \A h \in Hook \ {g} : row'[h] = row[h]
    BY <1>0, <1>3 DEF CreateWebhook, TypeOK
  <2>2. HandsKnow'
    BY <2>1 DEF SInv, HandsKnow
  <2>3. ASSUME NEW h \in Hook, h \notin overlapped
        PROVE  Serial(h)'
    <3>1. CASE h = g
      <4>1. streak[h] = 0 /\ \A d \in Dispatch : h \notin todo[d] /\ h \notin locked[d]
        BY <3>1, <2>1 DEF SInv, HandsKnow
      <4>2. \A d \in Dispatch : h \notin updating[d]
        BY <4>1 DEF SInv, IInv, HandsRun
      <4>3. QED
        BY <4>1, <4>2, <2>1, <3>1, FailuresAssumption DEF Serial, Exists
    <3>2. CASE h # g
      BY <3>2, <2>1, <2>3 DEF SInv, Serial, Exists
    <3>3. QED
      BY <3>1, <3>2
  <2>4. QED
    BY <2>1, <2>2, <2>3
<1>4. QED
  BY <1>1, <1>2, <1>3

LEMMA SelectSInv ==
    ASSUME SInv, TypeOK', NEW d \in Dispatch, NEW event \in VALID_EVENTS, NEW users \in SUBSET User,
           Select(d, event, users)
    PROVE  HandsKnow' /\ \A h \in Hook : h \notin overlapped' => Serial(h)'
<1> USE DEF InHand
<1>0. TypeOK
  BY DEF SInv, IInv
<1>1. /\ \A e \in Dispatch \ {d} : todo'[e] = todo[e] /\ count'[e] = count[e]
      /\ locked' = locked /\ updating' = updating /\ row' = row /\ streak' = streak
      /\ \A h \in todo'[d] : row[h].status = "active" /\ count'[d][h] = row[h].fails
      /\ overlapped \subseteq overlapped'
      /\ \A h \in todo'[d] : h \notin overlapped' => \A e \in Dispatch \ {d} : h \notin InHand(e)
  BY <1>0 DEF Select, TypeOK
<1>2. todo[d] = {} /\ locked[d] = {} /\ updating[d] = {}
  BY <1>0 DEF Select, SInv, IInv, HandsRun
<1>3. HandsKnow'
  BY <1>1, <1>2 DEF SInv, HandsKnow
<1>4. ASSUME NEW h \in Hook, h \notin overlapped'
      PROVE  Serial(h)'
  <2>1. Serial(h)
    BY <1>1, <1>4 DEF SInv
  <2>2. CASE h \in todo'[d]
    BY <2>1, <2>2, <1>1, <1>2, <1>4 DEF Serial, Exists
  <2>3. CASE h \notin todo'[d]
    BY <2>1, <2>3, <1>1, <1>2, <1>4 DEF Serial, Exists
  <2>4. QED
    BY <2>2, <2>3
<1>5. QED
  BY <1>3, <1>4

LEMMA DeliverSInv ==
    ASSUME SInv, TypeOK', NEW d \in Dispatch, NEW g \in Hook, NEW success \in BOOLEAN,
           Deliver(d, g, success)
    PROVE  HandsKnow' /\ \A h \in Hook : h \notin overlapped' => Serial(h)'
<1> USE DEF InHand
<1>0. TypeOK
  BY DEF SInv, IInv
<1>1. /\ \A e \in Dispatch : todo'[e] \subseteq todo[e]
      /\ locked' = locked /\ row' = row /\ streak' = streak /\ overlapped' = overlapped
  BY <1>0, DeliverLists DEF Deliver
<1>2. /\ \A e \in Dispatch, h \in Hook : e # d \/ h # g => count'[e][h] = count[e][h]
      /\ count'[d][g] = IF success THEN 0 ELSE count[d][g] + 1
  BY <1>0 DEF Deliver, TypeOK
<1>3. g \in todo[d] /\ updating[d] = {} /\ g \notin locked[d]
  BY DEF Deliver, SInv, HandsKnow
<1>4. /\ \A e \in Dispatch \ {d} : todo'[e] = todo[e] /\ updating'[e] = updating[e]
      /\ updating'[d] \subseteq {g}
      /\ g \in todo'[d] => g \in updating'[d]
  <2>1. CASE success /\ count[d][g] = 0
    BY <1>0, <2>1 DEF Deliver, TypeOK
  <2>2. CASE ~(success /\ count[d][g] = 0)
    BY <1>0, <2>2 DEF Deliver, TypeOK
  <2>3. QED
    BY <2>1, <2>2
<1>5. HandsKnow'
  BY <1>1 DEF SInv, HandsKnow
<1>6. ASSUME NEW h \in Hook, h \notin overlapped'
      PROVE  Serial(h)'
  <2>1. Serial(h)
    BY <1>1, <1>6 DEF SInv
  <2>2. ASSUME NEW e \in Dispatch
        PROVE  /\ h \in todo'[e] \ updating'[e] => count'[e][h] = row[h].fails
               /\ h \in updating'[e] \cup locked[e] => count'[e][h] \in {0, row[h].fails + 1}
    <3>1. CASE e = d /\ h = g
      BY <3>1, <2>1, <1>2, <1>3, <1>4 DEF Serial
    <3>2. CASE ~(e = d /\ h = g)
      <4>1. count'[e][h] = count[e][h]
        BY <3>2, <1>2
      <4>2. h \in updating'[e] => h \in updating[e]
        BY <3>2, <1>4
      <4>3. h \in todo'[e] \ updating'[e] => h \in todo[e] \ updating[e]
        BY <3>2, <1>1, <1>3, <1>4
      <4>4. QED
        BY <4>1, <4>2, <4>3, <2>1 DEF Serial
    <3>3. QED
      BY <3>1, <3>2
  <2>3. \A e \in Dispatch : h \in InHand(e)' => h \in InHand(e)
    BY <1>1
  <2>4. QED
    BY <2>1, <2>2, <2>3, <1>1 DEF Serial, Exists
<1>7. QED
  BY <1>5, <1>6

LEMMA RecordSInv ==
    ASSUME SInv, TypeOK', NEW d \in Dispatch, Record(d)
    PROVE  HandsKnow' /\ \A h \in Hook : h \notin overlapped' => Serial(h)'
<1> USE DEF InHand, history
<1>0. TypeOK
  BY DEF SInv, IInv
<1>1. /\ \A e \in Dispatch \ {d} : /\ todo'[e] = todo[e] /\ updating'[e] = updating[e]
                                   /\ locked'[e] = locked[e]
      /\ todo'[d] = todo[d] \ updating[d] /\ updating'[d] = {}
      /\ locked'[d] \subseteq locked[d] \cup updating[d]
      /\ count' = count /\ row' = row /\ streak' = streak /\ overlapped' = overlapped
      /\ updating[d] \subseteq todo[d]
  BY <1>0 DEF Record, TypeOK, SInv, IInv, HandsRun
<1>2. HandsKnow'
  BY <1>1 DEF SInv, HandsKnow
<1>3. ASSUME NEW h \in Hook, h \notin overlapped'
      PROVE  Serial(h)'
  <2>1. Serial(h)
    BY <1>1, <1>3 DEF SInv
  <2>2. \A e \in Dispatch : /\ h \in InHand(e)' => h \in InHand(e)
                            /\ h \in todo'[e] \ updating'[e] => h \in todo[e] \ updating[e]
                            /\ h \in updating'[e] \cup locked'[e] => h \in updating[e] \cup locked[e]
    BY <1>1
  <2>3. QED
    BY <2>1, <2>2, <1>1 DEF Serial, Exists
<1>4. QED
  BY <1>2, <1>3

LEMMA LeavesSInv ==
    ASSUME SInv, TypeOK', NEW d \in Dispatch, Commit(d) \/ Abort(d) \/ Die(d)
    PROVE  HandsKnow' /\ \A h \in Hook : h \notin overlapped' => Serial(h)'
<1> USE DEF InHand
<1>0. TypeOK
  BY DEF SInv, IInv
<1>1. /\ \A e \in Dispatch \ {d} : /\ todo'[e] = todo[e] /\ updating'[e] = updating[e]
                                   /\ locked'[e] = locked[e] /\ count'[e] = count[e]
      /\ todo'[d] = {} /\ updating'[d] = {} /\ locked'[d] = {} /\ overlapped' = overlapped
  BY <1>0 DEF Commit, Abort, Die, Leaves, TypeOK
<1>2. CASE UNCHANGED <<row, streak>>
  BY <1>1, <1>2 DEF SInv, HandsKnow, Serial, Exists
<1>3. CASE Commit(d)
  <2>1. ASSUME NEW h \in Hook, h \notin locked[d]
        PROVE  row'[h] = row[h] /\ streak'[h] = streak[h]
    BY <1>3, <2>1 DEF Commit
  <2>2. ASSUME NEW h \in Hook, h \in locked[d]
        PROVE  /\ row'[h] = Written(d, h)
               /\ streak'[h] = IF count[d][h] = 0 THEN 0 ELSE streak[h] + 1
    BY <1>3, <2>2 DEF Commit
  <2>3. ASSUME NEW h \in Hook, h \in locked[d]
        PROVE  row'[h].status # "none"
    BY <2>2, <2>3, <1>0, WrittenType DEF SInv, HandsKnow
  <2>4. HandsKnow'
    BY <1>1, <2>1, <2>3 DEF SInv, HandsKnow
  <2>5. ASSUME NEW h \in Hook, h \notin overlapped'
        PROVE  Serial(h)'
    <3>1. Serial(h)
      BY <2>5, <1>1 DEF SInv
    <3>2. CASE h \in locked[d]
      <4>1. \A e \in Dispatch : h \notin InHand(e)' /\ h \notin updating'[e]
        BY <1>1, <3>1, <3>2 DEF Serial, SInv, IInv, HandsRun
      <4>2. /\ count[d][h] \in {0, row[h].fails + 1} /\ row[h].fails = streak[h]
            /\ row[h].status \in {"active", "deleted"} /\ streak[h] \in Nat
        BY <3>1, <3>2, <1>0 DEF Serial, TypeOK
      <4>3. row'[h].fails = streak'[h]
        BY <4>2, <2>2, <3>2, <1>0, WrittenType
      <4>4. row'[h].status = "failed" <=> streak'[h] >= MAX_FAILURES
        BY <4>2, <2>2, <3>2, <1>0, WrittenType, FailuresAssumption
      <4>5. QED
        BY <4>1, <4>3, <4>4 DEF Serial
    <3>3. CASE h \notin locked[d]
      BY <3>1, <3>3, <2>1, <1>1 DEF Serial, Exists
    <3>4. QED
      BY <3>2, <3>3
  <2>6. QED
    BY <2>4, <2>5
<1>4. QED
  BY <1>2, <1>3 DEF Abort, Die

\* As long as no two dispatches had a hook in hand, its row counts its streak
\* and it is failed exactly from MAX_FAILURES on.
THEOREM SerialExact == Spec => []SerialCountIsExact
<1>1. SInv /\ [Next]_vars => SInv'
  <2> SUFFICES ASSUME SInv, [Next]_vars PROVE SInv'
    OBVIOUS
  <2>1. IInv' /\ TypeOK'
    BY NextTypeOK, NextCounts, NextHands DEF SInv, IInv
  <2>2. CASE UNCHANGED vars
    BY <2>1, <2>2 DEF vars, calls, history, SInv, HandsKnow, Serial, InHand, Exists
  <2>3. CASE Next
    <3>1. ASSUME NEW g \in Hook,
                 \/ CommitDelete(g)
                 \/ \E u \in User : DeleteWebhook(g, u)
                 \/ \E u \in User, events \in SUBSET VALID_EVENTS : CreateWebhook(g, u, events)
          PROVE  SInv'
      BY <3>1, <2>1, RouterSInv DEF SInv
    <3>2. ASSUME NEW d \in Dispatch, NEW event \in VALID_EVENTS, NEW users \in SUBSET User,
                 Select(d, event, users)
          PROVE  SInv'
      BY <3>2, <2>1, SelectSInv DEF SInv
    <3>3. ASSUME NEW d \in Dispatch, NEW g \in Hook, NEW success \in BOOLEAN, Deliver(d, g, success)
          PROVE  SInv'
      BY <3>3, <2>1, DeliverSInv DEF SInv
    <3>4. ASSUME NEW d \in Dispatch, Record(d) \/ Commit(d) \/ Abort(d) \/ Die(d)
          PROVE  SInv'
      BY <3>4, <2>1, RecordSInv, LeavesSInv DEF SInv
    <3>5. QED
      BY <2>3, <3>1, <3>2, <3>3, <3>4, NextCases
  <2>4. QED
    BY <2>2, <2>3
<1>2. SInv => SerialCountIsExact
  BY DEF SInv, Serial, SerialCountIsExact
<1>3. QED
  BY InitSInv, <1>1, <1>2, PTL DEF Spec
=============================================================================
