------------------------------- MODULE Webhooks -------------------------------
(***************************************************************************)
(* api/webhooks: users of a paying tier register hooks for events          *)
(* (router.py), dispatch_event (dispatcher.py) posts an event to every     *)
(* active hook that listens for it and counts the failures of each.  At    *)
(* MAX_FAILURES in a row a hook is marked failed and left alone.           *)
(*                                                                         *)
(* A dispatch is one transaction: it reads the hooks, awaits one delivery  *)
(* after the other, and writes after each what it makes of the count it    *)
(* READ; the row of a written hook stays locked until the one commit at    *)
(* the end.  Dispatches and deletions interleave at these awaits.  In      *)
(* the repository only tests call dispatch_event so far; as it takes any   *)
(* session, calls of several requests overlap.                             *)
(***************************************************************************)
EXTENDS Naturals

CONSTANTS
    Hook,          \* ids create_webhook may draw
    User,          \* users with an API key of scope webhooks:write
    Paying,        \* those of tier pro or enterprise
    VALID_EVENTS,  \* event types
    Dispatch,      \* calls of dispatch_event, each made once
    MAX_FAILURES   \* failures in a row that end a hook

ASSUME PayingAssumption == Paying \subseteq User
ASSUME FailuresAssumption == MAX_FAILURES \in Nat \ {0}

VARIABLES
    row,         \* row[h]: the committed row of hook h
    deleting,    \* hooks with an uncommitted DELETE
    at,          \* at[d]: whether dispatch d runs
    todo,        \* todo[d]: hooks d selected and has not finished
    updating,    \* updating[d]: the hook whose UPDATE d awaits, if it does
    count,       \* count[d][h]: failure_count as d read it, then as d writes it
    locked,      \* locked[d]: rows d has updated and not committed
    failures,    \* history: failed deliveries to each hook
    streak,      \* history: committed failures of a hook since its last recovery
    overlapped,  \* history: hooks two dispatches had in hand together
    staleReader  \* history: dispatches that had the hook in hand when it was marked

history == <<failures, streak, overlapped, staleReader>>
calls == <<at, todo, updating, count, locked>>
vars == <<row, deleting, calls, history>>

Status == {"none", "active", "failed", "deleted"}

TypeOK ==
    /\ row \in [Hook -> [status : Status, fails : Nat, user : User, events : SUBSET VALID_EVENTS]]
    /\ deleting \subseteq Hook
    /\ at \in [Dispatch -> {"idle", "running", "ended"}]
    /\ todo \in [Dispatch -> SUBSET Hook]
    /\ updating \in [Dispatch -> SUBSET Hook]
    /\ count \in [Dispatch -> [Hook -> Nat]]
    /\ locked \in [Dispatch -> SUBSET Hook]
    /\ failures \in [Hook -> Nat]
    /\ streak \in [Hook -> Nat]
    /\ overlapped \subseteq Hook
    /\ staleReader \in [Hook -> SUBSET Dispatch]

Init ==
    /\ row \in {[h \in Hook |-> [status |-> "none", fails |-> 0, user |-> u, events |-> {}]] :
                  u \in User}
    /\ deleting = {}
    /\ at = [d \in Dispatch |-> "idle"]
    /\ todo = [d \in Dispatch |-> {}]
    /\ updating = [d \in Dispatch |-> {}]
    /\ count = [d \in Dispatch |-> [h \in Hook |-> 0]]
    /\ locked = [d \in Dispatch |-> {}]
    /\ failures = [h \in Hook |-> 0]
    /\ streak = [h \in Hook |-> 0]
    /\ overlapped = {}
    /\ staleReader = [h \in Hook |-> {}]

InHand(d) == todo[d] \cup locked[d]
Exists(h) == row[h].status \in {"active", "failed"}
-----------------------------------------------------------------------------
\* router.py

\* Mutant: an id in use is registered anew.
CreateAgain(h, u, events) ==
    /\ row[h].status # "deleted"
    /\ u \in Paying
    /\ row' = [row EXCEPT ![h] = [status |-> "active", fails |-> 0, user |-> u, events |-> events]]
    /\ UNCHANGED <<deleting, calls, history>>

CreateWebhook(h, u, events) ==
    /\ row[h].status = "none"
    /\ u \in Paying
    /\ row' = [row EXCEPT ![h] = [status |-> "active", fails |-> 0, user |-> u, events |-> events]]
    /\ UNCHANGED <<deleting, calls, history>>

\* The DELETE of the owner waits for a dispatch that wrote the row.
DeleteWebhook(h, u) ==
    /\ Exists(h) /\ row[h].user = u
    /\ h \notin deleting /\ \A d \in Dispatch : h \notin locked[d]
    /\ deleting' = deleting \cup {h}
    /\ UNCHANGED <<row, calls, history>>

CommitDelete(h) ==
    /\ h \in deleting
    /\ row' = [row EXCEPT ![h].status = "deleted"]
    /\ deleting' = deleting \ {h}
    /\ UNCHANGED <<calls, history>>
-----------------------------------------------------------------------------
\* dispatch_event for one event, to the hooks of all users or of one.

Select(d, event, users) ==
    LET chosen == {h \in Hook : /\ row[h].status = "active" /\ row[h].user \in users
                                /\ event \in row[h].events} IN
    /\ at[d] = "idle"
    /\ at' = [at EXCEPT ![d] = "running"]
    /\ todo' = [todo EXCEPT ![d] = chosen]
    /\ count' = [count EXCEPT ![d] = [h \in Hook |-> IF h \in chosen THEN row[h].fails ELSE 0]]
    /\ overlapped' = overlapped \cup {h \in chosen : \E e \in Dispatch \ {d} : h \in InHand(e)}
    /\ UNCHANGED <<row, deleting, updating, locked, failures, streak, staleReader>>

\* _deliver, one attempt; the SELECT has no ORDER BY.
Deliver(d, h, success) ==
    /\ h \in todo[d] /\ updating[d] = {}
    /\ failures' = IF success THEN failures ELSE [failures EXCEPT ![h] = @ + 1]
    /\ count' = [count EXCEPT ![d][h] = IF success THEN 0 ELSE @ + 1]
    /\ IF success /\ count[d][h] = 0
       THEN /\ todo' = [todo EXCEPT ![d] = @ \ {h}]
            /\ UNCHANGED updating
       ELSE /\ updating' = [updating EXCEPT ![d] = {h}]
            /\ UNCHANGED todo
    /\ UNCHANGED <<row, deleting, at, locked, streak, overlapped, staleReader>>

Waits(d, e) == d # e /\ updating[d] \cap locked[e] # {}

\* The UPDATE takes the lock of the row; it finds no row that was deleted.
Record(d) ==
    /\ updating[d] # {}
    /\ updating[d] \cap deleting = {} /\ \A e \in Dispatch : ~Waits(d, e)
    /\ todo' = [todo EXCEPT ![d] = @ \ updating[d]]
    /\ locked' = [locked EXCEPT ![d] = @ \cup {h \in updating[d] : Exists(h)}]
    /\ updating' = [updating EXCEPT ![d] = {}]
    /\ UNCHANGED <<row, deleting, at, count, history>>

WrittenLate(d, h) ==
    LET c == count[d][h] IN
    [row[h] EXCEPT !.fails = c,
                   !.status = IF c = 0 THEN @ ELSE IF c > MAX_FAILURES THEN "failed" ELSE "active"]

\* A written count of 0 is that of a success, which leaves the status alone.
Written(d, h) ==
    LET c == count[d][h] IN
    [row[h] EXCEPT !.fails = c,
                   !.status = IF c = 0 THEN @ ELSE IF c >= MAX_FAILURES THEN "failed" ELSE "active"]

\* Mutant: the transaction is left open.
LeavesOpen(d) ==
    /\ at' = [at EXCEPT ![d] = "ended"]
    /\ todo' = [todo EXCEPT ![d] = {}]
    /\ updating' = [updating EXCEPT ![d] = {}]
    /\ count' = [count EXCEPT ![d] = [h \in Hook |-> 0]]
    /\ UNCHANGED <<locked, deleting, failures, overlapped>>

Leaves(d) ==
    /\ at' = [at EXCEPT ![d] = "ended"]
    /\ todo' = [todo EXCEPT ![d] = {}]
    /\ locked' = [locked EXCEPT ![d] = {}]
    /\ updating' = [updating EXCEPT ![d] = {}]
    /\ count' = [count EXCEPT ![d] = [h \in Hook |-> 0]]
    /\ UNCHANGED <<deleting, failures, overlapped>>

Commit(d) ==
    /\ at[d] = "running" /\ todo[d] = {}
    /\ row' = [h \in Hook |-> IF h \in locked[d] THEN Written(d, h) ELSE row[h]]
    /\ streak' = [h \in Hook |-> IF h \notin locked[d] THEN streak[h]
                                 ELSE IF count[d][h] = 0 THEN 0 ELSE streak[h] + 1]
    /\ staleReader' = [h \in Hook |->
          IF h \in locked[d] /\ count[d][h] >= MAX_FAILURES
          THEN {e \in Dispatch \ {d} : h \in InHand(e)} ELSE staleReader[h]]
    /\ Leaves(d)

\* Postgres ends one of the dispatches that wait for each other; the exception
\* leaves dispatch_event and what it wrote is rolled back.
Deadlocked(d) ==
    \E circle \in SUBSET Dispatch :
        /\ d \in circle
        /\ \A e \in circle : (\E f \in circle : Waits(e, f)) /\ (\E f \in circle : Waits(f, e))

Abort(d) ==
    /\ Deadlocked(d)
    /\ Leaves(d)
    /\ UNCHANGED <<row, streak, staleReader>>

\* The process of the dispatch dies or its caller is cancelled.
Die(d) ==
    /\ at[d] = "running"
    /\ Leaves(d)
    /\ UNCHANGED <<row, streak, staleReader>>
-----------------------------------------------------------------------------
Advance(d) ==
    \/ \E h \in Hook, success \in BOOLEAN : Deliver(d, h, success)
    \/ Record(d) \/ Commit(d) \/ Abort(d)

Next ==
    \/ \E h \in Hook, u \in User :
          \/ \E events \in SUBSET VALID_EVENTS : CreateWebhook(h, u, events)
          \/ DeleteWebhook(h, u)
    \/ \E h \in Hook : CommitDelete(h)
    \/ \E d \in Dispatch :
          \/ \E event \in VALID_EVENTS, users \in {User} \cup {{u} : u \in User} :
                Select(d, event, users)
          \/ Advance(d) \/ Die(d)

Spec == Init /\ [][Next]_vars

\* A delivery times out after 10 s, Postgres answers every statement and finds
\* every deadlock; a DELETE is committed at once.
FairSpec ==
    /\ Spec
    /\ \A d \in Dispatch : WF_vars(Advance(d))
    /\ \A h \in Hook : WF_vars(CommitDelete(h))
-----------------------------------------------------------------------------
(* A hook is marked failed only after MAX_FAILURES deliveries to it failed,
   and never carries more failures than happened, whatever stale counts
   overlapping dispatches write (dispatcher.py:66-72). *)
CountHasFailures ==
    \A h \in Hook : /\ row[h].fails <= failures[h]
                    /\ row[h].status = "failed" => failures[h] >= MAX_FAILURES

(* Without overlap the count is exact: the committed failures since the last
   recovery, and the hook is failed exactly from MAX_FAILURES of them on.  So
   every lost update is the work of two dispatches with the hook in hand at
   the same time (dispatcher.py:41 against :68). *)
SerialCountIsExact ==
    \A h \in Hook : Exists(h) /\ h \notin overlapped =>
        /\ row[h].fails = streak[h]
        /\ row[h].status = "failed" <=> streak[h] >= MAX_FAILURES

(* A failed hook comes back only through a dispatch that had it in hand when
   it was marked and now writes its older count (dispatcher.py:67). *)
ReactivatedByStaleReader ==
    [][\A h \in Hook : row[h].status = "failed" /\ row'[h].status = "active" =>
           \E d \in staleReader[h] : at[d] = "running" /\ at'[d] = "ended"]_vars

(* Every dispatch ends, also when dispatches wait for each other's rows, which
   they lock in the order their SELECTs happened to return (dispatcher.py:41,
   :76). *)
DispatchEnds == \A d \in Dispatch : at[d] = "running" ~> at[d] = "ended"
=============================================================================
