------------------------ MODULE OrderServiceProofs ------------------------
(***************************************************************************)
(* Proofs about OrderService for every set of requests, users and quotes,  *)
(* whatever amounts the quotes are worth, sign and leave in a row.         *)
(***************************************************************************)
EXTENDS OrderService, TLAPS

\* The tables of RiskGuard give every tier a fee.
LEMMA TermsAreAsked ==
    ASSUME NEW u \in User, NEW q \in Quote, TypeOK
    PROVE  TermsFor(u, q) \in Asked
<1>1. tier[u] \in Tier
  BY DEF TypeOK
<1>2. GetFeeRateBps(tier[u]) \in Nat
  BY <1>1 DEF GetFeeRateBps, FEE_RATE_BPS, Tier
<1>3. QED
  BY <1>2 DEF TermsFor, Asked

\* What is asked for converts to what is signed and to what a row shows, of one deal.
LEMMA Conversions ==
    ASSUME NEW asked \in Asked
    PROVE  Struct(asked) \in Terms /\ Columns(asked) \in Listed /\ SameDeal(Columns(asked), Struct(asked))
<1>1. asked.quote \in Quote /\ asked.fee \in Nat /\ ToUnits[asked.quote] \in Nat
  BY QuoteAssumption DEF Asked
<1>2. QED
  BY <1>1 DEF Struct, Columns, Terms, Listed, SameDeal

LEMMA NothingAsked == NotAsked \in Asked /\ NoTerms \in Terms /\ NotListed \in Listed
<1>1. NotAsked \in Asked
  BY QuoteAssumption DEF NotAsked, Asked
<1>2. QED
  BY <1>1, Conversions DEF NoTerms, NotListed

\* Init establishes the types.
LEMMA InitTypeOK == Init => TypeOK
BY NothingAsked DEF Init, TypeOK, Request, ExchangeOrder, Row, Kind, Tier, Status

\* Every step preserves the types.
LEMMA NextTypeOK == TypeOK /\ [Next]_vars => TypeOK'
<1> SUFFICES ASSUME TypeOK, [Next]_vars PROVE TypeOK'
  OBVIOUS
<1> USE DEF Goes, Running, Outcome
<1>1. ASSUME NEW r \in Req, NEW u \in User, NEW q \in Quote, PlaceOrder(r, u, q)
      PROVE  TypeOK'
  <2>1. TermsFor(u, q) \in Asked /\ NotAsked \in Asked
    BY TermsAreAsked, NothingAsked
  <2>2. req' \in [Req -> Request]
    BY <1>1, <2>1 DEF PlaceOrder, Starts, TypeOK, Request, Kind
  <2>3. QED
    BY <1>1, <2>2 DEF PlaceOrder, TypeOK
<1>2. ASSUME NEW r \in Req, NEW u \in User, NEW q \in Quote, BuildOrder(r, u, q)
      PROVE  TypeOK'
  <2>1. TermsFor(u, q) \in Asked /\ NotAsked \in Asked
    BY TermsAreAsked, NothingAsked
  <2>2. req' \in [Req -> Request]
    BY <1>2, <2>1 DEF BuildOrder, Starts, TypeOK, Request, Kind
  <2>3. QED
    BY <1>2, <2>2 DEF BuildOrder, TypeOK
<1>3. ASSUME NEW r \in Req, NEW b \in Req, NEW u \in User, SubmitOrder(r, u, b)
      PROVE  TypeOK'
  <2>1. req' \in [Req -> Request]
    <3>1. NotAsked \in Asked /\ req[b].terms \in Asked
      BY NothingAsked DEF TypeOK, Request
    <3>2. PICK t \in Asked : req' = [req EXCEPT ![r] = [kind |-> "submit", user |-> u,
                                                        terms |-> t, targets |-> {b}]]
      BY <1>3, <3>1 DEF SubmitOrder, Starts
    <3>3. [kind |-> "submit", user |-> u, terms |-> t, targets |-> {b}] \in Request
      BY DEF Request, Kind
    <3>4. QED
      BY <3>2, <3>3 DEF TypeOK
  <2>2. QED
    BY <1>3, <2>1 DEF SubmitOrder, TypeOK
<1>4. ASSUME NEW r \in Req, NEW t \in Req, NEW u \in User, CancelOrder(r, u, t)
      PROVE  TypeOK'
  <2>1. req' \in [Req -> Request]
    BY <1>4, NothingAsked DEF CancelOrder, Starts, TypeOK, Request, Kind
  <2>2. QED
    BY <1>4, <2>1 DEF CancelOrder, TypeOK
<1>5. ASSUME NEW r \in Req, NEW u \in User, CancelAllOpen(r, u)
      PROVE  TypeOK'
  <2>1. OpenOrders(u) \subseteq Req
    BY DEF OpenOrders
  <2>2. req' \in [Req -> Request]
    BY <1>5, <2>1, NothingAsked DEF CancelAllOpen, Starts, TypeOK, Request, Kind
  <2>3. QED
    BY <1>5, <2>1, <2>2 DEF CancelAllOpen, TypeOK
<1>6. ASSUME NEW r \in Req, VerifyAndDelete(r)
      PROVE  TypeOK'
  BY <1>6 DEF VerifyAndDelete, TypeOK
<1>7. ASSUME NEW r \in Req, PostOrder(r)
      PROVE  TypeOK'
  <2>1. [status |-> "live", terms |-> Struct(req[r].terms)] \in ExchangeOrder
    BY Conversions DEF TypeOK, Request, ExchangeOrder
  <2>2. QED
    BY <1>7, <2>1 DEF PostOrder, TypeOK
<1>8. ASSUME NEW r \in Req, Persist(r)
      PROVE  TypeOK'
  <2>1. [status |-> "OPEN", owner |-> req[r].user,
         exid |-> r \in gotId, terms |-> Columns(req[r].terms)] \in Row
    BY Conversions DEF TypeOK, Request, Row, Status
  <2>2. QED
    BY <1>8, <2>1 DEF Persist, TypeOK
<1>9. ASSUME NEW t \in Req
      PROVE  Withdrawn(t) \in [Req -> ExchangeOrder]
  BY DEF Withdrawn, TypeOK, ExchangeOrder
<1>10. ASSUME NEW targets \in SUBSET Req
       PROVE  Cancelled(targets) \in [Req -> Row]
  BY DEF Cancelled, TypeOK, Row, Status
<1>11. ASSUME NEW r \in Req, CancelAtExchange(r)
       PROVE  TypeOK'
  <2>1. req[r].targets \subseteq Req
    BY DEF TypeOK, Request
  <2>2. QED
    BY <1>9, <1>11, <2>1 DEF CancelAtExchange, TypeOK
<1>12. ASSUME NEW r \in Req, CommitCancel(r)
       PROVE  TypeOK'
  <2>1. req[r].targets \subseteq Req
    BY DEF TypeOK, Request
  <2>2. QED
    BY <1>10, <1>12, <2>1 DEF CommitCancel, TypeOK
<1>13. ASSUME NEW r \in Req, NEW t \in Req, SweepOne(r, t)
       PROVE  TypeOK'
  BY <1>9, <1>13 DEF SweepOne, TypeOK
<1>14. ASSUME NEW r \in Req, CommitSweep(r)
       PROVE  TypeOK'
  <2>1. req[r].targets \subseteq Req
    BY DEF TypeOK, Request
  <2>2. QED
    BY <1>10, <1>14, <2>1 DEF CommitSweep, TypeOK
<1>15. ASSUME NEW r \in Req, Die(r) \/ ExpireKey(r)
       PROVE  TypeOK'
  BY <1>15 DEF Die, ExpireKey, TypeOK
<1>16. ASSUME NEW r \in Req, Fill(r)
       PROVE  TypeOK'
  BY <1>16 DEF Fill, TypeOK, ExchangeOrder
<1>17. ASSUME NEW u \in User, NEW new \in Tier, UpgradeTier(u, new)
       PROVE  TypeOK'
  BY <1>17 DEF UpgradeTier, TypeOK
<1>18. CASE UNCHANGED vars
  BY <1>18 DEF vars, TypeOK
<1>19. QED
  BY <1>1, <1>2, <1>3, <1>4, <1>5, <1>6, <1>7, <1>8, <1>11, <1>12, <1>13, <1>14,
     <1>15, <1>16, <1>17, <1>18 DEF Next, Step

\* The state of the order service always has the types TypeOK gives it.
THEOREM TypeCorrect == Spec => []TypeOK
BY InitTypeOK, NextTypeOK, PTL DEF Spec
-----------------------------------------------------------------------------
(***************************************************************************)
(* The inductive invariant.  The properties of OrderService relate an      *)
(* outcome to the exchange and the table; to survive a step they need what *)
(* each await of a handler has established so far.                         *)
(***************************************************************************)

\* What a handler has done by the time it is suspended at an await.
Standing(r) ==
    /\ pc[r] = "idle" => /\ req[r].kind = "none" /\ r \notin redis
                         /\ exch[r].status = "none" /\ ~Recorded(r)
                         /\ todo[r] = {} /\ req[r].targets = {}
    /\ pc[r] = "verifying" => req[r].kind = "submit"
    /\ pc[r] \in {"verifying", "posting"} =>
           Posts(r) /\ exch[r].status = "none" /\ ~Recorded(r)
    /\ pc[r] = "persisting" => Posts(r) /\ exch[r].status # "none" /\ ~Recorded(r)
    /\ pc[r] \in {"cancelling", "committing"} => req[r].kind = "cancel"
    /\ req[r].kind = "cancel" => \A s, t \in req[r].targets : s = t
    /\ pc[r] = "sweeping" => req[r].kind = "cancelAll"

\* A row stands for an order the exchange holds; each has what was asked for, converted its way.
Listing(r) ==
    /\ Recorded(r) => exch[r].status # "none"
    /\ Recorded(r) => row[r].terms = Columns(req[r].terms)
    /\ exch[r].status # "none" => Posts(r) /\ exch[r].terms = Struct(req[r].terms)
    /\ exch[r].status = "cancelled" => Recorded(r)

\* What the quote is worth passed the limit of the tier the fee belongs to.
Sound(asked) ==
    \E t \in Tier : asked.fee = GetFeeRateBps(t) /\ ValidateOrderSize(t, Worth[asked.quote])

\* The handler of a submit is past redis.delete.
PastDelete(r) == pc[r] \in {"posting", "persisting"} \/ exch[r].status # "none"

InHand(r) == pc[r] \in {"verifying", "posting", "persisting"} \/ exch[r].status # "none"

\* Terms in hand, at the exchange or in Redis are sound, and a submit has them
\* from a payload of its own user.
Carrying(r) ==
    /\ InHand(r) \/ r \in redis => Sound(req[r].terms)
    /\ r \in redis => req[r].kind = "build"
    /\ req[r].kind = "submit" /\ InHand(r) =>
           \A b \in req[r].targets : /\ req[b].kind = "build"
                                     /\ req[b].user = req[r].user
                                     /\ req[b].terms = req[r].terms
    /\ req[r].kind = "submit" /\ PastDelete(r) => req[r].targets \cap redis = {}

\* A cancel works on rows that exist, and what it has closed stays closed.
Closing(r) ==
    /\ pc[r] \in {"cancelling", "committing", "sweeping"} \/ (Cancels(r) /\ pc[r] = "ok") =>
           \A t \in req[r].targets : Recorded(t) /\ row[t].owner = req[r].user
    /\ req[r].kind = "cancel" /\ pc[r] \in {"committing", "ok"} =>
           \A t \in req[r].targets : row[t].exid => exch[t].status # "live"
    /\ req[r].kind = "cancelAll" /\ pc[r] = "ok" =>
           \A t \in req[r].targets : row[t].status = "CANCELLED"
    /\ todo[r] \subseteq req[r].targets

IInv ==
    /\ \A r \in Req : Standing(r) /\ Listing(r) /\ Carrying(r) /\ Closing(r)
    /\ AckedOrderIsRecorded
    /\ DivergenceHasCause

\* What no step takes back: what a request asked for, a row once inserted, an
\* order once at the exchange.
Forward(t) ==
    /\ req[t].kind # "none" => req'[t] = req[t] /\ (t \in redis' => t \in redis)
    /\ Recorded(t) => /\ Recorded(t)'
                      /\ row'[t].exid = row[t].exid
                      /\ row'[t].terms = row[t].terms
                      /\ row'[t].owner = row[t].owner
                      /\ row'[t].status \in {row[t].status, "CANCELLED"}
    /\ exch[t].status # "none" =>
           /\ exch'[t].status # "none"
           /\ exch'[t].terms = exch[t].terms
           /\ exch'[t].status = "live" => exch[t].status = "live"
           /\ exch'[t].status = "cancelled" => exch[t].status = "cancelled" \/ Recorded(t)

\* What a step leaves alone in a request that does not take it.
Bystander(q) ==
    /\ pc'[q] = pc[q] /\ req'[q] = req[q] /\ todo'[q] = todo[q]
    /\ q \in redis' => q \in redis
    /\ exch[q].status = "none" => exch'[q].status = "none"
    /\ ~Recorded(q) => ~Recorded(q)'

Acked(r) == Posts(r) /\ pc[r] = "ok" => Recorded(r) /\ exch[r].status # "none"

Pending == {"committing", "sweeping", "error", "dead"}

\* After the step, an order closed at the exchange with an open row was so
\* before, and r is not the cancel to blame or stays as it is, or r is a
\* cancel of it that can be blamed now.
Blame(r, t) ==
    exch'[t].status = "cancelled" /\ row'[t].status = "OPEN" =>
        \/ /\ exch[t].status = "cancelled" /\ row[t].status = "OPEN"
           /\ Cancels(r) /\ t \in req[r].targets => Bystander(r)
        \/ /\ req'[r] = req[r] /\ Cancels(r) /\ t \in req[r].targets
           /\ pc'[r] \in Pending

\* A step of others keeps every part of the invariant at q.
LEMMA BystanderKeeps ==
    ASSUME TypeOK, IInv, \A t \in Req : Forward(t), NEW q \in Req, Bystander(q)
    PROVE  Standing(q)' /\ Listing(q)' /\ Carrying(q)' /\ Closing(q)' /\ Acked(q)'
<1>1. Standing(q) /\ Listing(q) /\ Carrying(q) /\ Closing(q) /\ Acked(q)
  BY DEF IInv, AckedOrderIsRecorded, Acked
<1>2. Standing(q)'
  BY <1>1 DEF Standing, Bystander, Forward, Posts, Recorded
<1>3. Listing(q)'
  BY <1>1 DEF Listing, Bystander, Forward, Posts, Recorded
<1>4. Carrying(q)'
  BY <1>1 DEF Carrying, PastDelete, InHand, Sound, Bystander, Forward, TypeOK, Request
<1>5. Closing(q)'
  <2>1. \A t \in req[q].targets : t \in Req
    BY DEF TypeOK, Request
  <2>2. \A t \in Req : Listing(t)
    BY DEF IInv
  <2>3. QED
    BY <1>1, <2>1, <2>2 DEF Closing, Bystander, Forward, Cancels, Recorded, Listing
<1>6. Acked(q)'
  BY <1>1 DEF Acked, Bystander, Forward, Posts, Recorded
<1>7. QED
  BY <1>2, <1>3, <1>4, <1>5, <1>6

\* A step of r keeps the invariant when it keeps it at r and leaves no order
\* closed at the exchange without a cancel to blame.
LEMMA StepKeeps ==
    ASSUME TypeOK, IInv, NEW r \in Req,
           \A t \in Req : Forward(t),
           \A q \in Req \ {r} : Bystander(q),
           Standing(r)', Listing(r)', Carrying(r)', Closing(r)', Acked(r)',
           \A t \in Req : Blame(r, t)
    PROVE  IInv'
<1>1. \A q \in Req : Standing(q)' /\ Listing(q)' /\ Carrying(q)' /\ Closing(q)' /\ Acked(q)'
  BY BystanderKeeps
<1>2. DivergenceHasCause'
  <2>1. SUFFICES ASSUME NEW t \in Req, exch'[t].status = "cancelled", row'[t].status = "OPEN"
                 PROVE  \E q \in Req : /\ Cancels(q)' /\ t \in req'[q].targets
                                       /\ pc'[q] \in Pending
    BY DEF DivergenceHasCause, Pending
  <2>2. Blame(r, t)
    OBVIOUS
  <2>3. CASE req'[r] = req[r] /\ Cancels(r) /\ t \in req[r].targets /\ pc'[r] \in Pending
    BY <2>3 DEF Cancels
  <2>4. CASE /\ exch[t].status = "cancelled" /\ row[t].status = "OPEN"
             /\ Cancels(r) /\ t \in req[r].targets => Bystander(r)
    <3>1. PICK q \in Req : Cancels(q) /\ t \in req[q].targets /\ pc[q] \in Pending
      BY <2>4 DEF IInv, DivergenceHasCause, Pending
    <3>2. Bystander(q)
      BY <2>4, <3>1
    <3>3. QED
      BY <3>1, <3>2 DEF Bystander, Cancels
  <2>5. QED
    BY <2>1, <2>2, <2>3, <2>4 DEF Blame
<1>3. QED
  BY <1>1, <1>2 DEF IInv, AckedOrderIsRecorded, Acked

\* Withdrawn changes nothing but the status of one live order.
LEMMA WithdrawnChanges ==
    ASSUME TypeOK, NEW t \in Req, NEW q \in Req
    PROVE  /\ Withdrawn(t)[q].terms = exch[q].terms
           /\ Withdrawn(t)[q].status =
                IF q = t /\ exch[q].status = "live" THEN "cancelled" ELSE exch[q].status
BY DEF Withdrawn, TypeOK, ExchangeOrder

\* Cancelled changes nothing but the status of its targets.
LEMMA CancelledChanges ==
    ASSUME TypeOK, NEW targets, NEW q \in Req
    PROVE  /\ Cancelled(targets)[q].terms = row[q].terms
           /\ Cancelled(targets)[q].exid = row[q].exid
           /\ Cancelled(targets)[q].owner = row[q].owner
           /\ Cancelled(targets)[q].status =
                IF q \in targets THEN "CANCELLED" ELSE row[q].status
BY DEF Cancelled, TypeOK, Row

\* place_order: terms are taken in hand only when the size check passed.
LEMMA PlaceOrderKeeps ==
    ASSUME NEW r \in Req, NEW u \in User, NEW a \in Quote, TypeOK, IInv, PlaceOrder(r, u, a)
    PROVE  IInv'
<1>1. Standing(r) /\ Listing(r) /\ Carrying(r) /\ Closing(r) /\ Acked(r)
  BY DEF IInv, AckedOrderIsRecorded, Acked
<1> USE DEF PlaceOrder, Starts, Goes, TermsFor, TypeOK, Request, ExchangeOrder, Row
<1>2. ASSUME NEW q \in Req PROVE Forward(q)
  BY <1>1 DEF Standing, Forward, Recorded
<1>3. ASSUME NEW q \in Req \ {r} PROVE Bystander(q)
  BY DEF Bystander, Recorded
<1>4. Standing(r)'
  BY <1>1 DEF Standing, Posts, Recorded
<1>5. Listing(r)'
  BY <1>1 DEF Standing, Listing, Posts, Recorded
<1>6. Carrying(r)'
  <2>1. CASE ValidateOrderSize(tier[u], Worth[a])
    <3>1. req'[r] = [kind |-> "place", user |-> u, terms |-> TermsFor(u, a), targets |-> {}]
      BY <2>1
    <3>2. Sound(TermsFor(u, a))
      BY <2>1 DEF Sound
    <3>3. r \notin redis' \/ req'[r].kind = "build"
      BY <1>1, <3>1 DEF Standing
    <3>4. QED
      BY <3>1, <3>2, <3>3 DEF Carrying
  <2>2. CASE ~ValidateOrderSize(tier[u], Worth[a])
    BY <1>1, <2>2 DEF Standing, Carrying, PastDelete, InHand
  <2>3. QED
    BY <2>1, <2>2
<1>7. Closing(r)'
  BY <1>1 DEF Standing, Closing, Cancels, Posts, Recorded
<1>8. Acked(r)'
  BY <1>1 DEF Standing, Acked, Posts, Recorded
<1>9. ASSUME NEW q \in Req PROVE Blame(r, q)
  BY <1>1 DEF Standing, Listing, Blame, Pending, Cancels, Posts, Recorded
<1>10. QED
  BY <1>2, <1>3, <1>4, <1>5, <1>6, <1>7, <1>8, <1>9, StepKeeps

\* build_order: terms are taken in hand only when the size check passed.
LEMMA BuildOrderKeeps ==
    ASSUME NEW r \in Req, NEW u \in User, NEW a \in Quote, TypeOK, IInv, BuildOrder(r, u, a)
    PROVE  IInv'
<1>1. Standing(r) /\ Listing(r) /\ Carrying(r) /\ Closing(r) /\ Acked(r)
  BY DEF IInv, AckedOrderIsRecorded, Acked
<1> USE DEF BuildOrder, Starts, Goes, TermsFor, TypeOK, Request, ExchangeOrder, Row
<1>2. ASSUME NEW q \in Req PROVE Forward(q)
  BY <1>1 DEF Standing, Forward, Recorded
<1>3. ASSUME NEW q \in Req \ {r} PROVE Bystander(q)
  BY DEF Bystander, Recorded
<1>4. Standing(r)'
  BY <1>1 DEF Standing, Posts, Recorded
<1>5. Listing(r)'
  BY <1>1 DEF Standing, Listing, Posts, Recorded
<1>6. Carrying(r)'
  <2>1. CASE ValidateOrderSize(tier[u], Worth[a])
    <3>1. req'[r] = [kind |-> "build", user |-> u, terms |-> TermsFor(u, a), targets |-> {}]
      BY <2>1
    <3>2. Sound(TermsFor(u, a))
      BY <2>1 DEF Sound
    <3>3. r \notin redis' \/ req'[r].kind = "build"
      BY <1>1, <3>1 DEF Standing
    <3>4. QED
      BY <3>1, <3>2, <3>3 DEF Carrying
  <2>2. CASE ~ValidateOrderSize(tier[u], Worth[a])
    BY <1>1, <2>2 DEF Standing, Carrying, PastDelete, InHand
  <2>3. QED
    BY <2>1, <2>2
<1>7. Closing(r)'
  BY <1>1 DEF Standing, Closing, Cancels, Posts, Recorded
<1>8. Acked(r)'
  BY <1>1 DEF Standing, Acked, Posts, Recorded
<1>9. ASSUME NEW q \in Req PROVE Blame(r, q)
  BY <1>1 DEF Standing, Listing, Blame, Pending, Cancels, Posts, Recorded
<1>10. QED
  BY <1>2, <1>3, <1>4, <1>5, <1>6, <1>7, <1>8, <1>9, StepKeeps

\* submit_order: the terms come from a payload found under the user's own key.
LEMMA SubmitOrderKeeps ==
    ASSUME NEW r \in Req, NEW b \in Req, NEW u \in User, TypeOK, IInv, SubmitOrder(r, u, b)
    PROVE  IInv'
<1>1. Standing(r) /\ Listing(r) /\ Carrying(r) /\ Closing(r) /\ Acked(r)
  BY DEF IInv, AckedOrderIsRecorded, Acked
<1> USE DEF SubmitOrder, Starts, Goes, PayloadFound, TypeOK, Request, ExchangeOrder, Row
<1>2. ASSUME NEW q \in Req PROVE Forward(q)
  BY <1>1 DEF Standing, Forward, Recorded
<1>3. ASSUME NEW q \in Req \ {r} PROVE Bystander(q)
  BY DEF Bystander, Recorded
<1>4. Standing(r)'
  BY <1>1 DEF Standing, Posts, Recorded
<1>5. Listing(r)'
  BY <1>1 DEF Standing, Listing, Posts, Recorded
<1>6. Carrying(r)'
  <2>1. Carrying(b) /\ b # r
    BY <1>1 DEF IInv, Standing
  <2>2. CASE PayloadFound(u, b)
    <3>1. req'[r] = [kind |-> "submit", user |-> u, terms |-> req[b].terms, targets |-> {b}]
      BY <2>2
    <3>2. req'[b] = req[b]
      BY <2>1
    <3>3. r \notin redis' /\ ~PastDelete(r)'
      BY <1>1, <2>2 DEF Standing, PastDelete
    <3>4. QED
      BY <2>1, <2>2, <3>1, <3>2, <3>3 DEF Carrying
  <2>3. CASE ~PayloadFound(u, b)
    BY <1>1, <2>3 DEF Standing, Carrying, PastDelete, InHand
  <2>4. QED
    BY <2>2, <2>3
<1>7. Closing(r)'
  BY <1>1 DEF Standing, Closing, Cancels, Posts, Recorded
<1>8. Acked(r)'
  BY <1>1 DEF Standing, Acked, Posts, Recorded
<1>9. ASSUME NEW q \in Req PROVE Blame(r, q)
  BY <1>1 DEF Standing, Listing, Blame, Pending, Cancels, Posts, Recorded
<1>10. QED
  BY <1>2, <1>3, <1>4, <1>5, <1>6, <1>7, <1>8, <1>9, StepKeeps

\* cancel_order: the target is a row, and a row without an exchange id has nothing live to close.
LEMMA CancelOrderKeeps ==
    ASSUME NEW r \in Req, NEW t \in Req, NEW u \in User, TypeOK, IInv, CancelOrder(r, u, t)
    PROVE  IInv'
<1>1. Standing(r) /\ Listing(r) /\ Carrying(r) /\ Closing(r) /\ Acked(r)
  BY DEF IInv, AckedOrderIsRecorded, Acked
<1> USE DEF CancelOrder, Starts, Goes, RowFound, TypeOK, Request, ExchangeOrder, Row
<1>2. ASSUME NEW q \in Req PROVE Forward(q)
  BY <1>1 DEF Standing, Forward, Recorded
<1>3. ASSUME NEW q \in Req \ {r} PROVE Bystander(q)
  BY DEF Bystander, Recorded
<1>4. Standing(r)'
  BY <1>1 DEF Standing, Posts, Recorded
<1>5. Listing(r)'
  BY <1>1 DEF Standing, Listing, Posts, Recorded
<1>6. Carrying(r)'
  BY <1>1 DEF Standing, Carrying, PastDelete, InHand, Posts
<1>7. Closing(r)'
  BY <1>1 DEF Standing, Closing, Cancels, Posts, Recorded
<1>8. Acked(r)'
  BY <1>1 DEF Standing, Acked, Posts, Recorded
<1>9. ASSUME NEW q \in Req PROVE Blame(r, q)
  BY <1>1 DEF Standing, Listing, Blame, Pending, Cancels, Posts, Recorded
<1>10. QED
  BY <1>2, <1>3, <1>4, <1>5, <1>6, <1>7, <1>8, <1>9, StepKeeps

\* cancel_all_open: the targets are rows, the calls still to make are for targets.
LEMMA CancelAllOpenKeeps ==
    ASSUME NEW r \in Req, NEW u \in User, TypeOK, IInv, CancelAllOpen(r, u)
    PROVE  IInv'
<1>1. Standing(r) /\ Listing(r) /\ Carrying(r) /\ Closing(r) /\ Acked(r)
  BY DEF IInv, AckedOrderIsRecorded, Acked
<1> USE DEF CancelAllOpen, Starts, Goes, OpenOrders, RowFound, TypeOK, Request, ExchangeOrder, Row
<1>2. ASSUME NEW q \in Req PROVE Forward(q)
  BY <1>1 DEF Standing, Forward, Recorded
<1>3. ASSUME NEW q \in Req \ {r} PROVE Bystander(q)
  BY DEF Bystander, Recorded
<1>4. Standing(r)'
  BY <1>1 DEF Standing, Posts, Recorded
<1>5. Listing(r)'
  BY <1>1 DEF Standing, Listing, Posts, Recorded
<1>6. Carrying(r)'
  BY <1>1 DEF Standing, Carrying, PastDelete, InHand, Posts
<1>7. Closing(r)'
  BY <1>1 DEF Standing, Closing, Cancels, Posts, Recorded
<1>8. Acked(r)'
  BY <1>1 DEF Standing, Acked, Posts, Recorded
<1>9. ASSUME NEW q \in Req PROVE Blame(r, q)
  BY <1>1 DEF Standing, Listing, Blame, Pending, Cancels, Posts, Recorded
<1>10. QED
  BY <1>2, <1>3, <1>4, <1>5, <1>6, <1>7, <1>8, <1>9, StepKeeps

\* submit_order drops the payload and keeps its terms.
LEMMA VerifyAndDeleteKeeps ==
    ASSUME NEW r \in Req, TypeOK, IInv, VerifyAndDelete(r)
    PROVE  IInv'
<1>1. Standing(r) /\ Listing(r) /\ Carrying(r) /\ Closing(r) /\ Acked(r)
  BY DEF IInv, AckedOrderIsRecorded, Acked
<1> USE DEF VerifyAndDelete, Goes, TypeOK, Request, ExchangeOrder, Row
<1>2. ASSUME NEW q \in Req PROVE Forward(q)
  BY <1>1 DEF Standing, Forward, Recorded
<1>3. ASSUME NEW q \in Req \ {r} PROVE Bystander(q)
  BY DEF Bystander, Recorded
<1>4. Standing(r)'
  BY <1>1 DEF Standing, Posts, Recorded
<1>5. Listing(r)'
  BY <1>1 DEF Standing, Listing, Posts, Recorded
<1>6. Carrying(r)'
  BY <1>1 DEF Standing, Carrying, PastDelete, InHand, Posts
<1>7. Closing(r)'
  BY <1>1 DEF Standing, Closing, Cancels, Posts, Recorded
<1>8. Acked(r)'
  BY <1>1 DEF Standing, Acked, Posts, Recorded
<1>9. ASSUME NEW q \in Req PROVE Blame(r, q)
  BY <1>1 DEF Standing, Listing, Blame, Pending, Cancels, Posts, Recorded
<1>10. QED
  BY <1>2, <1>3, <1>4, <1>5, <1>6, <1>7, <1>8, <1>9, StepKeeps

\* post_order: what the exchange accepts are the terms in hand.
LEMMA PostOrderKeeps ==
    ASSUME NEW r \in Req, TypeOK, IInv, PostOrder(r)
    PROVE  IInv'
<1>1. Standing(r) /\ Listing(r) /\ Carrying(r) /\ Closing(r) /\ Acked(r)
  BY DEF IInv, AckedOrderIsRecorded, Acked
<1> USE DEF PostOrder, Goes, TypeOK, Request, ExchangeOrder, Row
<1>2. ASSUME NEW q \in Req PROVE Forward(q)
  BY <1>1 DEF Standing, Forward, Recorded
<1>3. ASSUME NEW q \in Req \ {r} PROVE Bystander(q)
  BY DEF Bystander, Recorded
<1>4. Standing(r)'
  BY <1>1 DEF Standing, Posts, Recorded
<1>5. Listing(r)'
  BY <1>1 DEF Standing, Listing, Posts, Recorded
<1>6. Carrying(r)'
  BY <1>1 DEF Standing, Carrying, PastDelete, InHand, Posts
<1>7. Closing(r)'
  BY <1>1 DEF Standing, Closing, Cancels, Posts, Recorded
<1>8. Acked(r)'
  BY <1>1 DEF Standing, Acked, Posts, Recorded
<1>9. ASSUME NEW q \in Req PROVE Blame(r, q)
  BY <1>1 DEF Standing, Listing, Blame, Pending, Cancels, Posts, Recorded
<1>10. QED
  BY <1>2, <1>3, <1>4, <1>5, <1>6, <1>7, <1>8, <1>9, StepKeeps

\* The row is inserted for an order the exchange holds.
LEMMA PersistKeeps ==
    ASSUME NEW r \in Req, TypeOK, IInv, Persist(r)
    PROVE  IInv'
<1>1. Standing(r) /\ Listing(r) /\ Carrying(r) /\ Closing(r) /\ Acked(r)
  BY DEF IInv, AckedOrderIsRecorded, Acked
<1> USE DEF Persist, Goes, TypeOK, Request, ExchangeOrder, Row
<1>2. ASSUME NEW q \in Req PROVE Forward(q)
  BY <1>1 DEF Standing, Forward, Recorded
<1>3. ASSUME NEW q \in Req \ {r} PROVE Bystander(q)
  BY DEF Bystander, Recorded
<1>4. Standing(r)'
  BY <1>1 DEF Standing, Posts, Recorded
<1>5. Listing(r)'
  BY <1>1 DEF Standing, Listing, Posts, Recorded
<1>6. Carrying(r)'
  BY <1>1 DEF Standing, Carrying, PastDelete, InHand, Posts
<1>7. Closing(r)'
  BY <1>1 DEF Standing, Closing, Cancels, Posts, Recorded
<1>8. Acked(r)'
  BY <1>1 DEF Standing, Acked, Posts, Recorded
<1>9. ASSUME NEW q \in Req PROVE Blame(r, q)
  BY <1>1 DEF Standing, Listing, Blame, Pending, Cancels, Posts, Recorded
<1>10. QED
  BY <1>2, <1>3, <1>4, <1>5, <1>6, <1>7, <1>8, <1>9, StepKeeps

\* cancel_order goes on to its commit only when the exchange answered.
LEMMA CancelAtExchangeKeeps ==
    ASSUME NEW r \in Req, TypeOK, IInv, CancelAtExchange(r)
    PROVE  IInv'
<1>1. Standing(r) /\ Listing(r) /\ Carrying(r) /\ Closing(r) /\ Acked(r)
  BY DEF IInv, AckedOrderIsRecorded, Acked
<1>a. PICK t \in req[r].targets : \/ exch' = Withdrawn(t)
                                  \/ UNCHANGED exch /\ Goes(r, "error")
  BY DEF CancelAtExchange
<1>b. t \in Req /\ Recorded(t) /\ \A q \in req[r].targets : q = t
  BY <1>1, <1>a DEF CancelAtExchange, Standing, Closing, TypeOK, Request
<1>c. ASSUME NEW q \in Req
      PROVE  /\ exch'[q].terms = exch[q].terms
             /\ \/ exch'[q].status = exch[q].status
                \/ q = t /\ exch[q].status = "live" /\ exch'[q].status = "cancelled"
  BY <1>a, <1>b, WithdrawnChanges
<1>d. UNCHANGED <<req, todo, gotId, tier, redis, row>>
  BY DEF CancelAtExchange
<1>e. /\ pc[r] = "cancelling" /\ pc'[r] \in {"committing", "error"}
      /\ \A q \in Req \ {r} : pc'[q] = pc[q]
  BY DEF CancelAtExchange, Goes, TypeOK
<1>f. pc'[r] = "committing" => exch'[t].status # "live"
  BY <1>a, <1>b, WithdrawnChanges DEF Goes, TypeOK
<1>2. ASSUME NEW q \in Req PROVE Forward(q)
  BY <1>b, <1>c, <1>d DEF Forward, Recorded
<1>3. ASSUME NEW q \in Req \ {r} PROVE Bystander(q)
  BY <1>b, <1>c, <1>d, <1>e DEF Bystander, Recorded
<1>4. Standing(r)'
  BY <1>1, <1>d, <1>e DEF Standing, Posts, Recorded
<1>5. Listing(r)'
  BY <1>1, <1>b, <1>c, <1>d DEF Listing, Posts, Recorded
<1>6. Carrying(r)'
  BY <1>1, <1>c, <1>d, <1>e DEF Standing, Carrying, PastDelete, InHand, Sound
<1>7. Closing(r)'
  BY <1>1, <1>b, <1>d, <1>e, <1>f DEF Standing, Closing, Cancels, Recorded
<1>8. Acked(r)'
  BY <1>e DEF Acked
<1>9. ASSUME NEW q \in Req PROVE Blame(r, q)
  BY <1>1, <1>a, <1>b, <1>c, <1>d, <1>e DEF Standing, Blame, Pending, Cancels
<1>10. QED
  BY <1>2, <1>3, <1>4, <1>5, <1>6, <1>7, <1>8, <1>9, StepKeeps

\* cancel_all_open takes down one of its targets, or not.
LEMMA SweepOneKeeps ==
    ASSUME NEW r \in Req, NEW t \in Req, TypeOK, IInv, SweepOne(r, t)
    PROVE  IInv'
<1>1. Standing(r) /\ Listing(r) /\ Carrying(r) /\ Closing(r) /\ Acked(r)
  BY DEF IInv, AckedOrderIsRecorded, Acked
<1>b. t \in req[r].targets /\ Recorded(t)
  BY <1>1 DEF SweepOne, Closing, Recorded
<1>c. ASSUME NEW q \in Req
      PROVE  /\ exch'[q].terms = exch[q].terms
             /\ \/ exch'[q].status = exch[q].status
                \/ q = t /\ exch[q].status = "live" /\ exch'[q].status = "cancelled"
  BY WithdrawnChanges DEF SweepOne
<1>d. UNCHANGED <<pc, req, gotId, tier, redis, row>> /\ pc[r] = "sweeping"
  BY DEF SweepOne
<1>e. todo'[r] \subseteq todo[r] /\ \A q \in Req \ {r} : todo'[q] = todo[q]
  BY DEF SweepOne, TypeOK
<1>2. ASSUME NEW q \in Req PROVE Forward(q)
  BY <1>b, <1>c, <1>d DEF Forward, Recorded
<1>3. ASSUME NEW q \in Req \ {r} PROVE Bystander(q)
  BY <1>b, <1>c, <1>d, <1>e DEF Bystander, Recorded
<1>4. Standing(r)'
  BY <1>1, <1>d, <1>e DEF Standing, Posts, Recorded
<1>5. Listing(r)'
  BY <1>1, <1>b, <1>c, <1>d DEF Listing, Posts, Recorded
<1>6. Carrying(r)'
  BY <1>1, <1>c, <1>d DEF Standing, Carrying, PastDelete, InHand, Sound
<1>7. Closing(r)'
  BY <1>1, <1>d, <1>e DEF Standing, Closing, Cancels, Recorded
<1>8. Acked(r)'
  BY <1>d DEF Acked
<1>9. ASSUME NEW q \in Req PROVE Blame(r, q)
  BY <1>1, <1>b, <1>c, <1>d DEF Standing, Blame, Pending, Cancels
<1>10. QED
  BY <1>2, <1>3, <1>4, <1>5, <1>6, <1>7, <1>8, <1>9, StepKeeps

\* cancel_order commits, or fails and can be blamed.
LEMMA CommitCancelKeeps ==
    ASSUME NEW r \in Req, TypeOK, IInv, CommitCancel(r)
    PROVE  IInv'
<1>1. Standing(r) /\ Listing(r) /\ Carrying(r) /\ Closing(r) /\ Acked(r)
  BY DEF IInv, AckedOrderIsRecorded, Acked
<1>a. \/ row' = Cancelled(req[r].targets)
      \/ row' = row /\ pc'[r] = "error"
  BY DEF CommitCancel, Goes, TypeOK
<1>b. /\ pc[r] = "committing" /\ pc'[r] \in {"ok", "error"}
      /\ \A q \in Req \ {r} : pc'[q] = pc[q]
  BY DEF CommitCancel, Goes, TypeOK
<1>c. UNCHANGED <<req, todo, gotId, tier, redis, exch>>
  BY DEF CommitCancel
<1>d. \A q \in req[r].targets : q \in Req /\ Recorded(q)
  BY <1>1, <1>b DEF Closing, TypeOK, Request
<1>e. ASSUME NEW q \in Req
      PROVE  /\ row'[q].terms = row[q].terms
             /\ row'[q].exid = row[q].exid
             /\ row'[q].owner = row[q].owner
             /\ \/ row'[q].status = row[q].status
                \/ q \in req[r].targets /\ row'[q].status = "CANCELLED"
  BY <1>a, CancelledChanges
<1>f. pc'[r] = "ok" => \A q \in req[r].targets : row'[q].status = "CANCELLED"
  BY <1>a, <1>d, CancelledChanges
<1>2. ASSUME NEW q \in Req PROVE Forward(q)
  BY <1>c, <1>d, <1>e DEF Forward, Recorded
<1>3. ASSUME NEW q \in Req \ {r} PROVE Bystander(q)
  BY <1>b, <1>c, <1>d, <1>e DEF Bystander, Recorded
<1>4. Standing(r)'
  BY <1>1, <1>b, <1>c DEF Standing
<1>5. Listing(r)'
  BY <1>1, <1>c, <1>d, <1>e DEF Listing, Posts, Recorded
<1>6. Carrying(r)'
  BY <1>1, <1>b, <1>c DEF Standing, Carrying, PastDelete, InHand, Sound
<1>7. Closing(r)'
  BY <1>1, <1>b, <1>c, <1>d, <1>e, <1>f DEF Standing, Closing, Cancels, Recorded
<1>8. Acked(r)'
  BY <1>1, <1>b, <1>c DEF Standing, Acked, Posts
<1>9. ASSUME NEW q \in Req PROVE Blame(r, q)
  BY <1>1, <1>b, <1>c, <1>e, <1>f DEF Standing, Blame, Pending, Cancels
<1>10. QED
  BY <1>2, <1>3, <1>4, <1>5, <1>6, <1>7, <1>8, <1>9, StepKeeps

\* cancel_all_open commits every target at once, or fails and can be blamed.
LEMMA CommitSweepKeeps ==
    ASSUME NEW r \in Req, TypeOK, IInv, CommitSweep(r)
    PROVE  IInv'
<1>1. Standing(r) /\ Listing(r) /\ Carrying(r) /\ Closing(r) /\ Acked(r)
  BY DEF IInv, AckedOrderIsRecorded, Acked
<1>a. \/ row' = Cancelled(req[r].targets)
      \/ row' = row /\ pc'[r] = "error"
  BY DEF CommitSweep, Goes, TypeOK
<1>b. /\ pc[r] = "sweeping" /\ pc'[r] \in {"ok", "error"}
      /\ \A q \in Req \ {r} : pc'[q] = pc[q]
  BY DEF CommitSweep, Goes, TypeOK
<1>c. UNCHANGED <<req, todo, gotId, tier, redis, exch>>
  BY DEF CommitSweep
<1>d. \A q \in req[r].targets : q \in Req /\ Recorded(q)
  BY <1>1, <1>b DEF Closing, TypeOK, Request
<1>e. ASSUME NEW q \in Req
      PROVE  /\ row'[q].terms = row[q].terms
             /\ row'[q].exid = row[q].exid
             /\ row'[q].owner = row[q].owner
             /\ \/ row'[q].status = row[q].status
                \/ q \in req[r].targets /\ row'[q].status = "CANCELLED"
  BY <1>a, CancelledChanges
<1>f. pc'[r] = "ok" => \A q \in req[r].targets : row'[q].status = "CANCELLED"
  BY <1>a, <1>d, CancelledChanges
<1>2. ASSUME NEW q \in Req PROVE Forward(q)
  BY <1>c, <1>d, <1>e DEF Forward, Recorded
<1>3. ASSUME NEW q \in Req \ {r} PROVE Bystander(q)
  BY <1>b, <1>c, <1>d, <1>e DEF Bystander, Recorded
<1>4. Standing(r)'
  BY <1>1, <1>b, <1>c DEF Standing
<1>5. Listing(r)'
  BY <1>1, <1>c, <1>d, <1>e DEF Listing, Posts, Recorded
<1>6. Carrying(r)'
  BY <1>1, <1>b, <1>c DEF Standing, Carrying, PastDelete, InHand, Sound
<1>7. Closing(r)'
  BY <1>1, <1>b, <1>c, <1>d, <1>e, <1>f DEF Standing, Closing, Cancels, Recorded
<1>8. Acked(r)'
  BY <1>1, <1>b, <1>c DEF Standing, Acked, Posts
<1>9. ASSUME NEW q \in Req PROVE Blame(r, q)
  BY <1>1, <1>b, <1>c, <1>e, <1>f DEF Standing, Blame, Pending, Cancels
<1>10. QED
  BY <1>2, <1>3, <1>4, <1>5, <1>6, <1>7, <1>8, <1>9, StepKeeps

\* A killed request keeps nothing in hand and can be blamed.
LEMMA DieKeeps ==
    ASSUME NEW r \in Req, TypeOK, IInv, Die(r)
    PROVE  IInv'
<1>1. Standing(r) /\ Listing(r) /\ Carrying(r) /\ Closing(r) /\ Acked(r)
  BY DEF IInv, AckedOrderIsRecorded, Acked
<1> USE DEF Die, Goes, Running, TypeOK, Request, ExchangeOrder, Row
<1>2. ASSUME NEW q \in Req PROVE Forward(q)
  BY <1>1 DEF Standing, Forward, Recorded
<1>3. ASSUME NEW q \in Req \ {r} PROVE Bystander(q)
  BY DEF Bystander, Recorded
<1>4. Standing(r)'
  BY <1>1 DEF Standing, Posts, Recorded
<1>5. Listing(r)'
  BY <1>1 DEF Standing, Listing, Posts, Recorded
<1>6. Carrying(r)'
  BY <1>1 DEF Standing, Carrying, PastDelete, InHand, Posts
<1>7. Closing(r)'
  BY <1>1 DEF Standing, Closing, Cancels, Posts, Recorded
<1>8. Acked(r)'
  BY <1>1 DEF Standing, Acked, Posts, Recorded
<1>9. ASSUME NEW q \in Req PROVE Blame(r, q)
  BY <1>1 DEF Standing, Listing, Blame, Pending, Cancels, Posts, Recorded
<1>10. QED
  BY <1>2, <1>3, <1>4, <1>5, <1>6, <1>7, <1>8, <1>9, StepKeeps

\* An expiring payload involves no request.
LEMMA ExpireKeyKeeps ==
    ASSUME NEW r \in Req, TypeOK, IInv, ExpireKey(r)
    PROVE  IInv'
<1>1. ASSUME NEW q \in Req PROVE Forward(q)
  BY DEF ExpireKey, Forward, Recorded, TypeOK, ExchangeOrder
<1>2. ASSUME NEW q \in Req PROVE Bystander(q)
  BY DEF ExpireKey, Bystander, Recorded, TypeOK, ExchangeOrder
<1>3. Standing(r)' /\ Listing(r)' /\ Carrying(r)' /\ Closing(r)' /\ Acked(r)'
  BY <1>1, <1>2, BystanderKeeps
<1>4. ASSUME NEW q \in Req PROVE Blame(r, q)
  BY <1>2 DEF ExpireKey, Blame, TypeOK, ExchangeOrder
<1>5. QED
  BY <1>1, <1>2, <1>3, <1>4, StepKeeps

\* A match at the exchange involves no request and closes nothing.
LEMMA FillKeeps ==
    ASSUME NEW r \in Req, TypeOK, IInv, Fill(r)
    PROVE  IInv'
<1>1. ASSUME NEW q \in Req PROVE Forward(q)
  BY DEF Fill, Forward, Recorded, TypeOK, ExchangeOrder
<1>2. ASSUME NEW q \in Req PROVE Bystander(q)
  BY DEF Fill, Bystander, Recorded, TypeOK, ExchangeOrder
<1>3. Standing(r)' /\ Listing(r)' /\ Carrying(r)' /\ Closing(r)' /\ Acked(r)'
  BY <1>1, <1>2, BystanderKeeps
<1>4. ASSUME NEW q \in Req PROVE Blame(r, q)
  BY <1>2 DEF Fill, Blame, TypeOK, ExchangeOrder
<1>5. QED
  BY <1>1, <1>2, <1>3, <1>4, StepKeeps

\* Neither a stuttering step nor a tier change touches what IInv speaks of.
LEMMA IdleKeeps ==
    ASSUME IInv, UNCHANGED <<pc, req, todo, gotId, redis, exch, row>>
    PROVE  IInv'
BY DEF IInv, Standing, Listing, Carrying, Closing, Sound, PastDelete, InHand, Posts, Cancels, Recorded,
       AckedOrderIsRecorded, DivergenceHasCause

\* Init establishes the invariant: nothing has started.
LEMMA InitIInv == Init => IInv
BY DEF Init, IInv, Standing, Listing, Carrying, Closing, PastDelete, InHand, Posts, Cancels, Recorded,
       AckedOrderIsRecorded, DivergenceHasCause

\* Every step preserves the invariant.
LEMMA NextIInv == TypeOK /\ IInv /\ [Next]_vars => IInv'
<1> SUFFICES ASSUME TypeOK, IInv, [Next]_vars PROVE IInv'
  OBVIOUS
<1>1. ASSUME NEW r \in Req, Step(r) PROVE IInv'
  BY <1>1, VerifyAndDeleteKeeps, PostOrderKeeps, PersistKeeps, CancelAtExchangeKeeps,
     CommitCancelKeeps, SweepOneKeeps, CommitSweepKeeps DEF Step
<1>2. ASSUME NEW r \in Req, Die(r) \/ ExpireKey(r) \/ Fill(r) PROVE IInv'
  BY <1>2, DieKeeps, ExpireKeyKeeps, FillKeeps
<1>3. ASSUME NEW u \in User, NEW new \in Tier, UpgradeTier(u, new) PROVE IInv'
  BY <1>3, IdleKeeps DEF UpgradeTier
<1>4. CASE UNCHANGED vars
  BY <1>4, IdleKeeps DEF vars
<1>5. QED
  BY <1>1, <1>2, <1>3, <1>4, PlaceOrderKeeps, BuildOrderKeeps, SubmitOrderKeeps,
     CancelOrderKeeps, CancelAllOpenKeeps DEF Next

\* The inductive invariant holds in every state of the order service.
THEOREM Inductive == Spec => []IInv
BY InitIInv, NextIInv, TypeCorrect, PTL DEF Spec
-----------------------------------------------------------------------------
(***************************************************************************)
(* What follows from the invariant.                                        *)
(***************************************************************************)

\* A client told that its order was taken finds it listed, and the exchange
\* holds it (place_order and submit_order insert after they post).
THEOREM AckedRecorded == Spec => []AckedOrderIsRecorded
<1>1. IInv => AckedOrderIsRecorded
  BY DEF IInv
<1>2. QED
  BY <1>1, Inductive, PTL

\* A row shows the price and size, rounded, of the quote whose truncated amount was signed and
\* posted, and the fee that was: for any conversions, and although neither gives the other back.
THEOREM TermsSigned == Spec => []RowTermsAreSigned
<1>1. TypeOK /\ IInv => RowTermsAreSigned
  <2>1. SUFFICES ASSUME TypeOK, IInv, NEW r \in Req, Recorded(r)
                 PROVE  SameDeal(row[r].terms, exch[r].terms)
    BY DEF RowTermsAreSigned
  <2>2. row[r].terms = Columns(req[r].terms) /\ exch[r].terms = Struct(req[r].terms)
    BY <2>1 DEF IInv, Listing
  <2>3. req[r].terms \in Asked
    BY <2>1 DEF TypeOK, Request
  <2>4. QED
    BY <2>2, <2>3, Conversions
<1>2. QED
  BY <1>1, TypeCorrect, Inductive, PTL

\* Whatever the order of size check, tier change and submit, the amount signed of no order at the
\* exchange is beyond the limit of the tier whose fee it pays.
THEOREM LimitHolds == Spec => []WithinLimit
<1>1. TypeOK /\ IInv => WithinLimit
  <2>1. SUFFICES ASSUME TypeOK, IInv, NEW r \in Req, exch[r].status # "none"
                 PROVE  \E t \in Tier : /\ exch[r].terms.fee = GetFeeRateBps(t)
                                        /\ ValidateOrderSize(t, exch[r].terms.notional)
    BY DEF WithinLimit
  <2>2. exch[r].terms = Struct(req[r].terms) /\ Sound(req[r].terms)
    BY <2>1 DEF IInv, Listing, Carrying, InHand
  <2>3. PICK t \in Tier : req[r].terms.fee = GetFeeRateBps(t) /\ ValidateOrderSize(t, Worth[req[r].terms.quote])
    BY <2>2 DEF Sound
  <2>4. req[r].terms.quote \in Quote
    BY <2>1 DEF TypeOK, Request, Asked
  <2>5. ValidateOrderSize(t, ToUnits[req[r].terms.quote])
    BY <2>3, <2>4, SigningAssumption
  <2>6. exch[r].terms.fee = GetFeeRateBps(t) /\ exch[r].terms.notional = ToUnits[req[r].terms.quote]
    BY <2>2, <2>3 DEF Struct
  <2>7. QED
    BY <2>5, <2>6
<1>2. QED
  BY <1>1, TypeCorrect, Inductive, PTL

\* A cancel_order that succeeds for an order with an exchange id has taken it
\* off the exchange, or found it filled.
THEOREM CancelHolds == Spec => []CancelOkMeansDown
<1>1. IInv => CancelOkMeansDown
  BY DEF IInv, Closing, CancelOkMeansDown
<1>2. QED
  BY <1>1, Inductive, PTL

\* A cancel_all_open that succeeds leaves each row it selected CANCELLED.
THEOREM SweepHolds == Spec => []SweptRowsAreCancelled
<1>1. IInv => SweptRowsAreCancelled
  BY DEF IInv, Closing, SweptRowsAreCancelled
<1>2. QED
  BY <1>1, Inductive, PTL

\* An order off the exchange whose row is OPEN has a cancel to blame.
THEOREM DivergenceExplained == Spec => []DivergenceHasCause
<1>1. IInv => DivergenceHasCause
  BY DEF IInv
<1>2. QED
  BY <1>1, Inductive, PTL

\* A payload reaches the exchange for the user who built it, as it was built.
THEOREM PayloadKept == Spec => []PayloadStaysWithBuilder
<1>1. IInv => PayloadStaysWithBuilder
  BY DEF IInv, Listing, Carrying, InHand, PayloadStaysWithBuilder
<1>2. QED
  BY <1>1, Inductive, PTL

\* Once an order went out for a payload, no submit that starts later finds it.
THEOREM LateSubmits == Spec => LateSubmitFails
<1> DEFINE Late == \A r, q \in Req :
                     /\ pc[r] = "idle" /\ pc'[r] = "verifying"
                     /\ req[q].kind = "submit" /\ req[q].targets = req'[r].targets
                     => exch[q].status = "none"
<1>1. ASSUME TypeOK, IInv, [Next]_vars PROVE Late
  <2>1. SUFFICES ASSUME NEW r \in Req, NEW q \in Req, pc[r] = "idle", pc'[r] = "verifying",
                        req[q].kind = "submit", req[q].targets = req'[r].targets
                 PROVE  exch[q].status = "none"
    OBVIOUS
  <2>2. PICK b \in Req, u \in User : SubmitOrder(r, u, b) /\ PayloadFound(u, b)
    BY <1>1, <2>1 DEF Next, Step, vars, TypeOK, Goes, Starts, PlaceOrder, BuildOrder,
       SubmitOrder, CancelOrder, CancelAllOpen, VerifyAndDelete, PostOrder, Persist,
       CancelAtExchange, CommitCancel, SweepOne, CommitSweep, Die, ExpireKey, Fill, UpgradeTier
  <2>3. b \in req[q].targets /\ b \in redis
    BY <1>1, <2>1, <2>2 DEF SubmitOrder, Starts, PayloadFound, TypeOK
  <2>4. QED
    BY <1>1, <2>1, <2>3 DEF IInv, Carrying, PastDelete
<1>2. QED
  BY <1>1, TypeCorrect, Inductive, PTL DEF Spec, LateSubmitFails

\* A row is written only by a request of its owner.
THEOREM OwnersWrite == Spec => OwnerWrites
<1> DEFINE Own == \A t \in Req : row'[t] # row[t] =>
                    \E r \in Req : pc'[r] # pc[r] /\ req[r].user = row'[t].owner
<1>1. ASSUME TypeOK, IInv, [Next]_vars PROVE Own
  <2>1. SUFFICES ASSUME NEW t \in Req, row'[t] # row[t] PROVE
                        \E r \in Req : pc'[r] # pc[r] /\ req[r].user = row'[t].owner
    OBVIOUS
  <2>2. PICK r \in Req : Persist(r) \/ CommitCancel(r) \/ CommitSweep(r)
    BY <1>1, <2>1 DEF Next, Step, vars, PlaceOrder, BuildOrder, SubmitOrder, CancelOrder,
       CancelAllOpen, VerifyAndDelete, PostOrder, CancelAtExchange, SweepOne, Die,
       ExpireKey, Fill, UpgradeTier
  <2>3. CASE Persist(r)
    BY <1>1, <2>1, <2>3 DEF Persist, Goes, TypeOK, Row
  <2>4. CASE CommitCancel(r) \/ CommitSweep(r)
    <3>1. pc'[r] # pc[r] /\ row' = Cancelled(req[r].targets)
      BY <1>1, <2>1, <2>4 DEF CommitCancel, CommitSweep, Goes, TypeOK
    <3>2. t \in req[r].targets
      BY <2>1, <3>1 DEF Cancelled
    <3>3. row'[t].owner = row[t].owner
      BY <1>1, <3>1, CancelledChanges
    <3>4. row[t].owner = req[r].user
      BY <1>1, <2>4, <3>2 DEF IInv, Closing, CommitCancel, CommitSweep
    <3>5. QED
      BY <3>1, <3>3, <3>4
  <2>5. QED
    BY <2>2, <2>3, <2>4
<1>2. QED
  BY <1>1, TypeCorrect, Inductive, PTL DEF Spec, OwnerWrites
-----------------------------------------------------------------------------
(***************************************************************************)
(* OrderService implements OrderLedger: the exchange is the book, the      *)
(* table is the ledger.                                                    *)
(***************************************************************************)

\* Init maps to an initial state of the ledger.
LEMMA InitLedger == Init => Ledger!LInit
BY NothingAsked DEF Init, Ledger!LInit, LedgerState

\* Steps that leave the exchange and the table alone are stuttering steps.
LEMMA LedgerStutters ==
    ASSUME UNCHANGED <<exch, row>>
    PROVE  UNCHANGED Ledger!lvars
BY DEF Ledger!lvars, LedgerState

\* post_order: the exchange accepts an order the broker does not list yet.
LEMMA PostOrderLedger ==
    ASSUME TypeOK, IInv, NEW r \in Req, PostOrder(r)
    PROVE  Ledger!Accept(r) \/ UNCHANGED <<exch, row>>
<1>1. CASE UNCHANGED exch
  BY <1>1 DEF PostOrder
<1>2. CASE exch' = [exch EXCEPT ![r] = [status |-> "live", terms |-> Struct(req[r].terms)]]
  <2>1. exch[r].status = "none" /\ LedgerState(r) = "unlisted"
    BY DEF IInv, Standing, PostOrder, Recorded, LedgerState
  <2>2. exch'[r] = [status |-> "live", terms |-> Struct(req[r].terms)] /\ Struct(req[r].terms) \in Terms
    BY <1>2, Conversions DEF TypeOK, Request
  <2>3. exch' = [exch EXCEPT ![r] = [status |-> "live", terms |-> exch'[r].terms]]
    BY <1>2, <2>2
  <2>4. \A t \in Req : row'[t] = row[t] /\ LedgerState(t)' = LedgerState(t)
    BY DEF PostOrder, LedgerState
  <2>5. QED
    BY <2>1, <2>2, <2>3, <2>4 DEF Ledger!Accept
<1>3. QED
  BY <1>1, <1>2 DEF PostOrder

\* The insert lists an order the exchange holds, on terms of the same deal.
LEMMA PersistLedger ==
    ASSUME TypeOK, IInv, NEW r \in Req, Persist(r)
    PROVE  Ledger!List(r) \/ UNCHANGED <<exch, row>>
<1>1. CASE UNCHANGED row
  BY <1>1 DEF Persist
<1>2. CASE row' = [row EXCEPT ![r] = [status |-> "OPEN", owner |-> req[r].user,
                                      exid |-> r \in gotId, terms |-> Columns(req[r].terms)]]
  <2>1. /\ exch[r].status # "none" /\ LedgerState(r) = "unlisted"
        /\ exch[r].terms = Struct(req[r].terms) /\ req[r].terms \in Asked
    BY DEF IInv, Standing, Listing, Persist, Recorded, LedgerState, TypeOK, Request
  <2>2. /\ row'[r].status = "OPEN" /\ row'[r].owner = req[r].user
        /\ row'[r].terms = Columns(req[r].terms) /\ req[r].user \in User
        /\ \A t \in Req \ {r} : row'[t] = row[t]
    BY <1>2, <2>1 DEF TypeOK, Request
  <2>a. row'[r].terms \in Listed /\ SameDeal(row'[r].terms, exch[r].terms)
    BY <2>1, <2>2, Conversions
  <2>3. LedgerState(r)' = "open" /\ \A t \in Req \ {r} : LedgerState(t)' = LedgerState(t)
    BY <2>2 DEF LedgerState
  <2>4. UNCHANGED exch
    BY DEF Persist
  <2>5. QED
    BY <2>1, <2>2, <2>a, <2>3, <2>4 DEF Ledger!List
<1>3. QED
  BY <1>1, <1>2 DEF Persist

\* A cancel takes a listed order off the exchange, or finds it gone.
LEMMA WithdrawnLedger ==
    ASSUME TypeOK, NEW t \in Req, Recorded(t), exch' = Withdrawn(t), UNCHANGED row
    PROVE  Ledger!Withdraw(t) \/ UNCHANGED <<exch, row>>
<1>1. CASE exch[t].status = "live"
  <2>1. exch' = [exch EXCEPT ![t].status = "cancelled"]
    BY <1>1 DEF Withdrawn
  <2>2. LedgerState(t) # "unlisted"
    BY DEF Recorded, LedgerState
  <2>3. QED
    BY <1>1, <2>1, <2>2 DEF Ledger!Withdraw, LedgerState
<1>2. CASE exch[t].status # "live"
  BY <1>2 DEF Withdrawn, TypeOK, ExchangeOrder
<1>3. QED
  BY <1>1, <1>2

\* A commit closes the targets that are still open, all of one owner.
LEMMA CancelledLedger ==
    ASSUME TypeOK, NEW targets \in SUBSET Req, NEW u \in User,
           \A t \in targets : Recorded(t) /\ row[t].owner = u,
           row' = Cancelled(targets), UNCHANGED exch
    PROVE  Ledger!Close({t \in targets : LedgerState(t) = "open"})
<1> DEFINE S == {t \in targets : LedgerState(t) = "open"}
<1>1. \A t \in Req : row'[t].owner = row[t].owner /\ row'[t].terms = row[t].terms
  BY CancelledChanges
<1>2. ASSUME NEW t \in Req
      PROVE  LedgerState(t)' = IF t \in S THEN "closed" ELSE LedgerState(t)
  <2>1. row'[t].status = IF t \in targets THEN "CANCELLED" ELSE row[t].status
    BY CancelledChanges
  <2>2. CASE t \in targets
    BY <2>1, <2>2 DEF LedgerState, Recorded
  <2>3. CASE t \notin targets
    BY <2>1, <2>3 DEF LedgerState
  <2>4. QED
    BY <2>2, <2>3
<1>3. QED
  BY <1>1, <1>2 DEF Ledger!Close

\* Every step of the order service is a step of the ledger or a stutter.
LEMMA NextLedger ==
    ASSUME TypeOK, IInv, [Next]_vars
    PROVE  [Ledger!LNext]_(Ledger!lvars)
<1>1. ASSUME NEW r \in Req, PostOrder(r) \/ Persist(r) PROVE [Ledger!LNext]_(Ledger!lvars)
  BY <1>1, PostOrderLedger, PersistLedger, LedgerStutters DEF Ledger!LNext
<1>2. ASSUME NEW r \in Req, CancelAtExchange(r) PROVE [Ledger!LNext]_(Ledger!lvars)
  <2>1. \A t \in req[r].targets : t \in Req /\ Recorded(t)
    BY <1>2 DEF IInv, Closing, CancelAtExchange, TypeOK, Request
  <2>2. QED
    BY <1>2, <2>1, WithdrawnLedger, LedgerStutters DEF CancelAtExchange, Ledger!LNext
<1>3. ASSUME NEW r \in Req, NEW t \in Req, SweepOne(r, t) PROVE [Ledger!LNext]_(Ledger!lvars)
  <2>1. Recorded(t)
    BY <1>3 DEF IInv, Closing, SweepOne
  <2>2. QED
    BY <1>3, <2>1, WithdrawnLedger, LedgerStutters DEF SweepOne, Ledger!LNext
<1>4. ASSUME NEW r \in Req, CommitCancel(r) \/ CommitSweep(r) PROVE [Ledger!LNext]_(Ledger!lvars)
  <2>1. /\ req[r].targets \in SUBSET Req /\ req[r].user \in User
        /\ \A t \in req[r].targets : Recorded(t) /\ row[t].owner = req[r].user
    BY <1>4 DEF IInv, Closing, CommitCancel, CommitSweep, TypeOK, Request
  <2>2. CASE row' = Cancelled(req[r].targets)
    <3> DEFINE S == {t \in req[r].targets : LedgerState(t) = "open"}
    <3>1. Ledger!Close(S)
      BY <1>4, <2>1, <2>2, CancelledLedger DEF CommitCancel, CommitSweep
    <3>2. S \in SUBSET Req
      BY <2>1
    <3>3. QED
      BY <3>1, <3>2 DEF Ledger!LNext
  <2>3. CASE UNCHANGED row
    BY <1>4, <2>3, LedgerStutters DEF CommitCancel, CommitSweep
  <2>4. QED
    BY <1>4, <2>2, <2>3 DEF CommitCancel, CommitSweep
<1>5. ASSUME NEW t \in Req, Fill(t) PROVE [Ledger!LNext]_(Ledger!lvars)
  BY <1>5 DEF Fill, Ledger!Match, Ledger!LNext, LedgerState
<1>6. CASE UNCHANGED <<exch, row>>
  BY <1>6, LedgerStutters
<1>7. QED
  BY <1>1, <1>2, <1>3, <1>4, <1>5, <1>6 DEF Next, Step, vars, PlaceOrder, BuildOrder,
     SubmitOrder, CancelOrder, CancelAllOpen, VerifyAndDelete, Die, ExpireKey, UpgradeTier

\* The order service keeps what OrderLedger promises about every order.
THEOREM Implements == Spec => KeepsLedger
BY InitLedger, NextLedger, TypeCorrect, Inductive, PTL DEF Spec, KeepsLedger, Ledger!LSpec
=============================================================================
