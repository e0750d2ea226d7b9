------------------------- MODULE DomeKeyPoolProofs -------------------------
(***************************************************************************)
(* Proofs about DomeKeyPool for every number of keys, every cooldown and   *)
(* every set of callers.                                                   *)
(***************************************************************************)
EXTENDS DomeKeyPool, TLAPS

\* The pool always has REST keys: reserving them all for WebSockets reserves none.
LEMMA SomeRestKey == RestCount \in Nat \ {0} /\ 0 \in RestKey
BY KeyCountAssumption, WsKeyCountAssumption DEF RestCount, RestKey

\* A key is at most RestCount - 1 places ahead of the counter.
LEMMA AheadInRange ==
    ASSUME NEW k \in RestKey, restIndex \in RestKey
    PROVE  Ahead(k) \in 0 .. RestCount - 1
BY SomeRestKey DEF Ahead, RestKey

\* The same after a step.
LEMMA AheadInRangeNext ==
    ASSUME NEW k \in RestKey, restIndex' \in RestKey
    PROVE  Ahead(k)' \in 0 .. RestCount - 1
<1>1. PICK i \in RestKey : i = restIndex'
  OBVIOUS
<1>2. Ahead(k)' = IF k >= i THEN k - i ELSE k + RestCount - i
  BY <1>1 DEF Ahead
<1>3. QED
  BY <1>2, SomeRestKey DEF RestKey

\* Moving the counter behind an earlier key brings a key nearer.
LEMMA AheadAdvances ==
    ASSUME NEW k \in RestKey, NEW j \in RestKey, restIndex \in RestKey,
           Ahead(k) <= Ahead(j), j # k,
           restIndex' = IF k + 1 = RestCount THEN 0 ELSE k + 1
    PROVE  Ahead(j)' < Ahead(j)
BY SomeRestKey DEF Ahead, RestKey

\* A handout keeps the counter on a key.
LEMMA PickTypes ==
    ASSUME NEW k \in RestKey, NEW rests, restIndex \in RestKey, Pick(rests, k)
    PROVE  restIndex' \in RestKey
BY SomeRestKey DEF Pick, RestKey

\* Reporting a key sets its cooldown and no other.
LEMMA ReportedTypes ==
    ASSUME NEW k \in RestKey, TypeOK
    PROVE  Reported(k) \in [RestKey -> 0 .. Cooldown]
BY CooldownAssumption DEF TypeOK, Reported

\* A request that goes out keeps the types.
LEMMA SendsTypes ==
    ASSUME TypeOK, NEW c \in Caller, NEW request \in {"first", "second"},
           NEW rests \in [RestKey -> 0 .. Cooldown], NEW k \in RestKey,
           Sends(c, request, rests, k)
    PROVE  TypeOK'
<1>1. restIndex' \in RestKey
  BY PickTypes DEF Sends, TypeOK
<1>2. waits' \in [RestKey -> Nat]
  BY DEF Sends, Passed, TypeOK
<1>3. QED
  BY <1>1, <1>2 DEF Sends, TypeOK

\* Init establishes the types.
LEMMA InitTypeOK == Init => TypeOK
BY SomeRestKey, CooldownAssumption DEF Init, TypeOK

\* Every step preserves the types.
LEMMA NextTypeOK == TypeOK /\ [Next]_vars => TypeOK'
<1> SUFFICES ASSUME TypeOK, [Next]_vars PROVE TypeOK'
  OBVIOUS
<1>1. ASSUME NEW c \in Caller, Request(c) PROVE TypeOK'
  <2>1. PICK k \in RestKey : Sends(c, "first", cool, k)
    BY <1>1 DEF Request
  <2>2. QED
    BY <2>1, SendsTypes DEF TypeOK
<1>2. ASSUME NEW c \in Caller, Retry(c) PROVE TypeOK'
  <2>1. PICK k \in RestKey : Sends(c, "second", Reported(key[c]), k)
    BY <1>2 DEF Retry
  <2>2. key[c] \in RestKey
    BY DEF TypeOK
  <2>3. QED
    BY <2>1, <2>2, SendsTypes, ReportedTypes
<1>3. ASSUME NEW c \in Caller, Answer(c) PROVE TypeOK'
  BY <1>3 DEF Answer, TypeOK
<1>4. CASE Tick
  BY <1>4, CooldownAssumption DEF Tick, TypeOK
<1>5. CASE UNCHANGED vars
  BY <1>5 DEF vars, TypeOK
<1>6. QED
  BY <1>1, <1>2, <1>3, <1>4, <1>5 DEF Next

\* The state of the pool always has the types TypeOK gives it.
THEOREM TypeCorrect == Spec => []TypeOK
BY InitTypeOK, NextTypeOK, PTL DEF Spec
-----------------------------------------------------------------------------
\* What a key has waited and what it still has to wait never exceed one round.
Turns ==
    \A k \in RestKey : /\ cool[k] > 0 => waits[k] = 0
                       /\ waits[k] + Ahead(k) < RestCount

IInv == TypeOK /\ Turns

\* A handout keeps the rounds: a key passed over has come nearer.
LEMMA SendsTurns ==
    ASSUME IInv, TypeOK', NEW c \in Caller, NEW request,
           NEW rests \in [RestKey -> 0 .. Cooldown], NEW k \in RestKey,
           \A j \in RestKey : rests[j] = cool[j] \/ rests[j] > 0,
           Sends(c, request, rests, k)
    PROVE  Turns'
<1> USE DEF IInv
<1> SUFFICES ASSUME NEW j \in RestKey
             PROVE  /\ cool'[j] > 0 => waits'[j] = 0
                    /\ waits'[j] + Ahead(j)' < RestCount
  BY DEF Turns
<1>1. waits'[j] = IF j = k \/ rests[j] > 0 THEN 0 ELSE waits[j] + 1
  BY DEF Sends, Passed
<1>2. Ahead(j)' \in 0 .. RestCount - 1
  BY AheadInRangeNext DEF TypeOK
<1>3. CASE j = k \/ rests[j] > 0
  BY <1>1, <1>2, <1>3, SomeRestKey DEF Sends, RestKey
<1>4. CASE j # k /\ ~(rests[j] > 0)
  <2>1. rests[j] = 0 /\ rests[j] \in 0 .. Cooldown
    BY <1>4, CooldownAssumption
  <2>2. /\ \A i \in RestKey : Ahead(i) < Ahead(k) => rests[i] > 0
        /\ restIndex' = IF k + 1 = RestCount THEN 0 ELSE k + 1
    BY <1>4 DEF Sends, Pick
  <2>3. Ahead(k) \in 0 .. RestCount - 1 /\ Ahead(j) \in 0 .. RestCount - 1
    BY AheadInRange DEF TypeOK
  <2>4. Ahead(k) <= Ahead(j)
    BY <1>4, <2>2, <2>3, SomeRestKey
  <2>5. Ahead(j)' < Ahead(j)
    BY <1>4, <2>2, <2>4, AheadAdvances DEF TypeOK
  <2>6. waits[j] + Ahead(j) < RestCount /\ waits[j] \in Nat
    BY DEF Turns, TypeOK
  <2>7. cool' = rests
    BY DEF Sends
  <2>8. QED
    BY <1>1, <1>2, <1>4, <2>1, <2>3, <2>5, <2>6, <2>7, SomeRestKey
<1>5. QED
  BY <1>3, <1>4

\* At the start no key has waited.
LEMMA InitTurns == Init => Turns
BY SomeRestKey DEF Init, Turns, Ahead, RestKey

\* Every step keeps the rounds.
LEMMA NextTurns == IInv /\ TypeOK' /\ [Next]_vars => Turns'
<1> SUFFICES ASSUME IInv, TypeOK', [Next]_vars PROVE Turns'
  OBVIOUS
<1>1. ASSUME NEW c \in Caller, Request(c) PROVE Turns'
  <2>1. PICK k \in RestKey : Sends(c, "first", cool, k)
    BY <1>1 DEF Request
  <2>2. cool \in [RestKey -> 0 .. Cooldown]
    BY DEF IInv, TypeOK
  <2>3. QED
    BY <2>1, <2>2, SendsTurns
<1>2. ASSUME NEW c \in Caller, Retry(c) PROVE Turns'
  <2>1. PICK k \in RestKey : Sends(c, "second", Reported(key[c]), k)
    BY <1>2 DEF Retry
  <2>2. key[c] \in RestKey /\ cool \in [RestKey -> 0 .. Cooldown]
    BY DEF IInv, TypeOK
  <2>3. Reported(key[c]) \in [RestKey -> 0 .. Cooldown]
    BY <2>2, ReportedTypes DEF IInv
  <2>4. \A j \in RestKey : Reported(key[c])[j] = cool[j] \/ Reported(key[c])[j] > 0
    BY <2>2, CooldownAssumption DEF Reported
  <2>5. QED
    BY <2>1, <2>3, <2>4, SendsTurns
<1>3. ASSUME NEW c \in Caller, Answer(c) PROVE Turns'
  BY <1>3 DEF Answer, IInv, Turns, Ahead
<1>4. CASE Tick
  <2>1. \A k \in RestKey : cool[k] \in 0 .. Cooldown /\ (cool'[k] > 0 => cool[k] > 0)
    BY <1>4, CooldownAssumption DEF Tick, IInv, TypeOK
  <2>2. QED
    BY <1>4, <2>1 DEF Tick, IInv, Turns, Ahead
<1>5. CASE UNCHANGED vars
  BY <1>5 DEF vars, IInv, Turns, Ahead
<1>6. QED
  BY <1>1, <1>2, <1>3, <1>4, <1>5 DEF Next

\* The strengthened invariant holds in every reachable state.
THEOREM Inductive == Spec => []IInv
<1>1. Init => IInv
  BY InitTypeOK, InitTurns DEF IInv
<1>2. IInv /\ [Next]_vars => IInv'
  BY NextTypeOK, NextTurns DEF IInv
<1>3. QED
  BY <1>1, <1>2, PTL DEF Spec

\* Rotation is fair for any number of keys: no available key is passed over a
\* whole round (_pick).
THEOREM FairRotation == Spec => []RotationIsFair
<1>1. IInv => RotationIsFair
  <2> SUFFICES ASSUME IInv, NEW k \in RestKey PROVE waits[k] < RestCount
    BY DEF RotationIsFair
  <2>1. waits[k] \in Nat /\ waits[k] + Ahead(k) < RestCount
    BY DEF IInv, Turns, TypeOK
  <2>2. Ahead(k) \in 0 .. RestCount - 1
    BY AheadInRange DEF IInv, TypeOK
  <2>3. QED
    BY <2>1, <2>2, SomeRestKey
<1>2. QED
  BY <1>1, Inductive, PTL
-----------------------------------------------------------------------------
\* A retry with the same key means that every key was limited just now
\* (DomeClient._request).
THEOREM RetryChanges == Spec => RetryChangesKey
<1> DEFINE Changed(c) ==
        at[c] = "first" /\ at'[c] = "second" /\ key'[c] = key[c] =>
            \A k \in RestKey : cool'[k] = Cooldown
<1>1. ASSUME TypeOK, [Next]_vars, NEW c \in Caller, Retry(c) PROVE Changed(c)
  <2>1. PICK k \in RestKey : Sends(c, "second", Reported(key[c]), k)
    BY <1>1 DEF Retry
  <2>2. key'[c] = k /\ cool' = Reported(key[c])
    BY <1>1, <2>1 DEF Sends, TypeOK
  <2> SUFFICES ASSUME key'[c] = key[c], NEW j \in RestKey PROVE cool'[j] = Cooldown
    OBVIOUS
  <2>3. k = key[c] /\ cool'[k] = Cooldown
    BY <1>1, <2>1, <2>2 DEF Reported, TypeOK
  <2>4. cool' \in [RestKey -> 0 .. Cooldown]
    BY <1>1, <2>1, <2>2, <2>3, ReportedTypes
  <2>5. CASE Cooldown = 0
    <3>1. cool'[j] \in 0 .. 0
      BY <2>4, <2>5
    <3>2. QED
      BY <2>5, <3>1
  <2>6. CASE Cooldown > 0
    <3>1. Reported(key[c])[k] <= Reported(key[c])[j]
      BY <2>1, <2>2, <2>3, <2>6, CooldownAssumption DEF Sends, Pick
    <3>2. QED
      BY <2>2, <2>3, <2>4, <3>1, CooldownAssumption
  <2>7. QED
    BY <2>5, <2>6, CooldownAssumption
<1>2. ASSUME TypeOK, [Next]_vars, NEW c \in Caller PROVE Changed(c)
  <2> SUFFICES ASSUME at[c] = "first", at'[c] = "second", ~Retry(c) PROVE FALSE
    BY <1>1, <1>2
  <2>1. PICK d \in Caller : Request(d) \/ Retry(d) \/ Answer(d)
    BY <1>2 DEF Next, Tick, vars
  <2>2. CASE Request(d)
    BY <1>2, <2>2 DEF Request, Sends, TypeOK
  <2>3. CASE Retry(d)
    BY <1>2, <2>3 DEF Retry, Sends, TypeOK
  <2>4. CASE Answer(d)
    BY <1>2, <2>4 DEF Answer, TypeOK
  <2>5. QED
    BY <2>1, <2>2, <2>3, <2>4
<1>3. ASSUME TypeOK, [Next]_vars
      PROVE  [\A c \in Caller : Changed(c)]_vars
  BY <1>2, <1>3
<1>4. QED
  BY <1>3, TypeCorrect, PTL DEF Spec, RetryChangesKey
=============================================================================
