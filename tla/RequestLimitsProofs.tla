------------------------- MODULE RequestLimitsProofs -------------------------
(***************************************************************************)
(* Proofs about RequestLimits for every finite set of requests, all        *)
(* addresses and users, every limit and any number of days.                *)
(***************************************************************************)
EXTENDS RequestLimits, FiniteSetTheorems, TLAPS

QuotaKeys == {"quota"} \X User \X Day

\* The names of the counters.
LEMMA KeyFacts ==
    /\ \A i \in Ip : IpKey(i) \in Keys /\ IpKey(i) \notin DailyKeys
    /\ \A i, j \in Ip : IpKey(i) = IpKey(j) => i = j
    /\ day \in Day => \A u \in User : /\ UsageKey(u) \in DailyKeys \ QuotaKeys
                                      /\ QuotaKey(u) \in QuotaKeys /\ QuotaKey(u)[3] = day
    /\ QuotaKeys \subseteq DailyKeys /\ DailyKeys \subseteq Keys
    /\ \A k \in QuotaKeys : k[3] \in Nat
BY DayAssumption DEF IpKey, UsageKey, QuotaKey, QuotaKeys, DailyKeys, Keys, Day

\* Init establishes the types.
LEMMA InitTypeOK == Init => TypeOK
BY KeyFacts, DayAssumption DEF Init, TypeOK, Day

\* Every step preserves the types.
LEMMA NextTypeOK == TypeOK /\ [Next]_vars => TypeOK'
<1> SUFFICES ASSUME TypeOK, [Next]_vars PROVE TypeOK'
  OBVIOUS
<1> USE DEF history, Moves
<1>1. ASSUME NEW r \in Req, CountCall(r)
      PROVE  TypeOK'
  <2>1. IpKey(from[r]) \in Keys
    BY KeyFacts DEF TypeOK
  <2>2. QED
    BY <1>1, <2>1 DEF CountCall, Incr, TypeOK, Awaiting, Sealing
<1>2. ASSUME NEW r \in Req, NEW u \in User, TrackUsage(r, u) \/ ReadQuota(r, u)
      PROVE  TypeOK'
  <2>1. UsageKey(u) \in Keys /\ QuotaKey(u) \in Keys
    BY KeyFacts DEF TypeOK
  <2>2. CASE TrackUsage(r, u)
    BY <2>1, <2>2 DEF TrackUsage, Incr, TypeOK, Awaiting, Sealing
  <2>3. CASE ReadQuota(r, u)
    BY <2>1, <2>3 DEF ReadQuota, TypeOK, Awaiting, Ended, AllowedOn
  <2>4. QED
    BY <1>2, <2>2, <2>3
<1>3. ASSUME NEW r \in Req,
             \/ TimeCalls(r) \/ CheckCalls(r) \/ SkipTracking(r) \/ CheckUsageTtl(r)
             \/ StampUsage(r) \/ TrackingFails(r) \/ Serve(r) \/ Die(r)
      PROVE  TypeOK'
  BY <1>3 DEF TimeCalls, CheckCalls, SkipTracking, CheckUsageTtl, StampUsage, TrackingFails,
              Serve, Die, Expire, Abandons, TypeOK, Awaiting, Sealing, Ended
<1>4. ASSUME NEW r \in Req, SpendQuota(r) \/ SealQuota(r)
      PROVE  TypeOK'
  BY <1>4 DEF SpendQuota, SealQuota, Incr, Expire, TypeOK, Awaiting, Sealing, Ended
<1>5. CASE NextDay
  BY <1>5, DayAssumption DEF NextDay, TypeOK, Day
<1>6. ASSUME NEW k \in Keys, Lapse(k)
      PROVE  TypeOK'
  BY <1>6 DEF Lapse, TypeOK
<1>7. CASE UNCHANGED vars
  BY <1>7 DEF vars, TypeOK
<1>8. QED
  BY <1>1, <1>2, <1>3, <1>4, <1>5, <1>6, <1>7 DEF Next, Step

\* The counters always have the types TypeOK gives them.
THEOREM TypeCorrect == Spec => []TypeOK
BY InitTypeOK, NextTypeOK, PTL DEF Spec
-----------------------------------------------------------------------------
\* The number a call was given is within its counter while that lives, and no
\* larger than the limit if the call got through.
Numbered(r) ==
    LET k == IpKey(from[r]) IN
    /\ at[r] = "idle" => calls[r] = 0
    /\ at[r] \in {"timing", "checking"} => calls[r] > 0
    /\ calls[r] > 0 => born[r] <= life[k]
    /\ calls[r] > 0 /\ born[r] = life[k] => calls[r] <= count[k]
    /\ r \in passed => calls[r] \in 1 .. DAILY_LIMIT_FREE

\* No two calls of one life of a counter have the same number.
NumbersDiffer ==
    \A r, s \in Req : /\ calls[r] > 0 /\ calls[s] > 0
                      /\ from[r] = from[s] /\ born[r] = born[s] /\ calls[r] = calls[s]
                      => r = s

\* The requests that have spent from the quota k, and are not lost.
Spent(k) == {r \in Req : key[r] = k /\ (r \in granted \/ at[r] = "sealing")}

\* A request that reads, or has read, enough quota is concerned with a quota.
Keyed(r) ==
    /\ at[r] \in {"spending", "sealing"} \/ r \in granted =>
         key[r] \in QuotaKeys /\ Cardinality(ahead[r]) < AnalysisLimit
    /\ r \in granted => at[r] = "served"

\* Until its day is over, a quota counts at least what was spent from it.
Counted(k) == day <= k[3] => Cardinality(Spent(k)) <= count[k]

IInv ==
    /\ TypeOK
    /\ NumbersDiffer
    /\ UntimedHasCause
    /\ \A r \in Req : Numbered(r) /\ Keyed(r)
    /\ \A k \in QuotaKeys : Counted(k)

\* Sets of requests are finite.
LEMMA RequestSets ==
    ASSUME NEW S \in SUBSET Req
    PROVE  IsFiniteSet(S) /\ Cardinality(S) \in Nat
BY ReqAssumption, FS_Subset, FS_CardinalityType

\* Init establishes the invariant.
LEMMA InitIInv == Init => IInv
<1> SUFFICES ASSUME Init PROVE IInv
  OBVIOUS
<1>1. \A k \in QuotaKeys : Counted(k)
  <2> TAKE k \in QuotaKeys
  <2>1. Spent(k) = {}
    BY DEF Init, Spent
  <2>2. Cardinality(Spent(k)) = 0
    BY <2>1, FS_EmptySet
  <2>3. count[k] = 0
    BY KeyFacts DEF Init
  <2>4. QED
    BY <2>2, <2>3 DEF Counted
<1>2. \A r \in Req : Numbered(r) /\ Keyed(r)
  BY DEF Init, Numbered, Keyed
<1>3. NumbersDiffer /\ UntimedHasCause
  BY DEF Init, NumbersDiffer, UntimedHasCause
<1>4. QED
  BY <1>1, <1>2, <1>3, InitTypeOK DEF IInv

\* The steps other than the count of a call give no number; counters only move
\* up in one life.
LEMMA NumbersKept ==
    ASSUME IInv, [Next]_vars, \A r \in Req : ~CountCall(r)
    PROVE  /\ UNCHANGED <<from, calls, born>>
           /\ \A r \in Req : at'[r] = "idle" => at[r] = "idle"
           /\ \A r \in Req : at'[r] \in {"timing", "checking"} => at[r] \in {"timing", "checking"}
           /\ \A k \in Keys : \/ life'[k] = life[k] /\ count'[k] >= count[k]
                              \/ life'[k] > life[k]
<1> USE DEF history, Moves
<1> TypeOK
  BY DEF IInv
<1>1. ASSUME NEW r \in Req, NEW u \in User, TrackUsage(r, u) \/ ReadQuota(r, u)
      PROVE  /\ UNCHANGED <<from, calls, born, life>>
             /\ \A s \in Req : at'[s] # at[s] => at'[s] \notin {"idle", "timing", "checking"}
             /\ \A k \in Keys : count'[k] >= count[k]
  BY <1>1 DEF TrackUsage, ReadQuota, Incr, TypeOK
<1>2. ASSUME NEW r \in Req, SpendQuota(r)
      PROVE  /\ UNCHANGED <<from, calls, born, life>>
             /\ \A s \in Req : at'[s] # at[s] => at'[s] \notin {"idle", "timing", "checking"}
             /\ \A k \in Keys : count'[k] >= count[k]
  BY <1>2 DEF SpendQuota, Incr, TypeOK
<1>3. ASSUME NEW r \in Req,
             \/ TimeCalls(r) \/ CheckCalls(r) \/ SkipTracking(r) \/ CheckUsageTtl(r)
             \/ StampUsage(r) \/ TrackingFails(r) \/ Serve(r) \/ Die(r) \/ SealQuota(r)
      PROVE  /\ UNCHANGED <<from, calls, born, life, count>>
             /\ \A s \in Req : at'[s] # at[s] =>
                  /\ at'[s] \notin {"idle", "timing"}
                  /\ at'[s] = "checking" => at[s] = "timing"
  BY <1>3 DEF TimeCalls, CheckCalls, SkipTracking, CheckUsageTtl, StampUsage, TrackingFails,
              Serve, Die, SealQuota, TypeOK
<1>4. ASSUME NEW k \in Keys, Lapse(k)
      PROVE  /\ UNCHANGED <<from, calls, born, at>>
             /\ \A j \in Keys : \/ life'[j] = life[j] /\ count'[j] >= count[j]
                                \/ life'[j] > life[j]
  BY <1>4 DEF Lapse, TypeOK
<1>5. CASE NextDay \/ UNCHANGED vars
  BY <1>5 DEF NextDay, vars, TypeOK
<1>6. QED
  BY <1>1, <1>2, <1>3, <1>4, <1>5 DEF Next, Step, TypeOK

\* The numbers of the calls of an address stay different and within bounds.
LEMMA NextNumbers ==
    ASSUME IInv, [Next]_vars
    PROVE  NumbersDiffer' /\ \A r \in Req : Numbered(r)'
<1> USE DEF history, Moves
<1>0. /\ TypeOK /\ NumbersDiffer /\ \A r \in Req : Numbered(r)
      /\ \A r \in Req : IpKey(from[r]) \in Keys
  BY KeyFacts DEF IInv, TypeOK
<1>1. ASSUME NEW r \in Req, CountCall(r)
      PROVE  NumbersDiffer' /\ \A s \in Req : Numbered(s)'
  <2> DEFINE k == IpKey(from[r])
  <2>1. /\ at[r] = "idle" /\ calls[r] = 0
        /\ count' = [count EXCEPT ![k] = @ + 1]
        /\ calls' = [calls EXCEPT ![r] = count[k] + 1]
        /\ born' = [born EXCEPT ![r] = life[k]]
        /\ UNCHANGED <<from, life, passed>>
        /\ at'[r] \in {"timing", "checking"} /\ \A s \in Req \ {r} : at'[s] = at[s]
    BY <1>0, <1>1 DEF CountCall, Incr, Numbered, TypeOK
  <2>2. k \in Keys /\ count[k] \in Nat /\ life[k] \in Nat
    BY <1>0 DEF TypeOK
  <2>3. Numbered(r)'
    <3>1. calls'[r] = count[k] + 1 /\ count'[k] = count[k] + 1 /\ born'[r] = life[k]
      BY <1>0, <2>1, <2>2 DEF TypeOK
    <3>2. r \notin passed
      BY <1>0, <2>1 DEF Numbered
    <3>3. QED
      BY <2>1, <2>2, <3>1, <3>2 DEF Numbered
  <2>4. ASSUME NEW s \in Req, s # r
        PROVE  Numbered(s)' /\ (calls[s] > 0 /\ from[s] = from[r] /\ born[s] = life[k] =>
                                  calls[s] # count[k] + 1)
    <3>1. /\ calls'[s] = calls[s] /\ born'[s] = born[s] /\ at'[s] = at[s]
          /\ IpKey(from[s]) \in Keys /\ calls[s] \in Nat
          /\ count[IpKey(from[s])] \in Nat
      BY <1>0, <2>1, <2>4 DEF TypeOK
    <3>2. count'[IpKey(from[s])] >= count[IpKey(from[s])]
      BY <1>0, <2>1, <2>2, <3>1 DEF TypeOK
    <3>3. QED
      BY <1>0, <2>1, <2>2, <3>1, <3>2 DEF Numbered, TypeOK
  <2>5. NumbersDiffer'
    BY <1>0, <2>1, <2>2, <2>4 DEF NumbersDiffer, TypeOK
  <2>6. QED
    BY <2>3, <2>4, <2>5
<1>2. CASE \A r \in Req : ~CountCall(r)
  <2>1. NumbersDiffer'
    BY <1>0, <1>2, NumbersKept DEF NumbersDiffer
  <2>2. ASSUME NEW r \in Req
        PROVE  Numbered(r)'
    <3>1. r \in passed' => r \in passed \/ CheckCalls(r)
      BY <1>0 DEF Next, Step, CountCall, TrackUsage, ReadQuota, TimeCalls, CheckCalls, SkipTracking,
                  CheckUsageTtl, StampUsage, TrackingFails, Serve, SpendQuota, SealQuota,
                  Die, NextDay, Lapse, vars, TypeOK
    <3>2. r \in passed' => calls[r] \in 1 .. DAILY_LIMIT_FREE
      BY <1>0, <3>1, LimitAssumption DEF CheckCalls, Numbered, TypeOK
    <3>3. /\ UNCHANGED <<from, calls, born>>
          /\ at'[r] = "idle" => at[r] = "idle"
          /\ at'[r] \in {"timing", "checking"} => at[r] \in {"timing", "checking"}
      BY <1>2, NumbersKept
    <3>4. ASSUME NEW k, k = IpKey(from[r])
          PROVE  \/ life'[k] = life[k] /\ count'[k] >= count[k]
                 \/ life'[k] > life[k]
      BY <1>0, <1>2, <3>4, NumbersKept
    <3>5. ASSUME NEW k, k = IpKey(from[r])
          PROVE  /\ calls[r] > 0 => born[r] <= life'[k]
                 /\ calls[r] > 0 /\ born[r] = life'[k] => calls[r] <= count'[k]
      <4>1. /\ k \in Keys /\ calls[r] \in Nat /\ born[r] \in Nat
            /\ count[k] \in Nat /\ life[k] \in Nat /\ count'[k] \in Nat /\ life'[k] \in Nat
        BY <1>0, <3>5, NextTypeOK DEF TypeOK
      <4>2. /\ calls[r] > 0 => born[r] <= life[k]
            /\ calls[r] > 0 /\ born[r] = life[k] => calls[r] <= count[k]
        BY <1>0, <3>5 DEF Numbered
      <4>3. QED
        BY <3>4, <3>5, <4>1, <4>2
    <3>6. QED
      BY <1>0, <3>2, <3>3, <3>5 DEF Numbered, IpKey
  <2>3. QED
    BY <2>1, <2>2
<1>3. QED
  BY <1>1, <1>2

\* What a request is concerned with, and what it read of the quota.
LEMMA NextKeyed ==
    ASSUME IInv, [Next]_vars, NEW r \in Req
    PROVE  Keyed(r)'
<1> USE DEF history, Moves
<1>0. TypeOK /\ Keyed(r)
  BY DEF IInv
<1>1. ASSUME NEW s \in Req, NEW u \in User, ReadQuota(s, u)
      PROVE  Keyed(r)'
  <2> DEFINE k == QuotaKey(u)
  <2>1. k \in QuotaKeys /\ k \in Keys /\ k[3] = day /\ day \in Nat
    BY <1>0, KeyFacts, DayAssumption DEF TypeOK, Day
  <2>2. Cardinality(Spent(k)) <= count[k] /\ count[k] \in Nat
    BY <2>1, <1>0 DEF IInv, Counted, TypeOK
  <2>3. AllowedOn(k) \subseteq Spent(k) /\ Spent(k) \subseteq Req
    BY <1>0 DEF AllowedOn, Spent, TypeOK
  <2>4. Cardinality(AllowedOn(k)) <= count[k] /\ Cardinality(AllowedOn(k)) \in Nat
    <3>1. IsFiniteSet(Spent(k)) /\ Cardinality(Spent(k)) \in Nat
      BY <2>3, RequestSets
    <3>2. /\ Cardinality(AllowedOn(k)) <= Cardinality(Spent(k))
          /\ Cardinality(AllowedOn(k)) \in Nat
      BY <2>3, <3>1, FS_Subset, RequestSets
    <3>3. QED
      BY <2>2, <3>1, <3>2
  <2>5. count[k] < AnalysisLimit => Cardinality(AllowedOn(k)) < AnalysisLimit
    BY <2>2, <2>4, LimitAssumption
  <2>6. CASE r = s
    <3>1. /\ key'[r] = k /\ ahead'[r] = AllowedOn(k) /\ r \notin granted'
          /\ at'[r] \in {"refused", "spending"}
          /\ at'[r] = "spending" => count[k] < AnalysisLimit
      BY <1>0, <1>1, <2>2, <2>6, LimitAssumption DEF ReadQuota, Keyed, TypeOK
    <3>2. QED
      BY <2>1, <2>5, <3>1 DEF Keyed
  <2>7. CASE r # s
    BY <1>0, <1>1, <2>7 DEF ReadQuota, Keyed, TypeOK
  <2>8. QED
    BY <2>6, <2>7
<1>2. ASSUME NEW s \in Req, NEW u \in User, TrackUsage(s, u)
      PROVE  Keyed(r)'
  BY <1>0, <1>2 DEF TrackUsage, Incr, Keyed, TypeOK
<1>3. ASSUME NEW s \in Req, CountCall(s)
      PROVE  Keyed(r)'
  BY <1>0, <1>3 DEF CountCall, Incr, Keyed, TypeOK
<1>4. ASSUME NEW s \in Req, SpendQuota(s) \/ SealQuota(s)
      PROVE  Keyed(r)'
  BY <1>0, <1>4 DEF SpendQuota, SealQuota, Incr, Keyed, TypeOK
<1>5. ASSUME NEW s \in Req,
             \/ TimeCalls(s) \/ CheckCalls(s) \/ SkipTracking(s) \/ CheckUsageTtl(s)
             \/ StampUsage(s) \/ TrackingFails(s) \/ Serve(s) \/ Die(s)
      PROVE  Keyed(r)'
  BY <1>0, <1>5 DEF TimeCalls, CheckCalls, SkipTracking, CheckUsageTtl, StampUsage,
                    TrackingFails, Serve, Die, Keyed, Awaiting, Sealing, TypeOK
<1>6. CASE NextDay \/ (\E k \in Keys : Lapse(k)) \/ UNCHANGED vars
  BY <1>0, <1>6 DEF NextDay, Lapse, vars, Keyed
<1>7. QED
  BY <1>1, <1>2, <1>3, <1>4, <1>5, <1>6 DEF Next, Step

\* A quota keeps counting what is spent from it.
LEMMA NextCounted ==
    ASSUME IInv, [Next]_vars, NEW k \in QuotaKeys
    PROVE  Counted(k)'
<1> USE DEF history, Moves
<1>0. /\ TypeOK /\ Counted(k) /\ \A r \in Req : Keyed(r)
      /\ k \in Keys /\ k \in DailyKeys /\ k[3] \in Nat
      /\ day \in Nat /\ day' \in Nat /\ day <= day'
      /\ count[k] \in Nat /\ count'[k] \in Nat
      /\ Cardinality(Spent(k)) \in Nat
  <2>1. TypeOK /\ TypeOK'
    BY NextTypeOK DEF IInv
  <2>2. k \in Keys /\ k \in DailyKeys /\ k[3] \in Nat
    BY KeyFacts
  <2>3. day \in Nat /\ day' \in Nat
    BY <2>1, DayAssumption DEF TypeOK, Day
  <2>4. day' = day \/ NextDay
    BY DEF Next, Step, CountCall, TrackUsage, ReadQuota, TimeCalls, CheckCalls, SkipTracking,
           CheckUsageTtl, StampUsage, TrackingFails, Serve, SpendQuota, SealQuota, Die, Lapse,
           vars
  <2>5. day <= day'
    BY <2>3, <2>4 DEF NextDay
  <2>6. Spent(k) \in SUBSET Req
    BY DEF Spent
  <2>7. QED
    BY <2>1, <2>2, <2>3, <2>5, <2>6, RequestSets DEF IInv, TypeOK
<1>1. ASSUME NEW r \in Req, SpendQuota(r)
      PROVE  Counted(k)'
  <2>1. /\ day' = day /\ key' = key
        /\ count'[k] = IF key[r] = k THEN count[k] + 1 ELSE count[k]
        /\ Spent(k)' = IF key[r] = k THEN Spent(k) \cup {r} ELSE Spent(k)
    BY <1>0, <1>1 DEF SpendQuota, Incr, Spent, Keyed, TypeOK
  <2>2. Cardinality(Spent(k) \cup {r}) <= Cardinality(Spent(k)) + 1
    <3>1. IsFiniteSet(Spent(k))
      BY RequestSets DEF Spent
    <3>2. Cardinality(Spent(k) \cup {r})
            \in {Cardinality(Spent(k)), Cardinality(Spent(k)) + 1}
      BY <3>1, FS_AddElement
    <3>3. PICK c \in Nat : c = Cardinality(Spent(k))
      BY <1>0
    <3>4. c <= c + 1 /\ c + 1 <= c + 1
      OBVIOUS
    <3>5. QED
      BY <3>2, <3>3, <3>4
  <2>3. IsFiniteSet(Spent(k) \cup {r}) /\ Cardinality(Spent(k) \cup {r}) \in Nat
    BY RequestSets DEF Spent
  <2>4. QED
    BY <1>0, <2>1, <2>2, <2>3 DEF Counted
<1>2. ASSUME Spent(k)' \subseteq Spent(k), count'[k] >= count[k]
      PROVE  Counted(k)'
  <2>1. IsFiniteSet(Spent(k)) /\ Spent(k)' \in SUBSET Spent(k)
    BY <1>2, RequestSets DEF Spent
  <2>2. ASSUME NEW T \in SUBSET Spent(k)
        PROVE  Cardinality(T) <= Cardinality(Spent(k)) /\ Cardinality(T) \in Nat
    <3>1. IsFiniteSet(T) /\ Cardinality(T) <= Cardinality(Spent(k))
      BY <2>1, FS_Subset
    <3>2. QED
      BY <3>1, FS_CardinalityType
  <2>3. /\ Cardinality(Spent(k)') <= Cardinality(Spent(k))
        /\ Cardinality(Spent(k)') \in Nat
    BY <2>1, <2>2
  <2>4. QED
    BY <1>0, <1>2, <2>3 DEF Counted
<1>3. ASSUME NEW r \in Req, NEW u \in User, ReadQuota(r, u) \/ TrackUsage(r, u)
      PROVE  Counted(k)'
  <2>1. Spent(k)' \subseteq Spent(k)
    BY <1>0, <1>3 DEF ReadQuota, TrackUsage, Incr, Spent, Keyed, TypeOK
  <2>2. count'[k] >= count[k]
    BY <1>0, <1>3 DEF ReadQuota, TrackUsage, Incr, TypeOK
  <2>3. QED
    BY <1>2, <2>1, <2>2
<1>4. ASSUME NEW r \in Req, CountCall(r)
      PROVE  Counted(k)'
  <2>1. Spent(k)' \subseteq Spent(k)
    BY <1>0, <1>4 DEF CountCall, Incr, Spent, Keyed, TypeOK
  <2>2. count'[k] >= count[k]
    BY <1>0, <1>4 DEF CountCall, Incr, TypeOK
  <2>3. QED
    BY <1>2, <2>1, <2>2
<1>5. ASSUME NEW r \in Req,
             \/ TimeCalls(r) \/ CheckCalls(r) \/ SkipTracking(r) \/ CheckUsageTtl(r)
             \/ StampUsage(r) \/ TrackingFails(r) \/ Serve(r) \/ SealQuota(r) \/ Die(r)
      PROVE  Counted(k)'
  <2>1. Spent(k)' \subseteq Spent(k)
    BY <1>0, <1>5 DEF TimeCalls, CheckCalls, SkipTracking, CheckUsageTtl, StampUsage,
                      TrackingFails, Serve, SealQuota, Die, Spent, TypeOK
  <2>2. count' = count
    BY <1>5 DEF TimeCalls, CheckCalls, SkipTracking, CheckUsageTtl, StampUsage,
                TrackingFails, Serve, SealQuota, Die
  <2>3. QED
    BY <1>0, <1>2, <2>1, <2>2
<1>6. ASSUME NEW j \in Keys, Lapse(j)
      PROVE  Counted(k)'
  <2>1. day' = day /\ Spent(k)' = Spent(k) /\ (j = k => ~(day <= k[3]))
    BY <1>0, <1>6 DEF Lapse, Spent
  <2>2. j # k => count'[k] = count[k]
    BY <1>0, <1>6 DEF Lapse, TypeOK
  <2>3. QED
    BY <1>0, <2>1, <2>2 DEF Counted
<1>7. CASE NextDay \/ UNCHANGED vars
  BY <1>0, <1>2, <1>7 DEF NextDay, vars, Spent
<1>8. QED
  BY <1>1, <1>3, <1>4, <1>5, <1>6, <1>7 DEF Next, Step

\* A counter without a time to live keeps its cause.
LEMMA NextUntimed == IInv /\ [Next]_vars => UntimedHasCause'
<1> SUFFICES ASSUME IInv, [Next]_vars, NEW k \in Keys, count'[k] > 0, k \notin timed'
             PROVE  k \in cut' \/ \E r \in Req : key'[r] = k /\ at'[r] \in Sealing
  BY DEF UntimedHasCause
<1> USE DEF history, Moves
<1>0. TypeOK
  BY DEF IInv
<1>1. count[k] > 0 /\ k \notin timed => k \in cut \/ \E r \in Req : key[r] = k /\ at[r] \in Sealing
  BY DEF IInv, UntimedHasCause
<1>2. ASSUME NEW s \in Req, CountCall(s)
      PROVE  k \in cut' \/ \E r \in Req : key'[r] = k /\ at'[r] \in Sealing
  <2> DEFINE j == IpKey(from[s])
  <2>1. /\ j \in Keys /\ count[j] \in Nat /\ key'[s] = j /\ UNCHANGED <<timed, cut>>
        /\ at[s] = "idle" /\ at'[s] = IF count[j] = 0 THEN "timing" ELSE "checking"
        /\ \A r \in Req \ {s} : key'[r] = key[r] /\ at'[r] = at[r]
        /\ k # j => count'[k] = count[k]
    BY <1>0, <1>2, KeyFacts DEF CountCall, Incr, TypeOK
  <2>2. CASE k = j /\ count[j] = 0
    BY <2>1, <2>2 DEF Sealing
  <2>3. CASE k # j \/ count[j] > 0
    BY <1>1, <2>1, <2>3 DEF Sealing
  <2>4. QED
    BY <2>1, <2>2, <2>3
<1>3. ASSUME NEW s \in Req, NEW u \in User, TrackUsage(s, u)
      PROVE  k \in cut' \/ \E r \in Req : key'[r] = k /\ at'[r] \in Sealing
  <2>1. CASE k = UsageKey(u)
    BY <1>0, <1>3, <2>1 DEF TrackUsage, Incr, Sealing, TypeOK
  <2>2. CASE k # UsageKey(u)
    BY <1>0, <1>1, <1>3, <2>2 DEF TrackUsage, Incr, Sealing, TypeOK
  <2>3. QED
    BY <2>1, <2>2
<1>4. ASSUME NEW s \in Req, NEW u \in User, ReadQuota(s, u)
      PROVE  k \in cut' \/ \E r \in Req : key'[r] = k /\ at'[r] \in Sealing
  BY <1>0, <1>1, <1>4 DEF ReadQuota, Sealing, TypeOK
<1>5. ASSUME NEW s \in Req, TimeCalls(s) \/ StampUsage(s) \/ SealQuota(s)
      PROVE  k \in cut' \/ \E r \in Req : key'[r] = k /\ at'[r] \in Sealing
  <2>1. /\ count' = count /\ cut' = cut /\ key' = key
        /\ timed' = IF count[key[s]] > 0 THEN timed \cup {key[s]} ELSE timed
        /\ \A r \in Req \ {s} : at'[r] = at[r]
    BY <1>0, <1>5 DEF TimeCalls, StampUsage, SealQuota, Expire, TypeOK
  <2>2. key[s] # k
    BY <2>1
  <2>3. QED
    BY <1>1, <2>1, <2>2
<1>6. ASSUME NEW s \in Req, CheckCalls(s) \/ SkipTracking(s) \/ Serve(s)
      PROVE  k \in cut' \/ \E r \in Req : key'[r] = k /\ at'[r] \in Sealing
  BY <1>0, <1>1, <1>6 DEF CheckCalls, SkipTracking, Serve, Sealing, TypeOK
<1>7. ASSUME NEW s \in Req, CheckUsageTtl(s)
      PROVE  k \in cut' \/ \E r \in Req : key'[r] = k /\ at'[r] \in Sealing
  BY <1>0, <1>1, <1>7 DEF CheckUsageTtl, Sealing, TypeOK
<1>8. ASSUME NEW s \in Req, TrackingFails(s) \/ Die(s)
      PROVE  k \in cut' \/ \E r \in Req : key'[r] = k /\ at'[r] \in Sealing
  BY <1>0, <1>1, <1>8 DEF TrackingFails, Die, Abandons, Sealing, TypeOK
<1>9. ASSUME NEW s \in Req, SpendQuota(s)
      PROVE  k \in cut' \/ \E r \in Req : key'[r] = k /\ at'[r] \in Sealing
  <2>1. /\ key' = key /\ UNCHANGED <<timed, cut>> /\ at[s] = "spending"
        /\ count[key[s]] = 0 => at'[s] = "sealing"
        /\ \A r \in Req \ {s} : at'[r] = at[r]
        /\ k # key[s] => count'[k] = count[k]
        /\ count[key[s]] \in Nat
    BY <1>0, <1>9 DEF SpendQuota, Incr, TypeOK
  <2>2. CASE k = key[s] /\ count[key[s]] = 0
    BY <2>1, <2>2 DEF Sealing
  <2>3. CASE k # key[s] \/ count[key[s]] > 0
    BY <1>1, <2>1, <2>3 DEF Sealing
  <2>4. QED
    BY <2>1, <2>2, <2>3
<1>10. ASSUME NEW j \in Keys, Lapse(j)
       PROVE  k \in cut' \/ \E r \in Req : key'[r] = k /\ at'[r] \in Sealing
  BY <1>0, <1>1, <1>10 DEF Lapse, TypeOK
<1>11. CASE NextDay \/ UNCHANGED vars
  BY <1>1, <1>11 DEF NextDay, vars
<1>12. QED
  BY <1>2, <1>3, <1>4, <1>5, <1>6, <1>7, <1>8, <1>9, <1>10, <1>11 DEF Next, Step
-----------------------------------------------------------------------------
\* The invariant, and what it implies, hold in every reachable state.
THEOREM Inductive == Spec => []IInv
<1>1. IInv /\ [Next]_vars => IInv'
  <2> SUFFICES ASSUME IInv, [Next]_vars PROVE IInv'
    OBVIOUS
  <2>1. TypeOK' /\ UntimedHasCause'
    BY NextTypeOK, NextUntimed DEF IInv
  <2>2. NumbersDiffer' /\ \A r \in Req : Numbered(r)' /\ Keyed(r)'
    BY NextNumbers, NextKeyed
  <2>3. \A k \in QuotaKeys : Counted(k)'
    BY NextCounted
  <2>4. QED
    BY <2>1, <2>2, <2>3 DEF IInv
<1>2. QED
  BY <1>1, InitIInv, PTL DEF Spec

\* No more calls than the limit get through in one life of a counter.
THEOREM LimitHolds == Spec => []PassedWithinLimit
<1>1. ASSUME IInv PROVE PassedWithinLimit
  <2> SUFFICES ASSUME NEW s \in passed
               PROVE  Cardinality({r \in passed : from[r] = from[s] /\ born[r] = born[s]})
                        <= DAILY_LIMIT_FREE
    BY DEF PassedWithinLimit
  <2> DEFINE S == {r \in passed : from[r] = from[s] /\ born[r] = born[s]}
             T == 1 .. DAILY_LIMIT_FREE
             f == [r \in S |-> calls[r]]
  <2>1. passed \subseteq Req /\ \A r \in passed : calls[r] \in T
    BY <1>1 DEF IInv, TypeOK, Numbered
  <2>2. \A q, r \in S : calls[q] = calls[r] => q = r
    BY <1>1, <2>1 DEF IInv, NumbersDiffer
  <2>3. f \in Injection(S, T)
    BY <2>1, <2>2 DEF Injection, IsInjective
  <2>4. IsFiniteSet(T) /\ Cardinality(T) = DAILY_LIMIT_FREE
    BY LimitAssumption, FS_Interval
  <2>5. Cardinality(S) <= Cardinality(T)
    BY <2>3, <2>4, FS_Injection
  <2>6. QED
    BY <2>4, <2>5
<1>2. QED
  BY <1>1, Inductive, PTL

\* Who reads a spent quota is refused, whatever else is under way.
THEOREM LateRefused == Spec => []LateAnalysisRefused
<1>1. IInv => LateAnalysisRefused
  BY DEF IInv, TypeOK, Keyed, LateAnalysisRefused
<1>2. QED
  BY <1>1, Inductive, PTL

\* A counter without a time to live has a cause.
THEOREM UntimedExplained == Spec => []UntimedHasCause
<1>1. IInv => UntimedHasCause
  BY DEF IInv
<1>2. QED
  BY <1>1, Inductive, PTL
=============================================================================
