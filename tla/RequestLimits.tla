---------------------------- MODULE RequestLimits ----------------------------
(***************************************************************************)
(* The counters that limit requests, all in one Redis:                     *)
(*   api/middleware/rate_limit.py  calls per address, and calls per user   *)
(*                                 and day for GET /developer/usage        *)
(*   core/ai/quota.py              AI analyses per user and day, for the   *)
(*                                 HTTP routes and for the agent processes *)
(*                                                                         *)
(* A counter is made by INCR and given its 24 hours by a second command;   *)
(* requests of all processes interleave between commands and may end there *)
(* with an exception or with their process.                                *)
(***************************************************************************)
EXTENDS Naturals, FiniteSets

CONSTANTS
    Req,               \* requests, each made once
    Ip,                \* addresses they come from
    User,              \* users who ask for analyses or send an API key
    DAILY_LIMIT_FREE,  \* calls per life of the counter of an address
    AnalysisLimit,     \* analyses per user and day
    MaxDay             \* days of a behaviour (a bound)

ASSUME ReqAssumption == IsFiniteSet(Req)
ASSUME LimitAssumption == DAILY_LIMIT_FREE \in Nat /\ AnalysisLimit \in Nat \ {0}
ASSUME DayAssumption == MaxDay \in Nat \ {0}

VARIABLES
    day,      \* the date
    count,    \* count[k]: the counter k, 0 when Redis has no such key
    timed,    \* the counters with a time to live
    from,     \* from[r]: the address of r
    at,       \* at[r]: the command request r awaits, or how it ended
    key,      \* key[r]: the counter r is concerned with
    calls,    \* calls[r]: what INCR of the counter of its address returned, or 0
    passed,   \* history: requests the limit of the address let through
    born,     \* history: born[r], the life of the counter r was counted in
    life,     \* history: life[k], how often counter k has lapsed
    granted,  \* history: requests whose analysis was allowed
    ahead,    \* history: the analyses allowed on the counter when r read it
    cut       \* history: counters a request left without a time to live

history == <<passed, born, life, granted, ahead, cut>>
vars == <<day, count, timed, from, at, key, calls, history>>

Day == 1 .. MaxDay
IpKey(i) == <<"ip", i, 0>>
UsageKey(u) == <<"usage", u, day>>
QuotaKey(u) == <<"quota", u, day>>
DailyKeys == {"usage", "quota"} \X User \X Day
Keys == {IpKey(i) : i \in Ip} \cup DailyKeys

\* The caller of INCR awaits a command on which the time to live depends.
Sealing == {"timing", "tracking", "stamping", "sealing"}
Awaiting == Sealing \cup {"checking", "authorizing", "admitted", "spending"}
Ended == {"refused", "served", "dead"}

TypeOK ==
    /\ day \in Day
    /\ count \in [Keys -> Nat]
    /\ timed \subseteq Keys
    /\ from \in [Req -> Ip]
    /\ at \in [Req -> Awaiting \cup Ended \cup {"idle"}]
    /\ key \in [Req -> Keys]
    /\ calls \in [Req -> Nat]
    /\ passed \subseteq Req
    /\ born \in [Req -> Nat]
    /\ life \in [Keys -> Nat]
    /\ granted \subseteq Req
    /\ ahead \in [Req -> SUBSET Req]
    /\ cut \subseteq Keys

Init ==
    /\ day = 1
    /\ count = [k \in Keys |-> 0]
    /\ timed = {}
    /\ from \in [Req -> Ip]
    /\ at = [r \in Req |-> "idle"]
    /\ key = [r \in Req |-> IpKey(from[r])]
    /\ calls = [r \in Req |-> 0]
    /\ passed = {}
    /\ born = [r \in Req |-> 0]
    /\ life = [k \in Keys |-> 0]
    /\ granted = {}
    /\ ahead = [r \in Req |-> {}]
    /\ cut = {}
-----------------------------------------------------------------------------
Moves(r, to) == at' = [at EXCEPT ![r] = to]

\* INCR by r: the counter k moves on and becomes the one r is concerned with.
Incr(r, k) ==
    /\ count' = [count EXCEPT ![k] = @ + 1]
    /\ key' = [key EXCEPT ![r] = k]

\* EXPIRE, which does nothing to a counter that is not there.
Expire(k) == timed' = IF count[k] > 0 THEN timed \cup {k} ELSE timed

\* r stops before it gave its counter a time to live.
Abandons(r) == cut' = IF at[r] \in Sealing THEN cut \cup ({key[r]} \ timed) ELSE cut
-----------------------------------------------------------------------------
\* RateLimitMiddleware.__call__

\* The call is counted; the first one has the counter timed.
CountCall(r) ==
    LET k == IpKey(from[r]) IN
    /\ at[r] = "idle"
    /\ Incr(r, k)
    /\ calls' = [calls EXCEPT ![r] = count[k] + 1]
    /\ born' = [born EXCEPT ![r] = life[k]]
    /\ Moves(r, IF count[k] = 0 THEN "timing" ELSE "checking")
    /\ UNCHANGED <<from, day, timed, passed, life, granted, ahead, cut>>

TimeCalls(r) ==
    /\ at[r] = "timing"
    /\ Expire(key[r])
    /\ Moves(r, "checking")
    /\ UNCHANGED <<from, day, count, key, calls, history>>

\* Mutant: the comparison uses the count before this call.
CheckCallsBefore(r) ==
    /\ at[r] = "checking"
    /\ \/ calls[r] > DAILY_LIMIT_FREE + 1 /\ Moves(r, "refused") /\ UNCHANGED passed
       \/ /\ calls[r] <= DAILY_LIMIT_FREE + 1
          /\ Moves(r, "authorizing")
          /\ passed' = passed \cup {r}
    /\ UNCHANGED <<from, day, count, timed, key, calls, born, life, granted, ahead, cut>>

\* The answer to TTL, which only goes into a header, and the decision.
CheckCalls(r) ==
    /\ at[r] = "checking"
    /\ \/ calls[r] > DAILY_LIMIT_FREE /\ Moves(r, "refused") /\ UNCHANGED passed
       \/ /\ calls[r] <= DAILY_LIMIT_FREE
          /\ Moves(r, "authorizing")
          /\ passed' = passed \cup {r}
    /\ UNCHANGED <<from, day, count, timed, key, calls, born, life, granted, ahead, cut>>

\* There is no API key, it belongs to nobody, or looking it up failed.
SkipTracking(r) ==
    /\ at[r] = "authorizing"
    /\ Moves(r, "admitted")
    /\ UNCHANGED <<from, day, count, timed, key, calls, history>>

\* The API key belongs to u, whose calls of the day are counted.
TrackUsage(r, u) ==
    /\ at[r] = "authorizing"
    /\ Incr(r, UsageKey(u))
    /\ Moves(r, "tracking")
    /\ UNCHANGED <<from, day, timed, calls, history>>

\* TTL: a counter without a time to live, or one just gone, is to be timed.
CheckUsageTtl(r) ==
    /\ at[r] = "tracking"
    /\ Moves(r, IF key[r] \in timed THEN "admitted" ELSE "stamping")
    /\ UNCHANGED <<from, day, count, timed, key, calls, history>>

StampUsage(r) ==
    /\ at[r] = "stamping"
    /\ Expire(key[r])
    /\ Moves(r, "admitted")
    /\ UNCHANGED <<from, day, count, key, calls, history>>

\* An exception while tracking does not stop the request.
TrackingFails(r) ==
    /\ at[r] \in {"tracking", "stamping"}
    /\ Moves(r, "admitted")
    /\ Abandons(r)
    /\ UNCHANGED <<from, day, count, timed, key, calls, passed, born, life, granted, ahead>>
-----------------------------------------------------------------------------
\* check_and_increment_quota and its callers.

\* A request for something else, or of a tier without a limit on analyses; or
\* its handler has an error of its own.
Serve(r) ==
    /\ at[r] = "admitted"
    /\ Moves(r, "served")
    /\ UNCHANGED <<from, day, count, timed, key, calls, history>>

AllowedOn(k) == {r \in granted : key[r] = k}

\* Mutant: the comparison lets one more through.
ReadQuotaOneMore(r, u) ==
    /\ at[r] \in {"idle", "admitted"}
    /\ key' = [key EXCEPT ![r] = QuotaKey(u)]
    /\ Moves(r, IF count[QuotaKey(u)] > AnalysisLimit THEN "refused" ELSE "spending")
    /\ ahead' = [ahead EXCEPT ![r] = AllowedOn(QuotaKey(u))]
    /\ UNCHANGED <<from, day, count, timed, calls, passed, born, life, granted, cut>>

\* u asks for an analysis, over HTTP or (from "idle") through an agent process,
\* which has no middleware.  The quota of today is read.
ReadQuota(r, u) ==
    /\ at[r] \in {"idle", "admitted"}
    /\ key' = [key EXCEPT ![r] = QuotaKey(u)]
    /\ Moves(r, IF count[QuotaKey(u)] >= AnalysisLimit THEN "refused" ELSE "spending")
    /\ ahead' = [ahead EXCEPT ![r] = AllowedOn(QuotaKey(u))]
    /\ UNCHANGED <<from, day, count, timed, calls, passed, born, life, granted, cut>>

\* Mutant: the expiry of a new counter is forgotten.
SpendQuotaUntimed(r) ==
    /\ at[r] = "spending"
    /\ Incr(r, key[r])
    /\ Moves(r, "served")
    /\ granted' = granted \cup {r}
    /\ UNCHANGED <<from, day, timed, calls, passed, born, life, ahead, cut>>

\* The quota is spent; the first to spend has the counter timed.
SpendQuota(r) ==
    /\ at[r] = "spending"
    /\ Incr(r, key[r])
    /\ \/ count[key[r]] = 0 /\ Moves(r, "sealing") /\ UNCHANGED granted
       \/ count[key[r]] > 0 /\ Moves(r, "served") /\ granted' = granted \cup {r}
    /\ UNCHANGED <<from, day, timed, calls, passed, born, life, ahead, cut>>

SealQuota(r) ==
    /\ at[r] = "sealing"
    /\ Expire(key[r])
    /\ Moves(r, "served")
    /\ granted' = granted \cup {r}
    /\ UNCHANGED <<from, day, count, key, calls, passed, born, life, ahead, cut>>
-----------------------------------------------------------------------------
\* A command raises, or the process ends: the request is over.
Die(r) ==
    /\ at[r] \in Awaiting
    /\ Moves(r, "dead")
    /\ Abandons(r)
    /\ UNCHANGED <<from, day, count, timed, key, calls, passed, born, life, granted, ahead>>

NextDay ==
    /\ day < MaxDay
    /\ day' = day + 1
    /\ UNCHANGED <<from, count, timed, at, key, calls, history>>

\* The 24 hours of a counter are over; one of a day lasts to the day's end.
Lapse(k) ==
    /\ k \in timed
    /\ k \in DailyKeys => day > k[3]
    /\ count' = [count EXCEPT ![k] = 0]
    /\ timed' = timed \ {k}
    /\ life' = [life EXCEPT ![k] = @ + 1]
    /\ cut' = cut \ {k}
    /\ UNCHANGED <<from, day, at, key, calls, passed, born, granted, ahead>>

Step(r) ==
    \/ CountCall(r) \/ TimeCalls(r) \/ CheckCalls(r) \/ SkipTracking(r)
    \/ \E u \in User : TrackUsage(r, u) \/ ReadQuota(r, u)
    \/ CheckUsageTtl(r) \/ StampUsage(r) \/ TrackingFails(r)
    \/ Serve(r) \/ SpendQuota(r) \/ SealQuota(r) \/ Die(r)

Next ==
    \/ \E r \in Req : Step(r)
    \/ NextDay
    \/ \E k \in Keys : Lapse(k)

Spec == Init /\ [][Next]_vars
-----------------------------------------------------------------------------
\* However calls interleave, no more than the limit of one address get through
\* in one life of its counter.
PassedWithinLimit ==
    \A s \in passed :
        Cardinality({r \in passed : from[r] = from[s] /\ born[r] = born[s]})
            <= DAILY_LIMIT_FREE

\* Once the day's analyses of a user have been allowed, a request that reads
\* the quota afterwards is refused; only requests that overlap can exceed it.
LateAnalysisRefused ==
    \A r \in granted : Cardinality(ahead[r]) < AnalysisLimit

\* A counter that would count for ever is the doing of a request that is about
\* to time it or that ended before it could.
UntimedHasCause ==
    \A k \in Keys : count[k] > 0 /\ k \notin timed =>
        k \in cut \/ \E r \in Req : key[r] = k /\ at[r] \in Sealing
=============================================================================
