---------------------------- MODULE DomeKeyPool ----------------------------
(***************************************************************************)
(* core/dome/key_pool.py, the REST side, under core/dome/client.py: the    *)
(* callers of one process (collectors and request handlers) share a pool   *)
(* of API keys.  A request takes the next key in turn, skipping keys that  *)
(* rest after a 429, and is repeated once with another key on a 429.       *)
(*                                                                         *)
(* Keys are their positions in the list of the settings.  The deadline of  *)
(* a cooldown is kept as what is left of it, in ticks of the clock, so a   *)
(* deadline that has passed is 0.  The round-robin counter is only used    *)
(* modulo the number of keys and is kept reduced.                          *)
(***************************************************************************)
EXTENDS Naturals

CONSTANTS
    KeyCount,    \* len(keys)
    WsKeyCount,  \* ws_key_count, the keys the settings reserve for WebSockets
    Cooldown,    \* cooldown_seconds, in ticks
    Caller       \* coroutines that use the client, each for one request at a time

ASSUME KeyCountAssumption == KeyCount \in Nat \ {0}
ASSUME WsKeyCountAssumption == WsKeyCount \in Nat
ASSUME CooldownAssumption == Cooldown \in Nat

\* len(_rest_keys): what is left of the keys, or all of them if nothing is.
RestCount == IF KeyCount > WsKeyCount THEN KeyCount - WsKeyCount ELSE KeyCount

RestKey == 0 .. RestCount - 1

VARIABLES
    restIndex,  \* _rest_index, modulo RestCount
    cool,       \* cool[k]: what is left of the cooldown of k
    at,         \* at[c]: the HTTP request caller c awaits
    key,        \* key[c]: the key of that request
    waits       \* history: waits[k] handouts passed k over since its last turn or rest

vars == <<restIndex, cool, at, key, waits>>

TypeOK ==
    /\ restIndex \in RestKey
    /\ cool \in [RestKey -> 0 .. Cooldown]
    /\ at \in [Caller -> {"idle", "first", "second"}]
    /\ key \in [Caller -> RestKey]
    /\ waits \in [RestKey -> Nat]

Init ==
    /\ restIndex = 0
    /\ cool = [k \in RestKey |-> 0]
    /\ at = [c \in Caller |-> "idle"]
    /\ key = [c \in Caller |-> 0]
    /\ waits = [k \in RestKey |-> 0]
-----------------------------------------------------------------------------
\* How many keys _pick tries before it comes to k.
Ahead(k) == IF k >= restIndex THEN k - restIndex ELSE k + RestCount - restIndex

\* Mutant: the counter moves only when the key it points to is handed out.
PickSticky(rests, k) ==
    \/ /\ rests[k] = 0
       /\ \A j \in RestKey : Ahead(j) < Ahead(k) => rests[j] > 0
       /\ restIndex' = IF k = restIndex THEN (k + 1) % RestCount ELSE restIndex
    \/ /\ \A j \in RestKey : rests[j] > 0 /\ rests[k] <= rests[j]
       /\ UNCHANGED restIndex

\* _pick: the first key from the counter on that does not rest, the counter
\* moving behind it; if all rest, one that is available soonest, the counter
\* having gone round.
Pick(rests, k) ==
    \/ /\ rests[k] = 0
       /\ \A j \in RestKey : Ahead(j) < Ahead(k) => rests[j] > 0
       /\ restIndex' = IF k + 1 = RestCount THEN 0 ELSE k + 1
    \/ /\ \A j \in RestKey : rests[j] > 0 /\ rests[k] <= rests[j]
       /\ UNCHANGED restIndex

\* report_rate_limit
Reported(k) == [cool EXCEPT ![k] = Cooldown]

\* Who was passed over when k was handed out under the cooldowns "rests".
Passed(rests, k) ==
    [j \in RestKey |-> IF j = k \/ rests[j] > 0 THEN 0 ELSE waits[j] + 1]

Sends(c, request, rests, k) ==
    /\ Pick(rests, k)
    /\ at' = [at EXCEPT ![c] = request]
    /\ key' = [key EXCEPT ![c] = k]
    /\ cool' = rests
    /\ waits' = Passed(rests, k)

\* A method of the client is called: the first request goes out.
Request(c) ==
    /\ at[c] = "idle"
    /\ \E k \in RestKey : Sends(c, "first", cool, k)

\* Mutant: the key of the retry is taken before the limited one is reported.
RetryBeforeReport(c) ==
    /\ at[c] = "first"
    /\ \E k \in RestKey :
         /\ Pick(cool, k)
         /\ key' = [key EXCEPT ![c] = k]
         /\ waits' = Passed(Reported(key[c]), k)
    /\ at' = [at EXCEPT ![c] = "second"]
    /\ cool' = Reported(key[c])

\* The first request is answered with 429: report the key, take another one.
Retry(c) ==
    /\ at[c] = "first"
    /\ \E k \in RestKey : Sends(c, "second", Reported(key[c]), k)

\* Any other answer to the first request, any answer at all to the second one,
\* or an exception of the transport: the caller has its result or its error.
Answer(c) ==
    /\ at[c] \in {"first", "second"}
    /\ at' = [at EXCEPT ![c] = "idle"]
    /\ UNCHANGED <<restIndex, cool, key, waits>>

\* time.monotonic() advances.
Tick ==
    /\ cool' = [k \in RestKey |-> IF cool[k] > 0 THEN cool[k] - 1 ELSE 0]
    /\ UNCHANGED <<restIndex, at, key, waits>>

Next ==
    \/ \E c \in Caller : Request(c) \/ Retry(c) \/ Answer(c)
    \/ Tick

Spec == Init /\ [][Next]_vars
-----------------------------------------------------------------------------
\* Rotation: a key that is free to use comes up again before the pool has
\* handed out as many others as there are, however keys rest in between.
RotationIsFair == \A k \in RestKey : waits[k] < RestCount

\* The retry of a request goes out with another key (the docstring's "next
\* key") unless every key was limited at this very moment.
RetryChangesKey ==
    [][\A c \in Caller :
         at[c] = "first" /\ at'[c] = "second" /\ key'[c] = key[c] =>
            \A k \in RestKey : cool'[k] = Cooldown]_vars
=============================================================================
