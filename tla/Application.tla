---------------------------- MODULE Application -----------------------------
(***************************************************************************)
(* The lifespan of the API process (api/main.py): it builds the Dome       *)
(* client and its stream, starts the collectors, serves, and on shutdown   *)
(* takes them down again while their tasks are wherever they happen to be. *)
(***************************************************************************)
EXTENDS Collectors, DomeStream

\* The settings, and what they meet: the collectors looked at and what their source lists at
\* first, whether there are Dome keys, and a stream, and who subscribes to it.
CONSTANT Deployments

ASSUME DeploymentsAssumption ==
    \A d \in Deployments :
        /\ d.collectors \subseteq Collecting /\ d.board \in Seq(Unit) /\ IsInjective(d.board)
        /\ d.keys \in BOOLEAN /\ d.stream \in BOOLEAN /\ d.callers \subseteq Payload

\* Created only with a Dome client.
DomePowered == {"dome_market_collector", "kalshi_collector", "wallet_tracker"}

VARIABLES
    settings,
    phase,      \* of the lifespan
    dome        \* the Dome client: "none", "open" or "closed"
lifespanVars == <<settings, phase, dome>>
appVars == <<lifespanVars, collectorVars, streamVars>>

Phases == {"starting", "collecting", "announcing", "serving", "gathering", "stopping", "closing", "down"}

TypeOK ==
    /\ settings \in Deployments /\ phase \in Phases /\ dome \in {"none", "open", "closed"}
    /\ CollectorsTypeOK /\ StreamTypeOK

Init ==
    /\ settings \in Deployments
    /\ phase = "starting" /\ dome = "none"
    /\ CollectorsInit(settings.board) /\ StreamInit(settings.callers)

-----------------------------------------------------------------------------
\* The Dome stack; a failure to build it leaves the process without.
BuildDome ==
    /\ phase = "starting"
    /\ phase' = "collecting"
    /\ \/ /\ settings.keys /\ dome' = "open"
          /\ IF settings.stream THEN StreamStart ELSE UNCHANGED streamVars
       \/ dome' = "none" /\ UNCHANGED streamVars
    /\ UNCHANGED <<settings, collectorVars>>

StartCollectors ==
    /\ phase = "collecting"
    /\ phase' = "announcing"
    /\ Create({c \in settings.collectors : c \in DomePowered => dome = "open"})
    /\ UNCHANGED <<settings, dome, streamVars>>

\* The Telegram webhook is set, or fails to be, while the tasks already run.
Announced ==
    /\ phase = "announcing"
    /\ phase' = "serving"
    /\ UNCHANGED <<settings, dome, collectorVars, streamVars>>

\* Shutdown: every task is cancelled, then all of them are awaited, whatever they end with.
Cancel ==
    /\ phase = "serving"
    /\ phase' = "gathering"
    /\ CancelAll
    /\ UNCHANGED <<settings, dome, streamVars>>

\* Mutant: the cancelled tasks are not awaited.
NotGathered ==
    /\ phase = "gathering"
    /\ phase' = "stopping"
    /\ IF pump = "off" THEN UNCHANGED streamVars ELSE StreamStop
    /\ UNCHANGED <<settings, dome, collectorVars>>
Gathered ==
    /\ phase = "gathering"
    /\ \A c \in Collecting : Ended(c)
    /\ phase' = "stopping"
    /\ IF pump = "off" THEN UNCHANGED streamVars ELSE StreamStop
    /\ UNCHANGED <<settings, dome, collectorVars>>

\* dome_ws.stop has awaited its task.
StreamStopped ==
    /\ phase = "stopping" /\ pump \in {"off", "ended"}
    /\ phase' = "closing"
    /\ UNCHANGED <<settings, dome, collectorVars, streamVars>>

\* The Dome client is closed, then the order book client, the bot and Redis.
CloseClients ==
    /\ phase = "closing"
    /\ phase' = "down"
    /\ dome' = IF dome = "open" THEN "closed" ELSE dome
    /\ UNCHANGED <<settings, collectorVars, streamVars>>

Down == phase = "down" /\ UNCHANGED appVars

Lifespan == BuildDome \/ StartCollectors \/ Announced \/ Gathered \/ StreamStopped \/ CloseClients

Next ==
    \/ Lifespan \/ Cancel \/ Down
    \/ CollectorsNext /\ UNCHANGED <<lifespanVars, streamVars>>
    \/ StreamNext /\ phase # "down" /\ UNCHANGED <<lifespanVars, collectorVars>>

\* Each task is resumed when what it awaits is there; that the server is told to stop is not.
Spec == Init /\ [][Next]_appVars /\ WF_appVars(Lifespan) /\ CollectorsFairness /\ StreamFairness

-----------------------------------------------------------------------------
(* Properties *)

\* A round that reports success has stored every unit that was listed all through it with the
\* data the collector needs, or logged it as failed, unless the database refused a row in it: the
\* two collectors that go on after a refused statement then commit nothing and say nothing.  (A
\* unit without those data is passed over: neither its absence nor the round's end tells.)
SilentLossHasCause ==
    \A c \in Collecting :
        (report[c] = "ok" /\ missed[c] # {} /\ ~Policies[c].paged) =>
            refused[c] /\ c \in {"weather_collector", "sports_odds_collector"}

\* Reading in pages, a round misses a unit only if the list moved across the pages already
\* read: nothing is lost to an arrival, or to a change among the units read or unread.
PagedMissHasCause ==
    \A c \in Collecting : (Policies[c].paged /\ missed[c] # {}) => shifted[c]

\* While the pump reads, every subscription it retains has been sent on this connection,
\* whatever callers did while it subscribed again.
StreamCarriesAll == pump = "stream" => Kept \subseteq sent

\* An id is kept with the payload it is for, unless two subscribers were at their send together
\* or one during a resubscription, an answer overtook the line that retains its payload, the
\* server refused one, or confirmed subscriptions were sent again.
MisattributionHasCause == ~tangled => \A i \in DOMAIN subs : subs[i].payload = subs[i].truly

\* The shared Dome client is closed only when nothing uses it; when the process is down no task
\* is left, nor a client of its own, except that of a collector stopped before it first ran.
StopLeavesNothing ==
    /\ dome = "closed" => \A c \in Collecting : Ended(c)
    /\ phase = "down" =>
         /\ pump \in {"off", "ended"}
         /\ \A c \in Collecting : client[c] => at[c] = "unrun"

\* Whatever fails, the collector looked at (one in each deployment) comes to its next round as
\* long as the server serves.
CollectorsKeepGoing ==
    (\E c \in Collecting : at[c] # "none")
        ~> ((\E c \in Collecting : at[c] = "list") \/ phase \notin {"announcing", "serving"})

\* Shutdown comes to its end, wherever the tasks and the stream are when it begins.
ShutdownCompletes == (phase = "gathering") ~> (phase = "down")
=============================================================================
