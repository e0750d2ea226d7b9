----------------------------- MODULE Collectors -----------------------------
(***************************************************************************)
(* The background collectors (data_pipeline): each repeats a round that    *)
(* lists the units of a source (markets, games, sports, wallets), fetches  *)
(* and writes them one at a time in one database transaction, and commits. *)
(* Every await may fail.  One board of units stands for all sources; only  *)
(* the collector that reads it in pages notices when it changes.           *)
(***************************************************************************)
EXTENDS Naturals, Sequences, SequencesExt

CONSTANTS
    Unit,          \* what a source lists
    Page,          \* units in a page (100 in the code)
    MaxChanges,    \* bound on the changes of the board
    Collecting     \* the names of the collectors looked at

ASSUME PageAssumption == Page \in Nat \ {0} /\ MaxChanges \in Nat

\* What a failure means to each collector.  paged: a commit after each page.  unit: what may
\* become of a unit that could not be fetched or parsed -- it "ends" the round or is "logged" and
\* left out (one stored with blanks is simply stored).  deferred: rows are only sent with the
\* commit, which fails if the database refuses one; otherwise a refused row "ends" the round, or is
\* "logged", or the error is caught inside and the unit "counts" as written.  silent: a unit whose
\* data lacks what the collector needs of it is passed over, neither stored nor logged.
Policy(paged, unit, deferred, refused, silent) ==
    [paged |-> paged, unit |-> unit, deferred |-> deferred, refused |-> refused, silent |-> silent]

SportsCollector     == Policy(TRUE, {"ends"}, FALSE, {"ends"}, FALSE)
NbaCollector        == Policy(FALSE, {"ends"}, FALSE, {"ends"}, TRUE)
BtcCollector        == Policy(FALSE, {"ends"}, TRUE, {}, FALSE)
CoinGlassCollector  == Policy(FALSE, {"ends"}, TRUE, {}, FALSE)
WeatherCollector    == Policy(FALSE, {"logged"}, FALSE, {"logged"}, TRUE)
SportsOddsCollector == Policy(FALSE, {"logged"}, FALSE, {"logged", "counts"}, FALSE)
DomeMarketCollector == Policy(FALSE, {"ends", "logged"}, TRUE, {}, TRUE)
KalshiCollector     == Policy(FALSE, {"ends", "logged"}, TRUE, {}, TRUE)
WalletTracker       == Policy(FALSE, {"logged"}, TRUE, {}, FALSE)

Policies == [sports_collector |-> SportsCollector, nba_collector |-> NbaCollector,
             btc_collector |-> BtcCollector, coinglass_collector |-> CoinGlassCollector,
             weather_collector |-> WeatherCollector, sports_odds_collector |-> SportsOddsCollector,
             dome_market_collector |-> DomeMarketCollector, kalshi_collector |-> KalshiCollector,
             wallet_tracker |-> WalletTracker]

\* Those that hold a GammaClient of their own; the others share the Dome client, or open one
\* for a request.
Owners == {"sports_collector", "nba_collector", "btc_collector", "weather_collector"}

ASSUME CollectingAssumption == Collecting \subseteq DOMAIN Policies

VARIABLES
    board,       \* what the sources list now, in order
    unfit,       \* unfit[c]: units whose data at the source lacks what c needs of it
    changes,     \* of the board and of the data so far
    at,          \* where each collector's task is
    client,      \* its own HTTP client is open
    todo,        \* units of the page that are still to be worked
    offset,      \* of the page
    full,        \* the page had as many units as it can have
    wrote,       \* rows of the open transaction
    refused,     \* the database refused a row of the transaction: it will roll back
    \* history of the round
    stored,      \* committed
    logged,      \* logged as failed
    stable,      \* on the board, with data the collector can use, since the round began
    shifted,     \* the board changed so that an unread unit may have moved onto pages already read
    report,      \* how the last round ended: "ok", "failed", or "none"
    missed       \* stable to the end of a round that ended "ok", yet neither stored nor logged
roundVars == <<todo, offset, full, wrote, refused, stored, logged, stable, shifted, report, missed>>
collectorVars == <<board, unfit, changes, at, client, roundVars>>

CollectorsTypeOK ==
    /\ board \in Seq(Unit) /\ IsInjective(board)
    /\ changes \in 0..MaxChanges
    /\ at \in [Collecting -> {"none", "new", "list", "work", "asleep", "teardown", "ended", "unrun"}]
    /\ client \in [Collecting -> BOOLEAN]
    /\ todo \in [Collecting -> Seq(Unit)]
    /\ offset \in [Collecting -> Nat]
    /\ {full, refused, shifted} \subseteq [Collecting -> BOOLEAN]
    /\ {unfit, wrote, stored, logged, stable, missed} \subseteq [Collecting -> SUBSET Unit]
    /\ report \in [Collecting -> {"none", "ok", "failed"}]

CollectorsInit(listed) ==
    /\ board = listed
    /\ changes = 0
    /\ at = [c \in Collecting |-> "none"]
    /\ client = [c \in Collecting |-> FALSE]
    /\ todo = [c \in Collecting |-> <<>>]
    /\ offset = [c \in Collecting |-> 0]
    /\ full = [c \in Collecting |-> FALSE] /\ refused = full /\ shifted = full
    /\ wrote = [c \in Collecting |-> {}] /\ stored = wrote /\ logged = wrote
    /\ unfit = wrote /\ stable = wrote /\ missed = wrote
    /\ report = [c \in Collecting |-> "none"]

Ended(c) == at[c] \in {"none", "unrun", "ended"}
InRound(c) == at[c] \in {"list", "work"}

-----------------------------------------------------------------------------
(* A round *)

\* run: a new session; collect starts with its first request.
Begin(c) ==
    /\ at[c] \in {"new", "asleep"}
    /\ at' = [at EXCEPT ![c] = "list"]
    /\ stable' = [stable EXCEPT ![c] = ToSet(board) \ unfit[c]]
    /\ refused' = [refused EXCEPT ![c] = FALSE]
    /\ shifted' = [shifted EXCEPT ![c] = FALSE]
    /\ report' = [report EXCEPT ![c] = "none"]
    /\ missed' = [missed EXCEPT ![c] = {}]
    /\ UNCHANGED <<board, unfit, changes, client, todo, offset, full, wrote, stored, logged>>

\* Mutant: the error leaves run's loop.
OverForGood(c, how, kept) ==
    /\ at' = [at EXCEPT ![c] = IF how = "failed" THEN "ended" ELSE "asleep"]
    /\ report' = [report EXCEPT ![c] = how]
    /\ missed' = [missed EXCEPT ![c] = {}]
    /\ todo' = [todo EXCEPT ![c] = <<>>] /\ offset' = [offset EXCEPT ![c] = 0]
    /\ full' = [full EXCEPT ![c] = FALSE]
    /\ wrote' = [wrote EXCEPT ![c] = {}] /\ stored' = [stored EXCEPT ![c] = {}]
    /\ logged' = [logged EXCEPT ![c] = {}] /\ stable' = [stable EXCEPT ![c] = {}]
    /\ UNCHANGED <<board, unfit, changes, client, shifted>>

\* The round is over with this much committed; the rest is rolled back with the session, and
\* the loop sleeps, whether collect returned or raised.
Over(c, how, kept) ==
    /\ at' = [at EXCEPT ![c] = "asleep"]
    /\ report' = [report EXCEPT ![c] = how]
    /\ missed' = [missed EXCEPT ![c] = IF how = "ok" THEN stable[c] \ (kept \cup logged[c]) ELSE {}]
    /\ todo' = [todo EXCEPT ![c] = <<>>]
    /\ offset' = [offset EXCEPT ![c] = 0]
    /\ full' = [full EXCEPT ![c] = FALSE]
    /\ wrote' = [wrote EXCEPT ![c] = {}] /\ stored' = [stored EXCEPT ![c] = {}]
    /\ logged' = [logged EXCEPT ![c] = {}] /\ stable' = [stable EXCEPT ![c] = {}]
    /\ UNCHANGED <<board, unfit, changes, client, shifted>>

Fail(c) == Over(c, "failed", stored[c])

\* The page at the offset, or everything.
Listing(c) ==
    IF Policies[c].paged
    THEN SubSeq(board, offset[c] + 1, IF offset[c] + Page < Len(board) THEN offset[c] + Page ELSE Len(board))
    ELSE board

\* The listing request; an empty answer ends the round.
List(c) ==
    /\ at[c] = "list"
    /\ \/ Listing(c) = <<>> /\ Over(c, "ok", stored[c]) /\ UNCHANGED refused
       \/ /\ Listing(c) # <<>>
          /\ at' = [at EXCEPT ![c] = "work"]
          /\ todo' = [todo EXCEPT ![c] = Listing(c)]
          /\ full' = [full EXCEPT ![c] = Policies[c].paged /\ Len(Listing(c)) = Page]
          /\ UNCHANGED <<board, unfit, changes, client, offset, wrote, refused, stored, logged, stable, shifted, report, missed>>

ListFails(c) == at[c] = "list" /\ Fail(c) /\ UNCHANGED refused

\* What the unit at the head of todo comes to, in this transaction.
Written(c) ==
    /\ wrote' = [wrote EXCEPT ![c] = @ \cup {Head(todo[c])}]
    /\ todo' = [todo EXCEPT ![c] = Tail(@)]
    /\ UNCHANGED <<board, unfit, changes, at, client, offset, full, stored, logged, stable, shifted, report, missed>>
\* Mutant: break where the code has continue.
SkipRest(c) ==
    /\ logged' = [logged EXCEPT ![c] = @ \cup {Head(todo[c])}]
    /\ todo' = [todo EXCEPT ![c] = <<>>]
    /\ UNCHANGED <<board, unfit, changes, at, client, offset, full, wrote, stored, stable, shifted, report, missed>>
SkipLogged(c) ==
    /\ logged' = [logged EXCEPT ![c] = @ \cup {Head(todo[c])}]
    /\ todo' = [todo EXCEPT ![c] = Tail(@)]
    /\ UNCHANGED <<board, unfit, changes, at, client, offset, full, wrote, stored, stable, shifted, report, missed>>
Outcome(c, how) ==
    \/ how = "ends" /\ Fail(c)
    \/ how = "logged" /\ SkipLogged(c)
    \/ how = "counts" /\ Written(c)

\* A unit whose data can be used is at the head of todo.
Usable(c) == at[c] = "work" /\ todo[c] # <<>> /\ Head(todo[c]) \notin unfit[c]

\* Its row is written, or added to the session.
WorkUnit(c) ==
    /\ Usable(c)
    /\ Policies[c].deferred \/ ~refused[c]
    /\ Written(c)
    /\ UNCHANGED refused

\* A unit whose data cannot be used is dropped by a bare continue or return: no row, no log entry,
\* and the loop takes it for done.
PassOver(c) ==
    /\ at[c] = "work" /\ todo[c] # <<>> /\ Head(todo[c]) \in unfit[c]
    /\ todo' = [todo EXCEPT ![c] = Tail(@)]
    /\ UNCHANGED <<board, unfit, changes, at, client, offset, full, wrote, refused, stored, logged, stable, shifted, report, missed>>

\* A unit cannot be fetched or parsed.
UnitFails(c) ==
    /\ at[c] = "work" /\ todo[c] # <<>>
    /\ \E how \in Policies[c].unit : Outcome(c, how)
    /\ UNCHANGED refused

\* The database refuses a row: at once, as it refuses every later statement of that transaction,
\* or when the commit sends it.
RowRefused(c) ==
    /\ Usable(c)
    /\ refused' = [refused EXCEPT ![c] = TRUE]
    /\ IF Policies[c].deferred THEN Written(c) ELSE \E how \in Policies[c].refused : Outcome(c, how)

\* After the commit: the next page, or the end.
\* Mutant: the next page starts one unit late.
ContinuePastOne(c, kept) ==
    IF full[c]
    THEN /\ at' = [at EXCEPT ![c] = "list"]
         /\ offset' = [offset EXCEPT ![c] = @ + Page + 1]
         /\ stored' = [stored EXCEPT ![c] = kept]
         /\ wrote' = [wrote EXCEPT ![c] = {}]
         /\ full' = [full EXCEPT ![c] = FALSE]
         /\ UNCHANGED <<board, unfit, changes, client, todo, logged, stable, shifted, report, missed>>
    ELSE Over(c, "ok", kept)
Continue(c, kept) ==
    IF full[c]
    THEN /\ at' = [at EXCEPT ![c] = "list"]
         /\ offset' = [offset EXCEPT ![c] = @ + Page]
         /\ stored' = [stored EXCEPT ![c] = kept]
         /\ wrote' = [wrote EXCEPT ![c] = {}]
         /\ full' = [full EXCEPT ![c] = FALSE]
         /\ UNCHANGED <<board, unfit, changes, client, todo, logged, stable, shifted, report, missed>>
    ELSE Over(c, "ok", kept)

\* db.commit.  PostgreSQL answers the COMMIT of a transaction it has refused a statement of by
\* rolling back, which is no error; rows that are only sent now and refused are one.
Commit(c) ==
    /\ at[c] = "work" /\ todo[c] = <<>>
    /\ \/ ~refused[c] /\ Continue(c, stored[c] \cup wrote[c])
       \/ refused[c] /\ ~Policies[c].deferred /\ Continue(c, stored[c])
       \/ refused[c] /\ Policies[c].deferred /\ Fail(c)
    /\ UNCHANGED refused

CommitFails(c) == at[c] = "work" /\ todo[c] = <<>> /\ Fail(c) /\ UNCHANGED refused

-----------------------------------------------------------------------------
(* The task *)

\* Created by the lifespan with its client; it has not run yet.
Create(cs) ==
    /\ at' = [c \in Collecting |-> IF c \in cs THEN "new" ELSE at[c]]
    /\ client' = [c \in Collecting |-> c \in cs \cap Owners]
    /\ UNCHANGED <<board, unfit, changes, roundVars>>

\* Cancelled at its await: run's finally block tears down.  A task that has not run yet ends
\* without entering run.
Cancelled == [c \in Collecting |-> CASE at[c] = "none" -> "none"
                                      [] at[c] = "new" -> "unrun"
                                      [] OTHER -> "teardown"]
CancelAll ==
    /\ at' = Cancelled
    /\ todo' = [c \in Collecting |-> <<>>] /\ offset' = [c \in Collecting |-> 0]
    /\ full' = [c \in Collecting |-> FALSE]
    /\ wrote' = [c \in Collecting |-> {}] /\ stored' = [c \in Collecting |-> {}]
    /\ logged' = [c \in Collecting |-> {}] /\ stable' = [c \in Collecting |-> {}]
    /\ UNCHANGED <<board, unfit, changes, client, refused, shifted, report, missed>>

Teardown(c) ==
    /\ at[c] = "teardown"
    /\ at' = [at EXCEPT ![c] = "ended"]
    /\ client' = [client EXCEPT ![c] = FALSE]
    /\ UNCHANGED <<board, unfit, changes, roundVars>>

-----------------------------------------------------------------------------
(* The sources *)

\* Units of the board that the round has listed: a unit that leaves them pulls the rest forward.
Read(c) == CASE at[c] = "work" -> offset[c] + Page [] at[c] = "list" -> offset[c] [] OTHER -> 0

Leave ==
    \E i \in DOMAIN board :
        /\ board' = RemoveAt(board, i)
        /\ stable' = [c \in Collecting |-> stable[c] \ {board[i]}]
        /\ shifted' = [c \in Collecting |-> shifted[c] \/ (InRound(c) /\ i <= Read(c))]

Arrive ==
    \E u \in Unit \ ToSet(board), i \in 1..(Len(board) + 1) :
        board' = InsertAt(board, i, u) /\ UNCHANGED <<stable, shifted>>

\* A unit moves in the list (the request asks for no order).
Move ==
    \E i, j \in DOMAIN board :
        /\ i # j
        /\ board' = InsertAt(RemoveAt(board, i), j, board[i])
        /\ shifted' = [c \in Collecting |-> shifted[c] \/ (InRound(c) /\ (i <= Read(c)) # (j <= Read(c)))]
        /\ UNCHANGED stable

\* The data of a unit change.  A round reads them once, with the list or when it works the unit:
\* that is the same to it as reading what they were when its work began.
Spoil(c) ==
    /\ Policies[c].silent /\ at[c] # "work"
    /\ \E u \in ToSet(board) \ unfit[c] :
         /\ unfit' = [unfit EXCEPT ![c] = @ \cup {u}]
         /\ stable' = [stable EXCEPT ![c] = @ \ {u}]

Mend(c) ==
    /\ at[c] # "work"
    /\ \E u \in unfit[c] : unfit' = [unfit EXCEPT ![c] = @ \ {u}]
    /\ UNCHANGED stable

BoardChanges ==
    /\ changes < MaxChanges
    /\ changes' = changes + 1
    /\ \E c \in Collecting : InRound(c)
    /\ \/ (Leave \/ Arrive \/ Move) /\ UNCHANGED unfit
       \/ (\E c \in Collecting : Spoil(c) \/ Mend(c)) /\ UNCHANGED <<board, shifted>>
    /\ UNCHANGED <<at, client, todo, offset, full, wrote, refused, stored, logged, report, missed>>

-----------------------------------------------------------------------------
RoundStep(c) ==
    \/ Begin(c) \/ List(c) \/ ListFails(c) \/ WorkUnit(c) \/ PassOver(c) \/ UnitFails(c) \/ RowRefused(c)
    \/ Commit(c) \/ CommitFails(c)

CollectorsNext ==
    \/ \E c \in Collecting : RoundStep(c) \/ Teardown(c)
    \/ BoardChanges

\* A request that hangs runs into its client's timeout, a statement into the database's answer:
\* a task does not stay at an await for ever.
CollectorsFairness == \A c \in Collecting : WF_collectorVars(RoundStep(c)) /\ WF_collectorVars(Teardown(c))
=============================================================================
