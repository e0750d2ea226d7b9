---------------------------- MODULE OrderLedger ----------------------------
(***************************************************************************)
(* What the order service promises about one order, seen from outside:     *)
(* the exchange holds it before the broker lists it, the broker lists it   *)
(* once on terms that agree with those the exchange holds, it takes it off *)
(* the exchange only once it is listed, and a listed order is closed for   *)
(* good.                                                                   *)
(* All the orders one request closes belong to one holder.                 *)
(***************************************************************************)
CONSTANTS
    Order, Holder,
    BookTerms,     \* the terms the exchange holds an order on
    ListedTerms,   \* the terms the broker lists an order on
    Agrees(_, _)   \* these listed terms are of the same deal as those of the book

VARIABLES
    book,    \* book[o]: the order at the exchange
    ledger,  \* ledger[o]: the order in the broker's records
    holder,  \* holder[o]: whose order it is, once listed
    agreed   \* agreed[o]: the terms it was listed with

lvars == <<book, ledger, holder, agreed>>

LInit ==
    /\ book \in [Order -> [status : {"none"}, terms : BookTerms]]
    /\ ledger = [o \in Order |-> "unlisted"]
    /\ holder \in [Order -> Holder]
    /\ agreed \in [Order -> ListedTerms]

Accept(o) ==
    /\ book[o].status = "none" /\ ledger[o] = "unlisted"
    /\ book'[o].terms \in BookTerms
    /\ book' = [book EXCEPT ![o] = [status |-> "live", terms |-> book'[o].terms]]
    /\ UNCHANGED <<ledger, holder, agreed>>

Match(o) ==
    /\ book[o].status = "live"
    /\ book' = [book EXCEPT ![o].status = "filled"]
    /\ UNCHANGED <<ledger, holder, agreed>>

List(o) ==
    /\ book[o].status # "none" /\ ledger[o] = "unlisted"
    /\ ledger' = [ledger EXCEPT ![o] = "open"]
    /\ \E h \in Holder : holder' = [holder EXCEPT ![o] = h]
    /\ agreed'[o] \in ListedTerms /\ Agrees(agreed'[o], book[o].terms)
    /\ agreed' = [agreed EXCEPT ![o] = agreed'[o]]
    /\ UNCHANGED book

Withdraw(o) ==
    /\ book[o].status = "live" /\ ledger[o] # "unlisted"
    /\ book' = [book EXCEPT ![o].status = "cancelled"]
    /\ UNCHANGED <<ledger, holder, agreed>>

Close(S) ==
    /\ \A o \in S : ledger[o] = "open"
    /\ \A o, p \in S : holder[o] = holder[p]
    /\ ledger' = [o \in Order |-> IF o \in S THEN "closed" ELSE ledger[o]]
    /\ UNCHANGED <<book, holder, agreed>>

LNext ==
    \/ \E o \in Order : Accept(o) \/ Match(o) \/ List(o) \/ Withdraw(o)
    \/ \E S \in SUBSET Order : Close(S)

LSpec == LInit /\ [][LNext]_lvars
=============================================================================
