----------------------------- MODULE SaleLedger -----------------------------
(***************************************************************************)
(* What the provider promises about one deal with a buyer, seen from       *)
(* outside, over all its restarts and whatever happens to its events: the  *)
(* deal is made only for a wish that is valid, the wish is taken up once   *)
(* at most and only after the payment, and a paid deal is answered once,   *)
(* with what the run that answers made of the wish, or of the service's    *)
(* preset if the wish was not its own to work on.  An answer is final.     *)
(***************************************************************************)
CONSTANTS Deal, Wish, Worker

VARIABLES
    deal,      \* deal[d]: how far it is
    wish,      \* wish[d]: what the buyer wants
    taken,     \* taken[d]: the runs that had the buyer's wish to work on
    received   \* received[d]: what the buyer has received

saleVars == <<deal, wish, taken, received>>

Nothing == [by |-> 0, from |-> "none", status |-> "none"]

SaleInit ==
    /\ deal = [d \in Deal |-> "none"]
    /\ wish \in [Deal -> Wish]
    /\ taken = [d \in Deal |-> {}]
    /\ received = [d \in Deal |-> Nothing]

To(d, stage) == deal' = [deal EXCEPT ![d] = stage]

Open(d) ==
    /\ deal[d] = "none" /\ To(d, "open")
    /\ \E w \in Wish : wish' = [wish EXCEPT ![d] = w]
    /\ UNCHANGED <<taken, received>>

\* The deal is made, turned down, paid for, or given up.
Proceed(d) ==
    /\ \/ deal[d] = "open" /\ wish[d].valid /\ To(d, "created")
       \/ deal[d] = "open" /\ (To(d, "rejected") \/ To(d, "lapsed"))
       \/ deal[d] = "created" /\ To(d, "paid")
       \/ deal[d] \in {"created", "paid"} /\ To(d, "expired")
    /\ UNCHANGED <<wish, taken, received>>

Take(d, w) ==
    /\ deal[d] \in {"paid", "delivered", "expired"}
    /\ taken[d] = {}
    /\ taken' = [taken EXCEPT ![d] = {w}]
    /\ UNCHANGED <<deal, wish, received>>

Deliver(d, w) ==
    /\ deal[d] = "paid" /\ To(d, "delivered")
    /\ \E s \in {"ok", "error"} :
         received' = [received EXCEPT ![d] =
             [by |-> w, from |-> IF w \in taken[d] THEN "agreed" ELSE "preset", status |-> s]]
    /\ UNCHANGED <<wish, taken>>

SaleNext ==
    \E d \in Deal : \/ Open(d) \/ Proceed(d)
                    \/ \E w \in Worker : Take(d, w) \/ Deliver(d, w)

SaleSpec == SaleInit /\ [][SaleNext]_saleVars
=============================================================================
