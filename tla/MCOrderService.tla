--------------------------- MODULE MCOrderService ---------------------------
(***************************************************************************)
(* Instances of OrderService for TLC.  Requests and users are              *)
(* interchangeable in every safety property.                               *)
(***************************************************************************)
EXTENDS OrderService, TLC

Symmetry == Permutations(Req) \cup Permutations(User)

\* A quote at the free tier's limit whose float product falls short, kept by the row as it is, and
\* one beyond the limit, with more decimals than the columns keep.  Short by 1 stands for short by
\* a millionth.
AllWorth == [limit |-> 1000, beyond |-> 1002]
AllUnits == [limit |-> 999, beyond |-> 1001]
AllKept == [limit |-> "limit", beyond |-> "rounded"]
MCWorth == [q \in Quote |-> AllWorth[q]]
MCToUnits == [q \in Quote |-> AllUnits[q]]
MCKept == [q \in Quote |-> AllKept[q]]

HostedOps == {"place", "cancel", "cancelAll"}
TenantOps == {"cancel", "cancelAll", "build", "submit", "upgrade"}
BuildSubmitOps == {"build", "submit"}
=============================================================================
