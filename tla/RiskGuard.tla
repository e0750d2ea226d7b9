----------------------------- MODULE RiskGuard -----------------------------
(***************************************************************************)
(* The tier tables of the broker and what order placement reads of them:   *)
(* core/risk_guard.py (order size limit; check_position_cap has no caller) *)
(* and core/fee_engine.py (broker fee).  A tier missing from a limit table *)
(* has no limit (None).  Amounts are whole USDC: the code compares         *)
(* Decimals exactly, so only the order of the amounts matters.             *)
(***************************************************************************)
EXTENDS Naturals

Tier == {"free", "pro", "enterprise"}

MAX_ORDER_USDC == [free |-> 1000, pro |-> 50000]

FEE_RATE_BPS == [free |-> 10, pro |-> 5, enterprise |-> 0]

\* validate_order_size returns instead of raising ORDER_SIZE_EXCEEDED.
ValidateOrderSize(tier, notional) ==
    tier \in DOMAIN MAX_ORDER_USDC => notional <= MAX_ORDER_USDC[tier]

GetFeeRateBps(tier) == FEE_RATE_BPS[tier]
=============================================================================
