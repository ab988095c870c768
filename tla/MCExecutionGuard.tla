-------------------------- MODULE MCExecutionGuard --------------------------
(* Two pools, one of them quoted from its deep state.  A state is a rank of  *)
(* prices: 0 is an empty pool; buying low and selling high pays.             *)
EXTENDS ExecutionGuard

CONSTANTS flat, deep, unread

MCVenues == {flat, deep}
MCDeepVenues == {deep}
MCStates == 0..3
MCDrained == {0}
Worth == <<0, 1, 4>>
MCNet == [p \in MCStates \X MCStates |->
            IF 0 \in {p[1], p[2]} THEN -9 ELSE Worth[p[2]] - Worth[p[1]]]

\* Prices 1 and 3 are too far apart to be plausible; what 1 and 2 promise is
\* worth MinProfit but not more than the slippage margin.
MCLarge == {<<1, 3>>}
=============================================================================
