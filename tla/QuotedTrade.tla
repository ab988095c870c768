------------------------------- MODULE QuotedTrade -------------------------------
(***************************************************************************)
(* A trade on its way through the gates whose selling pool is a V3 pool: the *)
(* requote of execution-safety.js asks profit.venueOutput(), which runs      *)
(* getAmountOutV3Exact() on what was read of the pool (V3Quote), and the     *)
(* result passes the gates (TradeGates).  Other kinds of pools quote in one  *)
(* step, any amount.                                                         *)
(***************************************************************************)
EXTENDS TradeGates, V3Quote

tradeVars == <<vars, v3vars>>

NoPool == [sqrtP |-> 0, tick |-> 0, liquidity |-> 0, nets |-> <<>>, fee |-> 0]
NoReads == [words |-> {}, ticks |-> {}]
NoArgs == [amountIn |-> 0, zeroForOne |-> TRUE, fee |-> 0]
NoQuote == [out |-> 0, complete |-> FALSE]

\* The selling pool is a V3 pool, or of another kind.
TradeInit ==
    /\ Init
    /\ \/ V3Init
       \/ /\ pool = NoPool /\ known = NoReads /\ args = NoArgs
          /\ swap = Loop("none", NoPool, 0)
          /\ quote = NoQuote /\ paid = [out |-> 0, left |-> 0]

\* The pool is not looked at again, but for its fee and the one it was quoted at.
ForgetPool ==
    /\ pool' = [NoPool EXCEPT !.fee = pool.fee]
    /\ args' = [NoArgs EXCEPT !.fee = args.fee]
    /\ known' = NoReads
    /\ swap' = Loop("quoted", NoPool, 0)
    /\ quote' = NoQuote
    /\ UNCHANGED paid

QuoteV3 == V3Next /\ UNCHANGED vars

\* The V3 quote becomes the trade's expected output; an exception of the
\* engine has become 0, and there is no fallback to an approximation.
MutRequoteV3 ==
    /\ swap.phase = "done"
    /\ \E b \in Amounts \ {0} :
        RequoteOf(b, IF quote.out = 0 THEN args.amountIn ELSE quote.out)
    /\ ForgetPool
RequoteV3 ==
    /\ swap.phase = "done"
    /\ \E b \in Amounts \ {0} : RequoteOf(b, quote.out)
    /\ ForgetPool

RequoteOther == swap.phase = "none" /\ Requote /\ UNCHANGED v3vars

Gates == (Economics \/ Value \/ Cost) /\ UNCHANGED v3vars

TradeNext == QuoteV3 \/ RequoteV3 \/ RequoteOther \/ Gates

TradeSpec == TradeInit /\ [][TradeNext]_tradeVars
-----------------------------------------------------------------------------
(* Properties                                                                *)

\* A trade that sells to a V3 pool as it was read, quoted at no less than the
\* pool's fee, passes the contract's profit check whenever the slippage margin
\* covers what the contract pays for the loan beyond the bot's flashFee: then it
\* fails only if somebody else moved the pool.
ProfitCheckPasses ==
    /\ swap.phase = "quoted" /\ pc \in {"value", "cost", "approved"}
    /\ args.fee >= pool.fee
    /\ margin(requote.quoteRecv) >= feeGap(requote.borrow)
    => paid.out - owed(requote.borrow) >= requote.minProfit
=============================================================================
