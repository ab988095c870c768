-------------------------------- MODULE TradeGates --------------------------------
(***************************************************************************)
(* The arithmetic that decides whether a trade is worth sending: the final   *)
(* requote and the economic guard of bot/execution-safety.js, the cost model *)
(* of bot/execution-cost.js, and the order in which executeOpp() of          *)
(* bot/executor.js applies them.  Amounts are integers, as BigInt's are;     *)
(* every division rounds, and the properties say which way it may err.  What  *)
(* the contract asks of the trade is here too, for the bot computes the fee   *)
(* of a loan otherwise than the contract repays it.                           *)
(*                                                                           *)
(* Malformed inputs, which the code rejects first, are left out.             *)
(***************************************************************************)
EXTENDS Integers

CONSTANTS
    BPS,             \* basis points of a whole, 10000
    SlippageBps,     \* config.bot.slippageBps
    FlashFeeBps,     \* of a V2 flash swap; 0 for a DODO one
    GasBufferBps,    \* config.bot.gasBufferBps
    GasReserveBps,   \* config.bot.gasReserveBps
    MaxGasLimit,     \* config.bot.maxGasLimit
    MinProfitBnb,    \* config.bot.minProfitBnb, in wei
    GasFloorUnits,   \* the mechanical 500000 of the pre-filter
    Amounts,         \* amounts borrowed and quoted
    Prices,          \* the token in BNB, a rational <<num, den>>
    GasPrices,       \* worst-case prices of fee data
    GasEstimates     \* answers of estimateGas()

ASSUME Denominator == BPS \in Nat \ {0}
ASSUME BpsRange ==
    /\ SlippageBps \in 0..(BPS - 1) /\ FlashFeeBps \in 0..(BPS - 1)
    /\ {GasBufferBps, GasReserveBps} \subseteq Nat
ASSUME Policy == {MaxGasLimit, MinProfitBnb, GasFloorUnits} \subseteq Nat
ASSUME InputTypes ==
    /\ Amounts \subseteq Nat /\ GasPrices \subseteq Nat /\ GasEstimates \subseteq Nat
    /\ Prices \subseteq Nat \X (Nat \ {0})

VARIABLES
    pc,         \* the gate the trade is at, or how it ended
    requote,    \* the result of finalRequote()
    price,      \* price of the token and of gas
    cost        \* the result of evaluateExecutionCost()

vars == <<pc, requote, price, cost>>
-----------------------------------------------------------------------------
(* execution-safety.js                                                       *)

\* Floor, as BigInt's division of what is not negative.
computeMinOut(expectedOut, bps) == (expectedOut * (BPS - bps)) \div BPS

margin(quoteRecv) == (quoteRecv * SlippageBps) \div BPS
flashFee(borrow) == (borrow * FlashFeeBps) \div BPS

MutMinProfit(net, quoteRecv) == IF net > margin(quoteRecv) THEN net ELSE 0
minProfit(net, quoteRecv) ==
    IF net > margin(quoteRecv) THEN net - margin(quoteRecv) ELSE 0

finalRequote(borrow, quoteRecv) ==
    LET net == quoteRecv - borrow - flashFee(borrow)
    IN  [borrow |-> borrow, quoteRecv |-> quoteRecv, flashFee |-> flashFee(borrow),
         net |-> net, minProfit |-> minProfit(net, quoteRecv),
         minOutB |-> computeMinOut(quoteRecv, SlippageBps)]
-----------------------------------------------------------------------------
(* execution-cost.js                                                         *)

ceilDiv(a, b) == IF a <= 0 THEN 0 ELSE (a + b - 1) \div b

computeGasLimit(estimate) == ceilDiv(estimate * (BPS + GasBufferBps), BPS)

\* Floor of a profit: the income is never overestimated.
inBnb(amount, p) == (amount * p[1]) \div p[2]

\* FlashLoanArbitrage.sol: what repays a loan, its fee rounded up on the sum
\* borrowed and owed; a DODO loan is repaid as it is.
owed(borrow) == ceilDiv(borrow * BPS, BPS - FlashFeeBps)

\* What the contract pays for a loan beyond the bot's flashFee.
feeGap(borrow) == owed(borrow) - borrow - flashFee(borrow)

required(costWei) == ceilDiv(costWei * (BPS + GasReserveBps), BPS)

\* Every check of evaluateExecutionCost(), at one estimate.
MutWorthIt(costWei, netBnb) ==
    costWei > 0 /\ netBnb >= MinProfitBnb /\ netBnb + costWei > required(costWei)
WorthIt(costWei, netBnb) ==
    /\ costWei > 0
    /\ netBnb > 0
    /\ netBnb >= MinProfitBnb
    /\ netBnb > required(costWei)
-----------------------------------------------------------------------------
(* executeOpp(), gate by gate                                                *)

NoRequote == finalRequote(0, 0)
NoPrice == [bnb |-> <<0, 1>>, gas |-> 0]
NoCost == [gasEstimate |-> 0, gasLimit |-> 0, costWei |-> 0]

Init ==
    /\ pc = "requote"
    /\ requote = NoRequote
    /\ price = NoPrice
    /\ cost = NoCost

Reject == pc' = "rejected" /\ UNCHANGED <<requote, price, cost>>

\* finalRequote() of borrowing b when both legs give q; a leg that gives
\* nothing rejects.
RequoteOf(b, q) ==
    /\ pc = "requote"
    /\ IF q = 0 THEN Reject
       ELSE /\ requote' = finalRequote(b, q)
            /\ pc' = "economics"
            /\ UNCHANGED <<price, cost>>

Requote == \E b \in Amounts \ {0}, q \in Amounts : RequoteOf(b, q)

\* validateExecutionEconomics().
Economics ==
    /\ pc = "economics"
    /\ IF /\ requote.quoteRecv >= requote.minOutB
          /\ requote.net > 0
          /\ requote.minProfit > 0
       THEN pc' = "value" /\ UNCHANGED <<requote, price, cost>>
       ELSE Reject

\* The token must have a price, and the result be worth minProfitBnb; then fee
\* data are read, and a result below a mechanical amount of gas is dropped.
Value ==
    /\ pc = "value"
    /\ \E p \in Prices, g \in GasPrices :
        LET netInBnb == inBnb(requote.net, p)
        IN  IF /\ p[1] > 0
               /\ netInBnb >= MinProfitBnb
               /\ netInBnb > (GasFloorUnits * g * (BPS + GasReserveBps)) \div BPS
            THEN /\ price' = [bnb |-> p, gas |-> g]
                 /\ pc' = "cost"
                 /\ UNCHANGED <<requote, cost>>
            ELSE Reject

\* estimateGas() and evaluateExecutionCost().
Cost ==
    /\ pc = "cost"
    /\ \E e \in GasEstimates :
        LET limit == computeGasLimit(e)
            costWei == limit * price.gas
        IN  IF /\ e > 0
               /\ limit <= MaxGasLimit
               /\ WorthIt(costWei, inBnb(requote.net, price.bnb) - costWei)
            THEN /\ cost' = [gasEstimate |-> e, gasLimit |-> limit, costWei |-> costWei]
                 /\ pc' = "approved"
                 /\ UNCHANGED <<requote, price>>
            ELSE Reject

Next == Requote \/ Economics \/ Value \/ Cost

Spec == Init /\ [][Next]_vars
-----------------------------------------------------------------------------
(* Properties                                                                *)

\* Every variable keeps its type.
TypeOK ==
    /\ pc \in {"requote", "economics", "value", "cost", "approved", "rejected"}
    /\ requote \in [borrow : Nat, quoteRecv : Nat, flashFee : Nat, net : Int,
                   minProfit : Nat, minOutB : Nat]
    /\ price \in [bnb : Nat \X (Nat \ {0}), gas : Nat]
    /\ cost \in [gasEstimate : Nat, gasLimit : Nat, costWei : Nat]

\* The contract checks minOut on the legs of V2 routers only; what guards the
\* output of any other selling pool is the profit check after repayment.  That
\* check is never looser than the minOutB the bot computed, and stricter by the
\* fee gap and a unit at most: less than three units and (FlashFeeBps / BPS)^2,
\* some six millionths, of the loan.
ProfitCheckSuffices ==
    pc \in {"value", "cost", "approved"} =>
        LET least == owed(requote.borrow) + requote.minProfit
        IN  /\ requote.minOutB <= least
            /\ (least - requote.minOutB - 3) * (BPS * (BPS - FlashFeeBps))
                    < requote.borrow * (FlashFeeBps * FlashFeeBps)

\* The gas limit has the whole buffer over the estimate, not a unit more, and
\* stays under the ceiling.
GasLimitIsTight ==
    pc = "approved" =>
        /\ cost.gasLimit * BPS >= cost.gasEstimate * (BPS + GasBufferBps)
        /\ (cost.gasLimit - 1) * BPS < cost.gasEstimate * (BPS + GasBufferBps)
        /\ cost.gasLimit <= MaxGasLimit

\* Fail-closed: no rounding of price, limit and reserve approves a trade whose
\* exact result, once the worst-case gas is paid, does not exceed the gas and
\* its reserve.
ApprovedPays ==
    pc = "approved" =>
        BPS * (requote.net * price.bnb[1] - cost.costWei * price.bnb[2])
            > cost.costWei * (BPS + GasReserveBps) * price.bnb[2]
=============================================================================
