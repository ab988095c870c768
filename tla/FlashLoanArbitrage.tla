-------------------------- MODULE FlashLoanArbitrage --------------------------
(***************************************************************************)
(* contracts/FlashLoanArbitrage.sol: one transaction that borrows a token    *)
(* from a flash source, swaps it through two legs, repays the source and     *)
(* pays the owner what is left over.                                         *)
(*                                                                           *)
(* A transaction is a sequence of calls in which the contract, its source    *)
(* and the pools take turns; every turn is a step.  A require() that fails   *)
(* anywhere reverts the whole transaction, hence Revert, which may also be   *)
(* the choice of any contract called.  nonReentrant admits one transaction   *)
(* at a time, so "no transaction runs" is the stage "idle".                  *)
(*                                                                           *)
(* The loan, the callback and the repayment are the same protocol for the    *)
(* PancakeSwap V2 pair and for the DODO pool: Sources tells them apart where *)
(* the code does.  V2_ROUTER and DODO_POOL legs spend the exact input and    *)
(* are one kind, "exact"; a V3 pool may be filled in part and asks for its   *)
(* input through a callback.  Allowances, minOut and a DODO pool's earlier   *)
(* input can only make a leg revert.                                         *)
(***************************************************************************)
EXTENDS Integers

CONSTANTS
    Pools,        \* PancakeSwap V3 pools of the two tokens
    Amounts,      \* BOUND: amounts put in or out by the other contracts
    Loans,        \* BOUND: amounts borrowed
    MinProfits,   \* BOUND: minProfit_
    MaxFunds      \* BOUND: tokens of either kind held when a trade begins

ASSUME AmountsArePositive == Amounts \subseteq Nat \ {0}
ASSUME LoansArePositive == Loans \subseteq Nat \ {0}
ASSUME MinProfitsArePositive == MinProfits \subseteq Nat \ {0}
ASSUME FundsBound == MaxFunds \in Nat

VARIABLES
    balance,    \* token balances of the contract
    active,     \* activePair / activeDodoPool (as the set of those that are
                \* not zero), activeDataHash # 0, and the two entries of
                \* activeV3Targets, each empty or the leg it was set from
    call,       \* arguments of the running transaction, or of the last one
    stage,      \* what the transaction does next
    saved,      \* state before the transaction: what a revert restores; its
                \* balances are initialTokenInBalance, initialTokenOutBalance
    owes,       \* input a V3 pool asks for in its callback
    received,   \* what the source was paid back
    profit      \* what the last transaction paid to the owner

vars == <<balance, active, call, stage, saved, owes, received, profit>>

Tokens == {"x", "y"}
Other(t) == IF t = "x" THEN "y" ELSE "x"

Sources == {"pair", "dodo"}

V2_FEE_NUMERATOR == 9975
V2_FEE_DENOMINATOR == 10000

\* `sells` stands for zeroForOne, or for the ends of a router's path.
Legs == [kind : {"exact", "v3"}, target : Pools, sells : Tokens]

Calls == [source : Sources, tokenIn : Tokens, borrow : Loans,
          minProfit : MinProfits, legA : Legs, legB : Legs]

Stages == {"idle", "open", "lent", "legA", "payA", "legB", "payB", "repay",
           "repaid"}

In == call.tokenIn
Out == Other(call.tokenIn)

Inactive == [sources |-> {}, data |-> FALSE, v3 |-> <<{}, {}>>]

-----------------------------------------------------------------------------
(* Helpers of the contract                                                   *)

MutCeilDiv(a, b) == a \div b
CeilDiv(a, b) == IF a = 0 THEN 0 ELSE (a - 1) \div b + 1

\* What the callback pays back.
Owed == IF call.source = "pair"
        THEN CeilDiv(call.borrow * V2_FEE_DENOMINATOR, V2_FEE_NUMERATOR)
        ELSE call.borrow

\* What the source asks for: the pair's own check with its fee, or the loan.
SourceAccepts(paid) ==
    IF call.source = "pair"
    THEN paid * V2_FEE_NUMERATOR >= call.borrow * V2_FEE_DENOMINATOR
    ELSE paid >= call.borrow

CheckLeg(leg, tokenIn) == leg.sells = tokenIn

V3Targets(c) == [i \in 1..2 |->
    {leg \in {IF i = 1 THEN c.legA ELSE c.legB} : leg.kind = "v3"}]

MutCleared == [Inactive EXCEPT !.sources = active.sources]
Cleared == Inactive

\* Which entry of activeV3Targets the loop of the callback stops at, and
\* whether that entry sells the token the pool asks for.
Matching(pool) == {i \in 1..2 : \E leg \in active.v3[i] : leg.target = pool}

Expected(pool, token) ==
    \E i \in Matching(pool) :
        /\ \A j \in Matching(pool) : i <= j
        /\ \A leg \in active.v3[i] : leg.sells = token

-----------------------------------------------------------------------------
(* The transaction                                                           *)

\* flashArbitrage() and flashArbitrageDodo() up to the call of the source.
Open(c) ==
    /\ stage = "idle"
    /\ \A t \in Tokens : balance[t] <= MaxFunds
    /\ CheckLeg(c.legA, c.tokenIn)
    /\ CheckLeg(c.legB, Other(c.tokenIn))
    /\ call' = c
    /\ saved' = [balance |-> balance, active |-> active]
    /\ active' = [sources |-> active.sources \cup {c.source},
                  data |-> TRUE, v3 |-> V3Targets(c)]
    /\ received' = 0
    /\ profit' = 0
    /\ stage' = "open"
    /\ UNCHANGED <<balance, owes>>

\* The source sends the loan, or less of it (a token with a transfer fee).
Lend(a) ==
    /\ stage = "open"
    /\ a <= call.borrow
    /\ balance' = [balance EXCEPT ![In] = @ + a]
    /\ stage' = "lent"
    /\ UNCHANGED <<active, call, saved, owes, received, profit>>

\* pancakeCall() or _dodoCall(), up to leg A: whom they answer, and what they
\* do then.  The source has control, and may call, after it lent and again
\* after it was repaid.
Admitted ==
    /\ stage \in {"lent", "repaid"}
    /\ call.source \in active.sources
    /\ active.data
    /\ balance[In] >= saved.balance[In] + call.borrow
MutCallback ==
    /\ Admitted
    /\ stage' = "legA"
    /\ UNCHANGED <<balance, active, call, saved, owes, received, profit>>
Callback ==
    /\ Admitted
    /\ active' = [active EXCEPT !.data = FALSE]
    /\ stage' = "legA"
    /\ UNCHANGED <<balance, call, saved, owes, received, profit>>

\* The leg in progress, the token it sells, how much, and what comes next.
Leg == IF stage \in {"legA", "payA"} THEN call.legA ELSE call.legB
Sold == IF stage \in {"legA", "payA"} THEN In ELSE Out
MutAmount == IF stage = "legA" THEN call.borrow ELSE balance[Out]
Amount == IF stage = "legA" THEN call.borrow
          ELSE balance[Out] - saved.balance[Out]
AfterLeg == IF stage \in {"legA", "payA"} THEN "legB" ELSE "repay"

\* _execLeg() through a router or a DODO pool.
ExactLeg(got) ==
    /\ stage \in {"legA", "legB"}
    /\ Leg.kind = "exact"
    /\ Amount > 0
    /\ balance[Sold] >= Amount
    /\ balance' = [balance EXCEPT ![Sold] = @ - Amount,
                                  ![Other(Sold)] = @ + got]
    /\ stage' = AfterLeg
    /\ UNCHANGED <<active, call, saved, owes, received, profit>>

\* _execLeg() on a V3 pool: it sends its output first and then asks for what
\* it took, which is less than the input when it runs out of liquidity.
V3Leg(got, took) ==
    /\ stage \in {"legA", "legB"}
    /\ Leg.kind = "v3"
    /\ Amount > 0
    /\ took <= Amount
    /\ balance' = [balance EXCEPT ![Other(Sold)] = @ + got]
    /\ owes' = took
    /\ stage' = IF stage = "legA" THEN "payA" ELSE "payB"
    /\ UNCHANGED <<active, call, saved, received, profit>>

\* pancakeV3SwapCallback()
V3Callback ==
    /\ stage \in {"payA", "payB"}
    /\ active.data \/ active.sources # {}
    /\ Expected(Leg.target, Sold)
    /\ owes > 0
    /\ balance[Sold] >= owes
    /\ balance' = [balance EXCEPT ![Sold] = @ - owes]
    /\ owes' = 0
    /\ stage' = AfterLeg
    /\ UNCHANGED <<active, call, saved, received, profit>>

\* The end of the callback: the transfer to the source and the profit check.
Repay ==
    /\ stage = "repay"
    /\ balance[In] >= Owed
    /\ balance[In] - Owed >= saved.balance[In] + call.minProfit
    /\ balance' = [balance EXCEPT ![In] = @ - Owed]
    /\ received' = received + Owed
    /\ stage' = "repaid"
    /\ UNCHANGED <<active, call, saved, owes, profit>>

\* Only what was gained over the balance before the trade is profit.
MutProfit == balance[In]

Profit == balance[In] - saved.balance[In]

\* The source returns, and the entry point pays the owner.
Settle ==
    /\ stage = "repaid"
    /\ SourceAccepts(received)
    /\ balance[In] >= saved.balance[In] + call.minProfit
    /\ profit' = Profit
    /\ balance' = [balance EXCEPT ![In] = @ - Profit]
    /\ active' = Cleared
    /\ stage' = "idle"
    /\ UNCHANGED <<call, saved, owes, received>>

\* A require() of the contract or of a contract it calls fails.
Revert ==
    /\ stage # "idle"
    /\ balance' = saved.balance
    /\ active' = saved.active
    /\ owes' = 0
    /\ received' = 0
    /\ stage' = "idle"
    /\ UNCHANGED <<call, saved, profit>>

\* rescueToken()
RescueToken(t) ==
    /\ stage = "idle"
    /\ balance[t] > 0
    /\ balance' = [balance EXCEPT ![t] = 0]
    /\ UNCHANGED <<active, call, stage, saved, owes, received, profit>>

\* Anyone sends tokens to the contract.
Deposit(t, a) ==
    /\ stage = "idle"
    /\ balance[t] + a <= MaxFunds
    /\ balance' = [balance EXCEPT ![t] = @ + a]
    /\ UNCHANGED <<active, call, stage, saved, owes, received, profit>>

Init ==
    /\ balance = [t \in Tokens |-> 0]
    /\ active = Inactive
    /\ call \in Calls
    /\ stage = "idle"
    /\ saved = [balance |-> balance, active |-> active]
    /\ owes = 0
    /\ received = 0
    /\ profit = 0

Next ==
    \/ \E c \in Calls : Open(c)
    \/ \E a \in Amounts : Lend(a)
    \/ Callback
    \/ \E got \in Amounts : ExactLeg(got)
    \/ \E got \in Amounts, took \in Amounts \cup {Amount} : V3Leg(got, took)
    \/ V3Callback
    \/ Repay
    \/ Settle
    \/ Revert
    \/ \E t \in Tokens : RescueToken(t)
    \/ \E t \in Tokens, a \in Amounts : Deposit(t, a)

Spec == Init /\ [][Next]_vars

-----------------------------------------------------------------------------
(* Properties                                                                *)

TypeOK ==
    /\ balance \in [Tokens -> Nat]
    /\ active \in [sources : SUBSET Sources, data : BOOLEAN,
                   v3 : [1..2 -> SUBSET Legs]]
    /\ call \in Calls
    /\ stage \in Stages
    /\ saved \in [balance : [Tokens -> Nat],
                  active : [sources : SUBSET Sources, data : BOOLEAN,
                            v3 : [1..2 -> SUBSET Legs]]]
    /\ owes \in Nat
    /\ received \in Nat
    /\ profit \in Nat

\* Between transactions no callback target is left behind: the callbacks are
\* external, and what admits them is only what _clear() or a revert removes.
IdleIsClean == stage = "idle" => active = Inactive

\* At no point of a trade is either balance below what the contract held
\* before it: the legs, the pools and the repayment live on the loan and on
\* what the legs return ("Pre-existing funds remain untouched").
PriorFundsSafe ==
    stage # "idle" => \A t \in Tokens : balance[t] >= saved.balance[t]

\* What the callback pays back is what the source asks for and not a unit
\* more, rounding and a second call of the callback included.
RepaymentIsExact ==
    stage = "repaid" => SourceAccepts(received) /\ ~SourceAccepts(received - 1)

\* A trade cannot route both legs through one V3 pool: the callback stops at
\* the first target that matches, which expects the other token for leg B.
LegsUseDistinctPools ==
    stage \in {"repay", "repaid"} =>
        ~(/\ call.legA.kind = "v3"
          /\ call.legB.kind = "v3"
          /\ call.legA.target = call.legB.target)

\* A transaction ends as it began, or it paid the owner at least minProfit_
\* out of what the trade earned, the borrowed token back at its old balance
\* and the other one at no less.
EndsWhole ==
    [][stage # "idle" /\ stage' = "idle" =>
        \/ balance' = saved.balance /\ profit' = 0
        \/ /\ profit' >= call.minProfit
           /\ balance'[In] = saved.balance[In]
           /\ balance'[Out] >= saved.balance[Out]]_vars
===============================================================================
