----------------------- MODULE FlashLoanArbitrageProofs -----------------------
(***************************************************************************)
(* Proofs about FlashLoanArbitrage, for every set of pools, amounts, loans   *)
(* and minimum profits.                                                      *)
(***************************************************************************)
EXTENDS FlashLoanArbitrage, TLAPS

USE AmountsArePositive, LoansArePositive, MinProfitsArePositive

\* What the running transaction is bound to: the state a revert returns to
\* is clean, the V3 targets are those of its legs, the legs fit together.
Bindings ==
    stage # "idle" =>
        /\ saved.active = Inactive
        /\ active.v3 = V3Targets(call)
        /\ CheckLeg(call.legA, In)
        /\ profit = 0

\* activeDataHash admits one callback, and the source is paid by it alone.
PaidOnce ==
    /\ active.data => stage \in {"open", "lent"}
    /\ stage \notin {"idle", "repaid"} => received = 0
    /\ stage = "repaid" => received = Owed

\* What the contract holds beyond its prior funds, where a step spends it.
InHand ==
    /\ stage = "legA" => balance[In] >= saved.balance[In] + call.borrow
    /\ stage = "payA" => balance[In] >= saved.balance[In] + owes
    /\ stage = "payB" => balance[Out] >= saved.balance[Out] + owes
    /\ stage = "repaid" => balance[In] >= saved.balance[In] + call.minProfit

IndInv ==
    /\ TypeOK
    /\ Bindings
    /\ PaidOnce
    /\ InHand
    /\ IdleIsClean
    /\ PriorFundsSafe
    /\ LegsUseDistinctPools

-----------------------------------------------------------------------------

\* _ceilDiv() returns the least quotient that covers its dividend.
LEMMA CeilDivIsLeast ==
    ASSUME NEW a \in Nat \ {0}
    PROVE  LET c == CeilDiv(a * V2_FEE_DENOMINATOR, V2_FEE_NUMERATOR)
           IN  /\ c \in Nat
               /\ c * V2_FEE_NUMERATOR >= a * V2_FEE_DENOMINATOR
               /\ (c - 1) * V2_FEE_NUMERATOR < a * V2_FEE_DENOMINATOR
<1> DEFINE d == (a * 10000 - 1) \div 9975
<1>1. /\ d \in Nat
      /\ d * 9975 <= a * 10000 - 1
      /\ a * 10000 - 1 < (d + 1) * 9975
  OBVIOUS
<1>2. CeilDiv(a * V2_FEE_DENOMINATOR, V2_FEE_NUMERATOR) = d + 1
  BY DEF CeilDiv, V2_FEE_NUMERATOR, V2_FEE_DENOMINATOR
<1> HIDE DEF d
<1> QED
  BY <1>1, <1>2 DEF V2_FEE_NUMERATOR, V2_FEE_DENOMINATOR

\* The repayment the contract computes is the least its source accepts.
LEMMA OwedIsExact ==
    ASSUME TypeOK
    PROVE  Owed \in Nat /\ SourceAccepts(Owed) /\ ~SourceAccepts(Owed - 1)
<1>1. call.borrow \in Nat \ {0}
  BY DEF TypeOK, Calls
<1>2. CASE call.source = "pair"
  <2> DEFINE b == call.borrow
             c == CeilDiv(b * V2_FEE_DENOMINATOR, V2_FEE_NUMERATOR)
  <2>1. /\ c \in Nat
        /\ c * V2_FEE_NUMERATOR >= b * V2_FEE_DENOMINATOR
        /\ (c - 1) * V2_FEE_NUMERATOR < b * V2_FEE_DENOMINATOR
    BY <1>1, CeilDivIsLeast
  <2>2. Owed = c
    BY <1>2 DEF Owed
  <2> HIDE DEF c
  <2> QED
    BY <1>1, <1>2, <2>1, <2>2
    DEF SourceAccepts, V2_FEE_NUMERATOR, V2_FEE_DENOMINATOR
<1>3. CASE call.source # "pair"
  BY <1>1, <1>3 DEF Owed, SourceAccepts
<1> QED
  BY <1>2, <1>3

\* The two tokens of a trade.
LEMMA TwoTokens ==
    ASSUME TypeOK
    PROVE  /\ In \in Tokens /\ Out \in Tokens /\ In # Out
           /\ Other(In) = Out /\ Other(Out) = In
           /\ Tokens = {In, Out}
BY DEF TypeOK, Calls, In, Out, Other, Tokens

\* A token a leg sells, and the amount, when the leg may be executed.
LEMMA LegTypes ==
    ASSUME TypeOK
    PROVE  /\ Sold \in Tokens /\ Other(Sold) \in Tokens /\ Other(Sold) # Sold
           /\ Amount \in Int
           /\ AfterLeg \in Stages
<1>1. call.borrow \in Nat
  BY DEF TypeOK, Calls
<1> QED
  BY <1>1, TwoTokens DEF Sold, Amount, AfterLeg, Stages, TypeOK

LEMMA InitInv == Init => IndInv
BY DEF Init, IndInv, TypeOK, Bindings, PaidOnce, InHand, IdleIsClean,
       PriorFundsSafe, LegsUseDistinctPools, Inactive, Stages, Legs

\* Every step keeps the types.
LEMMA TypeStep == IndInv /\ [Next]_vars => TypeOK'
<1> SUFFICES ASSUME IndInv, [Next]_vars
             PROVE  TypeOK'
  OBVIOUS
<1> USE DEF IndInv
<1>1. CASE UNCHANGED vars
  BY <1>1 DEF TypeOK, vars
<1>2. ASSUME NEW c \in Calls, Open(c)
      PROVE  TypeOK'
  <2>1. V3Targets(c) \in [1..2 -> SUBSET Legs]
    BY DEF V3Targets, Calls
  <2> QED
    BY <1>2, <2>1 DEF TypeOK, Open, Stages, Calls
<1>3. ASSUME NEW a \in Amounts, Lend(a)
      PROVE  TypeOK'
  BY <1>3, TwoTokens DEF TypeOK, Lend, Stages
<1>4. CASE Callback
  BY <1>4 DEF TypeOK, Callback, Admitted, Stages
<1>5. ASSUME NEW got \in Amounts, ExactLeg(got)
      PROVE  TypeOK'
  <2>1. balance' \in [Tokens -> Nat]
    BY <1>5, LegTypes DEF TypeOK, ExactLeg
  <2> QED
    BY <1>5, <2>1, LegTypes DEF TypeOK, ExactLeg
<1>6. ASSUME NEW got \in Amounts, NEW took \in Amounts \cup {Amount},
             V3Leg(got, took)
      PROVE  TypeOK'
  <2>1. balance' \in [Tokens -> Nat]
    BY <1>6, LegTypes DEF TypeOK, V3Leg
  <2>2. owes' \in Nat
    BY <1>6, LegTypes DEF V3Leg
  <2> QED
    BY <1>6, <2>1, <2>2 DEF TypeOK, V3Leg, Stages
<1>7. CASE V3Callback
  <2>1. balance' \in [Tokens -> Nat]
    BY <1>7, LegTypes DEF TypeOK, V3Callback
  <2> QED
    BY <1>7, <2>1, LegTypes DEF TypeOK, V3Callback
<1>8. CASE Repay
  <2>1. balance' \in [Tokens -> Nat]
    BY <1>8, OwedIsExact, TwoTokens DEF TypeOK, Repay
  <2> QED
    BY <1>8, <2>1, OwedIsExact DEF TypeOK, Repay, Stages
<1>9. CASE Settle
  <2>0. /\ balance[In] \in Nat
        /\ saved.balance[In] \in Nat
        /\ call.minProfit \in Nat
    BY TwoTokens DEF TypeOK, Calls
  <2>1. Profit \in Nat /\ balance[In] - Profit \in Nat
    BY <1>9, <2>0 DEF Settle, Profit
  <2>2. balance' \in [Tokens -> Nat]
    BY <1>9, <2>1, TwoTokens DEF TypeOK, Settle
  <2>3. Cleared \in [sources : SUBSET Sources, data : BOOLEAN,
                     v3 : [1..2 -> SUBSET Legs]]
    BY DEF Cleared, Inactive
  <2> QED
    BY <1>9, <2>1, <2>2, <2>3 DEF TypeOK, Settle, Stages
<1>10. CASE Revert
  BY <1>10 DEF TypeOK, Revert, Stages
<1>11. ASSUME NEW t \in Tokens, RescueToken(t)
       PROVE  TypeOK'
  BY <1>11 DEF TypeOK, RescueToken
<1>12. ASSUME NEW t \in Tokens, NEW a \in Amounts, Deposit(t, a)
       PROVE  TypeOK'
  BY <1>12 DEF TypeOK, Deposit
<1> QED
  BY <1>1, <1>2, <1>3, <1>4, <1>5, <1>6, <1>7, <1>8, <1>9, <1>10, <1>11,
     <1>12 DEF Next

\* The bindings, and no payment but the last one.
LEMMA BindingsStep == IndInv /\ [Next]_vars => Bindings' /\ PaidOnce'
<1> SUFFICES ASSUME IndInv, [Next]_vars
             PROVE  Bindings' /\ PaidOnce'
  OBVIOUS
<1> USE DEF IndInv, Bindings, PaidOnce
<1>1. CASE UNCHANGED vars
  BY <1>1 DEF vars, V3Targets, Owed, In, CheckLeg
<1>2. ASSUME NEW c \in Calls, Open(c)
      PROVE  Bindings' /\ PaidOnce'
  <2>1. saved'.active = Inactive
    BY <1>2 DEF Open, IdleIsClean
  <2>2. active'.v3 = V3Targets(call')
    BY <1>2 DEF Open
  <2> QED
    BY <1>2, <2>1, <2>2 DEF Open, V3Targets, In, CheckLeg
<1>3. ASSUME NEW a \in Amounts, Lend(a)
      PROVE  Bindings' /\ PaidOnce'
  BY <1>3 DEF Lend, V3Targets, In, CheckLeg
<1>4. CASE Callback
  <2>1. active'.v3 = active.v3 /\ ~active'.data
    BY <1>4 DEF Callback, Admitted, TypeOK
  <2>2. stage # "repaid"
    BY <1>4 DEF Callback, Admitted
  <2> QED
    BY <1>4, <2>1, <2>2 DEF Callback, Admitted, V3Targets, In, CheckLeg
<1>5. ASSUME NEW got \in Amounts, ExactLeg(got)
      PROVE  Bindings' /\ PaidOnce'
  BY <1>5 DEF ExactLeg, V3Targets, In, CheckLeg, AfterLeg
<1>6. ASSUME NEW got \in Amounts, NEW took \in Amounts \cup {Amount},
             V3Leg(got, took)
      PROVE  Bindings' /\ PaidOnce'
  BY <1>6 DEF V3Leg, V3Targets, In, CheckLeg
<1>7. CASE V3Callback
  BY <1>7 DEF V3Callback, V3Targets, In, CheckLeg, AfterLeg
<1>8. CASE Repay
  <2>1. received' = Owed'
    BY <1>8, OwedIsExact DEF Repay, Owed
  <2> QED
    BY <1>8, <2>1 DEF Repay, V3Targets, In, CheckLeg
<1>9. CASE Settle
  BY <1>9 DEF Settle, Cleared, Inactive
<1>10. CASE Revert
  BY <1>10 DEF Revert, Inactive
<1>11. ASSUME NEW t \in Tokens, RescueToken(t)
       PROVE  Bindings' /\ PaidOnce'
  BY <1>11 DEF RescueToken
<1>12. ASSUME NEW t \in Tokens, NEW a \in Amounts, Deposit(t, a)
       PROVE  Bindings' /\ PaidOnce'
  BY <1>12 DEF Deposit
<1> QED
  BY <1>1, <1>2, <1>3, <1>4, <1>5, <1>6, <1>7, <1>8, <1>9, <1>10, <1>11,
     <1>12 DEF Next

\* A V3 pool that both legs name is refused when it asks for leg B's input.
LEMMA SamePoolRefused ==
    ASSUME TypeOK, active.v3 = V3Targets(call), stage = "payB",
           call.legA.sells = In,
           call.legA.kind = "v3", Expected(call.legB.target, Out)
    PROVE  call.legA.target # call.legB.target
<1> SUFFICES ASSUME call.legA.target = call.legB.target
             PROVE  FALSE
  OBVIOUS
<1>1. active.v3[1] = {call.legA}
  BY DEF V3Targets
<1>2. 1 \in Matching(call.legB.target)
  BY <1>1 DEF Matching
<1>3. \A leg \in active.v3[1] : leg.sells = Out
  BY <1>2 DEF Expected, Matching
<1> QED
  BY <1>1, <1>3, TwoTokens

\* Clean at rest.
LEMMA CleanStep == IndInv /\ [Next]_vars => IdleIsClean'
<1> SUFFICES ASSUME IndInv, [Next]_vars, stage' = "idle"
             PROVE  active' = Inactive
  BY DEF IdleIsClean
<1>1. CASE Revert
  BY <1>1 DEF Revert, IndInv, Bindings
<1>2. CASE Settle
  BY <1>2 DEF Settle, Cleared
<1>3. CASE stage = "idle" /\ active' = active
  BY <1>3 DEF IndInv, IdleIsClean
<1> QED
  BY <1>1, <1>2, <1>3 DEF Next, vars, Open, Lend, Callback, Admitted, ExactLeg, V3Leg,
     V3Callback, Repay, RescueToken, Deposit, AfterLeg

\* What the contract holds is what it held before the trade, and on top of it
\* what the next step spends.
LEMMA FundsStep == IndInv /\ [Next]_vars => PriorFundsSafe' /\ InHand'
<1> SUFFICES ASSUME IndInv, [Next]_vars
             PROVE  PriorFundsSafe' /\ InHand'
  OBVIOUS
<1> USE DEF IndInv
<1> DEFINE i == In
           o == Out
<1>0. /\ i \in Tokens /\ o \in Tokens /\ i # o /\ Tokens = {i, o}
      /\ Other(i) = o /\ Other(o) = i
      /\ balance \in [Tokens -> Nat] /\ saved.balance \in [Tokens -> Nat]
      /\ balance[i] \in Nat /\ balance[o] \in Nat
      /\ saved.balance[i] \in Nat /\ saved.balance[o] \in Nat
      /\ call.borrow \in Nat /\ call.minProfit \in Nat /\ owes \in Nat
  BY TwoTokens DEF TypeOK, Calls
<1>f. /\ stage # "idle" => balance[i] >= saved.balance[i]
      /\ stage # "idle" => balance[o] >= saved.balance[o]
  BY <1>0 DEF PriorFundsSafe
<1>g. call' = call => In' = i /\ Out' = o
  BY DEF In, Out
<1>h. InHand
  OBVIOUS
<1>u. ASSUME call' = call, saved' = saved,
             balance'[i] >= saved.balance[i], balance'[o] >= saved.balance[o]
      PROVE  PriorFundsSafe'
  BY <1>0, <1>u DEF PriorFundsSafe
<1>1. CASE UNCHANGED vars
  BY <1>1 DEF vars, PriorFundsSafe, InHand, In, Out
<1>2. ASSUME NEW c \in Calls, Open(c)
      PROVE  PriorFundsSafe' /\ InHand'
  <2>1. saved'.balance = balance /\ balance' = balance /\ stage' = "open"
    BY <1>2 DEF Open
  <2> QED
    BY <2>1 DEF PriorFundsSafe, InHand, TypeOK
<1>3. ASSUME NEW a \in Amounts, Lend(a)
      PROVE  PriorFundsSafe' /\ InHand'
  <2>1. /\ balance'[i] = balance[i] + a /\ balance'[o] = balance[o]
        /\ call' = call /\ saved' = saved /\ stage' = "lent" /\ stage = "open"
    BY <1>3, <1>0 DEF Lend
  <2>2. PriorFundsSafe'
    BY <2>1, <1>0, <1>f, <1>u
  <2> QED
    BY <2>1, <2>2 DEF InHand
<1>4. CASE Callback
  <2>1. /\ balance' = balance /\ call' = call /\ saved' = saved
        /\ stage' = "legA" /\ stage # "idle"
        /\ balance[i] >= saved.balance[i] + call.borrow
    BY <1>4 DEF Callback, Admitted
  <2> QED
    BY <2>1, <1>f, <1>g, <1>u DEF InHand
<1>5. ASSUME NEW got \in Amounts, ExactLeg(got)
      PROVE  PriorFundsSafe' /\ InHand'
  <2>1. CASE stage = "legA"
    <3>1. /\ balance'[i] = balance[i] - call.borrow
          /\ balance'[o] = balance[o] + got
          /\ call' = call /\ saved' = saved /\ stage' = "legB"
      BY <1>0, <1>5, <2>1 DEF ExactLeg, Sold, Amount, AfterLeg
    <3> QED
      BY <3>1, <2>1, <1>0, <1>f, <1>h, <1>u DEF InHand
  <2>2. CASE stage = "legB"
    <3>1. /\ balance'[i] = balance[i] + got
          /\ balance'[o] = saved.balance[o]
          /\ call' = call /\ saved' = saved /\ stage' = "repay"
      BY <1>0, <1>5, <2>2 DEF ExactLeg, Sold, Amount, AfterLeg
    <3> QED
      BY <3>1, <2>2, <1>0, <1>f, <1>u DEF InHand
  <2> QED
    BY <1>5, <2>1, <2>2 DEF ExactLeg
<1>6. ASSUME NEW got \in Amounts, NEW took \in Amounts \cup {Amount},
             V3Leg(got, took)
      PROVE  PriorFundsSafe' /\ InHand'
  <2>1. CASE stage = "legA"
    <3>1. /\ balance'[i] = balance[i]
          /\ balance'[o] = balance[o] + got
          /\ call' = call /\ saved' = saved /\ stage' = "payA"
          /\ owes' = took /\ took <= call.borrow /\ took \in Nat
      BY <1>0, <1>6, <2>1 DEF V3Leg, Sold, Amount
    <3> QED
      BY <3>1, <2>1, <1>0, <1>f, <1>g, <1>h, <1>u DEF InHand
  <2>2. CASE stage = "legB"
    <3>0. Sold = o /\ Amount = balance[o] - saved.balance[o] /\ Amount \in Nat
      BY <1>0, <1>6, <2>2 DEF V3Leg, Sold, Amount
    <3>1. /\ balance'[i] = balance[i] + got
          /\ balance'[o] = balance[o]
          /\ call' = call /\ saved' = saved /\ stage' = "payB"
          /\ owes' = took /\ took <= balance[o] - saved.balance[o]
          /\ took \in Nat
      BY <1>0, <1>6, <2>2, <3>0 DEF V3Leg
    <3> QED
      BY <3>1, <2>2, <1>0, <1>f, <1>g, <1>u DEF InHand
  <2> QED
    BY <1>6, <2>1, <2>2 DEF V3Leg
<1>7. CASE V3Callback
  <2>1. CASE stage = "payA"
    <3>1. /\ balance'[i] = balance[i] - owes /\ balance'[o] = balance[o]
          /\ call' = call /\ saved' = saved /\ stage' = "legB"
      BY <1>0, <1>7, <2>1 DEF V3Callback, Sold, AfterLeg
    <3> QED
      BY <3>1, <2>1, <1>0, <1>f, <1>h, <1>u DEF InHand
  <2>2. CASE stage = "payB"
    <3>1. /\ balance'[i] = balance[i] /\ balance'[o] = balance[o] - owes
          /\ call' = call /\ saved' = saved /\ stage' = "repay"
      BY <1>0, <1>7, <2>2 DEF V3Callback, Sold, AfterLeg
    <3> QED
      BY <3>1, <2>2, <1>0, <1>f, <1>h, <1>u DEF InHand
  <2> QED
    BY <1>7, <2>1, <2>2 DEF V3Callback
<1>8. CASE Repay
  <2>1. /\ balance'[i] = balance[i] - Owed /\ balance'[o] = balance[o]
        /\ balance[i] - Owed >= saved.balance[i] + call.minProfit
        /\ call' = call /\ saved' = saved /\ stage = "repay"
        /\ stage' = "repaid" /\ Owed \in Nat
    BY <1>0, <1>8, OwedIsExact DEF Repay
  <2> QED
    BY <2>1, <1>0, <1>f, <1>g, <1>u DEF InHand
<1>9. CASE Settle
  BY <1>9 DEF Settle, PriorFundsSafe, InHand
<1>10. CASE Revert
  BY <1>10 DEF Revert, PriorFundsSafe, InHand
<1>11. ASSUME NEW t \in Tokens, RescueToken(t)
       PROVE  PriorFundsSafe' /\ InHand'
  BY <1>11 DEF RescueToken, PriorFundsSafe, InHand
<1>12. ASSUME NEW t \in Tokens, NEW a \in Amounts, Deposit(t, a)
       PROVE  PriorFundsSafe' /\ InHand'
  BY <1>12 DEF Deposit, PriorFundsSafe, InHand
<1> QED
  BY <1>1, <1>2, <1>3, <1>4, <1>5, <1>6, <1>7, <1>8, <1>9, <1>10, <1>11,
     <1>12 DEF Next

\* No repayment after two legs through one V3 pool.
LEMMA DistinctStep == IndInv /\ [Next]_vars => LegsUseDistinctPools'
<1> SUFFICES ASSUME IndInv, [Next]_vars, stage' \in {"repay", "repaid"},
                    call'.legA.kind = "v3", call'.legB.kind = "v3"
             PROVE  call'.legA.target # call'.legB.target
  BY DEF LegsUseDistinctPools
<1>1. CASE stage \in {"repay", "repaid"} /\ call' = call
  BY <1>1 DEF IndInv, LegsUseDistinctPools
<1>2. ASSUME NEW got \in Amounts, ExactLeg(got)
      PROVE  call'.legA.target # call'.legB.target
  <2>1. stage = "legB" /\ call.legB.kind = "exact" /\ call' = call
    BY <1>2 DEF ExactLeg, AfterLeg, Leg
  <2> QED
    BY <2>1
<1>3. CASE V3Callback
  <2>1. stage = "payB" /\ Expected(call.legB.target, Out) /\ call' = call
    BY <1>3 DEF V3Callback, AfterLeg, Leg, Sold
  <2>2. /\ TypeOK /\ active.v3 = V3Targets(call)
        /\ call.legA.sells = In
    BY <2>1 DEF IndInv, Bindings, CheckLeg
  <2> QED
    BY <2>1, <2>2, SamePoolRefused
<1> QED
  BY <1>1, <1>2, <1>3 DEF Next, vars, Open, Lend, Callback, Admitted, V3Leg, Repay,
     Settle, Revert, RescueToken, Deposit

LEMMA InvStep == IndInv /\ [Next]_vars => IndInv'
BY TypeStep, BindingsStep, CleanStep, FundsStep, DistinctStep DEF IndInv

-----------------------------------------------------------------------------

\* The inductive invariant of the contract.
THEOREM TradeInvariant == Spec => []IndInv
<1>1. Init => IndInv
  BY InitInv
<1>2. IndInv /\ [Next]_vars => IndInv'
  BY InvStep
<1> QED
  BY <1>1, <1>2, PTL DEF Spec

\* Every variable keeps its type: no path spends a balance, a debt or a profit
\* below zero, where the contract's unsigned subtraction would revert.
THEOREM ContractTypes == Spec => []TypeOK
<1>1. IndInv => TypeOK
  BY DEF IndInv
<1> QED
  BY <1>1, TradeInvariant, PTL

\* The contract's prior funds survive every step of every trade.
THEOREM PriorFundsAreSafe == Spec => []PriorFundsSafe
<1>1. IndInv => PriorFundsSafe
  BY DEF IndInv
<1> QED
  BY <1>1, TradeInvariant, PTL

\* The source is paid back exactly once, the least it accepts.
THEOREM RepaidExactly == Spec => []RepaymentIsExact
<1>1. IndInv => RepaymentIsExact
  BY OwedIsExact DEF IndInv, RepaymentIsExact, PaidOnce
<1> QED
  BY <1>1, TradeInvariant, PTL

\* No callback is admitted between transactions, and no trade that names one
\* V3 pool twice is repaid.
THEOREM CallbacksAreBound == Spec => [](IdleIsClean /\ LegsUseDistinctPools)
<1>1. IndInv => IdleIsClean /\ LegsUseDistinctPools
  BY DEF IndInv
<1> QED
  BY <1>1, TradeInvariant, PTL

\* A transaction is undone, or pays the promised profit out of its gain.
THEOREM TradesEndWhole == Spec => EndsWhole
<1> DEFINE Whole ==
        stage # "idle" /\ stage' = "idle" =>
            \/ balance' = saved.balance /\ profit' = 0
            \/ /\ profit' >= call.minProfit
               /\ balance'[In] = saved.balance[In]
               /\ balance'[Out] >= saved.balance[Out]
<1>1. IndInv /\ [Next]_vars => [Whole]_vars
  <2> SUFFICES ASSUME IndInv, [Next]_vars, stage # "idle", stage' = "idle"
               PROVE  \/ balance' = saved.balance /\ profit' = 0
                      \/ /\ profit' >= call.minProfit
                         /\ balance'[In] = saved.balance[In]
                         /\ balance'[Out] >= saved.balance[Out]
    OBVIOUS
  <2>1. CASE Revert
    BY <2>1 DEF Revert, IndInv, Bindings
  <2>2. CASE Settle
    <3>1. /\ balance \in [Tokens -> Nat] /\ saved.balance \in [Tokens -> Nat]
          /\ call.minProfit \in Nat
          /\ In \in Tokens /\ Out \in Tokens /\ In # Out
          /\ balance[In] \in Nat /\ saved.balance[In] \in Nat
      BY TwoTokens DEF IndInv, TypeOK, Calls
    <3>2. balance[Out] >= saved.balance[Out]
      BY <3>1 DEF IndInv, PriorFundsSafe
    <3>3. profit' = balance[In] - saved.balance[In]
      BY <2>2 DEF Settle, Profit
    <3>4. balance'[In] = saved.balance[In] /\ balance'[Out] = balance[Out]
      BY <2>2, <3>1 DEF Settle, Profit
    <3>5. balance[In] >= saved.balance[In] + call.minProfit
      BY <2>2 DEF Settle
    <3>6. profit' >= call.minProfit
      BY <3>1, <3>3, <3>5
    <3> QED
      BY <3>2, <3>4, <3>6
  <2> QED
    BY <2>1, <2>2 DEF Next, vars, Open, Lend, Callback, Admitted, ExactLeg, V3Leg,
       V3Callback, Repay, RescueToken, Deposit, AfterLeg
<1> QED
  BY <1>1, TradeInvariant, PTL DEF Spec, EndsWhole
===============================================================================
