--------------------------------- MODULE V3Quote ---------------------------------
(***************************************************************************)
(* getAmountOutV3Exact() of lib/v3.js: the quote of an exact input through a *)
(* concentrated-liquidity pool, one iteration of its loop at a time, from    *)
(* bitmap words and ticks of which some could not be read.  Then the pool    *)
(* itself executes the same input, and takes the output back.                *)
(*                                                                           *)
(* A bitmap word is known or not; the ticks initialized in it are those of   *)
(* the pool's liquidity nets.  The fee the loop is given need not be the     *)
(* pool's: a venue without feeTier is quoted at a default.  The table of     *)
(* square-root ratios, the scale of prices and the size of a word are        *)
(* parameters; uint256 does not overflow.                                    *)
(***************************************************************************)
EXTENDS Integers, FiniteSetsExt

CONSTANTS
    MinTick, MaxTick,
    Ratio,          \* getSqrtRatioAtTick()
    Q,              \* 2^96, the scale of square-root prices
    TickSpacing,
    WordBits,       \* ticks in a bitmap word, 256
    FeeDen,         \* fees are parts of this, 10^6
    MaxCross,       \* maxCrossTicks
    DefaultFee,     \* of a venue without feeTier, 500
    Pools,          \* states of the pool: sqrtP, tick, liquidity, nets, fee
    Inputs          \* amounts to be quoted

Ticks == MinTick..MaxTick
TickAt(p) == Max({t \in Ticks : Ratio[t] <= p})

ASSUME Scales ==
    /\ {Q, TickSpacing, WordBits, FeeDen} \subseteq Nat \ {0} /\ MaxCross \in Nat /\ Inputs \subseteq Nat
    /\ DefaultFee \in 0..(FeeDen - 1)
ASSUME RatiosGrow ==
    /\ MinTick \in Int /\ MaxTick \in Int /\ MinTick < 0 /\ MaxTick > 0
    /\ Ratio \in [Ticks -> Nat \ {0}]
    /\ \A s, t \in Ticks : s < t => Ratio[s] < Ratio[t]

\* The liquidity of the positions that cover a tick.
LiquidityAt(nets, tick) ==
    MapThenSumSet(LAMBDA t : nets[t], {t \in DOMAIN nets : t <= tick})

\* A pool's tick is its price's, or has just been crossed downwards; positions
\* have no negative liquidity.
ASSUME PoolStates ==
    \A p \in Pools :
        /\ p.nets \in [DOMAIN p.nets -> Int] /\ p.fee \in 0..(FeeDen - 1)
        /\ \A t \in DOMAIN p.nets : t \in Ticks /\ t % TickSpacing = 0
        /\ p.sqrtP \in Ratio[MinTick]..Ratio[MaxTick]
        /\ \/ p.tick = TickAt(p.sqrtP)
           \/ p.tick = TickAt(p.sqrtP) - 1 /\ p.sqrtP = Ratio[p.tick + 1]
        /\ p.liquidity = LiquidityAt(p.nets, p.tick)
        /\ \A t \in Ticks : LiquidityAt(p.nets, t) >= 0

VARIABLES
    pool,       \* the pool
    known,      \* words and ticks that were read
    args,       \* amountIn, zeroForOne and fee
    swap,       \* the loop: phase, left, out, sqrtP, tick, liquidity, crossed
    quote,      \* what venueOutput() returns, and whether the loop used its input
    paid        \* what the pool pays for the same input, and leaves of it

v3vars == <<pool, known, args, swap, quote, paid>>
-----------------------------------------------------------------------------
(* SqrtPriceMath and SwapMath                                                *)

mulDiv(a, b, c) == (a * b) \div c
mulDivRoundingUp(a, b, c) == (a * b + c - 1) \div c

\* For prices lo <= hi, the amounts of either token between them.
getAmount0Delta(lo, hi, L, up) ==
    IF up THEN mulDivRoundingUp(mulDivRoundingUp(L * Q, hi - lo, hi), 1, lo)
          ELSE mulDiv(L * Q, hi - lo, hi) \div lo
MutGetAmount1Delta(lo, hi, L, up) ==
    IF up THEN mulDiv(L, hi - lo, Q) ELSE mulDivRoundingUp(L, hi - lo, Q)
getAmount1Delta(lo, hi, L, up) ==
    IF up THEN mulDivRoundingUp(L, hi - lo, Q) ELSE mulDiv(L, hi - lo, Q)

getNextSqrtPriceFromInput(p, L, amount, down) ==
    CASE down /\ amount = 0 -> p
      [] down /\ amount > 0 -> mulDivRoundingUp(L * Q, p, L * Q + amount * p)
      [] OTHER -> p + (amount * Q) \div L

\* The direction is that of the target.
computeSwapStep(current, target, L, remaining, fee) ==
    LET down == current >= target
        in(p) == IF down THEN getAmount0Delta(p, current, L, TRUE)
                         ELSE getAmount1Delta(current, p, L, TRUE)
        lessFee == mulDiv(remaining, FeeDen - fee, FeeDen)
        next == IF lessFee >= in(target) THEN target
                ELSE getNextSqrtPriceFromInput(current, L, lessFee, down)
    IN  [sqrtNext |-> next,
         consumed |-> IF next = target
                      THEN in(next) + mulDivRoundingUp(in(next), fee, FeeDen - fee)
                      ELSE remaining,
         amountOut |-> IF down THEN getAmount1Delta(next, current, L, FALSE)
                               ELSE getAmount0Delta(current, next, L, FALSE)]
-----------------------------------------------------------------------------
(* TickBitmap                                                                *)

\* The compressed tick the search starts from, and its word.
From(tick, down) == IF down THEN tick \div TickSpacing ELSE tick \div TickSpacing + 1
WordPos(c) == c \div WordBits
bitPos(c) == c % WordBits

AllWords == {WordPos(t \div TickSpacing) : t \in (MinTick - 1)..(MaxTick + 1)}

\* nextInitializedTickWithinOneWord(), in the words given.
TickNext(tick, down, words) ==
    LET c == From(tick, down)
        found == {i \in {t \div TickSpacing : t \in DOMAIN pool.nets} :
                    /\ WordPos(i) = WordPos(c) /\ WordPos(c) \in words
                    /\ IF down THEN i <= c ELSE i >= c}
    IN  TickSpacing * (IF down THEN IF found = {} THEN c - bitPos(c) ELSE Max(found)
                       ELSE IF found = {} THEN c + WordBits - 1 - bitPos(c) ELSE Min(found))

\* The price at a tick, clamped to the range of prices.
Target(tick) ==
    CASE tick <= MinTick -> Ratio[MinTick]
      [] tick >= MaxTick -> Ratio[MaxTick]
      [] OTHER -> Ratio[tick]

\* The next iteration from s at a fee, as far as these words and ticks tell:
\* where it aims, what it does, and what it meets.
Iteration(s, down, words, ticks, fee) ==
    LET tickNext == TickNext(s.tick, down, words)
        step == computeSwapStep(s.sqrtP, Target(tickNext), s.liquidity, s.left, fee)
        reached == step.sqrtNext = Target(tickNext)
        initialized == /\ tickNext \in DOMAIN pool.nets
                       /\ WordPos(tickNext \div TickSpacing) \in words
    IN  [tickNext |-> tickNext, step |-> step, reachedTarget |-> reached,
         willCross |-> reached /\ initialized /\ tickNext \in ticks,
         missing |-> reached /\ initialized /\ tickNext \notin ticks]

\* s after the iteration i; a tick is crossed in the direction of the swap.
Moved(s, i, down) ==
    LET net == IF i.willCross THEN pool.nets[i.tickNext] ELSE 0
    IN  [s EXCEPT !.left = @ - i.step.consumed,
                  !.out = @ + i.step.amountOut,
                  !.sqrtP = i.step.sqrtNext,
                  !.liquidity = IF down THEN @ - net ELSE @ + net,
                  !.tick = CASE ~i.reachedTarget -> @
                             [] i.reachedTarget /\ down -> i.tickNext - 1
                             [] OTHER -> i.tickNext,
                  !.crossed = IF i.willCross THEN @ + 1 ELSE @]
-----------------------------------------------------------------------------
(* The quote                                                                 *)

Loop(phase, p, amount) ==
    [phase |-> phase, left |-> amount, out |-> 0, sqrtP |-> p.sqrtP,
     tick |-> p.tick, liquidity |-> p.liquidity, crossed |-> 0]

\* At most one word and one tick are missing.
Reads(p) ==
    {[words |-> AllWords \ w, ticks |-> DOMAIN p.nets \ t] :
        w \in {{}} \cup {{x} : x \in AllWords},
        t \in {{}} \cup {{x} : x \in DOMAIN p.nets}}

\* What venueOutput() passes for `fee`.  Discovery stores a pool's fee under
\* feeUnits, where venueOutput() does not look.
Fees(p) == {DefaultFee, p.fee}

V3Init ==
    /\ pool \in Pools
    /\ known \in Reads(pool)
    /\ args \in [amountIn : Inputs, zeroForOne : BOOLEAN, fee : Fees(pool)]
    /\ swap = Loop("quoting", pool, args.amountIn)
    /\ quote = [out |-> 0, complete |-> FALSE]
    /\ paid = [out |-> 0, left |-> 0]

\* The loop ends; venueOutput() turns an exception into 0.
Returns(out, complete) ==
    /\ quote' = [out |-> out, complete |-> complete]
    /\ swap' = Loop("pool", pool, args.amountIn)
    /\ UNCHANGED <<pool, known, args, paid>>

Continues(s) ==
    /\ swap' = s
    /\ UNCHANGED <<pool, known, args, quote, paid>>

Quoting == swap.phase = "quoting" /\ swap.left > 0
Next_ == Iteration(swap, args.zeroForOne, known.words, known.ticks, args.fee)
WordIsKnown == WordPos(From(swap.tick, args.zeroForOne)) \in known.words
MutReadsSuffice == WordIsKnown
ReadsSuffice == WordIsKnown /\ ~Next_.missing
Stuck == Next_.step.consumed = 0 /\ ~Next_.willCross

\* An unknown word or tick ends the quote: unknown is not empty.
ReadMissing == Quoting /\ ~ReadsSuffice /\ Returns(0, FALSE)

\* A step that consumes and crosses nothing ends the loop.
NoProgress == Quoting /\ ReadsSuffice /\ Stuck /\ Returns(swap.out, FALSE)

MutTraverse ==
    /\ Quoting /\ ReadsSuffice /\ ~Stuck
    /\ LET s == Moved(swap, Next_, args.zeroForOne)
       IN  CASE ~Next_.reachedTarget -> Returns(swap.out, TRUE)
             [] Next_.reachedTarget /\ s.crossed > MaxCross -> Returns(0, FALSE)
             [] OTHER -> Continues(s)
Traverse ==
    /\ Quoting /\ ReadsSuffice /\ ~Stuck
    /\ LET s == Moved(swap, Next_, args.zeroForOne)
       IN  CASE ~Next_.reachedTarget -> Returns(s.out, TRUE)
             [] Next_.reachedTarget /\ s.crossed > MaxCross -> Returns(0, FALSE)
             [] OTHER -> Continues(s)

Exhausted == swap.phase = "quoting" /\ swap.left <= 0 /\ Returns(swap.out, TRUE)
-----------------------------------------------------------------------------
(* External: the pool.  It knows its own words, goes on through empty ranges *)
(* up to the limit of prices, and keeps its tick true to its price.          *)

Limit(down) == IF down THEN Ratio[MinTick] ELSE Ratio[MaxTick]

\* `down` is the direction of the phase: the second swap goes back.
Executes(phase, down) ==
    /\ swap.phase = phase /\ swap.left > 0 /\ swap.sqrtP # Limit(down)
    /\ LET i == Iteration(swap, down, AllWords, DOMAIN pool.nets, pool.fee)
           s == Moved(swap, i, down)
       IN  Continues(IF i.reachedTarget \/ s.sqrtP = swap.sqrtP THEN s
                     ELSE [s EXCEPT !.tick = TickAt(s.sqrtP)])

Executed(phase, down) == swap.phase = phase /\ (swap.left <= 0 \/ swap.sqrtP = Limit(down))

Pays ==
    /\ Executed("pool", args.zeroForOne)
    /\ paid' = [out |-> swap.out, left |-> swap.left]
    /\ swap' = Loop("back", swap, swap.out)
    /\ UNCHANGED <<pool, known, args, quote>>

TakenBack ==
    /\ Executed("back", ~args.zeroForOne)
    /\ Continues([swap EXCEPT !.phase = "done"])

V3Next ==
    \/ ReadMissing \/ NoProgress \/ Traverse \/ Exhausted
    \/ Executes("pool", args.zeroForOne) \/ Pays
    \/ Executes("back", ~args.zeroForOne) \/ TakenBack

V3Spec == V3Init /\ [][V3Next]_v3vars
-----------------------------------------------------------------------------
(* Properties                                                                *)

\* A pool that takes no more than the fee it was quoted at pays at least the
\* quote, also where a read was missing or the loop gave up; at the pool's own fee
\* it pays exactly that when the loop used its input.  The trade's minimum profit
\* is set from it.  Of a pool that takes more than the default fee (profit.js:47)
\* nothing can be said.
QuoteIsPaid ==
    swap.phase \in {"back", "done"} /\ args.fee >= pool.fee =>
        /\ quote.out <= paid.out
        /\ quote.complete /\ args.fee = pool.fee => quote.out = paid.out

\* Every rounding favours the pool: who sells the output back at once, into
\* the state the swap left, never has more than before.
RoundTripGainsNothing ==
    swap.phase = "done" => swap.out + paid.left <= args.amountIn

\* Price, tick and liquidity, which the loop changes at different places,
\* agree after every step, and no step takes more than is left.
SwapStateAgrees ==
    swap.phase \in {"quoting", "pool", "back"} /\ swap.tick \in MinTick..(MaxTick - 1) =>
        /\ Ratio[swap.tick] <= swap.sqrtP /\ swap.sqrtP <= Ratio[swap.tick + 1]
        /\ swap.liquidity = LiquidityAt(pool.nets, swap.tick)
        /\ swap.left >= 0
=============================================================================
