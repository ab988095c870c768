-------------------------- MODULE QuotedTradeProofs --------------------------
(***************************************************************************)
(* The quoted trade, proved for every pool, range of ticks, table of prices, *)
(* fee, amount and gas.  A swap of the pool pays what was quoted at no less   *)
(* than its fee, and at its own fee to the unit when the engine completed the *)
(* quote; such a trade passes the contract's profit check unless the pool is *)
(* moved; and who sells an output back gains nothing.                        *)
(*                                                                           *)
(*   Division, SwapMath    what a step takes and gives, as products          *)
(*   Ticks, Liquidity      where a step may end, and what is in force there  *)
(*   One iteration         price, tick and liquidity keep agreeing           *)
(*   The two walks         the pool covers every step of the engine's loop   *)
(*   The invariant         of the quote and of the swap that executes it     *)
(*   The gates             what the trade adds to the quote                  *)
(*   The round trip        what the positions hold pays for every step       *)
(***************************************************************************)
EXTENDS QuotedTrade, FiniteSetTheorems, WellFoundedInduction, TLAPS

-----------------------------------------------------------------------------
(* Division.                                                                 *)

\* BigInt's division by a positive number rounds down.
LEMMA Floor ==
    ASSUME NEW a \in Int, NEW b \in Nat \ {0}
    PROVE  /\ a \div b \in Int
           /\ a \in Nat => a \div b \in Nat
           /\ (a \div b) * b <= a
           /\ a < (a \div b) * b + b
  OBVIOUS

\* ceilDiv() of execution-cost.js is the least multiple from above.
LEMMA Ceiling ==
    ASSUME NEW a \in Nat, NEW b \in Nat \ {0}
    PROVE  /\ ceilDiv(a, b) \in Nat
           /\ a <= ceilDiv(a, b) * b
           /\ a > 0 => (ceilDiv(a, b) - 1) * b < a
<1>1. CASE a = 0
  BY <1>1 DEF ceilDiv
<1>2. CASE a > 0
  <2> DEFINE q == (a + b - 1) \div b
  <2>1. q \in Nat /\ q * b <= a + b - 1 /\ a + b - 1 < q * b + b
    BY Floor
  <2>2. (q - 1) * b = q * b - b
    BY <2>1
  <2> QED
    BY <1>2, <2>1, <2>2 DEF ceilDiv
<1> QED
  BY <1>1, <1>2

\* Products of natural numbers are natural.
LEMMA Products ==
    ASSUME NEW a \in Nat, NEW b \in Nat
    PROVE  a * b \in Nat
  OBVIOUS

\* What is ordered after multiplication was ordered before.
LEMMA Cancel ==
    ASSUME NEW a \in Int, NEW b \in Int, NEW c \in Nat \ {0}
    PROVE  /\ a * c <= b * c => a <= b
           /\ a * c < b * c => a < b
           /\ a < b => a * c < b * c
           /\ a <= b => a * c <= b * c
  OBVIOUS
-----------------------------------------------------------------------------
(* Induction.  Minimal counterexamples stand for it: the sets are data, no    *)
(* operator is a parameter.                                                  *)

\* A set of natural numbers that is not empty has a least one.
LEMMA LeastNatural ==
    ASSUME NEW T \in SUBSET Nat, T # {}
    PROVE  \E n \in T : \A m \in T : n <= m
<1> DEFINE R == {ss \in Nat \X Nat : ss[1] < ss[2]}
<1>1. IsWellFoundedOn(R, Nat)
  BY NatLessThanWellFounded DEF OpToRel
<1>2. \A m, n \in Nat : m < n => <<m, n>> \in R
  OBVIOUS
<1> HIDE DEF R
<1>3. PICK n \in T : \A m \in T : ~ (<<m, n>> \in R)
  BY <1>1, WFMin
<1>4. ASSUME NEW m \in T PROVE n <= m
  <2>1. ~ (m < n)
    BY <1>2, <1>3
  <2> QED
    BY <2>1
<1> QED
  BY <1>4

\* A set of finite sets that has a member has one with no proper subset in it.
LEMMA LeastSubset ==
    ASSUME NEW S, IsFiniteSet(S), NEW T \in SUBSET (SUBSET S), T # {}
    PROVE  \E s \in T : \A u \in SUBSET s : u # s => u \notin T
<1>1. IsWellFoundedOn(StrictSubsetOrdering(S), SUBSET S)
  BY FS_StrictSubsetOrderingWellFounded, FS_FiniteSubsetsOfFinite
<1>2. PICK s \in T : \A u \in T : ~ (<<u, s>> \in StrictSubsetOrdering(S))
  BY <1>1, WFMin
<1>3. ASSUME NEW u \in SUBSET s, u # s, u \in T PROVE FALSE
  <2>1. <<u, s>> \in (SUBSET S) \X (SUBSET S)
    BY <1>3
  <2>2. <<u, s>> \in StrictSubsetOrdering(S)
    BY <2>1, <1>3 DEF StrictSubsetOrdering
  <2> QED
    BY <2>2, <1>2, <1>3
<1> QED
  BY <1>3

\* The largest and the least of integers with a bound.
LEMMA MaxIsLargest ==
    ASSUME NEW S \in SUBSET Int, S # {}, NEW b \in Int, \A x \in S : x <= b
    PROVE  Max(S) \in S /\ \A y \in S : y <= Max(S)
<1> DEFINE T == {b - x : x \in S}
<1>1. T \in SUBSET Nat /\ T # {}
  <2>1. \A x \in S : b - x \in Nat
    OBVIOUS
  <2>2. \A n \in T : \E x \in S : n = b - x
    OBVIOUS
  <2>3. PICK x \in S : TRUE
    OBVIOUS
  <2>4. b - x \in T
    BY <2>3
  <2> HIDE DEF T
  <2> QED
    BY <2>1, <2>2, <2>4
<1>2. PICK n \in T : \A m \in T : n <= m
  <2> HIDE DEF T
  <2> QED
    BY <1>1, LeastNatural
<1>3. PICK x \in S : n = b - x
  BY <1>2
<1>4. \A y \in S : x >= y
  <2> TAKE y \in S
  <2>1. b - x <= b - y
    BY <1>2, <1>3
  <2> QED
    BY <2>1
<1> QED
  BY <1>3, <1>4 DEF Max

\* As MaxIsLargest.
LEMMA MinIsLeast ==
    ASSUME NEW S \in SUBSET Int, S # {}, NEW b \in Int, \A x \in S : b <= x
    PROVE  Min(S) \in S /\ \A y \in S : Min(S) <= y
<1> DEFINE T == {x - b : x \in S}
<1>1. T \in SUBSET Nat /\ T # {}
  <2>1. \A x \in S : x - b \in Nat
    OBVIOUS
  <2>2. \A n \in T : \E x \in S : n = x - b
    OBVIOUS
  <2>3. PICK x \in S : TRUE
    OBVIOUS
  <2>4. x - b \in T
    BY <2>3
  <2> HIDE DEF T
  <2> QED
    BY <2>1, <2>2, <2>4
<1>2. PICK n \in T : \A m \in T : n <= m
  <2> HIDE DEF T
  <2> QED
    BY <1>1, LeastNatural
<1>3. PICK x \in S : n = x - b
  BY <1>2
<1>4. \A y \in S : x <= y
  <2> TAKE y \in S
  <2>1. x - b <= y - b
    BY <1>2, <1>3
  <2> QED
    BY <2>1
<1> QED
  BY <1>3, <1>4 DEF Min
-----------------------------------------------------------------------------
(* Sums over finite sets.  A fold is the solution of an equation; it exists   *)
(* and is unique, and so any one element may be taken out of it.             *)

Total(f, S) == MapThenSumSet(LAMBDA x : f[x], S)

Pick(s) == CHOOSE x \in s : TRUE
Body(f, g, s) == IF s = {} THEN 0 ELSE f[Pick(s)] + g[s \ {Pick(s)}]
Sums(f, S) == CHOOSE g : g = [s \in SUBSET S |-> Body(f, g, s)]
Solves(f, g, S) == g = [s \in SUBSET S |-> Body(f, g, s)]

\* The fold of the community modules is the solution named by Sums.
LEMMA TotalIsSums ==
    ASSUME NEW f, NEW S
    PROVE  Total(f, S) = Sums(f, S)[S]
  BY DEF Total, MapThenSumSet, MapThenFoldSet, Sums, Body, Pick

\* What is picked from a set is in it.
LEMMA PickIn ==
    ASSUME NEW s, s # {}
    PROVE  Pick(s) \in s
  BY DEF Pick

\* A solution satisfies its equation at every subset.
LEMMA SolvesAt ==
    ASSUME NEW f, NEW g, NEW S, Solves(f, g, S), NEW u \in SUBSET S
    PROVE  g[u] = Body(f, g, u)
<1> DEFINE h == [s \in SUBSET S |-> Body(f, g, s)]
<1>1. h[u] = Body(f, g, u)
  OBVIOUS
<1>2. g = h
  BY Zenon DEF Solves
<1> HIDE DEF h
<1> QED
  BY <1>1, <1>2

\* Two solutions, over any two sets, agree wherever both are defined.
LEMMA SolutionsAgree ==
    ASSUME NEW S, IsFiniteSet(S), NEW f, NEW g, NEW h,
           NEW A \in SUBSET S, NEW B \in SUBSET S,
           Solves(f, g, A), Solves(f, h, B), NEW u \in SUBSET A, u \in SUBSET B
    PROVE  g[u] = h[u]
<1> SUFFICES ASSUME g[u] # h[u] PROVE FALSE
  OBVIOUS
<1> DEFINE T == {s \in SUBSET S : s \subseteq A /\ s \subseteq B /\ g[s] # h[s]}
<1>1. T \in SUBSET (SUBSET S) /\ u \in T
  OBVIOUS
<1>2. PICK s \in T : \A v \in SUBSET s : v # s => v \notin T
  <2> HIDE DEF T
  <2> QED
    BY <1>1, LeastSubset
<1>3. g[s] = Body(f, g, s) /\ h[s] = Body(f, h, s)
  BY <1>2 DEF Solves
<1>4. CASE s = {}
  BY <1>2, <1>3, <1>4 DEF Body
<1>5. CASE s # {}
  <2> DEFINE v == s \ {Pick(s)}
  <2>1. v \in SUBSET s /\ v # s
    BY <1>5, PickIn
  <2>2. v \notin T /\ v \in SUBSET S /\ v \subseteq A /\ v \subseteq B
    BY <1>2, <2>1
  <2>3. g[v] = h[v]
    BY <2>2
  <2> QED
    BY <1>2, <1>3, <1>5, <2>3 DEF Body
<1> QED
  BY <1>4, <1>5

\* The equation has a solution over every finite set.
LEMMA SolutionExists ==
    ASSUME NEW S, IsFiniteSet(S), NEW f
    PROVE  \E g : Solves(f, g, S)
<1> SUFFICES ASSUME ~ \E g : Solves(f, g, S) PROVE FALSE
  OBVIOUS
<1> DEFINE T == {s \in SUBSET S : ~ \E g : Solves(f, g, s)}
<1>1. T \in SUBSET (SUBSET S) /\ S \in T
  OBVIOUS
<1>2. PICK s \in T : \A v \in SUBSET s : v # s => v \notin T
  <2> HIDE DEF T
  <2> QED
    BY <1>1, LeastSubset
<1>3. \A v \in SUBSET s : v # s => \E g : Solves(f, g, v)
  BY <1>2
<1> DEFINE sol(v) == CHOOSE g : Solves(f, g, v)
           low == [v \in SUBSET s |-> sol(v)[v]]
           new == [v \in SUBSET s |-> Body(f, low, v)]
<1>4. \A v \in SUBSET s : v # s => Solves(f, sol(v), v)
  BY <1>3
<1>5. ASSUME NEW v \in SUBSET s, v # s PROVE low[v] = Body(f, low, v)
  <2>1. sol(v)[v] = Body(f, sol(v), v)
    <3> HIDE DEF sol
    <3> QED
      BY <1>4, <1>5, SolvesAt
  <2>2. CASE v = {}
    BY <2>1, <2>2 DEF Body
  <2>3. CASE v # {}
    <3> DEFINE w == v \ {Pick(v)}
    <3>1. w \in SUBSET v /\ w \in SUBSET s /\ w # s
      BY <1>5, <2>3, PickIn
    <3>2. Solves(f, sol(v), v) /\ Solves(f, sol(w), w)
      BY <1>4, <1>5, <3>1
    <3>3. sol(v)[w] = sol(w)[w]
      <4>1. v \in SUBSET S /\ w \in SUBSET S
        BY <1>2, <3>1
      <4> HIDE DEF sol, w
      <4> QED
        BY <3>1, <3>2, <4>1, SolutionsAgree
    <3> QED
      BY <2>1, <2>3, <3>1, <3>3 DEF Body
  <2> QED
    BY <2>2, <2>3
<1>6. \A v \in SUBSET s : v # s => new[v] = low[v]
  BY <1>5
<1>7. \A v \in SUBSET s : Body(f, new, v) = Body(f, low, v)
  <2> HIDE DEF new, low
  <2> TAKE v \in SUBSET s
  <2>1. CASE v = {}
    BY <2>1 DEF Body
  <2>2. CASE v # {}
    <3>1. v \ {Pick(v)} \in SUBSET s /\ v \ {Pick(v)} # s
      BY <2>2, PickIn
    <3> QED
      BY <2>2, <3>1, <1>6 DEF Body
  <2> QED
    BY <2>1, <2>2
<1>8. Solves(f, new, s)
  BY <1>7 DEF Solves
<1> QED
  BY <1>2, <1>8

\* Hence the function that is chosen is one.
LEMMA SumsSolves ==
    ASSUME NEW S, IsFiniteSet(S), NEW f
    PROVE  Solves(f, Sums(f, S), S)
<1>1. Sums(f, S) = CHOOSE g : Solves(f, g, S)
  BY DEF Sums, Solves
<1> QED
  BY <1>1, SolutionExists

\* The equation of a sum.
LEMMA TotalByPick ==
    ASSUME NEW S, IsFiniteSet(S), NEW f
    PROVE  Total(f, S) = IF S = {} THEN 0 ELSE f[Pick(S)] + Total(f, S \ {Pick(S)})
<1>1. Total(f, S) = Body(f, Sums(f, S), S)
  BY TotalIsSums, SumsSolves, SolvesAt
<1>2. CASE S = {}
  BY <1>1, <1>2 DEF Body
<1>3. CASE S # {}
  <2> DEFINE u == S \ {Pick(S)}
  <2>1. IsFiniteSet(u) /\ u \in SUBSET S
    BY FS_Subset
  <2>2. Solves(f, Sums(f, S), S) /\ Solves(f, Sums(f, u), u)
    BY <2>1, SumsSolves
  <2>3. Sums(f, S)[u] = Sums(f, u)[u]
    <3> HIDE DEF u
    <3> QED
      BY <2>1, <2>2, SolutionsAgree
  <2> QED
    BY <1>1, <1>3, <2>3, TotalIsSums DEF Body
<1> QED
  BY <1>2, <1>3

\* Any one element may be taken out of a sum of integers.
LEMMA TotalWithout ==
    ASSUME NEW D, IsFiniteSet(D), NEW f, \A x \in D : f[x] \in Int
    PROVE  /\ Total(f, D) \in Int
           /\ \A y \in D : Total(f, D) = f[y] + Total(f, D \ {y})
<1> DEFINE OK(s) == /\ Total(f, s) \in Int
                    /\ \A y \in s : Total(f, s) = f[y] + Total(f, s \ {y})
           T == {s \in SUBSET D : ~OK(s)}
<1> SUFFICES ASSUME D \in T PROVE FALSE
  OBVIOUS
<1>2. PICK s \in T : \A v \in SUBSET s : v # s => v \notin T
  <2>1. T \in SUBSET (SUBSET D) /\ T # {}
    OBVIOUS
  <2> HIDE DEF T
  <2> QED
    BY <2>1, LeastSubset
<1>3. s \in SUBSET D /\ ~OK(s) /\ \A v \in SUBSET s : v # s => OK(v)
  BY <1>2
<1>4. \A v \in SUBSET s : IsFiniteSet(v)
  BY <1>3, FS_Subset
<1> HIDE DEF T
<1>5. CASE s = {}
  BY <1>3, <1>4, <1>5, TotalByPick
<1>6. CASE s # {}
  <2> DEFINE x == Pick(s)
             r == s \ {x}
  <2>1. x \in s /\ r \in SUBSET s /\ r # s /\ f[x] \in Int
    BY <1>3, <1>6, PickIn
  <2>2. Total(f, s) = f[x] + Total(f, r)
    BY <1>4, <1>6, TotalByPick
  <2>3. OK(r)
    BY <1>3, <2>1
  <2> HIDE DEF x
  <2>4. ASSUME NEW y \in s, y # x PROVE Total(f, s) = f[y] + Total(f, s \ {y})
    <3> DEFINE q == s \ {y}
               b == r \ {y}
    <3>1. q \in SUBSET s /\ q # s /\ x \in q /\ y \in r /\ b = q \ {x}
      BY <2>1, <2>4
    <3>2. OK(q)
      BY <1>3, <3>1
    <3>3. b \in SUBSET s /\ b # s /\ f[y] \in Int
      BY <1>3, <2>1
    <3>4. OK(b)
      BY <1>3, <3>3
    <3>5. Total(f, r) = f[y] + Total(f, b) /\ Total(f, q) = f[x] + Total(f, b) 
      BY <2>3, <3>1, <3>2
    <3>6. Total(f, b) \in Int
      BY <3>4
    <3> HIDE DEF q, b, r
    <3> QED
      BY <2>1, <2>2, <3>3, <3>5, <3>6 DEF q
  <2>5. Total(f, s) \in Int
    BY <2>1, <2>2, <2>3
  <2>6. OK(s)
    BY <2>2, <2>4, <2>5 
  <2> QED
    BY <1>3, <2>6
<1> QED
  BY <1>5, <1>6

-----------------------------------------------------------------------------
(* SwapMath.  Amounts and prices are related by products, never by quotients: *)
(* what goes in is rounded up, what comes out is rounded down.               *)

Positive == Nat \ {0}

\* The constants that are divided by.
LEMMA ScalesArePositive ==
    Q \in Positive /\ TickSpacing \in Positive /\ WordBits \in Positive /\ FeeDen \in Positive
  BY Scales DEF Positive

\* mulDivRoundingUp() is the least number whose product reaches the other.
LEMMA RoundingUp ==
    ASSUME NEW a \in Nat, NEW b \in Nat, NEW c \in Positive
    PROVE  LET r == mulDivRoundingUp(a, b, c)
           IN  r \in Nat /\ a * b <= r * c /\ r * c < a * b + c
<1> DEFINE x == a * b
<1>1. x \in Nat
  BY Products
<1> HIDE DEF x
<1>2. (x + c - 1) \div c \in Nat
  BY <1>1, Floor DEF Positive
<1>3. ((x + c - 1) \div c) * c <= x + c - 1 /\ x + c - 1 < ((x + c - 1) \div c) * c + c
  BY <1>1, Floor DEF Positive
<1> QED
  BY <1>1, <1>2, <1>3 DEF mulDivRoundingUp, x, Positive

\* mulDiv() rounds down.
LEMMA RoundingDown ==
    ASSUME NEW a \in Nat, NEW b \in Nat, NEW c \in Positive
    PROVE  mulDiv(a, b, c) \in Nat /\ mulDiv(a, b, c) * c <= a * b
<1> DEFINE x == a * b
<1>1. x \in Nat
  BY Products
<1> HIDE DEF x
<1>2. x \div c \in Nat /\ (x \div c) * c <= x
  BY <1>1, Floor DEF Positive
<1> QED
  BY <1>2 DEF mulDiv, x

\* Multiplication keeps the order.
LEMMA Multiply ==
    ASSUME NEW a \in Nat, NEW b \in Nat, NEW c \in Nat, a <= b
    PROVE  a * c <= b * c
  OBVIOUS

\* Token 0 between two prices, rounded up: enough, and nothing less is enough.
LEMMA Amount0Up ==
    ASSUME NEW lo \in Positive, NEW hi \in Positive, lo <= hi, NEW L \in Nat
    PROVE  LET u == getAmount0Delta(lo, hi, L, TRUE)
           IN  /\ u \in Nat
               /\ (L * Q) * (hi - lo) <= (u * lo) * hi
               /\ \A n \in Nat : n < u => (n * lo) * hi < (L * Q) * (hi - lo)
<1> DEFINE X == L * Q
           d == hi - lo
           t == mulDivRoundingUp(X, d, hi)
           u == mulDivRoundingUp(t, 1, lo)
<1>1. X \in Nat /\ d \in Nat
  BY Products, ScalesArePositive DEF Positive
<1> HIDE DEF X, d
<1>2. t \in Nat /\ X * d <= t * hi /\ t * hi < X * d + hi
  BY <1>1, RoundingUp
<1> HIDE DEF t
<1>3. u \in Nat /\ t * 1 <= u * lo /\ u * lo < t * 1 + lo
  BY <1>2, RoundingUp DEF Positive
<1> HIDE DEF u
<1>4. X * d <= (u * lo) * hi
  <2>1. u * lo \in Nat /\ t <= u * lo
    BY <1>2, <1>3, Products DEF Positive
  <2>2. t * hi <= (u * lo) * hi
    BY <1>2, <2>1, Multiply DEF Positive
  <2> QED
    BY <1>1, <1>2, <2>1, <2>2, Products DEF Positive
<1>5. ASSUME NEW n \in Nat, n < u PROVE (n * lo) * hi < X * d
  <2>1. n * lo <= (u - 1) * lo
    BY <1>3, <1>5, Multiply DEF Positive
  <2>2. (u - 1) * lo = u * lo - lo
    BY <1>3 DEF Positive
  <2>3. n * lo \in Nat /\ u * lo \in Nat
    BY <1>3, Products DEF Positive
  <2>4. n * lo <= t - 1 /\ t - 1 \in Nat
    BY <1>2, <1>3, <2>1, <2>2, <2>3 DEF Positive
  <2>5. (n * lo) * hi <= (t - 1) * hi
    BY <2>3, <2>4, Multiply DEF Positive
  <2>6. (t - 1) * hi = t * hi - hi
    BY <1>2 DEF Positive
  <2>7. (n * lo) * hi \in Nat /\ t * hi \in Nat /\ X * d \in Nat
    BY <1>1, <1>2, <2>3, Products DEF Positive
  <2> QED
    BY <1>2, <2>5, <2>6, <2>7 DEF Positive
<1> QED
  BY <1>3, <1>4, <1>5 DEF getAmount0Delta, u, t, X, d

\* What is paid of token 0 is rounded down.
LEMMA Amount0Down ==
    ASSUME NEW lo \in Positive, NEW hi \in Positive, lo <= hi, NEW L \in Nat
    PROVE  LET u == getAmount0Delta(lo, hi, L, FALSE)
           IN  u \in Nat /\ (u * lo) * hi <= (L * Q) * (hi - lo)
<1> DEFINE X == L * Q
           d == hi - lo
           t == mulDiv(X, d, hi)
           u == t \div lo
<1>1. X \in Nat /\ d \in Nat
  BY Products, ScalesArePositive DEF Positive
<1> HIDE DEF X, d
<1>2. t \in Nat /\ t * hi <= X * d
  BY <1>1, RoundingDown
<1> HIDE DEF t
<1>3. u \in Nat /\ u * lo <= t
  BY <1>2, Floor DEF Positive
<1> HIDE DEF u
<1>4. (u * lo) * hi <= t * hi
  BY <1>2, <1>3, Products, Multiply DEF Positive
<1>5. (u * lo) * hi \in Nat /\ t * hi \in Nat /\ X * d \in Nat
  BY <1>1, <1>2, <1>3, Products DEF Positive
<1> QED
  BY <1>2, <1>3, <1>4, <1>5 DEF getAmount0Delta, u, t, X, d

\* What is asked of token 1 is the least that pays for the distance.
LEMMA Amount1Up ==
    ASSUME NEW lo \in Positive, NEW hi \in Positive, lo <= hi, NEW L \in Nat
    PROVE  LET u == getAmount1Delta(lo, hi, L, TRUE)
           IN  /\ u \in Nat
               /\ L * (hi - lo) <= u * Q
               /\ \A n \in Nat : n < u => n * Q < L * (hi - lo)
<1> DEFINE d == hi - lo
           u == mulDivRoundingUp(L, d, Q)
<1>1. d \in Nat
  BY DEF Positive
<1> HIDE DEF d
<1>2. u \in Nat /\ L * d <= u * Q /\ u * Q < L * d + Q
  BY <1>1, RoundingUp, ScalesArePositive
<1> HIDE DEF u
<1>3. ASSUME NEW n \in Nat, n < u PROVE n * Q < L * d
  <2>1. n * Q <= (u - 1) * Q
    BY <1>2, <1>3, Multiply, ScalesArePositive DEF Positive
  <2>2. (u - 1) * Q = u * Q - Q
    BY <1>2, ScalesArePositive DEF Positive
  <2>3. n * Q \in Nat /\ u * Q \in Nat /\ L * d \in Nat
    BY <1>1, <1>2, Products, ScalesArePositive DEF Positive
  <2> QED
    BY <1>2, <2>1, <2>2, <2>3, ScalesArePositive DEF Positive
<1> QED
  BY <1>2, <1>3 DEF getAmount1Delta, u, d

\* What is paid of token 1 is rounded down.
LEMMA Amount1Down ==
    ASSUME NEW lo \in Positive, NEW hi \in Positive, lo <= hi, NEW L \in Nat
    PROVE  LET u == getAmount1Delta(lo, hi, L, FALSE)
           IN  u \in Nat /\ u * Q <= L * (hi - lo)
<1>1. hi - lo \in Nat
  BY DEF Positive
<1> QED
  BY <1>1, RoundingDown, ScalesArePositive DEF getAmount1Delta

\* An input that is too small to move the price to t leaves it short of t.
LEMMA NextPriceDown ==
    ASSUME NEW c \in Positive, NEW t \in Positive, t <= c, NEW L \in Nat, NEW n \in Nat,
           n < getAmount0Delta(t, c, L, TRUE)
    PROVE  LET p == getNextSqrtPriceFromInput(c, L, n, TRUE)
           IN  /\ p \in Positive /\ t < p /\ p <= c
               /\ (L * Q) * (c - p) <= (n * c) * p
<1> DEFINE X == L * Q
           p == getNextSqrtPriceFromInput(c, L, n, TRUE)
<1>1. X \in Nat
  BY Products, ScalesArePositive DEF Positive
<1>2. (n * t) * c < X * (c - t)
  BY Amount0Up
<1>3. getNextSqrtPriceFromInput(c, L, n, TRUE) =
        IF n = 0 THEN c ELSE mulDivRoundingUp(X, c, X + n * c)
  BY DEF getNextSqrtPriceFromInput
<1> HIDE DEF X
<1>4. c > t
  <2>1. c = t => X * (c - t) = 0
    BY <1>1 DEF Positive
  <2>2. (n * t) * c \in Nat
    BY Products DEF Positive
  <2> QED
    BY <1>2, <2>1, <2>2 DEF Positive
<1>5. CASE n = 0
  <2>1. p = c
    BY <1>3, <1>5
  <2> HIDE DEF p
  <2>2. c - p = 0 /\ n * c = 0
    BY <1>1, <1>5, <2>1 DEF Positive
  <2>3. X * (c - p) = 0 /\ (n * c) * p = 0
    BY <1>1, <2>1, <2>2 DEF Positive
  <2>4. X * (c - p) <= (n * c) * p
    BY <2>3
  <2>5. p \in Positive /\ t < p /\ p <= c
    BY <1>4, <2>1 DEF Positive
  <2> QED
    BY <2>4, <2>5 DEF p, X
<1>6. CASE n # 0
  <2> DEFINE nc == n * c
             D == X + nc
  <2>1. nc \in Positive /\ D \in Positive
    BY <1>1, <1>6 DEF Positive
  <2>2. p = mulDivRoundingUp(X, c, D)
    BY <1>3, <1>6
  <2>3. p \in Nat /\ X * c <= p * D /\ p * D < X * c + D
    BY <1>1, <2>1, <2>2, RoundingUp DEF Positive
  <2> HIDE DEF p
  <2>4. t * D = X * t + (n * t) * c /\ X * (c - t) = X * c - X * t
    BY <1>1 DEF Positive
  <2>5. /\ X * t \in Nat /\ (n * t) * c \in Nat /\ X * c \in Nat
        /\ p * D \in Nat /\ t * D \in Nat /\ c * D \in Nat
    <3>1. n * t \in Nat
      BY Products DEF Positive
    <3> HIDE DEF D
    <3> QED
      BY <3>1, <1>1, <2>1, <2>3, Products DEF Positive
  <2>6. t < p
    <3>1. t * D < p * D
      <4> HIDE DEF D, nc
      <4> QED
        BY <1>2, <2>3, <2>4, <2>5
    <3> HIDE DEF D
    <3> QED
      BY <3>1, <2>1, <2>3, Cancel DEF Positive
  <2>7. p <= c
    <3>1. c * D = X * c + nc * c /\ nc * c \in Nat
      BY <1>1, <2>1, Products DEF Positive
    <3>2. (c + 1) * D = c * D + D
      BY <2>1 DEF Positive
    <3> HIDE DEF D, nc
    <3>3. p * D < (c + 1) * D
      BY <2>1, <2>3, <2>5, <3>1, <3>2 DEF Positive
    <3>4. p < c + 1
      BY <3>3, <2>1, <2>3, Cancel DEF Positive
    <3> QED
      BY <3>4, <2>3 DEF Positive
  <2>8. X * (c - p) <= nc * p
    <3>1. X * (c - p) = X * c - X * p /\ p * D = X * p + nc * p
      BY <1>1, <2>1, <2>3 DEF Positive
    <3>2. X * p \in Nat /\ nc * p \in Nat
      BY <1>1, <2>1, <2>3, Products DEF Positive
    <3> HIDE DEF D, nc
    <3> QED
      BY <2>3, <2>5, <3>1, <3>2
  <2>9. p \in Positive
    BY <2>3, <2>6 DEF Positive
  <2> QED
    BY <2>6, <2>7, <2>8, <2>9 DEF p, X
<1> QED
  BY <1>5, <1>6

\* An amount of token 1 too small for the target moves the price no further than
\* it pays for, and not to the target.
LEMMA NextPriceUp ==
    ASSUME NEW c \in Positive, NEW t \in Positive, c <= t, NEW L \in Nat, NEW n \in Nat,
           n < getAmount1Delta(c, t, L, TRUE)
    PROVE  LET p == getNextSqrtPriceFromInput(c, L, n, FALSE)
           IN  /\ p \in Positive /\ c <= p /\ p < t
               /\ L * (p - c) <= n * Q
<1> DEFINE nq == n * Q
           f == nq \div L
           p == c + f
<1>1. nq < L * (t - c) /\ nq \in Nat
  BY Amount1Up, Products, ScalesArePositive DEF Positive
<1>2. getNextSqrtPriceFromInput(c, L, n, FALSE) = p
  BY DEF getNextSqrtPriceFromInput
<1> HIDE DEF nq
<1>3. L \in Positive
  <2>1. L = 0 => L * (t - c) = 0
    BY DEF Positive
  <2> QED
    BY <1>1, <2>1 DEF Positive
<1>4. f \in Nat /\ f * L <= nq
  BY <1>1, <1>3, Floor DEF Positive
<1> HIDE DEF f
<1>5. f * L < (t - c) * L
  BY <1>1, <1>3, <1>4 DEF Positive
<1>6. f < t - c
  BY <1>3, <1>4, <1>5, Cancel DEF Positive
<1>7. L * (p - c) <= nq
  <2>1. p - c = f
    BY <1>4 DEF Positive
  <2>2. L * f = f * L
    BY <1>3, <1>4 DEF Positive
  <2> QED
    BY <1>4, <2>1, <2>2
<1>8. p \in Positive /\ c <= p /\ p < t
  BY <1>4, <1>6 DEF Positive
<1> HIDE DEF p
<1> QED
  BY <1>2, <1>7, <1>8 DEF nq

\* The fee is taken on top of what moves the price, and there is enough for it.
LEMMA FeeFits ==
    ASSUME NEW in \in Nat, NEW rem \in Nat, NEW fee \in 0..(FeeDen - 1)
    PROVE  LET net == mulDiv(rem, FeeDen - fee, FeeDen)
               charge == mulDivRoundingUp(in, fee, FeeDen - fee)
           IN  /\ net \in Nat /\ net <= rem
               /\ charge \in Nat
               /\ in <= net => in + charge <= rem
               /\ in = 0 => charge = 0
<1> DEFINE D == FeeDen - fee
           net == mulDiv(rem, D, FeeDen)
           charge == mulDivRoundingUp(in, fee, D)
<1>1. fee \in Nat /\ D \in Positive /\ FeeDen \in Positive /\ FeeDen = D + fee
  BY ScalesArePositive DEF Positive
<1> HIDE DEF D
<1>2. net \in Nat /\ net * FeeDen <= rem * D
  BY <1>1, RoundingDown DEF Positive
<1>3. charge \in Nat /\ charge * D < in * fee + D
  BY <1>1, RoundingUp
<1>4. in = 0 => charge = 0
  <2> SUFFICES ASSUME in = 0 PROVE charge = 0
    OBVIOUS
  <2>1. in * fee = 0
    BY <1>1
  <2>2. charge * D < 1 * D
    BY <1>1, <1>3, <2>1 DEF Positive
  <2> HIDE DEF charge
  <2>3. charge < 1
    BY <1>1, <1>3, <2>2, Cancel DEF Positive
  <2> QED
    BY <1>3, <2>3
<1> HIDE DEF net, charge
<1>5. /\ rem * D \in Nat /\ rem * fee \in Nat /\ rem * FeeDen = rem * D + rem * fee
      /\ net * FeeDen \in Nat /\ in * FeeDen \in Nat
      /\ in * D \in Nat /\ in * fee \in Nat /\ in * FeeDen = in * D + in * fee
      /\ charge * D \in Nat
  BY <1>1, <1>2, <1>3 DEF Positive
<1>6. net <= rem
  <2>1. net * FeeDen <= rem * FeeDen
    BY <1>2, <1>5
  <2> QED
    BY <1>1, <1>2, <2>1, Cancel DEF Positive
<1>7. ASSUME in <= net PROVE in + charge <= rem
  <2>1. in * FeeDen <= net * FeeDen
    BY <1>1, <1>2, <1>7, Multiply DEF Positive
  <2>2. (in + charge) * D = in * D + charge * D /\ (rem + 1) * D = rem * D + D
    BY <1>1, <1>3 DEF Positive
  <2>3. (in + charge) * D < (rem + 1) * D
    BY <1>1, <1>2, <1>3, <1>5, <2>1, <2>2 DEF Positive
  <2>4. in + charge < rem + 1
    BY <1>1, <1>3, <2>3, Cancel DEF Positive
  <2> QED
    BY <1>3, <2>4
<1> QED
  BY <1>2, <1>3, <1>4, <1>6, <1>7 DEF net, charge, D

\* What computeSwapStep() promises downwards: the price stays between where it
\* is and its target, no more is consumed than there is, all of it unless the
\* target is reached, and both amounts are rounded in the pool's favour.
LEMMA SwapStepDown ==
    ASSUME NEW cur \in Positive, NEW tgt \in Positive, tgt <= cur,
           NEW L \in Nat, NEW rem \in Nat, NEW fee \in 0..(FeeDen - 1)
    PROVE  LET r == computeSwapStep(cur, tgt, L, rem, fee)
           IN  /\ r.consumed \in Nat /\ r.consumed <= rem
               /\ r.amountOut \in Nat
               /\ r.sqrtNext \in Positive /\ tgt <= r.sqrtNext /\ r.sqrtNext <= cur
               /\ r.sqrtNext # tgt => r.consumed = rem
               /\ (L * Q) * (cur - r.sqrtNext) <= (r.consumed * cur) * r.sqrtNext
               /\ r.amountOut * Q <= L * (cur - r.sqrtNext)
               /\ cur = tgt => r.consumed = 0 /\ r.amountOut = 0
<1> DEFINE in == getAmount0Delta(tgt, cur, L, TRUE)
           net == mulDiv(rem, FeeDen - fee, FeeDen)
           charge == mulDivRoundingUp(in, fee, FeeDen - fee)
           short == getNextSqrtPriceFromInput(cur, L, net, TRUE)
           next == IF net >= in THEN tgt ELSE short
           r == computeSwapStep(cur, tgt, L, rem, fee)
<1>1. (cur >= tgt) = TRUE
  BY DEF Positive
<1>2. r = [sqrtNext |-> next,
           consumed |-> IF next = tgt
                        THEN getAmount0Delta(next, cur, L, TRUE)
                             + mulDivRoundingUp(getAmount0Delta(next, cur, L, TRUE),
                                                fee, FeeDen - fee)
                        ELSE rem,
           amountOut |-> getAmount1Delta(next, cur, L, FALSE)]
  BY <1>1 DEF computeSwapStep
<1> HIDE DEF next, r
<1>3. /\ r.sqrtNext = next
      /\ next = tgt => r.consumed = in + charge
      /\ next # tgt => r.consumed = rem
      /\ r.amountOut = getAmount1Delta(next, cur, L, FALSE)
  <2>1. /\ r.sqrtNext = next
        /\ r.amountOut = getAmount1Delta(next, cur, L, FALSE)
        /\ r.consumed = IF next = tgt
                        THEN getAmount0Delta(next, cur, L, TRUE)
                             + mulDivRoundingUp(getAmount0Delta(next, cur, L, TRUE),
                                                fee, FeeDen - fee)
                        ELSE rem
    BY <1>2
  <2>2. CASE next = tgt
    BY <2>1, <2>2
  <2>3. CASE next # tgt
    BY <2>1, <2>3
  <2> QED
    BY <2>1, <2>2, <2>3
<1>4. in \in Nat /\ (L * Q) * (cur - tgt) <= (in * tgt) * cur
  BY Amount0Up
<1> HIDE DEF in
<1>5. /\ net \in Nat /\ net <= rem /\ charge \in Nat
      /\ in <= net => in + charge <= rem
      /\ in = 0 => charge = 0
  BY <1>4, FeeFits
<1> HIDE DEF net, charge
<1>6. CASE net >= in
  <2>1. next = tgt /\ in <= net
    BY <1>4, <1>5, <1>6 DEF next
  <2>2. r.sqrtNext = tgt /\ r.consumed = in + charge /\ in + charge \in Nat
    BY <1>3, <1>4, <1>5, <2>1
  <2>3. (L * Q) * (cur - tgt) <= ((in + charge) * cur) * tgt
    <3>1. in * tgt <= (in + charge) * tgt /\ in * tgt \in Nat /\ (in + charge) * tgt \in Nat
      BY <1>4, <1>5, Multiply, Products DEF Positive
    <3>2. (in * tgt) * cur <= ((in + charge) * tgt) * cur
      BY <3>1, Multiply DEF Positive
    <3>3. ((in + charge) * tgt) * cur = ((in + charge) * cur) * tgt
      BY <1>4, <1>5 DEF Positive
    <3>4. /\ (L * Q) * (cur - tgt) \in Nat /\ (in * tgt) * cur \in Nat
          /\ ((in + charge) * tgt) * cur \in Nat
      <4>1. L * Q \in Nat /\ cur - tgt \in Nat
        BY Products, ScalesArePositive DEF Positive
      <4> QED
        BY <3>1, <4>1, Products DEF Positive
    <3> QED
      BY <1>4, <3>2, <3>3, <3>4
  <2>4. r.amountOut \in Nat /\ r.amountOut * Q <= L * (cur - tgt)
    BY <1>3, <2>1, Amount1Down
  <2>5. ASSUME cur = tgt PROVE in + charge = 0 /\ r.amountOut = 0
    <3>1. cur - tgt = 0
      BY <2>5 DEF Positive
    <3>2. in = 0
      <4>1. ~ (0 < in)
        <5>1. (L * Q) * 0 = 0 /\ (0 * tgt) * cur = 0
          BY Products, ScalesArePositive DEF Positive
        <5>2. 0 < in => (0 * tgt) * cur < (L * Q) * (cur - tgt)
          BY Amount0Up DEF in
        <5> QED
          BY <3>1, <5>1, <5>2
      <4> QED
        BY <1>4, <4>1
    <3>3. r.amountOut = 0
      <4>1. r.amountOut * Q <= 0
        BY <2>4, <3>1
      <4> QED
        BY <2>4, <4>1, ScalesArePositive DEF Positive
    <3> QED
      BY <1>5, <3>2, <3>3
  <2> QED
    BY <1>5, <2>1, <2>2, <2>3, <2>4, <2>5 DEF r, Positive
<1>7. CASE ~ (net >= in)
  <2>1. next = short /\ net < in
    BY <1>4, <1>5, <1>7 DEF next
  <2>2. /\ short \in Positive /\ tgt < short /\ short <= cur
        /\ (L * Q) * (cur - short) <= (net * cur) * short
    BY <1>5, <2>1, NextPriceDown DEF in
  <2> HIDE DEF short
  <2>3. r.sqrtNext = short /\ r.consumed = rem
    BY <1>3, <2>1, <2>2 DEF Positive
  <2>4. (L * Q) * (cur - short) <= (rem * cur) * short
    <3>1. net * cur <= rem * cur /\ net * cur \in Nat /\ rem * cur \in Nat
      BY <1>5, Multiply, Products DEF Positive
    <3>2. (net * cur) * short <= (rem * cur) * short
      BY <2>2, <3>1, Multiply DEF Positive
    <3>3. /\ (net * cur) * short \in Nat /\ (rem * cur) * short \in Nat
          /\ (L * Q) * (cur - short) \in Nat
      <4>1. L * Q \in Nat /\ cur - short \in Nat
        BY <2>2, Products, ScalesArePositive DEF Positive
      <4> QED
        BY <2>2, <3>1, <4>1, Products DEF Positive
    <3> QED
      BY <2>2, <3>2, <3>3
  <2>5. r.amountOut \in Nat /\ r.amountOut * Q <= L * (cur - short)
    BY <1>3, <2>1, <2>2, Amount1Down
  <2>6. tgt # cur /\ tgt <= short
    BY <2>2 DEF Positive
  <2> QED
    BY <2>2, <2>3, <2>4, <2>5, <2>6 DEF r
<1> QED
  BY <1>6, <1>7

\* The same upwards.
LEMMA SwapStepUp ==
    ASSUME NEW cur \in Positive, NEW tgt \in Positive, cur < tgt,
           NEW L \in Nat, NEW rem \in Nat, NEW fee \in 0..(FeeDen - 1)
    PROVE  LET r == computeSwapStep(cur, tgt, L, rem, fee)
           IN  /\ r.consumed \in Nat /\ r.consumed <= rem
               /\ r.amountOut \in Nat
               /\ r.sqrtNext \in Positive /\ cur <= r.sqrtNext /\ r.sqrtNext <= tgt
               /\ r.sqrtNext # tgt => r.consumed = rem
               /\ L * (r.sqrtNext - cur) <= r.consumed * Q
               /\ (r.amountOut * cur) * r.sqrtNext <= (L * Q) * (r.sqrtNext - cur)
<1> DEFINE in == getAmount1Delta(cur, tgt, L, TRUE)
           net == mulDiv(rem, FeeDen - fee, FeeDen)
           charge == mulDivRoundingUp(in, fee, FeeDen - fee)
           short == getNextSqrtPriceFromInput(cur, L, net, FALSE)
           next == IF net >= in THEN tgt ELSE short
           r == computeSwapStep(cur, tgt, L, rem, fee)
<1>1. (cur >= tgt) = FALSE
  BY DEF Positive
<1>2. r = [sqrtNext |-> next,
           consumed |-> IF next = tgt
                        THEN getAmount1Delta(cur, next, L, TRUE)
                             + mulDivRoundingUp(getAmount1Delta(cur, next, L, TRUE),
                                                fee, FeeDen - fee)
                        ELSE rem,
           amountOut |-> getAmount0Delta(cur, next, L, FALSE)]
  BY <1>1 DEF computeSwapStep
<1> HIDE DEF next, r
<1>3. /\ r.sqrtNext = next
      /\ next = tgt => r.consumed = in + charge
      /\ next # tgt => r.consumed = rem
      /\ r.amountOut = getAmount0Delta(cur, next, L, FALSE)
  <2>1. /\ r.sqrtNext = next
        /\ r.amountOut = getAmount0Delta(cur, next, L, FALSE)
        /\ r.consumed = IF next = tgt
                        THEN getAmount1Delta(cur, next, L, TRUE)
                             + mulDivRoundingUp(getAmount1Delta(cur, next, L, TRUE),
                                                fee, FeeDen - fee)
                        ELSE rem
    BY <1>2
  <2>2. CASE next = tgt
    BY <2>1, <2>2
  <2>3. CASE next # tgt
    BY <2>1, <2>3
  <2> QED
    BY <2>1, <2>2, <2>3
<1>4. in \in Nat /\ L * (tgt - cur) <= in * Q /\ cur <= tgt
  <2>1. cur <= tgt
    BY DEF Positive
  <2> QED
    BY <2>1, Amount1Up
<1> HIDE DEF in
<1>5. /\ net \in Nat /\ net <= rem /\ charge \in Nat
      /\ in <= net => in + charge <= rem
  BY <1>4, FeeFits
<1> HIDE DEF net, charge
<1>6. CASE net >= in
  <2>1. next = tgt /\ in <= net
    BY <1>4, <1>5, <1>6 DEF next
  <2>2. r.sqrtNext = tgt /\ r.consumed = in + charge /\ in + charge \in Nat
    BY <1>3, <1>4, <1>5, <2>1
  <2>3. L * (tgt - cur) <= (in + charge) * Q
    <3>1. in * Q <= (in + charge) * Q
      BY <1>4, <1>5, Multiply, ScalesArePositive DEF Positive
    <3>2. in * Q \in Nat /\ (in + charge) * Q \in Nat /\ L * (tgt - cur) \in Nat
      BY <1>4, <1>5, Products, ScalesArePositive DEF Positive
    <3> QED
      BY <1>4, <3>1, <3>2
  <2>4. r.amountOut \in Nat /\ (r.amountOut * cur) * tgt <= (L * Q) * (tgt - cur)
    BY <1>3, <1>4, <2>1, Amount0Down
  <2> QED
    BY <1>4, <1>5, <2>1, <2>2, <2>3, <2>4 DEF r, Positive
<1>7. CASE ~ (net >= in)
  <2>1. next = short /\ net < in
    BY <1>4, <1>5, <1>7 DEF next
  <2>2. /\ short \in Positive /\ cur <= short /\ short < tgt
        /\ L * (short - cur) <= net * Q
    BY <1>4, <1>5, <2>1, NextPriceUp DEF in
  <2> HIDE DEF short
  <2>3. r.sqrtNext = short /\ r.consumed = rem
    BY <1>3, <2>1, <2>2 DEF Positive
  <2>4. L * (short - cur) <= rem * Q
    <3>1. net * Q <= rem * Q
      BY <1>5, Multiply, ScalesArePositive DEF Positive
    <3>2. net * Q \in Nat /\ rem * Q \in Nat /\ L * (short - cur) \in Nat
      BY <1>5, <2>2, Products, ScalesArePositive DEF Positive
    <3> QED
      BY <2>2, <3>1, <3>2
  <2>5. r.amountOut \in Nat /\ (r.amountOut * cur) * short <= (L * Q) * (short - cur)
    BY <1>3, <2>1, <2>2, Amount0Down
  <2>6. tgt # short /\ short <= tgt
    BY <2>2 DEF Positive
  <2> QED
    BY <2>2, <2>3, <2>4, <2>5, <2>6 DEF r
<1> QED
  BY <1>6, <1>7

\* Division by a positive number keeps the order.
LEMMA Quotients ==
    ASSUME NEW a \in Nat, NEW b \in Nat, NEW c \in Positive, a <= b
    PROVE  a \div c <= b \div c
<1> DEFINE p == a \div c
           q == b \div c
<1>1. p \in Nat /\ p * c <= a
  BY Floor DEF Positive
<1>2. q \in Nat /\ b < q * c + c
  BY Floor DEF Positive
<1> HIDE DEF p, q
<1>3. p * c \in Nat /\ q * c \in Nat /\ (q + 1) * c = q * c + c
  BY <1>1, <1>2, Products DEF Positive
<1>4. p * c < (q + 1) * c
  BY <1>1, <1>2, <1>3 DEF Positive
<1>5. p < q + 1
  BY <1>1, <1>2, <1>4, Cancel DEF Positive
<1> QED
  BY <1>1, <1>2, <1>5 DEF p, q

\* A lower fee leaves more of a larger input, and charges less for a distance.
LEMMA LowerFee ==
    ASSUME NEW in \in Nat, NEW n \in Nat, NEW m \in Nat, n <= m,
           NEW f \in 0..(FeeDen - 1), NEW g \in 0..(FeeDen - 1), g <= f
    PROVE  /\ mulDiv(n, FeeDen - f, FeeDen) <= mulDiv(m, FeeDen - g, FeeDen)
           /\ mulDivRoundingUp(in, g, FeeDen - g) <= mulDivRoundingUp(in, f, FeeDen - f)
<1> DEFINE D == FeeDen - f
           E == FeeDen - g
           x == mulDivRoundingUp(in, f, D)
           y == mulDivRoundingUp(in, g, E)
<1>1. f \in Nat /\ g \in Nat /\ D \in Positive /\ E \in Positive /\ D <= E /\ FeeDen \in Positive
  BY ScalesArePositive DEF Positive
<1> HIDE DEF D, E
<1>2. n * D <= m * E /\ n * D \in Nat /\ m * E \in Nat
  <2>1. n * D <= m * D
    BY <1>1, Multiply DEF Positive
  <2>2. m * D <= m * E
    BY <1>1 DEF Positive
  <2>3. n * D \in Nat /\ m * D \in Nat /\ m * E \in Nat
    BY <1>1, Products DEF Positive
  <2> QED
    BY <2>1, <2>2, <2>3
<1>3. mulDiv(n, D, FeeDen) <= mulDiv(m, E, FeeDen)
  <2> DEFINE nd == n * D
             me == m * E
  <2>1. nd \div FeeDen <= me \div FeeDen
    <3> HIDE DEF nd, me
    <3> QED
      BY <1>1, <1>2, Quotients DEF nd, me
  <2> QED
    BY <2>1 DEF mulDiv
<1>4. x \in Nat /\ in * f <= x * D
  BY <1>1, RoundingUp
<1>5. y \in Nat /\ y * E < in * g + E
  BY <1>1, RoundingUp
<1> HIDE DEF x, y
<1>6. y <= x
  <2>1. in * g <= in * f /\ x * D <= x * E
    BY <1>1, <1>4 DEF Positive
  <2>2. /\ in * g \in Nat /\ in * f \in Nat /\ x * D \in Nat /\ x * E \in Nat /\ y * E \in Nat
        /\ (x + 1) * E = x * E + E
    BY <1>1, <1>4, <1>5, Products DEF Positive
  <2>3. y * E < (x + 1) * E
    BY <1>1, <1>4, <1>5, <2>1, <2>2 DEF Positive
  <2>4. y < x + 1
    BY <1>1, <1>4, <1>5, <2>3, Cancel DEF Positive
  <2> QED
    BY <1>4, <1>5, <2>4
<1> QED
  BY <1>3, <1>6 DEF x, y, D, E

\* A larger input takes the price further down.
LEMMA LowerPrice ==
    ASSUME NEW c \in Positive, NEW t \in Positive, t <= c, NEW L \in Nat,
           NEW n \in Nat, NEW m \in Nat, n <= m, m < getAmount0Delta(t, c, L, TRUE)
    PROVE  getNextSqrtPriceFromInput(c, L, m, TRUE) <= getNextSqrtPriceFromInput(c, L, n, TRUE)
<1> DEFINE X == L * Q
           p(k) == getNextSqrtPriceFromInput(c, L, k, TRUE)
<1>1. X \in Nat
  BY Products, ScalesArePositive DEF Positive
<1>2. p(m) <= c
  BY NextPriceDown
<1>3. /\ p(n) = IF n = 0 THEN c ELSE mulDivRoundingUp(X, c, X + n * c)
      /\ p(m) = IF m = 0 THEN c ELSE mulDivRoundingUp(X, c, X + m * c)
  BY DEF getNextSqrtPriceFromInput
<1> HIDE DEF X
<1>4. CASE n = 0
  <2>1. p(n) = c
    BY <1>3, <1>4
  <2> QED
    BY <1>2, <2>1
<1>5. CASE n # 0
  <2> DEFINE nc == n * c
             mc == m * c
             D == X + nc
             E == X + mc
             x == mulDivRoundingUp(X, c, D)
             y == mulDivRoundingUp(X, c, E)
  <2>1. n # 0 /\ m # 0 /\ n > 0 /\ m > 0
    BY <1>5
  <2>2. p(n) = x /\ p(m) = y
    BY <1>3, <2>1, Zenon
  <2>3. nc \in Positive /\ mc \in Positive /\ nc <= mc
    BY <2>1, Multiply DEF Positive
  <2> HIDE DEF nc, mc
  <2>4. D \in Positive /\ E \in Positive /\ D <= E
    BY <1>1, <2>3 DEF Positive
  <2> HIDE DEF D, E
  <2>5. x \in Nat /\ X * c <= x * D
    BY <1>1, <2>4, RoundingUp DEF Positive
  <2>6. y \in Nat /\ y * E < X * c + E
    BY <1>1, <2>4, RoundingUp DEF Positive
  <2> HIDE DEF x, y, p
  <2>7. y <= x
    <3>1. x * D <= x * E
      BY <2>4, <2>5 DEF Positive
    <3>2. /\ X * c \in Nat /\ x * D \in Nat /\ x * E \in Nat /\ y * E \in Nat
          /\ (x + 1) * E = x * E + E
      BY <1>1, <2>4, <2>5, <2>6, Products DEF Positive
    <3>3. y * E < (x + 1) * E
      BY <2>4, <2>5, <2>6, <3>1, <3>2 DEF Positive
    <3>4. y < x + 1
      BY <2>4, <2>5, <2>6, <3>3, Cancel DEF Positive
    <3> QED
      BY <2>5, <2>6, <3>4
  <2> QED
    BY <2>2, <2>7 DEF p
<1> QED
  BY <1>4, <1>5

\* The same upwards.
LEMMA HigherPrice ==
    ASSUME NEW c \in Positive, NEW L \in Positive, NEW n \in Nat, NEW m \in Nat, n <= m
    PROVE  getNextSqrtPriceFromInput(c, L, n, FALSE) <= getNextSqrtPriceFromInput(c, L, m, FALSE)
<1> DEFINE nq == n * Q
           mq == m * Q
           x == nq \div L
           y == mq \div L
           a == getNextSqrtPriceFromInput(c, L, n, FALSE)
           b == getNextSqrtPriceFromInput(c, L, m, FALSE)
<1>1. nq \in Nat /\ mq \in Nat /\ nq <= mq
  BY Multiply, Products, ScalesArePositive DEF Positive
<1>2. a = c + x /\ b = c + y
  BY DEF getNextSqrtPriceFromInput
<1> HIDE DEF nq, mq
<1>3. x \in Nat /\ y \in Nat /\ x <= y
  BY <1>1, Floor, Quotients DEF Positive
<1> HIDE DEF x, y, a, b
<1>4. a <= b
  BY <1>2, <1>3 DEF Positive
<1> QED
  BY <1>4 DEF a, b

\* The further the price moves, the more is paid out.
LEMMA FurtherPaysMore ==
    ASSUME NEW c \in Positive, NEW p \in Positive, NEW q \in Positive, NEW L \in Nat
    PROVE  /\ q <= p /\ p <= c => getAmount1Delta(p, c, L, FALSE) <= getAmount1Delta(q, c, L, FALSE)
           /\ c <= p /\ p <= q => getAmount0Delta(c, p, L, FALSE) <= getAmount0Delta(c, q, L, FALSE)
<1>1. ASSUME q <= p, p <= c
      PROVE  getAmount1Delta(p, c, L, FALSE) <= getAmount1Delta(q, c, L, FALSE)
  <2> DEFINE x == L * (c - p)
             y == L * (c - q)
  <2>1. x \in Nat /\ y \in Nat /\ x <= y
    <3>1. c - p \in Nat /\ c - q \in Nat /\ c - p <= c - q
      BY <1>1 DEF Positive
    <3> QED
      BY <3>1
  <2> HIDE DEF x, y
  <2>2. x \div Q <= y \div Q
    BY <2>1, Quotients, ScalesArePositive
  <2> QED
    BY <2>2 DEF getAmount1Delta, mulDiv, x, y
<1>2. ASSUME c <= p, p <= q
      PROVE  getAmount0Delta(c, p, L, FALSE) <= getAmount0Delta(c, q, L, FALSE)
  <2> DEFINE X == L * Q
             x == X * (p - c)
             y == X * (q - c)
             t == x \div p
             u == y \div q
  <2>1. X \in Nat
    BY Products, ScalesArePositive DEF Positive
  <2> HIDE DEF X
  <2>2. x \in Nat /\ y \in Nat
    <3>1. p - c \in Nat /\ q - c \in Nat
      BY <1>2 DEF Positive
    <3> QED
      BY <2>1, <3>1, Products
  <2>3. /\ x = X * p - X * c /\ y = X * q - X * c
        /\ X * p \in Nat /\ X * q \in Nat /\ X * c \in Nat
    BY <2>1 DEF Positive
  <2> HIDE DEF x, y
  <2>4. t \in Nat /\ t * p <= x
    BY <2>2, Floor DEF Positive
  <2>5. u \in Nat /\ y < u * q + q
    BY <2>2, Floor DEF Positive
  <2> HIDE DEF t, u
  <2>6. t <= X
    <3>1. t * p <= X * p
      <4>1. t * p \in Nat
        BY <2>4, Products DEF Positive
      <4> QED
        BY <2>2, <2>3, <2>4, <4>1
    <3> QED
      BY <2>1, <2>4, <3>1, Cancel DEF Positive
  <2>7. t * q <= y
    <3> DEFINE e == q - p
    <3>1. e \in Nat /\ q = p + e
      BY <1>2 DEF Positive
    <3> HIDE DEF e
    <3>2. t * q = t * p + t * e /\ X * q = X * p + X * e
      BY <2>1, <2>4, <3>1 DEF Positive
    <3>3. t * e <= X * e /\ t * e \in Nat /\ X * e \in Nat /\ t * p \in Nat
      BY <2>1, <2>4, <2>6, <3>1, Multiply, Products DEF Positive
    <3> QED
      BY <2>2, <2>3, <2>4, <3>2, <3>3
  <2>8. t <= u
    <3>1. t * q \in Nat /\ u * q \in Nat /\ (u + 1) * q = u * q + q
      BY <2>4, <2>5, Products DEF Positive
    <3>2. t * q < (u + 1) * q
      BY <2>2, <2>5, <2>7, <3>1 DEF Positive
    <3>3. t < u + 1
      BY <2>4, <2>5, <3>2, Cancel DEF Positive
    <3> QED
      BY <2>4, <2>5, <3>3
  <2>9. t \div c <= u \div c
    BY <2>4, <2>5, <2>8, Quotients
  <2> QED
    BY <2>9 DEF getAmount0Delta, mulDiv, t, u, x, y, X
<1> QED
  BY <1>1, <1>2

\* At a lower fee and with more input, a step pays as much or more; and where the
\* step reached its target, it reaches it for no more input and pays the same.
LEMMA StepCoversDown ==
    ASSUME NEW cur \in Positive, NEW tgt \in Positive, tgt <= cur, NEW L \in Nat,
           NEW n \in Nat, NEW m \in Nat, n <= m,
           NEW f \in 0..(FeeDen - 1), NEW g \in 0..(FeeDen - 1), g <= f
    PROVE  LET a == computeSwapStep(cur, tgt, L, n, f)
               b == computeSwapStep(cur, tgt, L, m, g)
           IN  /\ a.amountOut <= b.amountOut
               /\ a.sqrtNext = tgt =>
                    b.sqrtNext = tgt /\ b.amountOut = a.amountOut /\ b.consumed <= a.consumed
<1> DEFINE in == getAmount0Delta(tgt, cur, L, TRUE)
           net(k, h) == mulDiv(k, FeeDen - h, FeeDen)
           charge(h) == mulDivRoundingUp(in, h, FeeDen - h)
           short(k, h) == getNextSqrtPriceFromInput(cur, L, net(k, h), TRUE)
           pays(z) == getAmount1Delta(z, cur, L, FALSE)
           r(k, h) == computeSwapStep(cur, tgt, L, k, h)
<1>1. in \in Nat
  BY Amount0Up
<1>2. \A k \in Nat, h \in 0..(FeeDen - 1) : net(k, h) \in Nat /\ charge(h) \in Nat
  BY <1>1, FeeFits
<1>3. net(n, f) <= net(m, g) /\ charge(g) <= charge(f)
  BY <1>1, LowerFee
<1>4. ASSUME NEW k \in Nat, NEW h \in 0..(FeeDen - 1)
      PROVE  /\ in <= net(k, h) => r(k, h).sqrtNext = tgt
             /\ net(k, h) < in => r(k, h).sqrtNext = short(k, h)
             /\ r(k, h).amountOut = pays(r(k, h).sqrtNext)
             /\ r(k, h).sqrtNext = tgt => r(k, h).consumed = in + charge(h)
             /\ net(k, h) < in => short(k, h) \in Positive /\ tgt < short(k, h) /\ short(k, h) <= cur
  <2>1. (cur >= tgt) = TRUE
    BY DEF Positive
  <2>2. r(k, h).sqrtNext = IF net(k, h) >= in THEN tgt ELSE short(k, h)
    BY <2>1 DEF computeSwapStep
  <2>3. r(k, h).amountOut = pays(r(k, h).sqrtNext)
    BY <2>1 DEF computeSwapStep
  <2>4. r(k, h).sqrtNext = tgt => r(k, h).consumed = in + charge(h)
    BY <2>1 DEF computeSwapStep
  <2>5. net(k, h) < in => short(k, h) \in Positive /\ tgt < short(k, h) /\ short(k, h) <= cur
    BY <1>2, NextPriceDown
  <2> HIDE DEF in, net, charge, short, pays, r
  <2> QED
    BY <1>1, <1>2, <2>2, <2>3, <2>4, <2>5
<1>5. net(m, g) < in => short(m, g) <= short(n, f)
  <2>1. net(m, g) < in => short(m, g) <= short(n, f)
    BY <1>2, <1>3, LowerPrice
  <2> QED
    BY <2>1
<1>6. \A z, w \in Positive : w <= z /\ z <= cur => pays(z) <= pays(w)
  BY FurtherPaysMore
<1>7. pays(tgt) \in Nat
  BY Amount1Down
<1> HIDE DEF in, net, charge, short, pays, r
<1>8. CASE in <= net(n, f)
  <2>1. in <= net(m, g)
    BY <1>1, <1>2, <1>3, <1>8
  <2>2. r(n, f).sqrtNext = tgt /\ r(m, g).sqrtNext = tgt
    BY <1>4, <1>8, <2>1
  <2>3. /\ r(n, f).amountOut = pays(tgt) /\ r(m, g).amountOut = pays(tgt)
        /\ r(n, f).consumed = in + charge(f) /\ r(m, g).consumed = in + charge(g)
    BY <1>4, <2>2
  <2> QED
    BY <1>1, <1>2, <1>3, <1>7, <2>2, <2>3 DEF r
<1>9. CASE net(n, f) < in
  <2>1. /\ r(n, f).sqrtNext = short(n, f) /\ r(n, f).amountOut = pays(short(n, f))
        /\ short(n, f) \in Positive /\ tgt < short(n, f) /\ short(n, f) <= cur /\ short(n, f) # tgt
    BY <1>4, <1>9 DEF Positive
  <2>2. CASE in <= net(m, g)
    <3>1. r(m, g).sqrtNext = tgt /\ r(m, g).amountOut = pays(tgt)
      BY <1>4, <2>2
    <3>2. tgt <= short(n, f)
      BY <2>1 DEF Positive
    <3>3. pays(short(n, f)) <= pays(tgt)
      BY <1>6, <2>1, <3>2
    <3> QED
      BY <2>1, <3>1, <3>3 DEF r
  <2>3. CASE net(m, g) < in
    <3>1. r(m, g).amountOut = pays(short(m, g)) /\ short(m, g) \in Positive
      BY <1>4, <2>3
    <3>2. pays(short(n, f)) <= pays(short(m, g))
      BY <1>5, <1>6, <2>1, <2>3, <3>1
    <3> QED
      BY <2>1, <3>1, <3>2 DEF r
  <2> QED
    BY <1>1, <1>2, <2>2, <2>3
<1> QED
  BY <1>1, <1>2, <1>8, <1>9

\* The same upwards.
LEMMA StepCoversUp ==
    ASSUME NEW cur \in Positive, NEW tgt \in Positive, cur < tgt, NEW L \in Nat,
           NEW n \in Nat, NEW m \in Nat, n <= m,
           NEW f \in 0..(FeeDen - 1), NEW g \in 0..(FeeDen - 1), g <= f
    PROVE  LET a == computeSwapStep(cur, tgt, L, n, f)
               b == computeSwapStep(cur, tgt, L, m, g)
           IN  /\ a.amountOut <= b.amountOut
               /\ a.sqrtNext = tgt =>
                    b.sqrtNext = tgt /\ b.amountOut = a.amountOut /\ b.consumed <= a.consumed
<1> DEFINE in == getAmount1Delta(cur, tgt, L, TRUE)
           net(k, h) == mulDiv(k, FeeDen - h, FeeDen)
           charge(h) == mulDivRoundingUp(in, h, FeeDen - h)
           short(k, h) == getNextSqrtPriceFromInput(cur, L, net(k, h), FALSE)
           pays(z) == getAmount0Delta(cur, z, L, FALSE)
           r(k, h) == computeSwapStep(cur, tgt, L, k, h)
<1>0. cur <= tgt
  BY DEF Positive
<1>1. in \in Nat
  BY <1>0, Amount1Up
<1>2. \A k \in Nat, h \in 0..(FeeDen - 1) : net(k, h) \in Nat /\ charge(h) \in Nat
  BY <1>1, FeeFits
<1>3. net(n, f) <= net(m, g) /\ charge(g) <= charge(f)
  BY <1>1, LowerFee
<1>4. ASSUME NEW k \in Nat, NEW h \in 0..(FeeDen - 1)
      PROVE  /\ in <= net(k, h) => r(k, h).sqrtNext = tgt
             /\ net(k, h) < in => r(k, h).sqrtNext = short(k, h)
             /\ r(k, h).amountOut = pays(r(k, h).sqrtNext)
             /\ r(k, h).sqrtNext = tgt => r(k, h).consumed = in + charge(h)
             /\ net(k, h) < in => short(k, h) \in Positive /\ cur <= short(k, h) /\ short(k, h) < tgt
  <2>1. (cur >= tgt) = FALSE
    BY DEF Positive
  <2>2. r(k, h).sqrtNext = IF net(k, h) >= in THEN tgt ELSE short(k, h)
    BY <2>1 DEF computeSwapStep
  <2>3. r(k, h).amountOut = pays(r(k, h).sqrtNext)
    BY <2>1 DEF computeSwapStep
  <2>4. r(k, h).sqrtNext = tgt => r(k, h).consumed = in + charge(h)
    BY <2>1 DEF computeSwapStep
  <2>5. net(k, h) < in => short(k, h) \in Positive /\ cur <= short(k, h) /\ short(k, h) < tgt
    BY <1>0, <1>2, NextPriceUp
  <2> HIDE DEF in, net, charge, short, pays, r
  <2> QED
    BY <1>1, <1>2, <2>2, <2>3, <2>4, <2>5
<1>5. net(m, g) < in => short(n, f) <= short(m, g)
  <2> SUFFICES ASSUME net(m, g) < in PROVE short(n, f) <= short(m, g)
    OBVIOUS
  <2>1. L # 0
    <3> SUFFICES ASSUME L = 0 PROVE FALSE
      OBVIOUS
    <3>1. net(m, g) * Q < 0 * (tgt - cur)
      BY <1>0, <1>2, Amount1Up
    <3>2. net(m, g) * Q \in Nat /\ 0 * (tgt - cur) = 0
      <4>1. net(m, g) \in Nat /\ Q \in Nat
        BY <1>2, ScalesArePositive DEF Positive
      <4> HIDE DEF net
      <4> QED
        BY <4>1, Products DEF Positive
    <3> QED
      BY <3>1, <3>2
  <2> QED
    BY <1>2, <1>3, <2>1, HigherPrice DEF Positive
<1>6. \A z, w \in Positive : cur <= z /\ z <= w => pays(z) <= pays(w)
  BY FurtherPaysMore
<1>7. pays(tgt) \in Nat
  BY <1>0, Amount0Down
<1> HIDE DEF in, net, charge, short, pays, r
<1>8. CASE in <= net(n, f)
  <2>1. in <= net(m, g)
    BY <1>1, <1>2, <1>3, <1>8
  <2>2. r(n, f).sqrtNext = tgt /\ r(m, g).sqrtNext = tgt
    BY <1>4, <1>8, <2>1
  <2>3. /\ r(n, f).amountOut = pays(tgt) /\ r(m, g).amountOut = pays(tgt)
        /\ r(n, f).consumed = in + charge(f) /\ r(m, g).consumed = in + charge(g)
    BY <1>4, <2>2
  <2> QED
    BY <1>1, <1>2, <1>3, <1>7, <2>2, <2>3 DEF r
<1>9. CASE net(n, f) < in
  <2>1. /\ r(n, f).sqrtNext = short(n, f) /\ r(n, f).amountOut = pays(short(n, f))
        /\ short(n, f) \in Positive /\ cur <= short(n, f) /\ short(n, f) < tgt /\ short(n, f) # tgt
    BY <1>4, <1>9 DEF Positive
  <2>2. CASE in <= net(m, g)
    <3>1. r(m, g).sqrtNext = tgt /\ r(m, g).amountOut = pays(tgt)
      BY <1>4, <2>2
    <3>2. short(n, f) <= tgt
      BY <2>1 DEF Positive
    <3>3. pays(short(n, f)) <= pays(tgt)
      BY <1>0, <1>6, <2>1, <3>2
    <3> QED
      BY <2>1, <3>1, <3>3 DEF r
  <2>3. CASE net(m, g) < in
    <3>1. r(m, g).amountOut = pays(short(m, g)) /\ short(m, g) \in Positive
      BY <1>4, <2>3
    <3>2. pays(short(n, f)) <= pays(short(m, g))
      BY <1>5, <1>6, <2>1, <2>3, <3>1
    <3> QED
      BY <2>1, <3>1, <3>2 DEF r
  <2> QED
    BY <1>1, <1>2, <2>2, <2>3
<1> QED
  BY <1>1, <1>2, <1>8, <1>9

\* In either direction.
LEMMA StepCovers ==
    ASSUME NEW cur \in Positive, NEW tgt \in Positive, NEW L \in Nat,
           NEW n \in Nat, NEW m \in Nat, n <= m,
           NEW f \in 0..(FeeDen - 1), NEW g \in 0..(FeeDen - 1), g <= f
    PROVE  LET a == computeSwapStep(cur, tgt, L, n, f)
               b == computeSwapStep(cur, tgt, L, m, g)
           IN  /\ a.amountOut <= b.amountOut
               /\ a.sqrtNext = tgt =>
                    b.sqrtNext = tgt /\ b.amountOut = a.amountOut /\ b.consumed <= a.consumed
<1>1. CASE tgt <= cur
  BY <1>1, StepCoversDown
<1>2. CASE cur < tgt
  BY <1>2, StepCoversUp
<1> QED
  BY <1>1, <1>2 DEF Positive

-----------------------------------------------------------------------------
(* Ticks and bitmap words.                                                   *)

\* Division by a positive number keeps the order, and undoes multiplication.
LEMMA Compressing ==
    ASSUME NEW a \in Int, NEW b \in Int, NEW d \in Positive
    PROVE  /\ a \div d \in Int /\ a % d \in 0..(d - 1)
           /\ a = d * (a \div d) + (a % d)
           /\ (d * b) \div d = b
           /\ b <= a \div d <=> d * b <= a
           /\ a < d * b <=> a \div d < b
<1>0. d \in Nat /\ d > 0
  BY DEF Positive
<1>1. /\ a \div d \in Int /\ a % d \in 0..(d - 1)
      /\ a = d * (a \div d) + (a % d)
  <2>1. a \div d \in Int
    BY <1>0
  <2>2. a % d \in 0..(d - 1)
    BY <1>0
  <2>3. a = d * (a \div d) + (a % d)
    BY <1>0
  <2> QED
    BY <2>1, <2>2, <2>3
<1>2. ASSUME NEW x \in Int, NEW q \in Int, NEW r \in 0..(d - 1), x = d * q + r
      PROVE  /\ b <= q => d * b <= x
             /\ q < b => x < d * b
  <2>1. b <= q => d * b <= d * q
    BY DEF Positive
  <2>2. q < b => d * (q + 1) <= d * b
    BY DEF Positive
  <2>3. d * (q + 1) = d * q + d /\ d * b \in Int /\ d * q \in Int
    BY DEF Positive
  <2> QED
    BY <1>2, <2>1, <2>2, <2>3 DEF Positive
<1>3. (d * b) \div d = b
  <2> DEFINE q == (d * b) \div d
  <2>1. q \in Int /\ q * d <= d * b /\ d * b < q * d + d
    BY Floor DEF Positive
  <2> HIDE DEF q
  <2>2. q * d <= b * d /\ b * d < (q + 1) * d
    BY <2>1 DEF Positive
  <2>3. q <= b /\ b < q + 1
    BY <2>1, <2>2, Cancel DEF Positive
  <2> QED
    BY <2>1, <2>3 DEF q
<1>4. /\ b <= a \div d => d * b <= a
      /\ a \div d < b => a < d * b
  <2> DEFINE q == a \div d
             r == a % d
  <2>1. q \in Int
    BY <1>1
  <2>2. r \in 0..(d - 1)
    BY <1>1
  <2>3. a = d * q + r
    BY <1>1
  <2> HIDE DEF q, r
  <2>4. (b <= q => d * b <= a) /\ (q < b => a < d * b)
    BY <2>1, <2>2, <2>3, <1>2
  <2> QED
    BY <2>4 DEF q
<1>5. d * b \in Int
  BY DEF Positive
<1> QED
  BY <1>1, <1>3, <1>4, <1>5

\* The words of the bitmap that a search from a tick can meet ticks in are
\* among those given.
Sees(words, tick, down) ==
    \A t \in DOMAIN pool.nets :
        WordPos(t \div TickSpacing) = WordPos(From(tick, down))
            => WordPos(t \div TickSpacing) \in words

\* What PoolStates says of the pool of a state.
LEMMA PoolFacts ==
    ASSUME pool \in Pools
    PROVE  /\ DOMAIN pool.nets \subseteq Ticks /\ Ticks \subseteq Int
           /\ IsFiniteSet(DOMAIN pool.nets)
           /\ \A t \in DOMAIN pool.nets : pool.nets[t] \in Int /\ t % TickSpacing = 0
           /\ pool.fee \in 0..(FeeDen - 1)
<1>1. /\ pool.nets \in [DOMAIN pool.nets -> Int] /\ pool.fee \in 0..(FeeDen - 1)
      /\ \A t \in DOMAIN pool.nets : t \in Ticks /\ t % TickSpacing = 0
  BY PoolStates
<1>2. Ticks \subseteq Int /\ IsFiniteSet(Ticks)
  BY RatiosGrow, FS_Interval DEF Ticks
<1> QED
  BY <1>1, <1>2, FS_Subset

\* Initialized ticks are told apart by their compressed ticks.
LEMMA Initialized ==
    ASSUME pool \in Pools, NEW t \in DOMAIN pool.nets
    PROVE  /\ t \in Int /\ t \div TickSpacing \in Int
           /\ t = TickSpacing * (t \div TickSpacing)
<1>1. t \in Int /\ t % TickSpacing = 0
  BY PoolFacts
<1>2. /\ t \div TickSpacing \in Int
      /\ t = TickSpacing * (t \div TickSpacing) + (t % TickSpacing)
  BY <1>1, ScalesArePositive, Compressing
<1>3. TickSpacing * (t \div TickSpacing) \in Int
  BY <1>2, ScalesArePositive DEF Positive
<1> QED
  BY <1>1, <1>2, <1>3

\* A word is a run of WordBits compressed ticks.
LEMMA Words ==
    ASSUME NEW i \in Int, NEW c \in Int
    PROVE  LET first == c - bitPos(c)
               last == c + WordBits - 1 - bitPos(c)
           IN  /\ first \in Int /\ last \in Int /\ first <= c /\ c <= last
               /\ WordPos(first) = WordPos(c) /\ WordPos(last) = WordPos(c)
               /\ WordPos(i) = WordPos(c) <=> first <= i /\ i <= last
<1> DEFINE w == WordPos(c)
           b == bitPos(c)
<1>0. WordBits \in Positive
  BY ScalesArePositive
<1>1. w \in Int /\ b \in 0..(WordBits - 1) /\ c = WordBits * w + b
  <2>1. w \in Int
    BY <1>0, Compressing DEF WordPos
  <2>2. b \in 0..(WordBits - 1)
    BY <1>0, Compressing DEF bitPos
  <2>3. c = WordBits * w + b
    BY <1>0, Compressing DEF WordPos, bitPos
  <2> QED
    BY <2>1, <2>2, <2>3
<1> HIDE DEF w, b
<1>2. WordBits * (w + 1) = WordBits * w + WordBits /\ WordBits * w \in Int
  BY <1>0, <1>1 DEF Positive
<1>3. ASSUME NEW j \in Int
      PROVE  WordPos(j) = w <=> WordBits * w <= j /\ j < WordBits * (w + 1)
  <2>1. WordPos(j) \in Int
    BY <1>0, Compressing DEF WordPos
  <2>2. w <= WordPos(j) <=> WordBits * w <= j
    BY <1>0, <1>1, Compressing DEF WordPos
  <2>3. w + 1 \in Int
    BY <1>1
  <2>4. j < WordBits * (w + 1) <=> WordPos(j) < w + 1
    BY <1>0, <2>3, Compressing DEF WordPos
  <2> QED
    BY <1>1, <2>1, <2>2, <2>4
<1>4. c - b = WordBits * w /\ c + WordBits - 1 - b = WordBits * w + WordBits - 1
  BY <1>0, <1>1, <1>2 DEF Positive
<1>5. /\ c - b \in Int /\ c + WordBits - 1 - b \in Int /\ c - b <= c
      /\ c <= c + WordBits - 1 - b
  BY <1>0, <1>1 DEF Positive
<1>6. WordPos(c - b) = w /\ WordPos(c + WordBits - 1 - b) = w
  BY <1>0, <1>2, <1>3, <1>4, <1>5 DEF Positive
<1>7. WordPos(i) = w <=> c - b <= i /\ i <= c + WordBits - 1 - b
  BY <1>0, <1>2, <1>3, <1>4 DEF Positive
<1> QED
  BY <1>5, <1>6, <1>7 DEF w, b

\* The search downwards stops at or above every initialized tick below.
LEMMA TickNextDown ==
    ASSUME pool \in Pools, NEW tick \in Int, NEW words, Sees(words, tick, TRUE)
    PROVE  LET n == TickNext(tick, TRUE, words)
           IN  /\ n \in Int /\ n <= tick
               /\ \A t \in DOMAIN pool.nets : t <= tick => t <= n
               /\ n \in DOMAIN pool.nets => WordPos(n \div TickSpacing) \in words
<1> DEFINE c == tick \div TickSpacing
           C == {t \div TickSpacing : t \in DOMAIN pool.nets}
           found == {i \in C : WordPos(i) = WordPos(c) /\ WordPos(c) \in words /\ i <= c}
           m == IF found = {} THEN c - bitPos(c) ELSE Max(found)
<1>0. TickSpacing \in Positive
  BY ScalesArePositive
<1>1. TickNext(tick, TRUE, words) = TickSpacing * m
  BY DEF TickNext, From
<1>2. c \in Int /\ C \subseteq Int
  BY <1>0, Compressing, Initialized
<1>3. \A i \in C : WordPos(i) = WordPos(c) => WordPos(c) \in words
  BY DEF Sees, From
<1>4. \A t \in DOMAIN pool.nets : /\ t \in Int /\ t \div TickSpacing \in C
                                  /\ t = TickSpacing * (t \div TickSpacing)
                                  /\ t <= tick <=> t \div TickSpacing <= c
  <2> TAKE t \in DOMAIN pool.nets
  <2>1. t \in Int /\ t \div TickSpacing \in Int /\ t = TickSpacing * (t \div TickSpacing)
    BY Initialized
  <2>2. t \div TickSpacing <= c <=> TickSpacing * (t \div TickSpacing) <= tick
    BY <1>0, <2>1, Compressing
  <2> QED
    BY <2>1, <2>2
<1> DEFINE first == c - bitPos(c)
           last == c + WordBits - 1 - bitPos(c)
<1>5. first \in Int /\ last \in Int /\ first <= c /\ c <= last /\ WordPos(first) = WordPos(c)
  BY <1>2, Words
<1>6. \A i \in C : WordPos(i) = WordPos(c) <=> first <= i /\ i <= last
  BY <1>2, Words
<1> HIDE DEF c, C, first, last
<1>7. /\ m \in Int /\ m <= c /\ WordPos(m) = WordPos(c)
      /\ \A i \in C : i <= c => i <= m
  <2>1. CASE found = {}
    <3>1. m = first
      BY <2>1 DEF first
    <3>2. ASSUME NEW i \in C, i <= c, ~ (i <= first) PROVE FALSE
      <4>1. WordPos(i) = WordPos(c)
        BY <1>2, <1>5, <1>6, <3>2
      <4> QED
        BY <1>3, <2>1, <3>2, <4>1
    <3> QED
      BY <1>2, <1>5, <3>1, <3>2
  <2>2. CASE found # {}
    <3>1. found \in SUBSET Int /\ \A i \in found : i <= c
      BY <1>2
    <3>2. Max(found) \in found /\ \A i \in found : i <= Max(found)
      <4> HIDE DEF found
      <4> QED
        BY <1>2, <2>2, <3>1, MaxIsLargest
    <3>3. m = Max(found)
      BY <2>2
    <3>4. m \in C /\ m <= c /\ WordPos(m) = WordPos(c)
      BY <3>2, <3>3
    <3>5. \A i \in C : WordPos(i) = WordPos(c) /\ i <= c => i <= m
      BY <1>3, <3>2, <3>3
    <3> HIDE DEF m, found
    <3>6. ASSUME NEW i \in C, i <= c PROVE i <= m
      <4>1. CASE WordPos(i) = WordPos(c)
        BY <3>5, <3>6, <4>1
      <4>2. CASE WordPos(i) # WordPos(c)
        BY <1>2, <1>5, <1>6, <3>4, <3>6, <4>2
      <4> QED
        BY <4>1, <4>2
    <3> QED
      BY <1>2, <3>4, <3>6
  <2> QED
    BY <2>1, <2>2
<1> HIDE DEF m
<1>8. /\ TickSpacing * m \in Int /\ TickSpacing * m <= tick
      /\ (TickSpacing * m) \div TickSpacing = m
  <2>1. m <= tick \div TickSpacing <=> TickSpacing * m <= tick
    BY <1>0, <1>7, Compressing
  <2> QED
    BY <1>0, <1>7, <2>1, Compressing DEF c, Positive
<1>9. ASSUME NEW t \in DOMAIN pool.nets, t <= tick PROVE t <= TickSpacing * m
  <2>1. t \div TickSpacing <= m /\ t \div TickSpacing \in Int
    BY <1>2, <1>4, <1>7, <1>9
  <2>2. TickSpacing * (t \div TickSpacing) <= TickSpacing * m
    BY <1>0, <1>7, <2>1 DEF Positive
  <2> QED
    BY <1>4, <2>2
<1>10. ASSUME TickSpacing * m \in DOMAIN pool.nets PROVE WordPos(m) \in words
  <2>1. m \in C
    BY <1>4, <1>8, <1>10
  <2> QED
    BY <1>3, <1>7, <2>1
<1> QED
  BY <1>1, <1>8, <1>9, <1>10

\* The search upwards stops at or below every initialized tick above.
LEMMA TickNextUp ==
    ASSUME pool \in Pools, NEW tick \in Int, NEW words, Sees(words, tick, FALSE)
    PROVE  LET n == TickNext(tick, FALSE, words)
           IN  /\ n \in Int /\ tick < n
               /\ \A t \in DOMAIN pool.nets : tick < t => n <= t
               /\ n \in DOMAIN pool.nets => WordPos(n \div TickSpacing) \in words
<1> DEFINE c == tick \div TickSpacing + 1
           C == {t \div TickSpacing : t \in DOMAIN pool.nets}
           found == {i \in C : WordPos(i) = WordPos(c) /\ WordPos(c) \in words /\ i >= c}
           m == IF found = {} THEN c + WordBits - 1 - bitPos(c) ELSE Min(found)
<1>0. TickSpacing \in Positive
  BY ScalesArePositive
<1>1. TickNext(tick, FALSE, words) = TickSpacing * m
  BY DEF TickNext, From
<1>2. c \in Int /\ C \subseteq Int /\ tick \div TickSpacing \in Int
  BY <1>0, Compressing, Initialized
<1>3. \A i \in C : WordPos(i) = WordPos(c) => WordPos(c) \in words
  BY DEF Sees, From
<1>4. \A t \in DOMAIN pool.nets : /\ t \in Int /\ t \div TickSpacing \in C
                                  /\ t = TickSpacing * (t \div TickSpacing)
                                  /\ tick < t <=> c <= t \div TickSpacing
  <2> TAKE t \in DOMAIN pool.nets
  <2>1. t \in Int /\ t \div TickSpacing \in Int /\ t = TickSpacing * (t \div TickSpacing)
    BY Initialized
  <2>2. tick < TickSpacing * (t \div TickSpacing) <=> tick \div TickSpacing < t \div TickSpacing
    BY <1>0, <2>1, Compressing
  <2> QED
    BY <1>2, <2>1, <2>2
<1> DEFINE first == c - bitPos(c)
           last == c + WordBits - 1 - bitPos(c)
<1>5. first \in Int /\ last \in Int /\ first <= c /\ c <= last /\ WordPos(last) = WordPos(c)
  BY <1>2, Words
<1>6. \A i \in C : WordPos(i) = WordPos(c) <=> first <= i /\ i <= last
  BY <1>2, Words
<1>7. tick < TickSpacing * c
  <2>1. tick < TickSpacing * c <=> tick \div TickSpacing < c
    BY <1>0, <1>2, Compressing
  <2> QED
    BY <1>2, <2>1
<1> HIDE DEF c, C, first, last
<1>8. /\ m \in Int /\ c <= m /\ WordPos(m) = WordPos(c)
      /\ \A i \in C : c <= i => m <= i
  <2>1. CASE found = {}
    <3>1. m = last
      BY <2>1 DEF last
    <3>2. ASSUME NEW i \in C, c <= i, ~ (last <= i) PROVE FALSE
      <4>1. WordPos(i) = WordPos(c)
        BY <1>2, <1>5, <1>6, <3>2
      <4>2. i >= c
        BY <1>2, <3>2
      <4> QED
        BY <1>3, <2>1, <4>1, <4>2
    <3> QED
      BY <1>2, <1>5, <3>1, <3>2
  <2>2. CASE found # {}
    <3>1. found \in SUBSET Int /\ \A i \in found : c <= i
      BY <1>2
    <3>2. Min(found) \in found /\ \A i \in found : Min(found) <= i
      <4> HIDE DEF found
      <4> QED
        BY <1>2, <2>2, <3>1, MinIsLeast
    <3>3. m = Min(found)
      BY <2>2
    <3>4. m \in C /\ c <= m /\ WordPos(m) = WordPos(c)
      BY <3>1, <3>2, <3>3
    <3>5. \A i \in C : WordPos(i) = WordPos(c) /\ c <= i => m <= i
      BY <1>2, <1>3, <3>2, <3>3
    <3> HIDE DEF m, found
    <3>6. ASSUME NEW i \in C, c <= i PROVE m <= i
      <4>1. CASE WordPos(i) = WordPos(c)
        BY <3>5, <3>6, <4>1
      <4>2. CASE WordPos(i) # WordPos(c)
        BY <1>2, <1>5, <1>6, <3>4, <3>6, <4>2
      <4> QED
        BY <4>1, <4>2
    <3> QED
      BY <1>2, <3>4, <3>6
  <2> QED
    BY <2>1, <2>2
<1> HIDE DEF m
<1>9. /\ TickSpacing * m \in Int /\ tick < TickSpacing * m
      /\ (TickSpacing * m) \div TickSpacing = m
  <2>1. TickSpacing * c <= TickSpacing * m /\ TickSpacing * c \in Int /\ TickSpacing * m \in Int
    BY <1>0, <1>2, <1>8 DEF Positive
  <2>2. (TickSpacing * m) \div TickSpacing = m
    BY <1>0, <1>8, Compressing
  <2> QED
    BY <1>7, <2>1, <2>2
<1>10. ASSUME NEW t \in DOMAIN pool.nets, tick < t PROVE TickSpacing * m <= t
  <2>1. m <= t \div TickSpacing /\ t \div TickSpacing \in Int
    BY <1>2, <1>4, <1>8, <1>10
  <2>2. TickSpacing * m <= TickSpacing * (t \div TickSpacing)
    BY <1>0, <1>8, <2>1 DEF Positive
  <2> QED
    BY <1>4, <2>2
<1>11. ASSUME TickSpacing * m \in DOMAIN pool.nets PROVE WordPos(m) \in words
  <2>1. m \in C
    BY <1>4, <1>9, <1>11
  <2> QED
    BY <1>3, <1>8, <2>1
<1> QED
  BY <1>1, <1>9, <1>10, <1>11

-----------------------------------------------------------------------------
(* Prices at ticks, and sums of what is initialized up to a tick.            *)

\* The table of ratios grows.
LEMMA RatioFacts ==
    /\ MinTick \in Int /\ MaxTick \in Int /\ MinTick < MaxTick
    /\ \A t \in Ticks : Ratio[t] \in Positive
    /\ \A s, t \in Ticks : s <= t => Ratio[s] <= Ratio[t]
    /\ MinTick \in Ticks /\ MaxTick \in Ticks
    /\ \A t : t \in Ticks <=> t \in Int /\ MinTick <= t /\ t <= MaxTick
<1>1. \A t : t \in Ticks <=> t \in Int /\ MinTick <= t /\ t <= MaxTick
  BY RatiosGrow DEF Ticks
<1>2. MinTick \in Int /\ MaxTick \in Int /\ MinTick < MaxTick
  BY RatiosGrow
<1>3. \A t \in Ticks : Ratio[t] \in Positive
  BY RatiosGrow DEF Positive
<1>4. \A s, t \in Ticks : s <= t => Ratio[s] <= Ratio[t]
  <2> TAKE s, t \in Ticks
  <2>1. Ratio[s] \in Nat /\ Ratio[t] \in Nat
    BY <1>3 DEF Positive
  <2>2. s < t => Ratio[s] < Ratio[t]
    BY RatiosGrow
  <2>3. s <= t => s < t \/ s = t
    BY <1>1
  <2> QED
    BY <2>1, <2>2, <2>3
<1> QED
  BY <1>1, <1>2, <1>3, <1>4

\* The ratio at a tick, capped at both ends of the table.
LEMMA Targets ==
    ASSUME NEW a \in Int
    PROVE  /\ Target(a) \in Positive
           /\ Ratio[MinTick] <= Target(a) /\ Target(a) <= Ratio[MaxTick]
           /\ a \in Ticks => Target(a) = Ratio[a]
           /\ a <= MinTick => Target(a) = Ratio[MinTick]
           /\ a >= MaxTick => Target(a) = Ratio[MaxTick]
<1>1. CASE a <= MinTick
  <2>1. Target(a) = Ratio[MinTick] /\ ~ (a >= MaxTick) /\ (a \in Ticks => a = MinTick)
    BY <1>1, RatioFacts DEF Target
  <2>2. Ratio[MinTick] \in Positive /\ Ratio[MinTick] <= Ratio[MaxTick]
    BY RatioFacts
  <2> QED
    BY <1>1, <2>1, <2>2, RatioFacts DEF Positive
<1>2. CASE a >= MaxTick
  <2>1. Target(a) = Ratio[MaxTick] /\ ~ (a <= MinTick) /\ (a \in Ticks => a = MaxTick)
    BY <1>2, RatioFacts DEF Target
  <2>2. Ratio[MaxTick] \in Positive /\ Ratio[MinTick] <= Ratio[MaxTick]
    BY RatioFacts
  <2> QED
    BY <1>2, <2>1, <2>2, RatioFacts DEF Positive
<1>3. CASE ~ (a <= MinTick) /\ ~ (a >= MaxTick)
  <2>1. Target(a) = Ratio[a] /\ a \in Ticks
    BY <1>3, RatioFacts DEF Target
  <2>2. Ratio[a] \in Positive /\ Ratio[MinTick] <= Ratio[a] /\ Ratio[a] <= Ratio[MaxTick]
    BY <2>1, RatioFacts
  <2> QED
    BY <1>3, <2>1, <2>2
<1> QED
  BY <1>1, <1>2, <1>3

\* A higher tick has no lower target.
LEMMA TargetsGrow ==
    ASSUME NEW a \in Int, NEW b \in Int, a <= b
    PROVE  Target(a) <= Target(b)
<1>1. CASE a <= MinTick
  BY <1>1, Targets
<1>2. CASE b >= MaxTick
  BY <1>2, Targets
<1>3. CASE ~ (a <= MinTick) /\ ~ (b >= MaxTick)
  <2>1. a \in Ticks /\ b \in Ticks
    BY <1>3, RatioFacts
  <2> QED
    BY <2>1, RatioFacts, Targets
<1> QED
  BY <1>1, <1>2, <1>3

\* The tick of a price is the last whose ratio does not exceed it.
LEMMA TickAtFacts ==
    ASSUME NEW p \in Positive, Ratio[MinTick] <= p, p <= Ratio[MaxTick]
    PROVE  /\ TickAt(p) \in Ticks /\ TickAt(p) \in Int
           /\ Target(TickAt(p)) <= p /\ p <= Target(TickAt(p) + 1)
           /\ \A a \in Int : Target(a) <= p /\ a <= MaxTick => a <= TickAt(p) \/ a < MinTick
<1> DEFINE S == {t \in Ticks : Ratio[t] <= p}
<1>1. S \in SUBSET Int /\ MinTick \in S /\ \A x \in S : x <= MaxTick
  BY RatioFacts
<1>2. TickAt(p) = Max(S)
  BY DEF TickAt
<1> HIDE DEF S
<1>3. TickAt(p) \in S /\ \A t \in S : t <= TickAt(p)
  BY <1>1, <1>2, MaxIsLargest, RatioFacts
<1>4. TickAt(p) \in Ticks /\ TickAt(p) \in Int /\ Ratio[TickAt(p)] <= p
  BY <1>1, <1>3 DEF S
<1>5. Target(TickAt(p)) <= p
  BY <1>4, Targets
<1>6. p <= Target(TickAt(p) + 1)
  <2>1. CASE TickAt(p) + 1 \in Ticks
    <3>1. ~ (TickAt(p) + 1 \in S)
      BY <1>3, <1>4
    <3>2. ~ (Ratio[TickAt(p) + 1] <= p)
      BY <3>1, <2>1 DEF S
    <3>3. Ratio[TickAt(p) + 1] \in Positive /\ Target(TickAt(p) + 1) = Ratio[TickAt(p) + 1]
      BY <2>1, <1>4, RatioFacts, Targets
    <3> QED
      BY <3>2, <3>3 DEF Positive
  <2>2. CASE ~ (TickAt(p) + 1 \in Ticks)
    <3>1. TickAt(p) + 1 >= MaxTick
      BY <1>4, <2>2, RatioFacts
    <3> QED
      BY <1>4, <3>1, Targets
  <2> QED
    BY <2>1, <2>2
<1>7. ASSUME NEW a \in Int, Target(a) <= p, a <= MaxTick, ~ (a < MinTick)
      PROVE  a <= TickAt(p)
  <2>1. a \in Ticks
    BY <1>7, RatioFacts
  <2>2. a \in S
    BY <1>7, <2>1, Targets DEF S
  <2> QED
    BY <2>2, <1>3
<1> QED
  BY <1>4, <1>5, <1>6, <1>7

\* Numbers attached to finitely many ticks, and their sum up to a tick.
Upto(f, t) == Total(f, {u \in DOMAIN f : u <= t})

\* A sum up to a tick is an integer.
LEMMA UptoIsInt ==
    ASSUME NEW f, IsFiniteSet(DOMAIN f), \A u \in DOMAIN f : u \in Int /\ f[u] \in Int,
           NEW t \in Int
    PROVE  Upto(f, t) \in Int
<1>1. IsFiniteSet({u \in DOMAIN f : u <= t})
  BY FS_Subset
<1> QED
  BY <1>1, TotalWithout DEF Upto

\* Where nothing is initialized the sum does not change.
LEMMA UptoSame ==
    ASSUME NEW f, \A u \in DOMAIN f : u \in Int,
           NEW a \in Int, NEW b \in Int, a <= b,
           \A u \in DOMAIN f : ~ (a < u /\ u <= b)
    PROVE  Upto(f, a) = Upto(f, b)
<1>1. {u \in DOMAIN f : u <= a} = {u \in DOMAIN f : u <= b}
  OBVIOUS
<1> QED
  BY <1>1 DEF Upto

\* One tick more adds what is initialized there.
LEMMA UptoStep ==
    ASSUME NEW f, IsFiniteSet(DOMAIN f), \A u \in DOMAIN f : u \in Int /\ f[u] \in Int,
           NEW n \in Int
    PROVE  Upto(f, n) = (IF n \in DOMAIN f THEN f[n] ELSE 0) + Upto(f, n - 1)
<1>1. CASE n \in DOMAIN f
  <2> DEFINE S == {u \in DOMAIN f : u <= n}
  <2>1. IsFiniteSet(S) /\ n \in S /\ \A u \in S : f[u] \in Int
    BY <1>1, FS_Subset
  <2>2. S \ {n} = {u \in DOMAIN f : u <= n - 1}
    OBVIOUS
  <2> HIDE DEF S
  <2>3. Total(f, S) = f[n] + Total(f, S \ {n})
    BY <2>1, TotalWithout
  <2> QED
    BY <1>1, <2>2, <2>3 DEF Upto, S
<1>2. CASE n \notin DOMAIN f
  <2>1. Upto(f, n - 1) = Upto(f, n)
    <3>1. \A u \in DOMAIN f : ~ (n - 1 < u /\ u <= n)
      BY <1>2
    <3> QED
      BY <3>1, UptoSame
  <2>2. Upto(f, n - 1) \in Int
    BY UptoIsInt
  <2> QED
    BY <1>2, <2>1, <2>2
<1> QED
  BY <1>1, <1>2

\* The liquidity at a tick is such a sum, and is not negative anywhere.
LEMMA Liquidity ==
    ASSUME pool \in Pools, NEW t \in Int
    PROVE  LiquidityAt(pool.nets, t) = Upto(pool.nets, t) /\ Upto(pool.nets, t) \in Nat
<1>1. \A a \in Int : LiquidityAt(pool.nets, a) = Upto(pool.nets, a)
  BY DEF LiquidityAt, Upto, Total
<1>2. \A a \in Int : Upto(pool.nets, a) \in Int
  BY PoolFacts, UptoIsInt
<1>3. \A a \in Ticks : Upto(pool.nets, a) >= 0
  BY <1>1, PoolStates, PoolFacts
<1>4. Upto(pool.nets, t) >= 0
  <2>1. CASE t \in Ticks
    BY <1>3, <2>1
  <2>2. CASE t < MinTick
    <3>1. {u \in DOMAIN pool.nets : u <= t} = {}
      BY <2>2, PoolFacts, RatioFacts
    <3>2. Upto(pool.nets, t) = 0
      <4>1. Total(pool.nets, {}) = 0
        BY TotalByPick, FS_EmptySet
      <4> QED
        BY <3>1, <4>1 DEF Upto
    <3> QED
      BY <3>2
  <2>3. CASE t > MaxTick
    <3>1. Upto(pool.nets, MaxTick) = Upto(pool.nets, t)
      <4>1. \A u \in DOMAIN pool.nets : u \in Int /\ ~ (MaxTick < u /\ u <= t)
        BY PoolFacts, RatioFacts
      <4>2. MaxTick \in Int /\ MaxTick <= t
        BY <2>3, RatioFacts
      <4> QED
        BY <4>1, <4>2, UptoSame
    <3> QED
      BY <3>1, <1>3, RatioFacts
  <2> QED
    BY <2>1, <2>2, <2>3, RatioFacts
<1> QED
  BY <1>1, <1>2, <1>4

-----------------------------------------------------------------------------
(* One iteration.                                                            *)

Phases == {"none", "quoting", "pool", "back", "done", "quoted"}
SwapStates == [phase : Phases, left : Nat, out : Nat, sqrtP : Positive, tick : Int,
               liquidity : Nat, crossed : Nat]

\* Price, tick and liquidity of s agree.
Agrees(s) ==
    /\ s \in SwapStates
    /\ Target(s.tick) <= s.sqrtP /\ s.sqrtP <= Target(s.tick + 1)
    /\ s.liquidity = Upto(pool.nets, s.tick)

\* What one step does at a fee, and at the pool's.
At(s, down, f) == Iteration(s, down, AllWords, DOMAIN pool.nets, f)
Full(s, down) == At(s, down, pool.fee)
PoolMove(s, down) ==
    LET t == Moved(s, Full(s, down), down)
    IN  IF Full(s, down).reachedTarget \/ t.sqrtP = s.sqrtP THEN t
        ELSE [t EXCEPT !.tick = TickAt(t.sqrtP)]

\* The pool knows all its words.
LEMMA AllWordsSee ==
    ASSUME pool \in Pools, NEW tick, NEW down
    PROVE  Sees(AllWords, tick, down)
<1> SUFFICES ASSUME NEW t \in DOMAIN pool.nets
             PROVE  WordPos(t \div TickSpacing) \in AllWords
  BY DEF Sees
<1>1. t \in (MinTick - 1)..(MaxTick + 1)
  BY PoolFacts, RatioFacts
<1> QED
  BY <1>1 DEF AllWords

\* Words that see as much as all words find the same tick.
LEMMA SameTick ==
    ASSUME pool \in Pools, NEW words, NEW tick \in Int, NEW down \in BOOLEAN,
           Sees(words, tick, down)
    PROVE  TickNext(tick, down, words) = TickNext(tick, down, AllWords)
<1> DEFINE c == From(tick, down)
           C == {t \div TickSpacing : t \in DOMAIN pool.nets}
           found(w) == {i \in C : /\ WordPos(i) = WordPos(c) /\ WordPos(c) \in w
                                  /\ IF down THEN i <= c ELSE i >= c}
<1>1. \A i \in C : WordPos(i) = WordPos(c) => WordPos(c) \in words
  BY DEF Sees
<1>2. \A i \in C : WordPos(i) = WordPos(c) => WordPos(c) \in AllWords
  BY AllWordsSee DEF Sees
<1> HIDE DEF C, c
<1>3. found(words) = found(AllWords)
  BY <1>1, <1>2
<1>4. ASSUME NEW w
      PROVE  TickNext(tick, down, w) =
               TickSpacing * (IF down THEN IF found(w) = {} THEN c - bitPos(c) ELSE Max(found(w))
                              ELSE IF found(w) = {} THEN c + WordBits - 1 - bitPos(c)
                                   ELSE Min(found(w)))
  BY DEF TickNext, C, c
<1> HIDE DEF found
<1> QED
  BY <1>3, <1>4

\* The tick an iteration aims at lies ahead, nothing initialized before it.
LEMMA AimAt ==
    ASSUME pool \in Pools, NEW s, Agrees(s), NEW down \in BOOLEAN,
           NEW f \in 0..(FeeDen - 1)
    PROVE  LET i == At(s, down, f)
               n == i.tickNext
           IN  /\ n \in Int
               /\ down => /\ n <= s.tick /\ Target(n) <= s.sqrtP
                          /\ \A t \in DOMAIN pool.nets : t <= s.tick => t <= n
               /\ ~down => /\ s.tick < n /\ s.sqrtP <= Target(n)
                           /\ \A t \in DOMAIN pool.nets : s.tick < t => n <= t
               /\ i.step = computeSwapStep(s.sqrtP, Target(n), s.liquidity, s.left, f)
               /\ i.reachedTarget = (i.step.sqrtNext = Target(n))
               /\ i.willCross <=> i.reachedTarget /\ n \in DOMAIN pool.nets
<1> DEFINE n == TickNext(s.tick, down, AllWords)
<1>1. /\ s.tick \in Int /\ s.sqrtP \in Positive
      /\ Target(s.tick) <= s.sqrtP /\ s.sqrtP <= Target(s.tick + 1)
  BY DEF Agrees, SwapStates
<1>2. Sees(AllWords, s.tick, down)
  BY AllWordsSee
<1>3. n \in Int /\ (n \in DOMAIN pool.nets => WordPos(n \div TickSpacing) \in AllWords)
  BY <1>1, <1>2, TickNextDown, TickNextUp
<1>4. /\ At(s, down, f).tickNext = n
      /\ At(s, down, f).step = computeSwapStep(s.sqrtP, Target(n), s.liquidity, s.left, f)
      /\ At(s, down, f).reachedTarget = (At(s, down, f).step.sqrtNext = Target(n))
      /\ At(s, down, f).willCross <=>
            /\ At(s, down, f).reachedTarget
            /\ n \in DOMAIN pool.nets /\ WordPos(n \div TickSpacing) \in AllWords
  BY DEF At, Iteration
<1>5. ASSUME down
      PROVE  /\ n <= s.tick /\ Target(n) <= s.sqrtP
             /\ \A t \in DOMAIN pool.nets : t <= s.tick => t <= n
  <2>1. n <= s.tick /\ \A t \in DOMAIN pool.nets : t <= s.tick => t <= n
    BY <1>1, <1>2, <1>5, TickNextDown
  <2>2. Target(n) <= Target(s.tick) /\ Target(n) \in Positive /\ Target(s.tick) \in Positive
    BY <1>1, <1>3, <2>1, TargetsGrow, Targets
  <2> QED
    BY <1>1, <2>1, <2>2 DEF Positive
<1>6. ASSUME ~down
      PROVE  /\ s.tick < n /\ s.sqrtP <= Target(n)
             /\ \A t \in DOMAIN pool.nets : s.tick < t => n <= t
  <2>1. s.tick < n /\ \A t \in DOMAIN pool.nets : s.tick < t => n <= t
    BY <1>1, <1>2, <1>6, TickNextUp
  <2>2. s.tick + 1 \in Int /\ s.tick + 1 <= n
    BY <1>1, <1>3, <2>1
  <2>3. /\ Target(s.tick + 1) <= Target(n) /\ Target(n) \in Positive
        /\ Target(s.tick + 1) \in Positive
    BY <1>3, <2>2, TargetsGrow, Targets
  <2> QED
    BY <1>1, <2>1, <2>3 DEF Positive
<1> HIDE DEF n
<1> QED
  BY <1>3, <1>4, <1>5, <1>6

\* At the fee of the pool.
LEMMA Aim ==
    ASSUME pool \in Pools, NEW s, Agrees(s), NEW down \in BOOLEAN
    PROVE  LET i == Full(s, down)
               n == i.tickNext
           IN  /\ n \in Int
               /\ down => /\ n <= s.tick /\ Target(n) <= s.sqrtP
                          /\ \A t \in DOMAIN pool.nets : t <= s.tick => t <= n
               /\ ~down => /\ s.tick < n /\ s.sqrtP <= Target(n)
                           /\ \A t \in DOMAIN pool.nets : s.tick < t => n <= t
               /\ i.step = computeSwapStep(s.sqrtP, Target(n), s.liquidity, s.left, pool.fee)
               /\ i.reachedTarget = (i.step.sqrtNext = Target(n))
               /\ i.willCross <=> i.reachedTarget /\ n \in DOMAIN pool.nets
  BY AimAt, PoolFacts DEF Full

\* The promises of computeSwapStep(), in an iteration.
LEMMA StepAt ==
    ASSUME pool \in Pools, NEW s, Agrees(s), NEW down \in BOOLEAN,
           NEW f \in 0..(FeeDen - 1)
    PROVE  LET i == At(s, down, f)
               n == i.tickNext
               r == i.step
           IN  /\ r.consumed \in Nat /\ r.consumed <= s.left
               /\ r.amountOut \in Nat /\ r.sqrtNext \in Positive
               /\ r.sqrtNext # Target(n) => r.consumed = s.left
               /\ s.sqrtP = Target(n) => r.consumed = 0 /\ r.amountOut = 0
                                         /\ r.sqrtNext = Target(n)
               /\ down => /\ Target(n) <= r.sqrtNext /\ r.sqrtNext <= s.sqrtP
                          /\ (s.liquidity * Q) * (s.sqrtP - r.sqrtNext)
                                <= (r.consumed * s.sqrtP) * r.sqrtNext
                          /\ r.amountOut * Q <= s.liquidity * (s.sqrtP - r.sqrtNext)
               /\ ~down => /\ s.sqrtP <= r.sqrtNext /\ r.sqrtNext <= Target(n)
                           /\ s.liquidity * (r.sqrtNext - s.sqrtP) <= r.consumed * Q
                           /\ (r.amountOut * s.sqrtP) * r.sqrtNext
                                <= (s.liquidity * Q) * (r.sqrtNext - s.sqrtP)
<1> DEFINE cur == s.sqrtP
           tgt == Target(At(s, down, f).tickNext)
           L == s.liquidity
           r == At(s, down, f).step
<1>1. /\ cur \in Positive /\ L \in Nat /\ s.left \in Nat
  BY DEF Agrees, SwapStates
<1>2. /\ tgt \in Positive /\ f \in 0..(FeeDen - 1)
      /\ down => tgt <= cur
      /\ ~down => cur <= tgt
      /\ r = computeSwapStep(cur, tgt, L, s.left, f)
  BY AimAt, Targets, PoolFacts
<1> HIDE DEF cur, tgt, L, r
<1>3. CASE tgt <= cur
  <2>1. /\ r.consumed \in Nat /\ r.consumed <= s.left
        /\ r.amountOut \in Nat
        /\ r.sqrtNext \in Positive /\ tgt <= r.sqrtNext /\ r.sqrtNext <= cur
        /\ r.sqrtNext # tgt => r.consumed = s.left
        /\ (L * Q) * (cur - r.sqrtNext) <= (r.consumed * cur) * r.sqrtNext
        /\ r.amountOut * Q <= L * (cur - r.sqrtNext)
        /\ cur = tgt => r.consumed = 0 /\ r.amountOut = 0
    BY <1>1, <1>2, <1>3, SwapStepDown
  <2>2. ASSUME cur = tgt PROVE r.consumed = 0 /\ r.amountOut = 0 /\ r.sqrtNext = tgt
    <3>1. r.sqrtNext \in Nat /\ tgt \in Nat /\ cur \in Nat
      BY <1>1, <1>2, <2>1 DEF Positive
    <3> QED
      BY <2>1, <2>2, <3>1
  <2>3. ASSUME ~down
        PROVE  /\ cur <= r.sqrtNext /\ r.sqrtNext <= tgt
               /\ L * (r.sqrtNext - cur) <= r.consumed * Q
               /\ (r.amountOut * cur) * r.sqrtNext <= (L * Q) * (r.sqrtNext - cur)
    <3>1. cur = tgt
      BY <1>1, <1>2, <1>3, <2>3 DEF Positive
    <3>2. r.consumed = 0 /\ r.amountOut = 0 /\ r.sqrtNext = cur
      BY <2>2, <3>1
    <3>3. r.sqrtNext - cur = 0 /\ L * Q \in Nat /\ Q \in Nat
      BY <1>1, <3>2, ScalesArePositive, Products DEF Positive
    <3>4. /\ L * (r.sqrtNext - cur) = 0 /\ r.consumed * Q = 0
          /\ (r.amountOut * cur) * r.sqrtNext = 0 /\ (L * Q) * (r.sqrtNext - cur) = 0
      <4>1. 0 * cur = 0 /\ 0 * cur = 0
        BY <1>1 DEF Positive
      <4> QED
        BY <1>1, <3>2, <3>3, <4>1 DEF Positive
    <3> QED
      BY <1>1, <3>1, <3>2, <3>4 DEF Positive
  <2> QED
    BY <2>1, <2>2, <2>3 DEF cur, tgt, L, r
<1>4. CASE ~ (tgt <= cur)
  <2>1. cur < tgt /\ ~down /\ cur # tgt
    BY <1>1, <1>2, <1>4 DEF Positive
  <2>2. /\ r.consumed \in Nat /\ r.consumed <= s.left
        /\ r.amountOut \in Nat
        /\ r.sqrtNext \in Positive /\ cur <= r.sqrtNext /\ r.sqrtNext <= tgt
        /\ r.sqrtNext # tgt => r.consumed = s.left
        /\ L * (r.sqrtNext - cur) <= r.consumed * Q
        /\ (r.amountOut * cur) * r.sqrtNext <= (L * Q) * (r.sqrtNext - cur)
    BY <1>1, <1>2, <2>1, SwapStepUp
  <2> QED
    BY <2>1, <2>2 DEF cur, tgt, L, r
<1> QED
  BY <1>3, <1>4

\* At the fee of the pool.
LEMMA Step ==
    ASSUME pool \in Pools, NEW s, Agrees(s), NEW down \in BOOLEAN
    PROVE  LET i == Full(s, down)
               n == i.tickNext
               r == i.step
           IN  /\ r.consumed \in Nat /\ r.consumed <= s.left
               /\ r.amountOut \in Nat /\ r.sqrtNext \in Positive
               /\ r.sqrtNext # Target(n) => r.consumed = s.left
               /\ s.sqrtP = Target(n) => r.consumed = 0 /\ r.amountOut = 0
                                         /\ r.sqrtNext = Target(n)
               /\ down => /\ Target(n) <= r.sqrtNext /\ r.sqrtNext <= s.sqrtP
                          /\ (s.liquidity * Q) * (s.sqrtP - r.sqrtNext)
                                <= (r.consumed * s.sqrtP) * r.sqrtNext
                          /\ r.amountOut * Q <= s.liquidity * (s.sqrtP - r.sqrtNext)
               /\ ~down => /\ s.sqrtP <= r.sqrtNext /\ r.sqrtNext <= Target(n)
                           /\ s.liquidity * (r.sqrtNext - s.sqrtP) <= r.consumed * Q
                           /\ (r.amountOut * s.sqrtP) * r.sqrtNext
                                <= (s.liquidity * Q) * (r.sqrtNext - s.sqrtP)
  BY StepAt, PoolFacts DEF Full

\* Where the price is at its limit, an iteration changes nothing but the tick.
LEMMA StepAtLimit ==
    ASSUME pool \in Pools, NEW s, Agrees(s), NEW down \in BOOLEAN,
           NEW f \in 0..(FeeDen - 1), s.sqrtP = Limit(down)
    PROVE  LET i == At(s, down, f)
           IN  /\ i.reachedTarget /\ i.step.consumed = 0 /\ i.step.amountOut = 0
               /\ i.step.sqrtNext = Limit(down)
<1> DEFINE n == At(s, down, f).tickNext
<1>1. n \in Int /\ (down => Target(n) <= s.sqrtP) /\ (~down => s.sqrtP <= Target(n))
  BY AimAt
<1>2. At(s, down, f).reachedTarget = (At(s, down, f).step.sqrtNext = Target(n))
  BY AimAt
<1>3. /\ Target(n) \in Nat /\ s.sqrtP \in Nat
      /\ Ratio[MinTick] <= Target(n) /\ Target(n) <= Ratio[MaxTick]
      /\ Ratio[MinTick] \in Nat /\ Ratio[MaxTick] \in Nat
  BY <1>1, Targets, RatioFacts DEF Agrees, SwapStates, Positive
<1> HIDE DEF n
<1>4. s.sqrtP = Target(n)
  BY <1>1, <1>3 DEF Limit
<1> QED
  BY <1>2, <1>4, StepAt DEF n

\* The fields of what an iteration leaves.
LEMMA MovedFieldsAt ==
    ASSUME pool \in Pools, NEW s, Agrees(s), NEW down \in BOOLEAN,
           NEW f \in 0..(FeeDen - 1)
    PROVE  LET i == At(s, down, f)
               n == i.tickNext
               net == IF i.reachedTarget /\ n \in DOMAIN pool.nets THEN pool.nets[n] ELSE 0
               t == Moved(s, i, down)
           IN  /\ t = [phase |-> s.phase, left |-> t.left, out |-> t.out,
                       sqrtP |-> t.sqrtP, tick |-> t.tick, liquidity |-> t.liquidity,
                       crossed |-> t.crossed]
               /\ t.phase = s.phase
               /\ t.left = s.left - i.step.consumed
               /\ t.out = s.out + i.step.amountOut
               /\ t.sqrtP = i.step.sqrtNext
               /\ t.liquidity = (IF down THEN s.liquidity - net ELSE s.liquidity + net)
               /\ ~i.reachedTarget => t.tick = s.tick
               /\ i.reachedTarget /\ down => t.tick = n - 1
               /\ i.reachedTarget /\ ~down => t.tick = n
               /\ t.crossed \in Nat
<1> DEFINE i == At(s, down, f)
           n == i.tickNext
           net == IF i.reachedTarget /\ n \in DOMAIN pool.nets THEN pool.nets[n] ELSE 0
           other == IF i.willCross THEN pool.nets[i.tickNext] ELSE 0
           t == Moved(s, i, down)
<1>1. s = [phase |-> s.phase, left |-> s.left, out |-> s.out,
           sqrtP |-> s.sqrtP, tick |-> s.tick, liquidity |-> s.liquidity,
           crossed |-> s.crossed] /\ s.crossed \in Nat
  BY DEF Agrees, SwapStates
<1>2. i.willCross <=> i.reachedTarget /\ n \in DOMAIN pool.nets
  BY AimAt
<1> HIDE DEF i
<1>3. net = other
  BY <1>2
<1>4. t = [s EXCEPT !.left = @ - i.step.consumed,
                    !.out = @ + i.step.amountOut,
                    !.sqrtP = i.step.sqrtNext,
                    !.liquidity = IF down THEN @ - other ELSE @ + other,
                    !.tick = CASE ~i.reachedTarget -> @
                               [] i.reachedTarget /\ down -> i.tickNext - 1
                               [] OTHER -> i.tickNext,
                    !.crossed = IF i.willCross THEN @ + 1 ELSE @]
  BY DEF Moved
<1> HIDE DEF net, other, t
<1> DEFINE liq == IF down THEN s.liquidity - other ELSE s.liquidity + other
           tk == CASE ~i.reachedTarget -> s.tick
                   [] i.reachedTarget /\ down -> i.tickNext - 1
                   [] OTHER -> i.tickNext
           cr == IF i.willCross THEN s.crossed + 1 ELSE s.crossed
<1>5. t = [phase |-> s.phase, left |-> s.left - i.step.consumed,
           out |-> s.out + i.step.amountOut, sqrtP |-> i.step.sqrtNext,
           tick |-> tk, liquidity |-> liq, crossed |-> cr]
  BY <1>1, <1>4
<1>6. /\ ~i.reachedTarget => tk = s.tick
      /\ i.reachedTarget /\ down => tk = n - 1
      /\ i.reachedTarget /\ ~down => tk = n
  BY <1>2
<1>7. cr \in Nat
  BY <1>1
<1> HIDE DEF tk, cr
<1>8. liq = (IF down THEN s.liquidity - net ELSE s.liquidity + net)
  BY <1>3
<1> HIDE DEF liq, n
<1>9. /\ t = [phase |-> s.phase, left |-> t.left, out |-> t.out,
              sqrtP |-> t.sqrtP, tick |-> t.tick, liquidity |-> t.liquidity,
              crossed |-> t.crossed]
      /\ t.phase = s.phase
      /\ t.left = s.left - i.step.consumed
      /\ t.out = s.out + i.step.amountOut
      /\ t.sqrtP = i.step.sqrtNext
      /\ t.liquidity = liq /\ t.tick = tk /\ t.crossed = cr
  BY <1>5
<1> QED
  BY <1>6, <1>7, <1>8, <1>9 DEF i, n, net, t

\* At the fee of the pool.
LEMMA MovedFields ==
    ASSUME pool \in Pools, NEW s, Agrees(s), NEW down \in BOOLEAN
    PROVE  LET i == Full(s, down)
               n == i.tickNext
               net == IF i.reachedTarget /\ n \in DOMAIN pool.nets THEN pool.nets[n] ELSE 0
               t == Moved(s, i, down)
           IN  /\ t = [phase |-> s.phase, left |-> t.left, out |-> t.out,
                       sqrtP |-> t.sqrtP, tick |-> t.tick, liquidity |-> t.liquidity,
                       crossed |-> t.crossed]
               /\ t.phase = s.phase
               /\ t.left = s.left - i.step.consumed
               /\ t.out = s.out + i.step.amountOut
               /\ t.sqrtP = i.step.sqrtNext
               /\ t.liquidity = (IF down THEN s.liquidity - net ELSE s.liquidity + net)
               /\ ~i.reachedTarget => t.tick = s.tick
               /\ i.reachedTarget /\ down => t.tick = n - 1
               /\ i.reachedTarget /\ ~down => t.tick = n
               /\ t.crossed \in Nat
  BY MovedFieldsAt, PoolFacts DEF Full

\* A step that reaches its target leaves price, tick and liquidity agreeing.
LEMMA ReachedAgreesAt ==
    ASSUME pool \in Pools, NEW s, Agrees(s), NEW down \in BOOLEAN,
           NEW f \in 0..(FeeDen - 1),
           At(s, down, f).reachedTarget
    PROVE  Agrees(Moved(s, At(s, down, f), down))
<1> DEFINE i == At(s, down, f)
           n == i.tickNext
           net == IF n \in DOMAIN pool.nets THEN pool.nets[n] ELSE 0
           t == Moved(s, i, down)
<1>1. /\ t = [phase |-> s.phase, left |-> t.left, out |-> t.out,
              sqrtP |-> t.sqrtP, tick |-> t.tick, liquidity |-> t.liquidity,
              crossed |-> t.crossed]
      /\ t.left = s.left - i.step.consumed
      /\ t.out = s.out + i.step.amountOut
      /\ t.sqrtP = i.step.sqrtNext
      /\ t.liquidity = (IF down THEN s.liquidity - net ELSE s.liquidity + net)
      /\ down => t.tick = n - 1
      /\ ~down => t.tick = n
      /\ t.crossed \in Nat
  BY MovedFieldsAt
<1>2. /\ n \in Int
      /\ down => n <= s.tick /\ \A u \in DOMAIN pool.nets : u <= s.tick => u <= n
      /\ ~down => s.tick < n /\ \A u \in DOMAIN pool.nets : s.tick < u => n <= u
      /\ i.reachedTarget = (i.step.sqrtNext = Target(n))
  <2>1. /\ n \in Int
        /\ down => n <= s.tick /\ \A u \in DOMAIN pool.nets : u <= s.tick => u <= n
        /\ ~down => s.tick < n /\ \A u \in DOMAIN pool.nets : s.tick < u => n <= u
    BY AimAt
  <2>2. i.reachedTarget = (i.step.sqrtNext = Target(n))
    BY AimAt
  <2> QED
    BY <2>1, <2>2
<1>3. i.step.consumed \in Nat /\ i.step.consumed <= s.left /\ i.step.amountOut \in Nat
  BY StepAt
<1>4. /\ s.tick \in Int /\ s.left \in Nat /\ s.out \in Nat /\ s.phase \in Phases
      /\ s.liquidity = Upto(pool.nets, s.tick)
  BY DEF Agrees, SwapStates
<1>5. /\ IsFiniteSet(DOMAIN pool.nets)
      /\ \A u \in DOMAIN pool.nets : u \in Int /\ pool.nets[u] \in Int
  BY PoolFacts
<1>6. t.sqrtP = Target(n)
  BY <1>1, <1>2
<1> HIDE DEF i, n, t
<1>7. Upto(pool.nets, n) = net + Upto(pool.nets, n - 1) /\ net \in Int
  BY <1>2, <1>5, UptoStep
<1> HIDE DEF net
<1>8. /\ Upto(pool.nets, n) \in Nat /\ Upto(pool.nets, n - 1) \in Nat
      /\ Upto(pool.nets, s.tick) \in Nat
  BY <1>2, <1>4, Liquidity
<1>9. /\ Target(n) \in Positive
      /\ Target(n - 1) <= Target(n) /\ Target(n) <= Target(n + 1) /\ Target(n) <= Target(n)
  <2>1. Target(n - 1) <= Target(n) /\ Target(n) <= Target(n + 1)
    BY <1>2, TargetsGrow
  <2> QED
    BY <1>2, <2>1, Targets DEF Positive
<1>10. t.left \in Nat /\ t.out \in Nat
  BY <1>1, <1>3, <1>4
<1>11. /\ t.tick \in Int
       /\ Target(t.tick) <= Target(n) /\ Target(n) <= Target(t.tick + 1)
       /\ t.liquidity = Upto(pool.nets, t.tick)
  <2>1. CASE down
    <3>1. Upto(pool.nets, n) = Upto(pool.nets, s.tick)
      <4>1. \A u \in DOMAIN pool.nets : u \in Int /\ ~ (n < u /\ u <= s.tick)
        BY <1>2, <1>4, <1>5, <2>1
      <4> QED
        BY <1>2, <1>4, <2>1, <4>1, UptoSame
    <3>2. t.tick = n - 1 /\ t.tick + 1 = n /\ t.liquidity = s.liquidity - net
      BY <1>1, <1>2, <2>1
    <3> QED
      BY <1>2, <1>4, <1>7, <1>8, <1>9, <3>1, <3>2
  <2>2. CASE ~down
    <3>1. Upto(pool.nets, s.tick) = Upto(pool.nets, n - 1)
      <4>1. \A u \in DOMAIN pool.nets : u \in Int /\ ~ (s.tick < u /\ u <= n - 1)
        BY <1>2, <1>4, <1>5, <2>2
      <4>2. s.tick <= n - 1 /\ n - 1 \in Int
        BY <1>2, <1>4, <2>2
      <4> QED
        BY <1>4, <4>1, <4>2, UptoSame
    <3>2. t.tick = n /\ t.liquidity = s.liquidity + net
      BY <1>1, <2>2
    <3> QED
      BY <1>2, <1>4, <1>7, <1>8, <1>9, <3>1, <3>2
  <2> QED
    BY <2>1, <2>2
<1>12. t.liquidity \in Nat
  BY <1>11, Liquidity
<1>13. t \in SwapStates
  BY <1>1, <1>4, <1>6, <1>9, <1>10, <1>11, <1>12 DEF SwapStates
<1> QED
  BY <1>6, <1>11, <1>13 DEF Agrees, t, i

\* At the fee of the pool.
LEMMA ReachedAgrees ==
    ASSUME pool \in Pools, NEW s, Agrees(s), NEW down \in BOOLEAN,
           Full(s, down).reachedTarget
    PROVE  Agrees(Moved(s, Full(s, down), down))
  BY ReachedAgreesAt, PoolFacts DEF Full

\* The initialized ticks up to a tick.
Under(t) == {u \in DOMAIN pool.nets : u <= t}

\* The tick of the new price, when no target was reached, has the same ticks
\* under it as the old one.
LEMMA SameRange ==
    ASSUME pool \in Pools, NEW s, Agrees(s), NEW down \in BOOLEAN,
           NEW p \in Positive, p # s.sqrtP, p # Target(Full(s, down).tickNext),
           down => Target(Full(s, down).tickNext) <= p /\ p <= s.sqrtP,
           ~down => s.sqrtP <= p /\ p <= Target(Full(s, down).tickNext)
    PROVE  /\ TickAt(p) \in Int
           /\ Target(TickAt(p)) <= p /\ p <= Target(TickAt(p) + 1)
           /\ Under(TickAt(p)) = Under(s.tick)
<1> DEFINE n == Full(s, down).tickNext
           m == TickAt(p)
<1>1. /\ n \in Int
      /\ down => n <= s.tick /\ \A u \in DOMAIN pool.nets : u <= s.tick => u <= n
      /\ ~down => s.tick < n /\ \A u \in DOMAIN pool.nets : s.tick < u => n <= u
  BY Aim
<1>2. /\ s.tick \in Int /\ s.sqrtP \in Positive
      /\ Target(s.tick) <= s.sqrtP /\ s.sqrtP <= Target(s.tick + 1)
  BY DEF Agrees, SwapStates
<1>3. \A u \in DOMAIN pool.nets : u \in Int
  BY PoolFacts
<1>4. \A a \in Int : /\ Target(a) \in Nat
                     /\ Ratio[MinTick] <= Target(a) /\ Target(a) <= Ratio[MaxTick]
                     /\ a >= MaxTick => Target(a) = Ratio[MaxTick]
  BY Targets DEF Positive
<1>5. \A a, b \in Int : a <= b => Target(a) <= Target(b)
  BY TargetsGrow
<1>6. p \in Nat /\ s.sqrtP \in Nat /\ Ratio[MinTick] \in Nat /\ Ratio[MaxTick] \in Nat
  BY <1>2, RatioFacts DEF Positive
<1>7. Ratio[MinTick] <= p /\ p <= Ratio[MaxTick]
  <2>1. Target(n) \in Nat /\ Ratio[MinTick] <= Target(n) /\ Target(n) <= Ratio[MaxTick]
    BY <1>1, <1>4
  <2>2. /\ Target(s.tick) \in Nat /\ Target(s.tick + 1) \in Nat
        /\ Ratio[MinTick] <= Target(s.tick) /\ Target(s.tick + 1) <= Ratio[MaxTick]
    BY <1>2, <1>4
  <2> HIDE DEF n
  <2> QED
    BY <1>2, <1>6, <2>1, <2>2 DEF n
<1>8. /\ m \in Ticks /\ m \in Int /\ Target(m) <= p /\ p <= Target(m + 1)
      /\ m <= MaxTick /\ MaxTick \in Int
      /\ \A a \in Int : Target(a) <= p /\ a <= MaxTick => a <= m \/ a < MinTick
  BY <1>7, TickAtFacts, RatioFacts
<1>9. m >= MinTick /\ MinTick \in Int
  BY <1>8, RatioFacts
<1> HIDE DEF m, n
<1>10. CASE down
  <2>1. Target(n) <= p /\ p < s.sqrtP /\ Target(n) < p
    <3>1. Target(n) \in Nat /\ Target(n) # p /\ Target(n) <= p /\ p <= s.sqrtP
      BY <1>1, <1>4, <1>10 DEF n
    <3> QED
      BY <1>6, <3>1
  <2>2. m <= s.tick
    <3> SUFFICES ASSUME s.tick + 1 <= m PROVE FALSE
      BY <1>2, <1>8
    <3>1. Target(s.tick + 1) <= Target(m)
      BY <1>2, <1>5, <1>8
    <3>2. Target(s.tick + 1) \in Nat /\ Target(m) \in Nat
      BY <1>2, <1>4, <1>8
    <3> QED
      BY <1>2, <1>6, <1>8, <2>1, <3>1, <3>2
  <2>3. n <= m
    <3> SUFFICES ASSUME m + 1 <= n PROVE FALSE
      BY <1>1, <1>8
    <3>1. Target(m + 1) <= Target(n) /\ Target(m + 1) \in Nat /\ Target(n) \in Nat
      BY <1>1, <1>4, <1>5, <1>8
    <3> QED
      BY <1>6, <1>8, <2>1, <3>1
  <2>4. \A u \in DOMAIN pool.nets : u \in Int /\ ~ (m < u /\ u <= s.tick)
    BY <1>1, <1>2, <1>3, <1>8, <1>10, <2>3
  <2>5. Under(m) = Under(s.tick)
    BY <1>2, <1>8, <2>2, <2>4 DEF Under
  <2> QED
    BY <1>8, <2>5 DEF m
<1>11. CASE ~down
  <2>1. s.sqrtP < p /\ p < Target(n)
    <3>1. Target(n) \in Nat /\ Target(n) # p /\ s.sqrtP <= p /\ p <= Target(n)
      BY <1>1, <1>4, <1>11 DEF n
    <3> QED
      BY <1>6, <3>1
  <2>2. s.tick <= m
    <3> SUFFICES ASSUME m + 1 <= s.tick PROVE FALSE
      BY <1>2, <1>8
    <3>1. Target(m + 1) <= Target(s.tick) /\ Target(m + 1) \in Nat /\ Target(s.tick) \in Nat
      BY <1>2, <1>4, <1>5, <1>8
    <3> QED
      BY <1>2, <1>6, <1>8, <2>1, <3>1
  <2>3. m < n
    <3> SUFFICES ASSUME n <= m PROVE FALSE
      BY <1>1, <1>8
    <3>1. Target(n) <= Target(m) /\ Target(m) \in Nat /\ Target(n) \in Nat
      BY <1>1, <1>4, <1>5, <1>8
    <3> QED
      BY <1>6, <1>8, <2>1, <3>1
  <2>4. \A u \in DOMAIN pool.nets : u \in Int /\ ~ (s.tick < u /\ u <= m)
    BY <1>1, <1>2, <1>3, <1>8, <1>11, <2>3
  <2>5. Under(m) = Under(s.tick)
    BY <1>2, <1>8, <2>2, <2>4 DEF Under
  <2> QED
    BY <1>8, <2>5 DEF m
<1> QED
  BY <1>10, <1>11

\* Every step of the pool leaves price, tick and liquidity agreeing; one that
\* reaches no target uses what is left.
LEMMA MoveAgrees ==
    ASSUME pool \in Pools, NEW s, Agrees(s), NEW down \in BOOLEAN
    PROVE  LET t == PoolMove(s, down)
               i == Full(s, down)
           IN  /\ Agrees(t) /\ t.phase = s.phase
               /\ t.left = s.left - i.step.consumed
               /\ t.out = s.out + i.step.amountOut
               /\ t.sqrtP = i.step.sqrtNext
               /\ ~i.reachedTarget => t.left = 0
               /\ i.reachedTarget => t = Moved(s, i, down)
               /\ ~i.reachedTarget => t.liquidity = s.liquidity /\ Under(t.tick) = Under(s.tick)
<1> DEFINE i == Full(s, down)
           n == i.tickNext
           m == Moved(s, i, down)
           t == PoolMove(s, down)
           net == IF i.reachedTarget /\ n \in DOMAIN pool.nets THEN pool.nets[n] ELSE 0
<1>1. /\ m = [phase |-> s.phase, left |-> m.left, out |-> m.out,
              sqrtP |-> m.sqrtP, tick |-> m.tick, liquidity |-> m.liquidity,
              crossed |-> m.crossed]
      /\ m.phase = s.phase
      /\ m.left = s.left - i.step.consumed
      /\ m.out = s.out + i.step.amountOut
      /\ m.sqrtP = i.step.sqrtNext
      /\ m.liquidity = (IF down THEN s.liquidity - net ELSE s.liquidity + net)
      /\ ~i.reachedTarget => m.tick = s.tick
      /\ m.crossed \in Nat
  BY MovedFields
<1>2. /\ i.step.consumed \in Nat /\ i.step.consumed <= s.left
      /\ i.step.amountOut \in Nat /\ i.step.sqrtNext \in Positive
      /\ i.step.sqrtNext # Target(n) => i.step.consumed = s.left
      /\ down => Target(n) <= i.step.sqrtNext /\ i.step.sqrtNext <= s.sqrtP
      /\ ~down => s.sqrtP <= i.step.sqrtNext /\ i.step.sqrtNext <= Target(n)
  BY Step
<1>3. i.reachedTarget = (i.step.sqrtNext = Target(n))
  BY Aim
<1>4. t = IF i.reachedTarget \/ m.sqrtP = s.sqrtP THEN m ELSE [m EXCEPT !.tick = TickAt(m.sqrtP)]
  BY DEF PoolMove
<1>5. s.left \in Nat /\ s.out \in Nat /\ s.liquidity \in Nat /\ s.tick \in Int /\ s.phase \in Phases
  BY DEF Agrees, SwapStates
<1>6. i.reachedTarget => Agrees(m)
  BY ReachedAgrees
<1> HIDE DEF t, m
<1>7. CASE i.reachedTarget
  BY <1>1, <1>4, <1>6, <1>7 DEF t, m
<1>8. CASE ~i.reachedTarget
  <2>1. m.liquidity = s.liquidity /\ m.tick = s.tick /\ m.left = 0
    <3>1. net = 0
      BY <1>8
    <3>2. i.step.consumed = s.left
      BY <1>2, <1>3, <1>8
    <3> HIDE DEF net, i
    <3> QED
      BY <1>1, <1>5, <1>8, <3>1, <3>2
  <2>2. m.out \in Nat /\ m.sqrtP \in Positive
    BY <1>1, <1>2, <1>5
  <2>3. CASE m.sqrtP = s.sqrtP
    <3>1. t = m
      BY <1>4, <2>3
    <3>2. m \in SwapStates
      BY <1>1, <1>5, <2>1, <2>2 DEF SwapStates
    <3>3. Agrees(m)
      BY <2>1, <2>3, <3>2 DEF Agrees
    <3> HIDE DEF i
    <3> QED
      BY <1>1, <1>8, <2>1, <3>1, <3>3 DEF t, i
  <2>4. CASE m.sqrtP # s.sqrtP
    <3>1. t = [m EXCEPT !.tick = TickAt(m.sqrtP)]
      BY <1>4, <1>8, <2>4
    <3>2. t = [phase |-> s.phase, left |-> m.left, out |-> m.out,
               sqrtP |-> m.sqrtP, tick |-> TickAt(m.sqrtP), liquidity |-> m.liquidity,
               crossed |-> m.crossed]
      BY <1>1, <3>1
    <3>3. /\ TickAt(m.sqrtP) \in Int
          /\ Target(TickAt(m.sqrtP)) <= m.sqrtP /\ m.sqrtP <= Target(TickAt(m.sqrtP) + 1)
          /\ Under(TickAt(m.sqrtP)) = Under(s.tick)
      <4>1. /\ m.sqrtP # Target(n)
            /\ down => Target(n) <= m.sqrtP /\ m.sqrtP <= s.sqrtP
            /\ ~down => s.sqrtP <= m.sqrtP /\ m.sqrtP <= Target(n)
        BY <1>1, <1>2, <1>3, <1>8
      <4> QED
        BY <2>2, <2>4, <4>1, SameRange
    <3>4. /\ t.phase = s.phase /\ t.left = m.left /\ t.out = m.out /\ t.sqrtP = m.sqrtP
          /\ t.tick = TickAt(m.sqrtP) /\ t.liquidity = s.liquidity
      BY <2>1, <3>2
    <3>5. t \in SwapStates
      BY <1>1, <1>5, <2>1, <2>2, <3>2, <3>3 DEF SwapStates
    <3>6. Agrees(t)
      <4>1. s.liquidity = Upto(pool.nets, s.tick)
        BY DEF Agrees
      <4> QED
        BY <3>3, <3>4, <3>5, <4>1 DEF Agrees, Upto, Under
    <3> HIDE DEF i
    <3> QED
      BY <1>1, <1>8, <2>1, <3>3, <3>4, <3>6 DEF t, i
  <2> QED
    BY <2>3, <2>4
<1> QED
  BY <1>7, <1>8

-----------------------------------------------------------------------------
(* The loop and the pool aim alike, and the pool is never behind.            *)

\* A state a of the pool and a state b of the loop: the pool has at least as much
\* input left, and exactly as much at its own fee.
Covers(a, b) ==
    /\ b.left <= a.left /\ (args.fee = pool.fee => b.left = a.left)
    /\ a.out = b.out /\ a.sqrtP = b.sqrtP
    /\ a.tick = b.tick /\ a.liquidity = b.liquidity

\* Where the pool covers the loop and takes no higher fee, its next step pays as
\* much or more, and covers the loop's as long as the loop reaches its target.
LEMMA CoversMoves ==
    ASSUME pool \in Pools, args.fee \in 0..(FeeDen - 1), args.fee >= pool.fee,
           NEW a, NEW b, Agrees(a), Agrees(b), Covers(a, b), NEW down \in BOOLEAN
    PROVE  LET i == At(b, down, args.fee)
               j == Full(a, down)
           IN  /\ i.step.amountOut <= j.step.amountOut
               /\ args.fee = pool.fee => j = i
               /\ i.reachedTarget => Covers(PoolMove(a, down), Moved(b, i, down))
<1> DEFINE i == At(b, down, args.fee)
           j == Full(a, down)
           n == i.tickNext
           t == Target(n)
<1>0. pool.fee \in 0..(FeeDen - 1) /\ pool.fee <= args.fee
  BY PoolFacts
<1>1. /\ a.left \in Nat /\ b.left \in Nat /\ b.left <= a.left
      /\ a.sqrtP \in Positive /\ a.liquidity \in Nat
      /\ a.tick = b.tick /\ a.sqrtP = b.sqrtP /\ a.liquidity = b.liquidity /\ a.out = b.out
      /\ args.fee = pool.fee => b.left = a.left
      /\ a.out \in Nat
  BY DEF Agrees, SwapStates, Covers
<1>2. args.fee = pool.fee => j = i
  BY <1>1 DEF Full, At, Iteration
<1>3. j.tickNext = n
  BY <1>1 DEF Full, At, Iteration
<1>4. /\ n \in Int
      /\ i.step = computeSwapStep(a.sqrtP, t, a.liquidity, b.left, args.fee)
      /\ i.reachedTarget = (i.step.sqrtNext = t)
  BY <1>1, AimAt
<1>5. /\ j.step = computeSwapStep(a.sqrtP, t, a.liquidity, a.left, pool.fee)
      /\ j.reachedTarget = (j.step.sqrtNext = t)
  BY <1>3, Aim
<1>6. t \in Positive
  BY <1>4, Targets
<1>7. /\ i.step.amountOut <= j.step.amountOut
      /\ i.step.sqrtNext = t =>
           /\ j.step.sqrtNext = t /\ j.step.amountOut = i.step.amountOut
           /\ j.step.consumed <= i.step.consumed
  <2> DEFINE x == computeSwapStep(a.sqrtP, t, a.liquidity, b.left, args.fee)
             y == computeSwapStep(a.sqrtP, t, a.liquidity, a.left, pool.fee)
  <2> HIDE DEF i, j, n, t
  <2>1. /\ x.amountOut <= y.amountOut
        /\ x.sqrtNext = t =>
             y.sqrtNext = t /\ y.amountOut = x.amountOut /\ y.consumed <= x.consumed
    BY <1>0, <1>1, <1>6, StepCovers
  <2> HIDE DEF x, y
  <2>2. i.step = x /\ j.step = y
    BY <1>4, <1>5 DEF x, y
  <2> QED
    BY <2>1, <2>2
<1>8. ASSUME i.reachedTarget
      PROVE  Covers(PoolMove(a, down), Moved(b, i, down))
  <2> DEFINE u == Moved(a, j, down)
             v == Moved(b, i, down)
  <2>1. j.reachedTarget /\ i.step.sqrtNext = j.step.sqrtNext
    BY <1>4, <1>5, <1>7, <1>8
  <2>2. PoolMove(a, down) = u
    BY <2>1, MoveAgrees
  <2>3. /\ u.left = a.left - j.step.consumed
        /\ u.out = a.out + j.step.amountOut
        /\ u.sqrtP = j.step.sqrtNext
        /\ u.tick = (IF down THEN n - 1 ELSE n)
        /\ u.liquidity =
             (LET net == IF n \in DOMAIN pool.nets THEN pool.nets[n] ELSE 0
              IN  IF down THEN a.liquidity - net ELSE a.liquidity + net)
    BY <1>3, <2>1, MovedFields
  <2>4. /\ v.left = b.left - i.step.consumed
        /\ v.out = b.out + i.step.amountOut
        /\ v.sqrtP = i.step.sqrtNext
        /\ v.tick = (IF down THEN n - 1 ELSE n)
        /\ v.liquidity =
             (LET net == IF n \in DOMAIN pool.nets THEN pool.nets[n] ELSE 0
              IN  IF down THEN b.liquidity - net ELSE b.liquidity + net)
    BY <1>8, MovedFieldsAt
  <2>5. i.step.consumed \in Nat /\ j.step.consumed \in Nat
    BY StepAt, Step
  <2>6. j.step.consumed <= i.step.consumed /\ j.step.amountOut = i.step.amountOut
    BY <1>4, <1>7, <1>8
  <2> HIDE DEF u, v, i, j, n
  <2>7. v.left <= u.left
    BY <1>1, <2>3, <2>4, <2>5, <2>6
  <2>8. args.fee = pool.fee => v.left = u.left
    BY <1>1, <1>2, <2>3, <2>4
  <2>9. u.out = v.out /\ u.sqrtP = v.sqrtP /\ u.tick = v.tick /\ u.liquidity = v.liquidity
    BY <1>1, <2>1, <2>3, <2>4, <2>6
  <2> QED
    BY <2>2, <2>7, <2>8, <2>9 DEF Covers, v
<1> QED
  BY <1>2, <1>7, <1>8

\* Reads that suffice show the loop what the pool itself sees, and the loop acts on
\* it at its own fee.
LEMMA ReadsShowThePool ==
    ASSUME pool \in Pools, Agrees(swap), args.zeroForOne \in BOOLEAN,
           args.fee \in 0..(FeeDen - 1), ReadsSuffice
    PROVE  /\ Next_.reachedTarget = At(swap, args.zeroForOne, args.fee).reachedTarget
           /\ Moved(swap, Next_, args.zeroForOne)
                = Moved(swap, At(swap, args.zeroForOne, args.fee), args.zeroForOne)
<1> DEFINE d == args.zeroForOne
           i == Next_
           j == At(swap, d, args.fee)
           n == TickNext(swap.tick, d, known.words)
<1>1. Sees(known.words, swap.tick, d)
  BY DEF Sees, ReadsSuffice, WordIsKnown
<1>2. swap.tick \in Int
  BY DEF Agrees, SwapStates
<1>3. n = TickNext(swap.tick, d, AllWords)
  BY <1>1, <1>2, SameTick
<1>4. n \in DOMAIN pool.nets => WordPos(n \div TickSpacing) \in known.words
  <2>1. CASE d
    BY <1>1, <1>2, <2>1, TickNextDown
  <2>2. CASE ~d
    BY <1>1, <1>2, <2>2, TickNextUp
  <2> QED
    BY <2>1, <2>2
<1>5. /\ i.tickNext = n
      /\ i.step = computeSwapStep(swap.sqrtP, Target(n), swap.liquidity, swap.left, args.fee)
      /\ i.reachedTarget = (i.step.sqrtNext = Target(n))
      /\ i.willCross <=> /\ i.reachedTarget /\ n \in known.ticks
                         /\ n \in DOMAIN pool.nets /\ WordPos(n \div TickSpacing) \in known.words
      /\ i.missing <=> /\ i.reachedTarget /\ n \notin known.ticks
                       /\ n \in DOMAIN pool.nets /\ WordPos(n \div TickSpacing) \in known.words
  BY DEF Next_, Iteration
<1>6. j.tickNext = n
  BY <1>3 DEF At, Iteration
<1>7. /\ j.step = computeSwapStep(swap.sqrtP, Target(n), swap.liquidity, swap.left, args.fee)
      /\ j.reachedTarget = (j.step.sqrtNext = Target(n))
      /\ j.willCross <=> j.reachedTarget /\ n \in DOMAIN pool.nets
  BY <1>6, AimAt
<1>8. ~i.missing
  BY DEF ReadsSuffice
<1> HIDE DEF i, j, n
<1>9. /\ i.tickNext = j.tickNext /\ i.step = j.step
      /\ i.reachedTarget = j.reachedTarget
      /\ i.willCross <=> j.willCross
  BY <1>4, <1>5, <1>6, <1>7, <1>8
<1>10. Moved(swap, i, d) = Moved(swap, j, d)
  <2> DEFINE x == IF i.willCross THEN pool.nets[i.tickNext] ELSE 0
             y == IF j.willCross THEN pool.nets[j.tickNext] ELSE 0
             ic(c) == IF i.willCross THEN c + 1 ELSE c
             jc(c) == IF j.willCross THEN c + 1 ELSE c
  <2>1. x = y /\ \A c : ic(c) = jc(c)
    BY <1>9
  <2> HIDE DEF d
  <2> QED
    BY <1>9, <2>1 DEF Moved
<1> QED
  BY <1>9, <1>10 DEF i, j

-----------------------------------------------------------------------------
(* A run of the pool: it moves while there is input left and room for it.     *)

Active(s, down) == s.left > 0 /\ s.sqrtP # Limit(down)

Run(r, n, down) ==
    /\ n \in Nat
    /\ \A i \in 0..n : Agrees(r[i]) /\ r[i].phase = "pool"
    /\ \A i \in 0..(n - 1) : Active(r[i], down) /\ r[i + 1] = PoolMove(r[i], down)

\* A state alone is a run.
LEMMA RunStarts ==
    ASSUME NEW s, Agrees(s), s.phase = "pool", NEW down
    PROVE  Run([i \in {0} |-> s], 0, down)
  BY DEF Run

\* A run whose last state is active may be continued by one move.
LEMMA RunGoesOn ==
    ASSUME pool \in Pools, NEW r, NEW n, NEW down \in BOOLEAN,
           Run(r, n, down), Active(r[n], down)
    PROVE  LET q == [i \in 0..(n + 1) |-> IF i = n + 1 THEN PoolMove(r[n], down) ELSE r[i]]
           IN  Run(q, n + 1, down) /\ q[0] = r[0] /\ q[n + 1] = PoolMove(r[n], down)
<1> DEFINE q == [i \in 0..(n + 1) |-> IF i = n + 1 THEN PoolMove(r[n], down) ELSE r[i]]
<1>1. n \in Nat /\ \A i \in 0..n : Agrees(r[i]) /\ r[i].phase = "pool"
  BY DEF Run
<1>2. \A i \in 0..(n - 1) : Active(r[i], down) /\ r[i + 1] = PoolMove(r[i], down)
  BY DEF Run
<1>3. Agrees(r[n]) /\ r[n].phase = "pool"
  BY <1>1
<1>4. Agrees(PoolMove(r[n], down)) /\ PoolMove(r[n], down).phase = "pool"
  BY <1>3, MoveAgrees
<1>5. q[n + 1] = PoolMove(r[n], down) /\ \A i \in 0..n : q[i] = r[i]
  BY <1>1
<1> HIDE DEF q
<1>6. \A i \in 0..(n + 1) : Agrees(q[i]) /\ q[i].phase = "pool"
  <2> TAKE i \in 0..(n + 1)
  <2>1. i = n + 1 \/ i \in 0..n
    BY <1>1
  <2> QED
    BY <1>1, <1>4, <1>5, <2>1
<1>7. \A i \in 0..((n + 1) - 1) : Active(q[i], down) /\ q[i + 1] = PoolMove(q[i], down)
  <2> TAKE i \in 0..((n + 1) - 1)
  <2>1. i \in 0..n /\ (i = n \/ (i \in 0..(n - 1) /\ i + 1 \in 0..n))
    BY <1>1
  <2>2. CASE i = n
    <3>1. q[i] = r[n] /\ q[i + 1] = PoolMove(r[n], down)
      BY <1>5, <2>1, <2>2
    <3> QED
      BY <3>1
  <2>3. CASE i \in 0..(n - 1) /\ i + 1 \in 0..n
    <3>1. q[i] = r[i] /\ q[i + 1] = r[i + 1]
      BY <1>5, <2>1, <2>3
    <3> QED
      BY <1>2, <2>3, <3>1
  <2> QED
    BY <2>1, <2>2, <2>3
<1>8. n + 1 \in Nat /\ 0 \in 0..n
  BY <1>1
<1> QED
  BY <1>5, <1>6, <1>7, <1>8 DEF Run, q

\* The rest of a run is a run.
LEMMA RunIsLeft ==
    ASSUME NEW r, NEW n, NEW down, Run(r, n, down), n # 0
    PROVE  LET q == [i \in 0..(n - 1) |-> r[i + 1]]
           IN  /\ Run(q, n - 1, down) /\ q[n - 1] = r[n]
               /\ Active(r[0], down) /\ q[0] = PoolMove(r[0], down)
<1> DEFINE q == [i \in 0..(n - 1) |-> r[i + 1]]
<1>1. n \in Nat /\ n > 0 /\ \A i \in 0..n : Agrees(r[i]) /\ r[i].phase = "pool"
  BY DEF Run
<1>2. \A i \in 0..(n - 1) : Active(r[i], down) /\ r[i + 1] = PoolMove(r[i], down)
  BY DEF Run
<1>3. \A i \in 0..(n - 1) : q[i] = r[i + 1] /\ i + 1 \in 0..n
  BY <1>1
<1>4. 0 \in 0..(n - 1) /\ n - 1 \in 0..(n - 1) /\ (n - 1) + 1 = n /\ 0 + 1 = 1 /\ n - 1 \in Nat
  BY <1>1
<1>5. \A i \in 0..((n - 1) - 1) : i \in 0..(n - 1) /\ i + 1 \in 0..(n - 1)
  BY <1>1
<1> HIDE DEF q
<1>6. \A i \in 0..(n - 1) : Agrees(q[i]) /\ q[i].phase = "pool"
  BY <1>1, <1>3
<1>7. \A i \in 0..((n - 1) - 1) : Active(q[i], down) /\ q[i + 1] = PoolMove(q[i], down)
  BY <1>2, <1>3, <1>5
<1>8. q[n - 1] = r[n] /\ Active(r[0], down) /\ q[0] = PoolMove(r[0], down)
  <2>1. q[n - 1] = r[(n - 1) + 1] /\ q[0] = r[0 + 1]
    BY <1>3, <1>4
  <2>2. r[0 + 1] = PoolMove(r[0], down) /\ Active(r[0], down)
    BY <1>2, <1>4
  <2> QED
    BY <1>4, <2>1, <2>2
<1> QED
  BY <1>4, <1>6, <1>7, <1>8 DEF Run, q

\* What is said of the pool stays said while the pool is the same one.
LEMMA PoolStays ==
    ASSUME pool' = pool, NEW s, NEW down
    PROVE  /\ Agrees(s)' <=> Agrees(s)
           /\ PoolMove(s, down)' = PoolMove(s, down)
<1>1. Agrees(s)' <=> Agrees(s)
  BY DEF Agrees
<1>2. ASSUME NEW t, NEW w PROVE TickNext(t, down, w)' = TickNext(t, down, w)
  BY <1>2 DEF TickNext
<1>3. Full(s, down)' = Full(s, down)
  BY <1>2 DEF Full, At, Iteration
<1>4. ASSUME NEW i PROVE Moved(s, i, down)' = Moved(s, i, down)
  BY DEF Moved
<1> QED
  BY <1>1, <1>3, <1>4 DEF PoolMove

-----------------------------------------------------------------------------
(* The inductive invariant of the quote and of the pool that pays it.        *)

V3Types ==
    /\ pool \in Pools
    /\ args \in [amountIn : Nat, zeroForOne : BOOLEAN, fee : 0..(FeeDen - 1)]
    /\ quote \in [out : Nat, complete : BOOLEAN]
    /\ paid \in [out : Nat, left : Nat]
    /\ swap.phase \in {"quoting", "pool", "back", "done"}
    /\ Agrees(swap)

\* At no less than the pool's fee, the loop is covered by the end of a run of the
\* pool from the state that was read, or goes on where that run has stopped at the
\* limit of prices.
LoopFollows ==
    swap.phase = "quoting" /\ args.fee >= pool.fee =>
        \E d, n, r :
            /\ d = args.zeroForOne /\ Run(r, n, d)
            /\ r[0] = Loop("pool", pool, args.amountIn)
            /\ r[n].out = swap.out
            /\ \/ Covers(r[n], swap)
               \/ r[n].sqrtP = Limit(d) /\ swap.sqrtP = Limit(d) /\ swap.left > 0

\* The run that such a quote was taken from lies ahead of the pool.
PoolFollows ==
    swap.phase = "pool" /\ args.fee >= pool.fee =>
        \E d, n, r :
            /\ d = args.zeroForOne /\ Run(r, n, d) /\ r[0] = swap
            /\ quote.out <= r[n].out
            /\ quote.complete /\ args.fee = pool.fee =>
                 quote.out = r[n].out /\ ~Active(r[n], d)

V3Inv == V3Types /\ LoopFollows /\ PoolFollows /\ QuoteIsPaid

\* The state in which the loop and the swap start.
LEMMA LoopAgrees ==
    ASSUME pool \in Pools, NEW amount \in Nat, NEW phase \in Phases
    PROVE  Agrees(Loop(phase, pool, amount)) /\ Loop(phase, pool, amount).phase = phase
<1> DEFINE s == Loop(phase, pool, amount)
<1>1. s = [phase |-> phase, left |-> amount, out |-> 0, sqrtP |-> pool.sqrtP,
           tick |-> pool.tick, liquidity |-> pool.liquidity, crossed |-> 0]
  BY DEF Loop
<1>2. /\ pool.sqrtP \in Ratio[MinTick]..Ratio[MaxTick]
      /\ \/ pool.tick = TickAt(pool.sqrtP)
         \/ pool.tick = TickAt(pool.sqrtP) - 1 /\ pool.sqrtP = Ratio[pool.tick + 1]
      /\ pool.liquidity = LiquidityAt(pool.nets, pool.tick)
  BY PoolStates
<1>3. pool.sqrtP \in Positive /\ Ratio[MinTick] <= pool.sqrtP /\ pool.sqrtP <= Ratio[MaxTick]
  BY <1>2, RatioFacts DEF Positive
<1>4. /\ TickAt(pool.sqrtP) \in Ticks /\ TickAt(pool.sqrtP) \in Int
      /\ Target(TickAt(pool.sqrtP)) <= pool.sqrtP /\ pool.sqrtP <= Target(TickAt(pool.sqrtP) + 1)
  BY <1>3, TickAtFacts
<1>5. /\ pool.tick \in Int
      /\ Target(pool.tick) <= pool.sqrtP /\ pool.sqrtP <= Target(pool.tick + 1)
  <2>1. CASE pool.tick = TickAt(pool.sqrtP)
    BY <1>4, <2>1
  <2>2. CASE pool.tick = TickAt(pool.sqrtP) - 1 /\ pool.sqrtP = Ratio[pool.tick + 1]
    <3>1. pool.tick \in Int /\ pool.tick + 1 = TickAt(pool.sqrtP)
      BY <1>4, <2>2
    <3>2. Target(pool.tick + 1) = pool.sqrtP
      BY <1>4, <2>2, <3>1, Targets
    <3>3. Target(pool.tick) <= Target(pool.tick + 1)
      BY <3>1, TargetsGrow
    <3> QED
      BY <1>3, <3>1, <3>2, <3>3 DEF Positive
  <2> QED
    BY <1>2, <2>1, <2>2
<1>6. pool.liquidity = Upto(pool.nets, pool.tick) /\ pool.liquidity \in Nat
  BY <1>2, <1>5, Liquidity
<1> QED
  BY <1>1, <1>3, <1>5, <1>6 DEF Agrees, SwapStates

\* A run stays one while the pool is the same.
LEMMA RunStays ==
    ASSUME pool' = pool, NEW r, NEW n, NEW down
    PROVE  Run(r, n, down)' <=> Run(r, n, down)
<1>1. ASSUME NEW i PROVE Agrees(r[i])' <=> Agrees(r[i])
  BY PoolStays
<1>2. ASSUME NEW i PROVE PoolMove(r[i], down)' = PoolMove(r[i], down)
  BY PoolStays
<1> QED
  BY <1>1, <1>2 DEF Run, Active

\* The invariant holds when the quote begins.
LEMMA V3Starts ==
    ASSUME V3Init
    PROVE  V3Inv
<1>1. /\ pool \in Pools
      /\ args \in [amountIn : Inputs, zeroForOne : BOOLEAN, fee : Fees(pool)]
      /\ swap = Loop("quoting", pool, args.amountIn)
      /\ quote = [out |-> 0, complete |-> FALSE]
      /\ paid = [out |-> 0, left |-> 0]
  BY DEF V3Init
<1>2. args \in [amountIn : Nat, zeroForOne : BOOLEAN, fee : 0..(FeeDen - 1)]
  <2>1. Inputs \subseteq Nat /\ Fees(pool) \subseteq 0..(FeeDen - 1)
    BY <1>1, Scales, PoolFacts DEF Fees
  <2> QED
    BY <1>1, <2>1
<1>3. Agrees(swap) /\ swap.phase = "quoting"
  BY <1>1, <1>2, LoopAgrees DEF Phases
<1>4. V3Types
  BY <1>1, <1>2, <1>3 DEF V3Types
<1>5. LoopFollows
  <2> DEFINE d == args.zeroForOne
             s == Loop("pool", pool, args.amountIn)
             r == [i \in {0} |-> s]
  <2>1. Agrees(s) /\ s.phase = "pool"
    BY <1>1, <1>2, LoopAgrees DEF Phases
  <2>2. Run(r, 0, d)
    BY <2>1, RunStarts
  <2>3. r[0] = s /\ s.out = swap.out /\ Covers(s, swap)
    BY <1>1, <1>2 DEF Loop, Covers
  <2> HIDE DEF r
  <2> QED
    BY <2>2, <2>3 DEF LoopFollows
<1>6. PoolFollows /\ QuoteIsPaid
  BY <1>3 DEF PoolFollows, QuoteIsPaid
<1> QED
  BY <1>4, <1>5, <1>6 DEF V3Inv

\* The loop returns, at no less than the pool's fee with a run of the pool ahead
\* that pays as much.
LEMMA ReturnKeeps ==
    ASSUME V3Inv, NEW out \in Nat, NEW complete \in BOOLEAN, Returns(out, complete),
           args.fee >= pool.fee =>
             \E n, r : /\ Run(r, n, args.zeroForOne)
                       /\ r[0] = Loop("pool", pool, args.amountIn)
                       /\ out <= r[n].out
                       /\ complete /\ args.fee = pool.fee =>
                            out = r[n].out /\ ~Active(r[n], args.zeroForOne)
    PROVE  V3Inv'
<1>1. /\ quote' = [out |-> out, complete |-> complete]
      /\ swap' = Loop("pool", pool, args.amountIn)
      /\ pool' = pool /\ args' = args /\ paid' = paid
  BY DEF Returns
<1>2. V3Types
  BY DEF V3Inv
<1>3. Agrees(swap') /\ swap'.phase = "pool"
  BY <1>1, <1>2, LoopAgrees DEF V3Types, Phases
<1>4. V3Types'
  BY <1>1, <1>2, <1>3 DEF V3Types, Agrees
<1>5. LoopFollows' /\ QuoteIsPaid'
  BY <1>3 DEF LoopFollows, QuoteIsPaid
<1>6. CASE args.fee >= pool.fee
  <2> DEFINE d == args.zeroForOne
  <2>1. PICK dd : dd = d
    OBVIOUS
  <2>2. PICK n, r : /\ Run(r, n, dd) /\ r[0] = Loop("pool", pool, args.amountIn)
                    /\ out <= r[n].out
                    /\ complete /\ args.fee = pool.fee => out = r[n].out /\ ~Active(r[n], dd)
    BY <1>6, <2>1
  <2>3. Run(r, n, dd)'
    BY <1>1, <2>2, RunStays
  <2>4. dd = args'.zeroForOne /\ r[0] = swap'
    BY <1>1, <2>1, <2>2
  <2>5. /\ quote'.out <= r[n].out
        /\ quote'.complete /\ args'.fee = pool'.fee =>
             quote'.out = r[n].out /\ ~Active(r[n], dd)
    BY <1>1, <2>2
  <2>6. PoolFollows'
    <3> HIDE DEF d
    <3> QED
      BY <2>3, <2>4, <2>5 DEF PoolFollows, Active
  <2> QED
    BY <1>4, <1>5, <2>6 DEF V3Inv
<1>7. CASE ~ (args.fee >= pool.fee)
  BY <1>1, <1>4, <1>5, <1>7 DEF V3Inv, PoolFollows
<1> QED
  BY <1>6, <1>7

\* What the invariant says of the loop.
LEMMA LoopRun ==
    ASSUME V3Inv, swap.phase = "quoting", args.fee >= pool.fee
    PROVE  \E n, r :
             /\ Run(r, n, args.zeroForOne)
             /\ r[0] = Loop("pool", pool, args.amountIn)
             /\ r[n].out = swap.out
             /\ \/ Covers(r[n], swap)
                \/ /\ r[n].sqrtP = Limit(args.zeroForOne)
                   /\ swap.sqrtP = Limit(args.zeroForOne) /\ swap.left > 0
  BY DEF V3Inv, LoopFollows

\* The last state of a run.
LEMMA LastOfRun ==
    ASSUME NEW r, NEW n, NEW down, Run(r, n, down)
    PROVE  Agrees(r[n]) /\ r[n].phase = "pool" /\ r[n].out \in Nat
<1>1. n \in Nat /\ \A i \in 0..n : Agrees(r[i]) /\ r[i].phase = "pool"
  BY DEF Run
<1>2. Agrees(r[n]) /\ r[n].phase = "pool"
  BY <1>1
<1> QED
  BY <1>2 DEF Agrees, SwapStates

\* The loop gives up with no more than it has: no quote, or its sum so far.
LEMMA GivingUpKeeps ==
    ASSUME V3Inv, swap.phase = "quoting", NEW out \in Nat, out <= swap.out, Returns(out, FALSE)
    PROVE  V3Inv'
<1>1. ASSUME args.fee >= pool.fee
      PROVE  \E n, r : /\ Run(r, n, args.zeroForOne)
                       /\ r[0] = Loop("pool", pool, args.amountIn)
                       /\ out <= r[n].out
  BY <1>1, LoopRun
<1> QED
  BY <1>1, ReturnKeeps

\* A missing word or tick ends the loop with no quote.
LEMMA ReadMissingKeeps ==
    ASSUME V3Inv, ReadMissing
    PROVE  V3Inv'
<1>1. swap.phase = "quoting" /\ Returns(0, FALSE)
  BY DEF ReadMissing, Quoting
<1>2. 0 <= swap.out
  BY DEF V3Inv, V3Types, Agrees, SwapStates
<1> QED
  BY <1>1, <1>2, GivingUpKeeps

\* The guard against a loop without effect ends it with what it has.
LEMMA NoProgressKeeps ==
    ASSUME V3Inv, NoProgress
    PROVE  V3Inv'
<1>1. swap.phase = "quoting" /\ Returns(swap.out, FALSE)
  BY DEF NoProgress, Quoting
<1>2. PICK out : out = swap.out
  OBVIOUS
<1>3. out \in Nat /\ out <= swap.out
  BY <1>2 DEF V3Inv, V3Types, Agrees, SwapStates
<1> QED
  BY <1>1, <1>2, <1>3, GivingUpKeeps

\* The loop has used its input: the pool stops where its run ends.
LEMMA ExhaustedKeeps ==
    ASSUME V3Inv, Exhausted
    PROVE  V3Inv'
<1>1. swap.phase = "quoting" /\ swap.left <= 0 /\ Returns(swap.out, TRUE)
  BY DEF Exhausted
<1>2. swap.out \in Nat /\ swap.left \in Nat
  BY DEF V3Inv, V3Types, Agrees, SwapStates
<1>3. ASSUME args.fee >= pool.fee
      PROVE  \E n, r : /\ Run(r, n, args.zeroForOne)
                       /\ r[0] = Loop("pool", pool, args.amountIn)
                       /\ swap.out <= r[n].out
                       /\ args.fee = pool.fee =>
                            swap.out = r[n].out /\ ~Active(r[n], args.zeroForOne)
  <2>1. PICK n, r : /\ Run(r, n, args.zeroForOne)
                    /\ r[0] = Loop("pool", pool, args.amountIn)
                    /\ r[n].out = swap.out
                    /\ \/ Covers(r[n], swap)
                       \/ swap.left > 0
    BY <1>1, <1>3, LoopRun
  <2>2. args.fee = pool.fee => ~Active(r[n], args.zeroForOne)
    BY <1>1, <1>2, <2>1 DEF Covers, Active
  <2> QED
    BY <1>2, <2>1, <2>2
<1>4. PICK out : out = swap.out
  OBVIOUS
<1> QED
  BY <1>1, <1>2, <1>3, <1>4, ReturnKeeps

\* An iteration of the loop that does not reach its target ends the run by one
\* move.
LEMMA LastIteration ==
    ASSUME V3Inv, Quoting, args.fee >= pool.fee,
           ~At(swap, args.zeroForOne, args.fee).reachedTarget
    PROVE  LET s == Moved(swap, At(swap, args.zeroForOne, args.fee), args.zeroForOne)
           IN  \E n, r : /\ Run(r, n, args.zeroForOne)
                         /\ r[0] = Loop("pool", pool, args.amountIn)
                         /\ s.out <= r[n].out
                         /\ args.fee = pool.fee =>
                              s.out = r[n].out /\ ~Active(r[n], args.zeroForOne)
<1> DEFINE d == args.zeroForOne
           i == At(swap, d, args.fee)
           s == Moved(swap, i, d)
<1>1. /\ swap.phase = "quoting" /\ swap.left > 0
      /\ pool \in Pools /\ Agrees(swap) /\ d \in BOOLEAN /\ args.fee \in 0..(FeeDen - 1)
      /\ swap.left \in Nat /\ swap.out \in Nat
  BY DEF Quoting, V3Inv, V3Types, Agrees, SwapStates
<1>2. PICK n, r : /\ Run(r, n, d)
                  /\ r[0] = Loop("pool", pool, args.amountIn)
                  /\ \/ Covers(r[n], swap)
                     \/ swap.sqrtP = Limit(d)
  BY <1>1, LoopRun
<1>3. swap.sqrtP # Limit(d)
  BY <1>1, StepAtLimit
<1>4. Agrees(r[n]) /\ r[n].left \in Nat
  <2>1. Agrees(r[n])
    BY <1>2, LastOfRun
  <2> QED
    BY <2>1 DEF Agrees, SwapStates
<1>5. Covers(r[n], swap) /\ Active(r[n], d)
  BY <1>1, <1>2, <1>3, <1>4 DEF Covers, Active
<1> DEFINE j == Full(r[n], d)
           q == [k \in 0..(n + 1) |-> IF k = n + 1 THEN PoolMove(r[n], d) ELSE r[k]]
<1>6. i.step.amountOut <= j.step.amountOut /\ (args.fee = pool.fee => j = i)
  BY <1>1, <1>4, <1>5, CoversMoves
<1>7. Run(q, n + 1, d) /\ q[0] = r[0] /\ q[n + 1] = PoolMove(r[n], d)
  BY <1>1, <1>2, <1>5, RunGoesOn
<1>8. /\ ~j.reachedTarget => PoolMove(r[n], d).left = 0
      /\ PoolMove(r[n], d).out = r[n].out + j.step.amountOut
  BY <1>1, <1>4, MoveAgrees
<1>9. s.out = swap.out + i.step.amountOut /\ i.step.amountOut \in Nat
  BY <1>1, MovedFieldsAt, StepAt
<1>10. j.step.amountOut \in Nat
  BY <1>1, <1>4, Step
<1>11. ~i.reachedTarget
  OBVIOUS
<1> HIDE DEF q, s, i, j, d
<1>12. s.out <= q[n + 1].out
  BY <1>1, <1>5, <1>6, <1>7, <1>8, <1>9, <1>10 DEF Covers
<1>13. ASSUME args.fee = pool.fee
       PROVE  s.out = q[n + 1].out /\ ~Active(q[n + 1], d)
  <2>1. j = i
    BY <1>6, <1>13
  <2>2. ~j.reachedTarget
    BY <1>11, <2>1
  <2> QED
    BY <2>2, <1>5, <1>7, <1>8, <1>9, <2>1 DEF Covers, Active
<1> QED
  BY <1>2, <1>7, <1>12, <1>13 DEF s, i, d

\* One that reaches its target lengthens the run by one move, or goes on beyond a
\* run that has stopped.
LEMMA NextIteration ==
    ASSUME V3Inv, Quoting, args.fee >= pool.fee,
           At(swap, args.zeroForOne, args.fee).reachedTarget
    PROVE  LET d == args.zeroForOne
               s == Moved(swap, At(swap, d, args.fee), d)
           IN  \E m, q : /\ Run(q, m, d)
                         /\ q[0] = Loop("pool", pool, args.amountIn)
                         /\ q[m].out = s.out
                         /\ \/ Covers(q[m], s)
                            \/ q[m].sqrtP = Limit(d) /\ s.sqrtP = Limit(d) /\ s.left > 0
<1> DEFINE d == args.zeroForOne
           i == At(swap, d, args.fee)
           s == Moved(swap, i, d)
<1>1. /\ swap.phase = "quoting" /\ swap.left > 0
      /\ pool \in Pools /\ Agrees(swap) /\ d \in BOOLEAN /\ args.fee \in 0..(FeeDen - 1)
      /\ swap.left \in Nat /\ swap.out \in Nat
  BY DEF Quoting, V3Inv, V3Types, Agrees, SwapStates
<1>2. PICK n, r : /\ Run(r, n, d)
                  /\ r[0] = Loop("pool", pool, args.amountIn)
                  /\ r[n].out = swap.out
                  /\ \/ Covers(r[n], swap)
                     \/ r[n].sqrtP = Limit(d) /\ swap.sqrtP = Limit(d) /\ swap.left > 0
  BY <1>1, LoopRun
<1>3. CASE swap.sqrtP = Limit(d)
  <2>1. i.step.consumed = 0 /\ i.step.amountOut = 0 /\ i.step.sqrtNext = Limit(d)
    BY <1>1, <1>3, StepAtLimit
  <2>2. /\ s.left = swap.left - i.step.consumed
        /\ s.out = swap.out + i.step.amountOut /\ s.sqrtP = i.step.sqrtNext
    BY <1>1, MovedFieldsAt
  <2>3. s.left > 0 /\ s.out = swap.out /\ s.sqrtP = Limit(d)
    <3> HIDE DEF s, i
    <3> QED
      BY <1>1, <2>1, <2>2
  <2>4. r[n].sqrtP = Limit(d)
    BY <1>2, <1>3 DEF Covers
  <2> HIDE DEF s
  <2> QED
    BY <1>2, <2>3, <2>4 DEF s
<1>4. CASE swap.sqrtP # Limit(d)
  <2>1. Agrees(r[n]) /\ r[n].left \in Nat
    <3>1. Agrees(r[n])
      BY <1>2, LastOfRun
    <3> QED
      BY <3>1 DEF Agrees, SwapStates
  <2>2. Covers(r[n], swap) /\ Active(r[n], d)
    BY <1>1, <1>2, <1>4, <2>1 DEF Covers, Active
  <2> DEFINE q == [j \in 0..(n + 1) |-> IF j = n + 1 THEN PoolMove(r[n], d) ELSE r[j]]
  <2>3. Run(q, n + 1, d) /\ q[0] = r[0] /\ q[n + 1] = PoolMove(r[n], d)
    BY <1>1, <1>2, <2>2, RunGoesOn
  <2>4. Covers(PoolMove(r[n], d), s)
    BY <1>1, <2>1, <2>2, CoversMoves
  <2> HIDE DEF q, s
  <2>5. q[n + 1].out = s.out /\ Covers(q[n + 1], s)
    BY <2>3, <2>4 DEF Covers
  <2> QED
    BY <1>2, <2>3, <2>5 DEF s
<1> QED
  BY <1>3, <1>4

\* An iteration of the loop, at any fee.
LEMMA TraverseKeeps ==
    ASSUME V3Inv, Traverse
    PROVE  V3Inv'
<1> DEFINE d == args.zeroForOne
           i == At(swap, d, args.fee)
           s == Moved(swap, i, d)
<1>1. Quoting /\ swap.phase = "quoting" /\ ReadsSuffice
  BY DEF Traverse, Quoting
<1>2. /\ pool \in Pools /\ d \in BOOLEAN /\ args.fee \in 0..(FeeDen - 1) /\ Agrees(swap)
  BY DEF V3Inv, V3Types
<1>3. Next_.reachedTarget = i.reachedTarget /\ Moved(swap, Next_, d) = s
  BY <1>1, <1>2, ReadsShowThePool
<1>4. CASE ~i.reachedTarget
  <2>1. Returns(s.out, TRUE)
    BY <1>3, <1>4 DEF Traverse
  <2>2. s.out \in Nat
    <3>1. s.out = swap.out + i.step.amountOut /\ i.step.amountOut \in Nat
      BY <1>2, MovedFieldsAt, StepAt
    <3>2. swap.out \in Nat
      BY <1>2 DEF Agrees, SwapStates
    <3> HIDE DEF s, i
    <3> QED
      BY <3>1, <3>2
  <2>3. ASSUME args.fee >= pool.fee
        PROVE  \E n, r : /\ Run(r, n, args.zeroForOne)
                         /\ r[0] = Loop("pool", pool, args.amountIn)
                         /\ s.out <= r[n].out
                         /\ args.fee = pool.fee =>
                              s.out = r[n].out /\ ~Active(r[n], args.zeroForOne)
    BY <1>1, <1>4, <2>3, LastIteration
  <2>4. PICK out : out = s.out
    OBVIOUS
  <2> HIDE DEF s
  <2> QED
    BY <2>1, <2>2, <2>3, <2>4, ReturnKeeps
<1>5. CASE i.reachedTarget /\ s.crossed > MaxCross
  <2>1. Returns(0, FALSE)
    BY <1>3, <1>5 DEF Traverse
  <2>2. 0 <= swap.out
    BY <1>2 DEF Agrees, SwapStates
  <2> QED
    BY <1>1, <2>1, <2>2, GivingUpKeeps
<1>6. CASE i.reachedTarget /\ ~ (s.crossed > MaxCross)
  <2>1. Continues(s)
    BY <1>3, <1>6 DEF Traverse
  <2>2. /\ swap' = s /\ pool' = pool /\ args' = args /\ quote' = quote /\ paid' = paid
    BY <2>1 DEF Continues
  <2>3. Agrees(s) /\ s.phase = "quoting"
    BY <1>1, <1>2, <1>6, ReachedAgreesAt, MovedFieldsAt
  <2>4. V3Types'
    <3> HIDE DEF s
    <3> QED
      BY <2>2, <2>3 DEF V3Types, V3Inv, Agrees
  <2>5. LoopFollows'
    <3>1. CASE args.fee >= pool.fee
      <4>1. PICK m, q : /\ Run(q, m, d)
                        /\ q[0] = Loop("pool", pool, args.amountIn)
                        /\ q[m].out = s.out
                        /\ \/ Covers(q[m], s)
                           \/ q[m].sqrtP = Limit(d) /\ s.sqrtP = Limit(d) /\ s.left > 0
        BY <1>1, <1>6, <3>1, NextIteration
      <4>2. PICK dd : dd = d
        OBVIOUS
      <4> HIDE DEF s
      <4>3. Run(q, m, dd)'
        BY <2>2, <4>1, <4>2, RunStays
      <4>4. /\ dd = args'.zeroForOne
            /\ q[0] = Loop("pool", pool', args'.amountIn)
            /\ q[m].out = swap'.out
            /\ \/ Covers(q[m], swap')
               \/ q[m].sqrtP = Limit(dd) /\ swap'.sqrtP = Limit(dd) /\ swap'.left > 0
        BY <2>2, <4>1, <4>2
      <4> QED
        BY <2>2, <4>3, <4>4 DEF LoopFollows, Covers
    <3>2. CASE ~ (args.fee >= pool.fee)
      BY <2>2, <3>2 DEF LoopFollows
    <3> QED
      BY <3>1, <3>2
  <2>6. PoolFollows' /\ QuoteIsPaid'
    BY <2>2, <2>3 DEF PoolFollows, QuoteIsPaid
  <2> QED
    BY <2>4, <2>5, <2>6 DEF V3Inv
<1> QED
  BY <1>4, <1>5, <1>6

\* A step of the pool is a PoolMove().
LEMMA ExecutesMoves ==
    ASSUME NEW phase, NEW down, Executes(phase, down)
    PROVE  /\ swap.phase = phase /\ Active(swap, down)
           /\ swap' = PoolMove(swap, down)
           /\ pool' = pool /\ args' = args /\ quote' = quote /\ paid' = paid
  BY DEF Executes, Continues, PoolMove, Full, At, Active

\* A move of the pool consumes the first state of the run.
LEMMA PoolKeeps ==
    ASSUME V3Inv, Executes("pool", args.zeroForOne)
    PROVE  V3Inv'
<1> DEFINE d == args.zeroForOne
<1>1. /\ swap.phase = "pool" /\ Active(swap, d)
      /\ swap' = PoolMove(swap, d)
      /\ pool' = pool /\ args' = args /\ quote' = quote /\ paid' = paid
  BY ExecutesMoves
<1>2. /\ pool \in Pools /\ Agrees(swap)
      /\ d \in BOOLEAN /\ V3Types
  BY DEF V3Inv, V3Types
<1> DEFINE t == PoolMove(swap, d)
<1>3. Agrees(t) /\ t.phase = "pool" /\ t.out = swap.out + Full(swap, d).step.amountOut
  BY <1>1, <1>2, MoveAgrees
<1>4. t.out \in Nat /\ swap.out \in Nat /\ swap.out <= t.out
  <2>1. Full(swap, d).step.amountOut \in Nat
    BY <1>2, Step
  <2>2. swap.out \in Nat
    BY <1>2 DEF Agrees, SwapStates
  <2> QED
    BY <1>3, <2>1, <2>2
<1>5. V3Types'
  <2>1. swap' = t
    BY <1>1
  <2> HIDE DEF t
  <2> QED
    BY <1>1, <1>2, <1>3, <2>1 DEF V3Types, Agrees
<1>6. swap'.phase = "pool"
  BY <1>1, <1>3
<1>7. PoolFollows'
  <2>1. CASE args.fee >= pool.fee
    <3>1. PICK n, r : /\ Run(r, n, d) /\ r[0] = swap
                      /\ quote.out <= r[n].out
                      /\ quote.complete /\ args.fee = pool.fee => quote.out = r[n].out /\ ~Active(r[n], d)
      BY <1>1, <2>1 DEF V3Inv, PoolFollows
    <3>2. \E m, q : /\ Run(q, m, d) /\ q[0] = t
                    /\ quote.out <= q[m].out
                    /\ quote.complete /\ args.fee = pool.fee => quote.out = q[m].out /\ ~Active(q[m], d)
      <4>1. CASE n = 0
        <5>1. /\ quote.out \in Nat /\ quote.out <= swap.out
              /\ ~ (quote.complete /\ args.fee = pool.fee)
          BY <1>1, <1>2, <3>1, <4>1 DEF V3Types
        <5> DEFINE q == [i \in {0} |-> t]
        <5>2. Run(q, 0, d)
          BY <1>3, RunStarts
        <5>3. q[0] = t
          OBVIOUS
        <5> HIDE DEF q, t
        <5> QED
          BY <1>4, <5>1, <5>2, <5>3
      <4>2. CASE n # 0
        <5> DEFINE q == [i \in 0..(n - 1) |-> r[i + 1]]
        <5>1. Run(q, n - 1, d) /\ q[n - 1] = r[n] /\ q[0] = t
          <6>1. Run(r, n, d) /\ r[0] = swap
            BY <3>1
          <6> QED
            BY <4>2, <6>1, RunIsLeft
        <5> HIDE DEF q, t
        <5> QED
          BY <3>1, <5>1
      <4> QED
        BY <4>1, <4>2
    <3> HIDE DEF t
    <3>3. PICK m, q : /\ Run(q, m, d) /\ q[0] = t
                      /\ quote.out <= q[m].out
                      /\ quote.complete /\ args.fee = pool.fee => quote.out = q[m].out /\ ~Active(q[m], d)
      BY <3>2
    <3>4. PICK dd : dd = d
      OBVIOUS
    <3>5. Run(q, m, dd)'
      BY <1>1, <3>3, <3>4, RunStays
    <3>6. /\ dd = args'.zeroForOne /\ q[0] = swap'
          /\ quote'.out <= q[m].out
          /\ quote'.complete /\ args'.fee = pool'.fee => quote'.out = q[m].out /\ ~Active(q[m], dd)
      BY <1>1, <3>3, <3>4 DEF t
    <3> QED
      BY <3>5, <3>6 DEF PoolFollows, Active
  <2>2. CASE ~ (args.fee >= pool.fee)
    BY <1>1, <2>2 DEF PoolFollows
  <2> QED
    BY <2>1, <2>2
<1> QED
  BY <1>5, <1>6, <1>7 DEF V3Inv, LoopFollows, QuoteIsPaid

\* When the pool stops, the run has been consumed: it pays the quote.
LEMMA PaysKeeps ==
    ASSUME V3Inv, Pays
    PROVE  V3Inv'
<1> DEFINE d == args.zeroForOne
<1>1. /\ swap.phase = "pool" /\ (swap.left <= 0 \/ swap.sqrtP = Limit(d))
      /\ paid' = [out |-> swap.out, left |-> swap.left]
      /\ swap' = Loop("back", swap, swap.out)
      /\ pool' = pool /\ args' = args /\ quote' = quote
  BY DEF Pays, Executed
<1>2. V3Types /\ Agrees(swap)
  BY DEF V3Inv, V3Types
<1>3. swap \in SwapStates /\ swap.left \in Nat /\ swap.out \in Nat
  BY <1>2 DEF Agrees, SwapStates
<1>4. ASSUME args.fee >= pool.fee
      PROVE  /\ quote.out <= swap.out
             /\ quote.complete /\ args.fee = pool.fee => quote.out = swap.out
  <2>1. PICK n, r : /\ Run(r, n, d) /\ r[0] = swap
                    /\ quote.out <= r[n].out
                    /\ quote.complete /\ args.fee = pool.fee => quote.out = r[n].out
    BY <1>1, <1>4 DEF V3Inv, PoolFollows
  <2>2. n = 0
    <3> SUFFICES ASSUME n # 0 PROVE FALSE
      OBVIOUS
    <3>1. Run(r, n, d)
      BY <2>1
    <3>2. Active(r[0], d)
      BY <3>1, RunIsLeft
    <3> QED
      BY <1>1, <1>3, <2>1, <3>2 DEF Active
  <2> QED
    BY <2>1, <2>2
<1>5. swap' = [phase |-> "back", left |-> swap.out, out |-> 0, sqrtP |-> swap.sqrtP,
               tick |-> swap.tick, liquidity |-> swap.liquidity, crossed |-> 0]
  BY <1>1 DEF Loop
<1>6. Agrees(swap')
  BY <1>2, <1>3, <1>5 DEF Agrees, SwapStates, Phases
<1>7. V3Types'
  BY <1>1, <1>2, <1>3, <1>5, <1>6 DEF V3Types, Agrees
<1>8. QuoteIsPaid'
  BY <1>1, <1>4 DEF QuoteIsPaid
<1> QED
  BY <1>5, <1>7, <1>8 DEF V3Inv, LoopFollows, PoolFollows

\* Moves of the swap back leave the quote and its payment alone.
LEMMA BackKeeps ==
    ASSUME V3Inv, Executes("back", ~args.zeroForOne)
    PROVE  V3Inv'
<1> DEFINE d == ~args.zeroForOne
           t == PoolMove(swap, d)
<1>1. /\ swap.phase = "back" /\ swap' = t
      /\ pool' = pool /\ args' = args /\ quote' = quote /\ paid' = paid
  BY ExecutesMoves
<1>2. pool \in Pools /\ Agrees(swap) /\ d \in BOOLEAN /\ V3Types
  BY DEF V3Inv, V3Types
<1>3. Agrees(t) /\ t.phase = "back"
  BY <1>1, <1>2, MoveAgrees
<1> HIDE DEF t
<1>4. V3Types'
  BY <1>1, <1>2, <1>3 DEF V3Types, Agrees
<1>5. QuoteIsPaid'
  BY <1>1 DEF V3Inv, QuoteIsPaid
<1> QED
  BY <1>1, <1>3, <1>4, <1>5 DEF V3Inv, LoopFollows, PoolFollows

\* The end of the swap back.
LEMMA TakenBackKeeps ==
    ASSUME V3Inv, TakenBack
    PROVE  V3Inv'
<1>1. /\ swap.phase = "back" /\ swap' = [swap EXCEPT !.phase = "done"]
      /\ pool' = pool /\ args' = args /\ quote' = quote /\ paid' = paid
  BY DEF TakenBack, Executed, Continues
<1>2. V3Types /\ Agrees(swap) /\ swap \in SwapStates
  BY DEF V3Inv, V3Types, Agrees
<1>3. swap' \in SwapStates /\ swap'.phase = "done" /\ Agrees(swap')
  BY <1>1, <1>2 DEF Agrees, SwapStates, Phases
<1>4. V3Types'
  BY <1>1, <1>2, <1>3 DEF V3Types, Agrees
<1>5. QuoteIsPaid'
  BY <1>1 DEF V3Inv, QuoteIsPaid
<1> QED
  BY <1>3, <1>4, <1>5 DEF V3Inv, LoopFollows, PoolFollows

\* Every step of the quote and of the pool keeps the invariant.
LEMMA V3StepKeeps ==
    ASSUME V3Inv, V3Next
    PROVE  V3Inv'
  BY ReadMissingKeeps, NoProgressKeeps, TraverseKeeps, ExhaustedKeeps, PoolKeeps, PaysKeeps,
     BackKeeps, TakenBackKeeps DEF V3Next

-----------------------------------------------------------------------------
(* The gates.                                                                *)

\* The two minimums differ by what two roundings of one number can differ.
LEMMA MinimumsFromOneTolerance ==
    ASSUME NEW q \in Nat
    PROVE  /\ computeMinOut(q, SlippageBps) \in Nat
           /\ margin(q) \in Nat
           /\ computeMinOut(q, SlippageBps) <= q - margin(q)
           /\ q - margin(q) <= computeMinOut(q, SlippageBps) + 1
<1> DEFINE m == margin(q)
           o == computeMinOut(q, SlippageBps)
           x == q * SlippageBps
           y == q * (BPS - SlippageBps)
<1>1. x \in Nat /\ y \in Nat /\ x + y = q * BPS
  BY Denominator, BpsRange
<1>2. m \in Nat /\ m * BPS <= x /\ x < m * BPS + BPS
  BY <1>1, Floor, Denominator DEF margin
<1>3. o \in Nat /\ o * BPS <= y /\ y < o * BPS + BPS
  BY <1>1, Floor, Denominator DEF computeMinOut
<1>4. (m + o) * BPS <= q * BPS
  <2>1. (m + o) * BPS = m * BPS + o * BPS
    BY <1>2, <1>3, Denominator
  <2> QED
    BY <2>1, <1>1, <1>2, <1>3, Denominator
<1>5. q * BPS < (m + o + 2) * BPS
  <2>1. (m + o + 2) * BPS = m * BPS + o * BPS + 2 * BPS
    BY <1>2, <1>3, Denominator
  <2> QED
    BY <2>1, <1>1, <1>2, <1>3, Denominator
<1>6. m + o <= q /\ q < m + o + 2
  <2>1. m + o \in Int /\ m + o + 2 \in Int /\ q \in Int
    BY <1>2, <1>3
  <2> QED
    BY <2>1, <1>4, <1>5, Cancel, Denominator
<1> HIDE DEF m, o
<1>7. o <= q - m /\ q - m <= o + 1
  BY <1>2, <1>3, <1>6
<1> QED
  BY <1>2, <1>3, <1>7 DEF m, o

\* What the contract pays for a loan beyond the bot's flashFee: nothing less,
\* and little more.
LEMMA LoanFee ==
    ASSUME NEW b \in Nat
    PROVE  /\ flashFee(b) \in Nat /\ owed(b) \in Nat
           /\ feeGap(b) \in Nat /\ owed(b) = b + flashFee(b) + feeGap(b)
           /\ (feeGap(b) - 2) * (BPS * (BPS - FlashFeeBps)) < b * (FlashFeeBps * FlashFeeBps)
<1> DEFINE D == BPS
           F == FlashFeeBps
           g == BPS - FlashFeeBps
           f == flashFee(b)
           o == owed(b)
<1>1. D \in Nat \ {0} /\ F \in Nat /\ g \in Nat \ {0} /\ F + g = D
  BY Denominator, BpsRange
<1>2. b * F \in Nat /\ b * D \in Nat /\ D * g \in Nat \ {0} /\ F * F \in Nat /\ b * (F * F) \in Nat
  <2> HIDE DEF D, F, g
  <2> QED
    BY <1>1
<1>3. f \in Nat /\ f * D <= b * F /\ b * F < (f + 1) * D
  <2>1. f \in Nat /\ f * D <= b * F /\ b * F < f * D + D
    BY <1>1, <1>2, Floor DEF flashFee
  <2> HIDE DEF f, D, F
  <2> QED
    BY <1>1, <2>1
<1>4. o \in Nat /\ b * D <= o * g /\ (o - 1) * g < b * D
  <2>1. o \in Nat /\ b * D <= o * g /\ (b * D > 0 => (o - 1) * g < b * D)
    BY <1>1, <1>2, Ceiling DEF owed
  <2>2. b * D = 0 => o = 0
    BY DEF owed, ceilDiv
  <2> HIDE DEF o, D, g
  <2> QED
    BY <1>1, <1>2, <2>1, <2>2
<1> HIDE DEF D, F, g, f, o
<1>5. /\ b * (D * D) = b * (F * F) + (b * D) * g + (b * F) * g
      /\ (b * D) * D = b * (D * D)
  <2>1. D * D = F * F + D * g + F * g
    BY <1>1
  <2>2. b * (F * F + D * g + F * g) = b * (F * F) + (b * D) * g + (b * F) * g
    BY <1>1
  <2> QED
    BY <1>1, <2>1, <2>2
<1>6. b + f <= o
  <2>1. (b + f) * (D * g) = (b * D) * g + (f * D) * g
    BY <1>1, <1>3
  <2>2. (f * D) * g <= (b * F) * g
    BY <1>1, <1>2, <1>3
  <2>3. (b * D) * D <= (o * g) * D
    BY <1>1, <1>2, <1>4
  <2>4. (o * g) * D = o * (D * g)
    BY <1>1, <1>4
  <2>5. (b + f) * (D * g) <= o * (D * g)
    <3>1. /\ (b * D) * g \in Int /\ (b * F) * g \in Int /\ (f * D) * g \in Int
          /\ (b * D) * D \in Int /\ o * (D * g) \in Int
      BY <1>1, <1>2, <1>3, <1>4
    <3> QED
      BY <1>2, <1>5, <2>1, <2>2, <2>3, <2>4, <3>1
  <2> QED
    BY <1>2, <1>3, <1>4, <2>5, Cancel
<1>7. (o - b - f - 2) * (D * g) < b * (F * F)
  <2>1. (o - b - f - 2) * (D * g) = ((o - 1) * g) * D - (b * D) * g - ((f + 1) * D) * g
    <3>1. o - b - f - 2 = (o - 1) - b - (f + 1)
      BY <1>3, <1>4
    <3>2. ((o - 1) - b - (f + 1)) * (D * g)
            = (o - 1) * (D * g) - b * (D * g) - (f + 1) * (D * g)
      BY <1>2, <1>3, <1>4
    <3>3. (o - 1) * (D * g) = ((o - 1) * g) * D
      BY <1>1, <1>4
    <3>4. b * (D * g) = (b * D) * g
      BY <1>1
    <3>5. (f + 1) * (D * g) = ((f + 1) * D) * g
      BY <1>1, <1>3
    <3> QED
      BY <3>1, <3>2, <3>3, <3>4, <3>5
  <2>2. ((o - 1) * g) * D < (b * D) * D
    <3>1. (o - 1) * g \in Int
      BY <1>1, <1>4
    <3> QED
      BY <1>1, <1>2, <1>4, <3>1, Cancel
  <2>3. (b * F) * g < ((f + 1) * D) * g
    <3>1. (f + 1) * D \in Int
      BY <1>1, <1>3
    <3> QED
      BY <1>1, <1>2, <1>3, <3>1, Cancel
  <2>4. /\ ((o - 1) * g) * D \in Int /\ (b * D) * D \in Int /\ (b * D) * g \in Int
        /\ (b * F) * g \in Int /\ ((f + 1) * D) * g \in Int
    BY <1>1, <1>2, <1>3, <1>4
  <2> QED
    BY <1>2, <1>5, <2>1, <2>2, <2>3, <2>4
<1>8. feeGap(b) = o - b - f
  BY DEF feeGap, o, f
<1> QED
  BY <1>3, <1>4, <1>6, <1>7, <1>8 DEF D, F, g, f, o

\* What the checks approve exceeds gas and reserve before any rounding.
LEMMA NothingLostInRounding ==
    ASSUME NEW net \in Int, NEW num \in Nat, NEW den \in Nat \ {0}, NEW costWei \in Nat,
           WorthIt(costWei, inBnb(net, <<num, den>>) - costWei)
    PROVE  BPS * (net * num - costWei * den) > costWei * (BPS + GasReserveBps) * den
<1> DEFINE n == inBnb(net, <<num, den>>)
           r == required(costWei)
           w == costWei * (BPS + GasReserveBps)
<1>1. net * num \in Int /\ w \in Nat
  BY Denominator, BpsRange
<1>2. n \in Int /\ n * den <= net * num
  BY <1>1, Floor DEF inBnb
<1>3. r \in Nat /\ w <= r * BPS
  BY <1>1, Ceiling, Denominator DEF required
<1>4. n - costWei > r
  BY DEF WorthIt
<1> HIDE DEF n, r, w
<1>5. (n - costWei) * BPS > w
  <2>1. r * BPS < (n - costWei) * BPS
    BY <1>2, <1>3, <1>4, Cancel, Denominator
  <2> QED
    BY <2>1, <1>1, <1>2, <1>3, Denominator
<1>6. w * den < ((n - costWei) * BPS) * den
  BY <1>1, <1>2, <1>5, Cancel, Denominator
<1>7. ((n - costWei) * BPS) * den = BPS * (n * den - costWei * den)
  BY <1>2, Denominator
<1>8. BPS * (n * den - costWei * den) <= BPS * (net * num - costWei * den)
  <2> DEFINE l == n * den - costWei * den
             g == net * num - costWei * den
  <2>1. l \in Int /\ g \in Int /\ l <= g
    BY <1>1, <1>2
  <2> HIDE DEF l, g
  <2>2. l * BPS <= g * BPS
    BY <2>1, Cancel, Denominator
  <2>3. BPS * l <= BPS * g
    BY <2>1, <2>2, Denominator
  <2> QED
    BY <2>3 DEF l, g
<1> QED
  BY <1>1, <1>2, <1>6, <1>7, <1>8, Denominator DEF w
-----------------------------------------------------------------------------
Requoted ==
    /\ requote.borrow \in Nat /\ requote.quoteRecv \in Nat
    /\ requote = finalRequote(requote.borrow, requote.quoteRecv)
    /\ pc \in {"value", "cost", "approved"} => requote.minProfit > 0

Costed ==
    pc = "approved" =>
        /\ cost.gasEstimate \in Nat \ {0}
        /\ cost.gasLimit = computeGasLimit(cost.gasEstimate)
        /\ cost.gasLimit <= MaxGasLimit
        /\ WorthIt(cost.costWei, inBnb(requote.net, price.bnb) - cost.costWei)

GatesInv == TypeOK /\ Requoted /\ Costed

\* The fields of a requote.
LEMMA RequoteTypes ==
    ASSUME NEW b \in Nat, NEW q \in Nat
    PROVE  /\ finalRequote(b, q) \in [borrow : Nat, quoteRecv : Nat, flashFee : Nat, net : Int,
                                     minProfit : Nat, minOutB : Nat]
           /\ finalRequote(b, q).borrow = b /\ finalRequote(b, q).quoteRecv = q
<1> DEFINE net == q - b - flashFee(b)
<1>1. flashFee(b) \in Nat
  BY Floor, Products, Denominator, BpsRange DEF flashFee
<1>2. margin(q) \in Nat /\ computeMinOut(q, SlippageBps) \in Nat
  BY MinimumsFromOneTolerance
<1>3. net \in Int
  BY <1>1
<1>4. minProfit(net, q) \in Nat
  BY <1>2, <1>3 DEF minProfit
<1> QED
  BY <1>1, <1>2, <1>3, <1>4 DEF finalRequote

\* The invariant of the gates holds before the first gate.
LEMMA GatesInit == Init => GatesInv
<1> SUFFICES ASSUME Init PROVE GatesInv
  OBVIOUS
<1>1. requote = finalRequote(0, 0)
  BY DEF Init, NoRequote
<1>2. TypeOK
  BY <1>1, RequoteTypes DEF Init, NoPrice, NoCost, TypeOK
<1>3. Requoted /\ Costed
  BY <1>1, RequoteTypes DEF Init, Requoted, Costed
<1> QED
  BY <1>2, <1>3 DEF GatesInv

\* A rejected trade keeps what was computed for it.
LEMMA RejectKeeps ==
    ASSUME GatesInv, Reject
    PROVE  GatesInv'
  BY DEF GatesInv, Reject, TypeOK, Requoted, Costed

\* The requote computes its two minimums from one output.
LEMMA RequoteKeeps ==
    ASSUME GatesInv, NEW b \in Nat, NEW q \in Nat, RequoteOf(b, q)
    PROVE  GatesInv'
<1>1. IF q = 0 THEN Reject
      ELSE /\ requote' = finalRequote(b, q)
           /\ pc' = "economics"
           /\ UNCHANGED <<price, cost>>
  BY DEF RequoteOf
<1>2. CASE q # 0
  <2>1. TypeOK'
    BY <1>1, <1>2, RequoteTypes DEF GatesInv, TypeOK
  <2>2. Requoted' /\ Costed'
    BY <1>1, <1>2, RequoteTypes DEF Requoted, Costed
  <2> QED
    BY <2>1, <2>2 DEF GatesInv
<1> QED
  BY <1>1, <1>2, RejectKeeps

\* The gates after the requote.
LEMMA GatesKeep ==
    ASSUME GatesInv, Economics \/ Value \/ Cost
    PROVE  GatesInv'
<1> USE DEF GatesInv
<1>1. CASE Economics
  <2>1. CASE requote.minProfit > 0 /\ pc' = "value" /\ UNCHANGED <<requote, price, cost>>
    BY <2>1 DEF TypeOK, Requoted, Costed
  <2> QED
    BY RejectKeeps, <1>1, <2>1 DEF Economics
<1>2. CASE Value
  <2>1. PICK p \in Prices, g \in GasPrices :
            \/ Reject
            \/ /\ price' = [bnb |-> p, gas |-> g]
               /\ pc = "value" /\ pc' = "cost"
               /\ UNCHANGED <<requote, cost>>
    BY <1>2, Zenon DEF Value
  <2>2. CASE /\ price' = [bnb |-> p, gas |-> g]
             /\ pc = "value" /\ pc' = "cost"
             /\ UNCHANGED <<requote, cost>>
    <3>1. TypeOK'
      BY <2>2, InputTypes DEF TypeOK
    <3>2. Requoted' /\ Costed'
      BY <2>2 DEF Requoted, Costed
    <3> QED
      BY <3>1, <3>2
  <2> QED
    BY RejectKeeps, <2>1, <2>2
<1>3. CASE Cost
  <2> DEFINE limit(e) == computeGasLimit(e)
             costWei(e) == limit(e) * price.gas
             Approve(e) ==
                /\ e > 0
                /\ limit(e) <= MaxGasLimit
                /\ WorthIt(costWei(e), inBnb(requote.net, price.bnb) - costWei(e))
                /\ cost' = [gasEstimate |-> e, gasLimit |-> limit(e), costWei |-> costWei(e)]
                /\ pc = "cost" /\ pc' = "approved"
                /\ UNCHANGED <<requote, price>>
  <2>1. PICK e \in GasEstimates : Reject \/ Approve(e)
    BY <1>3, Zenon DEF Cost
  <2>2. CASE Approve(e)
    <3>1. e \in Nat \ {0}
      BY <2>2, InputTypes
    <3>2. limit(e) \in Nat
      <4>1. e * (BPS + GasBufferBps) \in Nat
        BY <3>1, Denominator, BpsRange
      <4> QED
        BY <4>1, Ceiling, Denominator DEF computeGasLimit
    <3>3. costWei(e) \in Nat
      BY <3>2, Products DEF TypeOK
    <3> HIDE DEF limit, costWei
    <3>4. TypeOK'
      BY <2>2, <3>1, <3>2, <3>3 DEF TypeOK
    <3>5. Requoted'
      BY <2>2 DEF Requoted
    <3>6. Costed'
      BY <2>2, <3>1, <3>4 DEF Costed, limit
    <3> QED
      BY <3>4, <3>5, <3>6
  <2> QED
    BY RejectKeeps, <2>1, <2>2
<1> QED
  BY <1>1, <1>2, <1>3

\* A step elsewhere leaves the gates alone.
LEMMA GatesStay ==
    ASSUME GatesInv, UNCHANGED vars
    PROVE  GatesInv'
  BY DEF GatesInv, vars, TypeOK, Requoted, Costed
-----------------------------------------------------------------------------
(* The trade.                                                                *)

\* A requote of a V3 pool at no less than its fee promises no more than it pays.
RequoteIsPaid ==
    /\ paid.out \in Nat
    /\ /\ swap.phase = "quoted" /\ pc \in {"economics", "value", "cost", "approved"}
       /\ args.fee >= pool.fee
       => requote.quoteRecv <= paid.out

TradeInv ==
    /\ GatesInv
    /\ swap.phase \notin {"none", "quoted"} => V3Inv
    /\ RequoteIsPaid

\* A step of the gates leaves the quote and the pool alone.
LEMMA V3Stays ==
    ASSUME UNCHANGED v3vars
    PROVE  V3Inv' <=> V3Inv
<1>1. /\ pool' = pool /\ known' = known /\ args' = args /\ swap' = swap
      /\ quote' = quote /\ paid' = paid
  BY DEF v3vars
<1>2. V3Types' <=> V3Types
  BY <1>1 DEF V3Types, Agrees
<1>3. ASSUME NEW r, NEW n, NEW d PROVE Run(r, n, d)' <=> Run(r, n, d)
  BY <1>1, RunStays
<1>4. LoopFollows' <=> LoopFollows
  BY <1>1, <1>3 DEF LoopFollows, Covers
<1>5. PoolFollows' <=> PoolFollows
  BY <1>1, <1>3 DEF PoolFollows, Active
<1>6. QuoteIsPaid' <=> QuoteIsPaid
  BY <1>1 DEF QuoteIsPaid
<1> QED
  BY <1>2, <1>4, <1>5, <1>6 DEF V3Inv

\* The invariant of the trade holds initially.
LEMMA TradeStarts == TradeInit => TradeInv
<1> SUFFICES ASSUME TradeInit PROVE TradeInv
  OBVIOUS
<1>1. GatesInv /\ pc = "requote"
  BY GatesInit DEF TradeInit, Init
<1>2. CASE V3Init
  <2>1. V3Inv
    BY <1>2, V3Starts
  <2>2. paid.out \in Nat
    BY <2>1 DEF V3Inv, V3Types
  <2> QED
    BY <1>1, <2>1, <2>2 DEF TradeInv, RequoteIsPaid
<1>3. CASE swap = Loop("none", NoPool, 0) /\ paid = [out |-> 0, left |-> 0]
  BY <1>1, <1>3 DEF TradeInv, RequoteIsPaid, Loop
<1> QED
  BY <1>2, <1>3 DEF TradeInit

\* Every step of the trade keeps its invariant.
LEMMA TradeStep == TradeInv /\ [TradeNext]_tradeVars => TradeInv'
<1> SUFFICES ASSUME TradeInv, [TradeNext]_tradeVars PROVE TradeInv'
  OBVIOUS
<1>0. GatesInv /\ RequoteIsPaid /\ (swap.phase \notin {"none", "quoted"} => V3Inv)
  BY DEF TradeInv
<1>1. CASE QuoteV3
  <2>1. V3Next /\ UNCHANGED vars
    BY <1>1 DEF QuoteV3
  <2>2. swap.phase \in {"quoting", "pool", "back"}
    BY <2>1 DEF V3Next, ReadMissing, NoProgress, Traverse, Exhausted, Executes, Pays,
                TakenBack, Executed, Quoting
  <2>3. V3Inv'
    BY <1>0, <2>1, <2>2, V3StepKeeps
  <2>4. paid'.out \in Nat /\ swap'.phase # "quoted"
    BY <2>3 DEF V3Inv, V3Types
  <2> QED
    BY <1>0, <2>1, <2>3, <2>4, GatesStay DEF TradeInv, RequoteIsPaid
<1>2. CASE RequoteV3
  <2>1. PICK b \in Amounts \ {0} : RequoteOf(b, quote.out)
    BY <1>2 DEF RequoteV3
  <2>2. /\ swap.phase = "done" /\ swap' = Loop("quoted", NoPool, 0) /\ paid' = paid
        /\ pool'.fee = pool.fee /\ args'.fee = args.fee
    BY <1>2 DEF RequoteV3, ForgetPool, NoPool, NoArgs
  <2>3. V3Inv
    BY <1>0, <2>2
  <2>4. quote.out \in Nat /\ (args.fee >= pool.fee => quote.out <= paid.out)
    BY <2>2, <2>3 DEF V3Inv, V3Types, QuoteIsPaid
  <2>5. b \in Nat
    BY InputTypes
  <2>6. GatesInv'
    <3>1. PICK q : q = quote.out
      OBVIOUS
    <3> QED
      BY <1>0, <2>1, <2>4, <2>5, <3>1, RequoteKeeps
  <2>7. pc' = "rejected" \/ requote' = finalRequote(b, quote.out)
    BY <2>1 DEF RequoteOf, Reject
  <2>8. RequoteIsPaid'
    <3>1. pc' = "rejected" \/ requote'.quoteRecv = quote.out
      <4>1. PICK q : q = quote.out
        OBVIOUS
      <4>2. finalRequote(b, q).quoteRecv = q
        BY <2>4, <2>5, <4>1, RequoteTypes
      <4> QED
        BY <2>7, <4>1, <4>2
    <3>2. paid'.out \in Nat
      BY <1>0, <2>2 DEF RequoteIsPaid
    <3> QED
      BY <2>2, <2>4, <3>1, <3>2 DEF RequoteIsPaid
  <2>9. swap'.phase = "quoted"
    BY <2>2 DEF Loop
  <2> QED
    BY <2>6, <2>8, <2>9 DEF TradeInv
<1>3. CASE RequoteOther
  <2>1. swap.phase = "none" /\ swap' = swap /\ paid' = paid
    BY <1>3 DEF RequoteOther, v3vars
  <2>2. PICK b \in Amounts \ {0}, q \in Amounts : RequoteOf(b, q)
    BY <1>3 DEF RequoteOther, Requote
  <2>3. GatesInv'
    <3>1. b \in Nat /\ q \in Nat
      BY InputTypes
    <3> QED
      BY <1>0, <2>2, <3>1, RequoteKeeps
  <2> QED
    BY <1>0, <2>1, <2>3 DEF TradeInv, RequoteIsPaid
<1>4. CASE Gates
  <2>1. (Economics \/ Value \/ Cost) /\ UNCHANGED v3vars
    BY <1>4 DEF Gates
  <2>2. GatesInv'
    BY <1>0, <2>1, GatesKeep
  <2>3. requote' = requote /\ pc \in {"economics", "value", "cost"}
    BY <2>1 DEF Economics, Value, Cost, Reject
  <2>4. V3Inv' <=> V3Inv
    BY <2>1, V3Stays
  <2> QED
    BY <1>0, <2>1, <2>2, <2>3, <2>4 DEF TradeInv, RequoteIsPaid, v3vars
<1>5. CASE UNCHANGED tradeVars
  <2>1. UNCHANGED vars /\ UNCHANGED v3vars
    BY <1>5 DEF tradeVars
  <2>2. pc' = pc /\ requote' = requote
    BY <2>1 DEF vars
  <2>4. V3Inv' <=> V3Inv
    BY <2>1, V3Stays
  <2> QED
    BY <1>0, <2>1, <2>2, <2>4, GatesStay DEF TradeInv, RequoteIsPaid, v3vars
<1> QED
  BY <1>1, <1>2, <1>3, <1>4, <1>5 DEF TradeNext

\* The invariant of the trade.
LEMMA TradeInvariant == TradeSpec => []TradeInv
  BY TradeStarts, TradeStep, PTL DEF TradeSpec

\* Every variable of the gates keeps its type.
THEOREM GateTypes == TradeSpec => []TypeOK
  BY TradeInvariant, PTL DEF TradeInv, GatesInv

\* What a trade that passed the gates promised: its minimum profit takes one
\* margin off the quote.
LEMMA Promised ==
    ASSUME GatesInv, pc \in {"value", "cost", "approved"}
    PROVE  LET b == requote.borrow
               q == requote.quoteRecv
           IN  /\ b \in Nat /\ q \in Nat /\ requote.minProfit \in Nat
               /\ requote.minOutB = computeMinOut(q, SlippageBps)
               /\ b + flashFee(b) + requote.minProfit = q - margin(q)
<1> DEFINE b == requote.borrow
           q == requote.quoteRecv
           net == q - b - flashFee(b)
<1>1. b \in Nat /\ q \in Nat /\ requote = finalRequote(b, q) /\ requote.minProfit > 0
  BY DEF GatesInv, Requoted
<1>2. flashFee(b) \in Nat /\ margin(q) \in Nat /\ net \in Int
  BY <1>1, LoanFee, MinimumsFromOneTolerance
<1>3. requote.minProfit = minProfit(net, q) /\ requote.minOutB = computeMinOut(q, SlippageBps)
  BY <1>1 DEF finalRequote
<1>4. minProfit(net, q) = net - margin(q)
  BY <1>1, <1>3 DEF minProfit
<1>5. requote.minProfit \in Nat
  BY DEF GatesInv, TypeOK
<1> HIDE DEF b, q
<1> QED
  BY <1>1, <1>2, <1>3, <1>4, <1>5 DEF b, q

\* For any tolerance, loan fee and amounts, the contract's profit check, with its
\* own rounding of the loan's fee, asks for the minOutB of the requote, which the
\* contract enforces on V2 routers alone, and for little more.
THEOREM ProfitCheckIsEnough == TradeSpec => []ProfitCheckSuffices
<1>1. GatesInv => ProfitCheckSuffices
  <2> DEFINE b == requote.borrow
             q == requote.quoteRecv
             m == requote.minOutB
             least == owed(b) + requote.minProfit
             k == BPS * (BPS - FlashFeeBps)
             bound == b * (FlashFeeBps * FlashFeeBps)
  <2> SUFFICES ASSUME GatesInv, pc \in {"value", "cost", "approved"}
               PROVE  m <= least /\ (least - m - 3) * k < bound
    BY DEF ProfitCheckSuffices
  <2>1. /\ b \in Nat /\ q \in Nat /\ requote.minProfit \in Nat
        /\ m = computeMinOut(q, SlippageBps)
        /\ b + flashFee(b) + requote.minProfit = q - margin(q)
    BY Promised
  <2>2. /\ flashFee(b) \in Nat /\ owed(b) \in Nat /\ feeGap(b) \in Nat
        /\ owed(b) = b + flashFee(b) + feeGap(b)
        /\ (feeGap(b) - 2) * k < bound
    BY <2>1, LoanFee
  <2>3. m \in Nat /\ margin(q) \in Nat /\ m <= q - margin(q) /\ q - margin(q) <= m + 1
    BY <2>1, MinimumsFromOneTolerance
  <2>4. k \in Nat \ {0} /\ bound \in Nat
    <3>1. /\ BPS \in Nat \ {0} /\ BPS - FlashFeeBps \in Nat \ {0} /\ FlashFeeBps \in Nat
      BY Denominator, BpsRange
    <3>2. BPS * (BPS - FlashFeeBps) \in Nat \ {0}
      BY <3>1
    <3>3. FlashFeeBps * FlashFeeBps \in Nat
      BY <3>1, Products
    <3> QED
      BY <2>1, <3>2, <3>3, Products
  <2> HIDE DEF b, q, m, k, bound
  <2>5. least = feeGap(b) + (q - margin(q))
    BY <2>1, <2>2
  <2> HIDE DEF least
  <2>6. m <= least /\ least - m - 3 <= feeGap(b) - 2 /\ least - m - 3 \in Int
    BY <2>1, <2>2, <2>3, <2>5
  <2>7. (least - m - 3) * k <= (feeGap(b) - 2) * k
    <3>1. PICK x, y : x = least - m - 3 /\ y = feeGap(b) - 2
      OBVIOUS
    <3>2. x \in Int /\ y \in Int /\ x <= y
      BY <2>2, <2>6, <3>1
    <3>3. x * k <= y * k
      BY <2>4, <3>2, Cancel
    <3> QED
      BY <3>1, <3>3
  <2>8. (least - m - 3) * k \in Int /\ (feeGap(b) - 2) * k \in Int
    BY <2>2, <2>4, <2>6
  <2> QED
    BY <2>2, <2>4, <2>6, <2>7, <2>8
<1> QED
  BY <1>1, TradeInvariant, PTL DEF TradeInv

\* The gas limit is the least one with the whole buffer, and under the ceiling.
THEOREM GasLimitHasItsBuffer == TradeSpec => []GasLimitIsTight
<1>1. GatesInv => GasLimitIsTight
  <2> SUFFICES ASSUME GatesInv, pc = "approved" PROVE GasLimitIsTight
    BY DEF GasLimitIsTight
  <2> DEFINE a == cost.gasEstimate * (BPS + GasBufferBps)
  <2>1. /\ cost.gasEstimate \in Nat \ {0}
        /\ cost.gasLimit = ceilDiv(a, BPS)
        /\ cost.gasLimit <= MaxGasLimit
    BY DEF GatesInv, Costed, computeGasLimit
  <2>2. a \in Nat /\ a > 0
    BY <2>1, Denominator, BpsRange
  <2> HIDE DEF a
  <2>3. a <= ceilDiv(a, BPS) * BPS /\ (ceilDiv(a, BPS) - 1) * BPS < a
    BY <2>2, Ceiling, Denominator
  <2> QED
    BY <2>1, <2>2, <2>3, Ceiling, Denominator DEF GasLimitIsTight, a
<1> QED
  BY <1>1, TradeInvariant, PTL DEF TradeInv

\* No rounding approves a trade that does not pay its worst gas and reserve.
THEOREM ApprovedTradesPay == TradeSpec => []ApprovedPays
<1>1. GatesInv => ApprovedPays
  <2> SUFFICES ASSUME GatesInv, pc = "approved"
               PROVE  BPS * (requote.net * price.bnb[1] - cost.costWei * price.bnb[2])
                        > cost.costWei * (BPS + GasReserveBps) * price.bnb[2]
    BY DEF ApprovedPays
  <2>1. /\ requote.net \in Int /\ cost.costWei \in Nat
        /\ price.bnb[1] \in Nat /\ price.bnb[2] \in Nat \ {0}
        /\ price.bnb = <<price.bnb[1], price.bnb[2]>>
    BY DEF GatesInv, TypeOK
  <2>2. WorthIt(cost.costWei, inBnb(requote.net, price.bnb) - cost.costWei)
    BY DEF GatesInv, Costed
  <2> QED
    BY <2>1, <2>2, NothingLostInRounding
<1> QED
  BY <1>1, TradeInvariant, PTL DEF TradeInv

\* Every variable of the quote and the pool keeps its type: no amount, price or
\* liquidity becomes negative, which uint256 would not hold.
THEOREM QuoteTypes == TradeSpec => [](swap.phase \notin {"none", "quoted"} => V3Types)
<1>1. TradeInv => (swap.phase \notin {"none", "quoted"} => V3Types)
  BY DEF TradeInv, V3Inv
<1> QED
  BY <1>1, TradeInvariant, PTL

\* For any pool, price table and scale, after every step of the loop and of the
\* pool the tick is that of the price, the liquidity that of the positions
\* there, and no more than the input has been taken.
THEOREM SwapStatesAgree == TradeSpec => []SwapStateAgrees
<1>1. TradeInv => SwapStateAgrees
  <2> SUFFICES ASSUME TradeInv, swap.phase \in {"quoting", "pool", "back"},
                      swap.tick \in MinTick..(MaxTick - 1)
               PROVE  /\ Ratio[swap.tick] <= swap.sqrtP /\ swap.sqrtP <= Ratio[swap.tick + 1]
                      /\ swap.liquidity = LiquidityAt(pool.nets, swap.tick)
                      /\ swap.left >= 0
    BY DEF SwapStateAgrees
  <2>1. pool \in Pools /\ Agrees(swap)
    BY DEF TradeInv, V3Inv, V3Types
  <2>2. swap.tick \in Int /\ swap.tick \in Ticks /\ swap.tick + 1 \in Ticks
    BY RatioFacts
  <2>3. Target(swap.tick) = Ratio[swap.tick] /\ Target(swap.tick + 1) = Ratio[swap.tick + 1]
    BY <2>2, Targets
  <2>4. swap.left \in Nat
    BY <2>1 DEF Agrees, SwapStates
  <2> QED
    BY <2>1, <2>2, <2>3, <2>4, Liquidity DEF Agrees
<1> QED
  BY <1>1, TradeInvariant, PTL

\* Taken at no less than the pool's fee, a quote is never more than the pool pays
\* for the same input, whatever could not be read; at the pool's own fee it is
\* exactly that when the loop used its input.
THEOREM QuotesArePaid == TradeSpec => []QuoteIsPaid
<1>1. TradeInv => QuoteIsPaid
  BY DEF TradeInv, V3Inv, QuoteIsPaid
<1> QED
  BY <1>1, TradeInvariant, PTL

\* A pool that was quoted at no less than its fee, and that nobody moved, pays enough for
\* the contract's profit check, once the slippage margin covers what the loan
\* costs beyond the bot's flashFee.
THEOREM UnmovedPoolsPassTheCheck == TradeSpec => []ProfitCheckPasses
<1>1. TradeInv => ProfitCheckPasses
  <2> DEFINE b == requote.borrow
             q == requote.quoteRecv
  <2> SUFFICES ASSUME TradeInv, swap.phase = "quoted", pc \in {"value", "cost", "approved"},
                      args.fee >= pool.fee, margin(q) >= feeGap(b)
               PROVE  paid.out - owed(b) >= requote.minProfit
    BY DEF ProfitCheckPasses
  <2>1. /\ b \in Nat /\ q \in Nat /\ requote.minProfit \in Nat
        /\ b + flashFee(b) + requote.minProfit = q - margin(q)
    BY Promised DEF TradeInv
  <2>2. /\ flashFee(b) \in Nat /\ owed(b) \in Nat /\ feeGap(b) \in Nat
        /\ owed(b) = b + flashFee(b) + feeGap(b)
    BY <2>1, LoanFee
  <2>3. margin(q) \in Nat
    BY <2>1, MinimumsFromOneTolerance
  <2>4. paid.out \in Nat /\ q <= paid.out
    BY DEF TradeInv, RequoteIsPaid
  <2> HIDE DEF b, q
  <2> QED
    BY <2>1, <2>2, <2>3, <2>4
<1> QED
  BY <1>1, TradeInvariant, PTL

-----------------------------------------------------------------------------
(* What a swap takes and gives, measured by what the positions hold.         *)

MinPrice == Ratio[MinTick]
MaxPrice == Ratio[MaxTick]
PriceRange == {p \in Positive : MinPrice <= p /\ p <= MaxPrice}

\* A multiple of all prices, so that their reciprocals are integers.
Multiples == {m \in Positive : \A p \in Positive : p <= MaxPrice =>
                                    \E q \in Positive : m = p * q}
Unit == CHOOSE m : m \in Multiples

\* Finitely many numbers have a common multiple.
LEMMA CommonMultiple ==
    ASSUME NEW n \in Nat
    PROVE  \E m \in Positive : \A p \in Positive : p <= n => \E q \in Positive : m = p * q
<1> DEFINE OK(k) == \E m \in Positive : \A p \in Positive : p <= k =>
                        \E q \in Positive : m = p * q
           T == {k \in Nat : ~OK(k)}
<1> SUFFICES ASSUME n \in T PROVE FALSE
  OBVIOUS
<1>1. PICK k \in T : \A j \in T : k <= j
  <2>1. T \in SUBSET Nat /\ T # {}
    OBVIOUS
  <2> HIDE DEF T
  <2> QED
    BY <2>1, LeastNatural
<1>2. k \in Nat /\ ~OK(k)
  OBVIOUS
<1>3. OK(0)
  <2>1. 1 \in Positive /\ \A p \in Positive : ~ (p <= 0)
    BY DEF Positive
  <2> QED
    BY <2>1
<1>4. k # 0
  <2> HIDE DEF OK
  <2> QED
    BY <1>2, <1>3
<1>5. k - 1 \in Nat /\ ~ (k <= k - 1)
  BY <1>2, <1>4
<1>6. OK(k - 1)
  <2> HIDE DEF OK
  <2> QED
    BY <1>1, <1>5
<1>7. PICK m \in Positive : \A p \in Positive : p <= k - 1 => \E q \in Positive : m = p * q
  BY <1>6
<1>8. m * k \in Positive /\ k \in Positive
  BY <1>2, <1>4 DEF Positive
<1>9. ASSUME NEW p \in Positive, p <= k PROVE \E q \in Positive : m * k = p * q
  <2>1. CASE p = k
    BY <1>8, <2>1 DEF Positive
  <2>2. CASE p # k
    <3>1. p <= k - 1
      BY <1>2, <1>9, <2>2 DEF Positive
    <3>2. PICK q \in Positive : m = p * q
      BY <1>7, <3>1
    <3>3. q * k \in Positive /\ m * k = p * (q * k)
      BY <1>8, <3>2 DEF Positive
    <3> QED
      BY <3>3
  <2> QED
    BY <2>1, <2>2
<1>10. OK(k)
  BY <1>8, <1>9
<1> QED
  BY <1>2, <1>10

\* The chosen unit is a multiple of every price.
LEMMA UnitDivides ==
    /\ Unit \in Positive
    /\ \A p \in Positive : p <= MaxPrice => /\ Unit \div p \in Positive
                                            /\ p * (Unit \div p) = Unit
<1>1. MaxPrice \in Nat
  BY RatioFacts DEF MaxPrice, Positive
<1>2. Unit \in Multiples
  <2>1. \E m : m \in Multiples
    BY <1>1, CommonMultiple DEF Multiples
  <2> QED
    BY <2>1 DEF Unit
<1>3. Unit \in Positive
  BY <1>2 DEF Multiples
<1>4. ASSUME NEW p \in Positive, p <= MaxPrice
      PROVE  Unit \div p \in Positive /\ p * (Unit \div p) = Unit
  <2>1. PICK q \in Positive : Unit = p * q
    BY <1>2, <1>4 DEF Multiples
  <2>2. (p * q) \div p = q
    BY <2>1, Compressing DEF Positive
  <2> QED
    BY <2>1, <2>2
<1> QED
  BY <1>3, <1>4

\* A price of one token in the other, scaled: token 1 by Q, token 0 by Q * Unit.
Priced(token) == [p \in PriceRange |-> IF token = 0 THEN Q * (Unit \div p) ELSE p]
\* The scales of amounts of the two tokens.
Scale(token) == IF token = 0 THEN Unit ELSE Q

\* Priced by token 1 a price is itself, by token 0 its scaled reciprocal.
LEMMA PricedFacts ==
    ASSUME NEW p \in PriceRange, NEW q \in PriceRange
    PROVE  /\ Priced(0)[p] = Q * (Unit \div p) /\ Priced(1)[p] = p
           /\ Priced(0)[p] \in Positive /\ Priced(1)[p] \in Positive
           /\ p * (Unit \div p) = Unit /\ Unit \div p \in Positive
           /\ p < q => Priced(0)[q] < Priced(0)[p]
<1>1. p \in Positive /\ p <= MaxPrice /\ q \in Positive /\ q <= MaxPrice
  BY DEF PriceRange
<1> DEFINE a == Unit \div p
           b == Unit \div q
<1>2. a \in Positive /\ b \in Positive /\ p * a = Unit /\ q * b = Unit
  BY <1>1, UnitDivides
<1>3. Priced(0)[p] = Q * a /\ Priced(1)[p] = p /\ Priced(0)[q] = Q * b
  BY DEF Priced
<1> HIDE DEF a, b
<1>4. Q * a \in Positive /\ Q \in Positive
  BY <1>2, ScalesArePositive DEF Positive
<1>5. ASSUME p < q PROVE Q * b < Q * a
  <2>1. b < a
    <3> SUFFICES ASSUME a <= b PROVE FALSE
      BY <1>2 DEF Positive
    <3>1. p * a < q * a
      BY <1>1, <1>2, <1>5 DEF Positive
    <3>2. q * a <= q * b
      BY <1>1, <1>2 DEF Positive
    <3> QED
      BY <1>1, <1>2, <3>1, <3>2 DEF Positive
  <2> QED
    BY <1>2, <1>4, <2>1 DEF Positive
<1> QED
  BY <1>1, <1>2, <1>3, <1>4, <1>5 DEF a

\* What positions of these nets hold of a token, up to a constant: liquidity L
\* at the price p, the ticks up to t being covered.
Weights(nets, g) == [u \in DOMAIN nets |-> nets[u] * g[Target(u)]]
Holding(nets, token, L, p, t) ==
    L * Priced(token)[p] - Upto(Weights(nets, Priced(token)), t)
Held(nets, token, s) == Holding(nets, token, s.liquidity, s.sqrtP, s.tick)

\* The targets are prices of the range.
LEMMA TargetInRange ==
    ASSUME NEW t \in Int
    PROVE  Target(t) \in PriceRange
  BY Targets DEF PriceRange, MinPrice, MaxPrice

\* Both ways of pricing give natural numbers.
LEMMA PricedIsNat ==
    ASSUME NEW token \in {0, 1}, NEW p \in PriceRange
    PROVE  Priced(token)[p] \in Nat
<1>1. Priced(0)[p] \in Nat /\ Priced(1)[p] \in Nat
  BY PricedFacts DEF Positive
<1> QED
  BY <1>1

\* The summands of a holding are integers.
LEMMA WeightsAreInts ==
    ASSUME pool \in Pools, NEW token \in {0, 1}
    PROVE  LET f == Weights(pool.nets, Priced(token))
           IN  /\ DOMAIN f = DOMAIN pool.nets /\ IsFiniteSet(DOMAIN f)
               /\ \A u \in DOMAIN f : u \in Int /\ f[u] \in Int
               /\ \A u \in DOMAIN f : f[u] = pool.nets[u] * Priced(token)[Target(u)]
<1> DEFINE f == Weights(pool.nets, Priced(token))
<1>1. /\ DOMAIN f = DOMAIN pool.nets
      /\ \A u \in DOMAIN f : f[u] = pool.nets[u] * Priced(token)[Target(u)]
  BY DEF Weights
<1>2. /\ IsFiniteSet(DOMAIN pool.nets)
      /\ \A u \in DOMAIN pool.nets : u \in Int /\ pool.nets[u] \in Int
  BY PoolFacts
<1> HIDE DEF f
<1>3. ASSUME NEW u \in DOMAIN f PROVE f[u] \in Int
  <2>1. Priced(token)[Target(u)] \in Nat /\ pool.nets[u] \in Int
    BY <1>1, <1>2, TargetInRange, PricedIsNat
  <2> QED
    BY <1>1, <2>1
<1> QED
  BY <1>1, <1>2, <1>3 DEF f

\* A holding is an integer.
LEMMA HoldingIsInt ==
    ASSUME pool \in Pools, NEW token \in {0, 1}, NEW L \in Nat, NEW p \in PriceRange, NEW t \in Int
    PROVE  Holding(pool.nets, token, L, p, t) \in Int
<1>1. Upto(Weights(pool.nets, Priced(token)), t) \in Int
  BY WeightsAreInts, UptoIsInt
<1>2. L * Priced(token)[p] \in Nat
  BY PricedIsNat, Products
<1> QED
  BY <1>1, <1>2 DEF Holding

\* Crossing a tick changes no holding.
LEMMA CrossingHolds ==
    ASSUME pool \in Pools, NEW token \in {0, 1}, NEW n \in Int, NEW L \in Int
    PROVE  LET net == IF n \in DOMAIN pool.nets THEN pool.nets[n] ELSE 0
           IN  Holding(pool.nets, token, L, Target(n), n - 1)
                 = Holding(pool.nets, token, L + net, Target(n), n)
<1> DEFINE f == Weights(pool.nets, Priced(token))
           net == IF n \in DOMAIN pool.nets THEN pool.nets[n] ELSE 0
           g == Priced(token)[Target(n)]
           w == IF n \in DOMAIN f THEN f[n] ELSE 0
<1>1. g \in Nat /\ net \in Int
  BY TargetInRange, PricedIsNat, PoolFacts
<1>2. w = net * g
  BY <1>1, WeightsAreInts
<1>3. Upto(f, n) = w + Upto(f, n - 1) /\ Upto(f, n - 1) \in Int
  BY WeightsAreInts, UptoStep, UptoIsInt
<1>4. /\ Holding(pool.nets, token, L, Target(n), n - 1) = L * g - Upto(f, n - 1)
      /\ Holding(pool.nets, token, L + net, Target(n), n) = (L + net) * g - Upto(f, n)
  BY DEF Holding
<1> HIDE DEF f, net, g, w
<1>5. (L + net) * g = L * g + net * g /\ L * g \in Int /\ net * g \in Int
  BY <1>1
<1> QED
  BY <1>1, <1>2, <1>3, <1>4, <1>5 DEF net

\* A step moves the holdings by the price alone.
LEMMA MoveHolds ==
    ASSUME pool \in Pools, NEW s, Agrees(s), NEW down \in BOOLEAN, NEW token \in {0, 1}
    PROVE  Held(pool.nets, token, PoolMove(s, down))
             = Holding(pool.nets, token, s.liquidity, Full(s, down).step.sqrtNext, s.tick)
<1> DEFINE i == Full(s, down)
           n == i.tickNext
           p == i.step.sqrtNext
           t == PoolMove(s, down)
           f == Weights(pool.nets, Priced(token))
           net == IF n \in DOMAIN pool.nets THEN pool.nets[n] ELSE 0
<1>1. /\ n \in Int
      /\ down => n <= s.tick /\ \A u \in DOMAIN pool.nets : u <= s.tick => u <= n
      /\ ~down => s.tick < n /\ \A u \in DOMAIN pool.nets : s.tick < u => n <= u
      /\ i.reachedTarget = (p = Target(n))
  BY Aim
<1>2. /\ s.tick \in Int /\ s.liquidity \in Nat
  BY DEF Agrees, SwapStates
<1>3. DOMAIN f = DOMAIN pool.nets /\ \A u \in DOMAIN f : u \in Int
  BY WeightsAreInts
<1>4. CASE ~i.reachedTarget
  <2>1. t.sqrtP = p /\ t.liquidity = s.liquidity /\ Under(t.tick) = Under(s.tick)
    BY <1>4, MoveAgrees
  <2> HIDE DEF t, f, p, i
  <2>2. Upto(f, t.tick) = Upto(f, s.tick)
    BY <1>3, <2>1 DEF Upto, Under
  <2> QED
    BY <2>1, <2>2 DEF Held, Holding, f, p, i, t
<1>5. CASE i.reachedTarget
  <2>1. t = Moved(s, i, down) /\ p = Target(n)
    BY <1>1, <1>5, MoveAgrees
  <2>2. /\ t.sqrtP = p
        /\ t.liquidity = (IF down THEN s.liquidity - net ELSE s.liquidity + net)
        /\ t.tick = (IF down THEN n - 1 ELSE n)
    BY <1>5, <2>1, MovedFields
  <2>3. net \in Int
    BY PoolFacts
  <2> HIDE DEF t, f, i, n, p, net
  <2>4. CASE down
    <3>1. t.tick = n - 1 /\ t.liquidity = s.liquidity - net /\ t.sqrtP = Target(n)
      BY <2>1, <2>2, <2>4
    <3>2. /\ s.liquidity - net \in Int /\ (s.liquidity - net) + net = s.liquidity
      BY <1>2, <2>3
    <3>3. Holding(pool.nets, token, s.liquidity - net, Target(n), n - 1)
            = Holding(pool.nets, token, s.liquidity, Target(n), n)
      BY <1>1, <3>2, CrossingHolds DEF net
    <3>4. Upto(f, n) = Upto(f, s.tick)
      <4>1. n <= s.tick /\ \A u \in DOMAIN f : u \in Int /\ ~ (n < u /\ u <= s.tick)
        BY <1>1, <1>2, <1>3, <2>4
      <4> QED
        BY <1>1, <1>2, <4>1, UptoSame
    <3> QED
      BY <2>1, <3>1, <3>3, <3>4 DEF Held, Holding, f, t, p, i
  <2>5. CASE ~down
    <3>1. t.tick = n /\ t.liquidity = s.liquidity + net /\ t.sqrtP = Target(n)
      BY <2>1, <2>2, <2>5
    <3>2. s.liquidity \in Int
      BY <1>2
    <3>3. Holding(pool.nets, token, s.liquidity, Target(n), n - 1)
            = Holding(pool.nets, token, s.liquidity + net, Target(n), n)
      BY <1>1, <3>2, CrossingHolds DEF net
    <3>4. Upto(f, s.tick) = Upto(f, n - 1)
      <4>1. s.tick <= n - 1 /\ n - 1 \in Int
            /\ \A u \in DOMAIN f : u \in Int /\ ~ (s.tick < u /\ u <= n - 1)
        BY <1>1, <1>2, <1>3, <2>5
      <4> QED
        BY <1>2, <4>1, UptoSame
    <3> QED
      BY <2>1, <3>1, <3>3, <3>4 DEF Held, Holding, f, t, p, i
  <2> QED
    BY <2>4, <2>5
<1> QED
  BY <1>4, <1>5

\* From products of prices to sums of their reciprocals.
LEMMA Reciprocals ==
    ASSUME NEW p \in Positive, NEW q \in Positive, NEW a \in Positive, NEW b \in Positive,
           NEW u \in Positive, p * a = u, q * b = u, NEW x \in Nat, NEW c \in Nat
    PROVE  /\ x * (p - q) <= (c * p) * q => x * (b - a) <= c * u
           /\ (c * p) * q <= x * (q - p) => c * u <= x * (a - b)
<1> DEFINE k == a * b
           d == p - q
           e == b - a
<1>1. k \in Positive /\ d \in Int /\ e \in Int /\ a - b = 0 - e /\ q - p = 0 - d
  BY DEF Positive
<1>2. d * k = u * e
  <2>1. d * k = (p * a) * b - (q * b) * a
    BY DEF Positive
  <2>2. u * e = u * b - u * a
    BY DEF Positive
  <2> QED
    BY <2>1, <2>2
<1>3. ((c * p) * q) * k = (c * u) * u
  <2>1. ((c * p) * q) * k = c * ((p * a) * (q * b))
    BY DEF Positive
  <2>2. c * (u * u) = (c * u) * u
    BY DEF Positive
  <2> QED
    BY <2>1, <2>2
<1> HIDE DEF k, d, e
<1>4. (x * d) * k = (x * e) * u
  <2>1. (x * d) * k = x * (d * k) /\ x * (u * e) = (x * e) * u
    BY <1>1 DEF Positive
  <2> QED
    BY <1>2, <2>1
<1>5. /\ x * d \in Int /\ x * e \in Int /\ c * u \in Int /\ (c * p) * q \in Int
  <2>1. c * p \in Nat /\ c * u \in Nat
    BY DEF Positive
  <2> QED
    BY <1>1, <2>1 DEF Positive
<1>6. x * (0 - d) = 0 - x * d /\ x * (0 - e) = 0 - x * e
  BY <1>1
<1>7. ASSUME x * d <= (c * p) * q PROVE x * e <= c * u
  <2>1. (x * d) * k <= ((c * p) * q) * k
    BY <1>1, <1>5, <1>7, Cancel DEF Positive
  <2>2. (x * e) * u <= (c * u) * u
    BY <1>3, <1>4, <2>1
  <2> QED
    BY <1>5, <2>2, Cancel DEF Positive
<1>8. ASSUME (c * p) * q <= 0 - x * d PROVE c * u <= 0 - x * e
  <2> DEFINE m == 0 - x * d
             w == 0 - x * e
  <2>1. m \in Int /\ w \in Int
    BY <1>5
  <2>2. m * k = 0 - (x * d) * k /\ w * u = 0 - (x * e) * u
    BY <1>1, <1>5 DEF Positive
  <2>3. ((c * p) * q) * k <= m * k
    <3> HIDE DEF m
    <3>1. (c * p) * q <= m
      BY <1>8 DEF m
    <3> QED
      BY <1>1, <1>5, <2>1, <3>1, Cancel DEF Positive
  <2> HIDE DEF m, w
  <2>4. (c * u) * u <= w * u
    BY <1>3, <1>4, <2>2, <2>3
  <2>5. c * u <= w
    BY <1>5, <2>1, <2>4, Cancel DEF Positive
  <2> QED
    BY <2>5 DEF w
<1>9. x * (b - a) = x * e /\ x * (p - q) = x * d
  BY DEF d, e
<1> QED
  BY <1>1, <1>6, <1>7, <1>8, <1>9

TokenIn(down) == IF down THEN 0 ELSE 1

\* Rounding: the pool takes at least what a step adds to its holding of the one
\* token, and gives at most what the step removes of the other.
LEMMA MovePays ==
    ASSUME pool \in Pools, NEW s, Agrees(s), NEW down \in BOOLEAN
    PROVE  LET t == PoolMove(s, down)
               in == TokenIn(down)
               out == TokenIn(~down)
           IN  /\ Held(pool.nets, in, t) - Held(pool.nets, in, s)
                    <= (s.left - t.left) * Scale(in)
               /\ (t.out - s.out) * Scale(out)
                    <= Held(pool.nets, out, s) - Held(pool.nets, out, t)
               /\ Held(pool.nets, in, t) \in Int /\ Held(pool.nets, out, t) \in Int
               /\ Held(pool.nets, in, s) \in Int /\ Held(pool.nets, out, s) \in Int
<1> DEFINE t == PoolMove(s, down)
           r == Full(s, down).step
           L == s.liquidity
           p == s.sqrtP
           q == r.sqrtNext
           c == r.consumed
           o == r.amountOut
           W(token) == Upto(Weights(pool.nets, Priced(token)), s.tick)
<1>1. L \in Nat /\ p \in Positive /\ s.tick \in Int /\ s.left \in Nat /\ s.out \in Nat
  BY DEF Agrees, SwapStates
<1>2. p \in PriceRange
  <2>1. /\ Target(s.tick) \in PriceRange /\ Target(s.tick + 1) \in PriceRange
        /\ Target(s.tick) <= p /\ p <= Target(s.tick + 1)
    BY <1>1, TargetInRange DEF Agrees
  <2> QED
    BY <1>1, <2>1, RatioFacts DEF PriceRange, MinPrice, MaxPrice, Positive
<1>3. q \in PriceRange
  <2>1. Agrees(t) /\ t.sqrtP = q
    BY MoveAgrees
  <2> HIDE DEF t
  <2>2. t.tick \in Int /\ t.sqrtP \in Positive
    BY <2>1 DEF Agrees, SwapStates
  <2>3. /\ Target(t.tick) \in PriceRange /\ Target(t.tick + 1) \in PriceRange
        /\ Target(t.tick) <= t.sqrtP /\ t.sqrtP <= Target(t.tick + 1)
    BY <2>1, <2>2, TargetInRange DEF Agrees
  <2>4. t.sqrtP \in PriceRange
    BY <2>2, <2>3, RatioFacts DEF PriceRange, MinPrice, MaxPrice, Positive
  <2> QED
    BY <2>1, <2>4
<1>4. /\ c \in Nat /\ o \in Nat
      /\ down => /\ (L * Q) * (p - q) <= (c * p) * q
                 /\ o * Q <= L * (p - q)
      /\ ~down => /\ L * (q - p) <= c * Q
                  /\ (o * p) * q <= (L * Q) * (q - p)
  BY Step
<1>5. s.left - t.left = c /\ t.out - s.out = o
  <2>1. t.left = s.left - c /\ t.out = s.out + o
    BY MoveAgrees
  <2> HIDE DEF t, c, o
  <2> QED
    BY <1>1, <1>4, <2>1
<1>6. ASSUME NEW token \in {0, 1}
      PROVE  /\ Held(pool.nets, token, s) = L * Priced(token)[p] - W(token)
             /\ Held(pool.nets, token, t) = L * Priced(token)[q] - W(token)
             /\ W(token) \in Int
             /\ Held(pool.nets, token, s) \in Int /\ Held(pool.nets, token, t) \in Int
  <2>1. Held(pool.nets, token, t) = Holding(pool.nets, token, L, q, s.tick)
    BY MoveHolds
  <2>2. Held(pool.nets, token, s) = Holding(pool.nets, token, L, p, s.tick)
    BY DEF Held
  <2>3. W(token) \in Int
    BY <1>1, WeightsAreInts, UptoIsInt
  <2>4. /\ Holding(pool.nets, token, L, q, s.tick) \in Int
        /\ Holding(pool.nets, token, L, p, s.tick) \in Int
    BY <1>1, <1>2, <1>3, HoldingIsInt
  <2> HIDE DEF t, L, p, q
  <2> QED
    BY <2>1, <2>2, <2>3, <2>4 DEF Holding
<1> HIDE DEF W, t
<1> DEFINE a == Unit \div p
           b == Unit \div q
<1>7. /\ Priced(0)[p] = Q * a /\ Priced(1)[p] = p /\ p * a = Unit /\ a \in Positive
      /\ Priced(0)[q] = Q * b /\ Priced(1)[q] = q /\ q * b = Unit /\ b \in Positive
      /\ p \in Positive /\ q \in Positive /\ Unit \in Positive /\ Q \in Positive
  BY <1>2, <1>3, PricedFacts, UnitDivides, ScalesArePositive DEF PriceRange
<1> HIDE DEF a, b, L, p, q, c, o, r
<1>8. /\ L * q - L * p = L * (q - p) /\ L * p - L * q = L * (p - q)
      /\ L * (Q * b) - L * (Q * a) = (L * Q) * (b - a)
      /\ L * (Q * a) - L * (Q * b) = (L * Q) * (a - b)
      /\ L * p \in Int /\ L * q \in Int /\ L * (Q * a) \in Int /\ L * (Q * b) \in Int
      /\ L * Q \in Nat
  <2>1. Q * a \in Nat /\ Q * b \in Nat
    BY <1>7, Products DEF Positive
  <2>2. /\ L * q - L * p = L * (q - p) /\ L * p - L * q = L * (p - q)
        /\ L * p \in Int /\ L * q \in Int
    BY <1>1, <1>7 DEF Positive
  <2>3. /\ L * (Q * b) = (L * Q) * b /\ L * (Q * a) = (L * Q) * a /\ L * Q \in Nat
    BY <1>1, <1>7 DEF Positive
  <2>4. /\ (L * Q) * (b - a) = (L * Q) * b - (L * Q) * a
        /\ (L * Q) * (a - b) = (L * Q) * a - (L * Q) * b
    BY <1>7, <2>3 DEF Positive
  <2> QED
    BY <1>1, <2>1, <2>2, <2>3, <2>4
<1>9. CASE down
  <2>1. (L * Q) * (b - a) <= c * Unit
    BY <1>4, <1>7, <1>8, <1>9, Reciprocals
  <2>2. Held(pool.nets, 0, t) - Held(pool.nets, 0, s) = (L * Q) * (b - a)
    <3>1. /\ Held(pool.nets, 0, s) = L * (Q * a) - W(0)
          /\ Held(pool.nets, 0, t) = L * (Q * b) - W(0) /\ W(0) \in Int
      BY <1>6, <1>7
    <3> QED
      BY <1>8, <3>1
  <2>3. Held(pool.nets, 1, s) - Held(pool.nets, 1, t) = L * (p - q)
    BY <1>6, <1>7, <1>8
  <2>4. Scale(0) = Unit /\ Scale(1) = Q
    BY DEF Scale
  <2>5. o * Q <= L * (p - q)
    BY <1>4, <1>9
  <2>6. TokenIn(down) = 0 /\ TokenIn(~down) = 1
    BY <1>9 DEF TokenIn
  <2> QED
    BY <1>5, <1>6, <2>1, <2>2, <2>3, <2>4, <2>5, <2>6 DEF t
<1>10. CASE ~down
  <2>1. o * Unit <= (L * Q) * (a - b)
    BY <1>4, <1>7, <1>8, <1>10, Reciprocals
  <2>2. Held(pool.nets, 0, s) - Held(pool.nets, 0, t) = (L * Q) * (a - b)
    BY <1>6, <1>7, <1>8
  <2>3. Held(pool.nets, 1, t) - Held(pool.nets, 1, s) = L * (q - p)
    BY <1>6, <1>7, <1>8
  <2>4. Scale(0) = Unit /\ Scale(1) = Q
    BY DEF Scale
  <2>5. L * (q - p) <= c * Q
    BY <1>4, <1>10
  <2>6. TokenIn(down) = 1 /\ TokenIn(~down) = 0
    BY <1>10 DEF TokenIn
  <2> QED
    BY <1>5, <1>6, <2>1, <2>2, <2>3, <2>4, <2>5, <2>6 DEF t
<1> QED
  BY <1>9, <1>10
-----------------------------------------------------------------------------
(* The two holdings move against each other.                                 *)

\* From a to b the pool has given token 0 and taken token 1, or both or neither.
Rises(a0, a1, b0, b1) == b0 <= a0 /\ a1 <= b1 /\ (a0 = b0 <=> a1 = b1)

\* Rises composes.
LEMMA RisesOn ==
    ASSUME NEW a0 \in Int, NEW a1 \in Int, NEW b0 \in Int, NEW b1 \in Int,
           NEW c0 \in Int, NEW c1 \in Int, Rises(a0, a1, b0, b1), Rises(b0, b1, c0, c1)
    PROVE  Rises(a0, a1, c0, c1)
  BY DEF Rises

Hold(token, L, p, t) == Holding(pool.nets, token, L, p, t)

\* Within a range of constant liquidity.
LEMMA RisesInRange ==
    ASSUME pool \in Pools, NEW L \in Nat, NEW p \in PriceRange, NEW q \in PriceRange, p <= q,
           NEW t \in Int
    PROVE  Rises(Hold(0, L, p, t), Hold(1, L, p, t),
                 Hold(0, L, q, t), Hold(1, L, q, t))
<1> DEFINE a == Priced(0)[p]
           b == Priced(0)[q]
           W(token) == Upto(Weights(pool.nets, Priced(token)), t)
<1>1. /\ a \in Nat /\ b \in Nat /\ p \in Nat /\ q \in Nat
      /\ p < q => b < a
      /\ Priced(1)[p] = p /\ Priced(1)[q] = q
  BY PricedFacts DEF Positive
<1>2. W(0) \in Int /\ W(1) \in Int
  BY WeightsAreInts, UptoIsInt
<1>3. /\ Hold(0, L, p, t) = L * a - W(0) /\ Hold(0, L, q, t) = L * b - W(0)
      /\ Hold(1, L, p, t) = L * p - W(1) /\ Hold(1, L, q, t) = L * q - W(1)
  BY <1>1 DEF Hold, Holding
<1>4. p = q => a = b
  OBVIOUS
<1> HIDE DEF a, b, W
<1>5. CASE p = q \/ L = 0
  <2>1. L * a = L * b /\ L * p = L * q
    BY <1>1, <1>4, <1>5
  <2>2. L * a \in Int /\ L * p \in Int
    BY <1>1
  <2> QED
    BY <1>2, <1>3, <2>1, <2>2 DEF Rises
<1>6. CASE p # q /\ L # 0
  <2>1. p < q /\ b < a /\ L > 0
    BY <1>1, <1>6
  <2>2. L * b < L * a /\ L * p < L * q
    BY <1>1, <2>1
  <2>3. L * a \in Int /\ L * p \in Int /\ L * b \in Int /\ L * q \in Int
    BY <1>1
  <2> QED
    BY <1>2, <1>3, <2>2, <2>3 DEF Rises
<1> QED
  BY <1>5, <1>6

\* The holdings at the price of a tick.
Edge(token, t) == Hold(token, Upto(pool.nets, t), Target(t), t)

\* The holdings at a tick, seen from the tick below.
LEMMA EdgeFacts ==
    ASSUME pool \in Pools, NEW t \in Int
    PROVE  /\ Edge(0, t) \in Int /\ Edge(1, t) \in Int
           /\ \A token \in {0, 1} :
                 Edge(token, t) = Hold(token, Upto(pool.nets, t - 1), Target(t), t - 1)
<1>1. Upto(pool.nets, t) \in Nat /\ Upto(pool.nets, t - 1) \in Nat /\ Target(t) \in PriceRange
  BY Liquidity, TargetInRange
<1>2. Edge(0, t) \in Int /\ Edge(1, t) \in Int
  BY <1>1, HoldingIsInt DEF Edge, Hold
<1>3. ASSUME NEW token \in {0, 1}
      PROVE  Edge(token, t) = Hold(token, Upto(pool.nets, t - 1), Target(t), t - 1)
  <2> DEFINE net == IF t \in DOMAIN pool.nets THEN pool.nets[t] ELSE 0
  <2>1. Upto(pool.nets, t) = net + Upto(pool.nets, t - 1) /\ net \in Int
    BY PoolFacts, UptoStep
  <2>2. Upto(pool.nets, t - 1) + net = Upto(pool.nets, t)
    BY <1>1, <2>1
  <2>3. Upto(pool.nets, t - 1) \in Int
    BY <1>1
  <2>4. Holding(pool.nets, token, Upto(pool.nets, t - 1), Target(t), t - 1)
          = Holding(pool.nets, token, Upto(pool.nets, t - 1) + net, Target(t), t)
    BY <2>3, CrossingHolds
  <2> HIDE DEF net
  <2> QED
    BY <2>2, <2>4 DEF Edge, Hold
<1> QED
  BY <1>2, <1>3

\* From a tick to any higher one the holdings move against each other.
LEMMA EdgesRise ==
    ASSUME pool \in Pools, NEW t \in Int, NEW n \in Nat
    PROVE  Rises(Edge(0, t), Edge(1, t), Edge(0, t + n), Edge(1, t + n))
<1> DEFINE OK(k) == Rises(Edge(0, t), Edge(1, t), Edge(0, t + k), Edge(1, t + k))
           T == {k \in Nat : ~OK(k)}
<1> SUFFICES ASSUME n \in T PROVE FALSE
  OBVIOUS
<1>1. PICK k \in T : \A j \in T : k <= j
  <2>1. T \in SUBSET Nat /\ T # {}
    OBVIOUS
  <2> HIDE DEF T
  <2> QED
    BY <2>1, LeastNatural
<1>2. k \in Nat /\ ~OK(k)
  OBVIOUS
<1>3. OK(0)
  <2>1. t + 0 = t
    OBVIOUS
  <2>2. Edge(0, t) \in Int /\ Edge(1, t) \in Int
    BY EdgeFacts
  <2> QED
    BY <2>1, <2>2 DEF Rises
<1>4. k # 0
  <2> HIDE DEF OK
  <2> QED
    BY <1>2, <1>3
<1>5. k - 1 \in Nat /\ ~ (k <= k - 1)
  BY <1>2, <1>4
<1>6. OK(k - 1)
  <2> HIDE DEF OK
  <2> QED
    BY <1>1, <1>5
<1> DEFINE u == t + (k - 1)
           v == t + k
<1>7. u \in Int /\ v \in Int /\ v - 1 = u /\ u <= v
  BY <1>2
<1> HIDE DEF u, v
<1>8. Upto(pool.nets, u) \in Nat /\ Target(u) \in PriceRange /\ Target(v) \in PriceRange
      /\ Target(u) <= Target(v)
  BY <1>7, Liquidity, TargetInRange, TargetsGrow
<1>9. Rises(Edge(0, u), Edge(1, u), Edge(0, v), Edge(1, v))
  <2>1. /\ Edge(0, v) = Hold(0, Upto(pool.nets, u), Target(v), u)
        /\ Edge(1, v) = Hold(1, Upto(pool.nets, u), Target(v), u)
    BY <1>7, EdgeFacts
  <2>2. Rises(Hold(0, Upto(pool.nets, u), Target(u), u),
              Hold(1, Upto(pool.nets, u), Target(u), u),
              Hold(0, Upto(pool.nets, u), Target(v), u),
              Hold(1, Upto(pool.nets, u), Target(v), u))
    BY <1>7, <1>8, RisesInRange
  <2> QED
    BY <2>1, <2>2 DEF Edge
<1>10. OK(k)
  <2>1. /\ Edge(0, t) \in Int /\ Edge(1, t) \in Int /\ Edge(0, u) \in Int
        /\ Edge(1, u) \in Int /\ Edge(0, v) \in Int /\ Edge(1, v) \in Int
    BY <1>7, EdgeFacts
  <2>2. Rises(Edge(0, t), Edge(1, t), Edge(0, u), Edge(1, u))
    BY <1>6 DEF u
  <2>3. Rises(Edge(0, t), Edge(1, t), Edge(0, v), Edge(1, v))
    BY <1>9, <2>1, <2>2, RisesOn
  <2> QED
    BY <2>3 DEF v
<1> QED
  BY <1>2, <1>10

\* A state lies between the edges of its tick.
LEMMA BetweenEdges ==
    ASSUME pool \in Pools, NEW s, Agrees(s)
    PROVE  LET h0 == Held(pool.nets, 0, s)
               h1 == Held(pool.nets, 1, s)
           IN  /\ h0 \in Int /\ h1 \in Int
               /\ Rises(Edge(0, s.tick), Edge(1, s.tick), h0, h1)
               /\ Rises(h0, h1, Edge(0, s.tick + 1), Edge(1, s.tick + 1))
<1> DEFINE L == s.liquidity
           p == s.sqrtP
           t == s.tick
<1>1. /\ L \in Nat /\ p \in Positive /\ t \in Int /\ t + 1 \in Int /\ (t + 1) - 1 = t
      /\ Target(t) <= p /\ p <= Target(t + 1) /\ L = Upto(pool.nets, t)
  BY DEF Agrees, SwapStates
<1>2. /\ Held(pool.nets, 0, s) = Hold(0, L, p, t)
      /\ Held(pool.nets, 1, s) = Hold(1, L, p, t)
  BY DEF Held, Hold
<1> HIDE DEF L, p, t
<1>3. Target(t) \in PriceRange /\ Target(t + 1) \in PriceRange
  BY <1>1, TargetInRange
<1>4. p \in PriceRange
  BY <1>1, <1>3, RatioFacts DEF PriceRange, MinPrice, MaxPrice, Positive
<1>5. Hold(0, L, p, t) \in Int /\ Hold(1, L, p, t) \in Int
  BY <1>1, <1>4, HoldingIsInt DEF Hold
<1>6. Rises(Edge(0, t), Edge(1, t), Hold(0, L, p, t), Hold(1, L, p, t))
  BY <1>1, <1>3, <1>4, RisesInRange DEF Edge
<1>7. /\ Edge(0, t + 1) = Hold(0, L, Target(t + 1), t)
      /\ Edge(1, t + 1) = Hold(1, L, Target(t + 1), t)
  BY <1>1, EdgeFacts
<1>8. Rises(Hold(0, L, p, t), Hold(1, L, p, t), Edge(0, t + 1), Edge(1, t + 1))
  BY <1>1, <1>3, <1>4, <1>7, RisesInRange
<1> QED
  BY <1>2, <1>5, <1>6, <1>8 DEF t

\* Of two states one lies above the other.
LEMMA Comparable ==
    ASSUME pool \in Pools, NEW x, NEW y, Agrees(x), Agrees(y)
    PROVE  Held(pool.nets, 0, x) <= Held(pool.nets, 0, y)
             <=> Held(pool.nets, 1, y) <= Held(pool.nets, 1, x)
<1> DEFINE Over(a, b) == Rises(Held(pool.nets, 0, a), Held(pool.nets, 1, a),
                               Held(pool.nets, 0, b), Held(pool.nets, 1, b))
<1>1. ASSUME NEW a, NEW b, Agrees(a), Agrees(b), a.tick < b.tick
      PROVE  Over(a, b)
  <2> DEFINE n == b.tick - (a.tick + 1)
  <2>1. a.tick \in Int /\ b.tick \in Int
    BY <1>1 DEF Agrees, SwapStates
  <2>2. n \in Nat /\ (a.tick + 1) + n = b.tick /\ a.tick + 1 \in Int
    BY <1>1, <2>1
  <2> HIDE DEF n
  <2>3. Rises(Edge(0, a.tick + 1), Edge(1, a.tick + 1),
              Edge(0, b.tick), Edge(1, b.tick))
    BY <2>2, EdgesRise
  <2>4. /\ Held(pool.nets, 0, a) \in Int /\ Held(pool.nets, 1, a) \in Int
        /\ Rises(Held(pool.nets, 0, a), Held(pool.nets, 1, a),
                 Edge(0, a.tick + 1), Edge(1, a.tick + 1))
    BY <1>1, BetweenEdges
  <2>5. /\ Held(pool.nets, 0, b) \in Int /\ Held(pool.nets, 1, b) \in Int
        /\ Rises(Edge(0, b.tick), Edge(1, b.tick),
                 Held(pool.nets, 0, b), Held(pool.nets, 1, b))
    BY <1>1, BetweenEdges
  <2>6. /\ Edge(0, a.tick + 1) \in Int /\ Edge(1, a.tick + 1) \in Int
        /\ Edge(0, b.tick) \in Int /\ Edge(1, b.tick) \in Int
    BY <2>1, <2>2, EdgeFacts
  <2>7. Rises(Held(pool.nets, 0, a), Held(pool.nets, 1, a),
              Edge(0, b.tick), Edge(1, b.tick))
    BY <2>3, <2>4, <2>6, RisesOn
  <2> QED
    BY <2>4, <2>5, <2>6, <2>7, RisesOn
<1>2. ASSUME NEW a, NEW b, Agrees(a), Agrees(b), a.tick = b.tick, a.sqrtP <= b.sqrtP
      PROVE  Over(a, b)
  <2> DEFINE L == a.liquidity
             p == a.sqrtP
             q == b.sqrtP
             t == a.tick
  <2>1. /\ L \in Nat /\ p \in Positive /\ q \in Positive /\ t \in Int /\ t + 1 \in Int
        /\ b.liquidity = L /\ b.tick = t
        /\ Target(t) <= p /\ p <= Target(t + 1)
        /\ Target(t) <= q /\ q <= Target(t + 1)
    BY <1>2 DEF Agrees, SwapStates
  <2>2. Target(t) \in PriceRange /\ Target(t + 1) \in PriceRange
    BY <2>1, TargetInRange
  <2>3. /\ Held(pool.nets, 0, a) = Hold(0, L, p, t)
        /\ Held(pool.nets, 1, a) = Hold(1, L, p, t)
        /\ Held(pool.nets, 0, b) = Hold(0, L, q, t)
        /\ Held(pool.nets, 1, b) = Hold(1, L, q, t)
    BY <2>1 DEF Held, Hold
  <2>4. p <= q
    BY <1>2
  <2> HIDE DEF L, p, q, t
  <2>5. p \in PriceRange /\ q \in PriceRange
    BY <2>1, <2>2, RatioFacts DEF PriceRange, MinPrice, MaxPrice, Positive
  <2> QED
    BY <2>1, <2>3, <2>4, <2>5, RisesInRange
<1>3. Over(x, y) \/ Over(y, x)
  <2>1. /\ x.tick \in Int /\ y.tick \in Int /\ x.sqrtP \in Nat /\ y.sqrtP \in Nat
    BY DEF Agrees, SwapStates, Positive
  <2> HIDE DEF Over
  <2>2. \/ x.tick < y.tick \/ y.tick < x.tick
        \/ x.tick = y.tick /\ x.sqrtP <= y.sqrtP
        \/ y.tick = x.tick /\ y.sqrtP <= x.sqrtP
    BY <2>1
  <2> QED
    BY <1>1, <1>2, <2>2
<1>4. /\ Held(pool.nets, 0, x) \in Int /\ Held(pool.nets, 1, x) \in Int
      /\ Held(pool.nets, 0, y) \in Int /\ Held(pool.nets, 1, y) \in Int
  BY BetweenEdges
<1> QED
  BY <1>3, <1>4 DEF Rises

-----------------------------------------------------------------------------
(* The round trip.                                                           *)

Begin == Loop("pool", pool, args.amountIn)
In == TokenIn(args.zeroForOne)
Out == TokenIn(~args.zeroForOne)
HeldNow(token) == Held(pool.nets, token, swap)
HeldFirst(token) == Held(pool.nets, token, Begin)

\* What the first swap has taken covers what it added; what it gave was there.
TripOut ==
    swap.phase = "pool" =>
        /\ HeldNow(In) - HeldFirst(In) <= (args.amountIn - swap.left) * Scale(In)
        /\ swap.out * Scale(Out) <= HeldFirst(Out) - HeldNow(Out)

\* The second returns no more of the first's output than that had removed, and
\* gives back no more of its input than that had added.
TripBack ==
    swap.phase = "back" =>
        /\ HeldNow(Out) + swap.left * Scale(Out) <= HeldFirst(Out)
        /\ swap.out * Scale(In) + HeldNow(In)
             <= (args.amountIn - paid.left) * Scale(In) + HeldFirst(In)

TripInv == TripOut /\ TripBack /\ RoundTripGainsNothing

\* The input of one swap is the output of the other.
LEMMA Tokens ==
    ASSUME args.zeroForOne \in BOOLEAN
    PROVE  /\ \/ In = 0 /\ Out = 1
              \/ In = 1 /\ Out = 0
           /\ Scale(In) \in Positive /\ Scale(Out) \in Positive
           /\ TokenIn(~args.zeroForOne) = Out /\ TokenIn(~~args.zeroForOne) = In
<1>1. CASE args.zeroForOne
  BY <1>1, UnitDivides, ScalesArePositive DEF In, Out, TokenIn, Scale
<1>2. CASE ~args.zeroForOne
  BY <1>2, UnitDivides, ScalesArePositive DEF In, Out, TokenIn, Scale
<1> QED
  BY <1>1, <1>2

\* What the positions hold in a state of the swap is an integer.
LEMMA HeldIsInt ==
    ASSUME pool \in Pools, NEW s, Agrees(s)
    PROVE  Held(pool.nets, 0, s) \in Int /\ Held(pool.nets, 1, s) \in Int
  BY BetweenEdges

\* The types of what TripInv speaks of.
LEMMA TripTypes ==
    ASSUME V3Inv
    PROVE  /\ pool \in Pools /\ args.zeroForOne \in BOOLEAN /\ args.amountIn \in Nat
           /\ Agrees(swap) /\ swap.left \in Nat /\ swap.out \in Nat /\ paid.left \in Nat
           /\ HeldNow(In) \in Int /\ HeldNow(Out) \in Int
           /\ HeldFirst(In) \in Int /\ HeldFirst(Out) \in Int
<1>1. /\ pool \in Pools /\ args.zeroForOne \in BOOLEAN /\ args.amountIn \in Nat
      /\ Agrees(swap) /\ paid.left \in Nat
  BY DEF V3Inv, V3Types
<1>2. swap.left \in Nat /\ swap.out \in Nat
  BY <1>1 DEF Agrees, SwapStates
<1>3. Agrees(Begin)
  BY <1>1, LoopAgrees DEF Begin, Phases
<1>4. /\ Held(pool.nets, 0, swap) \in Int /\ Held(pool.nets, 1, swap) \in Int
      /\ Held(pool.nets, 0, Begin) \in Int /\ Held(pool.nets, 1, Begin) \in Int
  BY <1>1, <1>3, HeldIsInt
<1> QED
  BY <1>1, <1>2, <1>4, Tokens DEF HeldNow, HeldFirst

\* Scaled amounts, and their differences.
LEMMA Scaled ==
    ASSUME NEW a \in Int, NEW k \in Positive
    PROVE  a * k \in Int
  BY DEF Positive

\* A scaled difference is the difference of the scaled amounts.
LEMMA ScaledDifference ==
    ASSUME NEW a \in Int, NEW b \in Int, NEW k \in Positive
    PROVE  (a - b) * k \in Int /\ (a - b) * k = a * k - b * k
  BY DEF Positive

\* Two scaled steps make one.
LEMMA ScaledSteps ==
    ASSUME NEW a \in Int, NEW b \in Int, NEW c \in Int, NEW k \in Positive
    PROVE  (a - b) * k + (b - c) * k = (a - c) * k
<1>1. /\ (a - b) * k = a * k - b * k
      /\ (b - c) * k = b * k - c * k
      /\ (a - c) * k = a * k - c * k
  BY ScaledDifference
<1>2. a * k \in Int /\ b * k \in Int /\ c * k \in Int
  BY Scaled
<1> QED
  BY <1>1, <1>2

\* TripInv holds when the quote begins.
LEMMA TripStarts ==
    ASSUME V3Init
    PROVE  TripInv
  BY DEF V3Init, Loop, TripInv, TripOut, TripBack, RoundTripGainsNothing

\* However the loop returns, the pool starts where it was read.
LEMMA ReturnTrip ==
    ASSUME V3Inv, NEW out, NEW complete, Returns(out, complete)
    PROVE  TripInv'
<1>1. /\ swap' = Begin /\ pool' = pool /\ args' = args
  BY DEF Returns, Begin
<1>2. /\ Begin.phase = "pool" /\ Begin.left = args.amountIn /\ Begin.out = 0
  BY DEF Begin, Loop
<1>3. Begin' = Begin /\ In' = In /\ Out' = Out
  BY <1>1 DEF Begin, In, Out
<1>4. /\ HeldNow(In)' = HeldFirst(In) /\ HeldFirst(In)' = HeldFirst(In)
      /\ HeldNow(Out)' = HeldFirst(Out) /\ HeldFirst(Out)' = HeldFirst(Out)
  BY <1>1, <1>3 DEF HeldNow, HeldFirst
<1>5. /\ HeldFirst(In) \in Int /\ HeldFirst(Out) \in Int /\ args.amountIn \in Nat
      /\ Scale(In) \in Positive /\ Scale(Out) \in Positive
  BY TripTypes, Tokens
<1>6. /\ HeldFirst(In) - HeldFirst(In) <= (args.amountIn - args.amountIn) * Scale(In)
      /\ 0 * Scale(Out) <= HeldFirst(Out) - HeldFirst(Out)
  <2>1. args.amountIn - args.amountIn = 0
    BY <1>5
  <2>2. 0 * Scale(In) = 0 /\ 0 * Scale(Out) = 0
    BY <1>5 DEF Positive
  <2> QED
    BY <1>5, <2>1, <2>2
<1>7. TripOut'
  BY <1>1, <1>2, <1>3, <1>4, <1>6 DEF TripOut
<1>8. TripBack' /\ RoundTripGainsNothing'
  BY <1>1, <1>2 DEF TripBack, RoundTripGainsNothing
<1> QED
  BY <1>7, <1>8 DEF TripInv

\* The loop moves nothing in the pool.
LEMMA LoopTrip ==
    ASSUME V3Inv, ReadMissing \/ NoProgress \/ Traverse \/ Exhausted
    PROVE  TripInv'
<1>1. CASE ReadMissing
  BY <1>1, ReturnTrip DEF ReadMissing
<1>2. CASE NoProgress
  BY <1>2, ReturnTrip DEF NoProgress
<1>3. CASE Exhausted
  BY <1>3, ReturnTrip DEF Exhausted
<1>4. CASE Traverse
  <2> DEFINE s == Moved(swap, Next_, args.zeroForOne)
  <2>1. Returns(s.out, TRUE) \/ Returns(0, FALSE) \/ Continues(s)
    BY <1>4 DEF Traverse
  <2>2. CASE Returns(s.out, TRUE)
    <3>1. PICK o : o = s.out
      OBVIOUS
    <3> QED
      BY <2>2, <3>1, ReturnTrip
  <2>3. CASE Returns(0, FALSE)
    BY <2>3, ReturnTrip
  <2>4. CASE Continues(s)
    <3>1. swap.phase = "quoting" /\ ReadsSuffice
      BY <1>4 DEF Traverse, Quoting
    <3>2. args.fee \in 0..(FeeDen - 1)
      BY DEF V3Inv, V3Types
    <3>3. s = Moved(swap, At(swap, args.zeroForOne, args.fee), args.zeroForOne)
      BY <3>1, <3>2, TripTypes, ReadsShowThePool
    <3>4. s.phase = swap.phase
      <4> HIDE DEF s
      <4> QED
        BY <3>2, <3>3, TripTypes, MovedFieldsAt
    <3>5. swap' = s
      BY <2>4 DEF Continues
    <3> HIDE DEF s
    <3> QED
      BY <3>1, <3>4, <3>5 DEF TripInv, TripOut, TripBack, RoundTripGainsNothing
  <2> QED
    BY <2>1, <2>2, <2>3, <2>4
<1> QED
  BY <1>1, <1>2, <1>3, <1>4

\* A move of the first swap: each sum grows by what the move took and gave.
LEMMA PoolTrip ==
    ASSUME V3Inv, TripInv, Executes("pool", args.zeroForOne)
    PROVE  TripInv'
<1> DEFINE d == args.zeroForOne
           t == PoolMove(swap, d)
<1>1. /\ swap.phase = "pool" /\ swap' = t /\ pool' = pool /\ args' = args /\ paid' = paid
  BY ExecutesMoves
<1>2. /\ Held(pool.nets, In, t) - HeldNow(In) <= (swap.left - t.left) * Scale(In)
      /\ (t.out - swap.out) * Scale(Out) <= HeldNow(Out) - Held(pool.nets, Out, t)
      /\ Held(pool.nets, In, t) \in Int /\ Held(pool.nets, Out, t) \in Int
  BY TripTypes, MovePays DEF In, Out, HeldNow
<1>3. t.phase = "pool" /\ t.left \in Nat /\ t.out \in Nat
  BY <1>1, TripTypes, MoveAgrees DEF Agrees, SwapStates
<1> HIDE DEF t
<1>4. /\ HeldNow(In)' = Held(pool.nets, In, t) /\ HeldFirst(In)' = HeldFirst(In)
      /\ HeldNow(Out)' = Held(pool.nets, Out, t) /\ HeldFirst(Out)' = HeldFirst(Out)
      /\ In' = In /\ Out' = Out
  BY <1>1 DEF HeldNow, HeldFirst, Begin, In, Out
<1>5. /\ HeldNow(In) - HeldFirst(In) <= (args.amountIn - swap.left) * Scale(In)
      /\ swap.out * Scale(Out) <= HeldFirst(Out) - HeldNow(Out)
  BY <1>1 DEF TripInv, TripOut
<1> DEFINE ki == Scale(In)
           ko == Scale(Out)
           amount == args.amountIn
<1>6. /\ ki \in Positive /\ ko \in Positive /\ amount \in Nat
      /\ swap.left \in Nat /\ swap.out \in Nat
      /\ HeldNow(In) \in Int /\ HeldNow(Out) \in Int
      /\ HeldFirst(In) \in Int /\ HeldFirst(Out) \in Int
  BY TripTypes, Tokens
<1> HIDE DEF ki, ko, amount
<1>7. /\ (amount - swap.left) * ki + (swap.left - t.left) * ki = (amount - t.left) * ki
      /\ (amount - swap.left) * ki \in Int /\ (swap.left - t.left) * ki \in Int
      /\ (t.out - swap.out) * ko = t.out * ko - swap.out * ko
      /\ t.out * ko \in Int /\ swap.out * ko \in Int
  <2>1. /\ swap.left \in Int /\ t.left \in Int /\ amount \in Int
        /\ swap.out \in Int /\ t.out \in Int
    BY <1>3, <1>6
  <2>2. (amount - swap.left) * ki + (swap.left - t.left) * ki = (amount - t.left) * ki
    BY <1>6, <2>1, ScaledSteps
  <2>3. (amount - swap.left) * ki \in Int /\ (swap.left - t.left) * ki \in Int
    BY <1>6, <2>1, ScaledDifference
  <2>4. (t.out - swap.out) * ko = t.out * ko - swap.out * ko
    BY <1>6, <2>1, ScaledDifference
  <2>5. t.out * ko \in Int /\ swap.out * ko \in Int
    BY <1>6, <2>1, Scaled
  <2> QED
    BY <2>2, <2>3, <2>4, <2>5
<1>8. /\ Held(pool.nets, In, t) - HeldFirst(In) <= (amount - t.left) * ki
      /\ t.out * ko <= HeldFirst(Out) - Held(pool.nets, Out, t)
  BY <1>2, <1>5, <1>6, <1>7 DEF ki, ko, amount
<1>9. TripOut'
  BY <1>1, <1>4, <1>8 DEF TripOut, ki, ko, amount
<1>10. TripBack' /\ RoundTripGainsNothing'
  BY <1>1, <1>3 DEF TripBack, RoundTripGainsNothing
<1> QED
  BY <1>9, <1>10 DEF TripInv

\* The first swap is over: its output becomes the input of the second.
LEMMA PaysTrip ==
    ASSUME V3Inv, TripInv, Pays
    PROVE  TripInv'
<1>1. /\ swap.phase = "pool"
      /\ paid' = [out |-> swap.out, left |-> swap.left]
      /\ swap' = Loop("back", swap, swap.out)
      /\ pool' = pool /\ args' = args
  BY DEF Pays, Executed
<1>2. /\ swap'.phase = "back" /\ swap'.left = swap.out /\ swap'.out = 0
      /\ swap'.liquidity = swap.liquidity /\ swap'.sqrtP = swap.sqrtP /\ swap'.tick = swap.tick
  BY <1>1 DEF Loop
<1>3. /\ HeldNow(In)' = HeldNow(In) /\ HeldFirst(In)' = HeldFirst(In)
      /\ HeldNow(Out)' = HeldNow(Out) /\ HeldFirst(Out)' = HeldFirst(Out)
      /\ In' = In /\ Out' = Out
  BY <1>1, <1>2 DEF HeldNow, HeldFirst, Held, Begin, In, Out
<1>4. /\ HeldNow(In) - HeldFirst(In) <= (args.amountIn - swap.left) * Scale(In)
      /\ swap.out * Scale(Out) <= HeldFirst(Out) - HeldNow(Out)
  BY <1>1 DEF TripInv, TripOut
<1>5. /\ Scale(In) \in Positive /\ Scale(Out) \in Positive /\ args.amountIn \in Nat
      /\ swap.left \in Nat /\ swap.out \in Nat
      /\ HeldNow(In) \in Int /\ HeldNow(Out) \in Int
      /\ HeldFirst(In) \in Int /\ HeldFirst(Out) \in Int
  BY TripTypes, Tokens
<1>6. /\ (args.amountIn - swap.left) * Scale(In) \in Int /\ swap.out * Scale(Out) \in Int
      /\ 0 * Scale(In) = 0
  <2>1. args.amountIn - swap.left \in Int /\ swap.out \in Int
    BY <1>5
  <2>2. (args.amountIn - swap.left) * Scale(In) \in Int /\ swap.out * Scale(Out) \in Int
    BY <1>5, <2>1, Scaled
  <2>3. 0 * Scale(In) = 0
    BY <1>5 DEF Positive
  <2> QED
    BY <2>2, <2>3
<1>7. /\ HeldNow(Out) + swap.out * Scale(Out) <= HeldFirst(Out)
      /\ 0 * Scale(In) + HeldNow(In) <= (args.amountIn - swap.left) * Scale(In) + HeldFirst(In)
  BY <1>4, <1>5, <1>6
<1>8. TripBack'
  BY <1>1, <1>2, <1>3, <1>7 DEF TripBack
<1>9. TripOut' /\ RoundTripGainsNothing'
  BY <1>2 DEF TripOut, RoundTripGainsNothing
<1> QED
  BY <1>8, <1>9 DEF TripInv

\* A move of the second swap: each sum shrinks by what the move took and gave.
LEMMA BackTrip ==
    ASSUME V3Inv, TripInv, Executes("back", ~args.zeroForOne)
    PROVE  TripInv'
<1> DEFINE d == ~args.zeroForOne
           t == PoolMove(swap, d)
<1>1. /\ swap.phase = "back" /\ swap' = t /\ pool' = pool /\ args' = args /\ paid' = paid
  BY ExecutesMoves
<1>2. /\ Held(pool.nets, Out, t) - HeldNow(Out) <= (swap.left - t.left) * Scale(Out)
      /\ (t.out - swap.out) * Scale(In) <= HeldNow(In) - Held(pool.nets, In, t)
      /\ Held(pool.nets, In, t) \in Int /\ Held(pool.nets, Out, t) \in Int
  <2>1. d \in BOOLEAN /\ TokenIn(d) = Out /\ TokenIn(~d) = In
    BY TripTypes, Tokens
  <2> HIDE DEF d
  <2> QED
    BY <2>1, TripTypes, MovePays DEF HeldNow
<1>3. t.phase = "back" /\ t.left \in Nat /\ t.out \in Nat
  BY <1>1, TripTypes, MoveAgrees DEF Agrees, SwapStates
<1> HIDE DEF t
<1>4. /\ HeldNow(In)' = Held(pool.nets, In, t) /\ HeldFirst(In)' = HeldFirst(In)
      /\ HeldNow(Out)' = Held(pool.nets, Out, t) /\ HeldFirst(Out)' = HeldFirst(Out)
      /\ In' = In /\ Out' = Out
  BY <1>1 DEF HeldNow, HeldFirst, Begin, In, Out
<1>5. /\ HeldNow(Out) + swap.left * Scale(Out) <= HeldFirst(Out)
      /\ swap.out * Scale(In) + HeldNow(In)
           <= (args.amountIn - paid.left) * Scale(In) + HeldFirst(In)
  BY <1>1 DEF TripInv, TripBack
<1> DEFINE ki == Scale(In)
           ko == Scale(Out)
           used == args.amountIn - paid.left
<1>6. /\ ki \in Positive /\ ko \in Positive /\ used \in Int
      /\ swap.left \in Nat /\ swap.out \in Nat
      /\ HeldNow(In) \in Int /\ HeldNow(Out) \in Int
      /\ HeldFirst(In) \in Int /\ HeldFirst(Out) \in Int
  BY TripTypes, Tokens
<1> HIDE DEF ki, ko, used
<1>7. /\ (swap.left - t.left) * ko = swap.left * ko - t.left * ko
      /\ (t.out - swap.out) * ki = t.out * ki - swap.out * ki
      /\ swap.left * ko \in Int /\ t.left * ko \in Int
      /\ t.out * ki \in Int /\ swap.out * ki \in Int /\ used * ki \in Int
  <2>1. /\ swap.left \in Int /\ t.left \in Int
        /\ swap.out \in Int /\ t.out \in Int
    BY <1>3, <1>6
  <2>2. (swap.left - t.left) * ko = swap.left * ko - t.left * ko
    BY <1>6, <2>1, ScaledDifference
  <2>5. (t.out - swap.out) * ki = t.out * ki - swap.out * ki
    BY <1>6, <2>1, ScaledDifference
  <2>3. swap.left * ko \in Int /\ t.left * ko \in Int
    BY <1>6, <2>1, Scaled
  <2>4. t.out * ki \in Int /\ swap.out * ki \in Int /\ used * ki \in Int
    BY <1>6, <2>1, Scaled
  <2> QED
    BY <2>2, <2>5, <2>3, <2>4
<1>8. /\ Held(pool.nets, Out, t) + t.left * ko <= HeldFirst(Out)
      /\ t.out * ki + Held(pool.nets, In, t) <= used * ki + HeldFirst(In)
  BY <1>2, <1>5, <1>6, <1>7 DEF ki, ko, used
<1>9. TripBack'
  BY <1>1, <1>4, <1>8 DEF TripBack, ki, ko, used
<1>10. TripOut' /\ RoundTripGainsNothing'
  BY <1>1, <1>3 DEF TripOut, RoundTripGainsNothing
<1> QED
  BY <1>9, <1>10 DEF TripInv

\* The second swap is over: compare the holdings with the first ones.
LEMMA TakenBackTrip ==
    ASSUME V3Inv, TripInv, TakenBack
    PROVE  TripInv'
<1>1. /\ swap.phase = "back" /\ swap' = [swap EXCEPT !.phase = "done"]
      /\ pool' = pool /\ args' = args /\ paid' = paid
  BY DEF TakenBack, Executed, Continues
<1>2. /\ HeldNow(Out) + swap.left * Scale(Out) <= HeldFirst(Out)
      /\ swap.out * Scale(In) + HeldNow(In)
           <= (args.amountIn - paid.left) * Scale(In) + HeldFirst(In)
  BY <1>1 DEF TripInv, TripBack
<1> DEFINE ki == Scale(In)
           ko == Scale(Out)
           used == args.amountIn - paid.left
<1>3. /\ ki \in Positive /\ ko \in Positive /\ used \in Int
      /\ swap.left \in Nat /\ swap.out \in Nat
      /\ HeldNow(In) \in Int /\ HeldNow(Out) \in Int
      /\ HeldFirst(In) \in Int /\ HeldFirst(Out) \in Int
      /\ args.amountIn \in Nat /\ paid.left \in Nat
  BY TripTypes, Tokens
<1>4. HeldNow(Out) <= HeldFirst(Out)
  <2>1. swap.left * ko \in Nat
    BY <1>3, Products DEF Positive
  <2> HIDE DEF ko
  <2> QED
    BY <1>2, <1>3, <2>1 DEF ko
<1>5. HeldFirst(In) <= HeldNow(In)
  <2>1. pool \in Pools /\ Agrees(swap) /\ args.zeroForOne \in BOOLEAN
    BY TripTypes
  <2>2. Agrees(Begin)
    BY <2>1, TripTypes, LoopAgrees DEF Begin, Phases
  <2>3. CASE In = 0 /\ Out = 1
    <3>1. Held(pool.nets, 1, swap) <= Held(pool.nets, 1, Begin)
      BY <1>4, <2>3 DEF HeldNow, HeldFirst
    <3>2. Held(pool.nets, 0, Begin) <= Held(pool.nets, 0, swap)
      BY <2>1, <2>2, <3>1, Comparable
    <3> QED
      BY <2>3, <3>2 DEF HeldNow, HeldFirst
  <2>4. CASE In = 1 /\ Out = 0
    <3>1. Held(pool.nets, 0, swap) <= Held(pool.nets, 0, Begin)
      BY <1>4, <2>4 DEF HeldNow, HeldFirst
    <3>2. Held(pool.nets, 1, Begin) <= Held(pool.nets, 1, swap)
      BY <2>1, <2>2, <3>1, Comparable
    <3> QED
      BY <2>4, <3>2 DEF HeldNow, HeldFirst
  <2> QED
    BY <2>1, <2>3, <2>4, Tokens
<1> HIDE DEF ki, ko, used
<1>6. swap.out * ki <= used * ki
  <2>1. swap.out * ki \in Int /\ used * ki \in Int
    <3>1. swap.out \in Int
      BY <1>3
    <3> QED
      BY <1>3, <3>1, Scaled
  <2> QED
    BY <1>2, <1>3, <1>5, <2>1 DEF ki, used
<1>7. swap.out <= used
  BY <1>3, <1>6, Cancel DEF Positive
<1>8. swap.out + paid.left <= args.amountIn
  BY <1>3, <1>7 DEF used
<1>9. swap'.phase = "done" /\ swap'.out = swap.out
  BY <1>1, TripTypes DEF Agrees, SwapStates
<1> QED
  BY <1>1, <1>8, <1>9 DEF TripInv, TripOut, TripBack, RoundTripGainsNothing

\* Every step of the quote and of the pool keeps TripInv.
LEMMA TripStepKeeps ==
    ASSUME V3Inv, TripInv, V3Next
    PROVE  TripInv'
  BY LoopTrip, PoolTrip, PaysTrip, BackTrip, TakenBackTrip DEF V3Next

\* The trip is over, and the pool not looked at again, when the gates decide.
LEMMA TripStays ==
    ASSUME TripInv, UNCHANGED v3vars
    PROVE  TripInv'
  BY DEF v3vars, TripInv, TripOut, TripBack, RoundTripGainsNothing, HeldNow, HeldFirst, Begin, In, Out

\* Every step of the trade keeps TripInv.
LEMMA TripStep == TradeInv /\ TripInv /\ [TradeNext]_tradeVars => TripInv'
<1> SUFFICES ASSUME TradeInv, TripInv, [TradeNext]_tradeVars PROVE TripInv'
  OBVIOUS
<1>1. CASE QuoteV3
  <2>1. V3Next
    BY <1>1 DEF QuoteV3
  <2>2. swap.phase \in {"quoting", "pool", "back"}
    BY <2>1 DEF V3Next, ReadMissing, NoProgress, Traverse, Exhausted, Executes, Pays,
                TakenBack, Executed, Quoting
  <2> QED
    BY <2>1, <2>2, TripStepKeeps DEF TradeInv
<1>2. CASE RequoteV3
  <2>1. swap'.phase = "quoted"
    BY <1>2 DEF RequoteV3, ForgetPool, Loop
  <2> QED
    BY <2>1 DEF TripInv, TripOut, TripBack, RoundTripGainsNothing
<1>3. CASE UNCHANGED v3vars
  BY <1>3, TripStays
<1> QED
  BY <1>1, <1>2, <1>3 DEF TradeNext, RequoteOther, Gates, tradeVars

\* Every rounding favours the pool: for any pool, amount, fee and scale of
\* prices, who sells the output back has no more than before.
THEOREM RoundTripsGainNothing == TradeSpec => []RoundTripGainsNothing
<1>1. TradeInit => TripInv
  <2> SUFFICES ASSUME TradeInit PROVE TripInv
    OBVIOUS
  <2>1. CASE V3Init
    BY <2>1, TripStarts
  <2>2. CASE swap = Loop("none", NoPool, 0)
    BY <2>2 DEF Loop, TripInv, TripOut, TripBack, RoundTripGainsNothing
  <2> QED
    BY <2>1, <2>2 DEF TradeInit
<1>2. TripInv => RoundTripGainsNothing
  BY DEF TripInv
<1> QED
  BY <1>1, <1>2, TripStep, TradeInvariant, PTL DEF TradeSpec
==============================================================================
