--------------------------- MODULE EarningsProofs ---------------------------
(***************************************************************************)
(* Who earns fees and rewards, when, and how much, and that the vaults can *)
(* pay everyone at once.  The code has no list of earners: what a position *)
(* earned is a difference of counters that wrap, kept outside the two ends *)
(* of its range and turned over at every crossing.  A swap is shown to pay *)
(* those whose range it touched and nobody else (TradedInv); whatever      *)
(* changes what is earned from now on is shown to settle first what was    *)
(* earned until now; and what all positions earned of a reward is shown to *)
(* be no more than was emitted (RewardsBacked).                            *)
(*                                                                         *)
(* Nor does the code keep an account of what the vaults must pay: it       *)
(* rounds every amount to the pool's side and trusts that this is enough.  *)
(* The proof keeps that account in full precision.  What a unit of         *)
(* liquidity is worth between two prices is a difference of heights: of    *)
(* token b the price itself, of token a its inverse.  Multiplied by Unit,  *)
(* all of it is whole numbers: what a position may claim (Due), and how    *)
(* far a step of a swap moves it (SpanMoves).  Each payment in covers what *)
(* it adds to the claims (PaidInWorth), and each payment out is covered by *)
(* what it takes away (PaidOutWorth); what is left is rounding, and stays  *)
(* (TokensBacked).                                                         *)
(***************************************************************************)
EXTENDS ClmmPoolProofs

----------------------------------------------------------------------------
(* Numbers that wrap.                                                      *)

\* The remainder of a number a modulus or less away from the remainders.
LEMMA ModNear ==
    ASSUME NEW n \in Nat \ {0}, NEW x \in Int, -n <= x, x < 2 * n
    PROVE  x % n = IF x < 0 THEN x + n ELSE IF x < n THEN x ELSE x - n
OBVIOUS

\* A remainder is a number no larger than what it remains of.
LEMMA RemainderBelow ==
    ASSUME NEW x \in Nat, NEW n \in Nat \ {0}
    PROVE  x % n \in Nat /\ x % n <= x
OBVIOUS

\* How many numbers 128 bits hold.
TwoTo128 == Q64 * Q64

\* The 128-bit numbers are those below it.
LEMMA U128Below == TwoTo128 \in Nat \ {0} /\ U128 = 0 .. TwoTo128 - 1
BY Widths DEF U128, TwoTo128

\* A difference or a sum wraps once or not at all.
LEMMA WrapCases ==
    ASSUME NEW x \in U128, NEW y \in U128
    PROVE  /\ WrappingSub(x, y) = IF y <= x THEN x - y ELSE x - y + TwoTo128
           /\ WrappingAdd(x, y) = IF x + y < TwoTo128 THEN x + y ELSE x + y - TwoTo128
           /\ WrappingSub(x, y) \in U128
           /\ WrappingAdd(x, y) \in U128
<1> DEFINE N == TwoTo128
<1>1. N \in Nat \ {0} /\ x \in 0 .. N - 1 /\ y \in 0 .. N - 1
  BY U128Below
<1> HIDE DEF N
<1>2. (x - y) % N = IF y <= x THEN x - y ELSE x - y + N
  <2>1. /\ x - y \in Int /\ -N <= x - y /\ x - y < 2 * N /\ x - y < N
        /\ (y <= x <=> ~(x - y < 0))
    BY <1>1
  <2> QED BY <1>1, <2>1, ModNear
<1>3. (x + y) % N = IF x + y < N THEN x + y ELSE x + y - N
  <2>1. x + y \in Int /\ -N <= x + y /\ x + y < 2 * N
    BY <1>1
  <2>2. ASSUME NEW d \in Int, d = x + y
        PROVE  d % N = IF x + y < N THEN x + y ELSE x + y - N
    <3>1. d % N = IF d < 0 THEN d + N ELSE IF d < N THEN d ELSE d - N
      BY <1>1, <2>1, <2>2, ModNear
    <3> QED BY <1>1, <2>2, <3>1
  <2> QED BY <2>1, <2>2
<1>4. /\ (x - y) % N \in 0 .. N - 1
      /\ (x + y) % N \in 0 .. N - 1
  BY <1>1, <1>2, <1>3
<1> QED BY <1>2, <1>3, <1>4, U128Below DEF N, WrappingSub, WrappingAdd, TwoTo128

\* What lies on the other side of the other side is what was.
LEMMA SubTwice ==
    ASSUME NEW g \in U128, NEW x \in U128
    PROVE  WrappingSub(g, WrappingSub(g, x)) = x
<1> DEFINE d == WrappingSub(g, x)
<1>1. d = (IF x <= g THEN g - x ELSE g - x + TwoTo128) /\ d \in U128
  BY WrapCases
<1> HIDE DEF d
<1>2. WrappingSub(g, d) = IF d <= g THEN g - d ELSE g - d + TwoTo128
  BY <1>1, WrapCases
<1> QED BY <1>1, <1>2, U128Below DEF d

\* Differences from one number differ as the numbers do.
LEMMA SubSub ==
    ASSUME NEW x \in U128, NEW y \in U128, NEW z \in U128
    PROVE  WrappingSub(WrappingSub(x, y), WrappingSub(x, z)) = WrappingSub(z, y)
<1> DEFINE d == WrappingSub(x, y)
           e == WrappingSub(x, z)
           f == WrappingSub(z, y)
<1>1. /\ d = (IF y <= x THEN x - y ELSE x - y + TwoTo128) /\ d \in U128
      /\ e = (IF z <= x THEN x - z ELSE x - z + TwoTo128) /\ e \in U128
      /\ f = (IF y <= z THEN z - y ELSE z - y + TwoTo128)
  BY WrapCases
<1> HIDE DEF d, e, f
<1>2. WrappingSub(d, e) = IF e <= d THEN d - e ELSE d - e + TwoTo128
  BY <1>1, WrapCases
<1>3. WrappingSub(d, e) = f
  BY <1>1, <1>2, U128Below
<1> QED BY <1>3 DEF d, e, f

\* Two numbers are taken off in any order.
LEMMA SubCommutes ==
    ASSUME NEW x \in U128, NEW y \in U128, NEW z \in U128
    PROVE  WrappingSub(WrappingSub(x, y), z) = WrappingSub(WrappingSub(x, z), y)
<1> DEFINE d == WrappingSub(x, y)
           e == WrappingSub(x, z)
<1>1. /\ d = (IF y <= x THEN x - y ELSE x - y + TwoTo128) /\ d \in U128
      /\ e = (IF z <= x THEN x - z ELSE x - z + TwoTo128) /\ e \in U128
  BY WrapCases
<1> HIDE DEF d, e
<1>2. /\ WrappingSub(d, z) = IF z <= d THEN d - z ELSE d - z + TwoTo128
      /\ WrappingSub(e, y) = IF y <= e THEN e - y ELSE e - y + TwoTo128
  BY <1>1, WrapCases
<1>3. WrappingSub(d, z) = WrappingSub(e, y)
  BY <1>1, <1>2, U128Below
<1> QED BY <1>3 DEF d, e

\* What is added before a number is taken off may be added after.
LEMMA AddSubCommute ==
    ASSUME NEW x \in U128, NEW y \in U128, NEW z \in U128
    PROVE  WrappingSub(WrappingAdd(x, y), z) = WrappingAdd(WrappingSub(x, z), y)
<1> DEFINE d == WrappingAdd(x, y)
           e == WrappingSub(x, z)
<1>1. /\ d = (IF x + y < TwoTo128 THEN x + y ELSE x + y - TwoTo128) /\ d \in U128
      /\ e = (IF z <= x THEN x - z ELSE x - z + TwoTo128) /\ e \in U128
  BY WrapCases
<1> HIDE DEF d, e
<1>2. /\ WrappingSub(d, z) = IF z <= d THEN d - z ELSE d - z + TwoTo128
      /\ WrappingAdd(e, y) = IF e + y < TwoTo128 THEN e + y ELSE e + y - TwoTo128
  BY <1>1, WrapCases
<1>3. WrappingSub(d, z) = WrappingAdd(e, y)
  BY <1>1, <1>2, U128Below
<1> QED BY <1>3 DEF d, e

\* Taking off nothing, taking off all, adding nothing; and a sum is no more than its parts.
LEMMA WrapZero ==
    ASSUME NEW x \in U128, NEW y \in U128
    PROVE  /\ WrappingSub(x, 0) = x
           /\ WrappingSub(x, x) = 0
           /\ WrappingAdd(x, 0) = x
           /\ WrappingAdd(x, y) <= x + y
<1>1. 0 \in U128
  BY Widths
<1>2. /\ WrappingSub(x, 0) = IF 0 <= x THEN x - 0 ELSE x - 0 + TwoTo128
      /\ WrappingSub(x, x) = IF x <= x THEN x - x ELSE x - x + TwoTo128
      /\ WrappingAdd(x, 0) = IF x + 0 < TwoTo128 THEN x + 0 ELSE x + 0 - TwoTo128
      /\ WrappingAdd(x, y) = IF x + y < TwoTo128 THEN x + y ELSE x + y - TwoTo128
  BY <1>1, WrapCases
<1> QED BY <1>2, U128Below

----------------------------------------------------------------------------
(* Sums.                                                                   *)

\* Where every term is at most another plus a multiple of a third, so are the sums.
LEMMA SumBound ==
    ASSUME NEW f \in [Position -> Int], NEW g \in [Position -> Int],
           NEW h \in [Position -> Int], NEW c \in Int,
           \A p \in Position : f[p] <= g[p] + c * h[p]
    PROVE  SumOver(f) <= SumOver(g) + c * SumOver(h)
<1>0. NumPositions \in Nat
  BY PoolAssumption
<1>1. PICK sf : PartialSums(f, sf) /\ SumOver(f) = sf[NumPositions]
  BY SumIsLast
<1>2. PICK sg : PartialSums(g, sg) /\ SumOver(g) = sg[NumPositions]
  BY SumIsLast
<1>3. PICK sh : PartialSums(h, sh) /\ SumOver(h) = sh[NumPositions]
  BY SumIsLast
<1> DEFINE S == {n \in 0 .. NumPositions : sf[n] <= sg[n] + c * sh[n]}
<1>4. 0 \in S
  <2>1. sf[0] = 0 /\ sg[0] = 0 /\ sh[0] = 0 /\ c * 0 = 0
    BY <1>1, <1>2, <1>3 DEF PartialSums
  <2> QED BY <1>0, <2>1
<1>5. ASSUME NEW n \in 1 .. NumPositions, n - 1 \in S PROVE n \in S
  <2>1. n - 1 \in 0 .. NumPositions /\ n \in 0 .. NumPositions /\ n \in Position
    BY <1>0 DEF Position
  <2>2. sf[n] = sf[n - 1] + f[n] /\ sf[n - 1] \in Int /\ f[n] \in Int
    BY <1>1, <2>1 DEF PartialSums
  <2>3. sg[n] = sg[n - 1] + g[n] /\ sg[n - 1] \in Int /\ g[n] \in Int
    BY <1>2, <2>1 DEF PartialSums
  <2>4. sh[n] = sh[n - 1] + h[n] /\ sh[n - 1] \in Int /\ h[n] \in Int
    BY <1>3, <2>1 DEF PartialSums
  <2>5. c * sh[n] = c * sh[n - 1] + c * h[n]
    BY <2>4
  <2>6. sf[n - 1] <= sg[n - 1] + c * sh[n - 1] /\ f[n] <= g[n] + c * h[n]
    BY <1>5, <2>1
  <2>7. c * sh[n - 1] \in Int /\ c * h[n] \in Int
    BY <2>4
  <2>8. sf[n] <= sg[n] + c * sh[n]
    BY <2>2, <2>3, <2>5, <2>6, <2>7
  <2> QED BY <2>1, <2>8
<1>6. S \in SUBSET (0 .. NumPositions)
  OBVIOUS
<1> HIDE DEF S
<1>7. NumPositions \in S
  BY <1>0, <1>4, <1>5, <1>6, Reaches, NumPositions \in 0 .. NumPositions
<1> QED BY <1>1, <1>2, <1>3, <1>7 DEF S

----------------------------------------------------------------------------
(* The growth inside a range whose two ends are initialized.               *)

\* next_fee_growths_inside and next_reward_growths_inside where both ends are in use.
InsideInUse(tick, g, lo, a, up, b) == GrowthInside(tick, g, lo, TRUE, a, up, TRUE, b)

\* Where the tick is outside the range it is the difference of what is recorded there.
LEMMA InsideCases ==
    ASSUME NEW tick \in Int, NEW g \in U128, NEW lo \in Int, NEW a \in U128, NEW up \in Int,
           NEW b \in U128, lo < up
    PROVE  InsideInUse(tick, g, lo, a, up, b) =
             IF tick < lo THEN WrappingSub(a, b)
             ELSE IF tick < up THEN WrappingSub(WrappingSub(g, a), b)
             ELSE WrappingSub(b, a)
<1>1. CASE tick < lo
  <2>1. tick < up
    BY <1>1
  <2> QED BY <1>1, <2>1, SubTwice DEF GrowthInside, InsideInUse
<1>2. CASE ~(tick < lo) /\ tick < up
  BY <1>2 DEF GrowthInside, InsideInUse
<1>3. CASE ~(tick < lo) /\ ~(tick < up)
  BY <1>3, SubSub DEF GrowthInside, InsideInUse
<1> QED BY <1>1, <1>2, <1>3

\* It is a u128, whatever wrapped.
LEMMA InUseType ==
    ASSUME NEW tick, NEW g \in U128, NEW lo, NEW a \in U128, NEW up, NEW b \in U128
    PROVE  InsideInUse(tick, g, lo, a, up, b) \in U128
<1>1. TRUE \in BOOLEAN
  OBVIOUS
<1> QED BY <1>1, GrowthInsideType DEF InsideInUse

\* What is recorded outside an end, a, stays when the tick stays on its side of the end,
\* and is turned over when it crosses it.
KeptOrTurned(a, a2, h, tick, new, end) ==
    \/ a2 = a /\ (tick < end <=> new < end)
    \/ a2 = WrappingSub(h, a) /\ (tick < end <=> ~(new < end))

(***************************************************************************)
(* A step of the price: the growth went from g to h while the tick was in  *)
(* place, and then the tick moved.  It stays on its side of an end, or it  *)
(* crosses it and what is recorded there is turned over.  The growth of    *)
(* the step then shows inside the range if the tick was inside it.         *)
(***************************************************************************)
LEMMA InsideMoves ==
    ASSUME NEW tick \in Int, NEW new \in Int, NEW g \in U128, NEW d \in U128, NEW h \in U128,
           h = WrappingAdd(g, d),
           NEW lo \in Int, NEW up \in Int, lo < up,
           NEW a \in U128, NEW b \in U128, NEW a2 \in U128, NEW b2 \in U128,
           KeptOrTurned(a, a2, h, tick, new, lo), KeptOrTurned(b, b2, h, tick, new, up)
    PROVE  LET before == InsideInUse(tick, g, lo, a, up, b)
               after == InsideInUse(new, h, lo, a2, up, b2)
           IN  after = IF lo <= tick /\ tick < up THEN WrappingAdd(before, d) ELSE before
<1> DEFINE before == InsideInUse(tick, g, lo, a, up, b)
           after == InsideInUse(new, h, lo, a2, up, b2)
<1>0. /\ tick \in Int /\ new \in Int /\ g \in U128 /\ h \in U128 /\ lo \in Int /\ up \in Int
      /\ lo < up /\ a \in U128 /\ b \in U128 /\ a2 \in U128 /\ b2 \in U128
  OBVIOUS
<1>1. before = IF tick < lo THEN WrappingSub(a, b)
               ELSE IF tick < up THEN WrappingSub(WrappingSub(g, a), b)
               ELSE WrappingSub(b, a)
  BY ONLY <1>0, InsideCases
<1>2. after = IF new < lo THEN WrappingSub(a2, b2)
              ELSE IF new < up THEN WrappingSub(WrappingSub(h, a2), b2)
              ELSE WrappingSub(b2, a2)
  BY ONLY <1>0, InsideCases
<1>3. h = WrappingAdd(g, d)
  OBVIOUS
<1>4. /\ WrappingSub(WrappingSub(h, a), b) = WrappingAdd(WrappingSub(WrappingSub(g, a), b), d)
      /\ WrappingSub(WrappingSub(h, b), a) = WrappingAdd(WrappingSub(WrappingSub(g, a), b), d)
  <2>1. WrappingSub(g, a) \in U128
    BY WrapCases
  <2>2. WrappingSub(h, a) = WrappingAdd(WrappingSub(g, a), d)
    BY <1>3, AddSubCommute
  <2>3. WrappingSub(WrappingAdd(WrappingSub(g, a), d), b)
          = WrappingAdd(WrappingSub(WrappingSub(g, a), b), d)
    BY <2>1, AddSubCommute
  <2>4. WrappingSub(WrappingSub(h, b), a) = WrappingSub(WrappingSub(h, a), b)
    BY SubCommutes
  <2> QED BY <2>2, <2>3, <2>4
<1>5. /\ WrappingSub(h, WrappingSub(h, a)) = a
      /\ WrappingSub(h, WrappingSub(h, b)) = b
      /\ WrappingSub(WrappingSub(h, a), WrappingSub(h, b)) = WrappingSub(b, a)
      /\ WrappingSub(WrappingSub(h, b), WrappingSub(h, a)) = WrappingSub(a, b)
  BY SubTwice, SubSub
<1>6. (tick < lo => tick < up) /\ (new < lo => new < up) /\ (lo <= tick <=> ~(tick < lo))
  OBVIOUS
<1>7. /\ \/ a2 = a /\ (tick < lo <=> new < lo)
         \/ a2 = WrappingSub(h, a) /\ (tick < lo <=> ~(new < lo))
      /\ \/ b2 = b /\ (tick < up <=> new < up)
         \/ b2 = WrappingSub(h, b) /\ (tick < up <=> ~(new < up))
  BY DEF KeptOrTurned
<1> HIDE DEF before, after
<1>8. ASSUME tick < lo PROVE after = before
  BY ONLY <1>1, <1>2, <1>5, <1>6, <1>7, <1>8
<1>9. ASSUME ~(tick < lo), tick < up PROVE after = WrappingAdd(before, d)
  BY ONLY <1>1, <1>2, <1>4, <1>6, <1>7, <1>9
<1>10. ASSUME ~(tick < lo), ~(tick < up) PROVE after = before
  BY ONLY <1>1, <1>2, <1>5, <1>6, <1>7, <1>10
<1>11. after = IF lo <= tick /\ tick < up THEN WrappingAdd(before, d) ELSE before
  BY <1>6, <1>8, <1>9, <1>10
<1> QED BY ONLY <1>11 DEF before, after

\* Growth where the tick stays is inside if the tick is.
LEMMA InsideGrows ==
    ASSUME NEW tick \in Int, NEW g \in U128, NEW d \in U128, NEW lo \in Int, NEW up \in Int,
           lo < up, NEW a \in U128, NEW b \in U128
    PROVE  LET before == InsideInUse(tick, g, lo, a, up, b)
               after == InsideInUse(tick, WrappingAdd(g, d), lo, a, up, b)
           IN  after = IF lo <= tick /\ tick < up THEN WrappingAdd(before, d) ELSE before
<1> DEFINE h == WrappingAdd(g, d)
<1>1. h \in U128 /\ WrappingSub(g, a) \in U128
  BY WrapCases
<1>2. WrappingSub(WrappingSub(h, a), b) = WrappingAdd(WrappingSub(WrappingSub(g, a), b), d)
  BY <1>1, AddSubCommute
<1> HIDE DEF h
<1>3. InsideInUse(tick, h, lo, a, up, b) =
        IF tick < lo THEN WrappingSub(a, b)
        ELSE IF tick < up THEN WrappingSub(WrappingSub(h, a), b)
        ELSE WrappingSub(b, a)
  BY <1>1, InsideCases
<1>4. InsideInUse(tick, g, lo, a, up, b) =
        IF tick < lo THEN WrappingSub(a, b)
        ELSE IF tick < up THEN WrappingSub(WrappingSub(g, a), b)
        ELSE WrappingSub(b, a)
  BY InsideCases
<1>5. lo <= tick <=> ~(tick < lo)
  OBVIOUS
<1> DEFINE before == InsideInUse(tick, g, lo, a, up, b)
           after == InsideInUse(tick, h, lo, a, up, b)
<1>6. after = IF lo <= tick /\ tick < up THEN WrappingAdd(before, d) ELSE before
  BY <1>2, <1>3, <1>4, <1>5
<1> QED BY <1>6 DEF h

\* A tick that comes into use counts all growth so far as below it, as if it had been
\* in use: the growth inside stays what it was.
LEMMA InsideInitialized ==
    ASSUME NEW tick \in Int, NEW g \in U128, NEW lo \in Int, NEW up \in Int,
           NEW loInit \in BOOLEAN, NEW upInit \in BOOLEAN, NEW a \in U128, NEW b \in U128
    PROVE  InsideInUse(tick, g, lo, IF loInit THEN a ELSE IF tick >= lo THEN g ELSE 0,
                       up, IF upInit THEN b ELSE IF tick >= up THEN g ELSE 0)
             = GrowthInside(tick, g, lo, loInit, a, up, upInit, b)
<1>1. WrappingSub(g, 0) = g /\ WrappingSub(g, g) = 0
  BY WrapZero
<1> QED BY <1>1 DEF GrowthInside, InsideInUse

----------------------------------------------------------------------------
(* An iteration of a swap: where the tick goes, and what becomes of the    *)
(* growth outside the ticks in use.                                        *)

\* SwapStep, with the names of what it looks up and computes.
Iteration(j, t, c) ==
    /\ ~Idle /\ SwapRunning(swap) /\ CanSearch(swap)
    /\ j = NextArrayIndex(swap)
    /\ t = NextTick(swap, j)
    /\ c = SwapComputation(pool, swap, t)
    /\ StepOk(pool, swap, j, t, c)
    /\ swap' = StepSwap(pool, swap, j, t, c, NewRewardInfos)
    /\ UNCHANGED <<pool, ticks, arrays, positions, vault, now, budget, emitted, paid>>

\* Every SwapStep is one.
LEMMA StepIsIteration ==
    ASSUME SwapStep
    PROVE  \E j, t, c : Iteration(j, t, c)
<1>1. ~Idle /\ SwapRunning(swap) /\ CanSearch(swap)
  BY DEF SwapStep
<1>2. PICK j \in {NextArrayIndex(swap)} : \E t \in {NextTick(swap, j)} :
        \E c \in {SwapComputation(pool, swap, t)} :
           /\ StepOk(pool, swap, j, t, c)
           /\ swap' = StepSwap(pool, swap, j, t, c, NewRewardInfos)
  BY DEF SwapStep
<1>3. PICK t \in {NextTick(swap, j)} : \E c \in {SwapComputation(pool, swap, t)} :
           /\ StepOk(pool, swap, j, t, c)
           /\ swap' = StepSwap(pool, swap, j, t, c, NewRewardInfos)
  BY <1>2
<1>4. PICK c \in {SwapComputation(pool, swap, t)} :
           /\ StepOk(pool, swap, j, t, c)
           /\ swap' = StepSwap(pool, swap, j, t, c, NewRewardInfos)
  BY <1>3
<1>5. UNCHANGED <<pool, ticks, arrays, positions, vault, now, budget, emitted, paid>>
  BY DEF SwapStep
<1> QED BY <1>1, <1>2, <1>3, <1>4, <1>5 DEF Iteration

\* It crosses a tick when it reaches one that is initialized.
Crossed(j, t, c) == c.next_price = SqrtPrice[t] /\ CrossesTick(swap, j, t)

\* The fields of the swap after it.
LEMMA IterationFields ==
    ASSUME TypeOK, NEW j, NEW t, NEW c, Iteration(j, t, c)
    PROVE  /\ swap'.args = swap.args
           /\ swap'.amount_remaining = AmountRemaining(swap, c)
           /\ swap'.amount_calculated = AmountCalculated(swap, c)
           /\ swap'.curr_protocol_fee = NextProtocolFee(pool, swap, c)
           /\ swap'.curr_fee_growth_global_input = NextFeeGrowth(pool, swap, c)
           /\ swap'.ticks = IF Crossed(j, t, c)
                            THEN TicksAfterCross(pool, swap, t, c, NewRewardInfos)
                            ELSE swap.ticks
           /\ swap'.curr_tick_index = IF c.next_price = SqrtPrice[t] THEN TickAfterTick(swap, t)
                                      ELSE TickAfterShortStep(swap, c.next_price)
           /\ swap'.curr_sqrt_price = c.next_price
<1>1. swap \in SwapType
  BY DEF TypeOK, Iteration, Idle
<1>2. swap' = StepSwap(pool, swap, j, t, c, NewRewardInfos)
  BY DEF Iteration
<1> QED BY <1>1, <1>2 DEF StepSwap, SwapType, Crossed

\* Between the tick and where the search ends no other tick is initialized.
LEMMA IterationSearch ==
    ASSUME IInv, ArraysLoaded, NEW j, NEW t, NEW c, Iteration(j, t, c)
    PROVE  /\ t \in TickIndex
           /\ IF swap.args.a_to_b THEN t <= swap.curr_tick_index ELSE swap.curr_tick_index < t
           /\ \A u \in UsableTick :
                swap.ticks[u].initialized
                /\ (IF swap.args.a_to_b THEN t <= u /\ u <= swap.curr_tick_index
                    ELSE swap.curr_tick_index < u /\ u <= t)
                => u = t /\ u \in TicksOf(swap.args.arrays[j])
<1> DEFINE s == swap
           T == swap.ticks
           tick == swap.curr_tick_index
           aToB == swap.args.a_to_b
<1>1. /\ s \in SwapType /\ s.args \in SwapRequest
      /\ T \in [UsableTick -> TickType] /\ aToB \in BOOLEAN
      /\ s.args.arrays \in Seq(Int)
      /\ s.curr_array_index \in Nat \ {0}
      /\ tick \in Int /\ tick \in MIN_TICK_INDEX - 1 .. MAX_TICK_INDEX
  BY SwapArgsType, SqrtPriceRangeType
     DEF IInv, TypeOK, Idle, SwapType, CurrentTick, Iteration
<1>2. /\ t \in TickIndex
      /\ IF aToB THEN t <= tick ELSE tick < t
  BY SearchInv DEF Iteration
<1>3. ASSUME NEW u \in UsableTick, T[u].initialized,
             IF aToB THEN t <= u /\ u <= tick ELSE tick < u /\ u <= t
      PROVE  u = t /\ u \in TicksOf(s.args.arrays[j])
  <2>1. Len(s.args.arrays) <= 3
    BY DEF IInv, SwapWithinLimits, Iteration
  <2>2. \A i \in 1 .. Len(s.args.arrays) : IsValidStartTick(s.args.arrays[i])
    BY DEF ArraysLoaded, IInv, TypeOK, ArrayStart, Iteration
  <2>3. SearchOk(T, s.args.arrays, s.curr_array_index, tick, aToB)
    BY DEF CanSearch, Iteration
  <2>4. /\ j = StopArray(T, s.args.arrays, s.curr_array_index, tick, aToB)
        /\ t = NextTickIndex(T, s.args.arrays, j, s.curr_array_index, tick, aToB)
    BY DEF NextArrayIndex, NextTick, Iteration
  <2> DEFINE A == s.args.arrays
             k == s.curr_array_index
  <2>5. /\ A \in Seq(Int) /\ k \in Nat \ {0} /\ aToB \in BOOLEAN
        /\ tick \in MIN_TICK_INDEX - 1 .. MAX_TICK_INDEX
        /\ u \in UsableTick /\ T[u].initialized
        /\ IF aToB THEN t <= u /\ u <= tick ELSE tick < u /\ u <= t
    BY <1>1, <1>3
  <2> HIDE DEF s, T, tick, aToB, A, k
  <2>6. /\ Len(A) <= 3
        /\ \A i \in 1 .. Len(A) : IsValidStartTick(A[i])
        /\ SearchOk(T, A, k, tick, aToB)
        /\ j = StopArray(T, A, k, tick, aToB)
        /\ t = NextTickIndex(T, A, j, k, tick, aToB)
    BY <2>1, <2>2, <2>3, <2>4 DEF A, k
  <2>7. u = t /\ u \in TicksOf(A[j])
    BY ONLY <2>5, <2>6, SearchSkipsNothing
  <2> QED BY <2>7 DEF A, s
<1> QED BY <1>2, <1>3

\* The price and the tick move the swap's way, and no further than the tick searched for.
LEMMA IterationTick ==
    ASSUME IInv, NEW j, NEW t \in TickIndex, NEW c, Iteration(j, t, c)
    PROVE  LET tick == swap.curr_tick_index
               new == swap'.curr_tick_index
               reached == c.next_price = SqrtPrice[t]
           IN  /\ tick \in Int /\ new \in Int /\ t \in Int
               /\ c.next_price \in SqrtPriceRange
               /\ IF swap.args.a_to_b
                  THEN /\ SqrtPrice[t] <= c.next_price /\ c.next_price <= swap.curr_sqrt_price
                       /\ IF reached THEN new = t - 1 ELSE t <= new /\ new <= tick
                  ELSE /\ swap.curr_sqrt_price <= c.next_price /\ c.next_price <= SqrtPrice[t]
                       /\ IF reached THEN new = t ELSE tick <= new /\ new <= t - 1
<1> DEFINE s == swap
           tick == swap.curr_tick_index
           aToB == swap.args.a_to_b
           reached == c.next_price = SqrtPrice[t]
           new == swap'.curr_tick_index
           short == TickAfterShortStep(s, c.next_price)
<1>0. TypeOK
  BY DEF IInv
<1>1. /\ s \in SwapType /\ s.args \in SwapRequest /\ aToB \in BOOLEAN
      /\ tick \in CurrentTick /\ s.curr_sqrt_price \in SqrtPriceRange
      /\ tick \in Int /\ t \in Int
      /\ IF aToB THEN t <= tick ELSE tick < t
      /\ SqrtPriceTarget(s, t) \in SqrtPriceRange
      /\ SqrtPrice[t] \in Nat
  <2>1. /\ s \in SwapType /\ s.args \in SwapRequest /\ aToB \in BOOLEAN
        /\ tick \in CurrentTick /\ s.curr_sqrt_price \in SqrtPriceRange
        /\ tick \in Int
    BY SwapArgsType, SqrtPriceRangeType DEF IInv, TypeOK, Idle, SwapType, Iteration
  <2>2. /\ IF aToB THEN t <= tick ELSE tick < t
        /\ SqrtPriceTarget(s, t) \in SqrtPriceRange
    BY SearchInv DEF Iteration
  <2>3. t \in Int
    BY MathAssumption DEF TickIndex
  <2> QED BY <2>1, <2>2, <2>3, SqrtPriceType
<1>2. /\ c.next_price \in SqrtPriceRange
      /\ BetweenPriceAndLimit(s, c.next_price)
      /\ IF aToB THEN SqrtPriceTarget(s, t) <= c.next_price
         ELSE c.next_price <= SqrtPriceTarget(s, t)
  BY ComputationInv DEF StepOk, Iteration
<1>3. /\ s.args.sqrt_price_limit \in Nat /\ c.next_price \in Nat
      /\ s.curr_sqrt_price \in Nat
  BY <1>1, <1>2, SqrtPriceRangeType DEF IInv, SwapWithinLimits, Iteration
<1>4. IF aToB THEN SqrtPrice[t] <= c.next_price /\ c.next_price <= s.curr_sqrt_price
      ELSE s.curr_sqrt_price <= c.next_price /\ c.next_price <= SqrtPrice[t]
  BY <1>1, <1>2, <1>3 DEF SqrtPriceTarget, BetweenPriceAndLimit, Greater, Lesser
<1>5. ~reached => short \in Int
                  /\ IF aToB THEN t <= short /\ short <= tick ELSE tick <= short /\ short <= t - 1
  <2>1. CASE c.next_price = s.curr_sqrt_price
    <3>1. short = tick
      BY <2>1 DEF TickAfterShortStep
    <3> HIDE DEF short, tick, aToB
    <3> QED BY <1>1, <3>1
  <2>2. CASE c.next_price # s.curr_sqrt_price /\ ~reached
    <3>1. short = TickIndexFromSqrtPrice(c.next_price)
      BY <2>2 DEF TickAfterShortStep
    <3>2. PriceIsAt(s.curr_sqrt_price, tick)
      BY DEF IInv, PriceMatchesTick, Iteration
    <3> HIDE DEF short, tick, aToB, s
    <3> QED BY <1>1, <1>2, <1>4, <2>2, <3>1, <3>2, ShortStepTick
  <2> QED BY <2>1, <2>2
<1>6. new = IF reached THEN (IF aToB THEN t - 1 ELSE t) ELSE short
  BY <1>0, IterationFields DEF TickAfterTick
<1> HIDE DEF short, tick, aToB, s, reached, new
<1>7. /\ tick \in Int /\ new \in Int /\ t \in Int
      /\ c.next_price \in SqrtPriceRange
      /\ IF aToB
         THEN /\ SqrtPrice[t] <= c.next_price /\ c.next_price <= s.curr_sqrt_price
              /\ IF reached THEN new = t - 1 ELSE t <= new /\ new <= tick
         ELSE /\ s.curr_sqrt_price <= c.next_price /\ c.next_price <= SqrtPrice[t]
              /\ IF reached THEN new = t ELSE tick <= new /\ new <= t - 1
  BY <1>1, <1>2, <1>4, <1>5, <1>6
<1> QED BY <1>7 DEF tick, new, reached, aToB, s

\* Of the initialized ticks it changes sides with the one it crosses only.
LEMMA IterationSides ==
    ASSUME IInv, ArraysLoaded, NEW j, NEW t, NEW c, Iteration(j, t, c),
           NEW u \in UsableTick, swap.ticks[u].initialized
    PROVE  IF u = t /\ Crossed(j, t, c)
           THEN swap.curr_tick_index < u <=> ~(swap'.curr_tick_index < u)
           ELSE swap.curr_tick_index < u <=> swap'.curr_tick_index < u
<1> DEFINE tick == swap.curr_tick_index
           aToB == swap.args.a_to_b
           reached == c.next_price = SqrtPrice[t]
           new == swap'.curr_tick_index
           crossed == Crossed(j, t, c)
<1>1. /\ t \in TickIndex /\ u \in Int /\ aToB \in BOOLEAN
      /\ IF aToB THEN t <= tick ELSE tick < t
      /\ (IF aToB THEN t <= u /\ u <= tick ELSE tick < u /\ u <= t)
             => u = t /\ u \in TicksOf(swap.args.arrays[j])
  BY IterationSearch, SqrtPriceRangeType, SwapArgsType
     DEF IInv, TypeOK, SwapType, Iteration, Idle
<1>2. /\ tick \in Int /\ new \in Int /\ t \in Int
      /\ IF aToB
         THEN IF reached THEN new = t - 1 ELSE t <= new /\ new <= tick
         ELSE IF reached THEN new = t ELSE tick <= new /\ new <= t - 1
  BY <1>1, IterationTick
<1>3. u = t => (crossed <=> reached)
  <2>1. ASSUME u = t PROVE CrossesTick(swap, j, t)
    <3>1. IF aToB THEN t <= u /\ u <= tick ELSE tick < u /\ u <= t
      BY <1>1, <1>2, <2>1
    <3> QED BY <1>1, <2>1, <3>1 DEF CrossesTick, IsInitializedTick
  <2> QED BY <2>1 DEF Crossed
<1> HIDE DEF tick, aToB, reached, new, crossed
<1>4. IF u = t /\ crossed THEN tick < u <=> ~(new < u) ELSE tick < u <=> new < u
  <2>1. CASE aToB /\ reached
    BY <1>1, <1>2, <1>3, <2>1
  <2>2. CASE aToB /\ ~reached
    BY <1>1, <1>2, <1>3, <2>2
  <2>3. CASE ~aToB /\ reached
    BY <1>1, <1>2, <1>3, <2>3
  <2>4. CASE ~aToB /\ ~reached
    BY <1>1, <1>2, <1>3, <2>4
  <2> QED BY <1>1, <2>1, <2>2, <2>3, <2>4
<1> QED BY <1>4 DEF tick, new, crossed


----------------------------------------------------------------------------
(* What grew inside the range of a position.  Only a position with         *)
(* liquidity earns, and the ticks at its ends are initialized; what the    *)
(* others would be shown is of no matter.                                  *)

\* The ends of a position with liquidity are ticks in use, in order.
LEMMA LiveEnds ==
    ASSUME NEW P \in PositionsType, \A q \in Position : IsOrdered(P[q]),
           NEW T \in [UsableTick -> TickType], TicksAgree(T, P),
           NEW p \in Position, P[p].liquidity # 0
    PROVE  LET lo == P[p].tick_lower_index
               up == P[p].tick_upper_index
           IN  /\ lo \in UsableTick /\ up \in UsableTick /\ lo \in TickIndex /\ up \in TickIndex
               /\ lo \in Int /\ up \in Int /\ lo < up
               /\ \A t \in {lo, up} : T[t].initialized /\ T[t].liquidity_gross # 0
<1> DEFINE lo == P[p].tick_lower_index
           up == P[p].tick_upper_index
<1>1. lo \in UsableTick /\ up \in UsableTick
  BY DEF PositionsType, PositionType
<1>2. lo \in TickIndex /\ up \in TickIndex /\ lo \in Int /\ up \in Int
  BY <1>1, SqrtPriceRangeType
<1>3. lo < up
  BY DEF IsOrdered, PositionsType, PositionType
<1>4. ASSUME NEW t \in {lo, up} PROVE T[t].initialized /\ T[t].liquidity_gross # 0
  <2>1. Matches(T[t], P, t) /\ IsClean(T[t])
    BY <1>1 DEF TicksAgree
  <2>2. /\ SumOver(From(P, t)) \in Nat /\ From(P, t)[p] <= SumOver(From(P, t))
        /\ SumOver(UpTo(P, t)) \in Nat /\ UpTo(P, t)[p] <= SumOver(UpTo(P, t))
    BY PlacesType, SumOfNats
  <2>3. /\ From(P, t)[p] = IF lo = t THEN P[p].liquidity ELSE 0
        /\ UpTo(P, t)[p] = IF up = t THEN P[p].liquidity ELSE 0
        /\ P[p].liquidity \in Nat
    BY WidthsAreNumbers DEF From, UpTo, PositionsType, PositionType
  <2>4. T[t].liquidity_gross # 0
    BY <2>1, <2>2, <2>3 DEF Matches
  <2> QED BY <2>1, <2>4 DEF IsClean
<1> QED BY <1>1, <1>2, <1>3, <1>4

\* The growth inside a position's range, of the fees in token k or of reward r, where
\* the ticks are T, the current tick is tick and the growth so far is g.
FeeInside(pos, T, tick, g, k) ==
    InsideInUse(tick, g, pos.tick_lower_index, T[pos.tick_lower_index].fee_growth_outside[k],
                pos.tick_upper_index, T[pos.tick_upper_index].fee_growth_outside[k])

RewardInside(pos, T, tick, g, r) ==
    InsideInUse(tick, g, pos.tick_lower_index, T[pos.tick_lower_index].reward_growths_outside[r],
                pos.tick_upper_index, T[pos.tick_upper_index].reward_growths_outside[r])

\* They are u128 numbers.
LEMMA InsideInUseType ==
    ASSUME NEW pos \in PositionType, NEW T \in [UsableTick -> TickType], NEW tick,
           NEW g \in U128
    PROVE  /\ \A k \in Token : FeeInside(pos, T, tick, g, k) \in U128
           /\ \A r \in Reward : RewardInside(pos, T, tick, g, r) \in U128
<1>1. /\ T[pos.tick_lower_index] \in TickType /\ T[pos.tick_upper_index] \in TickType
  BY DEF PositionType
<1>2. ASSUME NEW k \in Token PROVE FeeInside(pos, T, tick, g, k) \in U128
  <2>1. /\ T[pos.tick_lower_index].fee_growth_outside[k] \in U128
        /\ T[pos.tick_upper_index].fee_growth_outside[k] \in U128
    BY <1>1 DEF TickType
  <2>2. TRUE \in BOOLEAN
    OBVIOUS
  <2> QED BY <2>1, <2>2, GrowthInsideType DEF FeeInside, InsideInUse
<1>3. ASSUME NEW r \in Reward PROVE RewardInside(pos, T, tick, g, r) \in U128
  <2>1. /\ T[pos.tick_lower_index].reward_growths_outside[r] \in U128
        /\ T[pos.tick_upper_index].reward_growths_outside[r] \in U128
    BY <1>1 DEF TickType
  <2> QED BY <2>1, GrowthInsideType DEF RewardInside, InsideInUse
<1> QED BY <1>2, <1>3

\* For a position with liquidity they are what the instructions compute.
LEMMA InsidesOfLive ==
    ASSUME NEW P \in PositionsType, \A q \in Position : IsOrdered(P[q]),
           NEW T \in [UsableTick -> TickType], TicksAgree(T, P),
           NEW p \in Position, P[p].liquidity # 0, NEW thePool, NEW infos
    PROVE  LET lo == P[p].tick_lower_index
               up == P[p].tick_upper_index
               tick == thePool.tick_current_index
           IN  /\ \A k \in Token :
                    NextFeeGrowthsInside(thePool, P[p], T[lo], T[up])[k]
                      = FeeInside(P[p], T, tick, thePool.fee_growth_global[k], k)
               /\ \A r \in Reward :
                    NextRewardGrowthsInside(thePool, P[p], T[lo], T[up], infos)[r]
                      = IF infos[r].initialized
                        THEN RewardInside(P[p], T, tick, infos[r].growth_global, r)
                        ELSE 0
<1> DEFINE lo == P[p].tick_lower_index
           up == P[p].tick_upper_index
<1>1. T[lo].initialized = TRUE /\ T[up].initialized = TRUE
  <2>1. T[lo].initialized /\ T[up].initialized
    BY LiveEnds
  <2>2. T[lo].initialized \in BOOLEAN /\ T[up].initialized \in BOOLEAN
    BY DEF TickType, PositionType, PositionsType
  <2> QED BY <2>1, <2>2
<1> QED BY <1>1, Zenon DEF NextFeeGrowthsInside, NextRewardGrowthsInside, FeeInside,
                           RewardInside, InsideInUse

\* The accounts' own.
LEMMA InsidesComputed ==
    ASSUME TypeOK, LedgerInv, NEW p \in Position, positions[p].liquidity # 0
    PROVE  /\ \A k \in Token : FeesInside(p)[k] =
                FeeInside(positions[p], ticks, pool.tick_current_index,
                          pool.fee_growth_global[k], k)
           /\ \A r \in Reward : RewardsInside(p)[r] =
                IF NewRewardInfos[r].initialized
                THEN RewardInside(positions[p], ticks, pool.tick_current_index,
                                  NewRewardInfos[r].growth_global, r)
                ELSE 0
<1>1. /\ positions \in PositionsType /\ ticks \in [UsableTick -> TickType]
      /\ TicksAgree(ticks, positions) /\ \A q \in Position : IsOrdered(positions[q])
  BY DEF TypeOK, LedgerInv, PositionsType
<1>2. ASSUME NEW k \in Token
      PROVE  FeesInside(p)[k] = FeeInside(positions[p], ticks, pool.tick_current_index,
                                          pool.fee_growth_global[k], k)
  BY <1>1, InsidesOfLive DEF FeesInside
<1>3. ASSUME NEW r \in Reward
      PROVE  RewardsInside(p)[r] =
               IF NewRewardInfos[r].initialized
               THEN RewardInside(positions[p], ticks, pool.tick_current_index,
                                 NewRewardInfos[r].growth_global, r)
               ELSE 0
  <2> DEFINE infos == NewRewardInfos
  <2>1. RewardsInside(p)[r] =
          NextRewardGrowthsInside(pool, positions[p], ticks[positions[p].tick_lower_index],
                                  ticks[positions[p].tick_upper_index], infos)[r]
    BY DEF RewardsInside
  <2> HIDE DEF infos
  <2>2. NextRewardGrowthsInside(pool, positions[p], ticks[positions[p].tick_lower_index],
                                ticks[positions[p].tick_upper_index], infos)[r]
          = IF infos[r].initialized
            THEN RewardInside(positions[p], ticks, pool.tick_current_index,
                              infos[r].growth_global, r)
            ELSE 0
    BY <1>1, InsidesOfLive
  <2> QED BY <2>1, <2>2 DEF infos
<1> QED BY <1>2, <1>3

----------------------------------------------------------------------------
(* What an iteration of a swap adds to it.                                 *)

\* calculate_fees: the protocol's share is of the fee, and what the liquidity earns by
\* the growth is at most the rest.
LEMMA FeeSplit ==
    ASSUME NEW fee \in Nat, NEW rate \in 0 .. PROTOCOL_FEE_RATE_MUL_VALUE, NEW L \in Nat
    PROVE  /\ CalculateProtocolFee(fee, rate) \in 0 .. fee
           /\ FeeGrowth(fee, rate, L) \in Nat
           /\ L * FeeGrowth(fee, rate, L) <= (fee - CalculateProtocolFee(fee, rate)) * Q64
<1> DEFINE M == PROTOCOL_FEE_RATE_MUL_VALUE
           share == CalculateProtocolFee(fee, rate)
           growth == FeeGrowth(fee, rate, L)
<1>0. M \in Nat \ {0} /\ Q64 \in Nat /\ rate \in Nat /\ rate <= M
  BY MathAssumption
<1>1. share \in 0 .. fee
  <2>1. fee * rate \in Nat /\ M * 0 <= fee * rate
    BY <1>0, MulNat
  <2>2. fee * rate <= fee * M /\ fee * M = M * fee
    BY <1>0, MulMono
  <2> HIDE DEF M
  <2>3. fee * rate <= M * fee
    BY <2>2
  <2>4. (fee * rate) \div M \in Nat /\ (fee * rate) \div M <= fee
    BY ONLY <1>0, <2>1, <2>3, FloorBetween, fee \in Nat, 0 \in Nat
  <2> QED BY <2>4 DEF CalculateProtocolFee, M
<1> HIDE DEF share
<1>2. (fee - share) * Q64 \in Nat
  <2>1. fee - share \in Nat
    BY <1>1
  <2> QED BY <1>0, <2>1, MulNat
<1>3. CASE L = 0
  <2>1. growth = 0 /\ L * 0 = 0
    BY <1>3 DEF FeeGrowth
  <2> QED BY <1>1, <1>2, <1>3, <2>1 DEF share
<1>4. CASE L # 0
  <2> DEFINE n == (fee - share) * Q64
  <2>1. growth = n \div L
    BY <1>4 DEF FeeGrowth, share
  <2> HIDE DEF n, growth
  <2>2. growth \in Nat /\ L * growth <= n
    BY <1>2, <1>4, <2>1, DivType DEF n
  <2> QED BY <1>1, <2>2 DEF n, growth, share
<1> QED BY <1>3, <1>4

\* The growth of fees in a token as a swap in progress has it.
SwapGrowth(k) ==
    IF k = InputToken(swap.args) THEN swap.curr_fee_growth_global_input
    ELSE pool.fee_growth_global[k]

\* What the step adds to that of its input token.
StepGrowth(c) == FeeGrowth(c.fee_amount, pool.protocol_fee_rate, swap.curr_liquidity)

\* The growths are u128 numbers, and the step adds no more than fits.
LEMMA StepGrowthType ==
    ASSUME IInv, NEW j, NEW t, NEW c, Iteration(j, t, c)
    PROVE  /\ StepGrowth(c) \in U128
           /\ \A k \in Token :
                /\ SwapGrowth(k) \in U128 /\ SwapGrowth(k)' \in U128
                /\ SwapGrowth(k)' = SwapGrowth(k) +
                      (IF k = InputToken(swap.args) THEN StepGrowth(c) ELSE 0)
<1>1. TypeOK /\ swap \in SwapType /\ pool \in PoolType /\ pool' = pool
  BY DEF IInv, TypeOK, Iteration, Idle
<1>2. swap'.curr_fee_growth_global_input = NextFeeGrowth(pool, swap, c) /\ swap'.args = swap.args
  BY <1>1, IterationFields
<1>3. NextFeeGrowth(pool, swap, c) \in U128
  BY DEF Iteration, StepOk
<1>4. c.fee_amount \in Nat
  <2>1. t \in TickIndex
    BY SearchInv DEF Iteration
  <2>2. c.fee_amount \in U64
    BY <2>1, ComputationInv DEF Iteration, StepOk
  <2> QED BY <2>2, WidthsAreNumbers
<1>5. pool.protocol_fee_rate \in 0 .. PROTOCOL_FEE_RATE_MUL_VALUE
  <2>1. pool.protocol_fee_rate \in 0 .. MAX_PROTOCOL_FEE_RATE
    BY <1>1 DEF PoolType
  <2>2. MAX_PROTOCOL_FEE_RATE \in 0 .. PROTOCOL_FEE_RATE_MUL_VALUE
    BY PoolAssumption
  <2> QED BY <2>1, <2>2, MathAssumption
<1>6. swap.curr_liquidity \in Nat
  BY <1>1, WidthsAreNumbers DEF SwapType
<1>7. StepGrowth(c) \in Nat
  BY <1>4, <1>5, <1>6, FeeSplit DEF StepGrowth
<1>8. swap.curr_fee_growth_global_input \in U128
  BY <1>1 DEF SwapType
<1>9. NextFeeGrowth(pool, swap, c) = swap.curr_fee_growth_global_input + StepGrowth(c)
  BY DEF NextFeeGrowth, StepGrowth
<1>10. StepGrowth(c) \in U128
  BY <1>3, <1>7, <1>8, <1>9, U128Below
<1>11. \A k \in Token : pool.fee_growth_global[k] \in U128 /\ pool.fee_growth_global[k] \in Int
  BY <1>1, WidthsAreNumbers DEF PoolType
<1>12. \A k \in Token : /\ SwapGrowth(k)' = (IF k = InputToken(swap.args)
                                              THEN NextFeeGrowth(pool, swap, c)
                                              ELSE pool.fee_growth_global[k])
  BY <1>1, <1>2 DEF SwapGrowth
<1> QED BY <1>3, <1>8, <1>9, <1>10, <1>11, <1>12 DEF SwapGrowth

\* The position's range holds the tick.
InRange(pos, tick) == pos.tick_lower_index <= tick /\ tick < pos.tick_upper_index

\* What has grown inside a position's range, as a swap in progress has it.
SwapFeeInside(p, k) ==
    FeeInside(positions[p], swap.ticks, swap.curr_tick_index, SwapGrowth(k), k)

SwapRewardInside(p, r) ==
    RewardInside(positions[p], swap.ticks, swap.curr_tick_index,
                 NewRewardInfos[r].growth_global, r)

\* What is recorded outside a tick is turned over when it is crossed.
LEMMA IterationOutside ==
    ASSUME IInv, NEW j, NEW t, NEW c, Iteration(j, t, c), NEW u \in UsableTick
    PROVE  LET crossed == u = t /\ Crossed(j, t, c)
               old == swap.ticks[u]
               new == swap'.ticks[u]
           IN  /\ \A k \in Token : new.fee_growth_outside[k] =
                    IF crossed THEN WrappingSub(SwapGrowth(k)', old.fee_growth_outside[k])
                    ELSE old.fee_growth_outside[k]
               /\ \A r \in Reward : new.reward_growths_outside[r] =
                    IF crossed /\ NewRewardInfos[r].initialized
                    THEN WrappingSub(NewRewardInfos[r].growth_global,
                                     old.reward_growths_outside[r])
                    ELSE old.reward_growths_outside[r]
<1> DEFINE old == swap.ticks[u]
           new == swap'.ticks[u]
           growth == [pool.fee_growth_global EXCEPT
                        ![InputToken(swap.args)] = NextFeeGrowth(pool, swap, c)]
<1>1. /\ TypeOK /\ swap \in SwapType /\ pool \in PoolType /\ pool' = pool
      /\ swap.ticks \in [UsableTick -> TickType] /\ old \in TickType
  BY DEF IInv, TypeOK, Iteration, Idle, SwapType
<1>2. /\ swap'.curr_fee_growth_global_input = NextFeeGrowth(pool, swap, c)
      /\ swap'.args = swap.args
      /\ swap'.ticks = IF Crossed(j, t, c)
                       THEN TicksAfterCross(pool, swap, t, c, NewRewardInfos)
                       ELSE swap.ticks
  BY <1>1, IterationFields
<1>3. \A k \in Token : growth[k] = SwapGrowth(k)'
  BY <1>1, <1>2 DEF SwapGrowth, PoolType
<1>4. CASE u = t /\ Crossed(j, t, c)
  <2>1. new = NextTickCrossUpdate(old, growth, NewRewardInfos)
    BY <1>1, <1>2, <1>4 DEF TicksAfterCross
  <2>2. new.fee_growth_outside = [k \in Token |-> WrappingSub(growth[k], old.fee_growth_outside[k])]
    BY <1>1, <2>1 DEF NextTickCrossUpdate, TickType
  <2>3. new.reward_growths_outside =
          [r \in Reward |-> IF NewRewardInfos[r].initialized
                            THEN WrappingSub(NewRewardInfos[r].growth_global,
                                             old.reward_growths_outside[r])
                            ELSE old.reward_growths_outside[r]]
    BY <1>1, <2>1 DEF NextTickCrossUpdate, TickType
  <2> QED BY <1>3, <1>4, <2>2, <2>3
<1>5. CASE ~(u = t /\ Crossed(j, t, c))
  <2>1. new = old
    BY <1>1, <1>2, <1>5 DEF TicksAfterCross
  <2> QED BY <1>5, <2>1
<1> QED BY <1>4, <1>5

\* Where the new rewards are, they are u128 numbers, whether initialized or not.
LEMMA NewRewardInfosType ==
    ASSUME TypeOK
    PROVE  \A r \in Reward : /\ NewRewardInfos[r].growth_global \in U128
                             /\ NewRewardInfos[r].emissions \in U128
                             /\ NewRewardInfos[r].initialized \in BOOLEAN
<1> SUFFICES ASSUME NEW r \in Reward
             PROVE /\ NewRewardInfos[r].growth_global \in U128
                   /\ NewRewardInfos[r].emissions \in U128
                   /\ NewRewardInfos[r].initialized \in BOOLEAN
  OBVIOUS
<1> QED BY RewardInfosType DEF TypeOK, NewRewardInfos, RewardInfos

(***************************************************************************)
(* An iteration adds the growth of its fees to what grew inside a range    *)
(* that holds the tick, and to no other; of the output token and of the    *)
(* rewards it adds nothing anywhere, though it turns over what is recorded *)
(* outside the tick it crosses.                                            *)
(***************************************************************************)
LEMMA IterationInside ==
    ASSUME IInv, LedgerInv, ArraysLoaded, NEW j, NEW t, NEW c, Iteration(j, t, c),
           NEW p \in Position, positions[p].liquidity # 0
    PROVE  /\ \A k \in Token : SwapFeeInside(p, k)' =
                IF k = InputToken(swap.args) /\ InRange(positions[p], swap.curr_tick_index)
                THEN WrappingAdd(SwapFeeInside(p, k), StepGrowth(c))
                ELSE SwapFeeInside(p, k)
           /\ \A r \in Reward : NewRewardInfos[r].initialized =>
                SwapRewardInside(p, r)' = SwapRewardInside(p, r)
<1> DEFINE pos == positions[p]
           lo == pos.tick_lower_index
           up == pos.tick_upper_index
           tick == swap.curr_tick_index
           new == swap'.curr_tick_index
           T == swap.ticks
           T2 == swap'.ticks
<1>1. /\ TypeOK /\ ~Idle /\ positions' = positions /\ pool' = pool /\ now' = now
      /\ swap \in SwapType /\ T \in [UsableTick -> TickType]
      /\ positions \in PositionsType /\ \A q \in Position : IsOrdered(positions[q])
      /\ TicksAgree(T, positions)
  BY DEF IInv, TypeOK, Iteration, Idle, SwapType, LedgerInv, PositionsType
<1>2. /\ lo \in UsableTick /\ up \in UsableTick /\ lo \in Int /\ up \in Int /\ lo < up
      /\ T[lo].initialized /\ T[up].initialized
  BY <1>1, LiveEnds
<1>3. tick \in Int /\ new \in Int
  <2>1. t \in TickIndex
    BY SearchInv DEF Iteration
  <2> QED BY <2>1, IterationTick
<1>4. /\ IF lo = t /\ Crossed(j, t, c) THEN tick < lo <=> ~(new < lo) ELSE tick < lo <=> new < lo
      /\ IF up = t /\ Crossed(j, t, c) THEN tick < up <=> ~(new < up) ELSE tick < up <=> new < up
  BY <1>2, IterationSides
<1>5. ASSUME NEW k \in Token
      PROVE  SwapFeeInside(p, k)' =
                IF k = InputToken(swap.args) /\ InRange(positions[p], swap.curr_tick_index)
                THEN WrappingAdd(SwapFeeInside(p, k), StepGrowth(c))
                ELSE SwapFeeInside(p, k)
  <2> DEFINE g == SwapGrowth(k)
             h == SwapGrowth(k)'
             d == IF k = InputToken(swap.args) THEN StepGrowth(c) ELSE 0
             a == T[lo].fee_growth_outside[k]
             b == T[up].fee_growth_outside[k]
             a2 == T2[lo].fee_growth_outside[k]
             b2 == T2[up].fee_growth_outside[k]
             before == InsideInUse(tick, g, lo, a, up, b)
             after == InsideInUse(new, h, lo, a2, up, b2)
  <2>0. g \in U128 /\ h \in U128 /\ d \in U128 /\ h = g + d
    BY StepGrowthType, Widths
  <2>2. a \in U128 /\ b \in U128
    BY <1>1, <1>2 DEF TickType
  <2>3. /\ a2 = IF lo = t /\ Crossed(j, t, c) THEN WrappingSub(h, a) ELSE a
        /\ b2 = IF up = t /\ Crossed(j, t, c) THEN WrappingSub(h, b) ELSE b
    BY <1>2, IterationOutside
  <2>4. SwapFeeInside(p, k) = before /\ SwapFeeInside(p, k)' = after
    BY <1>1 DEF SwapFeeInside, FeeInside
  <2>4a. k # InputToken(swap.args) => d = 0
    OBVIOUS
  <2>4b. k = InputToken(swap.args) => d = StepGrowth(c)
    OBVIOUS
  <2> HIDE DEF pos, lo, up, tick, new, T, T2, g, h, d, a, b, a2, b2
  <2>1. g \in U128 /\ h \in U128 /\ d \in U128 /\ h = WrappingAdd(g, d)
    BY <2>0, WrapCases, U128Below
  <2>5. a2 \in U128 /\ b2 \in U128
    BY <2>1, <2>2, <2>3, WrapCases
  <2>6. KeptOrTurned(a, a2, h, tick, new, lo) /\ KeptOrTurned(b, b2, h, tick, new, up)
    BY <1>4, <2>3 DEF KeptOrTurned
  <2>7. lo \in Int /\ up \in Int /\ lo < up /\ tick \in Int /\ new \in Int
    BY <1>2, <1>3
  <2>8. after = IF lo <= tick /\ tick < up THEN WrappingAdd(before, d) ELSE before
    BY ONLY <2>1, <2>2, <2>5, <2>6, <2>7, InsideMoves
  <2>9. before \in U128
    BY ONLY <2>1, <2>2, InUseType
  <2>10. WrappingAdd(before, 0) = before
    BY ONLY <2>9, WrapZero
  <2>11. InRange(positions[p], swap.curr_tick_index) <=> lo <= tick /\ tick < up
    BY DEF InRange, lo, up, tick, pos
  <2> HIDE DEF before, after
  <2>12. after = IF k = InputToken(swap.args) /\ InRange(positions[p], swap.curr_tick_index)
                 THEN WrappingAdd(before, StepGrowth(c)) ELSE before
    BY ONLY <2>4a, <2>4b, <2>8, <2>10, <2>11
  <2> QED BY <2>4, <2>12
<1>6. ASSUME NEW r \in Reward, NewRewardInfos[r].initialized
      PROVE  SwapRewardInside(p, r)' = SwapRewardInside(p, r)
  <2> DEFINE g == NewRewardInfos[r].growth_global
             a == T[lo].reward_growths_outside[r]
             b == T[up].reward_growths_outside[r]
             a2 == T2[lo].reward_growths_outside[r]
             b2 == T2[up].reward_growths_outside[r]
             before == InsideInUse(tick, g, lo, a, up, b)
             after == InsideInUse(new, g, lo, a2, up, b2)
  <2>0. g \in U128 /\ 0 \in U128
    BY <1>1, NewRewardInfosType, Widths
  <2>2. a \in U128 /\ b \in U128
    BY <1>1, <1>2 DEF TickType
  <2>3. /\ a2 = IF lo = t /\ Crossed(j, t, c) THEN WrappingSub(g, a) ELSE a
        /\ b2 = IF up = t /\ Crossed(j, t, c) THEN WrappingSub(g, b) ELSE b
    BY <1>2, <1>6, IterationOutside
  <2>4. SwapRewardInside(p, r) = before /\ SwapRewardInside(p, r)' = after
    BY <1>1 DEF SwapRewardInside, RewardInside, NewRewardInfos
  <2> HIDE DEF pos, lo, up, tick, new, T, T2, g, a, b, a2, b2
  <2>1. g \in U128 /\ 0 \in U128 /\ g = WrappingAdd(g, 0)
    BY <2>0, WrapZero
  <2>5. a2 \in U128 /\ b2 \in U128
    BY <2>1, <2>2, <2>3, WrapCases
  <2>6. KeptOrTurned(a, a2, g, tick, new, lo) /\ KeptOrTurned(b, b2, g, tick, new, up)
    BY <1>4, <2>3 DEF KeptOrTurned
  <2>7. lo \in Int /\ up \in Int /\ lo < up /\ tick \in Int /\ new \in Int
    BY <1>2, <1>3
  <2>8. after = IF lo <= tick /\ tick < up THEN WrappingAdd(before, 0) ELSE before
    BY ONLY <2>1, <2>2, <2>5, <2>6, <2>7, InsideMoves
  <2>9. before \in U128
    BY ONLY <2>1, <2>2, InUseType
  <2>10. WrappingAdd(before, 0) = before
    BY ONLY <2>9, WrapZero
  <2> HIDE DEF before, after
  <2>11. after = before
    BY ONLY <2>8, <2>10
  <2> QED BY <2>4, <2>11
<1> QED BY <1>5, <1>6

----------------------------------------------------------------------------
(* Fees are earned where the swap trades.                                  *)

\* In the middle of a swap there is nothing to do but swap.
LEMMA OnlySwapping ==
    ASSUME ~Idle, Next
    PROVE  SwapStep \/ SwapCommit \/ SwapRevert
<1>1. ASSUME NEW p \in Position PROVE ~PositionInstruction(p)
  BY DEF PositionInstruction, OpenPosition, ClosePosition, IncreaseLiquidity,
         DecreaseLiquidity, UpdateFeesAndRewards, CollectFees, CollectReward
<1>2. ~RewardInstruction
  BY DEF RewardInstruction, InitializeReward, FundReward, SetRewardEmissions
<1>3. ~PoolInstruction
  BY DEF PoolInstruction, InitializeTickArray, CollectProtocolFees, SetFeeRate,
         SetProtocolFeeRate
<1>4. ~AdvanceTime /\ \A a \in SwapArgs : ~SwapBegin(a)
  BY DEF AdvanceTime, SwapBegin
<1> QED BY <1>1, <1>2, <1>3, <1>4 DEF Next, Swapping

\* A swap is in progress after a step if it began or took an iteration.
LEMMA IntoSwap ==
    ASSUME TypeOK, IInv, Next, ~Idle'
    PROVE  SwapStep \/ \E a \in SwapArgs : SwapBegin(a)
<1>1. ~ \E p \in Position : PositionInstruction(p)
  BY PositionInstructionTypes DEF KeepsPrice
<1>2. ~RewardInstruction /\ ~PoolInstruction /\ ~AdvanceTime
  BY RewardInstructionTypes, PoolInstructionTypes, AdvanceTimeTypes DEF KeepsPrice
<1>3. ~SwapCommit /\ ~SwapRevert
  BY SwapCommitInv, SwapRevertInv
<1> QED BY <1>1, <1>2, <1>3 DEF Next, Swapping

\* What has grown inside a position's range as the accounts have it, with the rewards up
\* to now.
PoolFeeInside(p, k) ==
    FeeInside(positions[p], ticks, pool.tick_current_index, pool.fee_growth_global[k], k)

PoolRewardInside(p, r) ==
    RewardInside(positions[p], ticks, pool.tick_current_index,
                 NewRewardInfos[r].growth_global, r)

\* The range has some tick from x to y.
Touched(pos, x, y) ==
    pos.tick_lower_index <= Greater(x, y) /\ Lesser(x, y) < pos.tick_upper_index

\* A swap in progress has gone its own way only, and in the ranges it did not touch
\* nothing has grown; nor anywhere of the output token and the rewards.
TradedInv ==
    ~Idle =>
        /\ IF swap.args.a_to_b THEN swap.curr_tick_index <= pool.tick_current_index
           ELSE pool.tick_current_index <= swap.curr_tick_index
        /\ \A p \in Position : positions[p].liquidity # 0 =>
              /\ \A k \in Token :
                    \/ /\ k = InputToken(swap.args)
                       /\ Touched(positions[p], pool.tick_current_index, swap.curr_tick_index)
                    \/ SwapFeeInside(p, k) = PoolFeeInside(p, k)
              /\ \A r \in Reward : NewRewardInfos[r].initialized =>
                    SwapRewardInside(p, r) = PoolRewardInside(p, r)

\* A swap begins with what the accounts have.
LEMMA BeginTraded ==
    ASSUME TypeOK, NEW a \in SwapRequest, SwapBegin(a)
    PROVE  TradedInv'
<1>1. /\ swap' = SwapStart(pool, ticks, a)
      /\ pool' = pool /\ ticks' = ticks /\ positions' = positions /\ now' = now
  BY DEF SwapBegin
<1>2. /\ swap'.ticks = ticks /\ swap'.curr_tick_index = pool.tick_current_index
      /\ swap'.args = a
      /\ swap'.curr_fee_growth_global_input = pool.fee_growth_global[InputToken(a)]
  BY <1>1 DEF SwapStart
<1>3. pool.tick_current_index \in Int
  BY SqrtPriceRangeType DEF TypeOK, PoolType
<1>4. \A k \in Token : SwapGrowth(k)' = pool.fee_growth_global[k]
  BY <1>1, <1>2 DEF SwapGrowth
<1>5. \A p \in Position, k \in Token : SwapFeeInside(p, k)' = PoolFeeInside(p, k)'
  BY <1>1, <1>2, <1>4 DEF SwapFeeInside, PoolFeeInside
<1>6. \A p \in Position, r \in Reward : SwapRewardInside(p, r)' = PoolRewardInside(p, r)'
  BY <1>1, <1>2 DEF SwapRewardInside, PoolRewardInside, NewRewardInfos
<1> QED BY <1>1, <1>2, <1>3, <1>5, <1>6 DEF TradedInv

\* An iteration adds to what it touches, and what was touched stays so.
LEMMA StepTraded ==
    ASSUME IInv, LedgerInv, ArraysLoaded, TradedInv, SwapStep
    PROVE  TradedInv'
<1>1. PICK j, t, c : Iteration(j, t, c)
  BY StepIsIteration
<1> DEFINE tick == swap.curr_tick_index
           new == swap'.curr_tick_index
           from == pool.tick_current_index
           aToB == swap.args.a_to_b
<1>2. /\ TypeOK /\ ~Idle /\ swap'.args = swap.args /\ from \in Int
      /\ pool' = pool /\ ticks' = ticks /\ positions' = positions /\ now' = now
      /\ positions \in PositionsType
  BY <1>1, IterationFields, SqrtPriceRangeType
     DEF IInv, TypeOK, Iteration, PoolType, PositionsType
<1>3. t \in TickIndex
  BY <1>1, SearchInv DEF Iteration
<1>4. /\ tick \in Int /\ new \in Int
      /\ IF aToB THEN new <= tick ELSE tick <= new
  <2>1. t \in Int /\ IF aToB THEN t <= tick ELSE tick < t
    BY <1>1, <1>3, SearchInv, MathAssumption DEF Iteration, TickIndex
  <2>2. /\ tick \in Int /\ new \in Int
        /\ IF aToB
           THEN IF c.next_price = SqrtPrice[t] THEN new = t - 1 ELSE t <= new /\ new <= tick
           ELSE IF c.next_price = SqrtPrice[t] THEN new = t ELSE tick <= new /\ new <= t - 1
    BY <1>1, <1>3, IterationTick
  <2> HIDE DEF tick, new, aToB
  <2> QED BY <2>1, <2>2
<1>5. IF aToB THEN tick <= from ELSE from <= tick
  BY <1>2 DEF TradedInv
<1>6. IF aToB THEN new <= from ELSE from <= new
  <2> HIDE DEF tick, new, from, aToB
  <2> QED BY <1>2, <1>4, <1>5
<1>7. ASSUME NEW p \in Position
      PROVE  /\ Touched(positions[p], from, tick) => Touched(positions[p], from, new)
             /\ InRange(positions[p], tick) => Touched(positions[p], from, new)
  <2> DEFINE lo == positions[p].tick_lower_index
             up == positions[p].tick_upper_index
  <2>1. lo \in Int /\ up \in Int
    BY <1>2, SqrtPriceRangeType DEF PositionsType, PositionType
  <2> HIDE DEF lo, up, tick, new, from, aToB
  <2>2. /\ Greater(from, tick) = IF aToB THEN from ELSE tick
        /\ Lesser(from, tick) = IF aToB THEN tick ELSE from
        /\ Greater(from, new) = IF aToB THEN from ELSE new
        /\ Lesser(from, new) = IF aToB THEN new ELSE from
    BY <1>2, <1>4, <1>5, <1>6 DEF Greater, Lesser
  <2>3. /\ (lo <= Greater(from, tick) /\ Lesser(from, tick) < up)
              => (lo <= Greater(from, new) /\ Lesser(from, new) < up)
        /\ (lo <= tick /\ tick < up) => (lo <= Greater(from, new) /\ Lesser(from, new) < up)
    BY <1>2, <1>4, <1>5, <1>6, <2>1, <2>2
  <2> QED BY <2>3 DEF Touched, InRange, lo, up
<1>8. ASSUME NEW p \in Position, positions[p].liquidity # 0, NEW k \in Token
      PROVE  \/ k = InputToken(swap.args) /\ Touched(positions[p], from, new)
             \/ SwapFeeInside(p, k)' = PoolFeeInside(p, k)'
  <2>1. PoolFeeInside(p, k)' = PoolFeeInside(p, k)
    BY <1>2 DEF PoolFeeInside
  <2>2. SwapFeeInside(p, k)' =
          IF k = InputToken(swap.args) /\ InRange(positions[p], tick)
          THEN WrappingAdd(SwapFeeInside(p, k), StepGrowth(c))
          ELSE SwapFeeInside(p, k)
    BY <1>1, <1>8, IterationInside
  <2>3. \/ k = InputToken(swap.args) /\ Touched(positions[p], from, tick)
        \/ SwapFeeInside(p, k) = PoolFeeInside(p, k)
    BY <1>2, <1>8 DEF TradedInv
  <2> QED BY <1>7, <2>1, <2>2, <2>3
<1>9. ASSUME NEW p \in Position, positions[p].liquidity # 0, NEW r \in Reward,
             NewRewardInfos[r].initialized
      PROVE  SwapRewardInside(p, r)' = PoolRewardInside(p, r)'
  <2>1. PoolRewardInside(p, r)' = PoolRewardInside(p, r)
    BY <1>2 DEF PoolRewardInside, NewRewardInfos
  <2>2. SwapRewardInside(p, r)' = SwapRewardInside(p, r)
    BY <1>1, <1>9, IterationInside
  <2> QED BY <1>2, <1>9, <2>1, <2>2 DEF TradedInv
<1>10. NewRewardInfos' = NewRewardInfos
  BY <1>2 DEF NewRewardInfos
<1> QED BY <1>2, <1>6, <1>8, <1>9, <1>10 DEF TradedInv

\* So every step keeps it.
LEMMA NextTraded == IInv /\ LedgerInv /\ ArraysLoaded /\ TradedInv /\ [Next]_vars => TradedInv'
<1> SUFFICES ASSUME IInv, LedgerInv, ArraysLoaded, TradedInv, [Next]_vars PROVE TradedInv'
  OBVIOUS
<1>0. TypeOK
  BY DEF IInv
<1>1. CASE UNCHANGED vars
  BY <1>1 DEF vars, TradedInv, Idle, SwapFeeInside, PoolFeeInside, SwapRewardInside,
              PoolRewardInside, NewRewardInfos, SwapGrowth
<1>2. CASE Next /\ ~Idle'
  <2>1. ASSUME NEW a \in SwapArgs, SwapBegin(a) PROVE TradedInv'
    BY <1>0, <2>1, BeginTraded, PoolAssumption
  <2> QED BY <1>0, <1>2, <2>1, IntoSwap, StepTraded
<1>3. CASE Idle'
  BY <1>3 DEF TradedInv
<1> QED BY <1>1, <1>2, <1>3

\* The accounts after a commit are those the swap has worked out.
LEMMA CommitFields ==
    ASSUME TypeOK, SwapCommit
    PROVE  /\ pool'.tick_current_index = swap.curr_tick_index
           /\ pool'.sqrt_price = swap.curr_sqrt_price
           /\ pool'.liquidity = swap.curr_liquidity
           /\ pool'.reward_infos = NewRewardInfos
           /\ pool'.reward_last_updated_timestamp = now
           /\ \A k \in Token : pool'.fee_growth_global[k] = SwapGrowth(k)
           /\ \A k \in Token : pool'.protocol_fee_owed[k] =
                 IF k = InputToken(swap.args)
                 THEN WrappingAdd64(pool.protocol_fee_owed[k], swap.curr_protocol_fee)
                 ELSE pool.protocol_fee_owed[k]
           /\ ticks' = swap.ticks /\ positions' = positions
<1>1. pool \in PoolType /\ swap \in SwapType
  BY DEF TypeOK, SwapCommit, Idle
<1>2. pool' = PoolAfterSwap(pool, swap, NewRewardInfos, now)
  BY DEF SwapCommit
<1> QED BY <1>1, <1>2 DEF PoolAfterSwap, PoolType, SwapGrowth, SwapCommit

(***************************************************************************)
(* A swap pays the fees of its input token, and only to positions whose    *)
(* range it touched; nobody earns the output token.  The code never looks  *)
(* at a position in a swap: what one earns shows in the growth recorded    *)
(* outside the two ticks of its range, which each crossing turns over      *)
(* (next_tick_cross_update, next_fee_growths_inside).                      *)
(***************************************************************************)
THEOREM EarningsWhereTraded == Spec => EarnsOnlyWhereTraded
<1> DEFINE Where ==
      SwapCommitted =>
        \A p \in Position : positions[p].liquidity > 0 =>
            LET lo == Lesser(pool.tick_current_index, pool'.tick_current_index)
                hi == Greater(pool.tick_current_index, pool'.tick_current_index)
                touched == /\ positions[p].tick_lower_index <= hi
                           /\ lo < positions[p].tick_upper_index
            IN  \A k \in Token :
                    \/ k = InputToken(swap.args) /\ touched
                    \/ FeesInside(p)'[k] = FeesInside(p)[k]
<1>1. IInv /\ LedgerInv /\ ArraysLoaded /\ TradedInv /\ [Next]_vars => [Where]_vars
  <2> SUFFICES ASSUME IInv, LedgerInv, ArraysLoaded, TradedInv, Next, SwapCommitted,
                      NEW p \in Position, positions[p].liquidity > 0, NEW k \in Token
               PROVE  \/ /\ k = InputToken(swap.args)
                         /\ Touched(positions[p], pool.tick_current_index,
                                    pool'.tick_current_index)
                      \/ FeesInside(p)'[k] = FeesInside(p)[k]
    BY Zenon DEF Touched
  <2>1. TypeOK /\ ~Idle /\ Idle' /\ pool' # pool /\ positions[p].liquidity # 0
    BY WidthsAreNumbers DEF IInv, SwapCommitted, TypeOK, PositionType
  <2>2. SwapCommit
    <3>1. ~SwapStep
      BY <2>1 DEF SwapStep
    <3> QED BY <2>1, <3>1, OnlySwapping DEF SwapRevert
  <2>3. TypeOK' /\ LedgerInv'
    BY NextInv, NextLedger DEF IInv
  <2>4. FeesInside(p)[k] = PoolFeeInside(p, k)
    BY <2>1, InsidesComputed DEF PoolFeeInside
  <2>5. positions' = positions /\ ticks' = swap.ticks
        /\ pool'.tick_current_index = swap.curr_tick_index
        /\ pool'.fee_growth_global[k] = SwapGrowth(k)
    BY <2>1, <2>2, CommitFields
  <2>6. FeesInside(p)'[k] = SwapFeeInside(p, k)
    <3>1. FeesInside(p)'[k] =
            FeeInside(positions'[p], ticks', pool'.tick_current_index,
                      pool'.fee_growth_global[k], k)
      <4>1. /\ positions' \in PositionsType /\ ticks' \in [UsableTick -> TickType]
            /\ TicksAgree(ticks', positions') /\ \A q \in Position : IsOrdered(positions'[q])
        BY <2>3 DEF TypeOK, LedgerInv, PositionsType
      <4>2. positions'[p].liquidity # 0
        BY <2>1, <2>5
      <4> QED BY <4>1, <4>2, InsidesOfLive DEF FeesInside
    <3> QED BY <2>5, <3>1 DEF SwapFeeInside
  <2> QED BY <2>1, <2>4, <2>5, <2>6 DEF TradedInv
<1>2. Init => TradedInv
  BY DEF Init, Idle, TradedInv
<1> QED BY <1>1, <1>2, InitInv, NextInv, InitLedger, NextLedger, NextArraysLoaded, NextTraded,
           PTL DEF Spec, EarnsOnlyWhereTraded

----------------------------------------------------------------------------
(* The clock of the rewards.                                               *)

\* next_pool_reward_infos: what is emitted in the time since the last update over the
\* liquidity in force, or nothing.
RewardGrowthSince(r) ==
    LET produced == (now - pool.reward_last_updated_timestamp) * pool.reward_infos[r].emissions
    IN  IF pool.liquidity # 0 /\ now # pool.reward_last_updated_timestamp
              /\ pool.reward_infos[r].initialized /\ produced \in U128
        THEN produced \div pool.liquidity ELSE 0

\* It changes the growth of every slot by that, and nothing else.
LEMMA NewRewardInfosFields ==
    ASSUME TypeOK, NEW r \in Reward
    PROVE  /\ NewRewardInfos[r].initialized = pool.reward_infos[r].initialized
           /\ NewRewardInfos[r].emissions = pool.reward_infos[r].emissions
           /\ NewRewardInfos[r].growth_global =
                WrappingAdd(pool.reward_infos[r].growth_global, RewardGrowthSince(r))
<1> DEFINE info == pool.reward_infos[r]
           elapsed == now - pool.reward_last_updated_timestamp
           grown == RewardGrowthSince(r)
<1>1. /\ info \in [initialized : BOOLEAN, emissions : U128, growth_global : U128]
      /\ pool \in PoolType /\ now \in Int /\ pool.reward_last_updated_timestamp \in Int
  BY DEF TypeOK, PoolType, RewardInfos
<1>2. WrappingAdd(info.growth_global, 0) = info.growth_global
  BY <1>1, Widths, WrapZero
<1>3. elapsed = 0 <=> now = pool.reward_last_updated_timestamp
  BY <1>1
<1>4. CASE pool.liquidity = 0 \/ elapsed = 0
  <2>1. NewRewardInfos[r] = info
    BY <1>4 DEF NewRewardInfos, NextPoolRewardInfos
  <2>2. grown = 0
    BY <1>3, <1>4 DEF RewardGrowthSince
  <2> QED BY <1>2, <2>1, <2>2
<1>5. CASE ~(pool.liquidity = 0 \/ elapsed = 0) /\ ~info.initialized
  <2>1. NewRewardInfos[r] = info
    BY <1>5 DEF NewRewardInfos, NextPoolRewardInfos
  <2>2. grown = 0
    BY <1>5 DEF RewardGrowthSince
  <2> QED BY <1>2, <2>1, <2>2
<1>6. CASE ~(pool.liquidity = 0 \/ elapsed = 0) /\ info.initialized
  <2>1. grown = IF elapsed * info.emissions \in U128
                THEN (elapsed * info.emissions) \div pool.liquidity ELSE 0
    BY <1>3, <1>6 DEF RewardGrowthSince
  <2>2. NewRewardInfos[r] = [info EXCEPT !.growth_global = WrappingAdd(@, grown)]
    BY <1>6, <2>1 DEF NewRewardInfos, NextPoolRewardInfos
  <2> HIDE DEF grown, info
  <2>3. /\ NewRewardInfos[r].initialized = info.initialized
        /\ NewRewardInfos[r].emissions = info.emissions
        /\ NewRewardInfos[r].growth_global = WrappingAdd(info.growth_global, grown)
    BY <1>1, <2>2
  <2> QED BY <2>3 DEF grown, info
<1> QED BY <1>4, <1>5, <1>6

\* What RewardsSettledBeforeChange says of a step.
SettledFirst ==
    /\ RewardTerms' # RewardTerms => pool'.reward_last_updated_timestamp = now
    /\ pool'.reward_last_updated_timestamp \in {pool.reward_last_updated_timestamp, now}
    /\ \A r \in Reward : AccruesOnOldTerms(r)

\* What is accounted for, or how it was: the two ways a step can keep the rule.
Settles ==
    /\ pool'.reward_last_updated_timestamp = now
    /\ \A r \in Reward : pool'.reward_infos[r].growth_global = NewRewardInfos[r].growth_global

Stands ==
    /\ pool'.liquidity = pool.liquidity
    /\ pool'.tick_current_index = pool.tick_current_index
    /\ pool'.reward_last_updated_timestamp = pool.reward_last_updated_timestamp
    /\ \A r \in Reward :
          /\ pool'.reward_infos[r].emissions = pool.reward_infos[r].emissions
          /\ pool'.reward_infos[r].growth_global = pool.reward_infos[r].growth_global

\* Adding and taking away again, modulo 2^128.
LEMMA WrapBack ==
    ASSUME NEW x \in U128, NEW y \in U128
    PROVE  WrappingSub(WrappingAdd(x, y), x) = y
<1>1. x \in Nat /\ y \in Nat /\ TwoTo128 \in Nat /\ x < TwoTo128 /\ y < TwoTo128
  BY U128Below
<1>2. WrappingAdd(x, y) \in U128 /\ WrappingAdd(x, y) \in Nat
  BY WrapCases, Widths
<1>3. WrappingAdd(x, y) = IF x + y < TwoTo128 THEN x + y ELSE x + y - TwoTo128
  BY WrapCases
<1>4. WrappingSub(WrappingAdd(x, y), x) =
        IF x <= WrappingAdd(x, y) THEN WrappingAdd(x, y) - x
        ELSE WrappingAdd(x, y) - x + TwoTo128
  BY <1>2, WrapCases
<1> QED BY <1>1, <1>2, <1>3, <1>4

\* What the update adds is the time times the old rate over the old liquidity.
LEMMA SettlesOnOldTerms ==
    ASSUME TypeOK, Settles, NEW r \in Reward
    PROVE  AccruesOnOldTerms(r)
<1> DEFINE L == pool.liquidity
           due == (now - pool.reward_last_updated_timestamp) * pool.reward_infos[r].emissions
           x == pool.reward_infos[r].growth_global
           y == RewardGrowthSince(r)
           grown == WrappingSub(pool'.reward_infos[r].growth_global, x)
           nothing == ~pool.reward_infos[r].initialized \/ L = 0 \/ due \notin U128
<1>1. /\ L \in Nat /\ x \in U128 /\ now \in Nat /\ pool.reward_last_updated_timestamp \in Nat
      /\ pool.reward_infos[r].emissions \in Nat
  BY Widths DEF TypeOK, PoolType, RewardInfos
<1>2. due \in Int /\ (now = pool.reward_last_updated_timestamp => due = 0)
  <2>1. now - pool.reward_last_updated_timestamp \in Int
    BY <1>1
  <2> QED BY <1>1, <2>1
<1>3. pool'.reward_infos[r].growth_global = WrappingAdd(x, y)
  BY NewRewardInfosFields DEF Settles
<1>4. AccruesOnOldTerms(r) <=> IF nothing THEN grown = 0
                               ELSE grown * L <= due /\ due < (grown + 1) * L
  BY DEF AccruesOnOldTerms, Settles
<1>5. CASE nothing
  <2>1. y = 0
    BY <1>5 DEF RewardGrowthSince
  <2>2. grown = 0
    BY <1>1, <1>3, <2>1, Widths, WrapBack
  <2> QED BY <1>4, <1>5, <2>2
<1>6. CASE ~nothing
  <2>1. L \in Nat \ {0} /\ due \in Nat /\ due \in U128
    BY <1>1, <1>6, Widths
  <2>2. y \in Nat /\ L * y <= due /\ due < L * (y + 1)
    <3>1. CASE now = pool.reward_last_updated_timestamp
      <4>1. y = 0 /\ due = 0
        BY <1>2, <3>1 DEF RewardGrowthSince
      <4> QED BY <2>1, <4>1
    <3>2. CASE now # pool.reward_last_updated_timestamp
      <4>1. y = due \div L
        BY <1>6, <2>1, <3>2 DEF RewardGrowthSince
      <4> QED BY <2>1, <4>1, DivType
    <3> QED BY <3>1, <3>2
  <2> HIDE DEF L, due, x, y, grown, nothing
  <2>3. y <= due
    <3>1. y * 1 <= y * L
      BY <2>1, <2>2, MulMono
    <3>2. y * 1 = y /\ y * L = L * y
      BY <2>1, <2>2
    <3> QED BY <2>1, <2>2, <3>1, <3>2
  <2>4. y \in U128
    BY <2>1, <2>2, <2>3, U128Below
  <2>5. grown = y
    BY <1>1, <1>3, <2>4, WrapBack DEF grown
  <2>6. y * L = L * y /\ (y + 1) * L = L * (y + 1)
    BY <2>1, <2>2
  <2> QED BY <1>4, <1>6, <2>2, <2>5, <2>6
<1> QED BY <1>5, <1>6

\* If nothing is accounted for, nothing must have grown.
LEMMA StandsOnOldTerms ==
    ASSUME TypeOK, Stands, NEW r \in Reward
    PROVE  AccruesOnOldTerms(r)
<1> DEFINE L == pool.liquidity
           e == pool.reward_infos[r].emissions
<1>1. /\ L \in Nat /\ e \in Nat /\ pool.reward_infos[r].growth_global \in U128
      /\ pool.reward_last_updated_timestamp \in Nat
  BY Widths DEF TypeOK, PoolType, RewardInfos
<1>2. pool'.reward_last_updated_timestamp - pool.reward_last_updated_timestamp = 0
  BY <1>1 DEF Stands
<1>3. WrappingSub(pool'.reward_infos[r].growth_global,
                  pool.reward_infos[r].growth_global) = 0
  BY <1>1, WrapZero DEF Stands
<1>4. 0 * e = 0 /\ 0 * L = 0 /\ (L # 0 => 0 < (0 + 1) * L)
  BY <1>1
<1> QED BY <1>2, <1>3, <1>4 DEF AccruesOnOldTerms

\* Either way the rule is kept.
LEMMA EitherIsSettled ==
    ASSUME TypeOK, Settles \/ Stands
    PROVE  SettledFirst
<1>1. CASE Settles
  BY <1>1, SettlesOnOldTerms DEF Settles, SettledFirst
<1>2. CASE Stands
  <2>1. RewardTerms' = RewardTerms
    BY <1>2 DEF Stands, RewardTerms
  <2> QED BY <1>2, <2>1, StandsOnOldTerms DEF Stands, SettledFirst
<1> QED BY <1>1, <1>2

\* An instruction on a position settles, or touches none of it.
LEMMA PositionInstructionSettled ==
    ASSUME TypeOK, NEW p \in Position, PositionInstruction(p)
    PROVE  Settles \/ Stands
<1>0. pool \in PoolType
  BY DEF TypeOK
<1>1. ASSUME NEW delta, SyncModifyLiquidity(p, delta) PROVE Settles
  BY <1>0, <1>1 DEF SyncModifyLiquidity, PoolType, Settles
<1>2. CASE \E range \in PositionRanges : OpenPosition(p, range[1], range[2])
  BY <1>2 DEF OpenPosition, Stands
<1>3. CASE ClosePosition(p)
  BY <1>3 DEF ClosePosition, Stands
<1>4. CASE \E amount \in LiquidityAmounts : IncreaseLiquidity(p, amount)
  BY <1>1, <1>4 DEF IncreaseLiquidity
<1>5. CASE \E amount \in LiquidityAmounts : DecreaseLiquidity(p, amount)
  BY <1>1, <1>5 DEF DecreaseLiquidity
<1>6. CASE UpdateFeesAndRewards(p)
  BY <1>0, <1>6 DEF UpdateFeesAndRewards, PoolType, Settles
<1>7. CASE CollectFees(p)
  BY <1>7 DEF CollectFees, Stands
<1>8. CASE \E r \in Reward : CollectReward(p, r)
  BY <1>8 DEF CollectReward, Stands
<1> QED BY <1>2, <1>3, <1>4, <1>5, <1>6, <1>7, <1>8 DEF PositionInstruction

\* So does one on the rewards.
LEMMA RewardInstructionSettled ==
    ASSUME TypeOK, RewardInstruction
    PROVE  Settles \/ Stands
<1>0. pool \in PoolType /\ pool.reward_infos \in RewardInfos
  BY DEF TypeOK, PoolType
<1>1. ASSUME NEW i \in DOMAIN RewardSlots, InitializeReward(i) PROVE Stands
  <2>1. pool' = [pool EXCEPT !.reward_infos[RewardSlots[i]].initialized = TRUE]
    BY <1>1 DEF InitializeReward
  <2>2. /\ pool'.liquidity = pool.liquidity
        /\ pool'.tick_current_index = pool.tick_current_index
        /\ pool'.reward_last_updated_timestamp = pool.reward_last_updated_timestamp
        /\ pool'.reward_infos =
             [pool.reward_infos EXCEPT ![RewardSlots[i]].initialized = TRUE]
    BY <1>0, <2>1 DEF PoolType
  <2>3. \A r \in Reward :
          /\ pool'.reward_infos[r].emissions = pool.reward_infos[r].emissions
          /\ pool'.reward_infos[r].growth_global = pool.reward_infos[r].growth_global
    BY <1>0, <2>2 DEF RewardInfos
  <2> QED BY <2>2, <2>3 DEF Stands
<1>2. ASSUME NEW r \in Reward, NEW amount, FundReward(r, amount) PROVE Stands
  BY <1>2 DEF FundReward, Stands
<1>3. ASSUME NEW r \in Reward, NEW emissions, SetRewardEmissions(r, emissions)
      PROVE  Settles
  <2>1. /\ pool'.reward_last_updated_timestamp = now
        /\ pool'.reward_infos = [NewRewardInfos EXCEPT ![r].emissions = emissions]
    BY <1>0, <1>3 DEF SetRewardEmissions, PoolType
  <2>2. NewRewardInfos \in [Reward -> [initialized : BOOLEAN, emissions : U128,
                                       growth_global : U128]]
    BY RewardInfosType DEF TypeOK, NewRewardInfos, RewardInfos
  <2>3. \A s \in Reward :
          pool'.reward_infos[s].growth_global = NewRewardInfos[s].growth_global
    BY <2>1, <2>2
  <2> QED BY <2>1, <2>3 DEF Settles
<1> QED BY <1>1, <1>2, <1>3 DEF RewardInstruction

\* Every step keeps the rule.
LEMMA NextSettled == IInv /\ [Next]_vars => [SettledFirst]_vars
<1> SUFFICES ASSUME IInv, Next PROVE Settles \/ Stands
  BY EitherIsSettled DEF IInv
<1>0. TypeOK /\ pool \in PoolType
  BY DEF IInv, TypeOK
<1>1. CASE PoolInstruction
  BY <1>0, <1>1 DEF PoolInstruction, InitializeTickArray, CollectProtocolFees, SetFeeRate,
                    SetProtocolFeeRate, PoolType, Stands
<1>2. CASE AdvanceTime
  BY <1>2 DEF AdvanceTime, Stands
<1>3. ASSUME NEW a \in SwapArgs, SwapBegin(a) PROVE Stands
  BY <1>3 DEF SwapBegin, Stands
<1>4. CASE SwapStep
  BY <1>4 DEF SwapStep, Stands
<1>5. CASE SwapCommit
  BY <1>0, <1>5, CommitFields DEF Settles
<1>6. CASE SwapRevert
  BY <1>6 DEF SwapRevert, Stands
<1> QED BY <1>0, <1>1, <1>2, <1>3, <1>4, <1>5, <1>6, PositionInstructionSettled,
           RewardInstructionSettled DEF Next, Swapping

(***************************************************************************)
(* Whatever changes the emissions, the liquidity in force or the tick has  *)
(* settled the rewards up to that moment (next_pool_reward_infos before    *)
(* every such change), and what any step adds to their growth is, rounded  *)
(* down, what the old rate emits in the time that the step accounts for    *)
(* over the old liquidity, whatever wraps.                                 *)
(***************************************************************************)
THEOREM SettledBeforeChange == Spec => RewardsSettledBeforeChange
<1>1. [SettledFirst]_vars =>
        [/\ RewardTerms' # RewardTerms => pool'.reward_last_updated_timestamp = now
         /\ pool'.reward_last_updated_timestamp
                \in {pool.reward_last_updated_timestamp, now}
         /\ \A r \in Reward : AccruesOnOldTerms(r)]_vars
  BY DEF SettledFirst
<1> QED BY <1>1, InitInv, NextInv, NextSettled, PTL DEF Spec, RewardsSettledBeforeChange

----------------------------------------------------------------------------
(* A change of liquidity leaves what grew inside every range as it was,    *)
(* and settles one position by it.                                         *)

\* update_fees_and_rewards is a change of liquidity by nothing.
LEMMA UpdateIsSync ==
    ASSUME TypeOK, NEW p \in Position, UpdateFeesAndRewards(p)
    PROVE  CanModifyLiquidity(p, 0) /\ SyncModifyLiquidity(p, 0)
<1> DEFINE pos == positions[p]
<1>1. /\ pool \in PoolType /\ ticks \in [UsableTick -> TickType] /\ pos \in PositionType
      /\ pool.liquidity \in U128 /\ pool.liquidity \in Int
  BY WidthsAreNumbers DEF TypeOK, PoolType
<1>2. /\ CanModifyLiquidity(p, 0)
      /\ positions' = [positions EXCEPT ![p] = UpdatedPosition(p, 0)]
      /\ pool' = [pool EXCEPT !.reward_infos = NewRewardInfos,
                              !.reward_last_updated_timestamp = now]
      /\ ticks' = ticks
  BY DEF UpdateFeesAndRewards
<1>3. \A t, upper : UpdatedTick(t, 0, upper) = ticks[t]
  BY DEF UpdatedTick, NextTickModifyLiquidityUpdate
<1>4. ticks' = [ticks EXCEPT
                 ![pos.tick_lower_index] = UpdatedTick(pos.tick_lower_index, 0, FALSE),
                 ![pos.tick_upper_index] = UpdatedTick(pos.tick_upper_index, 0, TRUE)]
  BY <1>1, <1>2, <1>3
<1>5. NextPoolLiquidity(pool, pos.tick_lower_index, pos.tick_upper_index, 0) = pool.liquidity
  BY <1>1 DEF NextPoolLiquidity, AddLiquidityDelta, Checked
<1>6. pool' = [pool EXCEPT
                 !.liquidity = NextPoolLiquidity(pool, pos.tick_lower_index,
                                                 pos.tick_upper_index, 0),
                 !.reward_infos = NewRewardInfos,
                 !.reward_last_updated_timestamp = now]
  BY <1>1, <1>2, <1>5 DEF PoolType
<1> QED BY <1>2, <1>4, <1>6 DEF SyncModifyLiquidity

\* What is recorded outside a tick that stays or comes into use.
LEMMA ModifiedTickOutside ==
    ASSUME NEW tick \in TickType, IsClean(tick), NEW t, NEW thePool, NEW infos, NEW delta,
           NEW upper,
           NextTickModifyLiquidityUpdate(tick, t, thePool, infos, delta, upper).liquidity_gross # 0
    PROVE  LET new == NextTickModifyLiquidityUpdate(tick, t, thePool, infos, delta, upper)
               above == thePool.tick_current_index >= t
           IN  /\ \A k \in Token : new.fee_growth_outside[k] =
                    IF tick.initialized THEN tick.fee_growth_outside[k]
                    ELSE IF above THEN thePool.fee_growth_global[k] ELSE 0
               /\ \A r \in Reward : new.reward_growths_outside[r] =
                    IF tick.initialized THEN tick.reward_growths_outside[r]
                    ELSE IF above THEN infos[r].growth_global ELSE 0
<1> DEFINE new == NextTickModifyLiquidityUpdate(tick, t, thePool, infos, delta, upper)
           gross == AddLiquidityDelta(tick.liquidity_gross, delta)
<1>1. tick.initialized <=> tick.liquidity_gross # 0
  BY DEF IsClean, DefaultTick
<1>2. /\ DOMAIN tick.fee_growth_outside = Token
      /\ DOMAIN tick.reward_growths_outside = Reward
  BY DEF TickType
<1>3. CASE delta = 0
  <2>1. new = tick
    BY <1>3 DEF NextTickModifyLiquidityUpdate
  <2> QED BY <1>1, <2>1
<1>4. CASE delta # 0
  <2>1. gross # 0
    BY <1>4 DEF NextTickModifyLiquidityUpdate, DefaultTick
  <2> DEFINE outside(recorded, global) ==
               IF tick.liquidity_gross # 0 THEN recorded
               ELSE [k \in DOMAIN recorded |->
                       IF thePool.tick_current_index >= t THEN global[k] ELSE 0]
  <2>2. /\ new.fee_growth_outside = outside(tick.fee_growth_outside, thePool.fee_growth_global)
        /\ new.reward_growths_outside =
             outside(tick.reward_growths_outside, RewardGrowths(infos))
    BY <1>4, <2>1 DEF NextTickModifyLiquidityUpdate
  <2>3. \A r \in Reward : RewardGrowths(infos)[r] = infos[r].growth_global
    BY DEF RewardGrowths
  <2> QED BY <1>1, <1>2, <2>2, <2>3
<1> QED BY <1>3, <1>4

\* The ticks at the ends of the position are modified, the others are not.
LEMMA SyncTicks ==
    ASSUME TypeOK, LedgerInv, NEW p \in Position, NEW delta \in Int,
           CanModifyLiquidity(p, delta), SyncModifyLiquidity(p, delta)
    PROVE  LET lo == positions[p].tick_lower_index
               up == positions[p].tick_upper_index
           IN  /\ lo \in UsableTick /\ up \in UsableTick /\ lo \in Int /\ up \in Int /\ lo < up
               /\ ticks'[lo] = UpdatedTick(lo, delta, FALSE)
               /\ ticks'[up] = UpdatedTick(up, delta, TRUE)
               /\ \A t \in UsableTick \ {lo, up} : ticks'[t] = ticks[t]
<1> DEFINE lo == positions[p].tick_lower_index
           up == positions[p].tick_upper_index
<1>1. lo \in UsableTick /\ up \in UsableTick /\ positions[p].open
  BY DEF TypeOK, PositionType, CanModifyLiquidity
<1>2. lo < up /\ lo \in Int /\ up \in Int
  BY <1>1, SqrtPriceRangeType DEF LedgerInv, IsOrdered
<1>3. lo # up
  BY <1>2
<1> QED BY <1>1, <1>2, <1>3 DEF SyncModifyLiquidity, TypeOK

\* What is recorded outside an end of a position that has liquidity afterwards.
LEMMA SyncOutside ==
    ASSUME TypeOK, TypeOK', LedgerInv, LedgerInv', NEW p \in Position, NEW delta \in Int,
           CanModifyLiquidity(p, delta), SyncModifyLiquidity(p, delta),
           NEW q \in Position, positions'[q].liquidity # 0,
           NEW t, t \in {positions'[q].tick_lower_index, positions'[q].tick_upper_index}
    PROVE  LET above == pool.tick_current_index >= t
           IN  /\ t \in UsableTick /\ t \in Int
               /\ \A k \in Token : ticks'[t].fee_growth_outside[k] =
                    IF ticks[t].initialized THEN ticks[t].fee_growth_outside[k]
                    ELSE IF above THEN pool.fee_growth_global[k] ELSE 0
               /\ \A r \in Reward : ticks'[t].reward_growths_outside[r] =
                    IF ticks[t].initialized THEN ticks[t].reward_growths_outside[r]
                    ELSE IF above THEN NewRewardInfos[r].growth_global ELSE 0
<1> DEFINE lo == positions[p].tick_lower_index
           up == positions[p].tick_upper_index
<1>1. /\ positions' \in PositionsType /\ ticks' \in [UsableTick -> TickType]
      /\ TicksAgree(ticks', positions') /\ \A x \in Position : IsOrdered(positions'[x])
  BY DEF TypeOK, LedgerInv, PositionsType
<1>2. t \in UsableTick /\ t \in Int /\ ticks'[t].initialized /\ ticks'[t].liquidity_gross # 0
  BY <1>1, LiveEnds
<1>3. ticks[t] \in TickType /\ IsClean(ticks[t])
  BY <1>2 DEF TypeOK, LedgerInv, TicksAgree
<1>4. ASSUME NEW upper \in BOOLEAN, ticks'[t] = UpdatedTick(t, delta, upper)
      PROVE  /\ \A k \in Token : ticks'[t].fee_growth_outside[k] =
                    IF ticks[t].initialized THEN ticks[t].fee_growth_outside[k]
                    ELSE IF pool.tick_current_index >= t THEN pool.fee_growth_global[k] ELSE 0
             /\ \A r \in Reward : ticks'[t].reward_growths_outside[r] =
                    IF ticks[t].initialized THEN ticks[t].reward_growths_outside[r]
                    ELSE IF pool.tick_current_index >= t THEN NewRewardInfos[r].growth_global
                    ELSE 0
  <2> DEFINE infos == NewRewardInfos
             old == ticks[t]
  <2>1. ticks'[t] = NextTickModifyLiquidityUpdate(old, t, pool, infos, delta, upper)
    BY <1>4 DEF UpdatedTick
  <2> HIDE DEF infos, old
  <2>2. old \in TickType /\ IsClean(old)
    BY <1>3 DEF old
  <2>3. /\ \A k \in Token : ticks'[t].fee_growth_outside[k] =
                    IF old.initialized THEN old.fee_growth_outside[k]
                    ELSE IF pool.tick_current_index >= t THEN pool.fee_growth_global[k] ELSE 0
        /\ \A r \in Reward : ticks'[t].reward_growths_outside[r] =
                    IF old.initialized THEN old.reward_growths_outside[r]
                    ELSE IF pool.tick_current_index >= t THEN infos[r].growth_global ELSE 0
    BY <1>2, <2>1, <2>2, ModifiedTickOutside
  <2> QED BY <2>3 DEF infos, old
<1>5. CASE t = lo
  <2>1. ticks'[t] = UpdatedTick(t, delta, FALSE) /\ FALSE \in BOOLEAN
    BY <1>5, SyncTicks
  <2> QED BY <1>2, <1>4, <2>1
<1>6. CASE t = up
  <2>1. ticks'[t] = UpdatedTick(t, delta, TRUE) /\ TRUE \in BOOLEAN
    BY <1>6, SyncTicks
  <2> QED BY <1>2, <1>4, <2>1
<1>7. CASE t # lo /\ t # up
  <2>1. ticks'[t] = ticks[t]
    BY <1>2, <1>7, SyncTicks
  <2> QED BY <1>2, <2>1
<1> QED BY <1>5, <1>6, <1>7

\* What grew inside the ranges of the other positions is the same as before; what grew
\* inside that of the position itself is what it is settled by.
LEMMA SyncInside ==
    ASSUME TypeOK, TypeOK', LedgerInv, LedgerInv', NEW p \in Position, NEW delta \in Int,
           CanModifyLiquidity(p, delta), SyncModifyLiquidity(p, delta)
    PROVE  LET tick == pool.tick_current_index
           IN  /\ \A q \in Position \ {p} : positions[q].liquidity # 0 =>
                    \A g :
                       /\ \A k \in Token : FeeInside(positions'[q], ticks', tick, g, k)
                                             = FeeInside(positions[q], ticks, tick, g, k)
                       /\ \A r \in Reward : RewardInside(positions'[q], ticks', tick, g, r)
                                              = RewardInside(positions[q], ticks, tick, g, r)
               /\ positions'[p].liquidity # 0 =>
                    /\ \A k \in Token :
                         FeeInside(positions'[p], ticks', tick, pool.fee_growth_global[k], k)
                           = FeesInside(p)[k]
                    /\ \A r \in Reward : NewRewardInfos[r].initialized =>
                         RewardInside(positions'[p], ticks', tick,
                                      NewRewardInfos[r].growth_global, r)
                           = RewardsInside(p)[r]
<1> DEFINE tick == pool.tick_current_index
           lo == positions[p].tick_lower_index
           up == positions[p].tick_upper_index
<1>1. /\ positions' = [positions EXCEPT ![p] = UpdatedPosition(p, delta)]
      /\ positions \in PositionsType /\ ticks \in [UsableTick -> TickType]
      /\ TicksAgree(ticks, positions) /\ \A x \in Position : IsOrdered(positions[x])
      /\ tick \in Int
  BY SqrtPriceRangeType
     DEF SyncModifyLiquidity, TypeOK, PoolType, PositionsType, LedgerInv
<1>2. /\ \A q \in Position \ {p} : positions'[q] = positions[q]
      /\ positions'[p].tick_lower_index = lo /\ positions'[p].tick_upper_index = up
  BY <1>1, UpdatedPositionPlace DEF PositionsType
<1>3. ASSUME NEW q \in Position \ {p}, positions[q].liquidity # 0, NEW g
      PROVE  /\ \A k \in Token : FeeInside(positions'[q], ticks', tick, g, k)
                                   = FeeInside(positions[q], ticks, tick, g, k)
             /\ \A r \in Reward : RewardInside(positions'[q], ticks', tick, g, r)
                                    = RewardInside(positions[q], ticks, tick, g, r)
  <2> DEFINE l == positions[q].tick_lower_index
             u == positions[q].tick_upper_index
  <2>1. ticks[l].initialized /\ ticks[u].initialized
    BY <1>1, <1>3, LiveEnds
  <2>2. positions'[q] = positions[q] /\ positions'[q].liquidity # 0
    BY <1>2, <1>3
  <2>3. ASSUME NEW t \in {l, u}
        PROVE  /\ \A k \in Token :
                    ticks'[t].fee_growth_outside[k] = ticks[t].fee_growth_outside[k]
               /\ \A r \in Reward :
                    ticks'[t].reward_growths_outside[r] = ticks[t].reward_growths_outside[r]
    <3>1. t \in {positions'[q].tick_lower_index, positions'[q].tick_upper_index}
      BY <2>2
    <3>2. /\ \A k \in Token : ticks'[t].fee_growth_outside[k] =
                    IF ticks[t].initialized THEN ticks[t].fee_growth_outside[k]
                    ELSE IF pool.tick_current_index >= t THEN pool.fee_growth_global[k] ELSE 0
          /\ \A r \in Reward : ticks'[t].reward_growths_outside[r] =
                    IF ticks[t].initialized THEN ticks[t].reward_growths_outside[r]
                    ELSE IF pool.tick_current_index >= t THEN NewRewardInfos[r].growth_global
                    ELSE 0
      BY <2>2, <3>1, SyncOutside
    <3> QED BY <2>1, <3>2
  <2> QED BY <2>2, <2>3 DEF FeeInside, RewardInside
<1>4. ASSUME positions'[p].liquidity # 0
      PROVE  /\ \A k \in Token :
                  FeeInside(positions'[p], ticks', tick, pool.fee_growth_global[k], k)
                    = FeesInside(p)[k]
             /\ \A r \in Reward : NewRewardInfos[r].initialized =>
                  RewardInside(positions'[p], ticks', tick,
                               NewRewardInfos[r].growth_global, r)
                    = RewardsInside(p)[r]
  <2>1. ASSUME NEW t \in {lo, up}
        PROVE  /\ t \in Int /\ ticks[t] \in TickType
               /\ \A k \in Token : ticks'[t].fee_growth_outside[k] =
                    IF ticks[t].initialized THEN ticks[t].fee_growth_outside[k]
                    ELSE IF pool.tick_current_index >= t THEN pool.fee_growth_global[k] ELSE 0
               /\ \A r \in Reward : ticks'[t].reward_growths_outside[r] =
                    IF ticks[t].initialized THEN ticks[t].reward_growths_outside[r]
                    ELSE IF pool.tick_current_index >= t THEN NewRewardInfos[r].growth_global
                    ELSE 0
    <3>1. t \in {positions'[p].tick_lower_index, positions'[p].tick_upper_index}
      BY <1>2
    <3>2. /\ t \in UsableTick /\ t \in Int
          /\ \A k \in Token : ticks'[t].fee_growth_outside[k] =
                    IF ticks[t].initialized THEN ticks[t].fee_growth_outside[k]
                    ELSE IF pool.tick_current_index >= t THEN pool.fee_growth_global[k] ELSE 0
          /\ \A r \in Reward : ticks'[t].reward_growths_outside[r] =
                    IF ticks[t].initialized THEN ticks[t].reward_growths_outside[r]
                    ELSE IF pool.tick_current_index >= t THEN NewRewardInfos[r].growth_global
                    ELSE 0
      BY <1>4, <3>1, SyncOutside
    <3> QED BY <1>1, <3>2
  <2>2. ASSUME NEW k \in Token
        PROVE  FeeInside(positions'[p], ticks', tick, pool.fee_growth_global[k], k)
                 = FeesInside(p)[k]
    <3> DEFINE g == pool.fee_growth_global[k]
               li == ticks[lo].initialized
               ui == ticks[up].initialized
               a == ticks[lo].fee_growth_outside[k]
               b == ticks[up].fee_growth_outside[k]
    <3>1. /\ g \in U128 /\ li \in BOOLEAN /\ ui \in BOOLEAN /\ a \in U128 /\ b \in U128
          /\ lo \in Int /\ up \in Int
      BY <2>1 DEF TypeOK, PoolType, TickType
    <3>2. FeesInside(p)[k] = GrowthInside(tick, g, lo, li, a, up, ui, b)
      BY DEF FeesInside, NextFeeGrowthsInside
    <3>3. /\ ticks'[lo].fee_growth_outside[k] = IF li THEN a ELSE IF tick >= lo THEN g ELSE 0
          /\ ticks'[up].fee_growth_outside[k] = IF ui THEN b ELSE IF tick >= up THEN g ELSE 0
      BY <2>1
    <3>4. FeeInside(positions'[p], ticks', tick, g, k) =
            InsideInUse(tick, g, lo, ticks'[lo].fee_growth_outside[k],
                        up, ticks'[up].fee_growth_outside[k])
      BY <1>2 DEF FeeInside
    <3> HIDE DEF g, li, ui, a, b, lo, up, tick
    <3>5. InsideInUse(tick, g, lo, IF li THEN a ELSE IF tick >= lo THEN g ELSE 0,
                      up, IF ui THEN b ELSE IF tick >= up THEN g ELSE 0)
            = GrowthInside(tick, g, lo, li, a, up, ui, b)
      BY <1>1, <3>1, InsideInitialized
    <3> QED BY <3>2, <3>3, <3>4, <3>5 DEF g
  <2>3. ASSUME NEW r \in Reward, NewRewardInfos[r].initialized
        PROVE  RewardInside(positions'[p], ticks', tick, NewRewardInfos[r].growth_global, r)
                 = RewardsInside(p)[r]
    <3> DEFINE g == NewRewardInfos[r].growth_global
               li == ticks[lo].initialized
               ui == ticks[up].initialized
               a == ticks[lo].reward_growths_outside[r]
               b == ticks[up].reward_growths_outside[r]
    <3>1. /\ g \in U128 /\ li \in BOOLEAN /\ ui \in BOOLEAN /\ a \in U128 /\ b \in U128
          /\ lo \in Int /\ up \in Int
      BY <2>1, NewRewardInfosType DEF TickType
    <3>2. RewardsInside(p)[r] = GrowthInside(tick, g, lo, li, a, up, ui, b)
      BY <2>3 DEF RewardsInside, NextRewardGrowthsInside
    <3>3. /\ ticks'[lo].reward_growths_outside[r]
               = IF li THEN a ELSE IF tick >= lo THEN g ELSE 0
          /\ ticks'[up].reward_growths_outside[r]
               = IF ui THEN b ELSE IF tick >= up THEN g ELSE 0
      BY <2>1
    <3>4. RewardInside(positions'[p], ticks', tick, g, r) =
            InsideInUse(tick, g, lo, ticks'[lo].reward_growths_outside[r],
                        up, ticks'[up].reward_growths_outside[r])
      BY <1>2 DEF RewardInside
    <3> HIDE DEF g, li, ui, a, b, lo, up, tick
    <3>5. InsideInUse(tick, g, lo, IF li THEN a ELSE IF tick >= lo THEN g ELSE 0,
                      up, IF ui THEN b ELSE IF tick >= up THEN g ELSE 0)
            = GrowthInside(tick, g, lo, li, a, up, ui, b)
      BY <1>1, <3>1, InsideInitialized
    <3> QED BY <3>2, <3>3, <3>4, <3>5 DEF g
  <2> QED BY <2>2, <2>3
<1> QED BY <1>3, <1>4

----------------------------------------------------------------------------
(* The rewards: slots without one, and the clock.                          *)

\* The clock of the rewards is not ahead of time.
ClockInv == pool.reward_last_updated_timestamp <= now

\* A slot without a reward has grown nowhere.
UnusedSlots ==
    \A r \in Reward : ~pool.reward_infos[r].initialized =>
        /\ pool.reward_infos[r].growth_global = 0
        /\ pool.reward_infos[r].emissions = 0
        /\ \A t \in UsableTick : /\ ticks[t].reward_growths_outside[r] = 0
                                 /\ ~Idle => swap.ticks[t].reward_growths_outside[r] = 0

\* What a step keeps of the rewards: a slot that has one keeps it, and one that gets none
\* grows by nothing and emits nothing.
SlotsKept ==
    \A r \in Reward : ~pool'.reward_infos[r].initialized =>
        /\ ~pool.reward_infos[r].initialized
        /\ pool'.reward_infos[r].growth_global = NewRewardInfos[r].growth_global
        /\ pool'.reward_infos[r].emissions = pool.reward_infos[r].emissions

\* In a slot without a reward the rewards up to now are those there were.
LEMMA UnusedStays ==
    ASSUME TypeOK, NEW r \in Reward, ~pool.reward_infos[r].initialized
    PROVE  NewRewardInfos[r] = pool.reward_infos[r]
BY DEF NewRewardInfos, NextPoolRewardInfos

\* The least a step may do with the reward slots: nothing.
LEMMA SlotsSame ==
    ASSUME TypeOK, pool'.reward_infos = pool.reward_infos
    PROVE  SlotsKept
BY UnusedStays DEF SlotsKept

\* Or bring them up to date.
LEMMA SlotsUpdated ==
    ASSUME TypeOK, pool'.reward_infos = NewRewardInfos
    PROVE  SlotsKept
BY NewRewardInfosFields DEF SlotsKept

\* Where a step keeps the slots, and no tick gets anything in a slot without a reward, the
\* slots without one stay so.
LEMMA UnusedKept ==
    ASSUME TypeOK, UnusedSlots, SlotsKept,
           \A r \in Reward : ~pool.reward_infos[r].initialized =>
              \A t \in UsableTick :
                 /\ ticks'[t].reward_growths_outside[r] = 0
                 /\ ~Idle' => swap'.ticks[t].reward_growths_outside[r] = 0
    PROVE  UnusedSlots'
<1> SUFFICES ASSUME NEW r \in Reward, ~pool'.reward_infos[r].initialized
             PROVE  /\ pool'.reward_infos[r].growth_global = 0
                    /\ pool'.reward_infos[r].emissions = 0
                    /\ \A t \in UsableTick :
                          /\ ticks'[t].reward_growths_outside[r] = 0
                          /\ ~Idle' => swap'.ticks[t].reward_growths_outside[r] = 0
  BY DEF UnusedSlots
<1>1. /\ ~pool.reward_infos[r].initialized
      /\ pool'.reward_infos[r].growth_global = NewRewardInfos[r].growth_global
      /\ pool'.reward_infos[r].emissions = pool.reward_infos[r].emissions
  BY DEF SlotsKept
<1>2. NewRewardInfos[r] = pool.reward_infos[r]
  BY <1>1, UnusedStays
<1> QED BY <1>1, <1>2 DEF UnusedSlots

\* A change of liquidity.
LEMMA SyncUnused ==
    ASSUME TypeOK, LedgerInv, UnusedSlots, NEW p \in Position, NEW delta \in Int,
           CanModifyLiquidity(p, delta), SyncModifyLiquidity(p, delta), Idle'
    PROVE  UnusedSlots' /\ (ClockInv /\ now' = now => ClockInv')
<1>1. /\ pool'.reward_infos = NewRewardInfos
      /\ pool'.reward_last_updated_timestamp = now
  BY DEF SyncModifyLiquidity, TypeOK, PoolType
<1>2. ASSUME NEW r \in Reward, ~pool.reward_infos[r].initialized, NEW t \in UsableTick
      PROVE  ticks'[t].reward_growths_outside[r] = 0
  <2> DEFINE infos == NewRewardInfos
             lo == positions[p].tick_lower_index
             up == positions[p].tick_upper_index
  <2>1. ticks[t].reward_growths_outside[r] = 0 /\ ticks[t] \in TickType
    BY <1>2 DEF UnusedSlots, TypeOK
  <2>2. infos[r].growth_global = 0
    BY <1>2, UnusedStays DEF UnusedSlots
  <2> HIDE DEF infos
  <2>3. ASSUME NEW upper \in BOOLEAN
        PROVE  NextTickModifyLiquidityUpdate(ticks[t], t, pool, infos, delta, upper)
                  .reward_growths_outside[r] = 0
    BY <2>1, <2>2 DEF NextTickModifyLiquidityUpdate, DefaultTick, RewardGrowths, TickType
  <2>4. CASE t = lo
    <3>1. ticks'[t] = UpdatedTick(t, delta, FALSE) /\ FALSE \in BOOLEAN
      BY <2>4, SyncTicks
    <3> QED BY <2>3, <3>1 DEF UpdatedTick, infos
  <2>5. CASE t = up
    <3>1. ticks'[t] = UpdatedTick(t, delta, TRUE) /\ TRUE \in BOOLEAN
      BY <2>5, SyncTicks
    <3> QED BY <2>3, <3>1 DEF UpdatedTick, infos
  <2>6. CASE t # lo /\ t # up
    <3>1. ticks'[t] = ticks[t]
      BY <2>6, SyncTicks
    <3> QED BY <2>1, <3>1
  <2> QED BY <2>4, <2>5, <2>6
<1>3. SlotsKept
  BY <1>1, SlotsUpdated
<1>4. UnusedSlots'
  BY <1>2, <1>3, UnusedKept
<1>5. now \in Int
  BY DEF TypeOK
<1> QED BY <1>1, <1>4, <1>5 DEF ClockInv

\* What changes neither rewards nor ticks nor time, outside of a swap.
LEMMA UnusedElsewhere ==
    ASSUME TypeOK, UnusedSlots, ClockInv, UNCHANGED <<ticks, now>>, Idle',
           SlotsKept,
           pool'.reward_last_updated_timestamp = pool.reward_last_updated_timestamp
    PROVE  UnusedSlots' /\ ClockInv'
<1>1. UnusedSlots'
  BY UnusedKept DEF UnusedSlots
<1> QED BY <1>1 DEF ClockInv

\* Every instruction on a position keeps both.
LEMMA PositionUnused ==
    ASSUME TypeOK, LedgerInv, UnusedSlots, ClockInv, NEW p \in Position,
           PositionInstruction(p)
    PROVE  UnusedSlots' /\ ClockInv'
<1>1. ASSUME NEW range \in PositionRanges, OpenPosition(p, range[1], range[2])
      PROVE  UnusedSlots' /\ ClockInv'
  BY <1>1, SlotsSame, UnusedElsewhere DEF OpenPosition, Idle
<1>2. CASE ClosePosition(p)
  BY <1>2, SlotsSame, UnusedElsewhere DEF ClosePosition, Idle
<1>3. ASSUME NEW amount \in LiquidityAmounts, IncreaseLiquidity(p, amount)
      PROVE  UnusedSlots' /\ ClockInv'
  BY <1>3, SyncUnused DEF IncreaseLiquidity, Idle, I128
<1>4. ASSUME NEW amount \in LiquidityAmounts, DecreaseLiquidity(p, amount)
      PROVE  UnusedSlots' /\ ClockInv'
  <2>1. -amount \in Int
    BY <1>4 DEF DecreaseLiquidity, I128
  <2> QED BY <1>4, <2>1, SyncUnused DEF DecreaseLiquidity, Idle
<1>5. CASE UpdateFeesAndRewards(p)
  <2>1. CanModifyLiquidity(p, 0) /\ SyncModifyLiquidity(p, 0) /\ 0 \in Int
    BY <1>5, UpdateIsSync
  <2> QED BY <1>5, <2>1, SyncUnused DEF UpdateFeesAndRewards, Idle
<1>6. CASE CollectFees(p)
  BY <1>6, SlotsSame, UnusedElsewhere DEF CollectFees, Idle
<1>7. ASSUME NEW r \in Reward, CollectReward(p, r) PROVE UnusedSlots' /\ ClockInv'
  BY <1>7, SlotsSame, UnusedElsewhere DEF CollectReward, Idle
<1> QED BY <1>1, <1>2, <1>3, <1>4, <1>5, <1>6, <1>7 DEF PositionInstruction

\* So does one on the rewards.
LEMMA RewardUnused ==
    ASSUME TypeOK, UnusedSlots, ClockInv, RewardInstruction
    PROVE  UnusedSlots' /\ ClockInv'
<1>0. pool \in PoolType /\ pool.reward_infos \in RewardInfos /\ now \in Int
  BY DEF TypeOK, PoolType
<1>1. ASSUME NEW i \in DOMAIN RewardSlots, InitializeReward(i)
      PROVE  UnusedSlots' /\ ClockInv'
  <2>1. pool' = [pool EXCEPT !.reward_infos[RewardSlots[i]].initialized = TRUE]
    BY <1>1 DEF InitializeReward
  <2>2. /\ pool'.reward_last_updated_timestamp = pool.reward_last_updated_timestamp
        /\ pool'.reward_infos =
             [pool.reward_infos EXCEPT ![RewardSlots[i]].initialized = TRUE]
    BY <1>0, <2>1 DEF PoolType
  <2>3. \A r \in Reward :
           /\ pool'.reward_infos[r].emissions = pool.reward_infos[r].emissions
           /\ pool'.reward_infos[r].growth_global = pool.reward_infos[r].growth_global
           /\ ~pool'.reward_infos[r].initialized => ~pool.reward_infos[r].initialized
    BY <1>0, <2>2 DEF RewardInfos
  <2>4. SlotsKept
    BY <2>3, UnusedStays DEF SlotsKept
  <2> QED BY <1>1, <2>2, <2>4, UnusedElsewhere DEF InitializeReward, Idle
<1>2. ASSUME NEW r \in Reward, NEW amount, FundReward(r, amount)
      PROVE  UnusedSlots' /\ ClockInv'
  BY <1>2, SlotsSame, UnusedElsewhere DEF FundReward, Idle
<1>3. ASSUME NEW r \in Reward, NEW emissions, SetRewardEmissions(r, emissions)
      PROVE  UnusedSlots' /\ ClockInv'
  <2> DEFINE infos == NewRewardInfos
  <2>1. pool' = [pool EXCEPT !.reward_infos = [infos EXCEPT ![r].emissions = emissions],
                             !.reward_last_updated_timestamp = now]
    BY <1>3 DEF SetRewardEmissions
  <2>2. \A q \in Reward :
           /\ infos[q].initialized = pool.reward_infos[q].initialized
           /\ infos[q].emissions = pool.reward_infos[q].emissions
    BY NewRewardInfosFields
  <2>3. pool.reward_infos[r].initialized
    BY <1>3 DEF SetRewardEmissions
  <2>4. SlotsKept
    <3>1. infos \in RewardInfos
      BY RewardInfosType DEF TypeOK, NewRewardInfos
    <3>2. pool'.reward_infos = [infos EXCEPT ![r].emissions = emissions]
      BY <1>0, <2>1 DEF PoolType
    <3> HIDE DEF infos
    <3>3. \A q \in Reward :
             /\ pool'.reward_infos[q].initialized = infos[q].initialized
             /\ pool'.reward_infos[q].growth_global = infos[q].growth_global
             /\ q # r => pool'.reward_infos[q].emissions = infos[q].emissions
      BY <3>1, <3>2 DEF RewardInfos
    <3> QED BY <2>2, <2>3, <3>3 DEF SlotsKept, infos
  <2>5. pool'.reward_last_updated_timestamp = now
    BY <1>0, <2>1 DEF PoolType
  <2>6. /\ ticks' = ticks /\ now' = now /\ Idle' /\ Idle
    BY <1>3 DEF SetRewardEmissions, Idle
  <2>7. UnusedSlots'
    BY <2>4, <2>6, UnusedKept DEF UnusedSlots
  <2> QED BY <1>0, <2>5, <2>6, <2>7 DEF ClockInv
<1> QED BY <1>1, <1>2, <1>3 DEF RewardInstruction

\* Crossing a tick leaves the slots without a reward alone.
LEMMA StepUnused ==
    ASSUME IInv, UnusedSlots, ClockInv, SwapStep
    PROVE  UnusedSlots' /\ ClockInv'
<1>0. TypeOK
  BY DEF IInv
<1>1. PICK j, t, c : Iteration(j, t, c)
  BY StepIsIteration
<1>2. /\ ~Idle /\ pool' = pool /\ ticks' = ticks /\ now' = now
  BY <1>1 DEF Iteration
<1>3. ASSUME NEW r \in Reward, ~pool.reward_infos[r].initialized, NEW u \in UsableTick
      PROVE  ticks'[u].reward_growths_outside[r] = 0
             /\ swap'.ticks[u].reward_growths_outside[r] = 0
  <2>1. ~NewRewardInfos[r].initialized
    BY <1>0, <1>3, UnusedStays
  <2>2. swap'.ticks[u].reward_growths_outside[r] = swap.ticks[u].reward_growths_outside[r]
    BY <1>1, <2>1, IterationOutside
  <2> QED BY <1>2, <1>3, <2>2 DEF UnusedSlots
<1>4. SlotsKept
  BY <1>0, <1>2, SlotsSame
<1>5. UnusedSlots'
  BY <1>0, <1>3, <1>4, UnusedKept
<1> QED BY <1>2, <1>5 DEF ClockInv

\* Every step keeps both.
LEMMA NextUnused ==
    IInv /\ LedgerInv /\ UnusedSlots /\ ClockInv /\ [Next]_vars => UnusedSlots' /\ ClockInv'
<1> SUFFICES ASSUME IInv, LedgerInv, UnusedSlots, ClockInv, [Next]_vars
             PROVE  UnusedSlots' /\ ClockInv'
  OBVIOUS
<1>0. TypeOK /\ pool \in PoolType
  BY DEF IInv, TypeOK
<1>1. CASE UNCHANGED vars
  BY <1>1 DEF vars, UnusedSlots, ClockInv, Idle
<1>2. ASSUME NEW p \in Position, PositionInstruction(p) PROVE UnusedSlots' /\ ClockInv'
  BY <1>0, <1>2, PositionUnused
<1>3. CASE RewardInstruction
  BY <1>0, <1>3, RewardUnused
<1>4. CASE PoolInstruction
  <2>1. /\ pool'.reward_infos = pool.reward_infos
        /\ pool'.reward_last_updated_timestamp = pool.reward_last_updated_timestamp
        /\ UNCHANGED <<ticks, now>> /\ Idle'
    BY <1>0, <1>4 DEF PoolInstruction, InitializeTickArray, CollectProtocolFees, SetFeeRate,
                      SetProtocolFeeRate, PoolType, Idle
  <2> QED BY <1>0, <2>1, SlotsSame, UnusedElsewhere
<1>5. ASSUME NEW a \in SwapArgs, SwapBegin(a) PROVE UnusedSlots' /\ ClockInv'
  <2>1. swap'.ticks = ticks /\ UNCHANGED <<pool, ticks, now>>
    BY <1>5 DEF SwapBegin, SwapStart
  <2> QED BY <2>1 DEF UnusedSlots, ClockInv
<1>6. CASE SwapStep
  BY <1>6, StepUnused
<1>7. CASE SwapCommit
  <2>1. /\ pool'.reward_infos = NewRewardInfos /\ ticks' = swap.ticks
        /\ pool'.reward_last_updated_timestamp = now /\ now' = now /\ ~Idle /\ Idle'
    BY <1>0, <1>7, CommitFields DEF SwapCommit, Idle
  <2>2. SlotsKept
    BY <1>0, <2>1, SlotsUpdated
  <2>3. UnusedSlots'
    BY <1>0, <2>1, <2>2, UnusedKept DEF UnusedSlots
  <2>4. now \in Int
    BY <1>0 DEF TypeOK
  <2> QED BY <2>1, <2>3, <2>4 DEF ClockInv
<1>8. CASE SwapRevert
  BY <1>8 DEF SwapRevert, UnusedSlots, ClockInv, Idle
<1>9. CASE AdvanceTime
  <2>1. /\ UNCHANGED <<pool, ticks>> /\ Idle /\ Idle' /\ now' = now + 1
    BY <1>9 DEF AdvanceTime, Idle
  <2>2. pool.reward_last_updated_timestamp \in Int /\ now \in Int
    BY <1>0 DEF TypeOK, PoolType
  <2> QED BY <2>1, <2>2 DEF UnusedSlots, ClockInv
<1> QED BY <1>1, <1>2, <1>3, <1>4, <1>5, <1>6, <1>7, <1>8, <1>9 DEF Next, Swapping

\* Both hold at first.
LEMMA InitUnused == Init => UnusedSlots /\ ClockInv
<1> SUFFICES ASSUME Init PROVE UnusedSlots /\ ClockInv
  OBVIOUS
<1>1. PICK price \in InitialPrices : pool = InitialPool(price)
  BY DEF Init
<1>2. ticks = [t \in UsableTick |-> DefaultTick] /\ now = StartTime /\ Idle
  BY DEF Init, Idle
<1> QED BY <1>1, <1>2, PoolAssumption DEF UnusedSlots, ClockInv, InitialPool, DefaultTick

----------------------------------------------------------------------------
(* What is owed of a reward is what was emitted.                           *)

\* What a position is owed of a reward in Q64.64, where x has grown inside its range:
\* what was settled, and what has grown since.
OwedReward(pos, x, r) ==
    Q64 * pos.reward_owed[r] + pos.liquidity * WrappingSub(x, pos.reward_growth_checkpoint[r])

\* What all are owed of it up to the last update of the clock, and up to now.
AccruedRewards(r) ==
    [p \in Position |->
        OwedReward(positions[p], RewardInside(positions[p], ticks, pool.tick_current_index,
                                              pool.reward_infos[r].growth_global, r), r)]
AccruedToNow(r) == [p \in Position |-> OwedReward(positions[p], PoolRewardInside(p, r), r)]

\* What will be emitted for the time between.
Outstanding(r) ==
    (now - pool.reward_last_updated_timestamp) * pool.reward_infos[r].emissions

(***************************************************************************)
(* The inductive invariant: what was collected of a reward, what the       *)
(* positions are owed, in full precision, and what is outstanding are      *)
(* together no more than what was emitted.                                 *)
(***************************************************************************)
RewardsBacked ==
    \A r \in Reward :
        Q64 * paid[r] + SumOver(AccruedRewards(r)) + Outstanding(r) <= emitted[r]

\* What a position is owed is a number.
LEMMA OwedRewardType ==
    ASSUME NEW pos \in PositionType, NEW x \in U128, NEW r \in Reward
    PROVE  OwedReward(pos, x, r) \in Nat
<1>1. /\ pos.reward_owed[r] \in Nat /\ pos.liquidity \in Nat /\ Q64 \in Nat
      /\ pos.reward_growth_checkpoint[r] \in U128
  BY Widths DEF PositionType
<1>2. WrappingSub(x, pos.reward_growth_checkpoint[r]) \in Nat
  BY <1>1, WrapCases, Widths
<1> DEFINE d == WrappingSub(x, pos.reward_growth_checkpoint[r])
<1> HIDE DEF d
<1>3. Q64 * pos.reward_owed[r] \in Nat /\ pos.liquidity * d \in Nat
  BY <1>1, <1>2, MulNat DEF d
<1> QED BY <1>3 DEF OwedReward, d

\* The types of what the clock of the rewards goes by.
LEMMA RewardClockType ==
    ASSUME TypeOK, NEW r \in Reward
    PROVE  /\ pool.reward_infos[r].growth_global \in U128
           /\ pool.reward_infos[r].emissions \in Nat
           /\ NewRewardInfos[r].growth_global \in U128
           /\ now \in Nat /\ pool.reward_last_updated_timestamp \in Nat
<1>1. pool.reward_infos \in RewardInfos /\ pool.reward_last_updated_timestamp \in Nat
      /\ now \in Nat
  BY DEF TypeOK, PoolType
<1>2. pool.reward_infos[r].growth_global \in U128 /\ pool.reward_infos[r].emissions \in U128
  BY <1>1 DEF RewardInfos
<1> QED BY <1>1, <1>2, NewRewardInfosType, WidthsAreNumbers

\* So are the sums.
LEMMA AccruedType ==
    ASSUME TypeOK, NEW r \in Reward
    PROVE  /\ AccruedRewards(r) \in [Position -> Nat]
           /\ AccruedRewards(r) \in [Position -> Int]
           /\ AccruedToNow(r) \in [Position -> Nat]
           /\ AccruedToNow(r) \in [Position -> Int]
           /\ SumOver(AccruedRewards(r)) \in Nat
           /\ SumOver(AccruedToNow(r)) \in Nat
           /\ Outstanding(r) \in Int
<1>1. /\ pool.reward_infos[r].growth_global \in U128
      /\ NewRewardInfos[r].growth_global \in U128
      /\ ticks \in [UsableTick -> TickType]
      /\ \A p \in Position : positions[p] \in PositionType
  BY RewardClockType DEF TypeOK
<1>2. ASSUME NEW p \in Position
      PROVE  AccruedRewards(r)[p] \in Nat /\ AccruedToNow(r)[p] \in Nat
  BY <1>1, InsideInUseType, OwedRewardType DEF AccruedRewards, AccruedToNow, PoolRewardInside
<1>3. /\ AccruedRewards(r) \in [Position -> Nat]
      /\ AccruedToNow(r) \in [Position -> Nat]
  BY <1>2 DEF AccruedRewards, AccruedToNow
<1>4. Outstanding(r) \in Int
  <2> DEFINE e == pool.reward_infos[r].emissions
             n == now - pool.reward_last_updated_timestamp
  <2>1. e \in Int /\ n \in Int
    BY RewardClockType
  <2> HIDE DEF e, n
  <2>2. n * e \in Int
    BY <2>1
  <2> QED BY <2>2 DEF Outstanding, e, n
<1>5. /\ AccruedRewards(r) \in [Position -> Int]
      /\ AccruedToNow(r) \in [Position -> Int]
  BY <1>3
<1> QED BY <1>3, <1>4, <1>5, SumOfNats

\* Growth by d adds at most d for each unit of liquidity.
LEMMA OwedGrows ==
    ASSUME NEW pos \in PositionType, NEW x \in U128, NEW d \in U128, NEW r \in Reward
    PROVE  OwedReward(pos, WrappingAdd(x, d), r) <= OwedReward(pos, x, r) + d * pos.liquidity
<1> DEFINE cp == pos.reward_growth_checkpoint[r]
           y == WrappingSub(x, cp)
           z == WrappingSub(WrappingAdd(x, d), cp)
           L == pos.liquidity
           w == Q64 * pos.reward_owed[r]
<1>1. /\ cp \in U128 /\ L \in Nat /\ w \in Nat
  BY Widths, MulNat DEF PositionType
<1>2. y \in U128 /\ z = WrappingAdd(y, d)
  BY <1>1, WrapCases, AddSubCommute
<1> HIDE DEF cp, y, z, L, w
<1>3. z <= y + d /\ z \in Int /\ y \in Int /\ d \in Int
  <2>1. WrappingAdd(y, d) <= y + d /\ WrappingAdd(y, d) \in U128
    BY <1>2, WrapZero, WrapCases
  <2> QED BY <1>2, <2>1, WidthsAreNumbers
<1>4. L * z <= L * (y + d)
  BY <1>1, <1>3, MulMono
<1>5. L * (y + d) = L * y + d * L /\ L * z \in Int /\ L * y \in Int /\ d * L \in Int
  BY <1>1, <1>3
<1>6. w + L * z <= w + L * y + d * L
  BY <1>1, <1>4, <1>5
<1> QED BY <1>6 DEF OwedReward, cp, y, z, L, w

(***************************************************************************)
(* Bringing the rewards up to date shares out no more than is outstanding: *)
(* the growth is what is outstanding over the liquidity in force, rounded  *)
(* down, and the positions around the tick, whose liquidity that is, get   *)
(* the growth for each unit of theirs.                                     *)
(***************************************************************************)
LEMMA UpdateShares ==
    ASSUME TypeOK, LedgerInv, InForceInv, ClockInv, NEW r \in Reward
    PROVE  SumOver(AccruedToNow(r)) <= SumOver(AccruedRewards(r)) + Outstanding(r)
<1> DEFINE d == RewardGrowthSince(r)
           tick == pool.tick_current_index
           around == Around(positions, tick)
           produced == (now - pool.reward_last_updated_timestamp) * pool.reward_infos[r].emissions
           g == pool.reward_infos[r].growth_global
<1>0. /\ tick \in Int /\ pool.liquidity \in Nat /\ g \in U128
      /\ positions \in PositionsType /\ \A p \in Position : positions[p] \in PositionType
      /\ ticks \in [UsableTick -> TickType]
      /\ TicksAgree(ticks, positions) /\ \A p \in Position : IsOrdered(positions[p])
  BY SqrtPriceRangeType, Widths
     DEF TypeOK, PoolType, RewardInfos, PositionsType, LedgerInv
<1>1. produced \in Nat
  <2> DEFINE e == pool.reward_infos[r].emissions
             n == now - pool.reward_last_updated_timestamp
  <2>1. e \in Nat /\ n \in Nat
    BY RewardClockType DEF ClockInv
  <2> HIDE DEF e, n
  <2>2. n * e \in Nat
    BY <2>1, MulNat
  <2> QED BY <2>2 DEF e, n
<1>2. \/ d = 0
      \/ pool.liquidity # 0 /\ produced \in U128 /\ d = produced \div pool.liquidity
  BY DEF RewardGrowthSince
<1> HIDE DEF produced
<1>3. d \in U128 /\ d * pool.liquidity <= produced
  <2>1. CASE d = 0
    BY <1>0, <1>1, <2>1, Widths
  <2>2. CASE pool.liquidity # 0 /\ produced \in U128 /\ d = produced \div pool.liquidity
    <3>1. d \in Nat /\ pool.liquidity * d <= produced
      BY <1>0, <1>1, <2>2, DivType
    <3>2. d <= produced
      <4> DEFINE L == pool.liquidity
      <4>1. L \in Nat \ {0} /\ L * d <= produced /\ d \in Nat
        BY <1>0, <2>2, <3>1
      <4> HIDE DEF L, d
      <4>2. d * 1 <= d * L
        BY <4>1, MulMono
      <4> QED BY <1>1, <4>1, <4>2
    <3> QED BY <1>0, <1>1, <2>2, <3>1, <3>2, U128Below
  <2> QED BY <1>2, <2>1, <2>2
<1> HIDE DEF d
<1>4. NewRewardInfos[r].growth_global = WrappingAdd(g, d)
  BY NewRewardInfosFields DEF d
<1>5. ASSUME NEW p \in Position
      PROVE  AccruedToNow(r)[p] <= AccruedRewards(r)[p] + d * around[p]
  <2> DEFINE pos == positions[p]
             lo == pos.tick_lower_index
             up == pos.tick_upper_index
             x == RewardInside(pos, ticks, tick, g, r)
             y == PoolRewardInside(p, r)
  <2>1. AccruedRewards(r)[p] = OwedReward(pos, x, r) /\ AccruedToNow(r)[p] = OwedReward(pos, y, r)
    BY DEF AccruedRewards, AccruedToNow
  <2>2. pos \in PositionType /\ x \in U128 /\ y \in U128
    BY <1>0, InsideInUseType, NewRewardInfosType DEF PoolRewardInside
  <2>3. OwedReward(pos, x, r) \in Int /\ around[p] \in Int /\ d \in Int
    <3>1. OwedReward(pos, x, r) \in Nat
      BY <2>2, OwedRewardType
    <3>2. around \in [Position -> Int]
      BY <1>0, PlacesType
    <3> QED BY <1>3, <3>1, <3>2, WidthsAreNumbers
  <2>4. CASE pos.liquidity = 0
    <3>1. around[p] = 0
      BY <2>4 DEF Around
    <3>2. WrappingSub(x, pos.reward_growth_checkpoint[r]) \in Int
          /\ WrappingSub(y, pos.reward_growth_checkpoint[r]) \in Int
      <4>1. pos.reward_growth_checkpoint[r] \in U128
        BY <2>2 DEF PositionType
      <4> HIDE DEF pos, x, y
      <4> QED BY <2>2, <4>1, WrapCases, WidthsAreNumbers
    <3>3. OwedReward(pos, x, r) = OwedReward(pos, y, r)
      BY <2>4, <3>2 DEF OwedReward
    <3> QED BY <2>1, <2>3, <3>1, <3>3
  <2>5. CASE pos.liquidity # 0
    <3>1. /\ lo \in Int /\ up \in Int /\ lo < up
          /\ ticks[lo].reward_growths_outside[r] \in U128
          /\ ticks[up].reward_growths_outside[r] \in U128
      BY <1>0, <2>5, LiveEnds DEF TickType
    <3>2. y = IF lo <= tick /\ tick < up THEN WrappingAdd(x, d) ELSE x
      <4> DEFINE a == ticks[lo].reward_growths_outside[r]
                 b == ticks[up].reward_growths_outside[r]
      <4>1. x = InsideInUse(tick, g, lo, a, up, b)
            /\ y = InsideInUse(tick, WrappingAdd(g, d), lo, a, up, b)
        BY <1>4 DEF PoolRewardInside, RewardInside
      <4>2. a \in U128 /\ b \in U128
        BY <3>1
      <4> HIDE DEF a, b, g, tick, lo, up, x, y
      <4> QED BY <1>0, <1>3, <3>1, <4>1, <4>2, InsideGrows
    <3>3. around[p] = IF lo <= tick /\ tick < up THEN pos.liquidity ELSE 0
      BY DEF Around
    <3>4. OwedReward(pos, WrappingAdd(x, d), r) <= OwedReward(pos, x, r) + d * pos.liquidity
      BY <1>3, <2>2, OwedGrows
    <3>5. CASE lo <= tick /\ tick < up
      BY <2>1, <3>2, <3>3, <3>4, <3>5
    <3>6. CASE ~(lo <= tick /\ tick < up)
      BY <2>1, <2>3, <3>2, <3>3, <3>6
    <3> QED BY <3>5, <3>6
  <2> QED BY <2>4, <2>5
<1>6. SumOver(AccruedToNow(r)) <= SumOver(AccruedRewards(r)) + d * SumOver(around)
  <2>1. /\ AccruedToNow(r) \in [Position -> Int] /\ AccruedRewards(r) \in [Position -> Int]
        /\ around \in [Position -> Int] /\ d \in Int
    BY <1>0, <1>3, AccruedType, PlacesType, Widths
  <2> HIDE DEF around
  <2> QED BY <1>5, <2>1, SumBound
<1>7. SumOver(around) = pool.liquidity
  BY DEF InForceInv
<1>8. Outstanding(r) = produced
  BY DEF Outstanding, produced
<1>9. SumOver(AccruedToNow(r)) \in Int /\ SumOver(AccruedRewards(r)) \in Int
  BY AccruedType
<1>10. d * pool.liquidity \in Int
  BY <1>0, <1>3, WidthsAreNumbers
<1> QED BY <1>1, <1>3, <1>6, <1>7, <1>8, <1>9, <1>10

\* What is settled is no more than what was owed and has grown since, in full precision.
LEMMA SettledOwed ==
    ASSUME NEW owed \in U64, NEW L \in U128, NEW x \in U128, NEW cp \in U128
    PROVE  Q64 * Settled(owed, L, x, cp) <= Q64 * owed + L * WrappingSub(x, cp)
<1> DEFINE d == WrappingSub(x, cp)
           m == MulShiftRightOrZero(L, d)
           N == Q64
<1>0. /\ N \in Nat \ {0} /\ owed \in Nat /\ L \in Nat /\ d \in Nat
      /\ owed < N
  <2>1. d \in U128
    BY WrapCases
  <2>2. N \in Nat \ {0} /\ owed \in 0 .. N - 1
    BY Widths DEF U64
  <2> HIDE DEF d, N
  <2>3. L \in Nat /\ d \in Nat
    BY <2>1, WidthsAreNumbers
  <2> QED BY <2>2, <2>3
<1> HIDE DEF d
<1>1. L * d \in Nat
  BY <1>0, MulNat
<1>2. m \in Nat /\ N * m <= L * d
  <2>1. CASE L * d \in U128
    <3>1. m = (L * d) \div N
      BY <2>1 DEF MulShiftRightOrZero
    <3> DEFINE n == L * d
    <3>2. n \in Nat /\ m = n \div N
      BY <1>1, <3>1
    <3> HIDE DEF n, m, N
    <3>3. m \in Nat /\ N * m <= n
      BY <1>0, <3>2, DivType
    <3> QED BY <3>3 DEF n
  <2>2. CASE L * d \notin U128
    <3>1. m = 0
      BY <2>2 DEF MulShiftRightOrZero
    <3> QED BY <1>0, <1>1, <3>1
  <2> QED BY <2>1, <2>2
<1>3. Settled(owed, L, x, cp) = (owed + m) % N
  BY DEF Settled, WrappingAdd64, d
<1> HIDE DEF m, N
<1>4. (owed + m) % N \in Nat /\ (owed + m) % N <= owed + m
  <2> DEFINE s == owed + m
  <2>1. s \in Nat
    BY <1>0, <1>2
  <2> HIDE DEF s
  <2> QED BY <1>0, <2>1, RemainderBelow DEF s
<1>5. N * ((owed + m) % N) <= N * (owed + m)
  <2> DEFINE z == (owed + m) % N
  <2>1. z \in Int /\ owed + m \in Int /\ z <= owed + m
    BY <1>0, <1>2, <1>4
  <2> HIDE DEF z
  <2>2. N * z <= N * (owed + m)
    BY <1>0, <2>1, MulMono
  <2> QED BY <2>2 DEF z
<1>6. N * (owed + m) = N * owed + N * m /\ N * owed \in Int /\ N * m \in Int
  BY <1>0, <1>2
<1> DEFINE z == N * ((owed + m) % N)
<1>7. z \in Int
  BY <1>0, <1>4
<1> HIDE DEF z
<1>8. z <= N * owed + L * d
  BY <1>1, <1>2, <1>5, <1>6, <1>7 DEF z
<1> QED BY <1>3, <1>8 DEF z, d, N

\* Nothing has grown inside a range where nothing was ever recorded.
LEMMA NoGrowthInside ==
    ASSUME NEW pos, NEW T, NEW tick, NEW r,
           T[pos.tick_lower_index].reward_growths_outside[r] = 0,
           T[pos.tick_upper_index].reward_growths_outside[r] = 0
    PROVE  RewardInside(pos, T, tick, 0, r) = 0
<1>1. WrappingSub(0, 0) = 0
  BY Widths, WrapZero
<1> QED BY <1>1 DEF RewardInside, InsideInUse, GrowthInside

\* A position with liquidity is settled by what has grown inside its range up to now,
\* which is nothing for a slot without a reward.
LEMMA InsideSettles ==
    ASSUME TypeOK, LedgerInv, UnusedSlots, NEW p \in Position, positions[p].liquidity # 0,
           NEW r \in Reward
    PROVE  RewardsInside(p)[r] = PoolRewardInside(p, r)
<1>1. CASE NewRewardInfos[r].initialized
  BY <1>1, InsidesComputed DEF PoolRewardInside
<1>2. CASE ~NewRewardInfos[r].initialized
  <2>1. RewardsInside(p)[r] = 0
    BY <1>2, InsidesComputed
  <2>2. ~pool.reward_infos[r].initialized
    BY <1>2, NewRewardInfosFields
  <2>3. /\ NewRewardInfos[r].growth_global = 0
        /\ \A t \in UsableTick : ticks[t].reward_growths_outside[r] = 0
    BY <2>2, UnusedStays DEF UnusedSlots
  <2>4. positions[p].tick_lower_index \in UsableTick /\ positions[p].tick_upper_index \in UsableTick
    BY DEF TypeOK, PositionType
  <2>5. PoolRewardInside(p, r) = 0
    BY <2>3, <2>4, NoGrowthInside DEF PoolRewardInside
  <2> QED BY <2>1, <2>5
<1> QED BY <1>1, <1>2

\* A sum of lesser terms is less.
LEMMA SumLess ==
    ASSUME NEW f \in [Position -> Int], NEW g \in [Position -> Int],
           \A p \in Position : f[p] <= g[p]
    PROVE  SumOver(f) <= SumOver(g)
<1>1. \A p \in Position : f[p] \in Int /\ g[p] \in Int /\ f[p] <= g[p] + 0 * f[p]
  OBVIOUS
<1>2. SumOver(f) <= SumOver(g) + 0 * SumOver(f)
  BY <1>1, SumBound
<1>3. SumOver(f) \in Int /\ SumOver(g) \in Int
  BY SumType
<1> QED BY <1>2, <1>3

\* The types after a step.
LEMMA AccruedAfter ==
    ASSUME TypeOK', NEW r \in Reward
    PROVE  /\ AccruedRewards(r)' \in [Position -> Nat]
           /\ AccruedRewards(r)' \in [Position -> Int]
           /\ SumOver(AccruedRewards(r)') \in Nat
           /\ pool'.reward_infos[r].emissions \in Nat
           /\ now' \in Nat /\ pool'.reward_last_updated_timestamp \in Nat
           /\ paid'[r] \in Nat /\ emitted'[r] \in Nat
<1>0. /\ pool'.reward_infos \in RewardInfos /\ pool'.reward_last_updated_timestamp \in Nat
      /\ now' \in Nat /\ paid'[r] \in Nat /\ emitted'[r] \in Nat
      /\ ticks' \in [UsableTick -> TickType]
      /\ \A p \in Position : positions'[p] \in PositionType
  BY DEF TypeOK, PoolType
<1>1. pool'.reward_infos[r].growth_global \in U128 /\ pool'.reward_infos[r].emissions \in U128
  BY <1>0 DEF RewardInfos
<1>2. ASSUME NEW p \in Position
      PROVE  OwedReward(positions'[p], RewardInside(positions'[p], ticks',
                pool'.tick_current_index, pool'.reward_infos[r].growth_global, r), r) \in Nat
  BY <1>0, <1>1, InsideInUseType, OwedRewardType
<1>3. AccruedRewards(r)' = [p \in Position |->
        OwedReward(positions'[p], RewardInside(positions'[p], ticks',
                   pool'.tick_current_index, pool'.reward_infos[r].growth_global, r), r)]
  BY DEF AccruedRewards
<1>4. AccruedRewards(r)' \in [Position -> Nat]
  BY <1>2, <1>3
<1>5. AccruedRewards(r)' \in [Position -> Int]
  BY <1>4
<1> QED BY <1>0, <1>1, <1>4, <1>5, SumOfNats, WidthsAreNumbers

\* Backed stays what owes no more and has no more outstanding.
LEMMA BackedLess ==
    ASSUME TypeOK, TypeOK', RewardsBacked, paid' = paid, emitted' = emitted,
           \A r \in Reward :
              /\ Outstanding(r)' = Outstanding(r)
              /\ \A p \in Position : AccruedRewards(r)'[p] <= AccruedRewards(r)[p]
    PROVE  RewardsBacked'
<1> SUFFICES ASSUME NEW r \in Reward
             PROVE  Q64 * paid'[r] + SumOver(AccruedRewards(r)') + Outstanding(r)' <= emitted'[r]
  BY DEF RewardsBacked
<1>1. SumOver(AccruedRewards(r)') <= SumOver(AccruedRewards(r))
  BY AccruedType, AccruedAfter, SumLess
<1>2. Q64 * paid[r] + SumOver(AccruedRewards(r)) + Outstanding(r) <= emitted[r]
  BY DEF RewardsBacked
<1>3. /\ SumOver(AccruedRewards(r)') \in Int /\ SumOver(AccruedRewards(r)) \in Int
      /\ Outstanding(r) \in Int /\ Outstanding(r)' = Outstanding(r)
  BY AccruedType, AccruedAfter
<1>4. paid[r] \in Nat /\ emitted[r] \in Nat /\ Q64 \in Nat
  BY Widths DEF TypeOK
<1>5. Q64 * paid[r] \in Int
  BY <1>4
<1> QED BY <1>1, <1>2, <1>3, <1>4, <1>5

\* Backed is what was brought up to date.
LEMMA BackedSettled ==
    ASSUME TypeOK, TypeOK', LedgerInv, InForceInv, ClockInv, RewardsBacked,
           paid' = paid, emitted' = emitted, now' = now,
           pool'.reward_last_updated_timestamp = now,
           \A r \in Reward : \A p \in Position : AccruedRewards(r)'[p] <= AccruedToNow(r)[p]
    PROVE  RewardsBacked'
<1> SUFFICES ASSUME NEW r \in Reward
             PROVE  Q64 * paid'[r] + SumOver(AccruedRewards(r)') + Outstanding(r)' <= emitted'[r]
  BY DEF RewardsBacked
<1>1. SumOver(AccruedRewards(r)') <= SumOver(AccruedToNow(r))
  BY AccruedType, AccruedAfter, SumLess
<1>2. SumOver(AccruedToNow(r)) <= SumOver(AccruedRewards(r)) + Outstanding(r)
  BY UpdateShares
<1>3. Outstanding(r)' = 0
  <2> DEFINE e == pool'.reward_infos[r].emissions
             n == now' - pool'.reward_last_updated_timestamp
  <2>1. e \in Nat /\ n = 0
    BY AccruedAfter
  <2> HIDE DEF e, n
  <2>2. n * e = 0
    BY <2>1
  <2> QED BY <2>2 DEF Outstanding, e, n
<1>4. Q64 * paid[r] + SumOver(AccruedRewards(r)) + Outstanding(r) <= emitted[r]
  BY DEF RewardsBacked
<1>5. /\ SumOver(AccruedRewards(r)') \in Int /\ SumOver(AccruedRewards(r)) \in Int
      /\ SumOver(AccruedToNow(r)) \in Int /\ Outstanding(r) \in Int
  BY AccruedType, AccruedAfter
<1>6. paid[r] \in Nat /\ emitted[r] \in Nat /\ Q64 \in Nat
  BY Widths DEF TypeOK
<1>7. Q64 * paid[r] \in Int
  BY <1>6
<1> QED BY <1>1, <1>2, <1>3, <1>4, <1>5, <1>6, <1>7

\* Without liquidity what is owed is what was settled, whatever grew.
LEMMA OwedIdle ==
    ASSUME NEW pos \in PositionType, pos.liquidity = 0, NEW x \in U128, NEW r \in Reward
    PROVE  OwedReward(pos, x, r) = Q64 * pos.reward_owed[r]
<1> DEFINE d == WrappingSub(x, pos.reward_growth_checkpoint[r])
           w == Q64 * pos.reward_owed[r]
<1>1. d \in Int /\ w \in Int
  <2>1. pos.reward_growth_checkpoint[r] \in U128 /\ pos.reward_owed[r] \in U64
    BY DEF PositionType
  <2>2. d \in U128 /\ pos.reward_owed[r] \in Nat /\ Q64 \in Nat
    BY <2>1, WrapCases, Widths, WidthsAreNumbers
  <2>3. d \in Int
    BY <2>2, WidthsAreNumbers
  <2> QED BY <2>2, <2>3
<1>2. OwedReward(pos, x, r) = w + 0 * d
  BY DEF OwedReward
<1> HIDE DEF d, w
<1>3. OwedReward(pos, x, r) = w
  BY <1>1, <1>2
<1> QED BY <1>3 DEF w

\* A change of liquidity settles one position, and shares out no more than is outstanding.
LEMMA SyncBacked ==
    ASSUME TypeOK, TypeOK', LedgerInv, LedgerInv', InForceInv, ClockInv,
           UnusedSlots, UnusedSlots', RewardsBacked,
           NEW p \in Position, NEW delta \in Int,
           CanModifyLiquidity(p, delta), SyncModifyLiquidity(p, delta),
           UNCHANGED <<now, emitted, paid>>
    PROVE  RewardsBacked'
<1>0. /\ pool \in PoolType /\ ticks \in [UsableTick -> TickType]
      /\ positions \in [Position -> PositionType] /\ positions' \in [Position -> PositionType]
      /\ ticks' \in [UsableTick -> TickType]
  BY DEF TypeOK
<1>1. /\ pool'.reward_infos = NewRewardInfos
      /\ pool'.reward_last_updated_timestamp = now
      /\ pool'.tick_current_index = pool.tick_current_index
      /\ positions' = [positions EXCEPT ![p] = UpdatedPosition(p, delta)]
  BY <1>0 DEF SyncModifyLiquidity, PoolType
<1>2. ASSUME NEW r \in Reward, NEW q \in Position
      PROVE  AccruedRewards(r)'[q] <= AccruedToNow(r)[q]
  <2> DEFINE g == NewRewardInfos[r].growth_global
             x == PoolRewardInside(q, r)
             y == RewardInside(positions'[q], ticks', pool.tick_current_index, g, r)
  <2>1. /\ AccruedToNow(r)[q] = OwedReward(positions[q], x, r)
        /\ AccruedRewards(r)'[q] = OwedReward(positions'[q], y, r)
    BY <1>1 DEF AccruedRewards, AccruedToNow
  <2>2. g \in U128
    BY NewRewardInfosType
  <2>3. x \in U128 /\ y \in U128
    BY <1>0, <2>2, InsideInUseType DEF PoolRewardInside
  <2>4. x = RewardInside(positions[q], ticks, pool.tick_current_index, g, r)
    BY DEF PoolRewardInside
  <2> HIDE DEF x, y, g
  <2>5. OwedReward(positions[q], x, r) \in Nat /\ OwedReward(positions'[q], y, r) \in Nat
    BY <1>0, <2>3, OwedRewardType
  <2>6. CASE q # p
    <3>1. positions'[q] = positions[q]
      BY <1>0, <1>1, <2>6
    <3>2. CASE positions[q].liquidity = 0
      <4>1. OwedReward(positions[q], x, r) = OwedReward(positions'[q], y, r)
        BY <1>0, <2>3, <3>1, <3>2, OwedIdle
      <4> QED BY <2>1, <2>5, <4>1
    <3>3. CASE positions[q].liquidity # 0
      <4>1. y = x
        BY <2>4, <2>6, <3>3, SyncInside DEF y
      <4> QED BY <2>1, <2>5, <3>1, <4>1
    <3> QED BY <3>2, <3>3
  <2>7. CASE q = p
    <3> DEFINE pos == positions[p]
               inside == RewardsInside(p)[r]
               cp == pos.reward_growth_checkpoint[r]
               settled == Settled(pos.reward_owed[r], pos.liquidity, inside, cp)
    <3>1. positions'[p] = UpdatedPosition(p, delta) /\ pos \in PositionType
      BY <1>0, <1>1
    <3>2. /\ positions'[p].reward_owed[r] = settled
          /\ positions'[p].reward_growth_checkpoint[r] = inside
      BY <3>1 DEF UpdatedPosition, NextPositionModifyLiquidityUpdate, PositionType
    <3>3. /\ inside \in U128 /\ cp \in U128 /\ pos.liquidity \in U128
          /\ pos.reward_owed[r] \in U64
      BY <3>1, InsideTypes DEF PositionType
    <3>4. OwedReward(positions'[p], y, r) = Q64 * settled
      <4>1. CASE positions'[p].liquidity = 0
        BY <1>0, <2>3, <2>7, <3>2, <4>1, OwedIdle
      <4>2. CASE positions'[p].liquidity # 0
        <5>1. y = inside
          <6>1. CASE NewRewardInfos[r].initialized
            BY <2>7, <4>2, <6>1, SyncInside DEF y, g
          <6>2. CASE ~NewRewardInfos[r].initialized
            <7>1. inside = 0
              BY <6>2 DEF RewardsInside, NextRewardGrowthsInside
            <7>2. /\ g = 0
                  /\ \A t \in UsableTick : ticks'[t].reward_growths_outside[r] = 0
              BY <1>1, <6>2 DEF UnusedSlots, g
            <7>3. /\ positions'[p].tick_lower_index \in UsableTick
                  /\ positions'[p].tick_upper_index \in UsableTick
              BY <1>0 DEF PositionType
            <7> QED BY <2>7, <7>1, <7>2, <7>3, NoGrowthInside DEF y
          <6> QED BY <6>1, <6>2
        <5>2. WrappingSub(y, positions'[p].reward_growth_checkpoint[r]) = 0
          BY <3>2, <3>3, <5>1, WrapZero
        <5> DEFINE L == positions'[p].liquidity
                   w == Q64 * settled
        <5>3. L \in Int /\ w \in Int
          <6>1. L \in U128 /\ settled \in U64
            BY <1>0, <3>3, SettledType DEF PositionType
          <6> HIDE DEF L, settled
          <6>2. L \in Int /\ settled \in Int /\ Q64 \in Int
            BY <6>1, WidthsAreNumbers, Widths
          <6> QED BY <6>2
        <5>4. OwedReward(positions'[p], y, r) = w + L * 0
          BY <3>2, <5>2 DEF OwedReward
        <5> HIDE DEF L, w
        <5>5. OwedReward(positions'[p], y, r) = w
          BY <5>3, <5>4
        <5> QED BY <5>5 DEF w
      <4> QED BY <4>1, <4>2
    <3>5. Q64 * settled <= Q64 * pos.reward_owed[r] + pos.liquidity * WrappingSub(inside, cp)
      BY <3>3, SettledOwed
    <3>6. CASE pos.liquidity = 0
      <4>1. OwedReward(pos, inside, r) = OwedReward(pos, x, r)
        BY <2>3, <3>1, <3>3, <3>6, OwedIdle
      <4>2. Q64 * settled <= OwedReward(pos, x, r)
        BY <3>5, <4>1 DEF OwedReward
      <4> QED BY <2>1, <2>7, <3>4, <4>2
    <3>7. CASE pos.liquidity # 0
      <4>1. inside = x
        BY <2>7, <3>7, InsideSettles DEF x
      <4>2. Q64 * settled <= OwedReward(pos, x, r)
        BY <3>5, <4>1 DEF OwedReward
      <4> QED BY <2>1, <2>7, <3>4, <4>2
    <3> QED BY <3>6, <3>7
  <2> QED BY <2>6, <2>7
<1> QED BY <1>1, <1>2, BackedSettled

\* What leaves the clock and the growth alone, and owes no position more.
LEMMA BackedElsewhere ==
    ASSUME TypeOK, TypeOK', LedgerInv, RewardsBacked, UNCHANGED <<ticks, now, emitted, paid>>,
           pool'.tick_current_index = pool.tick_current_index,
           pool'.reward_last_updated_timestamp = pool.reward_last_updated_timestamp,
           \A r \in Reward :
              /\ pool'.reward_infos[r].growth_global = pool.reward_infos[r].growth_global
              /\ pool'.reward_infos[r].emissions = pool.reward_infos[r].emissions,
           \A p \in Position :
              \/ /\ positions'[p].tick_lower_index = positions[p].tick_lower_index
                 /\ positions'[p].tick_upper_index = positions[p].tick_upper_index
                 /\ positions'[p].liquidity = positions[p].liquidity
                 /\ positions'[p].reward_growth_checkpoint = positions[p].reward_growth_checkpoint
                 /\ positions'[p].reward_owed = positions[p].reward_owed
              \/ /\ positions'[p].liquidity = 0
                 /\ \A r \in Reward : positions'[p].reward_owed[r] = 0
    PROVE  RewardsBacked'
<1>0. /\ positions \in [Position -> PositionType] /\ positions' \in [Position -> PositionType]
      /\ ticks \in [UsableTick -> TickType]
  BY DEF TypeOK
<1>1. ASSUME NEW r \in Reward PROVE Outstanding(r)' = Outstanding(r)
  BY DEF Outstanding
<1>2. ASSUME NEW r \in Reward, NEW p \in Position
      PROVE  AccruedRewards(r)'[p] <= AccruedRewards(r)[p]
  <2> DEFINE g == pool.reward_infos[r].growth_global
             tick == pool.tick_current_index
             x == RewardInside(positions[p], ticks, tick, g, r)
             y == RewardInside(positions'[p], ticks, tick, g, r)
  <2>1. /\ AccruedRewards(r)[p] = OwedReward(positions[p], x, r)
        /\ AccruedRewards(r)'[p] = OwedReward(positions'[p], y, r)
    BY DEF AccruedRewards
  <2>2. AccruedRewards(r)[p] \in Nat
    BY AccruedType
  <2>3. y \in U128
    BY <1>0, RewardClockType, InsideInUseType
  <2>4. CASE /\ positions'[p].tick_lower_index = positions[p].tick_lower_index
             /\ positions'[p].tick_upper_index = positions[p].tick_upper_index
             /\ positions'[p].liquidity = positions[p].liquidity
             /\ positions'[p].reward_growth_checkpoint = positions[p].reward_growth_checkpoint
             /\ positions'[p].reward_owed = positions[p].reward_owed
    <3>1. y = x
      BY <2>4 DEF RewardInside
    <3> HIDE DEF x, y
    <3>2. OwedReward(positions'[p], y, r) = OwedReward(positions[p], x, r)
      BY <2>4, <3>1 DEF OwedReward
    <3> QED BY <2>1, <2>2, <3>2
  <2>5. CASE positions'[p].liquidity = 0 /\ \A q \in Reward : positions'[p].reward_owed[q] = 0
    <3> HIDE DEF x, y
    <3>1. OwedReward(positions'[p], y, r) = Q64 * 0
      BY <1>0, <2>3, <2>5, OwedIdle
    <3>2. OwedReward(positions'[p], y, r) = 0
      BY <3>1, Widths
    <3> QED BY <2>1, <2>2, <3>2
  <2> QED BY <2>4, <2>5
<1> QED BY <1>1, <1>2, BackedLess

\* Collecting a reward pays out what is owed no more.
LEMMA CollectBacked ==
    ASSUME TypeOK, TypeOK', RewardsBacked, NEW p \in Position, NEW s \in Reward,
           CollectReward(p, s)
    PROVE  RewardsBacked'
<1> DEFINE amount == Lesser(positions[p].reward_owed[s], vault[s])
<1>0. /\ positions \in [Position -> PositionType]
      /\ paid \in [Reward -> Nat] /\ UNCHANGED <<pool, ticks, now, emitted>>
      /\ positions' = [positions EXCEPT ![p].reward_owed[s] = @ - amount]
      /\ paid' = [paid EXCEPT ![s] = @ + amount]
  BY DEF TypeOK, CollectReward
<1>1. amount \in Int
  BY WidthsAreNumbers DEF TypeOK, PositionType, Lesser
<1> HIDE DEF amount
<1> SUFFICES ASSUME NEW r \in Reward
             PROVE  Q64 * paid'[r] + SumOver(AccruedRewards(r)') + Outstanding(r)' <= emitted'[r]
  BY DEF RewardsBacked
<1> DEFINE paying == IF r = s THEN amount ELSE 0
           tick == pool.tick_current_index
           g == pool.reward_infos[r].growth_global
<1>2. paid'[r] = paid[r] + paying /\ paid[r] \in Int /\ paying \in Int
  BY <1>0, <1>1
<1>3. /\ \A q \in Position \ {p} : positions'[q] = positions[q]
      /\ positions'[p] = [positions[p] EXCEPT !.reward_owed[s] = @ - amount]
  BY <1>0
<1>4. /\ positions'[p].tick_lower_index = positions[p].tick_lower_index
      /\ positions'[p].tick_upper_index = positions[p].tick_upper_index
      /\ positions'[p].liquidity = positions[p].liquidity
      /\ positions'[p].reward_growth_checkpoint = positions[p].reward_growth_checkpoint
      /\ positions'[p].reward_owed[r] = positions[p].reward_owed[r] - paying
  <2>1. positions[p] \in PositionType
    BY <1>0
  <2> QED BY <1>1, <1>3, <2>1, WidthsAreNumbers DEF PositionType
<1>5. AccruedRewards(r)'[p] = AccruedRewards(r)[p] - Q64 * paying
  <2> DEFINE x == RewardInside(positions[p], ticks, tick, g, r)
             w == positions[p].liquidity * WrappingSub(x, positions[p].reward_growth_checkpoint[r])
             owed == positions[p].reward_owed[r]
  <2>1. RewardInside(positions'[p], ticks', tick, g, r) = x
    BY <1>0, <1>4 DEF RewardInside
  <2>2. /\ AccruedRewards(r)[p] = Q64 * owed + w
        /\ AccruedRewards(r)'[p] = Q64 * (owed - paying) + w
    BY <1>0, <1>4, <2>1 DEF AccruedRewards, OwedReward
  <2>3. owed \in Int /\ Q64 \in Int
    BY <1>0, WidthsAreNumbers, Widths DEF PositionType
  <2>4. w \in Int
    <3>1. x \in U128 /\ positions[p].reward_growth_checkpoint[r] \in U128
          /\ positions[p].liquidity \in U128
      <4>1. positions[p] \in PositionType /\ ticks \in [UsableTick -> TickType] /\ g \in U128
        BY <1>0, RewardClockType DEF TypeOK
      <4>2. x \in U128
        BY <4>1, InsideInUseType
      <4> QED BY <4>1, <4>2 DEF PositionType
    <3> HIDE DEF x
    <3>2. WrappingSub(x, positions[p].reward_growth_checkpoint[r]) \in U128
      BY <3>1, WrapCases
    <3> DEFINE u == WrappingSub(x, positions[p].reward_growth_checkpoint[r])
               L == positions[p].liquidity
    <3>3. u \in Int /\ L \in Int
      BY <3>1, <3>2, WidthsAreNumbers
    <3> HIDE DEF u, L
    <3>4. L * u \in Int
      BY <3>3
    <3> QED BY <3>4 DEF u, L
  <2> HIDE DEF w, owed, paying
  <2>5. Q64 * (owed - paying) = Q64 * owed - Q64 * paying
    BY <1>2, <2>3
  <2>6. Q64 * owed \in Int /\ Q64 * paying \in Int
    BY <1>2, <2>3
  <2> QED BY <2>2, <2>4, <2>5, <2>6
<1>6. ASSUME NEW q \in Position \ {p} PROVE AccruedRewards(r)'[q] = AccruedRewards(r)[q]
  BY <1>0, <1>3 DEF AccruedRewards
<1>7. SumOver(AccruedRewards(r)') = SumOver(AccruedRewards(r))
                                      + AccruedRewards(r)'[p] - AccruedRewards(r)[p]
  BY <1>6, AccruedType, AccruedAfter, SumChange
<1>8. Outstanding(r)' = Outstanding(r) /\ Outstanding(r) \in Int
  BY <1>0, AccruedType DEF Outstanding
<1>9. Q64 * paid[r] + SumOver(AccruedRewards(r)) + Outstanding(r) <= emitted[r]
  BY DEF RewardsBacked
<1>10. /\ SumOver(AccruedRewards(r)) \in Int /\ AccruedRewards(r)[p] \in Int
       /\ emitted[r] \in Int /\ Q64 \in Int
  BY AccruedType, Widths DEF TypeOK
<1> HIDE DEF paying
<1>11. /\ Q64 * paid'[r] = Q64 * paid[r] + Q64 * paying
       /\ Q64 * paid[r] \in Int /\ Q64 * paying \in Int
  BY <1>2, <1>10
<1> QED BY <1>0, <1>5, <1>7, <1>8, <1>9, <1>10, <1>11

\* Every instruction on a position keeps what is owed of the rewards backed.
LEMMA PositionBacked ==
    ASSUME TypeOK, TypeOK', LedgerInv, LedgerInv', InForceInv, ClockInv,
           UnusedSlots, UnusedSlots', RewardsBacked,
           NEW p \in Position, PositionInstruction(p)
    PROVE  RewardsBacked'
<1>0. positions \in [Position -> PositionType] /\ positions[p] \in PositionType
  BY DEF TypeOK
<1>1. ASSUME NEW range \in PositionRanges, OpenPosition(p, range[1], range[2])
      PROVE  RewardsBacked'
  <2>1. UNCHANGED <<pool, ticks, now, emitted, paid>>
    BY <1>1 DEF OpenPosition
  <2>2. \A q \in Position \ {p} : positions'[q] = positions[q]
    BY <1>0, <1>1 DEF OpenPosition
  <2>3. /\ positions'[p].liquidity = 0
        /\ \A r \in Reward : positions'[p].reward_owed[r] = 0
    BY <1>0, <1>1 DEF OpenPosition, ClosedPosition
  <2> QED BY <2>1, <2>2, <2>3, BackedElsewhere
<1>2. CASE ClosePosition(p)
  <2>1. UNCHANGED <<pool, ticks, now, emitted, paid>>
    BY <1>2 DEF ClosePosition
  <2>2. \A q \in Position \ {p} : positions'[q] = positions[q]
    BY <1>0, <1>2 DEF ClosePosition
  <2>3. /\ positions'[p].liquidity = 0
        /\ \A r \in Reward : positions'[p].reward_owed[r] = 0
    BY <1>0, <1>2 DEF ClosePosition, ClosedPosition
  <2> QED BY <2>1, <2>2, <2>3, BackedElsewhere
<1>3. ASSUME NEW amount \in LiquidityAmounts, IncreaseLiquidity(p, amount)
      PROVE  RewardsBacked'
  <2>1. /\ amount \in Int /\ CanModifyLiquidity(p, amount) /\ SyncModifyLiquidity(p, amount)
        /\ UNCHANGED <<now, emitted, paid>>
    BY <1>3 DEF IncreaseLiquidity, I128
  <2> QED BY <2>1, SyncBacked
<1>4. ASSUME NEW amount \in LiquidityAmounts, DecreaseLiquidity(p, amount)
      PROVE  RewardsBacked'
  <2>1. /\ -amount \in Int /\ CanModifyLiquidity(p, -amount) /\ SyncModifyLiquidity(p, -amount)
        /\ UNCHANGED <<now, emitted, paid>>
    BY <1>4 DEF DecreaseLiquidity, I128
  <2> QED BY <2>1, SyncBacked
<1>5. CASE UpdateFeesAndRewards(p)
  <2>1. CanModifyLiquidity(p, 0) /\ SyncModifyLiquidity(p, 0) /\ 0 \in Int
    BY <1>5, UpdateIsSync
  <2>2. UNCHANGED <<now, emitted, paid>>
    BY <1>5 DEF UpdateFeesAndRewards
  <2> QED BY <2>1, <2>2, SyncBacked
<1>6. CASE CollectFees(p)
  <2>1. UNCHANGED <<pool, ticks, now, emitted, paid>>
    BY <1>6 DEF CollectFees
  <2>2. positions' = [positions EXCEPT ![p].fee_owed = [k \in Token |-> 0]]
    BY <1>6 DEF CollectFees
  <2>3. \A q \in Position \ {p} : positions'[q] = positions[q]
    BY <1>0, <2>2
  <2>4. positions'[p] = [positions[p] EXCEPT !.fee_owed = [k \in Token |-> 0]]
    BY <1>0, <2>2
  <2>5. /\ positions'[p].tick_lower_index = positions[p].tick_lower_index
        /\ positions'[p].tick_upper_index = positions[p].tick_upper_index
        /\ positions'[p].liquidity = positions[p].liquidity
        /\ positions'[p].reward_growth_checkpoint = positions[p].reward_growth_checkpoint
        /\ positions'[p].reward_owed = positions[p].reward_owed
    BY <1>0, <2>4 DEF PositionType
  <2> QED BY <2>1, <2>3, <2>5, BackedElsewhere
<1>7. ASSUME NEW r \in Reward, CollectReward(p, r) PROVE RewardsBacked'
  BY <1>7, CollectBacked
<1> QED BY <1>1, <1>2, <1>3, <1>4, <1>5, <1>6, <1>7 DEF PositionInstruction

\* What changes the pool in other respects only.
LEMMA BackedPoolKept ==
    ASSUME TypeOK, TypeOK', LedgerInv, RewardsBacked,
           UNCHANGED <<positions, ticks, now, emitted, paid>>,
           pool'.tick_current_index = pool.tick_current_index,
           pool'.reward_last_updated_timestamp = pool.reward_last_updated_timestamp,
           \A r \in Reward :
              /\ pool'.reward_infos[r].growth_global = pool.reward_infos[r].growth_global
              /\ pool'.reward_infos[r].emissions = pool.reward_infos[r].emissions
    PROVE  RewardsBacked'
<1>1. \A p \in Position : positions'[p] = positions[p]
  OBVIOUS
<1> QED BY <1>1, BackedElsewhere

\* New emissions count from the moment they are set.
LEMMA RewardBacked ==
    ASSUME TypeOK, TypeOK', LedgerInv, InForceInv, ClockInv, RewardsBacked, RewardInstruction
    PROVE  RewardsBacked'
<1>0. pool \in PoolType /\ pool.reward_infos \in RewardInfos
  BY DEF TypeOK, PoolType
<1>1. ASSUME NEW i \in DOMAIN RewardSlots, InitializeReward(i) PROVE RewardsBacked'
  <2>1. pool' = [pool EXCEPT !.reward_infos[RewardSlots[i]].initialized = TRUE]
    BY <1>1 DEF InitializeReward
  <2>2. /\ pool'.reward_last_updated_timestamp = pool.reward_last_updated_timestamp
        /\ pool'.tick_current_index = pool.tick_current_index
        /\ pool'.reward_infos =
             [pool.reward_infos EXCEPT ![RewardSlots[i]].initialized = TRUE]
    BY <1>0, <2>1 DEF PoolType
  <2>3. \A r \in Reward :
           /\ pool'.reward_infos[r].emissions = pool.reward_infos[r].emissions
           /\ pool'.reward_infos[r].growth_global = pool.reward_infos[r].growth_global
    BY <1>0, <2>2 DEF RewardInfos
  <2>4. UNCHANGED <<positions, ticks, now, emitted, paid>>
    BY <1>1 DEF InitializeReward
  <2> QED BY <2>2, <2>3, <2>4, BackedPoolKept
<1>2. ASSUME NEW r \in Reward, NEW amount, FundReward(r, amount) PROVE RewardsBacked'
  <2>1. UNCHANGED <<pool, positions, ticks, now, emitted, paid>>
    BY <1>2 DEF FundReward
  <2> QED BY <2>1, BackedPoolKept
<1>3. ASSUME NEW s \in Reward, NEW emissions, SetRewardEmissions(s, emissions)
      PROVE  RewardsBacked'
  <2> DEFINE infos == NewRewardInfos
  <2>1. pool' = [pool EXCEPT !.reward_infos = [infos EXCEPT ![s].emissions = emissions],
                             !.reward_last_updated_timestamp = now]
    BY <1>3 DEF SetRewardEmissions
  <2>2. UNCHANGED <<positions, ticks, now, emitted, paid>>
    BY <1>3 DEF SetRewardEmissions
  <2>3. infos \in RewardInfos
    BY RewardInfosType DEF TypeOK, NewRewardInfos
  <2>4. /\ pool'.reward_infos = [infos EXCEPT ![s].emissions = emissions]
        /\ pool'.tick_current_index = pool.tick_current_index
        /\ pool'.reward_last_updated_timestamp = now
    BY <1>0, <2>1 DEF PoolType
  <2>5. ASSUME NEW r \in Reward PROVE pool'.reward_infos[r].growth_global = infos[r].growth_global
    <3> HIDE DEF infos
    <3> QED BY <2>3, <2>4 DEF RewardInfos
  <2>6. ASSUME NEW r \in Reward, NEW p \in Position
        PROVE  AccruedRewards(r)'[p] <= AccruedToNow(r)[p]
    <3>1. AccruedRewards(r)'[p] = AccruedToNow(r)[p]
      BY <2>2, <2>4, <2>5 DEF AccruedRewards, AccruedToNow, PoolRewardInside
    <3>2. AccruedToNow(r)[p] \in Nat
      BY AccruedType
    <3> QED BY <3>1, <3>2
  <2> QED BY <2>2, <2>4, <2>6, BackedSettled
<1> QED BY <1>1, <1>2, <1>3 DEF RewardInstruction

\* A commit brings the rewards up to date; the swap has shown no position any other growth.
LEMMA CommitBacked ==
    ASSUME TypeOK, TypeOK', LedgerInv, InForceInv, ClockInv, UnusedSlots, TradedInv,
           RewardsBacked, SwapCommit
    PROVE  RewardsBacked'
<1>1. /\ pool'.tick_current_index = swap.curr_tick_index
      /\ pool'.reward_infos = NewRewardInfos
      /\ pool'.reward_last_updated_timestamp = now
      /\ ticks' = swap.ticks /\ positions' = positions
  BY CommitFields
<1>2. UNCHANGED <<now, emitted, paid>> /\ ~Idle
  BY DEF SwapCommit
<1>3. /\ positions \in [Position -> PositionType] /\ ticks \in [UsableTick -> TickType]
      /\ swap.ticks \in [UsableTick -> TickType]
  BY <1>2 DEF TypeOK, Idle, SwapType
<1>4. ASSUME NEW r \in Reward, NEW p \in Position
      PROVE  AccruedRewards(r)'[p] <= AccruedToNow(r)[p]
  <2> DEFINE x == PoolRewardInside(p, r)
             y == SwapRewardInside(p, r)
             pos == positions[p]
  <2>1. /\ AccruedToNow(r)[p] = OwedReward(pos, x, r)
        /\ AccruedRewards(r)'[p] = OwedReward(pos, y, r)
    BY <1>1 DEF AccruedRewards, AccruedToNow, SwapRewardInside
  <2>2. pos \in PositionType /\ NewRewardInfos[r].growth_global \in U128
    BY <1>3, NewRewardInfosType
  <2>3. x \in U128 /\ y \in U128
    BY <1>3, <2>2, InsideInUseType DEF PoolRewardInside, SwapRewardInside
  <2>4. pos.liquidity # 0 => x = y
    <3>1. ASSUME pos.liquidity # 0, NewRewardInfos[r].initialized PROVE x = y
      BY <1>2, <3>1 DEF TradedInv
    <3>2. ASSUME ~NewRewardInfos[r].initialized PROVE x = y
      <4>1. ~pool.reward_infos[r].initialized
        BY <3>2, NewRewardInfosFields
      <4>2. /\ NewRewardInfos[r].growth_global = 0
            /\ \A t \in UsableTick : /\ ticks[t].reward_growths_outside[r] = 0
                                     /\ swap.ticks[t].reward_growths_outside[r] = 0
        BY <1>2, <4>1, UnusedStays DEF UnusedSlots
      <4>3. pos.tick_lower_index \in UsableTick /\ pos.tick_upper_index \in UsableTick
        BY <2>2 DEF PositionType
      <4>4. x = 0 /\ y = 0
        BY <4>2, <4>3, NoGrowthInside DEF PoolRewardInside, SwapRewardInside
      <4> QED BY <4>4
    <3> QED BY <3>1, <3>2
  <2> HIDE DEF x, y, pos
  <2>5. OwedReward(pos, y, r) = OwedReward(pos, x, r)
    BY <2>2, <2>3, <2>4, OwedIdle
  <2>6. OwedReward(pos, x, r) \in Nat
    BY <2>2, <2>3, OwedRewardType
  <2> QED BY <2>1, <2>5, <2>6
<1> QED BY <1>1, <1>2, <1>4, BackedSettled

\* Time goes by: what is emitted is outstanding.
LEMMA TimeBacked ==
    ASSUME TypeOK, RewardsBacked, AdvanceTime
    PROVE  RewardsBacked'
<1>1. /\ UNCHANGED <<pool, ticks, positions, paid>> /\ now' = now + 1
      /\ emitted' = [r \in Reward |-> emitted[r] + pool.reward_infos[r].emissions]
  BY DEF AdvanceTime
<1> SUFFICES ASSUME NEW r \in Reward
             PROVE  Q64 * paid'[r] + SumOver(AccruedRewards(r)') + Outstanding(r)' <= emitted'[r]
  BY DEF RewardsBacked
<1>2. AccruedRewards(r)' = AccruedRewards(r) /\ paid'[r] = paid[r]
  BY <1>1 DEF AccruedRewards
<1> DEFINE e == pool.reward_infos[r].emissions
           n == now - pool.reward_last_updated_timestamp
<1>3. e \in Int /\ n \in Int /\ now \in Int /\ pool.reward_last_updated_timestamp \in Int
  BY RewardClockType
<1>4. Outstanding(r) = n * e /\ Outstanding(r)' = (n + 1) * e /\ emitted'[r] = emitted[r] + e
  <2>1. now' - pool'.reward_last_updated_timestamp = n + 1
    BY <1>1, <1>3
  <2> HIDE DEF n
  <2>2. Outstanding(r)' = (n + 1) * e
    BY <1>1, <2>1 DEF Outstanding
  <2> QED BY <1>1, <2>2 DEF Outstanding, n
<1>5. Q64 * paid[r] + SumOver(AccruedRewards(r)) + Outstanding(r) <= emitted[r]
  BY DEF RewardsBacked
<1>6. SumOver(AccruedRewards(r)) \in Int /\ Outstanding(r) \in Int
  BY AccruedType
<1>7. paid[r] \in Int /\ emitted[r] \in Int /\ Q64 \in Int
  BY Widths DEF TypeOK
<1> HIDE DEF n, e
<1>8. (n + 1) * e = n * e + e /\ n * e \in Int /\ Q64 * paid[r] \in Int
  BY <1>3, <1>7
<1> QED BY <1>2, <1>3, <1>4, <1>5, <1>6, <1>7, <1>8

\* Every step keeps it.
LEMMA NextBacked ==
    /\ IInv /\ IInv' /\ LedgerInv /\ LedgerInv' /\ InForceInv /\ ClockInv
    /\ UnusedSlots /\ UnusedSlots' /\ TradedInv /\ RewardsBacked /\ [Next]_vars
    => RewardsBacked'
<1> SUFFICES ASSUME IInv, IInv', LedgerInv, LedgerInv', InForceInv, ClockInv, UnusedSlots,
                    UnusedSlots', TradedInv, RewardsBacked, [Next]_vars
             PROVE  RewardsBacked'
  OBVIOUS
<1>0. TypeOK /\ TypeOK' /\ pool \in PoolType
  BY DEF IInv, TypeOK
<1>1. CASE UNCHANGED vars
  <2>1. UNCHANGED <<pool, positions, ticks, now, emitted, paid>>
    BY <1>1 DEF vars
  <2> QED BY <1>0, <2>1, BackedPoolKept
<1>2. ASSUME NEW p \in Position, PositionInstruction(p) PROVE RewardsBacked'
  BY <1>0, <1>2, PositionBacked
<1>3. CASE RewardInstruction
  BY <1>0, <1>3, RewardBacked
<1>4. CASE PoolInstruction
  <2>1. /\ pool'.reward_infos = pool.reward_infos
        /\ pool'.reward_last_updated_timestamp = pool.reward_last_updated_timestamp
        /\ pool'.tick_current_index = pool.tick_current_index
        /\ UNCHANGED <<positions, ticks, now, emitted, paid>>
    BY <1>0, <1>4 DEF PoolInstruction, InitializeTickArray, CollectProtocolFees, SetFeeRate,
                      SetProtocolFeeRate, PoolType
  <2> QED BY <1>0, <2>1, BackedPoolKept
<1>5. ASSUME NEW a \in SwapArgs, SwapBegin(a) PROVE RewardsBacked'
  <2>1. UNCHANGED <<pool, positions, ticks, now, emitted, paid>>
    BY <1>5 DEF SwapBegin
  <2> QED BY <1>0, <2>1, BackedPoolKept
<1>6. CASE SwapStep
  <2>1. UNCHANGED <<pool, positions, ticks, now, emitted, paid>>
    BY <1>6 DEF SwapStep
  <2> QED BY <1>0, <2>1, BackedPoolKept
<1>7. CASE SwapCommit
  BY <1>0, <1>7, CommitBacked
<1>8. CASE SwapRevert
  <2>1. UNCHANGED <<pool, positions, ticks, now, emitted, paid>>
    BY <1>8 DEF SwapRevert
  <2> QED BY <1>0, <2>1, BackedPoolKept
<1>9. CASE AdvanceTime
  BY <1>0, <1>9, TimeBacked
<1> QED BY <1>1, <1>2, <1>3, <1>4, <1>5, <1>6, <1>7, <1>8, <1>9 DEF Next, Swapping

\* At first nothing is owed and nothing was emitted.
LEMMA InitBacked == Init => RewardsBacked
<1> SUFFICES ASSUME Init, NEW r \in Reward
             PROVE  Q64 * paid[r] + SumOver(AccruedRewards(r)) + Outstanding(r) <= emitted[r]
  BY DEF RewardsBacked
<1>0. TypeOK
  BY InitInv DEF IInv
<1>1. PICK price \in InitialPrices : pool = InitialPool(price)
  BY DEF Init
<1>2. /\ positions = [p \in Position |-> ClosedPosition]
      /\ emitted[r] = 0 /\ paid[r] = 0
  BY DEF Init
<1>3. pool.reward_infos[r].emissions = 0
  BY <1>1 DEF InitialPool
<1>4. Outstanding(r) = 0
  <2> DEFINE n == now - pool.reward_last_updated_timestamp
  <2>1. n \in Int
    BY <1>0, RewardClockType
  <2> HIDE DEF n
  <2>2. n * 0 = 0
    BY <2>1
  <2> QED BY <1>3, <2>2 DEF Outstanding, n
<1>5. ASSUME NEW p \in Position PROVE AccruedRewards(r)[p] = 0
  <2> DEFINE g == pool.reward_infos[r].growth_global
             x == RewardInside(positions[p], ticks, pool.tick_current_index, g, r)
  <2>1. /\ positions[p] \in PositionType /\ positions[p].liquidity = 0
        /\ positions[p].reward_owed[r] = 0
    BY <1>0, <1>2 DEF TypeOK, ClosedPosition
  <2>2. ticks \in [UsableTick -> TickType] /\ g \in U128
    BY <1>0, RewardClockType DEF TypeOK
  <2>3. x \in U128
    BY <2>1, <2>2, InsideInUseType
  <2>4. AccruedRewards(r)[p] = OwedReward(positions[p], x, r)
    BY DEF AccruedRewards
  <2> HIDE DEF x
  <2>5. OwedReward(positions[p], x, r) = Q64 * 0
    BY <2>1, <2>3, OwedIdle
  <2> QED BY <2>4, <2>5, Widths
<1>6. SumOver(AccruedRewards(r)) = 0
  BY <1>0, <1>5, AccruedType, SumOfZeros
<1> QED BY <1>2, <1>4, <1>6, Widths

\* What the property adds up is what is owed up to now, rounded down at each position.
LEMMA BackedIsEnough ==
    IInv /\ LedgerInv /\ InForceInv /\ ClockInv /\ UnusedSlots /\ RewardsBacked
        => RewardsNotOverdistributed
<1> SUFFICES ASSUME IInv, LedgerInv, InForceInv, ClockInv, UnusedSlots, RewardsBacked,
                    NEW r \in Reward
             PROVE  Q64 * (paid[r] + SumOver([p \in Position |->
                        positions[p].reward_owed[r] + PendingReward(p, r)])) <= emitted[r]
  BY DEF RewardsNotOverdistributed
<1> DEFINE f == [p \in Position |-> positions[p].reward_owed[r] + PendingReward(p, r)]
           z == [p \in Position |-> 0]
<1>0. TypeOK
  BY DEF IInv
<1>1. ASSUME NEW p \in Position
      PROVE  f[p] \in Nat /\ Q64 * f[p] <= AccruedToNow(r)[p]
  <2> DEFINE pos == positions[p]
             x == PoolRewardInside(p, r)
             inside == RewardsInside(p)[r]
             cp == pos.reward_growth_checkpoint[r]
             pending == PendingReward(p, r)
  <2>1. pos \in PositionType /\ ticks \in [UsableTick -> TickType]
        /\ NewRewardInfos[r].growth_global \in U128
    BY <1>0, NewRewardInfosType DEF TypeOK
  <2>2. /\ x \in U128 /\ inside \in U128 /\ cp \in U128 /\ pos.liquidity \in U128
        /\ pos.reward_owed[r] \in Nat
    BY <1>0, <2>1, InsideInUseType, InsideTypes, WidthsAreNumbers
       DEF PoolRewardInside, PositionType
  <2>3. pending = Settled(0, pos.liquidity, inside, cp)
    BY DEF PendingReward
  <2>4. AccruedToNow(r)[p] = OwedReward(pos, x, r) /\ f[p] = pos.reward_owed[r] + pending
    BY DEF AccruedToNow
  <2>5. pos.liquidity # 0 => inside = x
    BY <1>0, InsideSettles
  <2> HIDE DEF pos, x, inside, cp, pending, f
  <2>6. OwedReward(pos, inside, r) = OwedReward(pos, x, r)
    BY <2>1, <2>2, <2>5, OwedIdle
  <2>7. 0 \in U64 /\ pending \in Nat
    BY <2>2, <2>3, Widths, SettledType, WidthsAreNumbers
  <2>8. Q64 * pending <= Q64 * 0 + pos.liquidity * WrappingSub(inside, cp)
    BY <2>2, <2>3, <2>7, SettledOwed
  <2> DEFINE w == pos.liquidity * WrappingSub(inside, cp)
             owed == pos.reward_owed[r]
  <2>9. w \in Int
    <3> DEFINE u == WrappingSub(inside, cp)
               L == pos.liquidity
    <3>1. u \in Int /\ L \in Int
      BY <2>2, WrapCases, WidthsAreNumbers
    <3> HIDE DEF u, L
    <3>2. L * u \in Int
      BY <3>1
    <3> QED BY <3>2 DEF u, L
  <2>10. OwedReward(pos, inside, r) = Q64 * owed + w
    BY DEF OwedReward, cp
  <2>11. owed \in Nat
    BY <2>2
  <2> HIDE DEF w, owed
  <2>12. Q64 * (owed + pending) = Q64 * owed + Q64 * pending
         /\ Q64 * owed \in Int /\ Q64 * pending \in Int /\ Q64 * 0 = 0
    BY <2>7, <2>11, Widths
  <2>13. Q64 * (owed + pending) <= AccruedToNow(r)[p]
    BY <2>4, <2>6, <2>8, <2>9, <2>10, <2>12 DEF w
  <2> QED BY <2>4, <2>7, <2>11, <2>13 DEF owed
<1>2. f \in [Position -> Nat] /\ f \in [Position -> Int]
  <2>1. f \in [Position -> Nat]
    BY <1>1
  <2> HIDE DEF f
  <2> QED BY <2>1
<1>3. SumOver(f) \in Nat
  BY <1>2, SumOfNats
<1>4. z \in [Position -> Int] /\ SumOver(z) = 0
  BY SumOfZeros
<1> HIDE DEF f, z
<1>5. Q64 * SumOver(f) <= SumOver(AccruedToNow(r))
  <2>0. Q64 \in Int /\ -Q64 \in Int
    BY Widths
  <2>1. ASSUME NEW p \in Position PROVE 0 <= AccruedToNow(r)[p] + (-Q64) * f[p]
    <3>1. AccruedToNow(r)[p] \in Int /\ f[p] \in Int
      BY <1>0, <1>2, AccruedType
    <3>2. (-Q64) * f[p] = -(Q64 * f[p]) /\ Q64 * f[p] \in Int
      BY <2>0, <3>1
    <3> QED BY <1>1, <3>1, <3>2
  <2>2. \A p \in Position : z[p] <= AccruedToNow(r)[p] + (-Q64) * f[p]
    BY <2>1 DEF z
  <2>3. AccruedToNow(r) \in [Position -> Int]
    BY <1>0, AccruedType
  <2>4. SumOver(z) <= SumOver(AccruedToNow(r)) + (-Q64) * SumOver(f)
    BY <1>2, <1>4, <2>0, <2>2, <2>3, SumBound
  <2>5. (-Q64) * SumOver(f) = -(Q64 * SumOver(f)) /\ Q64 * SumOver(f) \in Int
    BY <1>3, <2>0
  <2>6. SumOver(AccruedToNow(r)) \in Int
    BY <1>0, AccruedType
  <2> QED BY <1>4, <2>4, <2>5, <2>6
<1>6. SumOver(AccruedToNow(r)) <= SumOver(AccruedRewards(r)) + Outstanding(r)
  BY <1>0, UpdateShares
<1>7. Q64 * paid[r] + SumOver(AccruedRewards(r)) + Outstanding(r) <= emitted[r]
  BY DEF RewardsBacked
<1>8. /\ SumOver(AccruedToNow(r)) \in Int /\ SumOver(AccruedRewards(r)) \in Int
      /\ Outstanding(r) \in Int
  BY <1>0, AccruedType
<1>9. paid[r] \in Int /\ emitted[r] \in Int /\ Q64 \in Int
  BY <1>0, Widths DEF TypeOK
<1>10. /\ Q64 * (paid[r] + SumOver(f)) = Q64 * paid[r] + Q64 * SumOver(f)
       /\ Q64 * paid[r] \in Int /\ Q64 * SumOver(f) \in Int
  BY <1>3, <1>9
<1>11. Q64 * (paid[r] + SumOver(f)) <= emitted[r]
  BY <1>5, <1>6, <1>7, <1>8, <1>9, <1>10
<1> QED BY <1>11 DEF f

(***************************************************************************)
(* Positions never earn more of a reward than was emitted while they       *)
(* could: what a position collected, what it is owed and what it would be  *)
(* owed if it were settled now (next_pool_reward_infos,                    *)
(* next_reward_growths_inside, next_position_modify_liquidity_update) add  *)
(* up to no more than emissions times time.  It rests on the liquidity in  *)
(* force being that of the positions around the price, so on the nets of   *)
(* the ticks being negatable.                                              *)
(***************************************************************************)
THEOREM RewardsCorrect == Spec /\ []NetsNegatable => []RewardsNotOverdistributed
<1> DEFINE All == /\ IInv /\ LedgerInv /\ InForceInv /\ ArraysLoaded /\ TradedInv
                  /\ UnusedSlots /\ ClockInv /\ RewardsBacked
<1>1. Init => All
  <2>1. Init => TradedInv
    BY DEF Init, TradedInv, Idle
  <2> QED BY <2>1, InitInv, InitLedger, InitUnused, InitBacked
<1>2. All /\ NetsNegatable /\ [Next]_vars => All'
  BY NextInv, NextLedger, NextInForce, NextArraysLoaded, NextTraded, NextUnused, NextBacked
<1>3. All => RewardsNotOverdistributed
  BY BackedIsEnough
<1> HIDE DEF All
<1> QED BY <1>1, <1>2, <1>3, PTL DEF Spec

----------------------------------------------------------------------------
(* Arithmetic.                                                             *)

\* A positive factor can be cancelled.
LEMMA MulCancelLe ==
    ASSUME NEW a \in Int, NEW b \in Int, NEW c \in Nat \ {0}, c * a <= c * b
    PROVE  a <= b
<1> SUFFICES ASSUME b + 1 <= a PROVE FALSE
  OBVIOUS
<1>1. c * (b + 1) <= c * a
  BY MulMono
<1>2. c * (b + 1) = c * b + c /\ c * a \in Int /\ c * b \in Int
  OBVIOUS
<1> QED BY <1>1, <1>2

\* Equal multiples are of equals.
LEMMA MulCancelEq ==
    ASSUME NEW a \in Int, NEW b \in Int, NEW c \in Nat \ {0}, c * a = c * b
    PROVE  a = b
<1>1. c * a \in Int /\ c * b \in Int
  OBVIOUS
<1>2. a <= b /\ b <= a
  BY <1>1, MulCancelLe
<1> QED BY <1>2

\* What a quotient is worth, in units of which the divisor's share is w: rounded down it
\* is at most w, rounded up at least.
LEMMA QuotientWorth ==
    ASSUME NEW n \in Nat, NEW d \in Nat \ {0}, NEW unit \in Nat, NEW w \in Nat,
           d * w = unit * n
    PROVE  /\ unit * (n \div d) <= w
           /\ w <= unit * ((n + d - 1) \div d)
<1> DEFINE x == n \div d
           y == (n + d - 1) \div d
<1>1. x \in Nat /\ d * x <= n
  BY DivType
<1>2. y \in Nat /\ n <= d * y
  <2> DEFINE m == n + d - 1
  <2>1. m \in Nat
    OBVIOUS
  <2> HIDE DEF m
  <2>2. m \div d \in Nat /\ m < d * ((m \div d) + 1)
    BY <2>1, DivType
  <2> DEFINE z == m \div d
  <2>3. z \in Nat /\ m < d * (z + 1)
    BY <2>2
  <2> HIDE DEF z
  <2>4. d * (z + 1) = d * z + d /\ d * z \in Int
    BY <2>3
  <2>5. n <= d * z
    BY <2>1, <2>3, <2>4 DEF m
  <2> QED BY <2>3, <2>5 DEF z, m
<1> HIDE DEF x, y
<1>3. d * x \in Int /\ d * y \in Int
  BY <1>1, <1>2
<1>4. unit * (d * x) <= unit * n /\ unit * n <= unit * (d * y)
  BY <1>1, <1>2, <1>3, MulMono
<1>5. unit * (d * x) = d * (unit * x) /\ unit * (d * y) = d * (unit * y)
  BY <1>1, <1>2
<1>6. unit * x \in Int /\ unit * y \in Int
  BY <1>1, <1>2
<1>7. d * (unit * x) <= d * w /\ d * w <= d * (unit * y)
  BY <1>4, <1>5
<1>8. unit * x <= w /\ w <= unit * y
  BY <1>6, <1>7, MulCancelLe
<1> QED BY <1>8 DEF x, y

----------------------------------------------------------------------------
(* Heights.                                                                *)

\* A multiple of every price, and its share for each of them.
IsDen(D, n) == D \in Nat \ {0} /\ \A s \in 1 .. n : \E q \in Nat : D = s * q

Den == CHOOSE D : IsDen(D, MAX_SQRT_PRICE_X64)
Inv(s) == CHOOSE q \in Nat : Den = s * q

\* Some number is a multiple of all numbers up to any other.
LEMMA DenExists ==
    ASSUME NEW N \in Nat
    PROVE  \E D : IsDen(D, N)
<1> DEFINE S == {n \in 0 .. N : \E D : IsDen(D, n)}
<1>1. 0 \in S
  <2>1. IsDen(1, 0)
    BY DEF IsDen
  <2> QED BY <2>1
<1>2. ASSUME NEW n \in 1 .. N, n - 1 \in S PROVE n \in S
  <2>1. PICK D : IsDen(D, n - 1)
    BY <1>2
  <2>2. D \in Nat \ {0} /\ n \in Nat \ {0} /\ n \in 0 .. N
    BY <2>1 DEF IsDen
  <2>3. D * n \in Nat \ {0}
    BY <2>2, MulPos
  <2>4. ASSUME NEW s \in 1 .. n PROVE \E q \in Nat : D * n = s * q
    <3>1. CASE s = n
      BY <2>2, <3>1
    <3>2. CASE s # n
      <4>1. s \in 1 .. n - 1 /\ s \in Nat
        BY <2>2, <3>2
      <4>2. PICK q \in Nat : D = s * q
        BY <2>1, <4>1 DEF IsDen
      <4>3. q * n \in Nat
        BY <2>2, MulNat
      <4>4. (s * q) * n = s * (q * n)
        BY <2>2, <4>1
      <4> QED BY <4>2, <4>3, <4>4
    <3> QED BY <3>1, <3>2
  <2>5. IsDen(D * n, n)
    BY <2>3, <2>4 DEF IsDen
  <2> QED BY <2>2, <2>5
<1>3. S \in SUBSET (0 .. N)
  OBVIOUS
<1> HIDE DEF S
<1>4. S = 0 .. N
  BY <1>1, <1>2, <1>3, Reaches
<1>5. N \in S
  BY <1>4
<1> QED BY <1>5 DEF S

\* The shares of the prices; a higher price has a smaller one.
LEMMA InvIsShare ==
    /\ Den \in Nat \ {0}
    /\ \A s \in SqrtPriceRange : Inv(s) \in Nat /\ s * Inv(s) = Den
    /\ \A s, u \in SqrtPriceRange : s <= u => Inv(u) <= Inv(s)
<1>1. /\ MAX_SQRT_PRICE_X64 \in Nat /\ SqrtPriceRange \subseteq Nat \ {0}
      /\ \A s \in SqrtPriceRange : s \in 1 .. MAX_SQRT_PRICE_X64
  <2>1. MIN_SQRT_PRICE_X64 \in Nat \ {0} /\ MAX_SQRT_PRICE_X64 \in Nat
    <3>1. MIN_TICK_INDEX \in TickIndex /\ MAX_TICK_INDEX \in TickIndex
      BY MathAssumption DEF TickIndex
    <3>2. \A t \in TickIndex : SqrtPrice[t] \in U128 \ {0}
      BY MathAssumption
    <3> QED BY <3>1, <3>2, WidthsAreNumbers DEF MIN_SQRT_PRICE_X64, MAX_SQRT_PRICE_X64
  <2> QED BY <2>1 DEF SqrtPriceRange
<1>2. IsDen(Den, MAX_SQRT_PRICE_X64)
  BY <1>1, DenExists DEF Den
<1>3. Den \in Nat \ {0}
  BY <1>2 DEF IsDen
<1>4. ASSUME NEW s \in SqrtPriceRange PROVE Inv(s) \in Nat /\ s * Inv(s) = Den
  <2>1. \E q \in Nat : Den = s * q
    BY <1>1, <1>2 DEF IsDen
  <2> QED BY <2>1 DEF Inv
<1>5. ASSUME NEW s \in SqrtPriceRange, NEW u \in SqrtPriceRange, s <= u
      PROVE  Inv(u) <= Inv(s)
  <2> DEFINE x == Inv(s)
             y == Inv(u)
  <2>1. x \in Nat /\ y \in Nat /\ s * x = Den /\ u * y = Den
    BY <1>4
  <2>2. s \in Nat \ {0} /\ u \in Nat \ {0}
    BY <1>1
  <2> HIDE DEF x, y
  <2>3. x * s <= x * u
    BY <1>5, <2>1, <2>2, MulMono
  <2>4. x * s = s * x /\ x * u = u * x
    BY <2>1, <2>2
  <2>5. u * y <= u * x
    BY <2>1, <2>3, <2>4
  <2>6. y <= x
    BY <2>1, <2>2, <2>5, MulCancelLe
  <2> QED BY <2>6 DEF x, y
<1> QED BY <1>3, <1>4, <1>5

\* The unit of the account, in a token, and the height of a price: between two prices a
\* unit of liquidity is worth the difference of their heights.
Unit == Den * Q64
Height(k, s) == IF k = "a" THEN -(TwoTo128 * Inv(s)) ELSE Den * s

\* Heights grow with the price.
LEMMA HeightType ==
    ASSUME NEW k \in Token
    PROVE  /\ Unit \in Nat \ {0}
           /\ \A s \in SqrtPriceRange : Height(k, s) \in Int
           /\ \A s, u \in SqrtPriceRange : s <= u => Height(k, s) <= Height(k, u)
<1>1. Unit \in Nat \ {0}
  BY InvIsShare, Widths, MulPos DEF Unit
<1>2. ASSUME NEW s \in SqrtPriceRange
      PROVE  /\ TwoTo128 * Inv(s) \in Nat /\ Den * s \in Nat /\ Height(k, s) \in Int
  <2>1. TwoTo128 \in Nat /\ Inv(s) \in Nat /\ Den \in Nat /\ s \in Nat
    BY InvIsShare, U128Below, SqrtPriceRangeType
  <2>2. TwoTo128 * Inv(s) \in Nat /\ Den * s \in Nat
    BY <2>1, MulNat
  <2> QED BY <2>2 DEF Height
<1>3. ASSUME NEW s \in SqrtPriceRange, NEW u \in SqrtPriceRange, s <= u
      PROVE  Height(k, s) <= Height(k, u)
  <2>1. /\ TwoTo128 \in Nat /\ Inv(s) \in Int /\ Inv(u) \in Int /\ Den \in Nat
        /\ s \in Int /\ u \in Int /\ Inv(u) <= Inv(s)
    BY <1>3, InvIsShare, U128Below, SqrtPriceRangeType
  <2>2. TwoTo128 * Inv(u) <= TwoTo128 * Inv(s) /\ Den * s <= Den * u
    BY <1>3, <2>1, MulMono
  <2> DEFINE x == TwoTo128 * Inv(u)
             y == TwoTo128 * Inv(s)
  <2>3. x \in Int /\ y \in Int /\ x <= y
    BY <1>2, <2>2
  <2> HIDE DEF x, y
  <2>4. -y <= -x
    BY <2>3
  <2> QED BY <2>2, <2>4 DEF Height, x, y
<1> QED BY <1>1, <1>2, <1>3

(***************************************************************************)
(* get_amount_delta_a and get_amount_delta_b: an amount for a liquidity    *)
(* between two prices is worth the difference of their heights, rounded.   *)
(***************************************************************************)
LEMMA AmountWorth ==
    ASSUME NEW k \in Token, NEW l \in SqrtPriceRange, NEW u \in SqrtPriceRange, l <= u,
           NEW L \in Nat,
           NEW n, n = IF k = "a" THEN L * (u - l) * Q64 ELSE L * (u - l),
           NEW d, d = IF k = "a" THEN u * l ELSE Q64
    PROVE  LET w == L * (Height(k, u) - Height(k, l))
           IN  /\ n \in Nat /\ d \in Nat \ {0} /\ w \in Nat
               /\ Unit * (n \div d) <= w
               /\ w <= Unit * ((n + d - 1) \div d)
<1> DEFINE w == L * (Height(k, u) - Height(k, l))
           x == Inv(l)
           y == Inv(u)
           N == Q64
           D == Den
<1>1. /\ x \in Nat /\ y \in Nat /\ l * x = D /\ u * y = D /\ y <= x
      /\ D \in Nat \ {0} /\ N \in Nat \ {0} /\ l \in Nat \ {0} /\ u \in Nat \ {0}
  BY InvIsShare, Widths, SqrtPriceRangeType
<1>2. u - l \in Nat
  BY <1>1
<1>3. w \in Nat
  <2> DEFINE h == Height(k, u) - Height(k, l)
  <2>1. h \in Nat
    BY HeightType
  <2> HIDE DEF h
  <2> QED BY <2>1, MulNat DEF h
<1>4. CASE k = "a"
  <2> DEFINE m == L * (u - l)
  <2>1. m \in Nat
    BY <1>2, MulNat
  <2>2. n = m * N /\ d = u * l
    BY <1>4
  <2>3. n \in Nat /\ d \in Nat \ {0}
    <3>1. m * N \in Nat
      BY <1>1, <2>1, MulNat
    <3> QED BY <1>1, <2>2, <3>1, MulPos
  <2>4. w = L * ((N * N) * x - (N * N) * y)
    <3> DEFINE p == TwoTo128 * x
               q == TwoTo128 * y
    <3>1. w = L * (-q - (-p))
      BY <1>4 DEF Height
    <3>2. p \in Nat /\ q \in Nat
      BY <1>1, U128Below, MulNat
    <3>3. p = (N * N) * x /\ q = (N * N) * y
      BY DEF TwoTo128
    <3> HIDE DEF p, q
    <3>4. -q - (-p) = p - q
      BY <3>2
    <3> QED BY <3>1, <3>3, <3>4
  <2> HIDE DEF x, y, D, N, w, m
  <2>5. (u * l) * (x - y) = D * (u - l)
    <3>1. (u * l) * (x - y) = u * (l * x) - l * (u * y)
      BY <1>1
    <3>2. u * D - l * D = D * (u - l)
      BY <1>1
    <3> QED BY <1>1, <3>1, <3>2
  <2>6. w = (L * (N * N)) * (x - y)
    BY <1>1, <2>4
  <2> DEFINE c == L * (N * N)
             e == x - y
             f == u * l
  <2>7. c \in Nat /\ e \in Nat /\ f \in Nat
    BY <1>1, MulNat
  <2>8. f * (c * e) = c * (f * e)
    <3> HIDE DEF c, e, f
    <3> QED BY <2>7
  <2>9. c * (D * (u - l)) = (D * N) * (m * N)
    <3> DEFINE b == u - l
    <3>1. b \in Nat /\ m = L * b
      BY <1>2 DEF m
    <3> HIDE DEF b
    <3>2. (L * (N * N)) * (D * b) = (D * N) * ((L * b) * N)
      BY <1>1, <3>1
    <3> QED BY <3>1, <3>2 DEF b
  <2>10. d * w = (D * N) * n
    BY <2>2, <2>5, <2>6, <2>8, <2>9
  <2>11. Unit = D * N /\ Unit \in Nat
    BY HeightType DEF Unit, D, N
  <2>12. d * w = Unit * n
    BY <2>10, <2>11
  <2>13. /\ Unit * (n \div d) <= w
         /\ w <= Unit * ((n + d - 1) \div d)
    BY <1>3, <2>3, <2>11, <2>12, QuotientWorth
  <2> QED BY <1>3, <2>3, <2>13 DEF w
<1>5. CASE k # "a"
  <2>1. n = L * (u - l) /\ d = N
    BY <1>5
  <2>2. n \in Nat /\ d \in Nat \ {0}
    BY <1>1, <1>2, <2>1, MulNat
  <2>3. w = L * (D * u - D * l)
    BY <1>5 DEF Height
  <2> HIDE DEF x, y, D, N, w
  <2>4. N * (L * (D * u - D * l)) = (D * N) * (L * (u - l))
    <3>1. D * u - D * l = D * (u - l)
      BY <1>1
    <3> DEFINE b == u - l
    <3>2. b \in Nat
      BY <1>2
    <3> HIDE DEF b
    <3>3. N * (L * (D * b)) = (D * N) * (L * b)
      BY <1>1, <3>2
    <3> QED BY <3>1, <3>3 DEF b
  <2>5. Unit = D * N /\ Unit \in Nat
    BY HeightType DEF Unit, D, N
  <2>6. d * w = Unit * n
    BY <2>1, <2>3, <2>4, <2>5
  <2>7. /\ Unit * (n \div d) <= w
        /\ w <= Unit * ((n + d - 1) \div d)
    BY <1>3, <2>2, <2>5, <2>6, QuotientWorth
  <2> QED BY <1>3, <2>2, <2>7 DEF w
<1> QED BY <1>4, <1>5

\* How far apart two prices are, for a token.
Rise(k, p0, p1) == Height(k, Greater(p0, p1)) - Height(k, Lesser(p0, p1))

\* What is paid out is worth at most the liquidity between the prices.
LEMMA PaidOutWorth ==
    ASSUME NEW k \in Token, NEW p0 \in SqrtPriceRange, NEW p1 \in SqrtPriceRange, NEW L \in Nat
    PROVE  /\ L * Rise(k, p0, p1) \in Nat
           /\ Unit * GetAmountDelta(k, p0, p1, L, FALSE) <= L * Rise(k, p0, p1)
<1> DEFINE l == Lesser(p0, p1)
           u == Greater(p0, p1)
           n == IF k = "a" THEN L * (u - l) * Q64 ELSE L * (u - l)
           d == IF k = "a" THEN u * l ELSE Q64
           w == L * (Height(k, u) - Height(k, l))
           A == GetAmountDelta(k, p0, p1, L, FALSE)
<1>1. l \in SqrtPriceRange /\ u \in SqrtPriceRange /\ l <= u
  BY SqrtPriceRangeType DEF Lesser, Greater
<1>2. A = Checked(U64, DivRoundUpIf(n, d, FALSE))
  BY DEF GetAmountDelta, GetAmountDeltaA, GetAmountDeltaB
<1> HIDE DEF l, u, A
<1>3. n \in Nat /\ d \in Nat \ {0} /\ w \in Nat /\ Unit * (n \div d) <= w
  BY <1>1, AmountWorth
<1> HIDE DEF n, d, w
<1>4. A = n \div d \/ A = -1
  BY <1>2, <1>3 DEF DivRoundUpIf, Checked, Err
<1>5. Unit * (-1) = -Unit /\ Unit \in Nat
  BY HeightType
<1>6. Unit * A <= w
  BY <1>3, <1>4, <1>5
<1> QED BY <1>3, <1>6 DEF w, Rise, l, u, A

\* What is paid in is worth at least that.
LEMMA PaidInWorth ==
    ASSUME NEW k \in Token, NEW p0 \in SqrtPriceRange, NEW p1 \in SqrtPriceRange, NEW L \in Nat,
           GetAmountDelta(k, p0, p1, L, TRUE) # Err
    PROVE  L * Rise(k, p0, p1) <= Unit * GetAmountDelta(k, p0, p1, L, TRUE)
<1> DEFINE l == Lesser(p0, p1)
           u == Greater(p0, p1)
           n == IF k = "a" THEN L * (u - l) * Q64 ELSE L * (u - l)
           d == IF k = "a" THEN u * l ELSE Q64
           w == L * (Height(k, u) - Height(k, l))
           A == GetAmountDelta(k, p0, p1, L, TRUE)
<1>1. l \in SqrtPriceRange /\ u \in SqrtPriceRange /\ l <= u
  BY SqrtPriceRangeType DEF Lesser, Greater
<1>2. A = Checked(U64, DivRoundUpIf(n, d, TRUE)) /\ A # Err
  BY DEF GetAmountDelta, GetAmountDeltaA, GetAmountDeltaB
<1> HIDE DEF l, u, A
<1>3. n \in Nat /\ d \in Nat \ {0} /\ w \in Nat /\ w <= Unit * ((n + d - 1) \div d)
  BY <1>1, AmountWorth
<1> HIDE DEF n, d, w
<1>4. A = (n + d - 1) \div d
  BY <1>2, <1>3 DEF DivRoundUpIf, Checked
<1> QED BY <1>3, <1>4 DEF w, Rise, l, u, A

----------------------------------------------------------------------------
(* Where the liquidity of a position is.                                   *)

\* Prices and ticks are numbers, and prices grow with the ticks.
LEMMA PricesAreNumbers ==
    /\ \A s \in SqrtPriceRange : s \in Nat \ {0} /\ s \in Nat /\ s \in Int
    /\ \A t \in TickIndex : t \in Int /\ t \in CurrentTick /\ SqrtPrice[t] \in SqrtPriceRange
    /\ \A t \in CurrentTick : t \in Int
    /\ \A t \in UsableTick : t \in TickIndex
    /\ \A t, u \in TickIndex : t < u => SqrtPrice[t] < SqrtPrice[u]
<1>1. \A t, u \in TickIndex : t < u => SqrtPrice[t] < SqrtPrice[u]
  BY MathAssumption
<1> QED BY <1>1, SqrtPriceRangeType

\* The price, or the nearer end of the range when it is outside.
Clamp(s, lo, up) == IF s <= lo THEN lo ELSE IF up <= s THEN up ELSE s

\* What a unit of liquidity of a position is worth of a token: token a waits above the
\* price, token b below it.
Span(k, pos, s) ==
    LET lo == SqrtPrice[pos.tick_lower_index]
        up == SqrtPrice[pos.tick_upper_index]
        c == Clamp(s, lo, up)
    IN  IF k = "a" THEN Height(k, up) - Height(k, c) ELSE Height(k, c) - Height(k, lo)

\* It is a number, for a range in order at least zero.
LEMMA SpanType ==
    ASSUME NEW k \in Token, NEW pos \in PositionType, NEW s \in SqrtPriceRange
    PROVE  /\ Span(k, pos, s) \in Int
           /\ pos.tick_lower_index < pos.tick_upper_index => Span(k, pos, s) \in Nat
<1> DEFINE lo == SqrtPrice[pos.tick_lower_index]
           up == SqrtPrice[pos.tick_upper_index]
           c == Clamp(s, lo, up)
<1>1. /\ pos.tick_lower_index \in TickIndex /\ pos.tick_upper_index \in TickIndex
      /\ lo \in SqrtPriceRange /\ up \in SqrtPriceRange
  BY PricesAreNumbers DEF PositionType
<1>2. c \in SqrtPriceRange
  BY <1>1 DEF Clamp
<1>3. Span(k, pos, s) = IF k = "a" THEN Height(k, up) - Height(k, c)
                        ELSE Height(k, c) - Height(k, lo)
  BY DEF Span
<1>4. pos.tick_lower_index < pos.tick_upper_index => lo <= up
  <2>1. ASSUME pos.tick_lower_index < pos.tick_upper_index PROVE lo < up
    BY <1>1, <2>1, PricesAreNumbers
  <2>2. lo \in Int /\ up \in Int
    BY <1>1, PricesAreNumbers
  <2> HIDE DEF lo, up
  <2> QED BY <2>1, <2>2
<1>5. lo \in Int /\ up \in Int /\ s \in Int
  BY <1>1, PricesAreNumbers
<1> HIDE DEF lo, up
<1>6. lo <= up => lo <= c /\ c <= up
  BY <1>5 DEF Clamp
<1> HIDE DEF c
<1>7. /\ Height(k, lo) \in Int /\ Height(k, c) \in Int /\ Height(k, up) \in Int
      /\ lo <= up => Height(k, lo) <= Height(k, c) /\ Height(k, c) <= Height(k, up)
  BY <1>1, <1>2, <1>6, HeightType
<1> QED BY <1>3, <1>4, <1>7

\* How a move of the price from s to s2 changes what a unit around it is worth.
Shift(k, s, s2) ==
    IF k = "a" THEN Height(k, s) - Height(k, s2) ELSE Height(k, s2) - Height(k, s)

\* A tick is right of the current one only if its price is not below, and left only if it
\* is not above.
IsSide(tick, s, t) ==
    /\ tick < t => s <= SqrtPrice[t]
    /\ ~(tick < t) => SqrtPrice[t] <= s

\* The clamped price, by the place of the tick.
LEMMA ClampBySide ==
    ASSUME NEW pos \in PositionType, pos.tick_lower_index < pos.tick_upper_index,
           NEW s \in SqrtPriceRange, NEW tick \in Int,
           IsSide(tick, s, pos.tick_lower_index), IsSide(tick, s, pos.tick_upper_index)
    PROVE  Clamp(s, SqrtPrice[pos.tick_lower_index], SqrtPrice[pos.tick_upper_index]) =
             IF tick < pos.tick_lower_index THEN SqrtPrice[pos.tick_lower_index]
             ELSE IF tick < pos.tick_upper_index THEN s
             ELSE SqrtPrice[pos.tick_upper_index]
<1> DEFINE lo == pos.tick_lower_index
           up == pos.tick_upper_index
           a == SqrtPrice[lo]
           b == SqrtPrice[up]
<1>1. lo \in TickIndex /\ up \in TickIndex /\ lo \in Int /\ up \in Int
  BY PricesAreNumbers DEF PositionType
<1>2. a < b /\ a \in Int /\ b \in Int /\ s \in Int
  BY <1>1, PricesAreNumbers
<1>3. /\ tick < lo => s <= a
      /\ ~(tick < lo) => a <= s
      /\ tick < up => s <= b
      /\ ~(tick < up) => b <= s
  BY DEF IsSide
<1> HIDE DEF a, b, lo, up
<1>4. Clamp(s, a, b) = IF tick < lo THEN a ELSE IF tick < up THEN s ELSE b
  BY <1>1, <1>2, <1>3 DEF Clamp
<1> QED BY <1>4 DEF a, b, lo, up

\* What calculate_liquidity_token_deltas charges or pays for an amount of liquidity is
\* worth what it adds or takes, rounded to the pool's side.
LEMMA TokenDeltaWorth ==
    ASSUME TypeOK, PriceIsAt(pool.sqrt_price, pool.tick_current_index),
           NEW k \in Token, NEW pos \in PositionType, pos.tick_lower_index < pos.tick_upper_index,
           NEW amount \in Nat
    PROVE  /\ Unit * LiquidityTokenDelta(k, pos, amount, FALSE)
                <= amount * Span(k, pos, pool.sqrt_price)
           /\ LiquidityTokenDelta(k, pos, amount, TRUE) # Err =>
                amount * Span(k, pos, pool.sqrt_price)
                  <= Unit * LiquidityTokenDelta(k, pos, amount, TRUE)
<1> DEFINE lo == pos.tick_lower_index
           up == pos.tick_upper_index
           a == SqrtPrice[lo]
           b == SqrtPrice[up]
           s == pool.sqrt_price
           tick == pool.tick_current_index
           down == LiquidityTokenDelta(k, pos, amount, FALSE)
           upwards == LiquidityTokenDelta(k, pos, amount, TRUE)
           worth == Span(k, pos, s)
<1>1. /\ lo \in TickIndex /\ up \in TickIndex /\ a \in SqrtPriceRange /\ b \in SqrtPriceRange
      /\ s \in SqrtPriceRange /\ tick \in CurrentTick /\ tick \in Int
      /\ lo \in Int /\ up \in Int /\ a \in Int /\ b \in Int /\ s \in Int
  BY PricesAreNumbers DEF TypeOK, PoolType, PositionType
<1>2. IsSide(tick, s, lo) /\ IsSide(tick, s, up)
  <2>1. \A t \in {lo, up} : (t <= tick => SqrtPrice[t] <= s) /\ (tick < t => s <= SqrtPrice[t])
    BY <1>1, TicksAround
  <2> QED BY <1>1, <2>1 DEF IsSide
<1>3. Clamp(s, a, b) = IF tick < lo THEN a ELSE IF tick < up THEN s ELSE b
  BY <1>1, <1>2, ClampBySide
<1>4. a < b /\ a <= b
  <2>1. a < b
    BY <1>1, PricesAreNumbers
  <2> HIDE DEF a, b
  <2> QED BY <1>1, <2>1
<1>5. worth = IF k = "a" THEN Height(k, b) - Height(k, Clamp(s, a, b))
              ELSE Height(k, Clamp(s, a, b)) - Height(k, a)
  BY DEF Span
<1>6. Unit \in Nat /\ Unit * 0 = 0 /\ amount * 0 = 0
  BY HeightType
<1>7. Height(k, a) \in Int /\ Height(k, b) \in Int /\ Height(k, s) \in Int
  BY <1>1, HeightType
<1> DEFINE Goal == /\ Unit * down <= amount * worth
                   /\ upwards # Err => amount * worth <= Unit * upwards
<1>8. ASSUME NEW x \in SqrtPriceRange, NEW y \in SqrtPriceRange, x <= y,
             worth = Height(k, y) - Height(k, x),
             down = GetAmountDelta(k, x, y, amount, FALSE),
             upwards = GetAmountDelta(k, x, y, amount, TRUE)
      PROVE  Goal
  <2>1. worth = Rise(k, x, y)
    <3> HIDE DEF worth
    <3>1. x \in Int /\ y \in Int
      BY PricesAreNumbers
    <3> QED BY <1>8, <3>1 DEF Rise, Lesser, Greater
  <2> HIDE DEF worth, down, upwards
  <2> QED BY <1>8, <2>1, PaidOutWorth, PaidInWorth
<1>9. ASSUME worth = 0, down = 0, upwards = 0
      PROVE  Goal
  <2> HIDE DEF worth, down, upwards
  <2> QED BY <1>6, <1>9
<1> SUFFICES Goal
  OBVIOUS
<1> HIDE DEF Goal
<1>10. CASE tick < lo
  <2>1. CASE k = "a"
    <3>1. /\ down = GetAmountDelta(k, a, b, amount, FALSE)
          /\ upwards = GetAmountDelta(k, a, b, amount, TRUE)
      BY <1>10, <2>1 DEF LiquidityTokenDelta
    <3>2. worth = Height(k, b) - Height(k, a)
      BY <1>3, <1>5, <1>10, <2>1
    <3> QED BY <1>1, <1>4, <1>8, <3>1, <3>2
  <2>2. CASE k # "a"
    <3>1. down = 0 /\ upwards = 0
      BY <1>10, <2>2 DEF LiquidityTokenDelta
    <3>2. worth = 0
      BY <1>3, <1>5, <1>7, <1>10, <2>2
    <3> QED BY <1>9, <3>1, <3>2
  <2> QED BY <2>1, <2>2
<1>11. CASE ~(tick < lo) /\ tick < up
  <2>1. a <= s /\ s <= b
    BY <1>2, <1>11 DEF IsSide
  <2>2. CASE k = "a"
    <3>1. /\ down = GetAmountDelta(k, s, b, amount, FALSE)
          /\ upwards = GetAmountDelta(k, s, b, amount, TRUE)
      BY <1>11, <2>2 DEF LiquidityTokenDelta
    <3>2. worth = Height(k, b) - Height(k, s)
      BY <1>3, <1>5, <1>11, <2>2
    <3> QED BY <1>1, <1>8, <2>1, <3>1, <3>2
  <2>3. CASE k # "a"
    <3>1. /\ down = GetAmountDelta(k, a, s, amount, FALSE)
          /\ upwards = GetAmountDelta(k, a, s, amount, TRUE)
      BY <1>11, <2>3 DEF LiquidityTokenDelta
    <3>2. worth = Height(k, s) - Height(k, a)
      BY <1>3, <1>5, <1>11, <2>3
    <3> QED BY <1>1, <1>8, <2>1, <3>1, <3>2
  <2> QED BY <2>2, <2>3
<1>12. CASE ~(tick < lo) /\ ~(tick < up)
  <2>1. CASE k = "a"
    <3>1. down = 0 /\ upwards = 0
      BY <1>12, <2>1 DEF LiquidityTokenDelta, Token
    <3>2. worth = 0
      BY <1>3, <1>5, <1>7, <1>12, <2>1
    <3> QED BY <1>9, <3>1, <3>2
  <2>2. CASE k # "a"
    <3>1. k = "b"
      BY <2>2 DEF Token
    <3>2. /\ down = GetAmountDelta(k, a, b, amount, FALSE)
          /\ upwards = GetAmountDelta(k, a, b, amount, TRUE)
      BY <1>12, <3>1 DEF LiquidityTokenDelta
    <3>3. worth = Height(k, b) - Height(k, a)
      BY <1>3, <1>5, <1>12, <2>2
    <3> QED BY <1>1, <1>4, <1>8, <3>2, <3>3
  <2> QED BY <2>1, <2>2
<1> QED BY <1>10, <1>11, <1>12

\* After an iteration the swap has its types, and its price is at its tick.
LEMMA IterationIsSwap ==
    ASSUME IInv, NEW j, NEW t, NEW c, Iteration(j, t, c)
    PROVE  swap' \in SwapType /\ PriceIsAt(swap'.curr_sqrt_price, swap'.curr_tick_index)
<1> DEFINE next == StepSwap(pool, swap, j, t, c, NewRewardInfos)
<1>1. /\ ~Idle /\ SwapRunning(swap) /\ CanSearch(swap)
      /\ j = NextArrayIndex(swap) /\ t = NextTick(swap, j)
      /\ c = SwapComputation(pool, swap, t) /\ StepOk(pool, swap, j, t, c)
      /\ swap' = next
  BY DEF Iteration
<1>2. next \in SwapType /\ PriceIsAt(next.curr_sqrt_price, next.curr_tick_index)
  BY <1>1, StepSwapInv
<1> HIDE DEF next
<1> QED BY <1>1, <1>2

(***************************************************************************)
(* An iteration of a swap moves the price through the ranges that hold the *)
(* tick and through no others: crossing a tick, the price is on the end of *)
(* the ranges it leaves or enters.                                         *)
(***************************************************************************)
LEMMA SpanMoves ==
    ASSUME IInv, LedgerInv, ArraysLoaded, NEW j, NEW t, NEW c, Iteration(j, t, c),
           NEW p \in Position, positions[p].liquidity # 0, NEW k \in Token
    PROVE  LET s == swap.curr_sqrt_price
               s2 == swap'.curr_sqrt_price
           IN  Span(k, positions[p], s2) = Span(k, positions[p], s) +
                 (IF InRange(positions[p], swap.curr_tick_index) THEN Shift(k, s, s2) ELSE 0)
<1> DEFINE pos == positions[p]
           lo == pos.tick_lower_index
           up == pos.tick_upper_index
           a == SqrtPrice[lo]
           b == SqrtPrice[up]
           s == swap.curr_sqrt_price
           s2 == swap'.curr_sqrt_price
           tick == swap.curr_tick_index
           new == swap'.curr_tick_index
<1>0. TypeOK /\ ~Idle /\ swap \in SwapType
  BY DEF IInv, TypeOK, Iteration, Idle
<1>1. /\ lo \in UsableTick /\ up \in UsableTick /\ lo \in TickIndex /\ up \in TickIndex
      /\ lo \in Int /\ up \in Int /\ lo < up
      /\ swap.ticks[lo].initialized /\ swap.ticks[up].initialized
  <2>1. /\ positions \in PositionsType /\ swap.ticks \in [UsableTick -> TickType]
        /\ TicksAgree(swap.ticks, positions) /\ \A x \in Position : IsOrdered(positions[x])
    BY <1>0 DEF TypeOK, PositionsType, LedgerInv, SwapType
  <2> QED BY <2>1, LiveEnds
<1>2. pos \in PositionType /\ pos.tick_lower_index < pos.tick_upper_index
  BY <1>0, <1>1 DEF TypeOK
<1>3. /\ swap' \in SwapType /\ s \in SqrtPriceRange /\ s2 \in SqrtPriceRange
      /\ tick \in CurrentTick /\ new \in CurrentTick /\ tick \in Int /\ new \in Int
      /\ PriceIsAt(s, tick) /\ PriceIsAt(s2, new)
  <2>1. swap' \in SwapType /\ PriceIsAt(s2, new)
    BY IterationIsSwap
  <2>2. PriceIsAt(s, tick)
    BY <1>0 DEF IInv, PriceMatchesTick
  <2> QED BY <1>0, <2>1, <2>2, PricesAreNumbers DEF SwapType
<1>4. s2 = c.next_price
  BY <1>0, IterationFields
<1>5. ASSUME NEW e \in {lo, up} PROVE IsSide(tick, s, e) /\ IsSide(tick, s2, e)
  <2>1. /\ e \in UsableTick /\ e \in TickIndex /\ e \in Int /\ swap.ticks[e].initialized
    BY <1>1
  <2>2. IsSide(tick, s, e) /\ IsSide(new, s2, e)
    BY <1>3, <2>1, TicksAround DEF IsSide
  <2>3. CASE e = t /\ Crossed(j, t, c)
    <3>1. s2 = SqrtPrice[e]
      BY <1>4, <2>3 DEF Crossed
    <3>2. s2 \in Int
      BY <1>3, PricesAreNumbers
    <3> QED BY <2>2, <3>1, <3>2 DEF IsSide
  <2>4. CASE ~(e = t /\ Crossed(j, t, c))
    <3>1. tick < e <=> new < e
      BY <2>1, <2>4, IterationSides
    <3> QED BY <2>2, <3>1 DEF IsSide
  <2> QED BY <2>3, <2>4
<1>6. /\ Clamp(s, a, b) = IF tick < lo THEN a ELSE IF tick < up THEN s ELSE b
      /\ Clamp(s2, a, b) = IF tick < lo THEN a ELSE IF tick < up THEN s2 ELSE b
  BY <1>2, <1>3, <1>5, ClampBySide
<1>7. /\ Span(k, pos, s) = IF k = "a" THEN Height(k, b) - Height(k, Clamp(s, a, b))
                           ELSE Height(k, Clamp(s, a, b)) - Height(k, a)
      /\ Span(k, pos, s2) = IF k = "a" THEN Height(k, b) - Height(k, Clamp(s2, a, b))
                            ELSE Height(k, Clamp(s2, a, b)) - Height(k, a)
  BY DEF Span
<1>8. /\ Height(k, a) \in Int /\ Height(k, b) \in Int
      /\ Height(k, s) \in Int /\ Height(k, s2) \in Int
  BY <1>1, <1>3, HeightType, PricesAreNumbers
<1>9. InRange(pos, tick) <=> ~(tick < lo) /\ tick < up
  BY <1>1, <1>3 DEF InRange
<1> HIDE DEF pos, lo, up, a, b, s, s2, tick, new
<1>10. CASE InRange(pos, tick)
  <2>1. Clamp(s, a, b) = s /\ Clamp(s2, a, b) = s2
    BY <1>6, <1>9, <1>10
  <2>2. Span(k, pos, s2) = Span(k, pos, s) + Shift(k, s, s2)
    BY <1>7, <1>8, <2>1 DEF Shift
  <2> QED BY <1>10, <2>2 DEF pos, s, s2, tick
<1>11. CASE ~InRange(pos, tick)
  <2>1. Clamp(s, a, b) = Clamp(s2, a, b) /\ Clamp(s, a, b) \in {a, b}
    BY <1>6, <1>9, <1>11
  <2>2. Span(k, pos, s2) = Span(k, pos, s) + 0
    BY <1>7, <1>8, <2>1
  <2> QED BY <1>11, <2>2 DEF pos, s, s2, tick
<1> QED BY <1>10, <1>11

----------------------------------------------------------------------------
(* What the positions are due.                                             *)

\* Integers are closed under multiplication.
LEMMA MulInt ==
    ASSUME NEW a \in Int, NEW b \in Int
    PROVE  a * b \in Int
OBVIOUS

\* What a position is owed of the fees in a token, where x has grown inside its range:
\* what was settled, and what has grown since.
OwedFee(pos, x, k) ==
    Unit * pos.fee_owed[k]
        + Den * (pos.liquidity * WrappingSub(x, pos.fee_growth_checkpoint[k]))

\* What it is due in all at the price s: its fees and its liquidity.
Due(k, pos, x, s) == OwedFee(pos, x, k) + pos.liquidity * Span(k, pos, s)

\* These are numbers.
LEMMA DueType ==
    ASSUME NEW k \in Token, NEW pos \in PositionType, NEW x \in U128, NEW s \in SqrtPriceRange
    PROVE  /\ OwedFee(pos, x, k) \in Nat /\ OwedFee(pos, x, k) \in Int
           /\ pos.liquidity \in Nat /\ pos.liquidity \in Int
           /\ pos.liquidity * Span(k, pos, s) \in Int
           /\ Due(k, pos, x, s) \in Int
<1> DEFINE L == pos.liquidity
           d == WrappingSub(x, pos.fee_growth_checkpoint[k])
           owed == pos.fee_owed[k]
           w == Span(k, pos, s)
<1>1. L \in Nat /\ L \in Int /\ d \in Nat /\ owed \in Nat /\ w \in Int
  <2>1. L \in U128 /\ owed \in U64 /\ pos.fee_growth_checkpoint[k] \in U128
    BY DEF PositionType
  <2>2. d \in U128
    BY <2>1, WrapCases
  <2> HIDE DEF L, d, owed, w
  <2>3. w \in Int
    BY SpanType DEF w
  <2> QED BY <2>1, <2>2, <2>3, WidthsAreNumbers
<1>2. OwedFee(pos, x, k) = Unit * owed + Den * (L * d)
  BY DEF OwedFee
<1>3. Due(k, pos, x, s) = OwedFee(pos, x, k) + L * w
  BY DEF Due
<1> HIDE DEF L, d, owed, w
<1>4. Unit \in Nat /\ Den \in Nat
  BY HeightType, InvIsShare
<1>5. L * d \in Nat
  BY <1>1, MulNat
<1>6. Unit * owed \in Nat /\ Den * (L * d) \in Nat /\ L * w \in Int
  BY <1>1, <1>4, <1>5, MulNat, MulInt
<1>7. OwedFee(pos, x, k) \in Nat
  BY <1>2, <1>6
<1> QED BY <1>1, <1>3, <1>6, <1>7 DEF L, w

\* Without liquidity it is due what was settled, whatever grew and wherever the price is.
LEMMA DueIdle ==
    ASSUME NEW k \in Token, NEW pos \in PositionType, pos.liquidity = 0, NEW x \in U128,
           NEW s \in SqrtPriceRange
    PROVE  Due(k, pos, x, s) = Unit * pos.fee_owed[k]
<1> DEFINE d == WrappingSub(x, pos.fee_growth_checkpoint[k])
           w == Span(k, pos, s)
           v == Unit * pos.fee_owed[k]
<1>1. d \in Int /\ w \in Int /\ v \in Int
  <2>1. pos.fee_growth_checkpoint[k] \in U128 /\ pos.fee_owed[k] \in U64
    BY DEF PositionType
  <2>2. d \in U128
    BY <2>1, WrapCases
  <2>3. pos.fee_owed[k] \in Nat /\ Unit \in Nat
    BY <2>1, WidthsAreNumbers, HeightType
  <2>4. v \in Nat
    BY <2>3, MulNat
  <2> HIDE DEF d, v, w
  <2>5. w \in Int
    BY SpanType DEF w
  <2> QED BY <2>2, <2>4, <2>5, WidthsAreNumbers
<1>2. Due(k, pos, x, s) = v + Den * (0 * d) + 0 * w
  BY DEF Due, OwedFee
<1> HIDE DEF d, w, v
<1>3. 0 * d = 0 /\ 0 * w = 0 /\ Den * 0 = 0
  BY <1>1, InvIsShare
<1>4. Due(k, pos, x, s) = v
  BY <1>1, <1>2, <1>3
<1> QED BY <1>4 DEF v

\* Growth by d adds at most d for each unit of liquidity.
LEMMA OwedFeeGrows ==
    ASSUME NEW k \in Token, NEW pos \in PositionType, NEW x \in U128, NEW d \in U128
    PROVE  OwedFee(pos, WrappingAdd(x, d), k) <= OwedFee(pos, x, k) + (Den * d) * pos.liquidity
<1> DEFINE cp == pos.fee_growth_checkpoint[k]
           y == WrappingSub(x, cp)
           z == WrappingSub(WrappingAdd(x, d), cp)
           L == pos.liquidity
           w == Unit * pos.fee_owed[k]
           D == Den
<1>1. cp \in U128 /\ L \in Nat /\ w \in Nat /\ D \in Nat
  <2>1. pos.fee_owed[k] \in Nat /\ Unit \in Nat /\ cp \in U128 /\ L \in Nat
    BY Widths, HeightType DEF PositionType
  <2> QED BY <2>1, MulNat, InvIsShare
<1>2. y \in U128 /\ z = WrappingAdd(y, d)
  BY <1>1, WrapCases, AddSubCommute
<1> HIDE DEF cp, y, z, L, w, D
<1>3. z <= y + d /\ z \in Int /\ y \in Int /\ d \in Int
  <2>1. WrappingAdd(y, d) <= y + d /\ WrappingAdd(y, d) \in U128
    BY <1>2, WrapZero, WrapCases
  <2> QED BY <1>2, <2>1, WidthsAreNumbers
<1>4. L * z <= L * (y + d)
  BY <1>1, <1>3, MulMono
<1>5. L * (y + d) = L * y + L * d /\ L * z \in Int /\ L * y \in Int /\ L * d \in Int
  BY <1>1, <1>3
<1>6. D * (L * z) <= D * (L * y + L * d)
  BY <1>1, <1>4, <1>5, MulMono
<1>7. /\ D * (L * y + L * d) = D * (L * y) + D * (L * d)
      /\ D * (L * z) \in Int /\ D * (L * y) \in Int /\ D * (L * d) \in Int
  <2> DEFINE p == L * y
             q == L * d
             r == L * z
  <2>1. p \in Int /\ q \in Int /\ r \in Int
    BY <1>5
  <2> HIDE DEF p, q, r
  <2>2. D * (p + q) = D * p + D * q /\ D * p \in Int /\ D * q \in Int /\ D * r \in Int
    BY <1>1, <2>1
  <2> QED BY <2>2 DEF p, q, r
<1>8. D * (L * d) = (D * d) * L
  BY <1>1, <1>3
<1>9. w + D * (L * z) <= w + D * (L * y) + (D * d) * L
  BY <1>1, <1>6, <1>7, <1>8
<1> QED BY <1>9 DEF OwedFee, cp, y, z, L, w, D

\* What is settled is worth no more than what was owed and has grown since.
LEMMA SettledWorth ==
    ASSUME NEW owed \in U64, NEW L \in U128, NEW x \in U128, NEW cp \in U128
    PROVE  /\ Settled(owed, L, x, cp) \in Nat
           /\ Unit * Settled(owed, L, x, cp) <= Unit * owed + Den * (L * WrappingSub(x, cp))
<1> DEFINE z == Settled(owed, L, x, cp)
           d == WrappingSub(x, cp)
           N == Q64
           D == Den
<1>1. z \in Nat /\ owed \in Nat /\ L \in Nat /\ d \in Nat /\ N \in Nat /\ D \in Nat
  <2>1. z \in U64 /\ d \in U128
    BY SettledType, WrapCases
  <2> HIDE DEF z, d
  <2> QED BY <2>1, WidthsAreNumbers, Widths, InvIsShare
<1>2. N * z <= N * owed + L * d
  BY SettledOwed
<1>3. Unit = D * N
  BY DEF Unit
<1> HIDE DEF z, d, N, D
<1> DEFINE p == N * z
           q == N * owed
           r == L * d
<1>4. p \in Int /\ q \in Int /\ r \in Int
  BY <1>1
<1>5. D * p <= D * (q + r)
  <2> HIDE DEF p, q, r
  <2>1. p <= q + r /\ q + r \in Int
    BY <1>2, <1>4 DEF p, q, r
  <2> QED BY <1>1, <1>4, <2>1, MulMono
<1>6. D * (q + r) = D * q + D * r
  <2> HIDE DEF p, q, r
  <2> QED BY <1>1, <1>4
<1>7. D * p = (D * N) * z /\ D * q = (D * N) * owed
  BY <1>1
<1>8. Unit * z <= Unit * owed + D * r
  BY <1>3, <1>5, <1>6, <1>7
<1> QED BY <1>1, <1>8 DEF z, d, D, r

\* What all are due, as the accounts have it and as a swap in progress has it.
PoolDue(k) ==
    [p \in Position |-> Due(k, positions[p], PoolFeeInside(p, k), pool.sqrt_price)]
SwapDue(k) ==
    [p \in Position |-> Due(k, positions[p], SwapFeeInside(p, k), swap.curr_sqrt_price)]

\* What a vault holds and what the protocol is owed once the swap has paid.
SwapVault(k) ==
    IF k = InputToken(swap.args) THEN vault[k] + AmountIn(swap) ELSE vault[k] - AmountOut(swap)
SwapProtocol(k) ==
    IF k = InputToken(swap.args)
    THEN pool.protocol_fee_owed[k] + swap.curr_protocol_fee
    ELSE pool.protocol_fee_owed[k]

(***************************************************************************)
(* The inductive invariant: in full precision the vaults hold what the     *)
(* protocol is owed and all positions are due, and they would if the swap  *)
(* in progress paid now.                                                   *)
(***************************************************************************)
TokensBacked ==
    \A k \in Token :
        /\ Unit * pool.protocol_fee_owed[k] + SumOver(PoolDue(k)) <= Unit * vault[k]
        /\ ~Idle => Unit * SwapProtocol(k) + SumOver(SwapDue(k)) <= Unit * SwapVault(k)

\* The terms of the account are numbers.
LEMMA AccountType ==
    ASSUME TypeOK, NEW k \in Token
    PROVE  /\ pool.protocol_fee_owed[k] \in Nat /\ pool.protocol_fee_owed[k] \in Int
           /\ vault[k] \in Nat /\ vault[k] \in Int
           /\ pool.sqrt_price \in SqrtPriceRange
           /\ \A p \in Position : PoolFeeInside(p, k) \in U128 /\ PoolDue(k)[p] \in Int
           /\ PoolDue(k) \in [Position -> Int]
           /\ SumOver(PoolDue(k)) \in Int
<1>1. /\ pool.protocol_fee_owed[k] \in U64 /\ pool.sqrt_price \in SqrtPriceRange
      /\ pool.fee_growth_global[k] \in U128
      /\ vault[k] \in 0 .. Supply /\ Supply \in U64
      /\ ticks \in [UsableTick -> TickType]
      /\ \A p \in Position : positions[p] \in PositionType
  BY PoolAssumption DEF TypeOK, PoolType
<1>2. vault[k] \in Nat /\ vault[k] \in Int
  BY <1>1, WidthsAreNumbers
<1>3. ASSUME NEW p \in Position PROVE PoolFeeInside(p, k) \in U128 /\ PoolDue(k)[p] \in Int
  <2>1. PoolFeeInside(p, k) \in U128
    BY <1>1, InsideInUseType DEF PoolFeeInside
  <2> QED BY <1>1, <2>1, DueType DEF PoolDue
<1>4. PoolDue(k) \in [Position -> Int]
  BY <1>3 DEF PoolDue
<1> QED BY <1>1, <1>2, <1>3, <1>4, SumType, WidthsAreNumbers

----------------------------------------------------------------------------
(* Instructions on a position.                                             *)

\* The types after a step.
LEMMA AccountAfter ==
    ASSUME TypeOK', NEW k \in Token
    PROVE  /\ pool'.protocol_fee_owed[k] \in Nat /\ pool'.protocol_fee_owed[k] \in Int
           /\ vault'[k] \in Nat /\ vault'[k] \in Int
           /\ pool'.sqrt_price \in SqrtPriceRange
           /\ \A p \in Position : PoolFeeInside(p, k)' \in U128 /\ PoolDue(k)'[p] \in Int
           /\ PoolDue(k)' \in [Position -> Int]
           /\ SumOver(PoolDue(k)') \in Int
<1>1. /\ pool'.protocol_fee_owed[k] \in U64 /\ pool'.sqrt_price \in SqrtPriceRange
      /\ pool'.fee_growth_global[k] \in U128
      /\ vault'[k] \in 0 .. Supply /\ Supply \in U64
      /\ ticks' \in [UsableTick -> TickType]
      /\ \A p \in Position : positions'[p] \in PositionType
  BY PoolAssumption DEF TypeOK, PoolType
<1>2. vault'[k] \in Nat /\ vault'[k] \in Int
  BY <1>1, WidthsAreNumbers
<1>3. ASSUME NEW p \in Position
      PROVE  /\ PoolFeeInside(p, k)' \in U128
             /\ Due(k, positions'[p], PoolFeeInside(p, k)', pool'.sqrt_price) \in Int
  <2>1. PoolFeeInside(p, k)' \in U128
    BY <1>1, InsideInUseType DEF PoolFeeInside
  <2> QED BY <1>1, <2>1, DueType
<1>4. PoolDue(k)' =
        [p \in Position |-> Due(k, positions'[p], PoolFeeInside(p, k)', pool'.sqrt_price)]
  BY DEF PoolDue
<1>5. PoolDue(k)' \in [Position -> Int]
  BY <1>3, <1>4
<1> QED BY <1>1, <1>2, <1>3, <1>5, SumType, WidthsAreNumbers

\* Backed stays what adds no more to the dues of one position than to the vaults.
LEMMA BackedAtOne ==
    ASSUME TypeOK, TypeOK', TokensBacked, Idle', NEW p \in Position,
           pool'.protocol_fee_owed = pool.protocol_fee_owed,
           \A k \in Token :
              /\ \A q \in Position \ {p} : PoolDue(k)'[q] = PoolDue(k)[q]
              /\ PoolDue(k)'[p] + Unit * vault[k] <= PoolDue(k)[p] + Unit * vault'[k]
    PROVE  TokensBacked'
<1> SUFFICES ASSUME NEW k \in Token
             PROVE  Unit * pool'.protocol_fee_owed[k] + SumOver(PoolDue(k)') <= Unit * vault'[k]
  BY DEF TokensBacked
<1>1. SumOver(PoolDue(k)') = SumOver(PoolDue(k)) + PoolDue(k)'[p] - PoolDue(k)[p]
  BY AccountType, AccountAfter, SumChange
<1>2. Unit * pool.protocol_fee_owed[k] + SumOver(PoolDue(k)) <= Unit * vault[k]
  BY DEF TokensBacked
<1>3. /\ SumOver(PoolDue(k)) \in Int /\ PoolDue(k)[p] \in Int /\ PoolDue(k)'[p] \in Int
      /\ pool.protocol_fee_owed[k] \in Int /\ vault[k] \in Int /\ vault'[k] \in Int
      /\ Unit \in Int
  BY AccountType, AccountAfter, HeightType
<1> DEFINE a == Unit * pool.protocol_fee_owed[k]
           b == Unit * vault[k]
           c == Unit * vault'[k]
<1>4. a \in Int /\ b \in Int /\ c \in Int
  BY <1>3, MulInt
<1>5. PoolDue(k)'[p] + b <= PoolDue(k)[p] + c
  OBVIOUS
<1> HIDE DEF a, b, c
<1>6. a + SumOver(PoolDue(k)') <= c
  BY <1>1, <1>2, <1>3, <1>4, <1>5 DEF a, b
<1> QED BY <1>6 DEF a, c

\* Without liquidity, or where nothing has grown since, what is owed was settled.
LEMMA OwedFeeIdle ==
    ASSUME NEW k \in Token, NEW pos \in PositionType, NEW x \in U128,
           pos.liquidity = 0 \/ x = pos.fee_growth_checkpoint[k]
    PROVE  OwedFee(pos, x, k) = Unit * pos.fee_owed[k]
<1> DEFINE d == WrappingSub(x, pos.fee_growth_checkpoint[k])
           L == pos.liquidity
           v == Unit * pos.fee_owed[k]
<1>1. d \in Int /\ L \in Int /\ v \in Int /\ (L = 0 \/ d = 0)
  <2>1. pos.fee_growth_checkpoint[k] \in U128 /\ pos.fee_owed[k] \in U64 /\ L \in U128
    BY DEF PositionType
  <2>2. d \in U128 /\ (x = pos.fee_growth_checkpoint[k] => d = 0)
    BY <2>1, WrapCases, WrapZero
  <2>3. pos.fee_owed[k] \in Nat /\ Unit \in Nat
    BY <2>1, WidthsAreNumbers, HeightType
  <2>4. v \in Nat
    BY <2>3, MulNat
  <2> HIDE DEF d, v
  <2> QED BY <2>1, <2>2, <2>4, WidthsAreNumbers
<1>2. OwedFee(pos, x, k) = v + Den * (L * d)
  BY DEF OwedFee
<1> HIDE DEF d, L, v
<1>3. L * d = 0
  BY <1>1
<1>4. Den * 0 = 0
  BY InvIsShare
<1> QED BY <1>1, <1>2, <1>3, <1>4 DEF v

(***************************************************************************)
(* A change of liquidity settles the fees of the position and adds what    *)
(* the liquidity is worth to what it is due; the others are due what they  *)
(* were.                                                                   *)
(***************************************************************************)
LEMMA SyncDue ==
    ASSUME TypeOK, TypeOK', LedgerInv, LedgerInv', NEW p \in Position, NEW delta \in Int,
           CanModifyLiquidity(p, delta), SyncModifyLiquidity(p, delta), NEW k \in Token
    PROVE  /\ \A q \in Position \ {p} : PoolDue(k)'[q] = PoolDue(k)[q]
           /\ PoolDue(k)'[p]
                <= PoolDue(k)[p] + delta * Span(k, positions[p], pool.sqrt_price)
<1>0. /\ pool \in PoolType /\ positions \in [Position -> PositionType]
      /\ positions' \in [Position -> PositionType] /\ pool.sqrt_price \in SqrtPriceRange
  BY DEF TypeOK, PoolType
<1>1. /\ pool'.tick_current_index = pool.tick_current_index
      /\ pool'.sqrt_price = pool.sqrt_price
      /\ pool'.fee_growth_global = pool.fee_growth_global
      /\ positions' = [positions EXCEPT ![p] = UpdatedPosition(p, delta)]
  BY <1>0 DEF SyncModifyLiquidity, PoolType
<1> DEFINE g == pool.fee_growth_global[k]
           tick == pool.tick_current_index
           s == pool.sqrt_price
<1>2. ASSUME NEW q \in Position
      PROVE  /\ PoolDue(k)[q] = Due(k, positions[q], PoolFeeInside(q, k), s)
             /\ PoolDue(k)'[q] = Due(k, positions'[q], PoolFeeInside(q, k)', s)
             /\ PoolFeeInside(q, k) = FeeInside(positions[q], ticks, tick, g, k)
             /\ PoolFeeInside(q, k)' = FeeInside(positions'[q], ticks', tick, g, k)
             /\ PoolFeeInside(q, k) \in U128 /\ PoolFeeInside(q, k)' \in U128
  BY <1>1, AccountType, AccountAfter DEF PoolDue, PoolFeeInside
<1>3. ASSUME NEW q \in Position \ {p} PROVE PoolDue(k)'[q] = PoolDue(k)[q]
  <2>1. positions'[q] = positions[q]
    BY <1>0, <1>1
  <2>2. CASE positions[q].liquidity = 0
    BY <1>0, <1>2, <2>1, <2>2, DueIdle
  <2>3. CASE positions[q].liquidity # 0
    <3>1. PoolFeeInside(q, k)' = PoolFeeInside(q, k)
      BY <1>2, <2>3, SyncInside
    <3> QED BY <1>2, <2>1, <3>1
  <2> QED BY <2>2, <2>3
<1>4. PoolDue(k)'[p] <= PoolDue(k)[p] + delta * Span(k, positions[p], s)
  <2> DEFINE pos == positions[p]
             new == positions'[p]
             inside == FeesInside(p)[k]
             x == PoolFeeInside(p, k)
             y == PoolFeeInside(p, k)'
             w == Span(k, pos, s)
             L == pos.liquidity
             settled == Settled(pos.fee_owed[k], L, inside, pos.fee_growth_checkpoint[k])
  <2>1. /\ new = UpdatedPosition(p, delta) /\ pos \in PositionType /\ new \in PositionType
        /\ new.liquidity = L + delta
        /\ new.tick_lower_index = pos.tick_lower_index
        /\ new.tick_upper_index = pos.tick_upper_index
    BY <1>0, <1>1, UpdatedPositionPlace
  <2>2. /\ new.fee_owed[k] = settled
        /\ new.fee_growth_checkpoint[k] = inside
    <3>1. new = UpdatedPosition(p, delta) /\ pos \in PositionType
      BY <2>1
    <3> HIDE DEF new, inside
    <3>2. new.fee_owed[k] = settled /\ new.fee_growth_checkpoint = FeesInside(p)
      BY <3>1 DEF UpdatedPosition, NextPositionModifyLiquidityUpdate, PositionType, inside
    <3> QED BY <3>2 DEF inside
  <2>3. /\ inside \in U128 /\ pos.fee_growth_checkpoint[k] \in U128 /\ L \in U128
        /\ pos.fee_owed[k] \in U64 /\ x \in U128 /\ y \in U128
    BY <1>2, <2>1, InsideTypes DEF PositionType
  <2>4. new.liquidity = 0 \/ y = new.fee_growth_checkpoint[k]
    BY <1>2, <2>2, SyncInside
  <2>5. L = 0 \/ x = inside
    BY <1>2, InsidesComputed
  <2>6. Span(k, new, s) = w
    BY <2>1 DEF Span
  <2>7. w \in Int /\ L \in Int
    BY <1>0, <2>1, <2>3, SpanType, WidthsAreNumbers
  <2>8. PoolDue(k)[p] = Due(k, pos, x, s) /\ PoolDue(k)'[p] = Due(k, new, y, s)
    BY <1>2
  <2> HIDE DEF pos, new, inside, x, y, w, L, s
  <2>9. OwedFee(new, y, k) = Unit * settled
    BY <2>1, <2>2, <2>3, <2>4, OwedFeeIdle
  <2>10. Unit * settled <= OwedFee(pos, inside, k)
    BY <2>3, SettledWorth DEF OwedFee, L
  <2>11. OwedFee(pos, inside, k) = OwedFee(pos, x, k)
    BY <2>1, <2>3, <2>5, OwedFeeIdle DEF L
  <2>12. OwedFee(new, y, k) <= OwedFee(pos, x, k)
    BY <2>9, <2>10, <2>11
  <2>13. /\ OwedFee(new, y, k) \in Int /\ OwedFee(pos, x, k) \in Int
    BY <1>0, <2>1, <2>3, DueType DEF s
  <2>14. Due(k, new, y, s) = OwedFee(new, y, k) + (L + delta) * w
    BY <2>1, <2>6 DEF Due
  <2>15. Due(k, pos, x, s) = OwedFee(pos, x, k) + L * w
    BY DEF Due, w, L
  <2>16. (L + delta) * w = L * w + delta * w /\ L * w \in Int /\ delta * w \in Int
    BY <2>7
  <2>17. PoolDue(k)'[p] <= PoolDue(k)[p] + delta * w
    BY <2>8, <2>12, <2>13, <2>14, <2>15, <2>16
  <2> QED BY <2>17 DEF w, pos, s
<1> QED BY <1>3, <1>4

\* The dues of a position stay while the pool, the ticks and what counts of it stay.
LEMMA DueKept ==
    ASSUME UNCHANGED ticks, pool'.tick_current_index = pool.tick_current_index,
           pool'.sqrt_price = pool.sqrt_price,
           pool'.fee_growth_global = pool.fee_growth_global,
           NEW p \in Position,
           positions'[p].tick_lower_index = positions[p].tick_lower_index,
           positions'[p].tick_upper_index = positions[p].tick_upper_index,
           positions'[p].liquidity = positions[p].liquidity,
           positions'[p].fee_growth_checkpoint = positions[p].fee_growth_checkpoint,
           positions'[p].fee_owed = positions[p].fee_owed,
           NEW k \in Token
    PROVE  PoolDue(k)'[p] = PoolDue(k)[p]
<1> DEFINE x == PoolFeeInside(p, k)
           s == pool.sqrt_price
<1>1. PoolFeeInside(p, k)' = x
  BY DEF PoolFeeInside, FeeInside
<1>2. PoolDue(k)'[p] = Due(k, positions'[p], x, s) /\ PoolDue(k)[p] = Due(k, positions[p], x, s)
  BY <1>1 DEF PoolDue
<1> HIDE DEF x, s
<1>3. Span(k, positions'[p], s) = Span(k, positions[p], s)
  BY DEF Span
<1>4. OwedFee(positions'[p], x, k) = OwedFee(positions[p], x, k)
  BY DEF OwedFee
<1> QED BY <1>2, <1>3, <1>4 DEF Due

\* A transfer of both tokens, and one of a reward.
LEMMA VaultMoves ==
    ASSUME NEW v \in VaultType, NEW x, NEW y, NEW k \in Token
    PROVE  /\ Deposit(Deposit(v, "a", x), "b", y)[k] = v[k] + (IF k = "a" THEN x ELSE y)
           /\ Withdraw(Withdraw(v, "a", x), "b", y)[k] = v[k] - (IF k = "a" THEN x ELSE y)
           /\ \A r \in Reward : Deposit(v, r, x)[k] = v[k] /\ Withdraw(v, r, x)[k] = v[k]
<1>1. k = "a" \/ k = "b"
  BY DEF Token
<1>2. "a" \in Token \cup Reward /\ "b" \in Token \cup Reward /\ k \in Token \cup Reward
  BY DEF Token
<1>3. DOMAIN v = Token \cup Reward
  BY DEF VaultType
<1>4. \A r \in Reward : r # k /\ r \in Token \cup Reward
  BY PoolAssumption
<1> QED BY <1>1, <1>2, <1>3, <1>4 DEF Deposit, Withdraw

\* A deposit pays for the liquidity it buys, and a withdrawal takes no more than it is worth.
LEMMA LiquidityPaid ==
    ASSUME IInv, IInv', LedgerInv, LedgerInv', TokensBacked, NEW p \in Position,
           NEW amount \in LiquidityAmounts,
           IncreaseLiquidity(p, amount) \/ DecreaseLiquidity(p, amount)
    PROVE  TokensBacked'
<1>0. /\ TypeOK /\ TypeOK' /\ Idle /\ Idle' /\ amount \in Nat
      /\ PriceIsAt(pool.sqrt_price, pool.tick_current_index)
      /\ positions[p] \in PositionType /\ vault \in VaultType
      /\ pool.sqrt_price \in SqrtPriceRange /\ pool \in PoolType
      /\ LiquidityAmounts \subseteq U128
  BY PoolAssumption, WidthsAreNumbers
     DEF IInv, PriceMatchesTick, TypeOK, PoolType, VaultType, IncreaseLiquidity,
         DecreaseLiquidity, Idle
<1> DEFINE delta == IF IncreaseLiquidity(p, amount) THEN amount ELSE -amount
           up(k) == LiquidityTokenDelta(k, positions[p], amount, TRUE)
           down(k) == LiquidityTokenDelta(k, positions[p], amount, FALSE)
           worth(k) == amount * Span(k, positions[p], pool.sqrt_price)
<1>1. /\ delta \in Int /\ CanModifyLiquidity(p, delta) /\ SyncModifyLiquidity(p, delta)
  <2>1. amount \in Int /\ -amount \in Int
    BY <1>0
  <2>2. CASE IncreaseLiquidity(p, amount)
    <3>1. delta = amount
      BY <2>2
    <3>2. CanModifyLiquidity(p, amount) /\ SyncModifyLiquidity(p, amount)
      BY <2>2 DEF IncreaseLiquidity
    <3> HIDE DEF delta
    <3> QED BY <2>1, <3>1, <3>2
  <2>3. CASE ~IncreaseLiquidity(p, amount)
    <3>1. delta = -amount
      BY <2>3
    <3>2. CanModifyLiquidity(p, -amount) /\ SyncModifyLiquidity(p, -amount)
      BY <2>3 DEF DecreaseLiquidity
    <3> HIDE DEF delta
    <3> QED BY <2>1, <3>1, <3>2
  <2> QED BY <2>2, <2>3
<1>2. positions[p].tick_lower_index < positions[p].tick_upper_index
  BY <1>1 DEF CanModifyLiquidity, LedgerInv, IsOrdered
<1>3. ASSUME NEW k \in Token
      PROVE  worth(k) \in Int /\ Unit * down(k) <= worth(k)
             /\ (up(k) # Err => worth(k) <= Unit * up(k))
  <2>1. Span(k, positions[p], pool.sqrt_price) \in Int
    BY <1>0, SpanType
  <2>2. worth(k) \in Int
    BY <1>0, <2>1, MulInt
  <2>3. /\ Unit * down(k) <= worth(k)
        /\ up(k) # Err => worth(k) <= Unit * up(k)
    BY <1>0, <1>2, TokenDeltaWorth
  <2> QED BY <2>2, <2>3
<1>4. ASSUME NEW k \in Token
      PROVE  delta * Span(k, positions[p], pool.sqrt_price) + Unit * vault[k] <= Unit * vault'[k]
  <2> DEFINE s == Span(k, positions[p], pool.sqrt_price)
  <2>1. s \in Int /\ vault[k] \in Int /\ Unit \in Int
    BY <1>0, SpanType, AccountType, HeightType
  <2>2. CASE IncreaseLiquidity(p, amount)
    <3>1. vault' = Deposit(Deposit(vault, "a", up("a")), "b", up("b")) /\ up(k) # Err
      BY <2>2 DEF IncreaseLiquidity
    <3>2. k = "a" \/ k = "b"
      BY DEF Token
    <3>3. vault'[k] = vault[k] + up(k)
      <4> DEFINE x == up("a")
                 y == up("b")
      <4>1. vault' = Deposit(Deposit(vault, "a", x), "b", y)
        BY <3>1
      <4> HIDE DEF x, y
      <4>2. vault'[k] = vault[k] + (IF k = "a" THEN x ELSE y)
        BY <1>0, <4>1, VaultMoves
      <4>3. (IF k = "a" THEN x ELSE y) = up(k)
        BY <3>2 DEF x, y
      <4> QED BY <4>2, <4>3
    <3>4. worth(k) <= Unit * up(k) /\ up(k) \in Int
      <4>1. up(k) \in Nat
        BY <3>1, LiquidityTokenDeltaType
      <4>2. worth(k) <= Unit * up(k)
        BY <1>3, <3>1
      <4> HIDE DEF up, down, worth
      <4> QED BY <4>1, <4>2
    <3>5. delta = amount
      BY <2>2
    <3> DEFINE u == up(k)
    <3> HIDE DEF s, u, delta
    <3>6. u \in Int /\ amount * s <= Unit * u /\ vault'[k] = vault[k] + u
      BY <3>3, <3>4 DEF s, u
    <3>7. /\ Unit * (vault[k] + u) = Unit * vault[k] + Unit * u
          /\ Unit * vault[k] \in Int /\ Unit * u \in Int /\ amount * s \in Int
      BY <1>0, <2>1, <3>6
    <3> QED BY <3>5, <3>6, <3>7 DEF s
  <2>3. CASE ~IncreaseLiquidity(p, amount)
    <3>0. DecreaseLiquidity(p, amount)
      BY <2>3
    <3>1. vault' = Withdraw(Withdraw(vault, "a", down("a")), "b", down("b")) /\ down(k) # Err
      BY <3>0 DEF DecreaseLiquidity
    <3>2. k = "a" \/ k = "b"
      BY DEF Token
    <3>3. vault'[k] = vault[k] - down(k)
      <4> DEFINE x == down("a")
                 y == down("b")
      <4>1. vault' = Withdraw(Withdraw(vault, "a", x), "b", y)
        BY <3>1
      <4> HIDE DEF x, y
      <4>2. vault'[k] = vault[k] - (IF k = "a" THEN x ELSE y)
        BY <1>0, <4>1, VaultMoves
      <4>3. (IF k = "a" THEN x ELSE y) = down(k)
        BY <3>2 DEF x, y
      <4> QED BY <4>2, <4>3
    <3>4. Unit * down(k) <= worth(k) /\ down(k) \in Int
      <4>1. down(k) \in Nat
        BY <3>1, LiquidityTokenDeltaType
      <4>2. Unit * down(k) <= worth(k)
        BY <1>3
      <4> HIDE DEF up, down, worth
      <4> QED BY <4>1, <4>2
    <3>5. delta = -amount
      BY <2>3
    <3> DEFINE u == down(k)
    <3> HIDE DEF s, u, delta
    <3>6. u \in Int /\ Unit * u <= amount * s /\ vault'[k] = vault[k] - u
      BY <3>3, <3>4 DEF s, u
    <3>7. /\ Unit * (vault[k] - u) = Unit * vault[k] - Unit * u
          /\ Unit * vault[k] \in Int /\ Unit * u \in Int /\ amount * s \in Int
          /\ (-amount) * s = -(amount * s)
      BY <1>0, <2>1, <3>6
    <3> QED BY <3>5, <3>6, <3>7 DEF s
  <2> QED BY <2>2, <2>3
<1>5. pool'.protocol_fee_owed = pool.protocol_fee_owed
  BY <1>0, <1>1 DEF SyncModifyLiquidity, PoolType
<1> HIDE DEF delta
<1>6. ASSUME NEW k \in Token
      PROVE  /\ \A q \in Position \ {p} : PoolDue(k)'[q] = PoolDue(k)[q]
             /\ PoolDue(k)'[p] + Unit * vault[k] <= PoolDue(k)[p] + Unit * vault'[k]
  <2>1. /\ \A q \in Position \ {p} : PoolDue(k)'[q] = PoolDue(k)[q]
        /\ PoolDue(k)'[p] <= PoolDue(k)[p] + delta * Span(k, positions[p], pool.sqrt_price)
    BY <1>0, <1>1, SyncDue
  <2> DEFINE s == Span(k, positions[p], pool.sqrt_price)
  <2>2. s \in Int /\ vault[k] \in Int /\ vault'[k] \in Int /\ Unit \in Int
        /\ PoolDue(k)'[p] \in Int /\ PoolDue(k)[p] \in Int
    BY <1>0, SpanType, AccountType, AccountAfter, HeightType
  <2>3. delta * s \in Int /\ Unit * vault[k] \in Int /\ Unit * vault'[k] \in Int
    BY <1>1, <2>2, MulInt
  <2> QED BY <1>4, <2>1, <2>2, <2>3
<1> QED BY <1>0, <1>5, <1>6, BackedAtOne

\* Collecting fees pays out what is owed no more.
LEMMA FeesPaid ==
    ASSUME TypeOK, TypeOK', TokensBacked, NEW p \in Position, CollectFees(p)
    PROVE  TokensBacked'
<1>0. /\ positions \in [Position -> PositionType] /\ positions' \in [Position -> PositionType]
      /\ vault \in VaultType /\ UNCHANGED <<pool, ticks>> /\ Idle'
      /\ positions' = [positions EXCEPT ![p].fee_owed = [k \in Token |-> 0]]
      /\ vault' = Withdraw(Withdraw(vault, "a", positions[p].fee_owed["a"]), "b",
                           positions[p].fee_owed["b"])
  BY DEF TypeOK, VaultType, CollectFees, Idle
<1>1. /\ \A q \in Position \ {p} : positions'[q] = positions[q]
      /\ positions'[p].tick_lower_index = positions[p].tick_lower_index
      /\ positions'[p].tick_upper_index = positions[p].tick_upper_index
      /\ positions'[p].liquidity = positions[p].liquidity
      /\ positions'[p].fee_growth_checkpoint = positions[p].fee_growth_checkpoint
      /\ positions'[p].fee_owed = [k \in Token |-> 0]
  <2>1. positions[p] \in PositionType
    BY <1>0
  <2>2. positions'[p] = [positions[p] EXCEPT !.fee_owed = [k \in Token |-> 0]]
    BY <1>0
  <2>3. \A q \in Position \ {p} : positions'[q] = positions[q]
    BY <1>0
  <2> QED BY <2>1, <2>2, <2>3 DEF PositionType
<1>2. ASSUME NEW k \in Token
      PROVE  /\ \A q \in Position \ {p} : PoolDue(k)'[q] = PoolDue(k)[q]
             /\ PoolDue(k)'[p] + Unit * vault[k] <= PoolDue(k)[p] + Unit * vault'[k]
  <2>1. \A q \in Position \ {p} : PoolDue(k)'[q] = PoolDue(k)[q]
    BY <1>0, <1>1, DueKept
  <2> DEFINE x == PoolFeeInside(p, k)
             s == pool.sqrt_price
             pos == positions[p]
             new == positions'[p]
             owed == pos.fee_owed[k]
             rest == Den * (pos.liquidity * WrappingSub(x, pos.fee_growth_checkpoint[k]))
                       + pos.liquidity * Span(k, pos, s)
  <2>2. PoolFeeInside(p, k)' = x
    BY <1>0, <1>1 DEF PoolFeeInside, FeeInside
  <2>3. PoolDue(k)'[p] = Due(k, new, x, s) /\ PoolDue(k)[p] = Due(k, pos, x, s)
    BY <1>0, <2>2 DEF PoolDue
  <2>4. Span(k, new, s) = Span(k, pos, s)
    BY <1>1 DEF Span
  <2>5. x \in U128 /\ s \in SqrtPriceRange /\ pos \in PositionType /\ vault[k] \in Int
    BY <1>0, AccountType
  <2>6. owed \in Int /\ Unit \in Int /\ Unit * 0 = 0
    BY <2>5, WidthsAreNumbers, HeightType DEF PositionType
  <2>7. vault'[k] = vault[k] - owed
    BY <1>0, VaultMoves DEF Token
  <2>8. PoolDue(k)[p] \in Int
    BY AccountType
  <2>9. OwedFee(pos, x, k) \in Int /\ pos.liquidity * Span(k, pos, s) \in Int
    BY <2>5, DueType
  <2>10. new.fee_owed[k] = 0
    BY <1>1
  <2> DEFINE e == Den * (pos.liquidity * WrappingSub(x, pos.fee_growth_checkpoint[k]))
             f == pos.liquidity * Span(k, pos, s)
  <2>11. /\ OwedFee(pos, x, k) = Unit * owed + e
         /\ OwedFee(new, x, k) = Unit * 0 + e
         /\ Due(k, pos, x, s) = OwedFee(pos, x, k) + f
         /\ Due(k, new, x, s) = OwedFee(new, x, k) + f
    BY <1>1, <2>4, <2>10 DEF OwedFee, Due
  <2>12. e \in Int
    <3> DEFINE d == WrappingSub(x, pos.fee_growth_checkpoint[k])
               L == pos.liquidity
    <3>1. pos.fee_growth_checkpoint[k] \in U128 /\ L \in U128
      BY <2>5 DEF PositionType
    <3>2. d \in U128
      BY <2>5, <3>1, WrapCases
    <3> HIDE DEF d, L
    <3>3. d \in Int /\ L \in Int /\ Den \in Int
      BY <3>1, <3>2, WidthsAreNumbers, InvIsShare
    <3> QED BY <3>3, MulInt DEF d, L
  <2> HIDE DEF e, f, owed, pos, new, x, s
  <2>13. /\ Unit * (vault[k] - owed) = Unit * vault[k] - Unit * owed
         /\ Unit * vault[k] \in Int /\ Unit * owed \in Int
    BY <2>5, <2>6
  <2>14. f \in Int
    BY <2>9 DEF f
  <2>15. PoolDue(k)'[p] + Unit * vault[k] <= PoolDue(k)[p] + Unit * vault'[k]
    BY <2>3, <2>6, <2>7, <2>11, <2>12, <2>13, <2>14
  <2> QED BY <2>1, <2>15
<1> QED BY <1>0, <1>2, BackedAtOne

\* Opening or closing a position that has nothing changes nothing.
LEMMA EmptyPaid ==
    ASSUME TypeOK, TypeOK', LedgerInv, TokensBacked, Idle', NEW p \in Position,
           UNCHANGED <<pool, ticks, vault>>,
           \A q \in Position \ {p} : positions'[q] = positions[q],
           positions[p].liquidity = 0,
           positions'[p].liquidity = 0, \A k \in Token : positions'[p].fee_owed[k] = 0
    PROVE  TokensBacked'
<1>1. ASSUME NEW k \in Token
      PROVE  /\ \A q \in Position \ {p} : PoolDue(k)'[q] = PoolDue(k)[q]
             /\ PoolDue(k)'[p] + Unit * vault[k] <= PoolDue(k)[p] + Unit * vault'[k]
  <2>1. \A q \in Position \ {p} : PoolDue(k)'[q] = PoolDue(k)[q]
    BY DueKept
  <2> DEFINE s == pool.sqrt_price
             x == PoolFeeInside(p, k)
             y == PoolFeeInside(p, k)'
             owed == positions[p].fee_owed[k]
  <2>2. /\ positions[p] \in PositionType /\ positions'[p] \in PositionType
        /\ s \in SqrtPriceRange /\ x \in U128 /\ y \in U128
    BY AccountType, AccountAfter DEF TypeOK
  <2>3. PoolDue(k)[p] = Due(k, positions[p], x, s) /\ PoolDue(k)'[p] = Due(k, positions'[p], y, s)
    BY DEF PoolDue
  <2>4. owed \in Nat /\ Unit \in Nat /\ positions'[p].fee_owed[k] = 0
    BY <2>2, WidthsAreNumbers, HeightType DEF PositionType
  <2> HIDE DEF s, x, y
  <2>5. PoolDue(k)[p] = Unit * owed /\ PoolDue(k)'[p] = Unit * 0
    <3>1. Due(k, positions[p], x, s) = Unit * owed
      BY <2>2, DueIdle
    <3>2. Due(k, positions'[p], y, s) = Unit * positions'[p].fee_owed[k]
      BY <2>2, DueIdle
    <3> QED BY <2>3, <2>4, <3>1, <3>2
  <2> HIDE DEF owed
  <2>6. Unit * owed \in Nat /\ Unit * 0 = 0
    BY <2>4, MulNat
  <2>7. Unit * vault[k] \in Int /\ vault'[k] = vault[k]
    BY <2>4, AccountType, MulInt
  <2> DEFINE a == Unit * vault[k]
             b == Unit * owed
  <2>8. PoolDue(k)'[p] + a <= PoolDue(k)[p] + a
    <3>1. a \in Int /\ b \in Nat /\ PoolDue(k)[p] = b /\ PoolDue(k)'[p] = 0
      BY <2>5, <2>6, <2>7
    <3> HIDE DEF a, b
    <3> QED BY <3>1
  <2> QED BY <2>1, <2>7, <2>8
<1> QED BY <1>1, BackedAtOne

\* Nothing that counts changes: neither the dues nor, of the tokens, the vaults.
LEMMA TokensBackedKept ==
    ASSUME TypeOK, TypeOK', TokensBacked, Idle', UNCHANGED ticks,
           pool'.tick_current_index = pool.tick_current_index,
           pool'.sqrt_price = pool.sqrt_price,
           pool'.fee_growth_global = pool.fee_growth_global,
           pool'.protocol_fee_owed = pool.protocol_fee_owed,
           \A k \in Token : vault'[k] = vault[k],
           \A p \in Position :
              /\ positions'[p].tick_lower_index = positions[p].tick_lower_index
              /\ positions'[p].tick_upper_index = positions[p].tick_upper_index
              /\ positions'[p].liquidity = positions[p].liquidity
              /\ positions'[p].fee_growth_checkpoint = positions[p].fee_growth_checkpoint
              /\ positions'[p].fee_owed = positions[p].fee_owed
    PROVE  TokensBacked'
<1> SUFFICES ASSUME NEW k \in Token
             PROVE  Unit * pool'.protocol_fee_owed[k] + SumOver(PoolDue(k)') <= Unit * vault'[k]
  BY DEF TokensBacked
<1>1. PoolDue(k)' = PoolDue(k)
  <2>1. \A p \in Position : PoolDue(k)'[p] = PoolDue(k)[p]
    BY DueKept
  <2>2. PoolDue(k) \in [Position -> Int] /\ PoolDue(k)' \in [Position -> Int]
    BY AccountType, AccountAfter
  <2> QED BY <2>1, <2>2
<1>2. Unit * pool.protocol_fee_owed[k] + SumOver(PoolDue(k)) <= Unit * vault[k]
  BY DEF TokensBacked
<1>3. vault'[k] = vault[k] /\ pool'.protocol_fee_owed[k] = pool.protocol_fee_owed[k]
  OBVIOUS
<1> QED BY <1>1, <1>2, <1>3

(***************************************************************************)
(* Every instruction on a position keeps the vaults able to pay.           *)
(***************************************************************************)
LEMMA PositionTokensBacked ==
    ASSUME IInv, IInv', LedgerInv, LedgerInv', TokensBacked,
           NEW p \in Position, PositionInstruction(p)
    PROVE  TokensBacked'
<1>0. /\ TypeOK /\ TypeOK' /\ positions \in [Position -> PositionType]
      /\ positions[p] \in PositionType /\ vault \in VaultType
      /\ pool.sqrt_price \in SqrtPriceRange
  BY DEF IInv, TypeOK, PoolType, VaultType
<1>1. ASSUME NEW range \in PositionRanges, OpenPosition(p, range[1], range[2])
      PROVE  TokensBacked'
  <2>1. UNCHANGED <<pool, ticks, vault>> /\ Idle' /\ ~positions[p].open
    BY <1>1 DEF OpenPosition, Idle
  <2>2. \A q \in Position \ {p} : positions'[q] = positions[q]
    BY <1>0, <1>1 DEF OpenPosition
  <2>3. positions'[p].liquidity = 0 /\ \A k \in Token : positions'[p].fee_owed[k] = 0
    BY <1>0, <1>1 DEF OpenPosition, ClosedPosition
  <2>4. positions[p].liquidity = 0
    BY <2>1 DEF LedgerInv, IsOrdered
  <2> QED BY <1>0, <2>1, <2>2, <2>3, <2>4, EmptyPaid
<1>2. CASE ClosePosition(p)
  <2>1. UNCHANGED <<pool, ticks, vault>> /\ Idle' /\ positions[p].liquidity = 0
    BY <1>2 DEF ClosePosition, Idle, IsPositionEmpty
  <2>2. \A q \in Position \ {p} : positions'[q] = positions[q]
    BY <1>0, <1>2 DEF ClosePosition
  <2>3. positions'[p].liquidity = 0 /\ \A k \in Token : positions'[p].fee_owed[k] = 0
    BY <1>0, <1>2 DEF ClosePosition, ClosedPosition
  <2> QED BY <1>0, <2>1, <2>2, <2>3, EmptyPaid
<1>3. ASSUME NEW amount \in LiquidityAmounts,
             IncreaseLiquidity(p, amount) \/ DecreaseLiquidity(p, amount)
      PROVE  TokensBacked'
  BY <1>3, LiquidityPaid
<1>4. CASE UpdateFeesAndRewards(p)
  <2>1. CanModifyLiquidity(p, 0) /\ SyncModifyLiquidity(p, 0) /\ 0 \in Int
    BY <1>0, <1>4, UpdateIsSync
  <2>2. vault' = vault /\ Idle' /\ pool'.protocol_fee_owed = pool.protocol_fee_owed
    BY <1>0, <1>4 DEF UpdateFeesAndRewards, Idle, TypeOK, PoolType
  <2>3. ASSUME NEW k \in Token
        PROVE  /\ \A q \in Position \ {p} : PoolDue(k)'[q] = PoolDue(k)[q]
               /\ PoolDue(k)'[p] + Unit * vault[k] <= PoolDue(k)[p] + Unit * vault'[k]
    <3> DEFINE w == Span(k, positions[p], pool.sqrt_price)
               a == Unit * vault[k]
    <3>1. /\ \A q \in Position \ {p} : PoolDue(k)'[q] = PoolDue(k)[q]
          /\ PoolDue(k)'[p] <= PoolDue(k)[p] + 0 * w
      BY <1>0, <2>1, SyncDue
    <3>2. /\ w \in Int /\ a \in Int /\ PoolDue(k)'[p] \in Int /\ PoolDue(k)[p] \in Int
          /\ Unit * vault'[k] = a
      BY <1>0, <2>2, SpanType, AccountType, AccountAfter, HeightType, MulInt
    <3> HIDE DEF w, a
    <3>3. PoolDue(k)'[p] + a <= PoolDue(k)[p] + a
      BY <3>1, <3>2
    <3> QED BY <3>1, <3>2, <3>3 DEF a
  <2> QED BY <1>0, <2>2, <2>3, BackedAtOne
<1>5. CASE CollectFees(p)
  BY <1>0, <1>5, FeesPaid
<1>6. ASSUME NEW r \in Reward, CollectReward(p, r) PROVE TokensBacked'
  <2> DEFINE amount == Lesser(positions[p].reward_owed[r], vault[r])
  <2>1. /\ UNCHANGED <<pool, ticks>> /\ Idle' /\ vault' = Withdraw(vault, r, amount)
        /\ positions' = [positions EXCEPT ![p].reward_owed[r] = @ - amount]
    BY <1>6 DEF CollectReward, Idle
  <2> HIDE DEF amount
  <2>2. \A k \in Token : vault'[k] = vault[k]
    BY <1>0, <2>1, VaultMoves
  <2>3. \A q \in Position :
          /\ positions'[q].tick_lower_index = positions[q].tick_lower_index
          /\ positions'[q].tick_upper_index = positions[q].tick_upper_index
          /\ positions'[q].liquidity = positions[q].liquidity
          /\ positions'[q].fee_growth_checkpoint = positions[q].fee_growth_checkpoint
          /\ positions'[q].fee_owed = positions[q].fee_owed
    <3>1. positions'[p] = [positions[p] EXCEPT !.reward_owed[r] = @ - amount]
      BY <1>0, <2>1
    <3>2. \A q \in Position \ {p} : positions'[q] = positions[q]
      BY <1>0, <2>1
    <3> QED BY <1>0, <3>1, <3>2 DEF PositionType
  <2> QED BY <1>0, <2>1, <2>2, <2>3, TokensBackedKept
<1> QED BY <1>1, <1>2, <1>3, <1>4, <1>5, <1>6 DEF PositionInstruction

----------------------------------------------------------------------------
(* Swaps.                                                                  *)

\* An amount rounded up, and one rounded down.
AmountUp(k, p0, p1, L) == GetAmountDelta(k, p0, p1, L, TRUE)
AmountDown(k, p0, p1, L) == GetAmountDelta(k, p0, p1, L, FALSE)

\* compute_swap takes the amount in rounded up, and pays out at most the amount rounded
\* down.
LEMMA ComputedAmounts ==
    ASSUME NEW remaining \in U64, NEW feeRate, NEW L, NEW current, NEW target,
           NEW a, a.amount_specified_is_input \in BOOLEAN, a.a_to_b \in BOOLEAN,
           ComputeSwap(remaining, feeRate, L, current, target,
                       a.amount_specified_is_input, a.a_to_b).ok
    PROVE  LET c == ComputeSwap(remaining, feeRate, L, current, target,
                                a.amount_specified_is_input, a.a_to_b)
           IN  /\ AmountUp(InputToken(a), current, c.next_price, L) # Err
               /\ c.amount_in = AmountUp(InputToken(a), current, c.next_price, L)
               /\ c.amount_out <= AmountDown(OutputToken(a), current, c.next_price, L)
<1> DEFINE isInput == a.amount_specified_is_input
           aToB == a.a_to_b
           in == InputToken(a)
           out == OutputToken(a)
           c == ComputeSwap(remaining, feeRate, L, current, target,
                            a.amount_specified_is_input, a.a_to_b)
<1>0. /\ isInput \in BOOLEAN /\ aToB \in BOOLEAN
      /\ in = (IF aToB THEN "a" ELSE "b") /\ out = (IF aToB THEN "b" ELSE "a")
      /\ c = ComputeSwap(remaining, feeRate, L, current, target, isInput, aToB) /\ c.ok
  BY DEF InputToken, OutputToken
<1> HIDE DEF isInput, aToB, in, out, c
<1> DEFINE fixed(to) == GetAmountDelta(FixedToken(isInput, aToB), current, to, L, isInput)
           unfixed(to) ==
               GetAmountDelta(UnfixedToken(isInput, aToB), current, to, L, ~isInput)
           next == StepPrice(remaining, feeRate, L, current, target, isInput, aToB)
           amountIn == IF isInput THEN fixed(next) ELSE unfixed(next)
           amountOut == IF isInput THEN unfixed(next) ELSE Lesser(fixed(next), remaining)
           fee == StepFee(remaining, amountIn, feeRate, isInput, next = target)
           failed == \/ fixed(target) = Err \/ next = Err
                     \/ fixed(next) = Err \/ unfixed(next) = Err
                     \/ fee \notin U64
           gross == GetAmountDelta(in, current, next, L, TRUE)
           net == GetAmountDelta(out, current, next, L, FALSE)
<1>1. c = IF failed THEN [ok |-> FALSE]
          ELSE [ok |-> TRUE, amount_in |-> amountIn, amount_out |-> amountOut,
                next_price |-> next, fee_amount |-> fee]
  BY <1>0 DEF ComputeSwap, StepPrice, FixedAmount, AfterFee
<1>2. \A to : /\ fixed(to) # Err => fixed(to) \in U64
              /\ unfixed(to) # Err => unfixed(to) \in U64
  BY GetAmountDeltaType
<1>3. isInput => fixed(next) = gross /\ unfixed(next) = net
  BY <1>0 DEF FixedToken, UnfixedToken
<1>4. ~isInput => fixed(next) = net /\ unfixed(next) = gross
  BY <1>0 DEF FixedToken, UnfixedToken
<1> HIDE DEF fixed, unfixed, next, fee, gross, net
<1>5. ~failed
  BY <1>0, <1>1
<1>6. c.amount_in = amountIn /\ c.amount_out = amountOut /\ c.next_price = next
  BY <1>1, <1>5
<1>7. gross # Err /\ amountIn = gross
  BY <1>3, <1>4, <1>5
<1>8. amountOut <= net
  <2>1. fixed(next) \in Int /\ unfixed(next) \in Int /\ remaining \in Int
    BY <1>2, <1>5, WidthsAreNumbers
  <2> QED BY <1>3, <1>4, <2>1 DEF Lesser
<1> QED BY <1>6, <1>7, <1>8 DEF gross, net, in, out, c, AmountUp, AmountDown

\* What an iteration trades, at what it moves the price.
LEMMA IterationTrades ==
    ASSUME IInv, NEW j, NEW t, NEW c, Iteration(j, t, c)
    PROVE  LET s == swap.curr_sqrt_price
               s2 == swap'.curr_sqrt_price
               L == swap.curr_liquidity
               in == InputToken(swap.args)
               out == OutputToken(swap.args)
           IN  /\ c.amount_in \in Nat /\ c.amount_out \in Nat /\ c.fee_amount \in Nat
               /\ L \in Nat /\ s \in SqrtPriceRange /\ s2 \in SqrtPriceRange
               /\ L * Shift(in, s, s2) <= Unit * c.amount_in
               /\ L * Shift(out, s, s2) <= -(Unit * c.amount_out)
               /\ AmountIn(swap') = AmountIn(swap) + c.amount_in + c.fee_amount
               /\ AmountOut(swap') = AmountOut(swap) + c.amount_out
<1> DEFINE s == swap.curr_sqrt_price
           s2 == swap'.curr_sqrt_price
           L == swap.curr_liquidity
           a == swap.args
           in == InputToken(a)
           out == OutputToken(a)
           target == SqrtPriceTarget(swap, t)
<1>1. /\ TypeOK /\ swap \in SwapType /\ t \in TickIndex /\ c.ok
      /\ c = SwapComputation(pool, swap, t) /\ t = NextTick(swap, NextArrayIndex(swap))
      /\ SwapRunning(swap) /\ CanSearch(swap) /\ ~Idle
  BY SearchInv DEF IInv, TypeOK, Iteration, Idle, StepOk
<1>2. /\ a \in SwapRequest /\ a.a_to_b \in BOOLEAN /\ a.amount_specified_is_input \in BOOLEAN
      /\ L \in U128 /\ s \in SqrtPriceRange /\ swap.amount_remaining \in U64
      /\ swap.amount_calculated \in U64 /\ a.amount \in U64
      /\ in \in Token /\ out \in Token
  BY <1>1, SwapArgsType DEF SwapType
<1>3. /\ c.next_price \in SqrtPriceRange
      /\ c.amount_in \in U64 /\ c.amount_out \in U64 /\ c.fee_amount \in U64
      /\ BetweenPriceAndLimit(swap, c.next_price)
  BY <1>1, ComputationInv
<1>4. /\ s2 = c.next_price /\ swap'.args = a
      /\ swap'.amount_remaining = AmountRemaining(swap, c)
      /\ swap'.amount_calculated = AmountCalculated(swap, c)
  BY <1>1, IterationFields
<1>5. /\ c.amount_in \in Nat /\ c.amount_out \in Nat /\ c.fee_amount \in Nat /\ L \in Nat
      /\ swap.amount_remaining \in Int /\ swap.amount_calculated \in Int /\ a.amount \in Int
  BY <1>2, <1>3, WidthsAreNumbers
<1>6. /\ AmountIn(swap') = AmountIn(swap) + c.amount_in + c.fee_amount
      /\ AmountOut(swap') = AmountOut(swap) + c.amount_out
  BY <1>4, <1>5 DEF AmountIn, AmountOut, AmountRemaining, AmountCalculated
<1>7. IF a.a_to_b THEN s2 <= s ELSE s <= s2
  BY <1>3, <1>4 DEF BetweenPriceAndLimit
<1>8. /\ GetAmountDelta(in, s, s2, L, TRUE) # Err
      /\ c.amount_in = GetAmountDelta(in, s, s2, L, TRUE)
      /\ c.amount_out <= GetAmountDelta(out, s, s2, L, FALSE)
  <2>1. c = ComputeSwap(swap.amount_remaining, pool.fee_rate, L, s, target,
                        a.amount_specified_is_input, a.a_to_b)
    BY <1>1 DEF SwapComputation
  <2> DEFINE rest == swap.amount_remaining
             rate == pool.fee_rate
  <2> HIDE DEF s, s2, L, a, target, rest, rate
  <2>2. /\ c = ComputeSwap(rest, rate, L, s, target, a.amount_specified_is_input, a.a_to_b)
        /\ rest \in U64 /\ c.ok
        /\ a.amount_specified_is_input \in BOOLEAN /\ a.a_to_b \in BOOLEAN
    BY <1>1, <1>2, <2>1 DEF rest, rate
  <2>3. /\ AmountUp(InputToken(a), s, c.next_price, L) # Err
        /\ c.amount_in = AmountUp(InputToken(a), s, c.next_price, L)
        /\ c.amount_out <= AmountDown(OutputToken(a), s, c.next_price, L)
    BY ONLY <2>2, ComputedAmounts
  <2> QED BY <1>4, <2>3 DEF AmountUp, AmountDown
<1>9. /\ Shift(in, s, s2) = Rise(in, s, s2)
      /\ Shift(out, s, s2) = -Rise(out, s, s2)
      /\ Rise(in, s, s2) \in Int /\ Rise(out, s, s2) \in Int
  <2>1. /\ in = (IF a.a_to_b THEN "a" ELSE "b") /\ out = (IF a.a_to_b THEN "b" ELSE "a")
    BY DEF InputToken, OutputToken
  <2>2. s \in Int /\ s2 \in Int /\ s2 \in SqrtPriceRange
    BY <1>2, <1>3, <1>4, PricesAreNumbers
  <2> HIDE DEF in, out, s, s2, L, a, target
  <2>3. /\ Height(in, s) \in Int /\ Height(in, s2) \in Int
        /\ Height(out, s) \in Int /\ Height(out, s2) \in Int
    BY <1>2, <2>2, HeightType
  <2> QED BY <1>2, <1>7, <2>1, <2>2, <2>3 DEF Shift, Rise, Lesser, Greater
<1> HIDE DEF in, out, s, s2, L, a, target
<1>10. s2 \in SqrtPriceRange
  BY <1>3, <1>4
<1>11. L * Shift(in, s, s2) <= Unit * c.amount_in
  BY <1>2, <1>5, <1>8, <1>9, <1>10, PaidInWorth
<1>12. L * Shift(out, s, s2) <= -(Unit * c.amount_out)
  <2> DEFINE net == GetAmountDelta(out, s, s2, L, FALSE)
             x == Rise(out, s, s2)
             paidOut == c.amount_out
  <2>1. Unit * net <= L * x
    BY <1>2, <1>5, <1>10, PaidOutWorth
  <2>2. net \in Int
    <3>1. net # Err => net \in U64
      BY GetAmountDeltaType
    <3> HIDE DEF net
    <3> QED BY <3>1, WidthsAreNumbers DEF Err
  <2>3. x \in Int /\ paidOut \in Int /\ paidOut <= net /\ Unit \in Nat /\ L \in Int
    <3>1. paidOut \in Int /\ L \in Int
      BY <1>5
    <3>2. paidOut <= net /\ x \in Int
      BY <1>8, <1>9
    <3>3. Unit \in Nat
      BY <1>2, HeightType
    <3> QED BY <3>1, <3>2, <3>3
  <2>4. Shift(out, s, s2) = -x
    BY <1>9
  <2> HIDE DEF net, x, paidOut
  <2>5. Unit * paidOut <= Unit * net
    BY <2>2, <2>3, MulMono
  <2>6. L * (-x) = -(L * x) /\ L * x \in Int /\ Unit * paidOut \in Int /\ Unit * net \in Int
    BY <2>2, <2>3
  <2>7. L * (-x) <= -(Unit * paidOut)
    BY <2>1, <2>5, <2>6
  <2> QED BY <2>4, <2>7 DEF paidOut
<1> QED BY <1>2, <1>5, <1>6, <1>10, <1>11, <1>12 DEF in, out, s, s2, L, a

\* The terms of the account of a swap in progress are numbers.
LEMMA SwapAccountType ==
    ASSUME TypeOK, ~Idle, NEW k \in Token
    PROVE  /\ swap \in SwapType /\ swap.curr_sqrt_price \in SqrtPriceRange
           /\ \A p \in Position : SwapFeeInside(p, k) \in U128 /\ SwapDue(k)[p] \in Int
           /\ SwapDue(k) \in [Position -> Int] /\ SumOver(SwapDue(k)) \in Int
           /\ SwapVault(k) \in Int /\ SwapProtocol(k) \in Nat /\ SwapProtocol(k) \in Int
<1>1. /\ swap \in SwapType /\ positions \in [Position -> PositionType]
      /\ swap.ticks \in [UsableTick -> TickType] /\ swap.curr_sqrt_price \in SqrtPriceRange
      /\ swap.args \in SwapRequest /\ swap.amount_remaining \in U64
      /\ swap.amount_calculated \in U64 /\ swap.curr_protocol_fee \in U64
      /\ swap.curr_fee_growth_global_input \in U128
  BY DEF TypeOK, SwapType, Idle
<1>2. SwapGrowth(k) \in U128
  BY <1>1 DEF SwapGrowth, TypeOK, PoolType
<1>3. ASSUME NEW p \in Position PROVE SwapFeeInside(p, k) \in U128 /\ SwapDue(k)[p] \in Int
  <2>1. SwapFeeInside(p, k) \in U128
    BY <1>1, <1>2, InsideInUseType DEF SwapFeeInside
  <2> QED BY <1>1, <2>1, DueType DEF SwapDue
<1>4. SwapDue(k) \in [Position -> Int]
  BY <1>3 DEF SwapDue
<1>5. /\ vault[k] \in Int /\ pool.protocol_fee_owed[k] \in Nat
      /\ swap.args.amount \in Int /\ swap.amount_remaining \in Int
      /\ swap.amount_calculated \in Int /\ swap.curr_protocol_fee \in Nat
  BY <1>1, AccountType, SwapArgsType, WidthsAreNumbers
<1>6. AmountIn(swap) \in Int /\ AmountOut(swap) \in Int
  BY <1>5 DEF AmountIn, AmountOut
<1> QED BY <1>1, <1>3, <1>4, <1>5, <1>6, SumType DEF SwapVault, SwapProtocol

\* After an iteration too.
LEMMA SwapAccountAfter ==
    ASSUME IInv, NEW j, NEW t, NEW c, Iteration(j, t, c), NEW k \in Token
    PROVE  /\ \A p \in Position : SwapFeeInside(p, k)' \in U128 /\ SwapDue(k)'[p] \in Int
           /\ SwapDue(k)' \in [Position -> Int] /\ SumOver(SwapDue(k)') \in Int
<1>1. swap' \in SwapType
  BY IterationIsSwap
<1>2. /\ positions' \in [Position -> PositionType] /\ swap'.ticks \in [UsableTick -> TickType]
      /\ swap'.curr_sqrt_price \in SqrtPriceRange
  BY <1>1 DEF IInv, TypeOK, Iteration, SwapType
<1>3. SwapGrowth(k)' \in U128
  BY StepGrowthType
<1>4. ASSUME NEW p \in Position
      PROVE  /\ SwapFeeInside(p, k)' \in U128
             /\ Due(k, positions'[p], SwapFeeInside(p, k)', swap'.curr_sqrt_price) \in Int
  <2>1. SwapFeeInside(p, k)' \in U128
    BY <1>2, <1>3, InsideInUseType DEF SwapFeeInside
  <2> QED BY <1>2, <2>1, DueType
<1>5. SwapDue(k)' =
        [p \in Position |-> Due(k, positions'[p], SwapFeeInside(p, k)', swap'.curr_sqrt_price)]
  BY DEF SwapDue
<1>6. SwapDue(k)' \in [Position -> Int]
  BY <1>4, <1>5
<1> QED BY <1>4, <1>5, <1>6, SumType

\* What the step adds to what a unit of liquidity in force is due: the growth of the fees
\* and the move of the price.
UnitGain(k, c) ==
    Den * (IF k = InputToken(swap.args) THEN StepGrowth(c) ELSE 0)
        + Shift(k, swap.curr_sqrt_price, swap'.curr_sqrt_price)

\* A step adds it for the liquidity around the tick, and nothing elsewhere.
LEMMA IterationDue ==
    ASSUME IInv, LedgerInv, ArraysLoaded, NEW j, NEW t, NEW c, Iteration(j, t, c),
           NEW p \in Position, NEW k \in Token
    PROVE  SwapDue(k)'[p] <= SwapDue(k)[p] +
              UnitGain(k, c) * Around(positions, swap.curr_tick_index)[p]
<1> DEFINE pos == positions[p]
           x == SwapFeeInside(p, k)
           y == SwapFeeInside(p, k)'
           s == swap.curr_sqrt_price
           s2 == swap'.curr_sqrt_price
           L == pos.liquidity
           d == IF k = InputToken(swap.args) THEN StepGrowth(c) ELSE 0
           m == Shift(k, s, s2)
           w == Span(k, pos, s)
           w2 == Span(k, pos, s2)
           D == Den
           around == Around(positions, swap.curr_tick_index)[p]
           inRange == InRange(pos, swap.curr_tick_index)
<1>0. TypeOK /\ ~Idle /\ positions' = positions /\ swap \in SwapType
  BY DEF IInv, TypeOK, Iteration, Idle
<1>1. /\ pos \in PositionType /\ x \in U128 /\ y \in U128
      /\ s \in SqrtPriceRange /\ s2 \in SqrtPriceRange
      /\ SwapDue(k)[p] \in Int /\ SwapDue(k)'[p] \in Int
  BY <1>0, SwapAccountType, SwapAccountAfter, IterationTrades DEF TypeOK
<1>2. SwapDue(k)[p] = Due(k, pos, x, s) /\ SwapDue(k)'[p] = Due(k, pos, y, s2)
  BY <1>0 DEF SwapDue
<1>3. d \in U128 /\ d \in Int /\ D \in Int
  <2>1. StepGrowth(c) \in U128 /\ 0 \in U128
    BY StepGrowthType, Widths
  <2>2. d \in U128
    BY <2>1
  <2> HIDE DEF d
  <2> QED BY <2>2, WidthsAreNumbers, InvIsShare
<1>4. m \in Int
  <2>1. Height(k, s) \in Int /\ Height(k, s2) \in Int
    BY <1>1, HeightType
  <2> HIDE DEF s, s2
  <2> QED BY <2>1 DEF Shift
<1>5. around = IF inRange THEN L ELSE 0
  BY <1>0 DEF Around, InRange
<1>6. UnitGain(k, c) = D * d + m
  BY DEF UnitGain
<1>7. ASSUME L # 0
      PROVE  /\ w2 = w + (IF inRange THEN m ELSE 0)
             /\ y = (IF k = InputToken(swap.args) /\ inRange
                     THEN WrappingAdd(x, StepGrowth(c)) ELSE x)
  BY <1>7, SpanMoves, IterationInside
<1>8. ~(k = InputToken(swap.args)) => WrappingAdd(x, d) = x
  BY <1>1, WrapZero
<1>9. k = InputToken(swap.args) => d = StepGrowth(c)
  OBVIOUS
<1>10. /\ OwedFee(pos, x, k) \in Int /\ OwedFee(pos, y, k) \in Int
       /\ L \in Int /\ w \in Int /\ w2 \in Int
       /\ Due(k, pos, x, s) = OwedFee(pos, x, k) + L * w
       /\ Due(k, pos, y, s2) = OwedFee(pos, y, k) + L * w2
  BY <1>1, DueType, SpanType DEF Due
<1>11. OwedFee(pos, WrappingAdd(x, d), k) <= OwedFee(pos, x, k) + (D * d) * L
  BY <1>1, <1>3, OwedFeeGrows
<1> SUFFICES SwapDue(k)'[p] <= SwapDue(k)[p] + UnitGain(k, c) * around
  OBVIOUS
<1> HIDE DEF x, y, s, s2, d, m, w, w2, D, around, inRange
<1> DEFINE e == D * d
<1>12. e \in Int
  BY <1>3, MulInt
<1>13. CASE L = 0
  <2>1. Due(k, pos, x, s) = Due(k, pos, y, s2)
    BY <1>1, <1>13, DueIdle
  <2>2. around = 0
    BY <1>5, <1>13
  <2>3. UnitGain(k, c) \in Int
    BY <1>4, <1>6, <1>12
  <2> HIDE DEF L, pos, e
  <2>4. UnitGain(k, c) * 0 = 0
    BY <2>3
  <2> QED BY <1>1, <1>2, <2>1, <2>2, <2>4
<1>14. CASE L # 0 /\ inRange
  <2>1. y = WrappingAdd(x, d)
    BY <1>7, <1>8, <1>9, <1>14
  <2>2. w2 = w + m /\ around = L
    BY <1>5, <1>7, <1>14
  <2> HIDE DEF L, pos, e
  <2>3. OwedFee(pos, y, k) <= OwedFee(pos, x, k) + e * L
    BY <1>11, <2>1 DEF e
  <2>4. /\ L * w2 = L * w + L * m /\ (e + m) * L = e * L + L * m
        /\ L * w \in Int /\ L * m \in Int /\ e * L \in Int
    BY <1>4, <1>10, <1>12, <2>2
  <2>5. UnitGain(k, c) * around = (e + m) * L
    BY <1>6, <2>2 DEF e
  <2> QED BY <1>2, <1>10, <2>3, <2>4, <2>5
<1>15. CASE L # 0 /\ ~inRange
  <2>1. y = x /\ w2 = w /\ around = 0
    BY <1>5, <1>7, <1>10, <1>15
  <2>2. UnitGain(k, c) \in Int
    BY <1>4, <1>6, <1>12
  <2> HIDE DEF L, pos, e
  <2>3. UnitGain(k, c) * 0 = 0
    BY <2>2
  <2> QED BY <1>1, <1>2, <1>10, <2>1, <2>3
<1> QED BY <1>13, <1>14, <1>15

\* The books of a step: what comes in covers the protocol's share and the gain of the
\* positions, and what goes out is covered by their loss.
LEMMA StepBooks ==
    ASSUME NEW U \in Nat, NEW P \in Int, NEW P2 \in Int, NEW S \in Int, NEW S2 \in Int,
           NEW V \in Int, NEW gain \in Int, NEW share \in Int, NEW got \in Int,
           P2 <= P + share, S2 <= S + gain, gain <= U * (got - share), U * P + S <= U * V
    PROVE  U * P2 + S2 <= U * (V + got)
<1>1. U * P2 <= U * (P + share)
  BY MulMono
<1>2. /\ U * (P + share) = U * P + U * share
      /\ U * (got - share) = U * got - U * share
      /\ U * (V + got) = U * V + U * got
      /\ U * P2 \in Int /\ U * P \in Int /\ U * share \in Int /\ U * got \in Int
      /\ U * V \in Int
  OBVIOUS
<1> QED BY <1>1, <1>2

\* What the liquidity in force gains by a step.
LEMMA GainIsPaid ==
    ASSUME IInv, NEW j, NEW t, NEW c, Iteration(j, t, c), NEW k \in Token,
           NEW share, share = CalculateProtocolFee(c.fee_amount, pool.protocol_fee_rate)
    PROVE  /\ share \in Nat
           /\ UnitGain(k, c) \in Int /\ UnitGain(k, c) * swap.curr_liquidity \in Int
           /\ k = InputToken(swap.args) =>
                UnitGain(k, c) * swap.curr_liquidity
                  <= Unit * (c.amount_in + c.fee_amount - share)
           /\ k # InputToken(swap.args) =>
                UnitGain(k, c) * swap.curr_liquidity <= Unit * (-c.amount_out - 0)
<1> DEFINE s == swap.curr_sqrt_price
           s2 == swap'.curr_sqrt_price
           L == swap.curr_liquidity
           g == StepGrowth(c)
           m == Shift(k, s, s2)
           D == Den
           N == Q64
           a == c.amount_in
           b == c.amount_out
           fee == c.fee_amount
           gain == UnitGain(k, c)
<1>1. /\ a \in Nat /\ b \in Nat /\ fee \in Nat /\ L \in Nat
      /\ s \in SqrtPriceRange /\ s2 \in SqrtPriceRange
      /\ L * Shift(InputToken(swap.args), s, s2) <= Unit * a
      /\ L * Shift(OutputToken(swap.args), s, s2) <= -(Unit * b)
  BY IterationTrades
<1>2. m \in Int
  <2>1. Height(k, s) \in Int /\ Height(k, s2) \in Int
    BY <1>1, HeightType
  <2> HIDE DEF s, s2
  <2> QED BY <2>1 DEF Shift
<1>3. share \in Nat /\ share <= fee /\ g \in Nat /\ L * g <= (fee - share) * N
  <2>1. pool.protocol_fee_rate \in 0 .. PROTOCOL_FEE_RATE_MUL_VALUE
    <3>1. pool.protocol_fee_rate \in 0 .. MAX_PROTOCOL_FEE_RATE
      BY DEF IInv, TypeOK, PoolType
    <3>2. MAX_PROTOCOL_FEE_RATE \in 0 .. PROTOCOL_FEE_RATE_MUL_VALUE
      BY PoolAssumption
    <3> QED BY <3>1, <3>2, MathAssumption
  <2> DEFINE rate == pool.protocol_fee_rate
  <2>2. g = FeeGrowth(fee, rate, L) /\ share = CalculateProtocolFee(fee, rate)
    BY DEF StepGrowth
  <2> HIDE DEF rate, fee, L, g
  <2>3. /\ CalculateProtocolFee(fee, rate) \in 0 .. fee /\ FeeGrowth(fee, rate, L) \in Nat
        /\ L * FeeGrowth(fee, rate, L) <= (fee - CalculateProtocolFee(fee, rate)) * Q64
    BY <1>1, <2>1, FeeSplit DEF rate
  <2>4. share \in 0 .. fee
    BY <2>2, <2>3
  <2> QED BY <1>1, <2>2, <2>3, <2>4
<1>4. D \in Nat /\ N \in Nat /\ Unit = D * N
  BY InvIsShare, Widths DEF Unit
<1>5. Unit \in Nat
  BY HeightType
<1>6. gain = D * (IF k = InputToken(swap.args) THEN g ELSE 0) + m
  BY DEF UnitGain
<1>7. k # InputToken(swap.args) => k = OutputToken(swap.args)
  BY DEF InputToken, OutputToken, Token
<1> HIDE DEF s, s2, L, g, D, N, a, b, fee, gain
<1>8. CASE k = InputToken(swap.args)
  <2>1. gain = D * g + m /\ L * m <= Unit * a
    BY <1>1, <1>6, <1>8
  <2> HIDE DEF m
  <2>2. D * (L * g) <= D * ((fee - share) * N)
    <3> DEFINE v == L * g
               w == (fee - share) * N
    <3>1. v \in Int /\ w \in Int /\ v <= w
      BY <1>1, <1>3, <1>4
    <3> HIDE DEF v, w
    <3>2. D * v <= D * w
      BY <1>4, <3>1, MulMono
    <3> QED BY <3>2 DEF v, w
  <2> DEFINE f == fee - share
  <2>3. f \in Int
    BY <1>1, <1>3
  <2> HIDE DEF f
  <2>4. D * ((fee - share) * N) = Unit * f
    <3>1. D * (f * N) = (D * N) * f
      BY <1>4, <2>3
    <3> QED BY <1>4, <3>1 DEF f
  <2>5. D * (L * g) <= Unit * f
    BY <2>2, <2>4
  <2>6. (D * g + m) * L = D * (L * g) + L * m /\ D * (L * g) \in Int /\ L * m \in Int
    BY <1>1, <1>2, <1>3, <1>4
  <2>7. Unit * (a + f) = Unit * a + Unit * f /\ Unit * a \in Int /\ Unit * f \in Int
    BY <1>1, <1>5, <2>3
  <2>8. gain * L <= Unit * (a + f)
    BY <2>1, <2>5, <2>6, <2>7
  <2>9. a + f = a + fee - share
    BY <1>1, <1>3 DEF f
  <2>10. gain \in Int /\ gain * L \in Int
    BY <1>1, <1>2, <1>3, <1>4, <2>1, <2>6
  <2> QED BY <1>3, <1>8, <2>8, <2>9, <2>10 DEF gain, L, a, fee
<1>9. CASE k # InputToken(swap.args)
  <2>1. gain = m
    <3> HIDE DEF m
    <3>1. gain = D * 0 + m
      BY <1>6, <1>9
    <3> QED BY <1>2, <1>4, <3>1
  <2>2. L * m <= -(Unit * b)
    BY <1>1, <1>7, <1>9
  <2> HIDE DEF m
  <2>3. L * m = m * L /\ m * L \in Int /\ -(Unit * b) = Unit * (-b - 0)
    BY <1>1, <1>2, <1>5
  <2>4. gain * L <= Unit * (-b - 0)
    BY <2>1, <2>2, <2>3
  <2> QED BY <1>2, <1>3, <1>9, <2>1, <2>3, <2>4 DEF gain, L, b
<1> QED BY <1>8, <1>9

(***************************************************************************)
(* An iteration of a swap pays for what it gives.                          *)
(***************************************************************************)
LEMMA StepTokensBacked ==
    ASSUME IInv, LedgerInv, InForceInv, ArraysLoaded, TokensBacked, SwapStep
    PROVE  TokensBacked'
<1>1. PICK j, t, c : Iteration(j, t, c)
  BY StepIsIteration
<1>0. /\ TypeOK /\ ~Idle /\ swap \in SwapType
      /\ UNCHANGED <<pool, ticks, positions, vault>>
  BY <1>1 DEF IInv, TypeOK, Iteration, Idle
<1> SUFFICES ASSUME NEW k \in Token
             PROVE  /\ Unit * pool'.protocol_fee_owed[k] + SumOver(PoolDue(k)') <= Unit * vault'[k]
                    /\ Unit * SwapProtocol(k)' + SumOver(SwapDue(k)') <= Unit * SwapVault(k)'
  BY DEF TokensBacked
<1>2. /\ Unit * pool.protocol_fee_owed[k] + SumOver(PoolDue(k)) <= Unit * vault[k]
      /\ Unit * SwapProtocol(k) + SumOver(SwapDue(k)) <= Unit * SwapVault(k)
  BY <1>0 DEF TokensBacked
<1>3. PoolDue(k)' = PoolDue(k)
  BY <1>0 DEF PoolDue, PoolFeeInside
<1> DEFINE share == CalculateProtocolFee(c.fee_amount, pool.protocol_fee_rate)
           L == swap.curr_liquidity
           S == SumOver(SwapDue(k))
           S2 == SumOver(SwapDue(k)')
           P == SwapProtocol(k)
           P2 == SwapProtocol(k)'
           V == SwapVault(k)
           V2 == SwapVault(k)'
           gain == UnitGain(k, c) * L
           isIn == k = InputToken(swap.args)
           in == c.amount_in + c.fee_amount
           got == IF isIn THEN in ELSE -c.amount_out
           part == IF isIn THEN share ELSE 0
<1>4. S2 <= S + gain
  <2> DEFINE h == Around(positions, swap.curr_tick_index)
             G == UnitGain(k, c)
  <2>1. SumOver(h) = L
    BY <1>0 DEF InForceInv
  <2>2. h \in [Position -> Int]
    BY <1>0, PlacesType DEF TypeOK, PositionsType
  <2>3. SwapDue(k) \in [Position -> Int] /\ SwapDue(k)' \in [Position -> Int]
    BY <1>0, <1>1, SwapAccountType, SwapAccountAfter
  <2>4. \A p \in Position : SwapDue(k)'[p] <= SwapDue(k)[p] + G * h[p]
    BY <1>1, IterationDue
  <2>5. G \in Int
    BY <1>1, GainIsPaid
  <2> HIDE DEF h, G, L
  <2>6. SumOver(SwapDue(k)') <= SumOver(SwapDue(k)) + G * SumOver(h)
    BY <2>2, <2>3, <2>4, <2>5, SumBound
  <2> QED BY <2>1, <2>6 DEF G
<1>5. /\ share \in Nat /\ gain \in Int
      /\ isIn => gain <= Unit * (in - share)
      /\ ~isIn => gain <= Unit * (-c.amount_out - 0)
  <2>1. /\ share \in Nat /\ gain \in Int
        /\ isIn => gain <= Unit * (c.amount_in + c.fee_amount - share)
        /\ ~isIn => gain <= Unit * (-c.amount_out - 0)
    BY <1>1, GainIsPaid
  <2>2. c.amount_in \in Nat /\ c.fee_amount \in Nat
    BY <1>1, IterationTrades
  <2> HIDE DEF share, gain, isIn
  <2>3. c.amount_in + c.fee_amount - share = in - share
    BY <2>1, <2>2
  <2> HIDE DEF in
  <2> QED BY <2>1, <2>3
<1>6. S \in Int /\ S2 \in Int /\ P \in Int /\ V \in Int /\ Unit \in Nat
  BY <1>0, <1>1, SwapAccountType, SwapAccountAfter, HeightType
<1>7. /\ c.amount_in \in Nat /\ c.amount_out \in Nat /\ c.fee_amount \in Nat
      /\ AmountIn(swap') = AmountIn(swap) + c.amount_in + c.fee_amount
      /\ AmountOut(swap') = AmountOut(swap) + c.amount_out
  BY <1>1, IterationTrades
<1>8. swap'.args = swap.args /\ swap'.curr_protocol_fee = NextProtocolFee(pool, swap, c)
  BY <1>0, <1>1, IterationFields
<1>9. V2 = V + got
  <2>1. vault[k] \in Int /\ AmountIn(swap) \in Int /\ AmountOut(swap) \in Int
    <3>1. /\ swap.args.amount \in U64 /\ swap.amount_remaining \in U64
          /\ swap.amount_calculated \in U64
      BY <1>0, SwapArgsType DEF SwapType
    <3>2. /\ swap.args.amount \in Int /\ swap.amount_remaining \in Int
          /\ swap.amount_calculated \in Int
      BY <3>1, WidthsAreNumbers
    <3> QED BY <1>0, <3>2, AccountType DEF AmountIn, AmountOut
  <2>2. V2 = IF isIn THEN vault[k] + AmountIn(swap') ELSE vault[k] - AmountOut(swap')
    BY <1>0, <1>8 DEF SwapVault
  <2>3. V = IF isIn THEN vault[k] + AmountIn(swap) ELSE vault[k] - AmountOut(swap)
    BY DEF SwapVault
  <2> HIDE DEF V, V2, isIn
  <2> QED BY <1>7, <2>1, <2>2, <2>3
<1>10. P2 \in Int /\ P2 <= P + part
  <2> DEFINE old == swap.curr_protocol_fee
             new == WrappingAdd64(old, share)
             owed == pool.protocol_fee_owed[k]
  <2>1. old \in Nat /\ owed \in Nat
    BY <1>0, AccountType, WidthsAreNumbers DEF SwapType
  <2>2. swap'.curr_protocol_fee = new
    BY <1>8 DEF NextProtocolFee
  <2>3. P2 = IF isIn THEN owed + new ELSE owed
    BY <1>0, <1>8, <2>2 DEF SwapProtocol
  <2>4. P = IF isIn THEN owed + old ELSE owed
    BY DEF SwapProtocol
  <2> HIDE DEF share, old, owed, P, P2, isIn
  <2>5. new \in Nat /\ new <= old + share
    <3>1. old + share \in Nat
      BY <1>5, <2>1
    <3> QED BY <3>1, RemainderBelow, Widths DEF WrappingAdd64
  <2> HIDE DEF new
  <2> QED BY <1>5, <2>1, <2>3, <2>4, <2>5
<1>11. part \in Int /\ got \in Int /\ gain <= Unit * (got - part)
  <2>1. in \in Int /\ -c.amount_out \in Int
    BY <1>7
  <2>2. CASE isIn
    <3>1. got = in /\ part = share
      BY <2>2
    <3> HIDE DEF got, part, share, gain, isIn, in
    <3>2. gain <= Unit * (in - share)
      BY <1>5, <2>2
    <3>3. gain <= Unit * (got - part)
      BY <3>1, <3>2
    <3> QED BY <1>5, <2>1, <3>1, <3>3
  <2>3. CASE ~isIn
    <3>1. got = -c.amount_out /\ part = 0
      BY <2>3
    <3> HIDE DEF got, part, share, gain, isIn
    <3>2. gain <= Unit * (-c.amount_out - 0)
      BY <1>5, <2>3
    <3>3. gain <= Unit * (got - part)
      BY <3>1, <3>2
    <3> QED BY <2>1, <3>1, <3>3
  <2> QED BY <2>2, <2>3
<1> HIDE DEF share, L, S, S2, P, P2, V, V2, gain, isIn, got, part
<1>12. Unit * P + S <= Unit * V
  BY <1>2 DEF P, S, V
<1>13. Unit * P2 + S2 <= Unit * (V + got)
  BY <1>4, <1>5, <1>6, <1>10, <1>11, <1>12, StepBooks
<1>14. Unit * P2 + S2 <= Unit * V2
  BY <1>9, <1>13
<1> QED BY <1>0, <1>2, <1>3, <1>14 DEF P2, S2, V2

\* A swap has nothing to pay when it begins.
LEMMA BeginTokensBacked ==
    ASSUME TypeOK, TokensBacked, NEW a \in SwapRequest, SwapBegin(a)
    PROVE  TokensBacked'
<1>1. /\ swap' = SwapStart(pool, ticks, a)
      /\ UNCHANGED <<pool, ticks, positions, vault>>
  BY DEF SwapBegin
<1>2. /\ swap'.ticks = ticks /\ swap'.curr_tick_index = pool.tick_current_index
      /\ swap'.curr_sqrt_price = pool.sqrt_price /\ swap'.args = a
      /\ swap'.curr_fee_growth_global_input = pool.fee_growth_global[InputToken(a)]
      /\ swap'.curr_protocol_fee = 0 /\ swap'.amount_calculated = 0
      /\ swap'.amount_remaining = a.amount
  BY <1>1 DEF SwapStart
<1> SUFFICES ASSUME NEW k \in Token
             PROVE  /\ Unit * pool'.protocol_fee_owed[k] + SumOver(PoolDue(k)') <= Unit * vault'[k]
                    /\ Unit * SwapProtocol(k)' + SumOver(SwapDue(k)') <= Unit * SwapVault(k)'
  BY DEF TokensBacked
<1>3. Unit * pool.protocol_fee_owed[k] + SumOver(PoolDue(k)) <= Unit * vault[k]
  BY DEF TokensBacked
<1>4. PoolDue(k)' = PoolDue(k)
  BY <1>1 DEF PoolDue, PoolFeeInside
<1>5. SwapDue(k)' = PoolDue(k)
  <2>1. SwapGrowth(k)' = pool.fee_growth_global[k]
    BY <1>1, <1>2 DEF SwapGrowth
  <2>2. \A p \in Position : SwapFeeInside(p, k)' = PoolFeeInside(p, k)
    BY <1>1, <1>2, <2>1 DEF SwapFeeInside, PoolFeeInside
  <2> QED BY <1>1, <1>2, <2>2 DEF SwapDue, PoolDue
<1>6. SwapVault(k)' = vault[k] /\ SwapProtocol(k)' = pool.protocol_fee_owed[k]
  <2>1. vault[k] \in Int /\ pool.protocol_fee_owed[k] \in Int
    BY AccountType
  <2>2. a.amount \in Int /\ a.amount - a.amount = 0
    <3>1. a.amount \in U64
      BY SwapArgsType
    <3>2. a.amount \in Int
      BY <3>1, WidthsAreNumbers
    <3> QED BY <3>2
  <2>3. AmountIn(swap') = 0 /\ AmountOut(swap') = 0
    BY <1>2, <2>2 DEF AmountIn, AmountOut
  <2> QED BY <1>1, <1>2, <2>1, <2>3 DEF SwapVault, SwapProtocol
<1> QED BY <1>1, <1>3, <1>4, <1>5, <1>6

\* When it commits, the accounts become what it made of them.
LEMMA CommitTokensBacked ==
    ASSUME TypeOK, TypeOK', TokensBacked, SwapCommit
    PROVE  TokensBacked'
<1>0. /\ ~Idle /\ Idle' /\ swap \in SwapType /\ vault \in VaultType
      /\ vault' = SwapTransfers(vault, swap)
  BY DEF SwapCommit, Idle, TypeOK, VaultType
<1> SUFFICES ASSUME NEW k \in Token
             PROVE  Unit * pool'.protocol_fee_owed[k] + SumOver(PoolDue(k)') <= Unit * vault'[k]
  BY <1>0 DEF TokensBacked
<1>1. Unit * SwapProtocol(k) + SumOver(SwapDue(k)) <= Unit * SwapVault(k)
  BY <1>0 DEF TokensBacked
<1>2. /\ pool'.tick_current_index = swap.curr_tick_index
      /\ pool'.sqrt_price = swap.curr_sqrt_price
      /\ pool'.fee_growth_global[k] = SwapGrowth(k)
      /\ pool'.protocol_fee_owed[k] = IF k = InputToken(swap.args)
           THEN WrappingAdd64(pool.protocol_fee_owed[k], swap.curr_protocol_fee)
           ELSE pool.protocol_fee_owed[k]
      /\ ticks' = swap.ticks /\ positions' = positions
  BY CommitFields
<1>3. PoolDue(k)' = SwapDue(k)
  <2>1. \A p \in Position : PoolFeeInside(p, k)' = SwapFeeInside(p, k)
    BY <1>2 DEF PoolFeeInside, SwapFeeInside
  <2> QED BY <1>2, <2>1 DEF PoolDue, SwapDue
<1>4. vault'[k] = SwapVault(k)
  <2> DEFINE in == InputToken(swap.args)
             out == OutputToken(swap.args)
             x == AmountIn(swap)
             y == AmountOut(swap)
  <2>1. vault' = Withdraw(Deposit(vault, in, x), out, y)
    BY <1>0 DEF SwapTransfers
  <2>2. in \in Token /\ out \in Token /\ in # out /\ (k = in \/ k = out)
    BY DEF InputToken, OutputToken, Token
  <2>3. DOMAIN vault = Token \cup Reward
    BY <1>0 DEF VaultType
  <2>4. SwapVault(k) = IF k = in THEN vault[k] + x ELSE vault[k] - y
    BY DEF SwapVault
  <2> HIDE DEF in, out, x, y
  <2> QED BY <2>1, <2>2, <2>3, <2>4 DEF Withdraw, Deposit
<1>5. pool'.protocol_fee_owed[k] \in Int /\ pool'.protocol_fee_owed[k] <= SwapProtocol(k)
  <2> DEFINE owed == pool.protocol_fee_owed[k]
             new == swap.curr_protocol_fee
             sum == WrappingAdd64(owed, new)
  <2>1. owed \in Nat /\ new \in Nat
    BY <1>0, AccountType, WidthsAreNumbers DEF SwapType
  <2> HIDE DEF owed, new
  <2>2. sum \in Nat /\ sum <= owed + new
    <3>1. owed + new \in Nat
      BY <2>1
    <3> QED BY <3>1, RemainderBelow, Widths DEF WrappingAdd64
  <2> HIDE DEF sum
  <2>3. SwapProtocol(k) = IF k = InputToken(swap.args) THEN owed + new ELSE owed
    BY DEF SwapProtocol, owed, new
  <2>4. pool'.protocol_fee_owed[k] = IF k = InputToken(swap.args) THEN sum ELSE owed
    BY <1>2 DEF sum, owed, new
  <2> QED BY <2>1, <2>2, <2>3, <2>4
<1>6. /\ SwapProtocol(k) \in Int /\ SumOver(SwapDue(k)) \in Int /\ Unit \in Nat
      /\ SwapVault(k) \in Int
  BY <1>0, SwapAccountType, HeightType
<1> DEFINE P == SwapProtocol(k)
           P2 == pool'.protocol_fee_owed[k]
           S == SumOver(SwapDue(k))
           V == SwapVault(k)
<1>7. P \in Int /\ P2 \in Int /\ S \in Int /\ V \in Int /\ P2 <= P /\ Unit * P + S <= Unit * V
  BY <1>1, <1>5, <1>6
<1> HIDE DEF P, P2, S, V
<1>8. Unit * P2 <= Unit * P /\ Unit * P2 \in Int /\ Unit * P \in Int /\ Unit * V \in Int
  BY <1>6, <1>7, MulMono, MulInt
<1>9. Unit * P2 + S <= Unit * V
  BY <1>7, <1>8
<1> QED BY <1>3, <1>4, <1>9 DEF P2, S, V

\* The protocol takes what it is owed.
LEMMA ProtocolPaid ==
    ASSUME TypeOK, TypeOK', TokensBacked, CollectProtocolFees
    PROVE  TokensBacked'
<1>0. /\ pool \in PoolType /\ vault \in VaultType /\ Idle'
      /\ UNCHANGED <<ticks, positions>>
      /\ pool' = [pool EXCEPT !.protocol_fee_owed = [k \in Token |-> 0]]
      /\ vault' = Withdraw(Withdraw(vault, "a", pool.protocol_fee_owed["a"]), "b",
                           pool.protocol_fee_owed["b"])
  BY DEF TypeOK, VaultType, CollectProtocolFees, Idle
<1>1. /\ pool'.tick_current_index = pool.tick_current_index
      /\ pool'.sqrt_price = pool.sqrt_price
      /\ pool'.fee_growth_global = pool.fee_growth_global
      /\ pool'.protocol_fee_owed = [k \in Token |-> 0]
  BY <1>0 DEF PoolType
<1> SUFFICES ASSUME NEW k \in Token
             PROVE  Unit * pool'.protocol_fee_owed[k] + SumOver(PoolDue(k)') <= Unit * vault'[k]
  BY <1>0 DEF TokensBacked
<1> DEFINE owed == pool.protocol_fee_owed[k]
           S == SumOver(PoolDue(k))
           V == vault[k]
<1>2. PoolDue(k)' = PoolDue(k)
  BY <1>0, <1>1 DEF PoolDue, PoolFeeInside
<1>3. vault'[k] = V - owed
  BY <1>0, VaultMoves DEF Token
<1>4. owed \in Int /\ S \in Int /\ V \in Int /\ Unit \in Int
  BY AccountType, HeightType
<1>5. Unit * owed + S <= Unit * V
  BY DEF TokensBacked
<1>6. pool'.protocol_fee_owed[k] = 0
  BY <1>1
<1> HIDE DEF owed, S, V
<1>7. /\ Unit * 0 = 0 /\ Unit * (V - owed) = Unit * V - Unit * owed
      /\ Unit * V \in Int /\ Unit * owed \in Int
  BY <1>4
<1>8. Unit * 0 + S <= Unit * (V - owed)
  BY <1>4, <1>5, <1>7
<1> QED BY <1>2, <1>3, <1>6, <1>8 DEF S

\* Nothing that counts changes, whatever becomes of the rewards.
LEMMA OthersTokensBacked ==
    ASSUME TypeOK, TypeOK', TokensBacked, Idle', UNCHANGED <<ticks, positions>>,
           pool'.tick_current_index = pool.tick_current_index,
           pool'.sqrt_price = pool.sqrt_price,
           pool'.fee_growth_global = pool.fee_growth_global,
           pool'.protocol_fee_owed = pool.protocol_fee_owed,
           \A k \in Token : vault'[k] = vault[k]
    PROVE  TokensBacked'
BY TokensBackedKept

\* So do the instructions on rewards, and the others on the pool.
LEMMA OtherInstructionsTokensBacked ==
    ASSUME TypeOK, TypeOK', TokensBacked, RewardInstruction \/ PoolInstruction
    PROVE  TokensBacked'
<1>0. pool \in PoolType /\ vault \in VaultType
  BY DEF TypeOK, VaultType
<1> DEFINE Same == /\ UNCHANGED <<ticks, positions>> /\ Idle'
                   /\ pool'.tick_current_index = pool.tick_current_index
                   /\ pool'.sqrt_price = pool.sqrt_price
                   /\ pool'.fee_growth_global = pool.fee_growth_global
                   /\ pool'.protocol_fee_owed = pool.protocol_fee_owed
<1>1. ASSUME NEW i \in DOMAIN RewardSlots, InitializeReward(i) PROVE TokensBacked'
  <2>1. Same /\ vault' = vault
    BY <1>0, <1>1 DEF InitializeReward, PoolType, Idle
  <2> QED BY <2>1, OthersTokensBacked
<1>2. ASSUME NEW r \in Reward, NEW amount, FundReward(r, amount) PROVE TokensBacked'
  <2>1. Same /\ vault' = Deposit(vault, r, amount)
    BY <1>0, <1>2 DEF FundReward, PoolType, Idle
  <2>2. \A k \in Token : vault'[k] = vault[k]
    BY <1>0, <2>1, VaultMoves
  <2> QED BY <2>1, <2>2, OthersTokensBacked
<1>3. ASSUME NEW r \in Reward, NEW emissions, SetRewardEmissions(r, emissions)
      PROVE  TokensBacked'
  <2>1. Same /\ vault' = vault
    BY <1>0, <1>3 DEF SetRewardEmissions, PoolType, Idle
  <2> QED BY <2>1, OthersTokensBacked
<1>4. ASSUME NEW start, InitializeTickArray(start) PROVE TokensBacked'
  <2>1. Same /\ vault' = vault
    BY <1>4 DEF InitializeTickArray, Idle
  <2> QED BY <2>1, OthersTokensBacked
<1>5. CASE CollectProtocolFees
  BY <1>5, ProtocolPaid
<1>6. ASSUME NEW rate, SetFeeRate(rate) \/ SetProtocolFeeRate(rate) PROVE TokensBacked'
  <2>1. Same /\ vault' = vault
    BY <1>0, <1>6 DEF SetFeeRate, SetProtocolFeeRate, PoolType, Idle
  <2> QED BY <2>1, OthersTokensBacked
<1> QED BY <1>1, <1>2, <1>3, <1>4, <1>5, <1>6 DEF RewardInstruction, PoolInstruction

\* Every step keeps the vaults able to pay.
LEMMA NextTokensBacked ==
    /\ IInv /\ IInv' /\ LedgerInv /\ LedgerInv' /\ InForceInv /\ ArraysLoaded
    /\ TokensBacked /\ [Next]_vars
    => TokensBacked'
<1> SUFFICES ASSUME IInv, IInv', LedgerInv, LedgerInv', InForceInv, ArraysLoaded,
                    TokensBacked, [Next]_vars
             PROVE  TokensBacked'
  OBVIOUS
<1>0. TypeOK /\ TypeOK'
  BY DEF IInv
<1>1. CASE UNCHANGED vars
  BY <1>1 DEF vars, TokensBacked, Idle, PoolDue, SwapDue, SwapVault, SwapProtocol,
              PoolFeeInside, SwapFeeInside, SwapGrowth
<1>2. ASSUME NEW p \in Position, PositionInstruction(p) PROVE TokensBacked'
  BY <1>2, PositionTokensBacked
<1>3. CASE RewardInstruction \/ PoolInstruction
  BY <1>0, <1>3, OtherInstructionsTokensBacked
<1>4. ASSUME NEW a \in SwapArgs, SwapBegin(a) PROVE TokensBacked'
  BY <1>0, <1>4, BeginTokensBacked, PoolAssumption
<1>5. CASE SwapStep
  BY <1>5, StepTokensBacked
<1>6. CASE SwapCommit
  BY <1>0, <1>6, CommitTokensBacked
<1>7. CASE SwapRevert
  <2>1. UNCHANGED <<pool, ticks, positions, vault>> /\ Idle'
    BY <1>7 DEF SwapRevert, Idle
  <2> QED BY <1>0, <2>1, OthersTokensBacked
<1>8. CASE AdvanceTime
  <2>1. UNCHANGED <<pool, ticks, positions, vault>> /\ Idle'
    BY <1>8 DEF AdvanceTime, Idle
  <2> QED BY <1>0, <2>1, OthersTokensBacked
<1> QED BY <1>1, <1>2, <1>3, <1>4, <1>5, <1>6, <1>7, <1>8 DEF Next, Swapping

\* When nothing has happened the vaults are empty and nothing is due.
LEMMA FreshTokensBacked == Fresh => TokensBacked
<1> SUFFICES ASSUME Fresh, NEW k \in Token
             PROVE  Unit * pool.protocol_fee_owed[k] + SumOver(PoolDue(k)) <= Unit * vault[k]
  BY DEF TokensBacked, Fresh, Idle
<1>0. TypeOK
  BY FreshInv DEF IInv
<1>1. PICK price \in InitialPrices : pool = InitialPool(price)
  BY DEF Fresh
<1>2. pool.protocol_fee_owed[k] = 0 /\ vault[k] = 0
  BY <1>1 DEF Fresh, InitialPool
<1>3. ASSUME NEW p \in Position PROVE PoolDue(k)[p] = 0
  <2> DEFINE x == PoolFeeInside(p, k)
             s == pool.sqrt_price
  <2>1. /\ positions[p] \in PositionType /\ positions[p].liquidity = 0
        /\ positions[p].fee_owed[k] = 0
    BY <1>0 DEF TypeOK, Fresh
  <2>2. x \in U128 /\ s \in SqrtPriceRange
    BY <1>0, AccountType
  <2>3. PoolDue(k)[p] = Due(k, positions[p], x, s)
    BY DEF PoolDue
  <2> HIDE DEF x, s
  <2>4. Due(k, positions[p], x, s) = Unit * positions[p].fee_owed[k]
    BY <2>1, <2>2, DueIdle
  <2>5. Unit * 0 = 0
    BY HeightType
  <2> QED BY <2>1, <2>3, <2>4, <2>5
<1>4. SumOver(PoolDue(k)) = 0
  BY <1>0, <1>3, AccountType, SumOfZeros
<1>5. Unit * 0 = 0
  BY HeightType
<1> QED BY <1>2, <1>4, <1>5

\* No liquidity is worth nothing.
LEMMA NoAmountForNothing ==
    ASSUME TypeOK, NEW k \in Token, NEW pos \in PositionType, NEW amount, amount = 0
    PROVE  LiquidityTokenDelta(k, pos, amount, FALSE) <= 0
<1>1. ASSUME NEW x \in SqrtPriceRange, NEW y \in SqrtPriceRange
      PROVE  AmountDown(k, x, y, amount) <= 0
  <2> DEFINE a == GetAmountDelta(k, x, y, 0, FALSE)
             z == Rise(k, x, y)
  <2>1. Unit * a <= 0 * z /\ 0 * z \in Nat
    BY PaidOutWorth
  <2>2. z \in Int /\ Unit \in Nat \ {0} /\ Unit * 0 = 0
    <3>1. \A s \in SqrtPriceRange : Height(k, s) \in Int
      BY HeightType
    <3> QED BY <3>1, HeightType DEF Rise, Lesser, Greater
  <2>3. a \in Int
    <3>1. a # Err => a \in U64
      BY GetAmountDeltaType
    <3> HIDE DEF a
    <3> QED BY <3>1, WidthsAreNumbers DEF Err
  <2> HIDE DEF a, z
  <2>4. 0 * z = 0
    BY <2>2
  <2>5. a <= 0
    BY <2>1, <2>2, <2>3, <2>4, MulCancelLe
  <2> QED BY <2>5 DEF a, AmountDown
<1>2. /\ pool.sqrt_price \in SqrtPriceRange
      /\ SqrtPrice[pos.tick_lower_index] \in SqrtPriceRange
      /\ SqrtPrice[pos.tick_upper_index] \in SqrtPriceRange
  BY PricesAreNumbers DEF TypeOK, PoolType, PositionType
<1> DEFINE lower == SqrtPrice[pos.tick_lower_index]
           upper == SqrtPrice[pos.tick_upper_index]
<1>3. /\ AmountDown(k, lower, upper, amount) <= 0
      /\ AmountDown(k, pool.sqrt_price, upper, amount) <= 0
      /\ AmountDown(k, lower, pool.sqrt_price, amount) <= 0
  BY <1>1, <1>2
<1> DEFINE delta == LiquidityTokenDelta(k, pos, amount, FALSE)
           a1 == AmountDown(k, lower, upper, amount)
           a2 == AmountDown(k, pool.sqrt_price, upper, amount)
           a3 == AmountDown(k, lower, pool.sqrt_price, amount)
<1>4. delta = 0 \/ delta = a1 \/ delta = a2 \/ delta = a3
  BY DEF LiquidityTokenDelta, AmountDown
<1> HIDE DEF delta, a1, a2, a3
<1>5. a1 <= 0 /\ a2 <= 0 /\ a3 <= 0
  BY <1>3 DEF a1, a2, a3
<1>6. delta <= 0
  BY <1>4, <1>5
<1> QED BY <1>6 DEF delta

\* A position's claim, rounded down, is worth no more than what it is due.
LEMMA ClaimWorth ==
    ASSUME IInv, LedgerInv, NEW p \in Position, NEW k \in Token
    PROVE  Claim(p, k) \in Int /\ Unit * Claim(p, k) <= PoolDue(k)[p]
<1> DEFINE pos == positions[p]
           x == PoolFeeInside(p, k)
           inside == FeesInside(p)[k]
           cp == pos.fee_growth_checkpoint[k]
           L == pos.liquidity
           s == pool.sqrt_price
           owed == pos.fee_owed[k]
           pending == PendingFee(p, k)
           delta == LiquidityTokenDelta(k, pos, L, FALSE)
           w == Span(k, pos, s)
<1>0. TypeOK /\ PriceIsAt(pool.sqrt_price, pool.tick_current_index)
  BY DEF IInv, PriceMatchesTick
<1>1. /\ pos \in PositionType /\ x \in U128 /\ s \in SqrtPriceRange
      /\ inside \in U128 /\ cp \in U128 /\ L \in U128 /\ owed \in Nat /\ L \in Nat
      /\ PoolDue(k)[p] \in Int
  BY <1>0, AccountType, InsideTypes, WidthsAreNumbers DEF TypeOK, PositionType
<1>2. L # 0 => x = inside
  BY <1>0, InsidesComputed DEF PoolFeeInside
<1>3. L # 0 => pos.tick_lower_index < pos.tick_upper_index
  BY DEF LedgerInv, IsOrdered
<1>4. PoolDue(k)[p] = Due(k, pos, x, s)
  BY DEF PoolDue
<1>5. Claim(p, k) = owed + pending + delta
  BY DEF Claim
<1>6. pending = Settled(0, L, inside, cp)
  BY DEF PendingFee
<1>7. OwedFee(pos, x, k) = OwedFee(pos, inside, k)
  BY <1>1, <1>2, OwedFeeIdle
<1>8. OwedFee(pos, inside, k) = Unit * owed + Den * (L * WrappingSub(inside, cp))
  BY DEF OwedFee
<1>9. Due(k, pos, x, s) = OwedFee(pos, x, k) + L * w
  BY DEF Due
<1>10. OwedFee(pos, x, k) \in Int /\ w \in Int
  BY <1>1, DueType, SpanType
<1>11. Unit \in Nat /\ Unit * 0 = 0
  BY HeightType
<1>12. delta \in Int /\ Unit * delta <= L * w
  <2>1. delta \in Int
    <3>1. delta # Err => delta \in Nat
      BY LiquidityTokenDeltaType
    <3> HIDE DEF delta
    <3> QED BY <3>1 DEF Err
  <2>2. CASE L # 0
    BY <1>0, <1>1, <1>3, <2>1, <2>2, TokenDeltaWorth
  <2>3. CASE L = 0
    <3>1. delta <= 0
      <4> HIDE DEF L, pos
      <4>1. LiquidityTokenDelta(k, pos, L, FALSE) <= 0
        BY <1>0, <1>1, <2>3, NoAmountForNothing
      <4> QED BY <4>1
    <3>2. 0 * w = 0
      BY <1>10
    <3> HIDE DEF delta, L, w
    <3>3. Unit * delta <= Unit * 0
      BY <1>11, <2>1, <3>1, MulMono
    <3> QED BY <1>11, <2>1, <2>3, <3>2, <3>3
  <2> QED BY <2>2, <2>3
<1>13. pending \in Nat /\ Unit * pending <= Unit * 0 + Den * (L * WrappingSub(inside, cp))
  <2>1. 0 \in U64
    BY Widths
  <2> HIDE DEF pending, L, inside, cp
  <2> QED BY <1>1, <1>6, <2>1, SettledWorth
<1> DEFINE e == Den * (L * WrappingSub(inside, cp))
           q == L * w
<1>14. Unit * owed \in Int /\ e \in Int /\ q \in Int
  <2> DEFINE d == WrappingSub(inside, cp)
  <2>1. d \in U128
    BY <1>1, WrapCases
  <2>2. d \in Int
    <3> HIDE DEF d
    <3> QED BY <2>1, WidthsAreNumbers
  <2> HIDE DEF d, L, w, owed
  <2>3. L * d \in Int /\ L \in Int /\ owed \in Int /\ Den \in Int /\ Unit \in Int
    BY <1>1, <1>11, <2>2, MulInt, InvIsShare
  <2> QED BY <1>10, <2>3, MulInt DEF d
<1> HIDE DEF e, q, owed, pending, delta
<1>15. /\ Unit * (owed + pending + delta) = Unit * owed + Unit * pending + Unit * delta
       /\ Unit * pending \in Int /\ Unit * delta \in Int
  BY <1>1, <1>11, <1>12, <1>13
<1>16. Unit * (owed + pending + delta) <= Unit * owed + e + q
  BY <1>11, <1>12, <1>13, <1>14, <1>15 DEF e, q
<1>17. PoolDue(k)[p] = Unit * owed + e + q
  BY <1>4, <1>7, <1>8, <1>9 DEF e, q
<1>18. owed + pending + delta \in Int
  BY <1>1, <1>12, <1>13
<1> QED BY <1>5, <1>16, <1>17, <1>18

\* What the property adds up is what is due, rounded down at each position.
LEMMA BackedPays ==
    IInv /\ LedgerInv /\ TokensBacked =>
        \A k \in Token :
            vault[k] >= pool.protocol_fee_owed[k] + SumOver([p \in Position |-> Claim(p, k)])
<1> SUFFICES ASSUME IInv, LedgerInv, TokensBacked, NEW k \in Token
             PROVE  vault[k] >= pool.protocol_fee_owed[k]
                                  + SumOver([p \in Position |-> Claim(p, k)])
  OBVIOUS
<1> DEFINE f == [p \in Position |-> Claim(p, k)]
           z == [p \in Position |-> 0]
           D == PoolDue(k)
           P == pool.protocol_fee_owed[k]
           V == vault[k]
<1>0. TypeOK
  BY DEF IInv
<1>1. ASSUME NEW p \in Position PROVE f[p] \in Int /\ Unit * f[p] <= D[p] /\ D[p] \in Int
  BY <1>0, ClaimWorth, AccountType
<1>2. f \in [Position -> Int] /\ D \in [Position -> Int] /\ SumOver(D) \in Int
  <2>1. D \in [Position -> Int] /\ SumOver(D) \in Int
    BY <1>0, AccountType
  <2>2. \A p \in Position : Claim(p, k) \in Int
    BY ClaimWorth
  <2> QED BY <2>1, <2>2
<1>3. z \in [Position -> Int] /\ SumOver(z) = 0
  BY SumOfZeros
<1>4. Unit \in Nat \ {0}
  BY HeightType
<1>5. P \in Int /\ V \in Int /\ Unit * P + SumOver(D) <= Unit * V
  BY <1>0, AccountType DEF TokensBacked
<1>6. SumOver(f) \in Int
  BY <1>2, SumType
<1> HIDE DEF f, z, D, P, V
<1>7. Unit * SumOver(f) <= SumOver(D)
  <2>0. Unit \in Int /\ -Unit \in Int
    BY <1>4
  <2>1. ASSUME NEW p \in Position PROVE 0 <= D[p] + (-Unit) * f[p]
    <3>1. (-Unit) * f[p] = -(Unit * f[p]) /\ Unit * f[p] \in Int
      BY <1>1, <2>0
    <3> QED BY <1>1, <3>1
  <2>2. \A p \in Position : z[p] <= D[p] + (-Unit) * f[p]
    BY <2>1 DEF z
  <2>3. SumOver(z) <= SumOver(D) + (-Unit) * SumOver(f)
    BY <1>2, <1>3, <2>0, <2>2, SumBound
  <2>4. (-Unit) * SumOver(f) = -(Unit * SumOver(f)) /\ Unit * SumOver(f) \in Int
    BY <1>6, <2>0
  <2> QED BY <1>2, <1>3, <2>3, <2>4
<1>8. /\ Unit * (P + SumOver(f)) = Unit * P + Unit * SumOver(f)
      /\ Unit * P \in Int /\ Unit * SumOver(f) \in Int /\ P + SumOver(f) \in Int
      /\ Unit * V \in Int
  BY <1>4, <1>5, <1>6
<1>9. Unit * (P + SumOver(f)) <= Unit * V
  BY <1>2, <1>5, <1>7, <1>8
<1>10. P + SumOver(f) <= V
  BY <1>4, <1>5, <1>8, <1>9, MulCancelLe
<1> QED BY <1>5, <1>8, <1>10 DEF f, P, V

LEMMA BackedIsSolvent == IInv /\ LedgerInv /\ TokensBacked => Solvent
BY BackedPays DEF Solvent

\* What backs the tokens, whole.
BackedInv == IInv /\ LedgerInv /\ InForceInv /\ ArraysLoaded /\ TokensBacked

\* It holds when nothing has happened, and every step keeps it.
LEMMA FreshBacked == Fresh => BackedInv
BY FreshInv, FreshLedger, FreshTokensBacked DEF BackedInv

LEMMA NextBackedInv == BackedInv /\ NetsNegatable /\ [Next]_vars => BackedInv'
BY NextInv, NextLedger, NextInForce, NextArraysLoaded, NextTokensBacked DEF BackedInv

\* A swap can be dropped at any time.
LEMMA DroppedBacked ==
    ASSUME BackedInv, swap' = NoSwap, budget' \in [Kind -> Nat],
           UNCHANGED <<pool, ticks, arrays, positions, vault, now, emitted, paid>>
    PROVE  BackedInv'
<1>0. Idle' /\ TypeOK /\ LedgerInv /\ InForceInv /\ PriceMatchesTick /\ TokensBacked
  BY DEF Idle, BackedInv, IInv
<1>1. TypeOK'
  BY <1>0 DEF TypeOK
<1>2. IInv'
  BY <1>0, <1>1 DEF IInv, PriceMatchesTick, SwapWithinLimits
<1>3. LedgerInv' /\ InForceInv' /\ ArraysLoaded'
  BY <1>0 DEF LedgerInv, InForceInv, ArraysLoaded
<1>4. TokensBacked'
  BY <1>0, <1>1, OthersTokensBacked
<1> QED BY <1>2, <1>3, <1>4 DEF BackedInv

(***************************************************************************)
(* The vaults can always pay: what the protocol is owed and what every     *)
(* position could withdraw and collect now (get_amount_delta_a and         *)
(* get_amount_delta_b rounded down, fee_owed, the fees not yet settled)    *)
(* add up to no more than the vaults hold.  Every rounding, of the amounts *)
(* of a swap step, of its fee, of a deposit and of a withdrawal, is in the *)
(* vaults' favour; the liquidity that earns is the liquidity that pays, so *)
(* long as the nets of the ticks are negatable.                            *)
(***************************************************************************)
THEOREM SolvencyCorrect == Spec /\ []NetsNegatable => []Solvent
<1>1. Init => BackedInv
  BY InitFresh, FreshBacked
<1>2. BackedInv => Solvent
  BY BackedIsSolvent DEF BackedInv
<1> QED BY <1>1, <1>2, NextBackedInv, PTL DEF Spec

=============================================================================
