----------------------------- MODULE QuoteProofs -----------------------------
(***************************************************************************)
(* The SDK's quotes, and what the program makes of them.  Because the      *)
(* vaults can pay, what a position is due always fits its integers, and    *)
(* the quotes of fees and rewards are exact.  The quotes of a deposit and  *)
(* of a withdrawal are made for a price that may have moved when they are  *)
(* used: what liquidity is worth in either token moves one way with the    *)
(* price (WorthMoves), so the worst of the slippage's two ends and the     *)
(* present price is enough for all that are between (QuotedBetween).       *)
(***************************************************************************)
EXTENDS EarningsProofs, QuotedPool

----------------------------------------------------------------------------
(* The SDK's quotes of what a position may collect.  The SDK reckons in    *)
(* numbers without a width, the program in u64s that wrap and in u128s     *)
(* whose overflow counts for nothing.  The two agree because what is due   *)
(* is in the vaults, and the vaults hold no more than a u64.               *)

\* Without a transfer fee, all that is sent arrives.
LEMMA NothingWithheld ==
    ASSUME NEW x \in Int
    PROVE  calculateTransferFeeExcludedAmount(NoFee, x) = x
BY DEF calculateTransferFeeExcludedAmount, CalculateFee, NoFee

\* What fits is settled whole.
LEMMA SettledWhole ==
    ASSUME NEW L \in U128, NEW x \in U128, NEW cp \in U128,
           L * WrappingSub(x, cp) < TwoTo128
    PROVE  Settled(0, L, x, cp) = (WrappingSub(x, cp) * L) \div Q64
<1> DEFINE d == WrappingSub(x, cp)
           N == Q64
<1>1. L \in Nat /\ d \in Nat /\ N \in Nat \ {0}
  <2>1. d \in U128
    BY WrapCases
  <2> HIDE DEF d
  <2> QED BY <2>1, WidthsAreNumbers, Widths
<1> DEFINE w == L * d
           q == w \div N
<1>2. w \in Nat /\ w < N * N /\ d * L = w
  <2>1. L * d < N * N
    BY DEF TwoTo128
  <2> HIDE DEF d, N
  <2> QED BY <1>1, <2>1, MulNat
<1>3. w \in U128
  <2> HIDE DEF w
  <2>1. N * N \in Nat
    BY <1>1, MulNat
  <2> QED BY <1>2, <2>1 DEF U128, N
<1>4. MulShiftRightOrZero(L, d) = q
  BY <1>3 DEF MulShiftRightOrZero
<1> HIDE DEF w
<1>5. q \in Nat /\ N * q <= w
  <2> HIDE DEF N
  <2> QED BY <1>1, <1>2, DivType
<1> HIDE DEF N, q, d
<1>6. q < N
  <2> SUFFICES ASSUME N <= q PROVE FALSE
    BY <1>1, <1>5
  <2>1. N * N <= N * q /\ N * N \in Int /\ N * q \in Int
    BY <1>1, <1>5, MulMono
  <2> QED BY <1>2, <1>5, <2>1
<1>7. (0 + q) % N = q
  BY <1>1, <1>5, <1>6
<1> QED BY <1>2, <1>4, <1>7 DEF Settled, WrappingAdd64, d, q, N

\* Without liquidity nothing is settled.
LEMMA NothingSettled ==
    ASSUME NEW x \in U128, NEW cp \in U128
    PROVE  Settled(0, 0, x, cp) = 0
<1> DEFINE d == WrappingSub(x, cp)
<1>1. d \in Nat /\ 0 \in U128 /\ TwoTo128 \in Nat \ {0} /\ Q64 \in Nat \ {0}
  BY WrapCases, WidthsAreNumbers, U128Below, Widths
<1> HIDE DEF d
<1>2. 0 * d = 0 /\ d * 0 = 0 /\ 0 < TwoTo128 /\ 0 \div Q64 = 0
  BY <1>1
<1> QED BY <1>1, <1>2, SettledWhole DEF d

\* The SDK takes the ends of a range to be in use.
LEMMA SdkInside ==
    ASSUME NEW tick, NEW g, NEW lo, NEW a, NEW up, NEW b
    PROVE  Inside(tick, g, lo, a, up, b) = InsideInUse(tick, g, lo, a, up, b)
BY DEF Inside, InsideInUse, GrowthInside

\* What a position has yet to be credited of a fee is in the vault, so it fits.
LEMMA PendingFeeFits ==
    ASSUME IInv, LedgerInv, TokensBacked, Idle, NEW p \in Position, NEW k \in Token,
           positions[p].liquidity # 0
    PROVE  positions[p].liquidity
             * WrappingSub(PoolFeeInside(p, k), positions[p].fee_growth_checkpoint[k]) < TwoTo128
<1> DEFINE pos == positions[p]
           s == pool.sqrt_price
           L == pos.liquidity
           D == PoolDue(k)
           V == vault[k]
           P == pool.protocol_fee_owed[k]
<1>0. TypeOK
  BY DEF IInv
<1>1. ASSUME NEW q \in Position PROVE D[q] \in Nat
  <2> DEFINE o == positions[q]
             x == PoolFeeInside(q, k)
             w == Span(k, o, s)
  <2>1. o \in PositionType /\ x \in U128 /\ s \in SqrtPriceRange
    BY <1>0, AccountType DEF TypeOK
  <2>2. D[q] = OwedFee(o, x, k) + o.liquidity * w
    BY DEF PoolDue, Due
  <2>3. OwedFee(o, x, k) \in Nat /\ o.liquidity \in Nat /\ w \in Int
    BY <2>1, DueType, SpanType
  <2>4. o.liquidity # 0 => w \in Nat
    BY <2>1, SpanType DEF LedgerInv, IsOrdered
  <2> DEFINE l == o.liquidity
             f == OwedFee(o, x, k)
  <2>5. f \in Nat /\ l \in Nat /\ w \in Int /\ (l # 0 => w \in Nat) /\ D[q] = f + l * w
    BY <2>2, <2>3, <2>4
  <2> HIDE DEF l, f, w, D
  <2>6. l * w \in Nat
    <3>1. CASE l = 0
      BY <2>5, <3>1
    <3>2. CASE l # 0
      BY <2>5, <3>2, MulNat
    <3> QED BY <3>1, <3>2
  <2> QED BY <2>5, <2>6
<1>2. D \in [Position -> Nat] /\ SumOver(D) \in Nat /\ D[p] <= SumOver(D)
  <2>1. D \in [Position -> Int]
    BY <1>0, AccountType
  <2> HIDE DEF D
  <2>2. D \in [Position -> Nat]
    BY <1>1, <2>1
  <2> QED BY <2>2, SumOfNats
<1>3. P \in Nat /\ V \in Nat /\ Unit * P + SumOver(D) <= Unit * V
  BY <1>0, AccountType DEF TokensBacked
<1>4. V <= Q64 - 1
  <2>1. V \in 0 .. Supply /\ Supply \in 0 .. Q64 - 1
    BY <1>0, PoolAssumption DEF TypeOK, U64
  <2> HIDE DEF V
  <2> QED BY <2>1, Widths
<1> DEFINE x == PoolFeeInside(p, k)
           d == WrappingSub(x, pos.fee_growth_checkpoint[k])
           w == Span(k, pos, s)
           owed == pos.fee_owed[k]
<1>5. pos \in PositionType /\ x \in U128 /\ s \in SqrtPriceRange
  BY <1>0, AccountType DEF TypeOK
<1>6. D[p] = Unit * owed + Den * (L * d) + L * w
  BY DEF PoolDue, Due, OwedFee
<1>7. L \in Nat /\ d \in Nat /\ owed \in Nat /\ w \in Nat
  <2>1. d \in U128 /\ L \in U128 /\ owed \in U64
    BY <1>5, WrapCases DEF PositionType
  <2>2. w \in Nat
    BY <1>5, SpanType DEF LedgerInv, IsOrdered
  <2> HIDE DEF d, L, owed, w
  <2> QED BY <2>1, <2>2, WidthsAreNumbers
<1>8. Den \in Nat \ {0} /\ Q64 \in Nat \ {0} /\ Unit \in Nat /\ Unit = Den * Q64
  BY InvIsShare, Widths, HeightType DEF Unit
<1> DEFINE e == L * d
           N == Q64
           C == Den
           S == SumOver(D)
<1>9. C * e <= Unit * V
  <2>1. e \in Nat /\ L * w \in Nat
    BY <1>7, MulNat
  <2> DEFINE lw == L * w
  <2>2. lw \in Nat /\ D[p] = Unit * owed + C * e + lw /\ S \in Nat /\ D[p] <= S
        /\ Unit * P + S <= Unit * V
    BY <1>2, <1>3, <1>6, <2>1
  <2> HIDE DEF lw, e, C, S, D, owed, P, V
  <2>3. Unit * owed \in Nat /\ Unit * P \in Nat /\ C * e \in Nat /\ Unit * V \in Nat
    BY <1>3, <1>7, <1>8, <2>1, MulNat DEF C
  <2> QED BY <2>2, <2>3
<1>10. e < N * N
  <2>1. e \in Nat
    BY <1>7, MulNat
  <2> HIDE DEF e, N, C, V
  <2>2. Unit * V = C * (N * V) /\ N * V \in Int
    <3>1. Unit = C * N
      BY <1>8 DEF C, N
    <3>2. C \in Nat /\ N \in Nat
      BY <1>8 DEF C, N
    <3> QED BY <1>3, <3>1, <3>2
  <2>3. e <= N * V
    BY <1>8, <1>9, <2>1, <2>2, MulCancelLe DEF C
  <2>4. N * V <= N * (N - 1) /\ N \in Nat \ {0}
    BY <1>3, <1>4, <1>8, MulMono DEF N
  <2>5. N * (N - 1) = N * N - N /\ N * N \in Int
    BY <2>4
  <2> QED BY <2>1, <2>2, <2>3, <2>4, <2>5
<1> QED BY <1>10 DEF TwoTo128

\* The fees quoted are those that an update leaves, and what was left before.
LEMMA FeeQuoted ==
    ASSUME IInv, LedgerInv, TokensBacked, Idle, NEW p \in Position, NEW k \in Token
    PROVE  collectFeesQuote(Snapshot, positions[p])[k]
             = positions[p].fee_owed[k] + PendingFee(p, k)
<1> DEFINE pos == positions[p]
           x == PoolFeeInside(p, k)
           inside == FeesInside(p)[k]
           cp == pos.fee_growth_checkpoint[k]
           L == pos.liquidity
           owed == pos.fee_owed[k]
           earned == (WrappingSub(x, cp) * L) \div Q64
<1>0. TypeOK
  BY DEF IInv
<1>1. /\ pos \in PositionType /\ x \in U128 /\ inside \in U128 /\ cp \in U128 /\ L \in U128
      /\ owed \in Nat /\ L \in Nat /\ Q64 \in Nat \ {0} /\ 0 \in U128
  <2>1. pos \in PositionType /\ x \in U128 /\ inside \in U128
    <3>1. pos \in PositionType
      BY <1>0 DEF TypeOK
    <3>2. x \in U128
      BY <1>0, AccountType
    <3>3. inside \in U128
      BY <1>0, InsideTypes
    <3> QED BY <3>1, <3>2, <3>3
  <2>2. cp \in U128 /\ L \in U128 /\ owed \in U64
    BY <2>1 DEF PositionType
  <2> HIDE DEF pos, x, inside, cp, L, owed
  <2> QED BY <2>1, <2>2, WidthsAreNumbers, Widths
<1>2. collectFeesQuote(Snapshot, pos)[k]
        = calculateTransferFeeExcludedAmount(NoFee, owed + earned)
  <2>1. Snapshot.fee[k] = NoFee
    BY DEF Snapshot
  <2>2. x = Inside(Snapshot.pool.tick_current_index, Snapshot.pool.fee_growth_global[k],
                   pos.tick_lower_index, Snapshot.ticks[pos.tick_lower_index].fee_growth_outside[k],
                   pos.tick_upper_index, Snapshot.ticks[pos.tick_upper_index].fee_growth_outside[k])
    BY SdkInside DEF Snapshot, PoolFeeInside, FeeInside
  <2> HIDE DEF x
  <2> QED BY <2>1, <2>2, Zenon DEF collectFeesQuote, Excluded, Earned
<1>3. PendingFee(p, k) = Settled(0, L, inside, cp)
  BY DEF PendingFee
<1>4. CASE L # 0
  <2>1. x = inside
    BY <1>0, <1>4, InsidesComputed DEF PoolFeeInside
  <2>2. Settled(0, L, x, cp) = earned
    BY <1>1, <1>4, PendingFeeFits, SettledWhole
  <2>3. earned \in Nat
    <3>1. WrappingSub(x, cp) \in Nat
      BY <1>1, WrapCases, WidthsAreNumbers
    <3> DEFINE w == WrappingSub(x, cp) * L
    <3>2. w \in Nat
      BY <1>1, <3>1, MulNat
    <3> HIDE DEF w
    <3>3. w \div Q64 \in Nat
      BY <1>1, <3>2, DivType
    <3> QED BY <3>3 DEF w
  <2> HIDE DEF earned, owed
  <2>4. calculateTransferFeeExcludedAmount(NoFee, owed + earned) = owed + earned
    BY <1>1, <2>3, NothingWithheld
  <2> QED BY <1>2, <1>3, <2>1, <2>2, <2>4 DEF owed
<1>5. CASE L = 0
  <2>1. earned = 0
    <3> DEFINE d == WrappingSub(x, cp)
    <3>1. d \in Nat
      BY <1>1, WrapCases, WidthsAreNumbers
    <3> HIDE DEF d
    <3>2. d * 0 = 0 /\ 0 \div Q64 = 0
      BY <1>1, <3>1
    <3> QED BY <1>5, <3>2 DEF d
  <2>2. PendingFee(p, k) = 0
    BY <1>1, <1>3, <1>5, NothingSettled
  <2> HIDE DEF earned, owed
  <2>3. calculateTransferFeeExcludedAmount(NoFee, owed + 0) = owed + 0
    BY <1>1, NothingWithheld
  <2> QED BY <1>2, <2>1, <2>2, <2>3 DEF owed
<1> QED BY <1>4, <1>5

\* The total emitted of a reward, in Q64.64, fits 128 bits: a u64 of tokens.
EmittedFits == \A r \in Reward : emitted[r] \in U128

\* A number that has wrapped differs from another as it did before.
LEMMA WrappedDifference ==
    ASSUME NEW g \in Nat, g < 2 * TwoTo128, NEW y \in U128
    PROVE  WrappingSub(g % TwoTo128, y) = WrappingSub(g, y)
<1> DEFINE N == TwoTo128
           h == g % N
<1>1. N \in Nat \ {0} /\ y \in Nat /\ y < N /\ g < 2 * N
  BY U128Below
<1>2. WrappingSub(h, y) = (h - y) % N /\ WrappingSub(g, y) = (g - y) % N
  BY DEF WrappingSub, TwoTo128
<1> HIDE DEF N, h
<1>3. h = IF g < N THEN g ELSE g - N
  <2>1. g \in Int /\ -N <= g /\ ~(g < 0)
    BY <1>1
  <2>2. g % N = IF g < 0 THEN g + N ELSE IF g < N THEN g ELSE g - N
    BY <1>1, <2>1, ModNear
  <2> QED BY <2>1, <2>2 DEF h
<1>4. (h - y) % N = IF h - y < 0 THEN h - y + N ELSE h - y
  <2>1. h - y \in Int /\ -N <= h - y /\ h - y < N /\ h - y < 2 * N
    BY <1>1, <1>3
  <2> HIDE DEF h
  <2> QED BY <1>1, <2>1, ModNear
<1>5. (g - y) % N = IF g - y < 0 THEN g - y + N ELSE IF g - y < N THEN g - y ELSE g - y - N
  <2>1. g - y \in Int /\ -N <= g - y /\ g - y < 2 * N
    BY <1>1
  <2> QED BY <1>1, <2>1, ModNear
<1>6. (h - y) % N = (g - y) % N
  BY <1>1, <1>3, <1>4, <1>5
<1> QED BY <1>2, <1>6 DEF h, N

\* What a position has yet to be credited of a reward fits.
LEMMA PendingRewardFits ==
    ASSUME IInv, LedgerInv, InForceInv, ClockInv, RewardsBacked, NEW r \in Reward,
           emitted[r] \in U128, NEW p \in Position
    PROVE  positions[p].liquidity
             * WrappingSub(PoolRewardInside(p, r), positions[p].reward_growth_checkpoint[r])
             < TwoTo128
<1> DEFINE pos == positions[p]
           A == AccruedToNow(r)
           x == PoolRewardInside(p, r)
           d == WrappingSub(x, pos.reward_growth_checkpoint[r])
           L == pos.liquidity
           owed == pos.reward_owed[r]
<1>0. TypeOK
  BY DEF IInv
<1>1. /\ A[p] <= SumOver(A) /\ A[p] \in Nat
      /\ SumOver(A) \in Nat /\ SumOver(AccruedRewards(r)) \in Nat /\ Outstanding(r) \in Int
  <2>1. /\ A \in [Position -> Nat] /\ SumOver(A) \in Nat
        /\ SumOver(AccruedRewards(r)) \in Nat /\ Outstanding(r) \in Int
    BY <1>0, AccruedType
  <2> HIDE DEF A
  <2> QED BY <2>1, SumOfNats
<1>2. SumOver(A) <= SumOver(AccruedRewards(r)) + Outstanding(r)
  BY <1>0, UpdateShares
<1>3. /\ Q64 * paid[r] + SumOver(AccruedRewards(r)) + Outstanding(r) <= emitted[r]
      /\ Q64 * paid[r] \in Nat
  BY <1>0, Widths, MulNat DEF RewardsBacked, TypeOK
<1>4. emitted[r] < TwoTo128 /\ emitted[r] \in Nat /\ TwoTo128 \in Nat
  BY U128Below
<1>5. /\ pos \in PositionType /\ ticks \in [UsableTick -> TickType]
      /\ NewRewardInfos[r].growth_global \in U128
  BY <1>0, NewRewardInfosType DEF TypeOK
<1>6. L \in Nat /\ d \in Nat /\ owed \in Nat
  <2>1. x \in U128 /\ pos.reward_growth_checkpoint[r] \in U128 /\ L \in U128 /\ owed \in U64
    BY <1>5, InsideInUseType DEF PositionType, PoolRewardInside
  <2>2. d \in U128
    BY <2>1, WrapCases
  <2> HIDE DEF d, L, owed
  <2> QED BY <2>1, <2>2, WidthsAreNumbers
<1>7. A[p] = Q64 * owed + L * d
  BY DEF AccruedToNow, OwedReward
<1>8. Q64 * owed \in Nat /\ L * d \in Nat
  BY <1>6, Widths, MulNat
<1> DEFINE e == L * d
           f == Q64 * owed
           g == Q64 * paid[r]
           S == SumOver(A)
           T == SumOver(AccruedRewards(r))
           a == A[p]
<1>9. e < TwoTo128
  <2>1. /\ a = f + e /\ f \in Nat /\ e \in Nat /\ a <= S /\ a \in Nat /\ S \in Nat /\ T \in Nat
        /\ S <= T + Outstanding(r) /\ Outstanding(r) \in Int
        /\ g + T + Outstanding(r) <= emitted[r] /\ g \in Nat
    BY <1>1, <1>2, <1>3, <1>7, <1>8
  <2> HIDE DEF e, f, g, S, T, a
  <2> QED BY <1>4, <2>1
<1> QED BY <1>9

(***************************************************************************)
(* The client adds to the growth of a reward what has been emitted since   *)
(* the pool's clock, as an update will; it does not wrap the sum.          *)
(***************************************************************************)
LEMMA RewardGrowthQuoted ==
    ASSUME IInv, ClockInv, UnusedSlots, RewardsBacked, NEW r \in Reward, emitted[r] \in U128
    PROVE  LET g == adjustedRewardGrowthGlobal(pool, r, now)
           IN  /\ g # Err /\ g \in Nat /\ g < 2 * TwoTo128
               /\ g % TwoTo128 = NewRewardInfos[r].growth_global
<1> DEFINE elapsed == now - pool.reward_last_updated_timestamp
           emissions == pool.reward_infos[r].emissions
           growth == pool.reward_infos[r].growth_global
           L == pool.liquidity
           produced == elapsed * emissions
           g == adjustedRewardGrowthGlobal(pool, r, now)
           N == TwoTo128
           new == NewRewardInfos[r].growth_global
           Goal == g # Err /\ g \in Nat /\ g < 2 * N /\ g % N = new
<1> SUFFICES Goal
  OBVIOUS
<1>0. TypeOK
  BY DEF IInv
<1>1. /\ growth \in U128 /\ emissions \in Nat /\ elapsed \in Nat /\ L \in Nat
      /\ growth \in Nat
  <2>1. /\ growth \in U128 /\ emissions \in Nat
        /\ now \in Nat /\ pool.reward_last_updated_timestamp \in Nat
    BY <1>0, RewardClockType
  <2>2. L \in U128 /\ pool.reward_last_updated_timestamp <= now
    BY <1>0 DEF TypeOK, PoolType, ClockInv
  <2> HIDE DEF L, growth, emissions
  <2> QED BY <2>1, <2>2, WidthsAreNumbers
<1>2. produced \in Nat /\ produced \in U128
  <2>1. produced \in Nat
    BY <1>1, MulNat
  <2>2. produced = Outstanding(r)
    BY DEF Outstanding
  <2>3. SumOver(AccruedRewards(r)) \in Nat /\ Q64 * paid[r] \in Nat
    BY <1>0, AccruedType, Widths, MulNat DEF TypeOK
  <2>4. Q64 * paid[r] + SumOver(AccruedRewards(r)) + Outstanding(r) <= emitted[r]
    BY DEF RewardsBacked
  <2> DEFINE a == Q64 * paid[r]
             b == SumOver(AccruedRewards(r))
  <2>5. a \in Nat /\ b \in Nat /\ a + b + produced <= emitted[r]
    BY <2>2, <2>3, <2>4
  <2> HIDE DEF produced, a, b
  <2> QED BY <2>1, <2>5, U128Below
<1>3. N \in Nat \ {0} /\ growth < N /\ produced < N
  BY <1>1, <1>2, U128Below
<1>4. ASSUME g = growth, new = growth PROVE Goal
  <2> HIDE DEF N, growth, g, new
  <2>1. growth % N = growth
    BY <1>1, <1>3
  <2> QED BY <1>1, <1>3, <1>4, <2>1 DEF Err
<1>5. CASE L = 0
  <2>1. g = growth
    BY <1>5 DEF adjustedRewardGrowthGlobal
  <2>2. new = growth
    BY <1>5 DEF NewRewardInfos, NextPoolRewardInfos
  <2> HIDE DEF g, new, growth
  <2> QED BY <1>4, <2>1, <2>2
<1>6. CASE L # 0
  <2> DEFINE q == produced \div L
  <2>1. q \in Nat /\ q <= produced /\ (produced = 0 => q = 0)
    <3> HIDE DEF produced, L
    <3>1. q \in Nat /\ L * q <= produced /\ L \in Nat \ {0}
      BY <1>1, <1>2, <1>6, DivType
    <3> HIDE DEF q
    <3>2. q * 1 <= q * L
      BY <3>1, MulMono
    <3>3. q <= L * q /\ L * q \in Int
      BY <3>1, <3>2
    <3> QED BY <1>2, <3>1, <3>3
  <2>2. g = growth + q
    <3>1. mulDivRoundUpIf(elapsed, emissions, L, FALSE, U128) = q
      BY <1>2, <1>6 DEF mulDivRoundUpIf, DivRoundUpIf
    <3> HIDE DEF q
    <3>2. q # Err
      BY <2>1 DEF Err
    <3> QED BY <1>6, <3>1, <3>2 DEF adjustedRewardGrowthGlobal
  <2>3. CASE elapsed # 0 /\ pool.reward_infos[r].initialized
    <3>1. new = WrappingAdd(growth, q)
      <4>1. NewRewardInfos[r]
              = [pool.reward_infos[r] EXCEPT !.growth_global = WrappingAdd(growth, q)]
        BY <1>2, <1>6, <2>3 DEF NewRewardInfos, NextPoolRewardInfos
      <4> QED BY <1>0, <4>1 DEF TypeOK, PoolType, RewardInfos
    <3>2. WrappingAdd(growth, q) = (growth + q) % N
      BY DEF WrappingAdd, TwoTo128
    <3> HIDE DEF q, g, growth, N, produced, new
    <3> QED BY <1>1, <1>2, <1>3, <2>1, <2>2, <3>1, <3>2 DEF Err
  <2>4. CASE elapsed = 0 \/ ~pool.reward_infos[r].initialized
    <3>1. new = growth
      BY <1>6, <2>4 DEF NewRewardInfos, NextPoolRewardInfos
    <3>2. elapsed = 0 \/ emissions = 0
      BY <2>4 DEF UnusedSlots
    <3>3. produced = 0
      <4> HIDE DEF elapsed, emissions
      <4> QED BY <1>1, <3>2
    <3> HIDE DEF q, g, growth, new, produced
    <3>4. g = growth
      BY <1>1, <2>1, <2>2, <3>3
    <3> QED BY <1>4, <3>1, <3>4
  <2> QED BY <2>3, <2>4
<1> QED BY <1>5, <1>6

\* The rewards quoted to a position with liquidity are those that an update leaves, and
\* what was left before.
LEMMA RewardQuoted ==
    ASSUME IInv, LedgerInv, InForceInv, ClockInv, UnusedSlots, RewardsBacked,
           NEW r \in Reward, emitted[r] \in U128,
           NEW p \in Position, positions[p].liquidity # 0
    PROVE  collectRewardsQuote(Snapshot, positions[p], r, now)
             = positions[p].reward_owed[r] + PendingReward(p, r)
<1> DEFINE pos == positions[p]
           lower == ticks[pos.tick_lower_index]
           upper == ticks[pos.tick_upper_index]
           a == lower.reward_growths_outside[r]
           b == upper.reward_growths_outside[r]
           tick == pool.tick_current_index
           g == adjustedRewardGrowthGlobal(pool, r, now)
           h == NewRewardInfos[r].growth_global
           x == PoolRewardInside(p, r)
           cp == pos.reward_growth_checkpoint[r]
           L == pos.liquidity
           owed == pos.reward_owed[r]
           earned == (WrappingSub(x, cp) * L) \div Q64
           Minus(z) == WrappingSub(g, z)
           below == IF ~lower.initialized THEN g
                    ELSE IF tick < pos.tick_lower_index THEN WrappingSub(g, a) ELSE a
           above == IF ~upper.initialized THEN 0
                    ELSE IF tick < pos.tick_upper_index THEN b ELSE WrappingSub(g, b)
<1>0. TypeOK
  BY DEF IInv
<1>1. pos \in PositionType /\ lower \in TickType /\ upper \in TickType /\ h \in U128
  BY <1>0, NewRewardInfosType DEF TypeOK, PositionType
<1>2. a \in U128 /\ b \in U128 /\ cp \in U128 /\ L \in U128 /\ owed \in U64
  BY <1>1 DEF TickType, PositionType
<1>3. g # Err /\ g \in Nat /\ g < 2 * TwoTo128 /\ g % TwoTo128 = h
  BY RewardGrowthQuoted
<1>4. lower.initialized /\ upper.initialized
  <2>1. /\ positions \in PositionsType /\ ticks \in [UsableTick -> TickType]
        /\ TicksAgree(ticks, positions) /\ \A q \in Position : IsOrdered(positions[q])
    BY <1>0 DEF TypeOK, LedgerInv, PositionsType
  <2> QED BY <2>1, LiveEnds
<1>5. WrappingSub(WrappingSub(g, below), above) = x
  <2>1. x = WrappingSub(WrappingSub(h, IF tick < pos.tick_lower_index THEN WrappingSub(h, a) ELSE a),
                        IF tick < pos.tick_upper_index THEN b ELSE WrappingSub(h, b))
    BY DEF PoolRewardInside, RewardInside, InsideInUse, GrowthInside
  <2> HIDE DEF g, h, x, a, b
  <2>2. \A z \in U128 : WrappingSub(g, z) = WrappingSub(h, z)
    BY <1>3, WrappedDifference
  <2>3. WrappingSub(g, a) = WrappingSub(h, a) /\ WrappingSub(g, b) = WrappingSub(h, b)
        /\ WrappingSub(h, a) \in U128
    BY <1>1, <1>2, <2>2, WrapCases
  <2> QED BY <1>2, <1>4, <2>1, <2>2, <2>3
<1>6. collectRewardsQuote(Snapshot, pos, r, now)
        = calculateTransferFeeExcludedAmount(NoFee, owed + earned)
  <2>1. Snapshot.pool = pool /\ Snapshot.ticks = ticks /\ Snapshot.fee[r] = NoFee
    BY DEF Snapshot
  <2> HIDE DEF x, g
  <2>2. adjustedRewardGrowthGlobal(Snapshot.pool, r, now) = g /\ g # Err
    BY <1>3, <2>1 DEF g
  <2> QED BY <1>5, <2>1, <2>2 DEF collectRewardsQuote, Earned
<1>7. RewardsInside(p)[r] = x
  BY <1>0, InsideSettles
<1>8. x \in U128
  BY <1>0, <1>1, InsideInUseType DEF PoolRewardInside, TypeOK
<1>9. PendingReward(p, r) = earned
  <2>1. L * WrappingSub(x, cp) < TwoTo128
    BY PendingRewardFits
  <2> HIDE DEF x
  <2> QED BY <1>2, <1>7, <1>8, <2>1, SettledWhole DEF PendingReward
<1>10. owed + earned \in Int
  <2> DEFINE w == WrappingSub(x, cp) * L
  <2>1. w \in Nat
    <3>1. WrappingSub(x, cp) \in Nat /\ L \in Nat
      BY <1>2, <1>8, WrapCases, WidthsAreNumbers
    <3> QED BY <3>1, MulNat
  <2> HIDE DEF w
  <2>2. w \div Q64 \in Nat
    BY <2>1, Widths, DivType
  <2> HIDE DEF owed
  <2> QED BY <1>2, <2>2, WidthsAreNumbers DEF w
<1> HIDE DEF earned, owed
<1> QED BY <1>6, <1>9, <1>10, NothingWithheld DEF owed

(***************************************************************************)
(* A client that updates a position and collects its fees is paid what     *)
(* collectFeesQuote told it: the SDK's numbers have no width, and the      *)
(* program's never wrap or overflow, as what a position is due is in the   *)
(* vaults.                                                                 *)
(***************************************************************************)
THEOREM FeeQuotesCorrect == Spec /\ []NetsNegatable => []FeeQuoteForetells
<1>1. Init => BackedInv
  BY InitFresh, FreshBacked
<1>2. BackedInv => FeeQuoteForetells
  BY FeeQuoted DEF BackedInv, FeeQuoteForetells, Quotable
<1> QED BY <1>1, <1>2, NextBackedInv, PTL DEF Spec

(***************************************************************************)
(* The same of collectRewardsQuote, up to the present second, as long as   *)
(* all that was emitted of a reward since it began fits the u64 in which   *)
(* its tokens are counted: past that the program takes a growth to be zero *)
(* where the SDK throws.                                                   *)
(***************************************************************************)
THEOREM RewardQuotesCorrect ==
    Spec /\ []NetsNegatable => [](EmittedFits => RewardQuoteForetells)
<1> DEFINE All == /\ IInv /\ LedgerInv /\ InForceInv /\ ArraysLoaded /\ TradedInv
                  /\ UnusedSlots /\ ClockInv /\ RewardsBacked
<1>1. Init => All
  <2>1. Init => TradedInv
    BY DEF Init, TradedInv, Idle
  <2> QED BY <2>1, InitInv, InitLedger, InitUnused, InitBacked
<1>2. All /\ NetsNegatable /\ [Next]_vars => All'
  BY NextInv, NextLedger, NextInForce, NextArraysLoaded, NextTraded, NextUnused, NextBacked
<1>3. All => (EmittedFits => RewardQuoteForetells)
  <2> SUFFICES ASSUME All, EmittedFits, NEW p \in Position, CanModifyLiquidity(p, 0),
                      NEW r \in Reward
               PROVE  collectRewardsQuote(Snapshot, positions[p], r, now)
                        = positions[p].reward_owed[r] + PendingReward(p, r)
    BY DEF RewardQuoteForetells
  <2>1. positions[p].liquidity # 0 /\ emitted[r] \in U128
    BY DEF CanModifyLiquidity, EmittedFits
  <2> QED BY <2>1, RewardQuoted
<1> HIDE DEF All
<1> QED BY <1>1, <1>2, <1>3, PTL DEF Spec

----------------------------------------------------------------------------
(* Liquidity in tokens.                                                    *)

\* Quotients are in the order of their fractions, whichever way both are rounded.
LEMMA QuotientsInOrder ==
    ASSUME NEW n \in Nat, NEW d \in Nat \ {0}, NEW m \in Nat, NEW e \in Nat \ {0},
           n * e <= m * d, NEW r \in BOOLEAN
    PROVE  /\ DivRoundUpIf(n, d, r) \in Nat
           /\ DivRoundUpIf(m, e, r) \in Nat
           /\ DivRoundUpIf(n, d, r) <= DivRoundUpIf(m, e, r)
<1>1. CASE r
  <2> DEFINE x == CeilDiv(n, d)
             y == CeilDiv(m, e)
  <2>1. x \in Nat /\ y \in Nat /\ m <= e * y
    BY CeilType
  <2>2. DivRoundUpIf(n, d, r) = x /\ DivRoundUpIf(m, e, r) = y
    BY <1>1, CeilIsDivRoundUp
  <2>3. n <= d * y => x <= y
    BY <2>1, CeilAtMost
  <2> HIDE DEF x, y
  <2>4. d * m <= d * (e * y)
    BY <2>1, MulMono, MulNat
  <2>5. e * n <= e * (d * y)
    <3>1. e * n = n * e /\ d * m = m * d /\ d * (e * y) = e * (d * y)
      BY <2>1
    <3>2. e * n \in Int /\ d * m \in Int /\ e * (d * y) \in Int
      BY <2>1
    <3> QED BY <2>4, <3>1, <3>2
  <2>6. n <= d * y
    BY <2>1, <2>5, MulNat, MulCancelLe
  <2> QED BY <2>1, <2>2, <2>3, <2>6
<1>2. CASE ~r
  <2> DEFINE x == n \div d
             y == m \div e
  <2>1. x \in Nat /\ y \in Nat /\ d * x <= n
    BY DivType
  <2>2. DivRoundUpIf(n, d, r) = x /\ DivRoundUpIf(m, e, r) = y
    BY <1>2 DEF DivRoundUpIf
  <2>3. e * x <= m => x <= y
    BY <2>1, FloorAtLeast
  <2> HIDE DEF x, y
  <2>4. e * (d * x) <= e * n
    BY <2>1, MulMono, MulNat
  <2>5. d * (e * x) <= d * m
    <3>1. e * n = n * e /\ d * m = m * d /\ d * (e * x) = e * (d * x)
      BY <2>1
    <3>2. e * n \in Int /\ d * m \in Int /\ e * (d * x) \in Int
      BY <2>1
    <3> QED BY <2>4, <3>1, <3>2
  <2>6. e * x <= m
    BY <2>1, <2>5, MulNat, MulCancelLe
  <2> QED BY <2>1, <2>2, <2>3, <2>6
<1> QED BY <1>1, <1>2

\* What some liquidity between two prices is of a token, at a price between them.
TokenWorth(k, L, lo, up, c, roundUp) ==
    IF k = "a" THEN DivRoundUpIf(L * (up - c) * Q64, up * c, roundUp)
    ELSE DivRoundUpIf(L * (c - lo), Q64, roundUp)

\* Of token a it is less as the price rises, of token b more.
LEMMA WorthInOrder ==
    ASSUME NEW L \in Nat, NEW lo \in Nat \ {0}, NEW up \in Nat \ {0},
           NEW c \in Nat \ {0}, NEW e \in Nat \ {0}, lo <= c, c <= e, e <= up,
           NEW r \in BOOLEAN
    PROVE  /\ TokenWorth("a", L, lo, up, e, r) <= TokenWorth("a", L, lo, up, c, r)
           /\ TokenWorth("b", L, lo, up, c, r) <= TokenWorth("b", L, lo, up, e, r)
           /\ \A k \in Token : TokenWorth(k, L, lo, up, c, r) \in Nat
<1>1. Q64 \in Nat \ {0}
  BY Widths
<1>2. /\ up - c \in Nat /\ up - e \in Nat /\ c - lo \in Nat /\ e - lo \in Nat
      /\ c - lo <= e - lo
  OBVIOUS
<1>3. /\ L * (up - c) * Q64 \in Nat /\ L * (up - e) * Q64 \in Nat
      /\ L * (c - lo) \in Nat /\ L * (e - lo) \in Nat
      /\ up * c \in Nat \ {0} /\ up * e \in Nat \ {0}
  BY <1>1, <1>2, MulNat, MulPos
<1>4. (up - e) * c <= (up - c) * e
  <2>1. up * c <= up * e
    BY MulMono
  <2>2. (up - e) * c = up * c - e * c /\ (up - c) * e = up * e - e * c
    OBVIOUS
  <2>3. up * c \in Int /\ up * e \in Int /\ e * c \in Int
    OBVIOUS
  <2> QED BY <2>1, <2>2, <2>3
<1>5. (L * (up - e) * Q64) * (up * c) <= (L * (up - c) * Q64) * (up * e)
  <2> DEFINE f == (L * Q64) * up
             x == up - e
             y == up - c
  <2>1. f \in Nat /\ x * c \in Nat /\ y * e \in Nat
    BY <1>1, <1>2, MulNat
  <2>2. f * (x * c) <= f * (y * e)
    BY <1>4, <2>1, MulMono
  <2>3. x \in Nat /\ y \in Nat
    BY <1>2
  <2> HIDE DEF x, y
  <2>4. /\ (L * x * Q64) * (up * c) = f * (x * c)
        /\ (L * y * Q64) * (up * e) = f * (y * e)
    BY <1>1, <2>3
  <2> QED BY <2>2, <2>4 DEF x, y
<1>6. (L * (c - lo)) * Q64 <= (L * (e - lo)) * Q64
  <2>1. L * (c - lo) <= L * (e - lo)
    BY <1>2, MulMono
  <2> QED BY <1>1, <1>3, <2>1, MulMono
<1>7. /\ TokenWorth("a", L, lo, up, e, r) <= TokenWorth("a", L, lo, up, c, r)
      /\ TokenWorth("a", L, lo, up, c, r) \in Nat
  BY <1>3, <1>5, QuotientsInOrder DEF TokenWorth
<1>8. /\ TokenWorth("b", L, lo, up, c, r) <= TokenWorth("b", L, lo, up, e, r)
      /\ TokenWorth("b", L, lo, up, c, r) \in Nat
  BY <1>1, <1>3, <1>6, QuotientsInOrder DEF TokenWorth
<1> QED BY <1>7, <1>8 DEF Token

\* At the end of the range where there is none of it, and of no liquidity, it is nothing.
LEMMA WorthOfNothing ==
    ASSUME NEW lo \in Nat \ {0}, NEW up \in Nat \ {0}, NEW c \in Nat \ {0},
           NEW L \in Nat, NEW k \in Token, NEW r \in BOOLEAN,
           \/ L = 0
           \/ k = "a" /\ c = up
           \/ k = "b" /\ c = lo
    PROVE  TokenWorth(k, L, lo, up, c, r) = 0
<1>1. Q64 \in Nat \ {0} /\ up * c \in Nat \ {0}
  BY Widths, MulPos
<1>2. \A d \in Nat \ {0} : DivRoundUpIf(0, d, r) = 0
  <2>1. ASSUME NEW d \in Nat \ {0} PROVE DivRoundUpIf(0, d, r) = 0
    <3>1. CeilDiv(0, d) <= 0 /\ CeilDiv(0, d) \in Nat
      BY CeilAtMost, CeilType
    <3>2. 0 \div d = 0
      BY FloorBetween, d * 0 = 0
    <3>3. CeilDiv(0, d) = 0
      BY <3>1
    <3>4. DivRoundUpIf(0, d, TRUE) = CeilDiv(0, d)
      BY CeilIsDivRoundUp
    <3> QED BY <3>2, <3>3, <3>4 DEF DivRoundUpIf
  <2> QED BY <2>1
<1>3. k = "a" => L * (up - c) * Q64 = 0
  <2>1. up - up = 0 /\ L * 0 = 0 /\ 0 * (up - c) = 0 /\ 0 * Q64 = 0
    BY <1>1
  <2> QED BY <2>1 DEF Token
<1>4. k = "b" => L * (c - lo) = 0
  <2>1. lo - lo = 0 /\ L * 0 = 0 /\ 0 * (c - lo) = 0
    OBVIOUS
  <2> QED BY <2>1 DEF Token
<1> QED BY <1>1, <1>2, <1>3, <1>4 DEF TokenWorth, Token

\* The SDK's estimate: the price is taken to be in the range.
LEMMA SdkEstimate ==
    ASSUME NEW L \in Nat, NEW s \in Nat \ {0}, NEW lower \in TickIndex, NEW upper \in TickIndex,
           lower < upper, NEW k \in Token, NEW r \in BOOLEAN
    PROVE  getTokenEstimatesFromLiquidity(L, s, lower, upper, r)[k] =
               TokenWorth(k, L, SqrtPrice[lower], SqrtPrice[upper],
                          Clamp(s, SqrtPrice[lower], SqrtPrice[upper]), r)
<1> DEFINE lo == SqrtPrice[lower]
           up == SqrtPrice[upper]
           c == Clamp(s, lo, up)
           est == getTokenEstimatesFromLiquidity(L, s, lower, upper, r)[k]
<1>1. lo \in Nat \ {0} /\ up \in Nat \ {0} /\ lo < up
  BY PricesAreNumbers
<1>2. est = IF k = "a"
            THEN IF ~(s <= lo) /\ s >= up THEN 0
                 ELSE getTokenAFromLiquidity(L, IF s <= lo THEN lo ELSE s, up, r)
            ELSE IF s <= lo THEN 0
                 ELSE getTokenBFromLiquidity(L, lo, IF s >= up THEN up ELSE s, r)
  BY <1>1 DEF getTokenEstimatesFromLiquidity, getStrictPositionStatus
<1> HIDE DEF est
<1>3. c = IF s <= lo THEN lo ELSE IF s >= up THEN up ELSE s
  BY <1>1 DEF Clamp
<1> HIDE DEF lo, up
<1>4. c \in Nat \ {0} /\ lo <= c /\ c <= up /\ (~(s >= up) => c < up \/ s <= lo)
  BY <1>1, <1>3
<1>5. getTokenAFromLiquidity(L, c, up, r) = TokenWorth("a", L, lo, up, c, r)
  BY <1>1, <1>4 DEF getTokenAFromLiquidity, TokenWorth, Lesser, Greater
<1>6. getTokenBFromLiquidity(L, lo, c, r) = TokenWorth("b", L, lo, up, c, r)
  BY <1>1, <1>4 DEF getTokenBFromLiquidity, TokenWorth, Lesser, Greater
<1>7. c = up => TokenWorth("a", L, lo, up, c, r) = 0
  BY <1>1, <1>4, WorthOfNothing DEF Token
<1>8. c = lo => TokenWorth("b", L, lo, up, c, r) = 0
  BY <1>1, <1>4, WorthOfNothing DEF Token
<1> HIDE DEF c
<1>9. ASSUME k = "a" PROVE est = TokenWorth(k, L, lo, up, c, r)
  <2>1. CASE ~(s <= lo) /\ s >= up
    <3>1. est = 0 /\ c = up
      BY <1>2, <1>3, <1>9, <2>1
    <3> QED BY <1>7, <1>9, <3>1
  <2>2. CASE ~(~(s <= lo) /\ s >= up)
    <3>1. c = IF s <= lo THEN lo ELSE s
      BY <1>3, <2>2
    <3>2. est = getTokenAFromLiquidity(L, c, up, r)
      BY <1>2, <1>9, <2>2, <3>1
    <3> QED BY <1>5, <1>9, <3>2
  <2> QED BY <2>1, <2>2
<1>10. ASSUME k = "b" PROVE est = TokenWorth(k, L, lo, up, c, r)
  <2>1. CASE s <= lo
    <3>1. est = 0 /\ c = lo
      BY <1>2, <1>3, <1>10, <2>1
    <3> QED BY <1>8, <1>10, <3>1
  <2>2. CASE ~(s <= lo)
    <3>1. c = IF s >= up THEN up ELSE s
      BY <1>3, <2>2
    <3>2. est = getTokenBFromLiquidity(L, lo, c, r)
      BY <1>2, <1>10, <2>2, <3>1
    <3> QED BY <1>6, <1>10, <3>2
  <2> QED BY <2>1, <2>2
<1> QED BY <1>9, <1>10 DEF est, c, lo, up, Token

\* What the program charges or pays is the same, as a u64: the tick tells it where the
\* price is.
LEMMA ProgramEstimate ==
    ASSUME TypeOK, PriceIsAt(pool.sqrt_price, pool.tick_current_index),
           NEW k \in Token, NEW pos \in PositionType, pos.tick_lower_index < pos.tick_upper_index,
           NEW L \in Nat, NEW r \in BOOLEAN
    PROVE  LiquidityTokenDelta(k, pos, L, r) =
               Checked(U64, TokenWorth(k, L, SqrtPrice[pos.tick_lower_index],
                                       SqrtPrice[pos.tick_upper_index],
                                       Clamp(pool.sqrt_price, SqrtPrice[pos.tick_lower_index],
                                             SqrtPrice[pos.tick_upper_index]), r))
<1> DEFINE lower == pos.tick_lower_index
           upper == pos.tick_upper_index
           lo == SqrtPrice[lower]
           up == SqrtPrice[upper]
           s == pool.sqrt_price
           tick == pool.tick_current_index
           c == Clamp(s, lo, up)
           delta == LiquidityTokenDelta(k, pos, L, r)
<1>1. /\ lower \in TickIndex /\ upper \in TickIndex /\ s \in SqrtPriceRange
      /\ tick \in CurrentTick /\ tick \in Int /\ lower \in Int /\ upper \in Int
  BY PricesAreNumbers DEF TypeOK, PoolType, PositionType
<1>2. IsSide(tick, s, lower) /\ IsSide(tick, s, upper)
  <2>1. \A t \in {lower, upper} : (t <= tick => SqrtPrice[t] <= s) /\ (tick < t => s <= SqrtPrice[t])
    BY <1>1, TicksAround
  <2> QED BY <1>1, <2>1 DEF IsSide
<1>3. c = IF tick < lower THEN lo ELSE IF tick < upper THEN s ELSE up
  BY <1>1, <1>2, ClampBySide
<1>4. lo \in Nat \ {0} /\ up \in Nat \ {0} /\ s \in Nat \ {0} /\ lo < up
  BY <1>1, PricesAreNumbers
<1>5. /\ ~(tick < lower) => lo <= s
      /\ tick < upper => s <= up
  BY <1>2 DEF IsSide
<1>6. delta = IF tick < lower THEN IF k = "a" THEN GetAmountDelta(k, lo, up, L, r) ELSE 0
              ELSE IF tick < upper
              THEN IF k = "a" THEN GetAmountDelta(k, s, up, L, r)
                   ELSE GetAmountDelta(k, lo, s, L, r)
              ELSE IF k = "b" THEN GetAmountDelta(k, lo, up, L, r) ELSE 0
  BY DEF LiquidityTokenDelta
<1> HIDE DEF delta, lo, up, s, tick, lower, upper
<1>7. c \in Nat \ {0} /\ lo <= c /\ c <= up
  BY <1>1, <1>3, <1>4, <1>5
<1> HIDE DEF c
<1>8. GetAmountDelta("a", c, up, L, r) = Checked(U64, TokenWorth("a", L, lo, up, c, r))
  BY <1>4, <1>7 DEF GetAmountDelta, GetAmountDeltaA, TokenWorth, Lesser, Greater
<1>9. GetAmountDelta("b", lo, c, L, r) = Checked(U64, TokenWorth("b", L, lo, up, c, r))
  BY <1>4, <1>7 DEF GetAmountDelta, GetAmountDeltaB, TokenWorth, Lesser, Greater
<1>10. Checked(U64, 0) = 0
  BY Widths DEF Checked
<1>11. c = up => TokenWorth("a", L, lo, up, c, r) = 0
  BY <1>4, <1>7, WorthOfNothing DEF Token
<1>12. c = lo => TokenWorth("b", L, lo, up, c, r) = 0
  BY <1>4, <1>7, WorthOfNothing DEF Token
<1>13. ASSUME k = "a" PROVE delta = Checked(U64, TokenWorth(k, L, lo, up, c, r))
  <2>1. CASE ~(tick < lower) /\ ~(tick < upper)
    <3>1. delta = 0 /\ c = up
      BY <1>3, <1>6, <1>13, <2>1
    <3> QED BY <1>10, <1>11, <1>13, <3>1
  <2>2. CASE tick < lower
    <3>1. delta = GetAmountDelta("a", c, up, L, r)
      BY <1>3, <1>6, <1>13, <2>2
    <3> QED BY <1>8, <1>13, <3>1
  <2>3. CASE ~(tick < lower) /\ tick < upper
    <3>1. delta = GetAmountDelta("a", c, up, L, r)
      BY <1>3, <1>6, <1>13, <2>3
    <3> QED BY <1>8, <1>13, <3>1
  <2> QED BY <2>1, <2>2, <2>3
<1>14. ASSUME k = "b" PROVE delta = Checked(U64, TokenWorth(k, L, lo, up, c, r))
  <2>1. CASE tick < lower
    <3>1. delta = 0 /\ c = lo
      BY <1>3, <1>6, <1>14, <2>1
    <3> QED BY <1>10, <1>12, <1>14, <3>1
  <2>2. CASE ~(tick < lower) /\ tick < upper
    <3>1. delta = GetAmountDelta("b", lo, c, L, r)
      BY <1>3, <1>6, <1>14, <2>2
    <3> QED BY <1>9, <1>14, <3>1
  <2>3. CASE ~(tick < lower) /\ ~(tick < upper)
    <3>1. delta = GetAmountDelta("b", lo, c, L, r)
      BY <1>3, <1>6, <1>14, <2>3
    <3> QED BY <1>9, <1>14, <3>1
  <2> QED BY <2>1, <2>2, <2>3
<1> QED BY <1>13, <1>14 DEF delta, c, lo, up, s, tick, lower, upper, Token

----------------------------------------------------------------------------
(* How far the price may move.                                             *)

\* The rounded root exists, and a number whose square is on one side of what the root is
\* of, is on that side of it.
LEMMA RoundedRoot ==
    ASSUME NEW P \in Nat \ {0}, NEW n \in Int, NEW d \in Nat \ {0}, NEW s \in Nat
    PROVE  /\ RoundedTimesRoot(P, n, d) \in Nat
           /\ P * P * n <= s * s * d => RoundedTimesRoot(P, n, d) <= s
           /\ s * s * d <= P * P * n => s <= RoundedTimesRoot(P, n, d)
<1> DEFINE g == Greater(n, 0)
           m == g \div d + 1
           M == P * m
           Sq == 4 * P * P * n
           Above(r) == Sq < (2 * r + 1) * (2 * r + 1) * d
           NotBelow(r) == r = 0 \/ (2 * r - 1) * (2 * r - 1) * d <= Sq
           S == {r \in 0 .. M : Above(r)}
<1>1. g \in Nat /\ n <= g
  BY DEF Greater
<1>2. m \in Nat \ {0} /\ g < d * m
  BY <1>1, DivType
<1>3. M \in Nat \ {0}
  BY <1>2, MulPos
<1>4. Sq \in Int
  OBVIOUS
<1>5. Above(M)
  <2> HIDE DEF g, m
  <2>1. n <= d * m
    <3>1. d * m \in Int
      BY <1>2
    <3> QED BY <1>1, <1>2, <3>1
  <2>2. (P * P) \in Nat /\ 4 * (P * P) \in Nat
    BY MulNat
  <2>3. 4 * (P * P) * n <= 4 * (P * P) * (d * m)
    BY <1>2, <2>1, <2>2, MulMono
  <2>4. d * m <= (d * m) * m
    <3>1. d * m \in Nat
      BY <1>2, MulNat
    <3>2. (d * m) * 1 <= (d * m) * m
      BY <1>2, <3>1, MulMono
    <3> QED BY <3>1, <3>2
  <2>5. 4 * (P * P) * (d * m) <= 4 * (P * P) * ((d * m) * m)
    BY <1>2, <2>2, <2>4, MulMono
  <2>6. 4 * (P * P) * ((d * m) * m) = (2 * M) * (2 * M) * d
    BY <1>2
  <2>7. (2 * M) * (2 * M) * d < (2 * M + 1) * (2 * M + 1) * d
    <3> HIDE DEF M
    <3>1. (2 * M + 1) * (2 * M + 1) * d = (2 * M) * (2 * M) * d + 4 * (M * d) + d
      BY <1>3
    <3>2. M * d \in Nat /\ (2 * M) * (2 * M) * d \in Nat
      BY <1>3, MulNat
    <3> QED BY <3>1, <3>2
  <2>8. Sq = 4 * (P * P) * n
    OBVIOUS
  <2>9. /\ 4 * (P * P) * (d * m) \in Int /\ (2 * M) * (2 * M) * d \in Int
        /\ (2 * M + 1) * (2 * M + 1) * d \in Int
    BY <1>2, <1>3
  <2> HIDE DEF M, Sq
  <2> QED BY <1>4, <2>3, <2>5, <2>6, <2>7, <2>8, <2>9
<1> HIDE DEF M, Sq, g
<1>6. \E r \in 0 .. M : NotBelow(r) /\ Above(r)
  <2>1. S \in SUBSET (0 .. M) /\ S # {}
    <3>1. M \in 0 .. M
      BY <1>3
    <3> QED BY <1>5, <3>1
  <2>2. PICK r \in S : \A q \in S : r <= q
    <3> HIDE DEF S
    <3>1. 0 \in Int /\ M \in Int
      BY <1>3
    <3> QED BY <2>1, <3>1, HasLeast
  <2>3. NotBelow(r)
    <3> SUFFICES ASSUME r # 0 PROVE (2 * r - 1) * (2 * r - 1) * d <= Sq
      OBVIOUS
    <3>1. r - 1 \in 0 .. M /\ ~(r <= r - 1) /\ r \in Nat
      BY <1>3, <2>2
    <3>2. ~Above(r - 1)
      BY <2>2, <3>1
    <3>3. 2 * (r - 1) + 1 = 2 * r - 1
      BY <3>1
    <3>4. (2 * r - 1) * (2 * r - 1) * d \in Int
      BY <3>1
    <3> QED BY <1>4, <3>2, <3>3, <3>4
  <2> QED BY <2>2, <2>3
<1> DEFINE root == RoundedTimesRoot(P, n, d)
<1>7. root \in 0 .. M /\ NotBelow(root) /\ Above(root)
  BY <1>6 DEF RoundedTimesRoot, M, Sq, g
<1> HIDE DEF root
<1>8. root \in Nat
  BY <1>3, <1>7
<1>9. /\ P * P * n \in Int /\ s * s * d \in Int /\ Sq = 4 * (P * P * n)
      /\ (2 * s) * (2 * s) * d = 4 * (s * s * d)
  BY DEF Sq
<1>10. ASSUME P * P * n <= s * s * d, s < root PROVE FALSE
  <2> DEFINE x == 2 * root - 1
             y == 2 * s
  <2>1. x \in Nat /\ y \in Nat /\ y + 1 <= x
    BY <1>8, <1>10
  <2>2. x * x * d <= y * y * d
    <3>1. x * x * d <= Sq /\ x * x * d \in Int
      BY <1>7, <1>8, <1>10
    <3> QED BY <1>9, <1>10, <3>1
  <2> HIDE DEF x, y
  <2>3. y * y + 2 * y + 1 <= x * x
    <3>1. (y + 1) * (y + 1) <= (y + 1) * x /\ x * (y + 1) <= x * x
      BY <2>1, MulMono
    <3>2. (y + 1) * (y + 1) = y * y + 2 * y + 1 /\ (y + 1) * x = x * (y + 1)
      BY <2>1
    <3>3. (y + 1) * x \in Int /\ x * x \in Int /\ y * y \in Int
      BY <2>1
    <3> QED BY <2>1, <3>1, <3>2, <3>3
  <2>4. d * (x * x) <= d * (y * y)
    <3>1. x * x * d = d * (x * x) /\ y * y * d = d * (y * y)
      BY <2>1
    <3> QED BY <2>2, <3>1
  <2>5. x * x <= y * y
    BY <2>1, <2>4, MulNat, MulCancelLe
  <2>6. x * x \in Int /\ y * y \in Int
    BY <2>1
  <2> QED BY <2>1, <2>3, <2>5, <2>6
<1>11. ASSUME s * s * d <= P * P * n, root < s PROVE FALSE
  <2> DEFINE x == 2 * root + 1
             y == 2 * s
  <2>1. x \in Nat /\ y \in Nat /\ x + 1 <= y
    BY <1>8, <1>11
  <2>2. y * y * d < x * x * d
    <3>1. Sq < x * x * d /\ x * x * d \in Int
      BY <1>7, <1>8, <1>11
    <3> QED BY <1>9, <1>11, <3>1
  <2> HIDE DEF x, y
  <2>3. x * x <= y * y
    <3>1. x * x <= x * y /\ y * x <= y * y
      BY <2>1, MulMono
    <3>2. x * y = y * x /\ x * y \in Int /\ x * x \in Int /\ y * y \in Int
      BY <2>1
    <3> QED BY <3>1, <3>2
  <2>4. d * (x * x) <= d * (y * y)
    BY <2>1, <2>3, MulNat, MulMono
  <2>5. x * x * d = d * (x * x) /\ y * y * d = d * (y * y) /\ x * x * d \in Int /\ y * y * d \in Int
    BY <2>1
  <2> QED BY <2>2, <2>4, <2>5
<1> QED BY <1>8, <1>10, <1>11 DEF root

\* The prices that a slippage allows for.
Near(P, s, slippage) ==
    /\ P * P * (slippage.denominator - slippage.numerator) <= s * s * slippage.denominator
    /\ s * s * slippage.denominator <= P * P * (slippage.denominator + slippage.numerator)

\* The bounds the SDK reckons with are around them.
LEMMA SlippageBounds ==
    ASSUME NEW P \in SqrtPriceRange, NEW slippage \in Percentage, NEW b,
           b = getSlippageBoundForSqrtPrice(P, slippage)
    PROVE  /\ b[1] \in SqrtPriceRange /\ b[2] \in SqrtPriceRange
           /\ \A s \in SqrtPriceRange : Near(P, s, slippage) => b[1] <= s /\ s <= b[2]
<1> DEFINE n == slippage.numerator
           d == slippage.denominator
           x == RoundedTimesRoot(P, d - n, d)
           y == RoundedTimesRoot(P, d + n, d)
<1>1. P \in Nat \ {0} /\ n \in Nat /\ d \in Nat \ {0}
  BY PricesAreNumbers DEF Percentage
<1>2. d - n \in Int /\ d + n \in Int
  BY <1>1
<1>3. b[1] = InPriceRange(x) /\ b[2] = InPriceRange(y)
  BY DEF getSlippageBoundForSqrtPrice
<1>4. x \in Nat /\ y \in Nat
  BY <1>1, <1>2, RoundedRoot, 0 \in Nat
<1>5. ASSUME NEW s \in SqrtPriceRange, Near(P, s, slippage) PROVE x <= s /\ s <= y
  <2>1. s \in Nat
    BY PricesAreNumbers
  <2>2. P * P * (d - n) <= s * s * d /\ s * s * d <= P * P * (d + n)
    BY <1>5 DEF Near
  <2> HIDE DEF n, d
  <2> QED BY <1>1, <1>2, <2>1, <2>2, RoundedRoot
<1> HIDE DEF x, y
<1>6. /\ MIN_SQRT_PRICE_X64 \in Nat /\ MAX_SQRT_PRICE_X64 \in Nat
      /\ MIN_SQRT_PRICE_X64 <= MAX_SQRT_PRICE_X64
  <2>1. MIN_TICK_INDEX \in TickIndex /\ MAX_TICK_INDEX \in TickIndex
    BY MathAssumption DEF TickIndex
  <2>2. SqrtPrice[MIN_TICK_INDEX] < SqrtPrice[MAX_TICK_INDEX]
    BY <2>1, MathAssumption
  <2>3. SqrtPrice[MIN_TICK_INDEX] \in Nat /\ SqrtPrice[MAX_TICK_INDEX] \in Nat
    BY <2>1, PricesAreNumbers
  <2> QED BY <2>2, <2>3 DEF MIN_SQRT_PRICE_X64, MAX_SQRT_PRICE_X64
<1>7. \A z \in Nat : /\ InPriceRange(z) \in SqrtPriceRange
                     /\ \A s \in SqrtPriceRange : /\ z <= s => InPriceRange(z) <= s
                                                  /\ s <= z => s <= InPriceRange(z)
  <2> SUFFICES ASSUME NEW z \in Nat
               PROVE  /\ InPriceRange(z) \in SqrtPriceRange
                      /\ \A s \in SqrtPriceRange : /\ z <= s => InPriceRange(z) <= s
                                                   /\ s <= z => s <= InPriceRange(z)
    OBVIOUS
  <2>1. InPriceRange(z) = IF z <= MIN_SQRT_PRICE_X64 THEN MIN_SQRT_PRICE_X64
                          ELSE IF z <= MAX_SQRT_PRICE_X64 THEN z ELSE MAX_SQRT_PRICE_X64
    BY <1>6 DEF InPriceRange, Lesser, Greater
  <2> QED BY <1>6, <2>1 DEF SqrtPriceRange
<1> QED BY <1>3, <1>4, <1>5, <1>7

----------------------------------------------------------------------------
(* What a quote promises.                                                  *)

\* What liquidity in a range is of a token when the price is s.
Worth(k, L, lower, upper, s, roundUp) ==
    TokenWorth(k, L, SqrtPrice[lower], SqrtPrice[upper],
               Clamp(s, SqrtPrice[lower], SqrtPrice[upper]), roundUp)

\* As the price rises, a is exchanged for b.
LEMMA WorthMoves ==
    ASSUME NEW L \in Nat, NEW lower \in TickIndex, NEW upper \in TickIndex, lower < upper,
           NEW s \in SqrtPriceRange, NEW t \in SqrtPriceRange, s <= t, NEW r \in BOOLEAN
    PROVE  /\ Worth("a", L, lower, upper, t, r) <= Worth("a", L, lower, upper, s, r)
           /\ Worth("b", L, lower, upper, s, r) <= Worth("b", L, lower, upper, t, r)
           /\ \A k \in Token : /\ Worth(k, L, lower, upper, s, r) \in Nat
                               /\ Worth(k, L, lower, upper, t, r) \in Nat
<1> DEFINE lo == SqrtPrice[lower]
           up == SqrtPrice[upper]
           c == Clamp(s, lo, up)
           e == Clamp(t, lo, up)
<1>1. lo \in Nat \ {0} /\ up \in Nat \ {0} /\ lo < up /\ s \in Nat \ {0} /\ t \in Nat \ {0}
  BY PricesAreNumbers
<1> HIDE DEF lo, up
<1>2. c \in Nat \ {0} /\ e \in Nat \ {0} /\ lo <= c /\ c <= e /\ e <= up
  BY <1>1 DEF Clamp
<1> HIDE DEF c, e
<1>3. /\ TokenWorth("a", L, lo, up, e, r) <= TokenWorth("a", L, lo, up, c, r)
      /\ TokenWorth("b", L, lo, up, c, r) <= TokenWorth("b", L, lo, up, e, r)
      /\ \A k \in Token : TokenWorth(k, L, lo, up, c, r) \in Nat
  BY <1>1, <1>2, WorthInOrder
<1>4. lo <= e /\ e <= e
  BY <1>1, <1>2
<1>5. \A k \in Token : TokenWorth(k, L, lo, up, e, r) \in Nat
  BY <1>1, <1>2, <1>4, WorthInOrder
<1> QED BY <1>3, <1>5 DEF Worth, lo, up, c, e

\* What is paid for the liquidity, and what it pays.
Costs(k, L, lower, upper, s) == Worth(k, L, lower, upper, s, TRUE)
Yields(k, L, lower, upper, s) == Worth(k, L, lower, upper, s, FALSE)

\* As the SDK estimates them.
SdkCosts(L, s, lower, upper) == getTokenEstimatesFromLiquidity(L, s, lower, upper, TRUE)
SdkYields(L, s, lower, upper) == getTokenEstimatesFromLiquidity(L, s, lower, upper, FALSE)

\* No liquidity is worth nothing anywhere.
LEMMA NoLiquidityNoWorth ==
    ASSUME NEW L \in Nat, L = 0, NEW lower \in TickIndex, NEW upper \in TickIndex, lower < upper
    PROVE  \A k \in Token, s \in SqrtPriceRange :
               Costs(k, L, lower, upper, s) = 0 /\ Yields(k, L, lower, upper, s) = 0
<1> SUFFICES ASSUME NEW k \in Token, NEW s \in SqrtPriceRange
             PROVE  \A r \in BOOLEAN : Worth(k, L, lower, upper, s, r) = 0
  BY Zenon DEF Costs, Yields
<1> SUFFICES ASSUME NEW r \in BOOLEAN PROVE Worth(k, L, lower, upper, s, r) = 0
  OBVIOUS
<1> DEFINE lo == SqrtPrice[lower]
           up == SqrtPrice[upper]
           c == Clamp(s, lo, up)
<1>1. lo \in Nat \ {0} /\ up \in Nat \ {0} /\ s \in Nat \ {0}
  BY PricesAreNumbers
<1>2. c \in Nat \ {0}
  BY <1>1 DEF Clamp
<1> HIDE DEF lo, up, c
<1>3. TokenWorth(k, L, lo, up, c, r) = 0
  BY <1>1, <1>2, WorthOfNothing
<1> QED BY <1>3 DEF Worth, lo, up, c

\* What the SDK estimates, rounded one way or the other.
LEMMA SdkWorth ==
    ASSUME NEW L \in Nat, NEW lower \in TickIndex, NEW upper \in TickIndex, lower < upper,
           NEW s \in SqrtPriceRange, NEW k \in Token
    PROVE  /\ SdkCosts(L, s, lower, upper)[k]
                  = Costs(k, L, lower, upper, s)
           /\ SdkYields(L, s, lower, upper)[k]
                  = Yields(k, L, lower, upper, s)
           /\ Costs(k, L, lower, upper, s) \in Nat
           /\ Yields(k, L, lower, upper, s) \in Nat
<1> DEFINE Estimated(r) ==
              /\ getTokenEstimatesFromLiquidity(L, s, lower, upper, r)[k]
                    = Worth(k, L, lower, upper, s, r)
              /\ Worth(k, L, lower, upper, s, r) \in Nat
<1>1. ASSUME NEW r \in BOOLEAN PROVE Estimated(r)
  <2>1. s \in Nat \ {0} /\ s <= s
    BY PricesAreNumbers
  <2>2. getTokenEstimatesFromLiquidity(L, s, lower, upper, r)[k]
            = Worth(k, L, lower, upper, s, r)
    BY <2>1, SdkEstimate DEF Worth
  <2>3. Worth(k, L, lower, upper, s, r) \in Nat
    BY <2>1, WorthMoves
  <2> QED BY <2>2, <2>3
<1> HIDE DEF Estimated
<1>2. Estimated(TRUE) /\ Estimated(FALSE)
  BY <1>1, Zenon
<1> QED BY <1>2, Zenon DEF Estimated, Costs, Yields, SdkCosts, SdkYields

\* The limits of a quote are enough, and not too much, when the price is s.
Enough(q, lower, upper, s) ==
    \A k \in Token : Costs(k, q.liquidityAmount, lower, upper, s) <= q.tokenMax[k]
NotTooMuch(q, lower, upper, s) ==
    \A k \in Token : q.tokenMin[k] <= Yields(k, q.liquidityAmount, lower, upper, s)

\* The estimates at three prices are on both sides of that at a price among them.
LEMMA WorthBetween ==
    ASSUME NEW L \in Nat, NEW lower \in TickIndex, NEW upper \in TickIndex, lower < upper,
           NEW x \in SqrtPriceRange, NEW y \in SqrtPriceRange, NEW z \in SqrtPriceRange,
           NEW s \in SqrtPriceRange, \/ s = x
                                     \/ y <= s /\ s <= z,
           NEW k \in Token, NEW r \in BOOLEAN
    PROVE  LET at(p) == getTokenEstimatesFromLiquidity(L, p, lower, upper, r)
           IN  /\ Worth(k, L, lower, upper, s, r) <= MostOf(at(x), at(y), at(z))[k]
               /\ LeastOf(at(x), at(y), at(z))[k] <= Worth(k, L, lower, upper, s, r)
               /\ MostOf(at(x), at(y), at(z))[k] \in Nat
               /\ LeastOf(at(x), at(y), at(z))[k] \in Nat
<1> DEFINE at(p) == getTokenEstimatesFromLiquidity(L, p, lower, upper, r)
           W(p) == Worth(k, L, lower, upper, p, r)
<1>1. \A p \in SqrtPriceRange : at(p)[k] = W(p)
  BY SdkEstimate, PricesAreNumbers DEF Worth
<1>2. \A p \in SqrtPriceRange : W(p) \in Nat
  <2>1. ASSUME NEW p \in SqrtPriceRange PROVE W(p) \in Nat
    <3>1. p <= p
      BY PricesAreNumbers
    <3> QED BY <3>1, WorthMoves
  <2> QED BY <2>1
<1>3. /\ MostOf(at(x), at(y), at(z))[k] = Greater(Greater(at(x)[k], at(y)[k]), at(z)[k])
      /\ LeastOf(at(x), at(y), at(z))[k] = Lesser(Lesser(at(x)[k], at(y)[k]), at(z)[k])
  BY DEF MostOf, LeastOf
<1>4. \/ s = x
      \/ W(y) <= W(s) /\ W(s) <= W(z)
      \/ W(z) <= W(s) /\ W(s) <= W(y)
  <2>1. CASE y <= s /\ s <= z /\ k = "a"
    BY <2>1, WorthMoves
  <2>2. CASE y <= s /\ s <= z /\ k = "b"
    BY <2>2, WorthMoves
  <2> QED BY <2>1, <2>2 DEF Token
<1>5. W(x) \in Nat /\ W(y) \in Nat /\ W(z) \in Nat /\ W(s) \in Nat
  BY <1>2
<1>6. at(x)[k] = W(x) /\ at(y)[k] = W(y) /\ at(z)[k] = W(z) /\ (s = x => W(s) = W(x))
  BY <1>1
<1> HIDE DEF W, at
<1>7. /\ W(s) <= MostOf(at(x), at(y), at(z))[k]
      /\ LeastOf(at(x), at(y), at(z))[k] <= W(s)
      /\ MostOf(at(x), at(y), at(z))[k] \in Nat
      /\ LeastOf(at(x), at(y), at(z))[k] \in Nat
  BY <1>3, <1>4, <1>5, <1>6 DEF Greater, Lesser
<1> QED BY <1>7 DEF W, at

\* So are those of what is to be paid, and of what will be.
LEMMA QuotedBetween ==
    ASSUME NEW L \in Nat, NEW lower \in TickIndex, NEW upper \in TickIndex, lower < upper,
           NEW x \in SqrtPriceRange, NEW y \in SqrtPriceRange, NEW z \in SqrtPriceRange,
           NEW s \in SqrtPriceRange, \/ s = x
                                     \/ y <= s /\ s <= z,
           NEW k \in Token
    PROVE  LET up(p) == SdkCosts(L, p, lower, upper)
               down(p) == SdkYields(L, p, lower, upper)
           IN  /\ Costs(k, L, lower, upper, s) <= MostOf(up(x), up(y), up(z))[k]
               /\ MostOf(up(x), up(y), up(z))[k] \in Nat
               /\ LeastOf(down(x), down(y), down(z))[k] <= Yields(k, L, lower, upper, s)
               /\ LeastOf(down(x), down(y), down(z))[k] \in Nat
<1> DEFINE at(p, r) == getTokenEstimatesFromLiquidity(L, p, lower, upper, r)
           Between(r) ==
              /\ Worth(k, L, lower, upper, s, r) <= MostOf(at(x, r), at(y, r), at(z, r))[k]
              /\ LeastOf(at(x, r), at(y, r), at(z, r))[k] <= Worth(k, L, lower, upper, s, r)
              /\ MostOf(at(x, r), at(y, r), at(z, r))[k] \in Nat
              /\ LeastOf(at(x, r), at(y, r), at(z, r))[k] \in Nat
<1>1. \A r \in BOOLEAN : Between(r)
  BY WorthBetween
<1> HIDE DEF Between
<1>2. Between(TRUE) /\ Between(FALSE)
  BY <1>1, Zenon
<1> QED BY <1>2, Zenon DEF Between, Costs, Yields, SdkCosts, SdkYields

\* What the quotes are.
IncreaseQuoteType ==
    [ok : {TRUE}, liquidityAmount : Nat, tokenMax : [Token -> Nat], tokenEst : [Token -> Nat]]
DecreaseQuoteType ==
    [ok : {TRUE}, liquidityAmount : Nat, tokenMin : [Token -> Nat], tokenEst : [Token -> Nat]]

\* Without transfer fees the quote of an increase has the amounts it is made of.
LEMMA PlainIncrease ==
    ASSUME NEW L \in Nat, NEW max, NEW est, \A k \in Token : max[k] \in Nat /\ est[k] \in Nat,
           NEW q, q = IncreaseQuote(Snapshot, L, max, est)
    PROVE  /\ q \in IncreaseQuoteType
           /\ q.liquidityAmount = L
           /\ \A k \in Token : q.tokenMax[k] = max[k] /\ q.tokenEst[k] = est[k]
<1>1. \A k \in Token : Snapshot.fee[k] = NoFee
  BY DEF Snapshot
<1>2. \A x : calculateTransferFeeIncludedAmount(NoFee, x) = x
  BY DEF calculateTransferFeeIncludedAmount, SdkIncludedAmount, NoFee
<1>3. \A k \in Token : /\ Included(Snapshot, max)[k] = max[k]
                       /\ Included(Snapshot, est)[k] = est[k]
  BY <1>1, <1>2 DEF Included
<1>4. ~ \E k \in Token : Included(Snapshot, max)[k] = Err \/ Included(Snapshot, est)[k] = Err
  BY <1>3 DEF Err
<1>5. q = [ok |-> TRUE, liquidityAmount |-> L, tokenMax |-> Included(Snapshot, max),
           tokenEst |-> Included(Snapshot, est)]
  BY <1>4 DEF IncreaseQuote
<1>6. Included(Snapshot, max) \in [Token -> Nat] /\ Included(Snapshot, est) \in [Token -> Nat]
  <2>1. \A k \in Token : /\ Included(Snapshot, max)[k] \in Nat
                         /\ Included(Snapshot, est)[k] \in Nat
    BY <1>3
  <2> QED BY <2>1 DEF Included
<1> QED BY <1>3, <1>5, <1>6 DEF IncreaseQuoteType

\* Nor has that of a decrease others.
LEMMA PlainDecrease ==
    ASSUME NEW L \in Nat, NEW min, NEW est, \A k \in Token : min[k] \in Nat /\ est[k] \in Nat,
           NEW q, q = DecreaseQuote(Snapshot, L, min, est)
    PROVE  /\ q \in DecreaseQuoteType
           /\ q.liquidityAmount = L
           /\ \A k \in Token : q.tokenMin[k] = min[k]
<1>1. \A k \in Token : Snapshot.fee[k] = NoFee
  BY DEF Snapshot
<1>2. \A k \in Token : /\ Excluded(Snapshot, min)[k] = min[k]
                       /\ Excluded(Snapshot, est)[k] = est[k]
  <2> SUFFICES ASSUME NEW k \in Token
               PROVE  /\ Excluded(Snapshot, min)[k] = min[k]
                      /\ Excluded(Snapshot, est)[k] = est[k]
    OBVIOUS
  <2>1. min[k] \in Int /\ est[k] \in Int
    OBVIOUS
  <2>2. /\ calculateTransferFeeExcludedAmount(NoFee, min[k]) = min[k]
        /\ calculateTransferFeeExcludedAmount(NoFee, est[k]) = est[k]
    BY <2>1, NothingWithheld
  <2> QED BY <1>1, <2>2 DEF Excluded
<1>3. Excluded(Snapshot, min) \in [Token -> Nat] /\ Excluded(Snapshot, est) \in [Token -> Nat]
  <2>1. \A k \in Token : /\ Excluded(Snapshot, min)[k] \in Nat
                         /\ Excluded(Snapshot, est)[k] \in Nat
    BY <1>2
  <2> QED BY <2>1 DEF Excluded
<1>4. q = [ok |-> TRUE, liquidityAmount |-> L, tokenMin |-> Excluded(Snapshot, min),
           tokenEst |-> Excluded(Snapshot, est)]
  BY DEF DecreaseQuote
<1> QED BY <1>2, <1>3, <1>4 DEF DecreaseQuoteType

\* What liquidity takes of token a is at most x if the liquidity is that of x, rounded
\* down twice.
LEMMA WorthOfA ==
    ASSUME NEW x \in Nat, NEW lo \in Nat \ {0}, NEW up \in Nat \ {0}, lo < up,
           NEW L \in Nat, NEW y \in Nat, (up - lo) * y <= x * lo * up, Q64 * L <= y,
           NEW from \in Nat
    PROVE  TokenWorth("a", L, from, up, lo, TRUE) <= x
<1> DEFINE d == up - lo
           n == x * lo * up
<1>1. Q64 \in Nat \ {0} /\ n \in Nat /\ d \in Nat \ {0} /\ up * lo \in Nat \ {0}
  BY Widths, MulNat, MulPos
<1>2. d * y <= n
  OBVIOUS
<1>3. n = (up * lo) * x
  OBVIOUS
<1> HIDE DEF d, n
<1>4. d * (Q64 * L) <= d * y
  BY <1>1, MulMono, MulNat
<1>5. L * d * Q64 <= (up * lo) * x
  <2>1. L * d * Q64 = d * (Q64 * L)
    BY <1>1
  <2>2. d * (Q64 * L) \in Int /\ d * y \in Int
    BY <1>1
  <2> QED BY <1>1, <1>2, <1>3, <1>4, <2>1, <2>2
<1>6. L * d * Q64 \in Nat
  BY <1>1, MulNat
<1>7. CeilDiv(L * d * Q64, up * lo) <= x
  BY <1>1, <1>5, <1>6, CeilAtMost
<1>8. DivRoundUpIf(L * d * Q64, up * lo, TRUE) = CeilDiv(L * d * Q64, up * lo)
  BY <1>1, CeilIsDivRoundUp
<1> QED BY <1>7, <1>8 DEF TokenWorth, d

\* The liquidity that an amount of token a is enough for costs no more than it.
LEMMA LiquidityOfA ==
    ASSUME NEW x \in Nat, NEW lo \in Nat \ {0}, NEW up \in Nat \ {0}, lo < up,
           NEW from \in Nat
    PROVE  /\ getLiquidityFromTokenA(x, lo, up, FALSE) \in Nat
           /\ TokenWorth("a", getLiquidityFromTokenA(x, lo, up, FALSE), from, up, lo, TRUE) <= x
<1> DEFINE n == x * lo * up
           d == up - lo
           y == n \div d
           L == y \div Q64
<1>1. Q64 \in Nat \ {0} /\ n \in Nat /\ d \in Nat \ {0}
  BY Widths, MulNat
<1>2. y \in Nat /\ d * y <= n
  BY <1>1, DivType
<1>3. L \in Nat /\ Q64 * L <= y
  <2> HIDE DEF y
  <2> QED BY <1>1, <1>2, DivType
<1>4. getLiquidityFromTokenA(x, lo, up, FALSE) = L
  BY <1>1 DEF getLiquidityFromTokenA, DivRoundUpIf
<1> HIDE DEF y, L
<1>5. TokenWorth("a", L, from, up, lo, TRUE) <= x
  BY <1>2, <1>3, WorthOfA
<1> QED BY <1>3, <1>4, <1>5

\* The same of token b, where one rounding is enough.
LEMMA LiquidityOfB ==
    ASSUME NEW x \in Nat, NEW lo \in Nat \ {0}, NEW up \in Nat \ {0}, lo < up, NEW to \in Nat
    PROVE  /\ getLiquidityFromTokenB(x, lo, up, FALSE) \in Nat
           /\ TokenWorth("b", getLiquidityFromTokenB(x, lo, up, FALSE), lo, to, up, TRUE) <= x
<1> DEFINE d == up - lo
           n == x * Q64
           L == n \div d
<1>1. Q64 \in Nat \ {0} /\ n \in Nat /\ d \in Nat \ {0}
  BY Widths, MulNat
<1>2. L \in Nat /\ d * L <= n
  BY <1>1, DivType
<1>3. getLiquidityFromTokenB(x, lo, up, FALSE) = L
  BY <1>1 DEF getLiquidityFromTokenB, DivRoundUpIf
<1> HIDE DEF L, d
<1>4. L * d <= Q64 * x /\ L * d \in Nat
  <2>1. L * d = d * L /\ Q64 * x = n
    BY <1>1, <1>2
  <2> QED BY <1>1, <1>2, <2>1, MulNat
<1>5. CeilDiv(L * d, Q64) <= x
  BY <1>1, <1>4, CeilAtMost
<1>6. DivRoundUpIf(L * d, Q64, TRUE) = CeilDiv(L * d, Q64)
  BY <1>1, CeilIsDivRoundUp
<1>7. TokenWorth("b", L, lo, to, up, TRUE) <= x
  BY <1>5, <1>6 DEF TokenWorth, d
<1> QED BY <1>2, <1>3, <1>7

\* The liquidity of a deposit takes no more of the token than was to be deposited.
LEMMA DepositCovers ==
    ASSUME NEW token \in Token, NEW x \in Nat, NEW P \in SqrtPriceRange,
           NEW lower \in TickIndex, NEW upper \in TickIndex, lower < upper
    PROVE  /\ LiquidityOfToken(token, x, P, lower, upper) \in Nat
           /\ Costs(token, LiquidityOfToken(token, x, P, lower, upper), lower, upper, P) <= x
<1> DEFINE L == LiquidityOfToken(token, x, P, lower, upper)
           lo == SqrtPrice[lower]
           up == SqrtPrice[upper]
           c == Clamp(P, lo, up)
<1>1. lo \in Nat \ {0} /\ up \in Nat \ {0} /\ lo < up /\ P \in Nat \ {0}
  BY PricesAreNumbers
<1>2. L = IF token = "a"
          THEN IF ~(P <= lo) /\ P >= up THEN 0
               ELSE getLiquidityFromTokenA(x, IF P <= lo THEN lo ELSE P, up, FALSE)
          ELSE IF P <= lo THEN 0
               ELSE getLiquidityFromTokenB(x, lo, IF P >= up THEN up ELSE P, FALSE)
  BY DEF LiquidityOfToken, getStrictPositionStatus
<1> HIDE DEF lo, up
<1>3. c = IF P <= lo THEN lo ELSE IF P >= up THEN up ELSE P
  BY <1>1 DEF Clamp
<1>4. c \in Nat \ {0} /\ lo <= c /\ c <= up
  BY <1>1, <1>3
<1> HIDE DEF c, L
<1> DEFINE Covered == L \in Nat /\ TokenWorth(token, L, lo, up, c, TRUE) <= x
<1>5. ASSUME L = 0 PROVE Covered
  <2>1. L \in Nat
    BY <1>5
  <2>2. \A r \in BOOLEAN : TokenWorth(token, L, lo, up, c, r) = 0
    BY <1>1, <1>4, <1>5, <2>1, WorthOfNothing
  <2>3. TokenWorth(token, L, lo, up, c, TRUE) = 0
    BY <2>2, Zenon
  <2>4. 0 <= x
    OBVIOUS
  <2>5. TokenWorth(token, L, lo, up, c, TRUE) <= x
    BY <2>3, <2>4, Zenon
  <2> QED BY <2>1, <2>5 DEF Covered
<1> HIDE DEF Covered
<1>6. ASSUME token = "a" PROVE Covered
  <2>1. CASE ~(P <= lo) /\ P >= up
    BY <1>2, <1>5, <1>6, <2>1
  <2>2. CASE ~(~(P <= lo) /\ P >= up)
    <3>1. c = IF P <= lo THEN lo ELSE P
      BY <1>3, <2>2
    <3>2. c < up
      BY <1>1, <2>2, <3>1
    <3>3. L = getLiquidityFromTokenA(x, c, up, FALSE)
      BY <1>2, <1>6, <2>2, <3>1
    <3>4. L \in Nat /\ TokenWorth("a", L, lo, up, c, TRUE) <= x
      BY <1>1, <1>4, <3>2, <3>3, LiquidityOfA
    <3> QED BY <1>6, <3>4 DEF Covered
  <2> QED BY <2>1, <2>2
<1>7. ASSUME token = "b" PROVE Covered
  <2>1. CASE P <= lo
    BY <1>2, <1>5, <1>7, <2>1
  <2>2. CASE ~(P <= lo)
    <3>1. c = IF P >= up THEN up ELSE P
      BY <1>3, <2>2
    <3>2. lo < c
      BY <1>1, <2>2, <3>1
    <3>3. L = getLiquidityFromTokenB(x, lo, c, FALSE)
      BY <1>2, <1>7, <2>2, <3>1
    <3>4. L \in Nat /\ TokenWorth("b", L, lo, up, c, TRUE) <= x
      BY <1>1, <1>4, <3>2, <3>3, LiquidityOfB
    <3> QED BY <1>7, <3>4 DEF Covered
  <2> QED BY <2>1, <2>2
<1> QED BY <1>6, <1>7 DEF Token, Covered, Costs, Worth, c, lo, up, L

\* The ends of a range that a position has are usable already.
LEMMA UsableStays ==
    ASSUME NEW t \in UsableTick
    PROVE  /\ getInitializableTickIndex(t) = t
           /\ checkTickInBounds(t)
           /\ t \in TickIndex
<1>1. t \in TickIndex /\ t \in Int /\ t % TickSpacing = 0 /\ TickSpacing \in Nat \ {0}
  BY PricesAreNumbers, TickAssumption DEF UsableTick
<1>2. JsRem(t, TickSpacing) = 0
  <2>1. CASE t >= 0
    BY <1>1, <2>1 DEF JsRem
  <2>2. CASE ~(t >= 0)
    <3>1. PICK m \in Int : t = TickSpacing * m
      BY UsableIsMultiple DEF IsMultiple
    <3> DEFINE x == -t
               q == x \div TickSpacing
    <3>2. x = TickSpacing * (-m) /\ -m \in Int /\ x \in Nat
      BY <1>1, <2>2, <3>1
    <3>3. q \in Int /\ x % TickSpacing \in 0 .. TickSpacing - 1
          /\ x = TickSpacing * q + (x % TickSpacing)
      BY <1>1, <3>2, DivMod
    <3> HIDE DEF x, q
    <3>4. TickSpacing * q <= TickSpacing * (-m)
      BY <1>1, <3>2, <3>3
    <3>5. TickSpacing * (-m) < TickSpacing * (q + 1)
      BY <1>1, <3>2, <3>3
    <3>6. -m = q
      BY <1>1, <3>2, <3>3, <3>4, <3>5, MulCancel, MulCancelLe
    <3>7. x % TickSpacing = 0
      BY <1>1, <3>2, <3>3, <3>6
    <3> QED BY <2>2, <3>7 DEF JsRem, x
  <2> QED BY <2>1, <2>2
<1>3. MIN_TICK_INDEX \in Int /\ MAX_TICK_INDEX \in Int
  BY MathAssumption
<1> QED BY <1>1, <1>2, <1>3 DEF getInitializableTickIndex, checkTickInBounds, TickIndex

----------------------------------------------------------------------------
(* The quotes of the liquidity instructions.                               *)

\* An allowance for slippage is on the safe side of the amount.
LEMMA SlippageWidens ==
    ASSUME NEW n \in Nat, NEW slippage \in Percentage
    PROVE  /\ adjustForSlippage(n, slippage, TRUE) \in Nat
           /\ n <= adjustForSlippage(n, slippage, TRUE)
           /\ adjustForSlippage(n, slippage, FALSE) \in Nat
           /\ adjustForSlippage(n, slippage, FALSE) <= n
<1> DEFINE m == slippage.numerator
           d == slippage.denominator
           e == d + m
           more == (n * e) \div d
           less == (n * d) \div e
<1>1. m \in Nat /\ d \in Nat \ {0}
  BY DEF Percentage
<1>2. /\ adjustForSlippage(n, slippage, TRUE) = more
      /\ adjustForSlippage(n, slippage, FALSE) = less
  BY DEF adjustForSlippage
<1> HIDE DEF m, d
<1>3. e \in Nat \ {0} /\ d <= e
  BY <1>1
<1> HIDE DEF e
<1>4. n * e \in Nat /\ n * d \in Nat /\ n * d <= n * e /\ d * n = n * d /\ e * n = n * e
  BY <1>1, <1>3, MulNat, MulMono
<1>5. more \in Nat /\ n <= more
  BY <1>1, <1>4, DivType, FloorAtLeast
<1>6. less \in Nat /\ e * less <= n * d
  BY <1>3, <1>4, DivType
<1> HIDE DEF less, more
<1>7. e * less <= e * n
  <2>1. e * less \in Int /\ n * d \in Int /\ n * e \in Int
    BY <1>3, <1>4, <1>6
  <2> QED BY <1>4, <1>6, <2>1
<1>8. less <= n
  BY <1>3, <1>6, <1>7, MulCancelLe
<1> QED BY <1>2, <1>5, <1>6, <1>8

\* The liquidity of a quote by a deposit: nothing is withheld from it.
LEMMA QuotedLiquidity ==
    ASSUME TypeOK, NEW token \in Token, NEW amount \in Nat, NEW lower, NEW upper
    PROVE  /\ calculateTransferFeeExcludedAmount(Snapshot.fee[token], amount) = amount
           /\ Snapshot.pool = pool
           /\ getLiquidityFromInputToken(Snapshot, token, amount, lower, upper) =
                  LiquidityOfToken(token, amount, pool.sqrt_price, lower, upper)
<1>1. Snapshot.fee[token] = NoFee /\ Snapshot.pool = pool
  BY DEF Snapshot
<1>2. calculateTransferFeeExcludedAmount(Snapshot.fee[token], amount) = amount
  BY <1>1, NothingWithheld
<1> QED BY <1>1, <1>2 DEF getLiquidityFromInputToken

\* What an increase by a deposit must be: the limits are enough at the price it was made
\* for, and the deposit for the estimate.
GoodIncrease(q, token, amount, lower, upper) ==
    /\ q \in IncreaseQuoteType
    /\ q.tokenEst[token] <= amount
    /\ Enough(q, lower, upper, pool.sqrt_price)

\* A quote that is made of some liquidity's worth and of limits that are no less.
LEMMA IncreaseOfLiquidity ==
    ASSUME NEW token \in Token, NEW amount \in Nat, NEW lower, NEW upper, NEW L \in Nat,
           Costs(token, L, lower, upper, pool.sqrt_price) <= amount,
           NEW max, NEW est,
           \A k \in Token : /\ est[k] = Costs(k, L, lower, upper, pool.sqrt_price)
                            /\ est[k] \in Nat /\ max[k] \in Nat /\ est[k] <= max[k]
    PROVE  /\ GoodIncrease(IncreaseQuote(Snapshot, L, max, est), token, amount, lower, upper)
           /\ IncreaseQuote(Snapshot, L, max, est).liquidityAmount = L
           /\ \A k \in Token : IncreaseQuote(Snapshot, L, max, est).tokenMax[k] = max[k]
<1> DEFINE q == IncreaseQuote(Snapshot, L, max, est)
<1>0. \A k \in Token : max[k] \in Nat /\ est[k] \in Nat
  OBVIOUS
<1>1. /\ q \in IncreaseQuoteType
      /\ q.liquidityAmount = L
      /\ \A k \in Token : q.tokenMax[k] = max[k] /\ q.tokenEst[k] = est[k]
  BY <1>0, PlainIncrease
<1> HIDE DEF q
<1>2. q.tokenEst[token] <= amount
  BY <1>1
<1>3. \A k \in Token : Costs(k, L, lower, upper, pool.sqrt_price) <= q.tokenMax[k]
  BY <1>1
<1>4. GoodIncrease(q, token, amount, lower, upper)
  BY <1>1, <1>2, <1>3 DEF GoodIncrease, Enough
<1> QED BY <1>1, <1>4 DEF q

\* The quote that reckons with a slippage of the price is enough wherever that takes it.
LEMMA IncreaseByPrice ==
    ASSUME TypeOK, NEW token \in Token, NEW amount \in Nat,
           NEW lower \in UsableTick, NEW upper \in UsableTick, lower < upper,
           NEW slippage \in Percentage, NEW q,
           q = increaseLiquidityQuoteByInputTokenUsingPriceSlippage(Snapshot, token, amount,
                   lower, upper, slippage)
    PROVE  /\ GoodIncrease(q, token, amount, lower, upper)
           /\ \A s \in SqrtPriceRange :
                  Near(pool.sqrt_price, s, slippage) => Enough(q, lower, upper, s)
<1> DEFINE P == pool.sqrt_price
           L == LiquidityOfToken(token, amount, P, lower, upper)
           at(p) == SdkCosts(L, p, lower, upper)
           b == getSlippageBoundForSqrtPrice(P, slippage)
           max == MostOf(at(P), at(b[1]), at(b[2]))
<1>1. /\ lower \in TickIndex /\ upper \in TickIndex
      /\ getInitializableTickIndex(lower) = lower /\ getInitializableTickIndex(upper) = upper
      /\ checkTickInBounds(lower) /\ checkTickInBounds(upper)
      /\ lower \in Int /\ upper \in Int
  BY UsableStays, PricesAreNumbers
<1>2. P \in SqrtPriceRange
  BY DEF TypeOK, PoolType
<1>3. L \in Nat /\ Costs(token, L, lower, upper, P) <= amount
  BY <1>1, <1>2, DepositCovers
<1>4. q = IF L = 0 THEN IncreaseQuote(Snapshot, 0, ZeroTokens, ZeroTokens)
          ELSE IncreaseQuote(Snapshot, L, max, at(P))
  <2>1. ~(~RangeInBounds(lower, upper) \/ lower >= upper)
    BY <1>1 DEF RangeInBounds
  <2>2. q = increaseLiquidityQuoteByLiquidityWithParams(Snapshot, L, lower, upper, slippage)
    BY <1>1, <2>1, QuotedLiquidity
       DEF increaseLiquidityQuoteByInputTokenUsingPriceSlippage,
           increaseLiquidityQuoteByInputTokenWithParamsUsingPriceSlippage
  <2>3. Snapshot.pool.sqrt_price = P
    BY QuotedLiquidity, 0 \in Nat
  <2> QED BY <2>2, <2>3 DEF increaseLiquidityQuoteByLiquidityWithParams, SdkCosts
<1>5. /\ b[1] \in SqrtPriceRange /\ b[2] \in SqrtPriceRange
      /\ \A s \in SqrtPriceRange : Near(P, s, slippage) => b[1] <= s /\ s <= b[2]
  BY <1>2, SlippageBounds
<1> DEFINE W(k, s) == Costs(k, L, lower, upper, s)
           Good == /\ GoodIncrease(q, token, amount, lower, upper)
                   /\ \A s \in SqrtPriceRange :
                          Near(P, s, slippage) => Enough(q, lower, upper, s)
<1> HIDE DEF P, L, b
<1>6. ASSUME L # 0 PROVE Good
  <2>1. q = IncreaseQuote(Snapshot, L, max, at(P))
    BY <1>4, <1>6
  <2>2. \A k \in Token : at(P)[k] = W(k, P) /\ W(k, P) \in Nat
    BY <1>1, <1>2, <1>3, SdkWorth
  <2>3. \A s \in SqrtPriceRange : s = P \/ Near(P, s, slippage) =>
            \A k \in Token : W(k, s) <= max[k] /\ max[k] \in Nat
    BY <1>1, <1>2, <1>3, <1>5, QuotedBetween
  <2> DEFINE est == at(P)
  <2>4. q = IncreaseQuote(Snapshot, L, max, est)
    BY <2>1
  <2>5. \A k \in Token : /\ est[k] = Costs(k, L, lower, upper, pool.sqrt_price)
                         /\ est[k] \in Nat /\ max[k] \in Nat /\ est[k] <= max[k]
    BY <1>2, <2>2, <2>3 DEF P
  <2>6. Costs(token, L, lower, upper, pool.sqrt_price) <= amount
    BY <1>3 DEF P
  <2> HIDE DEF max, est
  <2>7. /\ GoodIncrease(IncreaseQuote(Snapshot, L, max, est), token, amount, lower, upper)
        /\ IncreaseQuote(Snapshot, L, max, est).liquidityAmount = L
        /\ \A k \in Token : IncreaseQuote(Snapshot, L, max, est).tokenMax[k] = max[k]
    BY <1>3, <2>5, <2>6, IncreaseOfLiquidity
  <2>8. /\ GoodIncrease(q, token, amount, lower, upper)
        /\ q.liquidityAmount = L
        /\ \A k \in Token : q.tokenMax[k] = max[k]
    BY <2>4, <2>7
  <2> QED BY <2>3, <2>8 DEF Enough
<1>7. ASSUME L = 0 PROVE Good
  <2> DEFINE zero == ZeroTokens
  <2>1. q = IncreaseQuote(Snapshot, L, zero, zero)
    <3>1. q = IncreaseQuote(Snapshot, 0, zero, zero)
      BY <1>4, <1>7
    <3> QED BY <1>7, <3>1
  <2>2. \A k \in Token, s \in SqrtPriceRange : W(k, s) = 0
    BY <1>1, <1>3, <1>7, NoLiquidityNoWorth
  <2>3. \A k \in Token : zero[k] = 0 /\ Costs(k, L, lower, upper, pool.sqrt_price) = 0
    BY <1>2, <2>2 DEF ZeroTokens, P
  <2>4. Costs(token, L, lower, upper, pool.sqrt_price) <= amount
    BY <1>3 DEF P
  <2> HIDE DEF zero
  <2>5. \A k \in Token : /\ zero[k] = Costs(k, L, lower, upper, pool.sqrt_price)
                         /\ zero[k] \in Nat /\ zero[k] \in Nat /\ zero[k] <= zero[k]
    BY <2>3
  <2>6. /\ GoodIncrease(IncreaseQuote(Snapshot, L, zero, zero), token, amount, lower, upper)
        /\ IncreaseQuote(Snapshot, L, zero, zero).liquidityAmount = L
        /\ \A k \in Token : IncreaseQuote(Snapshot, L, zero, zero).tokenMax[k] = zero[k]
    BY <1>3, <2>4, <2>5, IncreaseOfLiquidity
  <2>7. /\ GoodIncrease(q, token, amount, lower, upper)
        /\ q.liquidityAmount = L
        /\ \A k \in Token : q.tokenMax[k] = 0
    BY <2>1, <2>3, <2>6
  <2> QED BY <2>2, <2>7 DEF Enough
<1> QED BY <1>6, <1>7 DEF P

\* The deprecated quote, whose slippage is one of the tokens: the liquidity and the
\* estimates of its three cases are those of the other.
LEMMA DeprecatedCases ==
    ASSUME TypeOK, NEW token \in Token, NEW amount \in Nat,
           NEW lower \in TickIndex, NEW upper \in TickIndex, RangeInBounds(lower, upper),
           NEW slippage
    PROVE  LET L == LiquidityOfToken(token, amount, pool.sqrt_price, lower, upper)
               est == SdkCosts(L, pool.sqrt_price, lower, upper)
               q == increaseLiquidityQuoteByInputTokenWithParams(Snapshot, token, amount,
                        lower, upper, slippage)
           IN  \/ L = 0 /\ q = IncreaseQuote(Snapshot, L, ZeroTokens, ZeroTokens)
               \/ q = IncreaseQuote(Snapshot, L,
                         [k \in Token |-> adjustForSlippage(est[k], slippage, TRUE)], est)
<1> DEFINE P == pool.sqrt_price
           status == getStrictPositionStatus(P, lower, upper)
           L == LiquidityOfToken(token, amount, P, lower, upper)
           est == SdkCosts(L, P, lower, upper)
           max == [k \in Token |-> adjustForSlippage(est[k], slippage, TRUE)]
           q == increaseLiquidityQuoteByInputTokenWithParams(Snapshot, token, amount,
                    lower, upper, slippage)
           Case == \/ L = 0 /\ q = IncreaseQuote(Snapshot, L, ZeroTokens, ZeroTokens)
                   \/ q = IncreaseQuote(Snapshot, L, max, est)
<1>1. status \in {"BelowRange", "InRange", "AboveRange"}
  BY DEF getStrictPositionStatus
<1>2. calculateTransferFeeExcludedAmount(Snapshot.fee[token], amount) = amount
  BY QuotedLiquidity
<1>3. Snapshot.pool.sqrt_price = P
  BY QuotedLiquidity
<1>4. L = IF token = "a"
          THEN IF status = "AboveRange" THEN 0
               ELSE getLiquidityFromTokenA(amount,
                       IF status = "InRange" THEN P ELSE SqrtPrice[lower],
                       SqrtPrice[upper], FALSE)
          ELSE IF status = "BelowRange" THEN 0
               ELSE getLiquidityFromTokenB(amount, SqrtPrice[lower],
                       IF status = "InRange" THEN P ELSE SqrtPrice[upper], FALSE)
  BY DEF LiquidityOfToken
<1>5. est = [k \in Token |->
            IF k = "a"
            THEN IF status = "AboveRange" THEN 0
                 ELSE getTokenAFromLiquidity(L,
                         IF status = "BelowRange" THEN SqrtPrice[lower]
                         ELSE IF status = "AboveRange" THEN SqrtPrice[upper] ELSE P,
                         SqrtPrice[upper], TRUE)
            ELSE IF status = "BelowRange" THEN 0
                 ELSE getTokenBFromLiquidity(L, SqrtPrice[lower],
                         IF status = "BelowRange" THEN SqrtPrice[lower]
                         ELSE IF status = "AboveRange" THEN SqrtPrice[upper] ELSE P, TRUE)]
  BY DEF SdkCosts, getTokenEstimatesFromLiquidity
<1>6. q = CASE status = "BelowRange" ->
                    quotePositionBelowRange(Snapshot, token, amount, lower, upper, slippage)
            [] status = "InRange" ->
                    quotePositionInRange(Snapshot, token, amount, lower, upper, slippage)
            [] status = "AboveRange" ->
                    quotePositionAboveRange(Snapshot, token, amount, lower, upper, slippage)
  BY <1>3 DEF increaseLiquidityQuoteByInputTokenWithParams
<1> HIDE DEF status, L, est, q
<1>7. ASSUME status = "BelowRange" PROVE Case
  <2>1. q = quotePositionBelowRange(Snapshot, token, amount, lower, upper, slippage)
    BY <1>6, <1>7
  <2>2. CASE token = "b"
    BY <1>4, <1>7, <2>1, <2>2 DEF quotePositionBelowRange
  <2>3. CASE token = "a"
    <3>1. L = getLiquidityFromTokenA(amount, SqrtPrice[lower], SqrtPrice[upper], FALSE)
      BY <1>4, <1>7, <2>3
    <3> DEFINE arrives == calculateTransferFeeExcludedAmount(Snapshot.fee["a"], amount)
               L0 == getLiquidityFromTokenA(arrives, SqrtPrice[lower], SqrtPrice[upper], FALSE)
               est0 == [ZeroTokens EXCEPT !["a"] =
                           getTokenAFromLiquidity(L0, SqrtPrice[lower], SqrtPrice[upper], TRUE)]
               max0 == [k \in Token |-> adjustForSlippage(est0[k], slippage, TRUE)]
    <3>2. q = IncreaseQuote(Snapshot, L0, max0, est0)
      BY <2>1, <2>3 DEF quotePositionBelowRange
    <3>3. L0 = L
      BY <1>2, <2>3, <3>1
    <3> HIDE DEF L0
    <3>4. est0 = est
      BY <1>5, <1>7, <3>3 DEF ZeroTokens, Token
    <3> HIDE DEF est0
    <3>5. max0 = max
      BY <3>4
    <3> QED BY <3>2, <3>3, <3>4, <3>5
  <2> QED BY <2>2, <2>3 DEF Token
<1>8. ASSUME status = "AboveRange" PROVE Case
  <2>1. q = quotePositionAboveRange(Snapshot, token, amount, lower, upper, slippage)
    BY <1>6, <1>8
  <2>2. CASE token = "a"
    BY <1>4, <1>8, <2>1, <2>2 DEF quotePositionAboveRange
  <2>3. CASE token = "b"
    <3>1. L = getLiquidityFromTokenB(amount, SqrtPrice[lower], SqrtPrice[upper], FALSE)
      BY <1>4, <1>8, <2>3
    <3> DEFINE arrives == calculateTransferFeeExcludedAmount(Snapshot.fee["b"], amount)
               L0 == getLiquidityFromTokenB(arrives, SqrtPrice[lower], SqrtPrice[upper], FALSE)
               est0 == [ZeroTokens EXCEPT !["b"] =
                           getTokenBFromLiquidity(L0, SqrtPrice[lower], SqrtPrice[upper], TRUE)]
               max0 == [k \in Token |-> adjustForSlippage(est0[k], slippage, TRUE)]
    <3>2. q = IncreaseQuote(Snapshot, L0, max0, est0)
      BY <2>1, <2>3 DEF quotePositionAboveRange
    <3>3. L0 = L
      BY <1>2, <2>3, <3>1
    <3> HIDE DEF L0
    <3>4. est0 = est
      BY <1>5, <1>8, <3>3 DEF ZeroTokens, Token
    <3> HIDE DEF est0
    <3>5. max0 = max
      BY <3>4
    <3> QED BY <3>2, <3>3, <3>4, <3>5
  <2> QED BY <2>2, <2>3 DEF Token
<1>9. ASSUME status = "InRange" PROVE Case
  <2>1. q = quotePositionInRange(Snapshot, token, amount, lower, upper, slippage)
    BY <1>6, <1>9
  <2>2. L = IF token = "a" THEN getLiquidityFromTokenA(amount, P, SqrtPrice[upper], FALSE)
            ELSE getLiquidityFromTokenB(amount, SqrtPrice[lower], P, FALSE)
    BY <1>4, <1>9
  <2>3. est = [k \in Token |->
                  IF k = "a" THEN getTokenAFromLiquidity(L, P, SqrtPrice[upper], TRUE)
                  ELSE getTokenBFromLiquidity(L, SqrtPrice[lower], P, TRUE)]
    BY <1>5, <1>9
  <2> QED BY <1>2, <1>3, <2>1, <2>2, <2>3 DEF quotePositionInRange
<1> QED BY <1>1, <1>7, <1>8, <1>9 DEF L, est, q

\* It is enough at the price it was made for.
LEMMA IncreaseByTokens ==
    ASSUME TypeOK, NEW token \in Token, NEW amount \in Nat,
           NEW lower \in UsableTick, NEW upper \in UsableTick, lower < upper,
           NEW slippage \in Percentage, NEW q,
           q = increaseLiquidityQuoteByInputToken(Snapshot, token, amount, lower, upper, slippage)
    PROVE  GoodIncrease(q, token, amount, lower, upper)
<1> DEFINE P == pool.sqrt_price
           L == LiquidityOfToken(token, amount, P, lower, upper)
           est == SdkCosts(L, P, lower, upper)
           max == [k \in Token |-> adjustForSlippage(est[k], slippage, TRUE)]
<1>1. /\ lower \in TickIndex /\ upper \in TickIndex
      /\ getInitializableTickIndex(lower) = lower /\ getInitializableTickIndex(upper) = upper
      /\ RangeInBounds(lower, upper)
  BY UsableStays DEF RangeInBounds
<1>2. P \in SqrtPriceRange
  BY DEF TypeOK, PoolType
<1>3. L \in Nat /\ Costs(token, L, lower, upper, P) <= amount
  BY <1>1, <1>2, DepositCovers
<1>4. \/ L = 0 /\ q = IncreaseQuote(Snapshot, L, ZeroTokens, ZeroTokens)
      \/ q = IncreaseQuote(Snapshot, L, max, est)
  <2>1. q = increaseLiquidityQuoteByInputTokenWithParams(Snapshot, token, amount,
                lower, upper, slippage)
    BY <1>1 DEF increaseLiquidityQuoteByInputToken
  <2> QED BY <1>1, <2>1, DeprecatedCases, ZenonT(60)
<1>5. P = pool.sqrt_price
  OBVIOUS
<1> HIDE DEF L, P
<1>6. ASSUME NEW k \in Token PROVE est[k] = Costs(k, L, lower, upper, P) /\ est[k] \in Nat
  <2>1. L \in Nat /\ lower \in TickIndex /\ upper \in TickIndex /\ lower < upper
    BY <1>1, <1>3
  <2>2. est[k] = Costs(k, L, lower, upper, P)
    BY ONLY <1>2, <2>1, k \in Token, SdkWorth
  <2>3. Costs(k, L, lower, upper, P) \in Nat
    BY ONLY <1>2, <2>1, k \in Token, SdkWorth
  <2> QED BY <2>2, <2>3
<1> HIDE DEF est
<1>7. \A k \in Token : max[k] \in Nat /\ est[k] <= max[k]
  BY <1>6, SlippageWidens
<1> HIDE DEF max
<1>8. Costs(token, L, lower, upper, pool.sqrt_price) <= amount
  BY <1>3, <1>5
<1>9. \A k \in Token : /\ est[k] = Costs(k, L, lower, upper, pool.sqrt_price)
                       /\ est[k] \in Nat /\ max[k] \in Nat /\ est[k] <= max[k]
  BY <1>5, <1>6, <1>7
<1>10. GoodIncrease(IncreaseQuote(Snapshot, L, max, est), token, amount, lower, upper)
  BY <1>3, <1>8, <1>9, IncreaseOfLiquidity
<1>11. ASSUME L = 0
       PROVE  GoodIncrease(IncreaseQuote(Snapshot, L, ZeroTokens, ZeroTokens),
                           token, amount, lower, upper)
  <2> DEFINE zero == ZeroTokens
  <2>1. \A k \in Token : zero[k] = 0 /\ Costs(k, L, lower, upper, pool.sqrt_price) = 0
    BY <1>1, <1>2, <1>3, <1>5, <1>11, NoLiquidityNoWorth DEF ZeroTokens
  <2> HIDE DEF zero
  <2>2. \A k \in Token : /\ zero[k] = Costs(k, L, lower, upper, pool.sqrt_price)
                         /\ zero[k] \in Nat /\ zero[k] \in Nat /\ zero[k] <= zero[k]
    BY <2>1
  <2>3. GoodIncrease(IncreaseQuote(Snapshot, L, zero, zero), token, amount, lower, upper)
    BY <1>3, <1>8, <2>2, IncreaseOfLiquidity
  <2> QED BY <2>3 DEF zero
<1> QED BY <1>4, <1>10, <1>11

\* What a decrease must be: no more is asked for than the liquidity will pay.
GoodDecrease(q, lower, upper) ==
    /\ q \in DecreaseQuoteType
    /\ NotTooMuch(q, lower, upper, pool.sqrt_price)

\* A quote that is made of limits that are no more than that.
LEMMA DecreaseOfLiquidity ==
    ASSUME NEW lower, NEW upper, NEW L \in Nat, NEW min, NEW est,
           \A k \in Token : /\ est[k] \in Nat /\ min[k] \in Nat
                            /\ min[k] <= Yields(k, L, lower, upper, pool.sqrt_price)
    PROVE  /\ GoodDecrease(DecreaseQuote(Snapshot, L, min, est), lower, upper)
           /\ DecreaseQuote(Snapshot, L, min, est).liquidityAmount = L
           /\ \A k \in Token : DecreaseQuote(Snapshot, L, min, est).tokenMin[k] = min[k]
<1> DEFINE q == DecreaseQuote(Snapshot, L, min, est)
<1>1. \A k \in Token : min[k] \in Nat /\ est[k] \in Nat
  OBVIOUS
<1>2. /\ q \in DecreaseQuoteType
      /\ q.liquidityAmount = L
      /\ \A k \in Token : q.tokenMin[k] = min[k]
  BY <1>1, PlainDecrease
<1> HIDE DEF q
<1>3. GoodDecrease(q, lower, upper)
  BY <1>2 DEF GoodDecrease, NotTooMuch
<1> QED BY <1>2, <1>3 DEF q

\* A quote for no liquidity asks for nothing.
LEMMA DecreaseOfNothing ==
    ASSUME NEW lower \in TickIndex, NEW upper \in TickIndex, lower < upper, TypeOK,
           NEW q, q = DecreaseQuote(Snapshot, 0, ZeroTokens, ZeroTokens)
    PROVE  /\ GoodDecrease(q, lower, upper)
           /\ \A s \in SqrtPriceRange : NotTooMuch(q, lower, upper, s)
<1> DEFINE zero == ZeroTokens
<1>1. PICK L \in Nat : L = 0
  OBVIOUS
<1>2. \A k \in Token, s \in SqrtPriceRange : Yields(k, L, lower, upper, s) = 0
  BY <1>1, NoLiquidityNoWorth
<1>3. \A k \in Token : zero[k] = 0
  BY DEF ZeroTokens
<1>4. pool.sqrt_price \in SqrtPriceRange
  BY DEF TypeOK, PoolType
<1> HIDE DEF zero
<1>5. \A k \in Token : /\ zero[k] \in Nat /\ zero[k] \in Nat
                       /\ zero[k] <= Yields(k, L, lower, upper, pool.sqrt_price)
  BY <1>2, <1>3, <1>4
<1>6. /\ GoodDecrease(DecreaseQuote(Snapshot, L, zero, zero), lower, upper)
      /\ DecreaseQuote(Snapshot, L, zero, zero).liquidityAmount = L
      /\ \A k \in Token : DecreaseQuote(Snapshot, L, zero, zero).tokenMin[k] = zero[k]
  BY <1>5, DecreaseOfLiquidity
<1>7. q = DecreaseQuote(Snapshot, L, zero, zero)
  BY <1>1 DEF zero
<1>8. /\ GoodDecrease(q, lower, upper)
      /\ q.liquidityAmount = L
      /\ \A k \in Token : q.tokenMin[k] = 0
  BY <1>3, <1>6, <1>7
<1> QED BY <1>2, <1>8 DEF NotTooMuch

\* With a slippage of the price it asks for no more than it will pay wherever that
\* takes it.
LEMMA DecreaseByPrice ==
    ASSUME TypeOK, NEW L \in Nat,
           NEW lower \in TickIndex, NEW upper \in TickIndex, lower < upper,
           NEW slippage \in Percentage, NEW q,
           q = decreaseLiquidityQuoteByLiquidityWithParamsUsingPriceSlippage(Snapshot, L,
                   lower, upper, slippage)
    PROVE  /\ GoodDecrease(q, lower, upper)
           /\ \A s \in SqrtPriceRange :
                  Near(pool.sqrt_price, s, slippage) => NotTooMuch(q, lower, upper, s)
<1> DEFINE P == pool.sqrt_price
           at(p) == SdkYields(L, p, lower, upper)
           b == getSlippageBoundForSqrtPrice(P, slippage)
           min == LeastOf(at(P), at(b[1]), at(b[2]))
           est == at(P)
<1>1. P \in SqrtPriceRange
  BY DEF TypeOK, PoolType
<1>2. q = IF L = 0 THEN DecreaseQuote(Snapshot, 0, ZeroTokens, ZeroTokens)
          ELSE DecreaseQuote(Snapshot, L, min, est)
  <2>1. Snapshot.pool.sqrt_price = P
    BY DEF Snapshot
  <2> QED BY <2>1 DEF decreaseLiquidityQuoteByLiquidityWithParamsUsingPriceSlippage, SdkYields
<1>3. CASE L = 0
  BY <1>2, <1>3, DecreaseOfNothing
<1>4. CASE L # 0
  <2>1. q = DecreaseQuote(Snapshot, L, min, est)
    BY <1>2, <1>4
  <2>2. /\ b[1] \in SqrtPriceRange /\ b[2] \in SqrtPriceRange
        /\ \A s \in SqrtPriceRange : Near(P, s, slippage) => b[1] <= s /\ s <= b[2]
    BY <1>1, SlippageBounds
  <2>3. P = pool.sqrt_price
    OBVIOUS
  <2> HIDE DEF P, b
  <2>4. \A s \in SqrtPriceRange : s = P \/ Near(P, s, slippage) =>
            \A k \in Token : min[k] <= Yields(k, L, lower, upper, s) /\ min[k] \in Nat
    BY <1>1, <2>2, QuotedBetween
  <2>5. \A k \in Token : est[k] \in Nat
    BY <1>1, SdkWorth
  <2> HIDE DEF min, est, at
  <2>6. \A k \in Token : /\ est[k] \in Nat /\ min[k] \in Nat
                         /\ min[k] <= Yields(k, L, lower, upper, pool.sqrt_price)
    BY <1>1, <2>3, <2>4, <2>5
  <2>7. /\ GoodDecrease(DecreaseQuote(Snapshot, L, min, est), lower, upper)
        /\ DecreaseQuote(Snapshot, L, min, est).liquidityAmount = L
        /\ \A k \in Token : DecreaseQuote(Snapshot, L, min, est).tokenMin[k] = min[k]
    <3>1. L \in Nat
      OBVIOUS
    <3>2. \A k \in Token : min[k] \in Nat /\ est[k] \in Nat
      BY ONLY <2>6
    <3>3. GoodDecrease(DecreaseQuote(Snapshot, L, min, est), lower, upper)
      BY ONLY <2>6, <3>1, DecreaseOfLiquidity
    <3>4. /\ DecreaseQuote(Snapshot, L, min, est).liquidityAmount = L
          /\ \A k \in Token : DecreaseQuote(Snapshot, L, min, est).tokenMin[k] = min[k]
      BY ONLY <3>1, <3>2, PlainDecrease
    <3> QED BY <3>3, <3>4
  <2>8. /\ GoodDecrease(q, lower, upper)
        /\ q.liquidityAmount = L
        /\ \A k \in Token : q.tokenMin[k] = min[k]
    BY <2>1, <2>7
  <2> QED BY <2>3, <2>4, <2>8 DEF NotTooMuch
<1> QED BY <1>3, <1>4

\* With a slippage of the tokens it asks for no more than it pays at the price it was
\* made for.
LEMMA DecreaseByTokens ==
    ASSUME TypeOK, NEW L \in Nat, NEW position,
           position.tick_lower_index \in TickIndex, position.tick_upper_index \in TickIndex,
           position.tick_lower_index < position.tick_upper_index,
           NEW slippage \in Percentage, NEW q,
           q = decreaseLiquidityQuoteByLiquidity(Snapshot, L, position, slippage), q.ok
    PROVE  GoodDecrease(q, position.tick_lower_index, position.tick_upper_index)
<1> DEFINE P == pool.sqrt_price
           lower == position.tick_lower_index
           upper == position.tick_upper_index
           est == SdkYields(L, P, lower, upper)
           min == [k \in Token |-> adjustForSlippage(est[k], slippage, FALSE)]
<1>1. P \in SqrtPriceRange
  BY DEF TypeOK, PoolType
<1>2. \/ L = 0 /\ q = DecreaseQuote(Snapshot, 0, ZeroTokens, ZeroTokens)
      \/ q = DecreaseQuote(Snapshot, L, min, est)
  <2>1. Snapshot.pool.sqrt_price = P
    BY DEF Snapshot
  <2>2. q # NoQuote
    BY DEF NoQuote
  <2> QED BY <2>1, <2>2 DEF decreaseLiquidityQuoteByLiquidity,
                            decreaseLiquidityQuoteByLiquidityWithParams, SdkYields
<1>3. P = pool.sqrt_price
  OBVIOUS
<1> HIDE DEF P, lower, upper
<1>4. lower \in TickIndex /\ upper \in TickIndex /\ lower < upper
  BY DEF lower, upper
<1>5. \A k \in Token : est[k] = Yields(k, L, lower, upper, P) /\ est[k] \in Nat
  BY <1>1, <1>4, SdkWorth
<1> HIDE DEF est
<1>6. \A k \in Token : min[k] \in Nat /\ min[k] <= est[k]
  BY <1>5, SlippageWidens
<1> HIDE DEF min
<1>7. \A k \in Token : /\ est[k] \in Nat /\ min[k] \in Nat
                       /\ min[k] <= Yields(k, L, lower, upper, pool.sqrt_price)
  BY <1>3, <1>5, <1>6
<1>8. GoodDecrease(DecreaseQuote(Snapshot, L, min, est), lower, upper)
  BY <1>7, DecreaseOfLiquidity
<1>9. GoodDecrease(q, lower, upper)
  BY <1>2, <1>4, <1>8, DecreaseOfNothing
<1> QED BY <1>9 DEF lower, upper

----------------------------------------------------------------------------
(* The client.  QuoteInv keeps what a liquidity quote promises until it is *)
(* sent: the limits are enough at every price that it foresees, whatever   *)
(* the others have done meanwhile.                                         *)

\* A quote that was taken, of either kind.
IncreaseTaken ==
    [kind : {"increase"}, fresh : BOOLEAN, q : IncreaseQuoteType, position : Position,
     price : {NoPrice} \cup SqrtPriceRange, slippage : Percentage, deposit : Token \X Nat]
DecreaseTaken ==
    [kind : {"decrease"}, fresh : BOOLEAN, q : DecreaseQuoteType, position : Position,
     price : {NoPrice} \cup SqrtPriceRange, slippage : Percentage]

\* The prices at which a quote must hold: those within its slippage, and the one it was
\* made for while nothing has changed.
Foreseen(s) ==
    \/ quote.price # NoPrice /\ Near(quote.price, s, quote.slippage)
    \/ quote.fresh /\ s = pool.sqrt_price

\* Where it is for.
QuotedPosition == positions[quote.position]

\* What it promises: no more than the deposit, and limits that hold at every such price.
IncreaseKept ==
    /\ quote \in IncreaseTaken
    /\ QuotedPosition.open
    /\ quote.q.tokenEst[quote.deposit[1]] <= quote.deposit[2]
    /\ \A s \in SqrtPriceRange : Foreseen(s) =>
          Enough(quote.q, QuotedPosition.tick_lower_index, QuotedPosition.tick_upper_index, s)

DecreaseKept ==
    /\ quote \in DecreaseTaken
    /\ QuotedPosition.open
    /\ \A s \in SqrtPriceRange : Foreseen(s) =>
          NotTooMuch(quote.q, QuotedPosition.tick_lower_index, QuotedPosition.tick_upper_index, s)

\* A quote that was not sent yet keeps its promise.
QuoteInv ==
    /\ "kind" \in DOMAIN quote
    /\ quote.kind = "increase" => IncreaseKept
    /\ quote.kind = "decrease" => DecreaseKept

\* The ends of a position stay where they are as long as it is open.
LEMMA PositionStays ==
    ASSUME TypeOK, [Next]_vars, NEW p \in Position, positions[p].open, positions'[p].open
    PROVE  /\ positions'[p].tick_lower_index = positions[p].tick_lower_index
           /\ positions'[p].tick_upper_index = positions[p].tick_upper_index
<1> DEFINE Stays == /\ positions'[p].tick_lower_index = positions[p].tick_lower_index
                    /\ positions'[p].tick_upper_index = positions[p].tick_upper_index
<1>0. positions \in [Position -> PositionType]
  BY DEF TypeOK
<1>1. ASSUME UNCHANGED positions PROVE Stays
  BY <1>1
<1>2. ASSUME NEW q \in Position, NEW next, positions' = [positions EXCEPT ![q] = next],
             q = p => /\ next.tick_lower_index = positions[p].tick_lower_index
                      /\ next.tick_upper_index = positions[p].tick_upper_index
      PROVE  Stays
  BY <1>0, <1>2
<1> HIDE DEF Stays
<1>3. ASSUME NEW q \in Position, PositionInstruction(q) PROVE Stays
  <2>1. ASSUME NEW lower, NEW upper, OpenPosition(q, lower, upper) PROVE Stays
    <3>1. q # p
      BY <2>1 DEF OpenPosition
    <3> QED BY <1>2, <2>1, <3>1 DEF OpenPosition
  <2>2. ASSUME ClosePosition(q) PROVE Stays
    <3>1. q # p
      BY <1>0, <2>2 DEF ClosePosition, ClosedPosition
    <3> QED BY <1>2, <2>2, <3>1 DEF ClosePosition
  <2>3. ASSUME NEW delta \in Int, CanModifyLiquidity(q, delta),
               positions' = [positions EXCEPT ![q] = UpdatedPosition(q, delta)]
        PROVE  Stays
    <3>1. /\ UpdatedPosition(q, delta).tick_lower_index = positions[q].tick_lower_index
          /\ UpdatedPosition(q, delta).tick_upper_index = positions[q].tick_upper_index
      BY <2>3, UpdatedPositionPlace
    <3> QED BY <1>2, <2>3, <3>1
  <2>4. ASSUME NEW amount \in LiquidityAmounts, IncreaseLiquidity(q, amount) PROVE Stays
    <3>1. amount \in Int
      BY <2>4, WidthsAreNumbers DEF IncreaseLiquidity
    <3> QED BY <2>3, <2>4, <3>1 DEF IncreaseLiquidity, SyncModifyLiquidity
  <2>5. ASSUME NEW amount \in LiquidityAmounts, DecreaseLiquidity(q, amount) PROVE Stays
    <3> DEFINE delta == -amount
    <3>1. delta \in Int
      BY <2>5, WidthsAreNumbers DEF DecreaseLiquidity
    <3>2. /\ CanModifyLiquidity(q, delta)
          /\ positions' = [positions EXCEPT ![q] = UpdatedPosition(q, delta)]
      BY <2>5 DEF DecreaseLiquidity, SyncModifyLiquidity
    <3> HIDE DEF delta
    <3> QED BY <2>3, <3>1, <3>2
  <2>6. ASSUME UpdateFeesAndRewards(q) PROVE Stays
    BY <2>3, <2>6, 0 \in Int DEF UpdateFeesAndRewards
  <2>7. ASSUME CollectFees(q) PROVE Stays
    <3>1. positions' = [positions EXCEPT ![q] =
              [positions[q] EXCEPT !.fee_owed = [k \in Token |-> 0]]]
      BY <1>0, <2>7 DEF CollectFees
    <3> QED BY <1>0, <1>2, <3>1 DEF PositionType
  <2>8. ASSUME NEW r \in Reward, CollectReward(q, r) PROVE Stays
    <3>1. PICK amount : positions' = [positions EXCEPT ![q] =
              [positions[q] EXCEPT !.reward_owed[r] = positions[q].reward_owed[r] - amount]]
      BY <1>0, <2>8 DEF CollectReward
    <3> QED BY <1>0, <1>2, <3>1 DEF PositionType
  <2> QED BY <1>3, <2>1, <2>2, <2>4, <2>5, <2>6, <2>7, <2>8 DEF PositionInstruction
<1>4. ASSUME \/ RewardInstruction \/ PoolInstruction \/ AdvanceTime
             \/ \E a \in SwapArgs : SwapBegin(a)
             \/ Swapping \/ UNCHANGED vars
      PROVE  Stays
  <2>1. UNCHANGED positions
    BY <1>4 DEF RewardInstruction, InitializeReward, FundReward, SetRewardEmissions,
          PoolInstruction, InitializeTickArray, CollectProtocolFees, SetFeeRate,
          SetProtocolFeeRate, AdvanceTime, SwapBegin, Swapping, SwapStep, SwapCommit,
          SwapRevert, vars
  <2> QED BY <1>1, <2>1, SMTT(30)
<1> QED BY <1>3, <1>4 DEF Next, Stays

\* What the program asks for, and pays, is what the liquidity is worth, as a u64.
LEMMA WhatIsPaid ==
    ASSUME IInv, LedgerInv, NEW p \in Position, positions[p].open, NEW L \in Nat, NEW k \in Token
    PROVE  /\ LiquidityTokenDelta(k, positions[p], L, TRUE) =
                 Checked(U64, Costs(k, L, positions[p].tick_lower_index,
                                    positions[p].tick_upper_index, pool.sqrt_price))
           /\ LiquidityTokenDelta(k, positions[p], L, FALSE) =
                 Checked(U64, Yields(k, L, positions[p].tick_lower_index,
                                     positions[p].tick_upper_index, pool.sqrt_price))
<1> DEFINE pos == positions[p]
           Paid(r) == LiquidityTokenDelta(k, pos, L, r) =
                         Checked(U64, Worth(k, L, pos.tick_lower_index, pos.tick_upper_index,
                                            pool.sqrt_price, r))
<1>1. /\ TypeOK /\ PriceIsAt(pool.sqrt_price, pool.tick_current_index)
      /\ pos \in PositionType /\ pos.tick_lower_index < pos.tick_upper_index
  BY DEF IInv, PriceMatchesTick, TypeOK, LedgerInv, IsOrdered
<1> HIDE DEF pos
<1>2. \A r \in BOOLEAN : Paid(r)
  BY <1>1, ProgramEstimate DEF Worth
<1> HIDE DEF Paid
<1>3. Paid(TRUE) /\ Paid(FALSE)
  BY <1>2, Zenon
<1> QED BY <1>3, Zenon DEF Paid, pos, Costs, Yields

\* What an open position is quoted for.
LEMMA OpenPositionType ==
    ASSUME IInv, LedgerInv, NEW p \in Position, positions[p].open
    PROVE  /\ positions[p].tick_lower_index \in UsableTick
           /\ positions[p].tick_upper_index \in UsableTick
           /\ positions[p].tick_lower_index \in TickIndex
           /\ positions[p].tick_upper_index \in TickIndex
           /\ positions[p].tick_lower_index < positions[p].tick_upper_index
           /\ positions[p].liquidity \in Nat
           /\ pool.sqrt_price \in SqrtPriceRange
           /\ TypeOK
<1>1. positions[p] \in PositionType /\ TypeOK /\ pool.sqrt_price \in SqrtPriceRange
  BY DEF IInv, TypeOK, PoolType
<1>2. positions[p].tick_lower_index < positions[p].tick_upper_index
  BY DEF LedgerInv, IsOrdered
<1> QED BY <1>1, <1>2, UsableStays, WidthsAreNumbers DEF PositionType

\* An increase is quoted.
LEMMA IncreaseQuoted ==
    ASSUME IInv, LedgerInv, NEW p \in Position, NEW token \in Token,
           NEW amount \in DepositAmounts, NEW slippage \in Slippages,
           QuoteIncrease(p, token, amount, slippage)
    PROVE  QuoteInv' /\ UNCHANGED vars
<1> DEFINE pos == positions[p]
           lower == pos.tick_lower_index
           upper == pos.tick_upper_index
           byPrice == increaseLiquidityQuoteByInputTokenUsingPriceSlippage(Snapshot,
                          token, amount, lower, upper, slippage)
           byTokens == increaseLiquidityQuoteByInputToken(Snapshot,
                          token, amount, lower, upper, slippage)
           taken(q, price) == [kind |-> "increase", fresh |-> TRUE, q |-> q, position |-> p,
                               price |-> price, slippage |-> slippage,
                               deposit |-> <<token, amount>>]
           Holds(q, price) ==
              /\ GoodIncrease(q, token, amount, lower, upper)
              /\ price # NoPrice => \A s \in SqrtPriceRange :
                    Near(price, s, slippage) => Enough(q, lower, upper, s)
<1>1. pos.open
  BY DEF QuoteIncrease
<1>2. /\ lower \in UsableTick /\ upper \in UsableTick /\ lower < upper /\ TypeOK
      /\ pool.sqrt_price \in SqrtPriceRange
  BY <1>1, OpenPositionType
<1>3. amount \in Nat /\ slippage \in Percentage
  BY ClientAssumption, WidthsAreNumbers DEF Percentage
<1>4. Holds(byPrice, pool.sqrt_price)
  BY <1>2, <1>3, IncreaseByPrice
<1>5. Holds(byTokens, NoPrice)
  BY <1>2, <1>3, IncreaseByTokens
<1>6. /\ \/ quote' = taken(byPrice, pool.sqrt_price)
         \/ quote' = taken(byTokens, NoPrice)
      /\ UNCHANGED vars
  BY DEF QuoteIncrease, TakeQuote
<1> HIDE DEF byPrice, byTokens, Holds
<1>7. PICK q, price : /\ quote' = taken(q, price) /\ Holds(q, price)
                      /\ price \in {NoPrice} \cup SqrtPriceRange
  BY <1>2, <1>4, <1>5, <1>6
<1>8. pool' = pool /\ positions' = positions
  BY <1>6 DEF vars
<1>9. /\ q \in IncreaseQuoteType
      /\ q.tokenEst[token] <= amount
      /\ Enough(q, lower, upper, pool.sqrt_price)
      /\ price # NoPrice => \A s \in SqrtPriceRange :
            Near(price, s, slippage) => Enough(q, lower, upper, s)
  BY <1>7 DEF Holds, GoodIncrease
<1>10. /\ quote' \in IncreaseTaken
       /\ quote'.kind = "increase" /\ "kind" \in DOMAIN quote'
       /\ quote'.q = q /\ quote'.position = p /\ quote'.price = price
       /\ quote'.slippage = slippage
       /\ quote'.deposit[1] = token /\ quote'.deposit[2] = amount
  BY <1>3, <1>7, <1>9 DEF IncreaseTaken
<1>11. QuotedPosition' = pos
  BY <1>8, <1>10 DEF QuotedPosition
<1>12. \A s \in SqrtPriceRange : Foreseen(s)' => Enough(q, lower, upper, s)
  <2>1. \A s : Foreseen(s)' => \/ price # NoPrice /\ Near(price, s, slippage)
                              \/ s = pool.sqrt_price
    BY <1>8, <1>10 DEF Foreseen
  <2> QED BY <1>9, <2>1
<1> HIDE DEF pos
<1>13. IncreaseKept'
  BY <1>1, <1>9, <1>10, <1>11, <1>12 DEF IncreaseKept, pos
<1> QED BY <1>6, <1>10, <1>13 DEF QuoteInv

\* A decrease is.
LEMMA DecreaseQuoted ==
    ASSUME IInv, LedgerInv, NEW p \in Position, NEW slippage \in Slippages,
           QuoteDecrease(p, slippage)
    PROVE  QuoteInv' /\ UNCHANGED vars
<1> DEFINE pos == positions[p]
           L == pos.liquidity
           lower == pos.tick_lower_index
           upper == pos.tick_upper_index
           byPrice == decreaseLiquidityQuoteByLiquidityWithParamsUsingPriceSlippage(Snapshot,
                          L, lower, upper, slippage)
           byTokens == decreaseLiquidityQuoteByLiquidity(Snapshot, L, pos, slippage)
           taken(q, price) == [kind |-> "decrease", fresh |-> TRUE, q |-> q, position |-> p,
                               price |-> price, slippage |-> slippage]
           Holds(q, price) ==
              /\ GoodDecrease(q, lower, upper)
              /\ price # NoPrice => \A s \in SqrtPriceRange :
                    Near(price, s, slippage) => NotTooMuch(q, lower, upper, s)
<1>1. pos.open
  BY DEF QuoteDecrease
<1>2. /\ lower \in TickIndex /\ upper \in TickIndex /\ lower < upper /\ TypeOK
      /\ L \in Nat /\ pool.sqrt_price \in SqrtPriceRange
  BY <1>1, OpenPositionType
<1>3. slippage \in Percentage
  BY ClientAssumption DEF Percentage
<1>4. Holds(byPrice, pool.sqrt_price)
  BY <1>2, <1>3, DecreaseByPrice
<1>5. byTokens.ok => Holds(byTokens, NoPrice)
  BY <1>2, <1>3, DecreaseByTokens
<1>6. /\ \/ quote' = taken(byPrice, pool.sqrt_price)
         \/ quote' = taken(byTokens, NoPrice) /\ byTokens.ok
      /\ UNCHANGED vars
  BY DEF QuoteDecrease, TakeQuote
<1> HIDE DEF byPrice, byTokens, Holds
<1>7. PICK q, price : /\ quote' = taken(q, price) /\ Holds(q, price)
                      /\ price \in {NoPrice} \cup SqrtPriceRange
  BY <1>2, <1>4, <1>5, <1>6
<1>8. pool' = pool /\ positions' = positions
  BY <1>6 DEF vars
<1>9. /\ q \in DecreaseQuoteType
      /\ NotTooMuch(q, lower, upper, pool.sqrt_price)
      /\ price # NoPrice => \A s \in SqrtPriceRange :
            Near(price, s, slippage) => NotTooMuch(q, lower, upper, s)
  BY <1>7 DEF Holds, GoodDecrease
<1>10. /\ quote' \in DecreaseTaken
       /\ quote'.kind = "decrease" /\ "kind" \in DOMAIN quote'
       /\ quote'.q = q /\ quote'.position = p /\ quote'.price = price
       /\ quote'.slippage = slippage
  BY <1>3, <1>7, <1>9 DEF DecreaseTaken
<1>11. QuotedPosition' = pos
  BY <1>8, <1>10 DEF QuotedPosition
<1>12. \A s \in SqrtPriceRange : Foreseen(s)' => NotTooMuch(q, lower, upper, s)
  <2>1. \A s : Foreseen(s)' => \/ price # NoPrice /\ Near(price, s, slippage)
                              \/ s = pool.sqrt_price
    BY <1>8, <1>10 DEF Foreseen
  <2> QED BY <1>9, <2>1
<1> HIDE DEF pos
<1>13. DecreaseKept'
  BY <1>1, <1>9, <1>10, <1>11, <1>12 DEF DecreaseKept, pos
<1> QED BY <1>6, <1>10, <1>13 DEF QuoteInv

\* Others' instructions take nothing away from a quote.
LEMMA OthersKeepQuote ==
    ASSUME IInv, QuoteInv, Others
    PROVE  QuoteInv'
<1>1. [Next]_vars /\ TypeOK
  BY DEF Others, IInv
<1>2. quote' = quote \/ quote' = [quote EXCEPT !.fresh = FALSE]
  BY DEF Others
<1>3. quote'.kind = quote.kind /\ "kind" \in DOMAIN quote'
  BY <1>2 DEF QuoteInv
<1>4. ASSUME quote.kind \in {"increase", "decrease"}, quote.position \in Position,
             QuotedPosition.open, quote'.position = quote.position
      PROVE  /\ QuotedPosition'.open
             /\ QuotedPosition'.tick_lower_index = QuotedPosition.tick_lower_index
             /\ QuotedPosition'.tick_upper_index = QuotedPosition.tick_upper_index
  <2>1. positions'[quote.position].open
    BY <1>4 DEF Others
  <2> QED BY <1>1, <1>4, <2>1, PositionStays DEF QuotedPosition
<1>5. ASSUME quote.kind = "increase" PROVE IncreaseKept'
  <2>1. quote \in IncreaseTaken /\ IncreaseKept
    BY <1>5 DEF QuoteInv, IncreaseKept
  <2>2. /\ quote' \in IncreaseTaken
        /\ quote'.q = quote.q /\ quote'.position = quote.position /\ quote'.price = quote.price
        /\ quote'.slippage = quote.slippage /\ quote'.deposit = quote.deposit
        /\ quote'.fresh => quote.fresh /\ quote' = quote
    BY <1>2, <2>1 DEF IncreaseTaken
  <2>3. quote'.fresh => quote.fresh /\ pool' = pool
    <3>1. ASSUME pool' # pool PROVE ~quote'.fresh
      <4>1. quote' = [quote EXCEPT !.fresh = FALSE]
        BY <1>5, <3>1 DEF Others, Quoted
      <4> QED BY <2>1, <4>1 DEF IncreaseTaken
    <3> QED BY <2>2, <3>1
  <2>4. /\ QuotedPosition'.open
        /\ QuotedPosition'.tick_lower_index = QuotedPosition.tick_lower_index
        /\ QuotedPosition'.tick_upper_index = QuotedPosition.tick_upper_index
    BY <1>4, <1>5, <2>1, <2>2 DEF IncreaseTaken, IncreaseKept
  <2>5. \A s \in SqrtPriceRange : Foreseen(s)' => Foreseen(s)
    BY <2>2, <2>3 DEF Foreseen
  <2> QED BY <2>1, <2>2, <2>4, <2>5 DEF IncreaseKept
<1>6. ASSUME quote.kind = "decrease" PROVE DecreaseKept'
  <2>1. quote \in DecreaseTaken /\ DecreaseKept
    BY <1>6 DEF QuoteInv, DecreaseKept
  <2>2. /\ quote' \in DecreaseTaken
        /\ quote'.q = quote.q /\ quote'.position = quote.position /\ quote'.price = quote.price
        /\ quote'.slippage = quote.slippage
        /\ quote'.fresh => quote.fresh /\ quote' = quote
    BY <1>2, <2>1 DEF DecreaseTaken
  <2>3. quote'.fresh => quote.fresh /\ pool' = pool
    <3>1. ASSUME pool' # pool PROVE ~quote'.fresh
      <4>1. quote' = [quote EXCEPT !.fresh = FALSE]
        BY <1>6, <3>1 DEF Others, Quoted
      <4> QED BY <2>1, <4>1 DEF DecreaseTaken
    <3> QED BY <2>2, <3>1
  <2>4. /\ QuotedPosition'.open
        /\ QuotedPosition'.tick_lower_index = QuotedPosition.tick_lower_index
        /\ QuotedPosition'.tick_upper_index = QuotedPosition.tick_upper_index
    BY <1>4, <1>6, <2>1, <2>2 DEF DecreaseTaken, DecreaseKept
  <2>5. \A s \in SqrtPriceRange : Foreseen(s)' => Foreseen(s)
    BY <2>2, <2>3 DEF Foreseen
  <2> QED BY <2>1, <2>2, <2>4, <2>5 DEF DecreaseKept
<1> QED BY <1>3, <1>5, <1>6 DEF QuoteInv

\* What the client sends is an instruction of the pool like any other's.
LEMMA ClientIsAnyNext == IInv /\ LedgerInv /\ QuoteInv /\ [ClientNext]_clientVars => [AnyNext]_vars
<1> SUFFICES ASSUME IInv, LedgerInv, QuoteInv, [ClientNext]_clientVars
             PROVE  AnyNext \/ UNCHANGED vars
  OBVIOUS
<1>1. ASSUME NEW token, NEW amount, NEW slippage,
             \/ QuoteSwap(token, amount, slippage)
             \/ \E p \in Position : QuoteIncrease(p, token, amount, slippage)
             \/ \E p \in Position : QuoteDecrease(p, slippage)
      PROVE  UNCHANGED vars
  BY <1>1 DEF QuoteSwap, QuoteIncrease, QuoteDecrease, TakeQuote
<1>2. CASE SendSwap
  BY <1>2 DEF SendSwap, AnyNext
<1>3. CASE RunSwap
  BY <1>3 DEF RunSwap, AnyNext, Next
<1>4. ASSUME NEW amount \in Nat, amount \in I128 PROVE amount \in U128
  BY <1>4, WidthsAreNumbers, Widths DEF I128, U128
<1>5. CASE SendIncrease
  <2>1. quote.position \in Position /\ quote.q.liquidityAmount \in Nat
    BY <1>5 DEF SendIncrease, QuoteInv, IncreaseKept, IncreaseTaken, IncreaseQuoteType
  <2>2. IncreaseLiquidity(quote.position, quote.q.liquidityAmount)
    BY <1>5 DEF SendIncrease
  <2>3. quote.q.liquidityAmount \in U128
    BY <1>4, <2>1, <2>2 DEF IncreaseLiquidity
  <2> QED BY <2>1, <2>2, <2>3 DEF AnyNext, AnyPositionInstruction
<1>6. CASE SendDecrease
  <2>1. quote.position \in Position /\ quote.q.liquidityAmount \in Nat
    BY <1>6 DEF SendDecrease, QuoteInv, DecreaseKept, DecreaseTaken, DecreaseQuoteType
  <2>2. DecreaseLiquidity(quote.position, quote.q.liquidityAmount)
    BY <1>6 DEF SendDecrease
  <2>3. quote.q.liquidityAmount \in U128
    BY <1>4, <2>1, <2>2 DEF DecreaseLiquidity
  <2> QED BY <2>1, <2>2, <2>3 DEF AnyNext, AnyPositionInstruction
<1>7. CASE RejectLiquidity
  BY <1>7 DEF RejectLiquidity
<1>8. CASE Others
  BY <1>8 DEF Others, AnyNext
<1>9. CASE UNCHANGED clientVars
  BY <1>9 DEF clientVars, vars
<1> QED BY <1>1, <1>2, <1>3, <1>5, <1>6, <1>7, <1>8, <1>9 DEF ClientNext, Client

\* No step takes a quote's promise back.
LEMMA NextQuote == IInv /\ LedgerInv /\ QuoteInv /\ [ClientNext]_clientVars => QuoteInv'
<1> SUFFICES ASSUME IInv, LedgerInv, QuoteInv, [ClientNext]_clientVars PROVE QuoteInv'
  OBVIOUS
<1>1. ASSUME "kind" \in DOMAIN quote', quote'.kind \notin {"increase", "decrease"}
      PROVE  QuoteInv'
  BY <1>1 DEF QuoteInv
<1>2. ASSUME quote' = Done PROVE QuoteInv'
  BY <1>1, <1>2 DEF Done
<1>3. ASSUME NEW token, NEW amount, NEW slippage, QuoteSwap(token, amount, slippage)
      PROVE  QuoteInv'
  <2>1. "kind" \in DOMAIN quote' /\ quote'.kind = "swap"
    BY <1>3 DEF QuoteSwap, TakeQuote
  <2> QED BY <1>1, <2>1
<1>4. ASSUME NEW p \in Position, NEW token \in Token, NEW amount \in DepositAmounts,
             NEW slippage \in Slippages, QuoteIncrease(p, token, amount, slippage)
      PROVE  QuoteInv'
  BY <1>4, IncreaseQuoted
<1>5. ASSUME NEW p \in Position, NEW slippage \in Slippages, QuoteDecrease(p, slippage)
      PROVE  QuoteInv'
  BY <1>5, DecreaseQuoted
<1>6. CASE SendSwap
  <2>1. quote' = Done \/ quote' = [quote EXCEPT !.kind = "sent"]
    BY <1>6 DEF SendSwap
  <2>2. ASSUME quote' = [quote EXCEPT !.kind = "sent"] PROVE QuoteInv'
    <3>1. "kind" \in DOMAIN quote' /\ quote'.kind = "sent"
      BY <2>2 DEF QuoteInv
    <3> QED BY <1>1, <3>1
  <2> QED BY <1>2, <2>1, <2>2
<1>7. CASE RunSwap
  <2>1. quote' = Done \/ (quote' = quote /\ quote.kind = "sent")
    BY <1>7 DEF RunSwap
  <2>2. ASSUME quote' = quote, quote.kind = "sent" PROVE QuoteInv'
    BY <1>1, <2>2 DEF QuoteInv
  <2> QED BY <1>2, <2>1, <2>2
<1>8. CASE SendIncrease \/ SendDecrease \/ RejectLiquidity
  BY <1>2, <1>8 DEF SendIncrease, SendDecrease, RejectLiquidity
<1>9. CASE Others
  BY <1>9, OthersKeepQuote
<1>10. CASE UNCHANGED clientVars
  <2>1. quote' = quote /\ pool' = pool /\ positions' = positions
    BY <1>10 DEF clientVars
  <2> QED BY <2>1 DEF QuoteInv, IncreaseKept, DecreaseKept, QuotedPosition, Foreseen
<1> QED BY <1>3, <1>4, <1>5, <1>6, <1>7, <1>8, <1>9, <1>10 DEF ClientNext, Client

\* Before a quote there is nothing to keep.
LEMMA InitQuote == ClientInit => QuoteInv
BY DEF ClientInit, QuoteInv, NoQuoteYet

\* What is kept through every step.
ClientInv == IInv /\ LedgerInv /\ QuoteInv

\* It is inductive.
LEMMA ClientInvHolds == ClientSpec => []ClientInv
<1>1. ClientInit => ClientInv
  BY InitInv, InitLedger, InitQuote DEF ClientInit, ClientInv
<1>2. ClientInv /\ [ClientNext]_clientVars => ClientInv'
  BY ClientIsAnyNext, AnyNextInv, AnyNextLedger, NextQuote DEF ClientInv
<1> QED BY <1>1, <1>2, PTL DEF ClientSpec

(***************************************************************************)
(* Beside a client that sends what the quotes of the SDK say, whatever     *)
(* that comes to, the accounts keep their types, the price matches the     *)
(* tick, and the ticks match the positions, as they do without it.         *)
(***************************************************************************)
THEOREM ClientKeepsPool == ClientSpec => [](IInv /\ LedgerInv)
<1>1. ClientInv => IInv /\ LedgerInv
  BY DEF ClientInv
<1> QED BY <1>1, ClientInvHolds, PTL

(***************************************************************************)
(* An increase is quoted for no more than what the client would deposit    *)
(* (increase-liquidity-quote.ts): rounding the liquidity down makes up for *)
(* rounding the amounts up.                                                *)
(***************************************************************************)
THEOREM DepositsSuffice == ClientSpec => []DepositSuffices
<1>1. ClientInv => DepositSuffices
  BY DEF ClientInv, QuoteInv, IncreaseKept, DepositSuffices
<1> QED BY <1>1, ClientInvHolds, PTL

\* The amounts of a quote, and what the program pays out for it, fit into u64.
AmountsFit ==
    /\ quote.kind = "increase" => \A k \in Token : quote.q.tokenMax[k] \in U64
    /\ quote.kind = "decrease" => \A k \in Token : Gets(k) # Err

\* The limits of an increase are enough at a price that its quote foresees.
LEMMA IncreaseHolds ==
    ASSUME ClientInv, AmountsFit, quote.kind = "increase", Foreseen(pool.sqrt_price)
    PROVE  WithinTokenMax
<1> DEFINE pos == QuotedPosition
           L == quote.q.liquidityAmount
<1>1. /\ quote.position \in Position /\ L \in Nat /\ pos = positions[quote.position]
      /\ positions[quote.position].open
      /\ \A k \in Token : quote.q.tokenMax[k] \in U64
      /\ IInv /\ LedgerInv
  BY DEF ClientInv, QuoteInv, IncreaseKept, IncreaseTaken, IncreaseQuoteType, AmountsFit,
         QuotedPosition
<1>2. pool.sqrt_price \in SqrtPriceRange
  BY <1>1, OpenPositionType
<1>3. Enough(quote.q, pos.tick_lower_index, pos.tick_upper_index, pool.sqrt_price)
  BY <1>2 DEF ClientInv, QuoteInv, IncreaseKept
<1>4. SUFFICES ASSUME NEW k \in Token PROVE Owes(k) # Err /\ Owes(k) <= quote.q.tokenMax[k]
  BY DEF WithinTokenMax
<1> DEFINE cost == Costs(k, L, pos.tick_lower_index, pos.tick_upper_index, pool.sqrt_price)
<1>5. Owes(k) = Checked(U64, cost)
  BY <1>1, WhatIsPaid DEF Owes
<1>6. cost \in Nat
  <2>1. /\ pos.tick_lower_index \in TickIndex /\ pos.tick_upper_index \in TickIndex
        /\ pos.tick_lower_index < pos.tick_upper_index
    BY <1>1, OpenPositionType
  <2>2. L \in Nat
    BY <1>1
  <2> HIDE DEF pos, L
  <2> QED BY ONLY <1>2, <1>4, <2>1, <2>2, SdkWorth
<1>7. cost <= quote.q.tokenMax[k] /\ quote.q.tokenMax[k] \in U64
  BY <1>1, <1>3 DEF Enough
<1> HIDE DEF cost
<1>8. cost \in U64
  BY <1>6, <1>7, WidthsAreNumbers, MathAssumption DEF U64
<1>9. cost # Err
  BY ONLY <1>6 DEF Err
<1>10. Owes(k) = cost
  BY <1>5, <1>8 DEF Checked
<1> QED BY <1>7, <1>9, <1>10

\* The limits of a decrease are not too much.
LEMMA DecreaseHolds ==
    ASSUME ClientInv, AmountsFit, quote.kind = "decrease", Foreseen(pool.sqrt_price)
    PROVE  WithinTokenMin
<1> DEFINE pos == QuotedPosition
           L == quote.q.liquidityAmount
<1>1. /\ quote.position \in Position /\ L \in Nat /\ pos = positions[quote.position]
      /\ positions[quote.position].open
      /\ \A k \in Token : Gets(k) # Err
      /\ IInv /\ LedgerInv
  BY DEF ClientInv, QuoteInv, DecreaseKept, DecreaseTaken, DecreaseQuoteType, AmountsFit,
         QuotedPosition
<1>2. pool.sqrt_price \in SqrtPriceRange
  BY <1>1, OpenPositionType
<1>3. NotTooMuch(quote.q, pos.tick_lower_index, pos.tick_upper_index, pool.sqrt_price)
  BY <1>2 DEF ClientInv, QuoteInv, DecreaseKept
<1>4. SUFFICES ASSUME NEW k \in Token PROVE quote.q.tokenMin[k] <= Gets(k)
  BY <1>1 DEF WithinTokenMin
<1> DEFINE yield == Yields(k, L, pos.tick_lower_index, pos.tick_upper_index, pool.sqrt_price)
<1>5. Gets(k) = Checked(U64, yield)
  BY <1>1, WhatIsPaid DEF Gets
<1>6. quote.q.tokenMin[k] <= yield
  BY <1>3 DEF NotTooMuch
<1> HIDE DEF yield
<1> QED BY <1>1, <1>5, <1>6 DEF Checked

(***************************************************************************)
(* An increase or a decrease (increase_liquidity.rs, decrease_liquidity.rs *)
(* and the quotes of the SDK for them) is not turned down because of its   *)
(* limits while the price is within the slippage it was quoted for, nor    *)
(* while the quote is fresh, as long as the amounts fit into u64.  They do *)
(* not if a quote is for very much liquidity: the SDK computes with        *)
(* integers of any width.                                                  *)
(***************************************************************************)
THEOREM LiquidityQuotesHold ==
    ClientSpec /\ []AmountsFit => LiquidityQuoteHoldsWithinSlippage
<1> DEFINE Holds == RejectLiquidity => /\ ~quote.fresh
                                       /\ quote.price # NoPrice => ~PriceWithinSlippage
<1>1. ClientInv /\ AmountsFit => Holds
  <2> SUFFICES ASSUME ClientInv, AmountsFit, RejectLiquidity PROVE Holds
    BY DEF Holds
  <2>1. quote.kind = "increase" \/ quote.kind = "decrease"
    BY DEF RejectLiquidity
  <2>2. ~Foreseen(pool.sqrt_price)
    BY IncreaseHolds, DecreaseHolds DEF RejectLiquidity
  <2>3. ASSUME PriceWithinSlippage PROVE Near(quote.price, pool.sqrt_price, quote.slippage)
    BY <2>3 DEF PriceWithinSlippage, Near
  <2>4. quote.fresh \in BOOLEAN
    BY <2>1 DEF ClientInv, QuoteInv, IncreaseKept, IncreaseTaken, DecreaseKept, DecreaseTaken
  <2> QED BY <2>2, <2>3, <2>4 DEF Foreseen, Holds
<1> HIDE DEF Holds
<1>2. ClientSpec /\ []AmountsFit => [][Holds]_clientVars
  BY <1>1, ClientInvHolds, PTL
<1> QED BY <1>2 DEF Holds, LiquidityQuoteHoldsWithinSlippage

=============================================================================
