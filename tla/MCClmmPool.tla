----------------------------- MODULE MCClmmPool -----------------------------
(***************************************************************************)
(* Small instances of ClmmPool.  A token amount is below 256, a price is   *)
(* 256 times the square root of the price in reality, and there are seven  *)
(* ticks, each 1.05 times (in square root) the last; the usable ones are   *)
(* -2, 0 and 2, in the tick arrays that start at -4 and 0.                 *)
(***************************************************************************)
EXTENDS PoolQuotes

Sqrt == <<221, 232, 244, 256, 269, 282, 296>>
MCSqrtPrice == [t \in -3 .. 3 |-> Sqrt[t + 4]]
MCMinTick == -3

NoRewards == <<>>
TwoRewards == <<"r", "s">>

AtTickZero == {256}

Ranges == {<<-2, 0>>, <<0, 2>>, <<-2, 2>>}
RangesTried == Ranges \cup {<<-1, 2>>, <<2, 0>>}
NestedRanges == {<<0, 2>>, <<-2, 2>>}

----------------------------------------------------------------------------
\* A swap to the left or to the right, of an exact input or output, as far as
\* the limit, through the arrays in the given order.
Args(aToB, isInput, amount, limit, threshold, order) ==
    [a_to_b |-> aToB, amount_specified_is_input |-> isInput, amount |-> amount,
     sqrt_price_limit |-> limit, other_amount_threshold |-> threshold, arrays |-> order]

LeftIn(amount, limit) == Args(TRUE, TRUE, amount, limit, 0, <<0, -4>>)
LeftOut(amount, limit) == Args(TRUE, FALSE, amount, limit, Q64 - 1, <<0, -4>>)
RightIn(amount, limit) == Args(FALSE, TRUE, amount, limit, 0, <<-4, 0>>)
RightOut(amount, limit) == Args(FALSE, FALSE, amount, limit, Q64 - 1, <<-4, 0>>)

\* To the ends of the tick range, to a price between ticks, and to one on a
\* tick; with too few arrays, in the wrong order, at a limit out of range, of
\* nothing, and with thresholds that some meet and some do not.
LiquiditySwaps ==
    {LeftIn(5, 221), LeftIn(40, 221), LeftOut(8, 238), LeftOut(200, 232),
     RightIn(5, 296), RightIn(40, 296), RightOut(8, 275), RightOut(200, 282),
     Args(TRUE, TRUE, 40, 221, 0, <<-4>>), Args(FALSE, TRUE, 40, 296, 0, <<0>>),
     Args(TRUE, TRUE, 40, 221, 0, <<-4, 0>>), Args(TRUE, TRUE, 40, 200, 0, <<0, -4>>),
     Args(FALSE, FALSE, 0, 296, 255, <<-4, 0>>), Args(FALSE, FALSE, 9, 296, 11, <<-4, 0>>)}

LiquidityBudget ==
    [array |-> 2, open |-> 2, liquidity |-> 3, swap |-> 2, collect |-> 0,
     fee_rate |-> 0, reward |-> 0, time |-> 0]

LiquidityBudgets == {LiquidityBudget}

EarningSwaps == {LeftIn(30, 221), LeftOut(9, 238), RightIn(30, 282)}

FeeBudget ==
    [array |-> 2, open |-> 2, liquidity |-> 3, swap |-> 2, collect |-> 1,
     fee_rate |-> 1, reward |-> 0, time |-> 0]

RewardBudget ==
    [array |-> 2, open |-> 2, liquidity |-> 3, swap |-> 1, collect |-> 1,
     fee_rate |-> 0, reward |-> 3, time |-> 2]

\* Either fees that change or rewards.
EarningBudgets == {FeeBudget, RewardBudget}

EndingBudgets == {[LiquidityBudget EXCEPT !["liquidity"] = 2]}

=============================================================================
