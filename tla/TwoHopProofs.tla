---------------------------- MODULE TwoHopProofs ----------------------------
(***************************************************************************)
(* A trade over one pool or two does to the trader's accounts what it was  *)
(* asked to.  The amounts of the two loops are tied together by transfers  *)
(* of which the mints withhold fees, rounded and capped, and the code      *)
(* converts between amounts sent and amounts that arrive at every joint.   *)
(* The invariant TradeInv says how the amounts of a trade in progress hang *)
(* together; AccountsInv says that the balances are numbers.               *)
(*                                                                         *)
(* The second half shows that every pool stays able to pay: seen from one  *)
(* pool, the trades over several are swaps of a ClmmPool, as the instance  *)
(* One has it, and what EarningsProofs shows of each step of a ClmmPool    *)
(* holds.  PlaceInv and One!BackedInv are the invariant.                   *)
(***************************************************************************)
EXTENDS TwoHopSwap, ClmmMathProofs

----------------------------------------------------------------------------
(* Transfer fees.                                                          *)

\* The token program withholds a number, nothing of nothing.
LEMMA FeeIsNumber ==
    ASSUME NEW f \in TransferFee, NEW x \in Nat
    PROVE  CalculateFee(f, x) \in Nat /\ CalculateFee(f, 0) = 0
<1> DEFINE b == f.transfer_fee_basis_points
           D == MAX_FEE_BASIS_POINTS
           c == CeilDiv(x * b, D)
<1>1. b \in Nat /\ D \in Nat \ {0} /\ f.maximum_fee \in Nat
  BY BasisPointsAssumption, MathAssumption DEF TransferFee, U64
<1>2. x * b \in Nat
  BY <1>1, MulNat
<1>3. c \in Nat
  BY <1>1, <1>2, CeilType
<1>4. CalculateFee(f, x) = IF b = 0 \/ x = 0 THEN 0 ELSE Lesser(c, f.maximum_fee)
  BY <1>1, CeilIsDivRoundUp DEF CalculateFee
<1>5. CalculateFee(f, 0) = 0
  BY DEF CalculateFee
<1> HIDE DEF c, b
<1> QED BY <1>1, <1>3, <1>4, <1>5 DEF Lesser

\* The fee does not grow faster than what is sent.
LEMMA FeeGrowsSlowly ==
    ASSUME NEW f \in TransferFee, NEW s \in Nat, NEW t \in Nat, s <= t
    PROVE  CalculateFee(f, t) <= CalculateFee(f, s) + (t - s)
<1> DEFINE b == f.transfer_fee_basis_points
           D == MAX_FEE_BASIS_POINTS
           most == f.maximum_fee
           c(x) == CeilDiv(x * b, D)
           fee(x) == CalculateFee(f, x)
<1>1. b \in Nat /\ D \in Nat \ {0} /\ most \in Nat /\ b <= D
  BY BasisPointsAssumption, MathAssumption DEF TransferFee, U64
<1>2. \A x \in Nat : x * b \in Nat
  BY <1>1, MulNat
<1>3. \A x \in Nat : c(x) \in Nat /\ x * b <= D * c(x)
  BY <1>1, <1>2, CeilType
<1>4. \A x \in Nat : fee(x) = IF b = 0 \/ x = 0 THEN 0 ELSE Lesser(c(x), most)
  BY <1>1, CeilIsDivRoundUp DEF CalculateFee
<1> DEFINE d == t - s
<1>5. d \in Nat /\ t = s + d
  OBVIOUS
<1> HIDE DEF d
<1>6. t * b <= D * (c(s) + d)
  <2>1. d * b <= d * D
    BY <1>1, <1>5, MulMono
  <2> DEFINE q == c(s)
  <2>2. q \in Nat /\ s * b <= D * q
    BY <1>3
  <2> HIDE DEF b, D, q
  <2>3. (s + d) * b = s * b + d * b /\ D * (q + d) = D * q + d * D
    BY <1>1, <1>5, <2>2
  <2>4. s * b \in Int /\ d * b \in Int /\ D * q \in Int /\ d * D \in Int
    BY <1>1, <1>5, <2>2, MulNat
  <2>5. (s + d) * b <= D * (q + d)
    BY <2>1, <2>2, <2>3, <2>4
  <2> QED BY <1>5, <2>5 DEF q
<1>7. c(t) <= c(s) + d
  <2> DEFINE q == c(s) + d
             n == t * b
  <2>1. q \in Int /\ n \in Nat /\ n <= D * q
    BY <1>2, <1>3, <1>5, <1>6
  <2> HIDE DEF q, n, D
  <2>2. CeilDiv(n, D) <= q
    BY <1>1, <2>1, CeilAtMost
  <2> QED BY <2>2 DEF q, n, D
<1>8. c(s) \in Nat /\ c(t) \in Nat
  BY <1>3
<1>9. c(0) = 0 /\ fee(0) = 0
  <2>1. fee(0) = 0
    BY <1>4
  <2>2. c(0) <= 0 /\ c(0) \in Nat
    <3>1. 0 * b <= D * 0 /\ 0 * b \in Nat
      BY <1>1
    <3> HIDE DEF b, D
    <3>2. CeilDiv(0 * b, D) <= 0
      BY <1>1, <3>1, CeilAtMost
    <3> QED BY <1>3, <3>2 DEF b, D
  <2> QED BY <2>1, <2>2
<1>10. fee(s) = (IF b = 0 \/ s = 0 THEN 0 ELSE Lesser(c(s), most))
       /\ fee(t) = (IF b = 0 \/ t = 0 THEN 0 ELSE Lesser(c(t), most))
  BY <1>4
<1> DEFINE cs == c(s)
           ct == c(t)
           fs == fee(s)
           ft == fee(t)
<1>11. s = 0 => cs = 0
  BY <1>9
<1>12. ft <= fs + d
  <2>1. cs \in Nat /\ ct \in Nat /\ ct <= cs + d
    BY <1>7, <1>8
  <2>2. /\ fs = (IF b = 0 \/ s = 0 THEN 0 ELSE Lesser(cs, most))
        /\ ft = (IF b = 0 \/ t = 0 THEN 0 ELSE Lesser(ct, most))
    BY <1>10
  <2> HIDE DEF cs, ct, fs, ft, b, most
  <2> QED BY <1>1, <1>5, <1>11, <2>1, <2>2 DEF Lesser
<1> QED BY <1>5, <1>12 DEF fs, ft, d

\* What arrives is a number, and more arrives of more.
LEMMA ArrivesInOrder ==
    ASSUME NEW f \in TransferFee, NEW s \in Nat, NEW t \in Nat, s <= t
    PROVE  /\ TransferFeeExcludedAmount(f, s) \in 0 .. s
           /\ TransferFeeExcludedAmount(f, t) \in 0 .. t
           /\ TransferFeeExcludedAmount(f, s) <= TransferFeeExcludedAmount(f, t)
<1> DEFINE fee(x) == CalculateFee(f, x)
<1>1. \A x \in Nat : fee(x) \in Nat
  BY FeeIsNumber
<1>2. fee(0) = 0
  BY FeeIsNumber
<1>3. fee(s) <= fee(0) + (s - 0) /\ fee(t) <= fee(0) + (t - 0) /\ fee(t) <= fee(s) + (t - s)
  BY FeeGrowsSlowly
<1>4. fee(s) \in Nat /\ fee(t) \in Nat
  BY <1>1
<1> HIDE DEF fee
<1>5. s - fee(s) \in 0 .. s /\ t - fee(t) \in 0 .. t /\ s - fee(s) <= t - fee(t)
  BY <1>2, <1>3, <1>4
<1> QED BY <1>5 DEF fee, TransferFeeExcludedAmount

\* Of what the program asks to be sent, what was asked for arrives.
LEMMA AskedArrives ==
    ASSUME NEW f \in TransferFee, NEW x \in Nat, TransferFeeIncludedAmount(f, x) # Err
    PROVE  /\ TransferFeeIncludedAmount(f, x) \in U64
           /\ TransferFeeExcludedAmount(f, TransferFeeIncludedAmount(f, x)) = x
<1> DEFINE fee == FeeToAdd(f, x)
           sent == TransferFeeIncludedAmount(f, x)
<1>1. U64 \subseteq Nat /\ 0 \in U64
  BY MathAssumption DEF U64
<1>2. CASE x = 0
  <2>1. sent = 0
    BY <1>2 DEF TransferFeeIncludedAmount
  <2>2. CalculateFee(f, 0) = 0
    BY FeeIsNumber
  <2> QED BY <1>1, <1>2, <2>1, <2>2 DEF TransferFeeExcludedAmount
<1>3. CASE x # 0
  <2>1. sent = x + fee /\ sent \in U64 /\ CalculateFee(f, sent) = fee
    BY <1>3 DEF TransferFeeIncludedAmount
  <2>2. fee \in Nat
    BY <1>1, <2>1, FeeIsNumber
  <2> HIDE DEF sent, fee
  <2>3. sent - CalculateFee(f, sent) = x
    BY <2>1, <2>2
  <2> QED BY <2>1, <2>3 DEF sent, TransferFeeExcludedAmount
<1> QED BY <1>2, <1>3

\* It does not ask for more than what would let more arrive.
LEMMA AskedNoMore ==
    ASSUME NEW f \in TransferFee, NEW x \in Nat, TransferFeeIncludedAmount(f, x) # Err,
           NEW s \in Nat, x < TransferFeeExcludedAmount(f, s)
    PROVE  TransferFeeIncludedAmount(f, x) <= s
<1> DEFINE sent == TransferFeeIncludedAmount(f, x)
<1>1. sent \in Nat /\ TransferFeeExcludedAmount(f, sent) = x
  BY AskedArrives, MathAssumption DEF U64
<1> HIDE DEF sent
<1>2. ASSUME s <= sent PROVE FALSE
  <2>1. /\ TransferFeeExcludedAmount(f, s) <= x
        /\ TransferFeeExcludedAmount(f, s) \in 0 .. s
    BY <1>1, <1>2, ArrivesInOrder
  <2> QED BY <2>1
<1>3. sent <= s
  BY <1>1, <1>2
<1> QED BY <1>3 DEF sent

\* Without a fee what is sent arrives.
LEMMA WithoutFee ==
    ASSUME NEW x \in Nat
    PROVE  /\ TransferFeeExcludedAmount(NoFee, x) = x
           /\ TransferFeeIncludedAmount(NoFee, x) # Err => TransferFeeIncludedAmount(NoFee, x) = x
<1>1. NoFee \in TransferFee
  BY BasisPointsAssumption, MathAssumption DEF NoFee, TransferFee, U64
<1>2. \A y \in Nat : TransferFeeExcludedAmount(NoFee, y) = y
  BY DEF TransferFeeExcludedAmount, CalculateFee, NoFee
<1>3. ASSUME TransferFeeIncludedAmount(NoFee, x) # Err
      PROVE  TransferFeeIncludedAmount(NoFee, x) = x
  <2> DEFINE sent == TransferFeeIncludedAmount(NoFee, x)
  <2>1. sent \in Nat /\ TransferFeeExcludedAmount(NoFee, sent) = x
    BY <1>1, <1>3, AskedArrives, MathAssumption DEF U64
  <2> QED BY <1>2, <2>1
<1> QED BY <1>2, <1>3

----------------------------------------------------------------------------
(* The amounts of a swap in progress.                                      *)

\* The fields of a swap.
SwapFields ==
    {"args", "amount_remaining", "amount_calculated", "curr_sqrt_price", "curr_tick_index",
     "curr_liquidity", "curr_protocol_fee", "curr_array_index",
     "curr_fee_growth_global_input", "ticks"}

\* Its amounts are u64 numbers, and what remains is of what was asked for.
SwapSound(s) ==
    /\ DOMAIN s = SwapFields
    /\ s.args.amount_specified_is_input \in BOOLEAN
    /\ s.args.a_to_b \in BOOLEAN
    /\ s.args.amount \in U64
    /\ s.amount_remaining \in 0 .. s.args.amount
    /\ s.amount_calculated \in U64
    /\ s.curr_protocol_fee \in Nat

\* The 64-bit numbers.
LEMMA SmallNumbers == U64 \subseteq Nat /\ 0 \in U64 /\ \A n \in U64 : 0 .. n \subseteq U64
BY MathAssumption DEF U64

\* What remains is a number, and a u64.
LEMMA WhatRemains ==
    ASSUME NEW s, SwapSound(s)
    PROVE  /\ s.args.amount \in Nat /\ s.args.amount \in U64
           /\ s.amount_remaining \in Nat /\ s.amount_remaining \in U64
           /\ s.amount_remaining <= s.args.amount
<1> DEFINE n == s.args.amount
           m == s.amount_remaining
<1>1. n \in U64 /\ m \in 0 .. n
  BY DEF SwapSound
<1> HIDE DEF n, m
<1>2. n \in Nat /\ m \in U64
  BY <1>1, SmallNumbers
<1>3. m \in Nat /\ m <= n
  BY <1>1, <1>2
<1> QED BY <1>1, <1>2, <1>3 DEF n, m

\* So it begins.
LEMMA StartSound ==
    ASSUME NEW before, NEW its, NEW a, a.amount_specified_is_input \in BOOLEAN,
           a.a_to_b \in BOOLEAN, a.amount \in U64
    PROVE  SwapSound(SwapStart(before, its, a)) /\ SwapStart(before, its, a).args = a
<1>1. a.amount \in Nat
  BY SmallNumbers
<1>2. a.amount \in 0 .. a.amount
  BY <1>1
<1> QED BY <1>2, SmallNumbers DEF SwapSound, SwapFields, SwapStart

\* So it goes on.
LEMMA StepSound ==
    ASSUME NEW at, at.protocol_fee_rate \in Nat, NEW s, SwapSound(s), NEW j, NEW t, NEW c,
           c = SwapComputation(at, s, t), StepOk(at, s, j, t, c), NEW infos
    PROVE  /\ SwapSound(StepSwap(at, s, j, t, c, infos))
           /\ StepSwap(at, s, j, t, c, infos).args = s.args
<1> DEFINE next == StepSwap(at, s, j, t, c, infos)
           isInput == s.args.amount_specified_is_input
           left == s.amount_remaining
<1>1. /\ next.args = s.args /\ DOMAIN next = SwapFields
      /\ next.amount_remaining = AmountRemaining(s, c)
      /\ next.amount_calculated = AmountCalculated(s, c)
      /\ next.curr_protocol_fee = NextProtocolFee(at, s, c)
  BY DEF StepSwap, SwapSound, SwapFields
<1>2. left \in U64 /\ left \in Nat /\ s.args.amount \in Nat /\ left <= s.args.amount
  BY WhatRemains
<1>3. c.amount_in \in Nat /\ c.amount_out \in Nat /\ c.fee_amount \in Nat
  <2> DEFINE target == SqrtPriceTarget(s, t)
             L == s.curr_liquidity
             price == s.curr_sqrt_price
             rate == at.fee_rate
             aToB == s.args.a_to_b
  <2>1. /\ c = ComputeSwap(left, rate, L, price, target, isInput, aToB) /\ c.ok
        /\ isInput \in BOOLEAN /\ aToB \in BOOLEAN
    BY DEF SwapComputation, StepOk, SwapSound
  <2> HIDE DEF target, L, price, rate, aToB, isInput, left
  <2>2. c.amount_in \in U64 /\ c.amount_out \in U64 /\ c.fee_amount \in U64
    BY <1>2, <2>1, ComputeSwapOk
  <2> QED BY <2>2, SmallNumbers
<1>4. AmountRemaining(s, c) \in 0 .. s.args.amount
  <2>1. AmountRemaining(s, c) >= 0
    BY DEF StepOk
  <2>2. AmountRemaining(s, c) = IF isInput THEN left - c.amount_in - c.fee_amount
                                ELSE left - c.amount_out
    BY DEF AmountRemaining
  <2> HIDE DEF left, isInput
  <2> QED BY <1>2, <1>3, <2>1, <2>2
<1>5. AmountCalculated(s, c) \in U64
  BY DEF StepOk
<1>6. NextProtocolFee(at, s, c) \in Nat
  <2> DEFINE share == CalculateProtocolFee(c.fee_amount, at.protocol_fee_rate)
             old == s.curr_protocol_fee
  <2>1. share \in Nat
    <3>1. c.fee_amount * at.protocol_fee_rate \in Nat
      BY <1>3, MulNat
    <3> QED BY <3>1, DivType, MathAssumption DEF CalculateProtocolFee
  <2>2. old \in Nat /\ NextProtocolFee(at, s, c) = (old + share) % Q64
    BY DEF NextProtocolFee, WrappingAdd64, SwapSound
  <2> HIDE DEF share, old
  <2>3. old + share \in Nat
    BY <2>1, <2>2
  <2>4. Q64 \in Nat \ {0}
    BY MathAssumption
  <2>5. (old + share) % Q64 \in 0 .. Q64 - 1
    BY <2>3, <2>4, ModType
  <2> QED BY <2>2, <2>4, <2>5
<1> HIDE DEF next
<1> QED BY <1>1, <1>4, <1>5, <1>6 DEF SwapSound, next

\* What a swap returns: u64 amounts, the fixed one at most what was asked for, and exactly
\* that once it has stopped, unless at its price limit.
LEMMA SwapReturns ==
    ASSUME NEW s, SwapSound(s)
    PROVE  /\ AmountIn(s) \in U64 /\ AmountOut(s) \in U64
           /\ LET fixed == IF s.args.amount_specified_is_input THEN AmountIn(s) ELSE AmountOut(s)
              IN  /\ fixed <= s.args.amount
                  /\ ~SwapRunning(s) =>
                        fixed = s.args.amount \/ s.curr_sqrt_price = s.args.sqrt_price_limit
<1> DEFINE fixed == s.args.amount - s.amount_remaining
<1>1. /\ s.args.amount \in Nat /\ s.amount_remaining \in Nat
      /\ s.amount_remaining <= s.args.amount /\ s.args.amount \in U64
  BY WhatRemains
<1>2. fixed \in 0 .. s.args.amount
  BY <1>1
<1>3. fixed \in U64 /\ fixed <= s.args.amount
  BY <1>1, <1>2, SmallNumbers
<1>4. ~SwapRunning(s) => fixed = s.args.amount \/ s.curr_sqrt_price = s.args.sqrt_price_limit
  BY <1>1 DEF SwapRunning
<1> QED BY <1>3, <1>4 DEF AmountIn, AmountOut, SwapSound

----------------------------------------------------------------------------
(* Trades.                                                                 *)

\* The parts of a trade.
LEMMA TradeParts ==
    ASSUME NEW a \in Trades
    PROVE  /\ a.amount \in U64 /\ a.amount_specified_is_input \in BOOLEAN
           /\ a.version \in {1, 2} /\ a.other_amount_threshold \in U64
           /\ Len(a.hops) \in {1, 2} /\ (Len(a.hops) = 1 => a.version = 2)
           /\ DOMAIN a.hops = 1 .. Len(a.hops)
           /\ \A i \in 1 .. Len(a.hops) : a.hops[i] \in Hop
<1>1. /\ a \in [version : {1, 2}, hops : Seq(Hop), amount : U64,
                amount_specified_is_input : BOOLEAN, other_amount_threshold : U64]
      /\ Len(a.hops) = 2 \/ (Len(a.hops) = 1 /\ a.version = 2)
  BY TwoHopAssumption
<1>2. a.hops \in Seq(Hop)
  BY <1>1
<1> QED BY <1>1, <1>2

\* The mints of a hop.
LEMMA HopMints ==
    ASSUME NEW h \in Hop
    PROVE  /\ InMint(h) \in Mint /\ OutMint(h) \in Mint /\ InMint(h) # OutMint(h)
           /\ h.a_to_b \in BOOLEAN
<1>1. h.pool \in Pool /\ h.a_to_b \in BOOLEAN
  BY DEF Hop
<1>2. /\ MintOf[h.pool]["a"] \in Mint /\ MintOf[h.pool]["b"] \in Mint
      /\ MintOf[h.pool]["a"] # MintOf[h.pool]["b"]
  BY <1>1, TwoHopAssumption, SMTT(30) DEF Token
<1> QED BY <1>1, <1>2 DEF InMint, OutMint, InputToken, OutputToken

\* What counts of the accounts of a pool and of its position.
IsPool(r) ==
    /\ "protocol_fee_owed" \in DOMAIN r
    /\ r.protocol_fee_owed \in [Token -> Nat]
    /\ r.protocol_fee_rate = InitialProtocolFeeRate

IsPosition(r) ==
    /\ "fee_owed" \in DOMAIN r
    /\ r.fee_owed \in [Token -> Nat]

\* The balances are numbers, and only mints of the Token-2022 program withhold fees.
AccountsInv ==
    /\ wallet \in [Mint -> Int]
    /\ token2022 \subseteq Mint
    /\ transfer_fee \in [Mint -> TransferFee]
    /\ \A m \in Mint \ token2022 : transfer_fee[m] = NoFee
    /\ budget \in [Kind -> Nat]
    /\ DOMAIN pool = Pool /\ \A p \in Pool : IsPool(pool[p])
    /\ DOMAIN position = Pool /\ \A p \in Pool : IsPosition(position[p])

\* Hop i of trade t has begun: its swap is of the amount that was asked of the hop, less or
\* plus what is withheld.
HopSound(t, i) ==
    /\ t.amounts[i] \in U64
    /\ SwapAmount(t.args.hops[i], IsInput(t), t.amounts[i]) # Err
    /\ SwapSound(t.swaps[i])
    /\ t.swaps[i].args = SwapArgsOf(t.args.hops[i], IsInput(t), t.amounts[i])

\* Hop i is done.
HopStopped(t, i) == ~SwapRunning(t.swaps[i]) /\ HopIn(t, i) # Err

\* What was checked of the mints.
MintsFit(a) ==
    /\ Len(a.hops) = 2 => OutMint(a.hops[1]) = InMint(a.hops[2])
    /\ a.version = 1 => \A i \in DOMAIN a.hops :
                            {InMint(a.hops[i]), OutMint(a.hops[i])} \cap token2022 = {}

\* The first of the hops computed is of the caller's amount; the last one begins when that
\* one is done, and is of the amount found.
TradeSound(t) ==
    LET first == FirstComputed(t.args)
        last == LastComputed(t.args)
    IN  /\ DOMAIN t = {"args", "current", "amounts", "swaps"}
        /\ t.args \in Trades /\ MintsFit(t.args)
        /\ DOMAIN t.amounts = 1 .. HopCount(t) /\ DOMAIN t.swaps = 1 .. HopCount(t)
        /\ t.current \in {first, last}
        /\ t.amounts[first] = t.args.amount /\ HopSound(t, first)
        /\ t.current # first => /\ HopStopped(t, first)
                                /\ t.amounts[last] = NextAmount(t) /\ HopSound(t, last)

TradeInv == ~Idle => TradeSound(trade)

\* In a trade the fees and the mints are what they were.
LEMMA SoundKept ==
    ASSUME UNCHANGED <<transfer_fee, token2022>>, TradeSound(trade')
    PROVE  TradeInv'
BY DEF TradeInv, TradeSound, HopSound, HopStopped, MintsFit, SwapAmount, SwapArgsOf, InMint,
       OutMint, HopIn, HopOut, NextAmount

----------------------------------------------------------------------------
(* What a hop takes and gives.                                             *)

\* The amount asked of a pool is a u64.
LEMMA SwapAmountType ==
    ASSUME AccountsInv, NEW h \in Hop, NEW isInput \in BOOLEAN, NEW amount \in U64,
           SwapAmount(h, isInput, amount) # Err
    PROVE  SwapAmount(h, isInput, amount) \in U64
<1> DEFINE fin == transfer_fee[InMint(h)]
           fout == transfer_fee[OutMint(h)]
<1>1. fin \in TransferFee /\ fout \in TransferFee
  BY HopMints DEF AccountsInv
<1>2. amount \in Nat
  BY SmallNumbers
<1>3. SwapAmount(h, isInput, amount) = IF isInput THEN TransferFeeExcludedAmount(fin, amount)
                                       ELSE TransferFeeIncludedAmount(fout, amount)
  BY DEF SwapAmount
<1> HIDE DEF fin, fout
<1>4. CASE isInput
  <2>1. TransferFeeExcludedAmount(fin, amount) \in 0 .. amount
    BY <1>1, <1>2, ArrivesInOrder
  <2> QED BY <1>3, <1>4, <2>1, SmallNumbers
<1>5. CASE ~isInput
  BY <1>1, <1>2, <1>3, <1>5, AskedArrives
<1> QED BY <1>4, <1>5

\* A hop begins.
LEMMA HopBegins ==
    ASSUME AccountsInv, NEW h \in Hop, NEW isInput \in BOOLEAN, NEW amount \in U64,
           CanSwap(h, isInput, amount)
    PROVE  /\ SwapAmount(h, isInput, amount) # Err
           /\ SwapSound(SwapOf(h, isInput, amount))
           /\ SwapOf(h, isInput, amount).args = SwapArgsOf(h, isInput, amount)
<1> DEFINE a == SwapArgsOf(h, isInput, amount)
<1>1. SwapAmount(h, isInput, amount) # Err
  BY DEF CanSwap
<1>2. SwapAmount(h, isInput, amount) \in U64
  BY <1>1, SwapAmountType
<1>3. h.a_to_b \in BOOLEAN
  BY HopMints
<1>4. a.amount_specified_is_input \in BOOLEAN /\ a.a_to_b \in BOOLEAN /\ a.amount \in U64
  BY <1>2, <1>3 DEF SwapArgsOf
<1> HIDE DEF a
<1>5. /\ SwapSound(SwapStart(pool[h.pool], ticks[h.pool], a))
      /\ SwapStart(pool[h.pool], ticks[h.pool], a).args = a
  BY <1>4, StartSound
<1> QED BY <1>1, <1>5 DEF SwapOf, a

\* What is sent into a hop is a u64, of which its swap gets what it takes in.  Of a fixed
\* input no more is sent than was given to the hop, and all of it unless the swap came to
\* its limit.
LEMMA HopTakes ==
    ASSUME AccountsInv, NEW t, NEW i, t.args \in Trades, i \in 1 .. HopCount(t),
           HopSound(t, i), HopIn(t, i) # Err
    PROVE  /\ HopIn(t, i) \in U64
           /\ TransferFeeExcludedAmount(transfer_fee[InMint(t.args.hops[i])], HopIn(t, i))
                = AmountIn(t.swaps[i])
           /\ IsInput(t) =>
                /\ HopIn(t, i) <= t.amounts[i]
                /\ AmountIn(t.swaps[i]) = t.swaps[i].args.amount => HopIn(t, i) = t.amounts[i]
<1> DEFINE s == t.swaps[i]
           f == transfer_fee[InMint(t.args.hops[i])]
           x == AmountIn(s)
           given == t.amounts[i]
           hopIn == HopIn(t, i)
           asked == s.args.amount
<1>1. t.args.hops[i] \in Hop
  BY TradeParts DEF HopCount
<1>2. f \in TransferFee
  BY <1>1, HopMints DEF AccountsInv
<1>3. given \in U64 /\ given \in Nat /\ x \in U64 /\ x \in Nat
  BY SwapReturns, SmallNumbers DEF HopSound
<1>4. hopIn = IF IsInput(t) /\ x = asked THEN given ELSE TransferFeeIncludedAmount(f, x)
  BY DEF HopIn
<1>5. IsInput(t) => asked = TransferFeeExcludedAmount(f, given) /\ x <= asked
  <2>1. s.args = SwapArgsOf(t.args.hops[i], IsInput(t), given) /\ SwapSound(s)
    BY DEF HopSound
  <2>2. /\ s.args.amount_specified_is_input = IsInput(t)
        /\ asked = SwapAmount(t.args.hops[i], IsInput(t), given)
    BY <2>1 DEF SwapArgsOf
  <2>3. IsInput(t) => asked = TransferFeeExcludedAmount(f, given)
    BY <2>2 DEF SwapAmount
  <2>4. IsInput(t) => x <= asked
    BY <2>1, <2>2, SwapReturns
  <2> QED BY <2>3, <2>4
<1> HIDE DEF s, f, x, given, hopIn, asked
<1>6. CASE IsInput(t) /\ x = asked
  BY <1>3, <1>4, <1>5, <1>6 DEF s, f, x, given, hopIn, asked
<1>7. CASE ~(IsInput(t) /\ x = asked)
  <2>1. hopIn = TransferFeeIncludedAmount(f, x) /\ hopIn # Err
    BY <1>4, <1>7 DEF hopIn
  <2>2. hopIn \in U64 /\ TransferFeeExcludedAmount(f, hopIn) = x
    BY <1>2, <1>3, <2>1, AskedArrives
  <2>3. ASSUME IsInput(t) PROVE hopIn <= given
    <3>1. x < TransferFeeExcludedAmount(f, given)
      <4>1. TransferFeeExcludedAmount(f, given) \in 0 .. given
        BY <1>2, <1>3, ArrivesInOrder
      <4> QED BY <1>3, <1>5, <1>7, <2>3, <4>1
    <3> QED BY <1>2, <1>3, <2>1, <3>1, AskedNoMore
  <2> QED BY <1>7, <2>2, <2>3 DEF s, f, x, given, hopIn, asked
<1> QED BY <1>6, <1>7

\* What a hop gives is a u64.  Of a fixed output no more arrives than was asked of the hop,
\* and all of it unless the swap came to its limit.
LEMMA HopGives ==
    ASSUME AccountsInv, NEW t, NEW i, t.args \in Trades, i \in 1 .. HopCount(t),
           HopSound(t, i)
    PROVE  /\ HopOut(t, i) \in U64
           /\ LET arrives == TransferFeeExcludedAmount(
                                transfer_fee[OutMint(t.args.hops[i])], HopOut(t, i))
              IN  /\ arrives \in Nat
                  /\ ~IsInput(t) =>
                       /\ arrives <= t.amounts[i]
                       /\ HopOut(t, i) = t.swaps[i].args.amount => arrives = t.amounts[i]
<1> DEFINE s == t.swaps[i]
           f == transfer_fee[OutMint(t.args.hops[i])]
           y == AmountOut(s)
           given == t.amounts[i]
           asked == s.args.amount
           arrives == TransferFeeExcludedAmount(f, y)
<1>1. t.args.hops[i] \in Hop
  BY TradeParts DEF HopCount
<1>2. f \in TransferFee
  BY <1>1, HopMints DEF AccountsInv
<1>3. given \in Nat /\ y \in U64 /\ y \in Nat
  BY SwapReturns, SmallNumbers DEF HopSound
<1>4. arrives \in Nat
  <2> HIDE DEF f, y
  <2>1. TransferFeeExcludedAmount(f, y) \in 0 .. y
    BY <1>2, <1>3, ArrivesInOrder
  <2> QED BY <1>3, <2>1
<1>5. ASSUME ~IsInput(t) PROVE arrives <= given /\ (y = asked => arrives = given)
  <2>1. /\ s.args = SwapArgsOf(t.args.hops[i], IsInput(t), given) /\ SwapSound(s)
        /\ SwapAmount(t.args.hops[i], IsInput(t), given) # Err
    BY DEF HopSound
  <2>2. /\ ~s.args.amount_specified_is_input
        /\ asked = TransferFeeIncludedAmount(f, given) /\ asked # Err
    BY <1>5, <2>1 DEF SwapArgsOf, SwapAmount
  <2>3. y <= asked
    BY <2>1, <2>2, SwapReturns
  <2> HIDE DEF s, f, y, given, asked
  <2>4. asked \in U64 /\ TransferFeeExcludedAmount(f, asked) = given
    BY <1>2, <1>3, <2>2, AskedArrives
  <2>5. asked \in Nat
    BY <2>4, SmallNumbers
  <2>6. TransferFeeExcludedAmount(f, y) <= TransferFeeExcludedAmount(f, asked)
    BY <1>2, <1>3, <2>3, <2>5, ArrivesInOrder
  <2> QED BY <2>4, <2>6
<1> QED BY <1>3, <1>4, <1>5 DEF HopOut


----------------------------------------------------------------------------
(* The accounts.                                                           *)

\* Balances stay numbers when something is sent and received.
LEMMA BalancesMove ==
    ASSUME AccountsInv, NEW w \in [Mint -> Int], NEW m \in Mint, NEW x \in Nat
    PROVE  /\ Sent(w, m, x) \in [Mint -> Int]
           /\ Received(w, m, x, m) \in [Mint -> Int]
<1>1. transfer_fee[m] \in TransferFee
  BY DEF AccountsInv
<1>2. TransferFeeExcludedAmount(transfer_fee[m], x) \in Int
  <2>1. TransferFeeExcludedAmount(transfer_fee[m], x) \in 0 .. x
    BY <1>1, ArrivesInOrder
  <2> QED BY <2>1
<1>3. w[m] - x \in Int /\ w[m] + TransferFeeExcludedAmount(transfer_fee[m], x) \in Int
  BY <1>2
<1> QED BY <1>3 DEF Sent, Received

\* What is worth liquidity is a number.
LEMMA LiquidityWorth ==
    ASSUME NEW p \in Pool, NEW k, NEW pos, NEW amount, NEW up \in BOOLEAN,
           PoolOf(p)!LiquidityTokenDelta(k, pos, amount, up) # Err
    PROVE  PoolOf(p)!LiquidityTokenDelta(k, pos, amount, up) \in Nat
<1>1. PoolOf(p)!LiquidityTokenDelta(k, pos, amount, up) \in U64 \cup {0}
  BY DEF PoolOf!LiquidityTokenDelta, PoolOf!GetAmountDelta, PoolOf!GetAmountDeltaA,
         PoolOf!GetAmountDeltaB, PoolOf!Checked, PoolOf!Err, PoolOf!U64, Err, U64
<1> QED BY <1>1, SmallNumbers

\* A position stays one when its liquidity changes.
LEMMA PositionUpdated ==
    ASSUME AccountsInv, NEW p \in Pool, NEW delta
    PROVE  IsPosition(PoolOf(p)!UpdatedPosition(1, delta))
<1> DEFINE old == position[p]
<1>1. IsPosition(old)
  BY DEF AccountsInv
<1> DEFINE owed(k) == PoolOf(p)!Settled(old.fee_owed[k], old.liquidity,
                                        PoolOf(p)!FeesInside(1)[k], old.fee_growth_checkpoint[k])
<1>2. ASSUME NEW k \in Token PROVE owed(k) \in Nat
  <2> DEFINE now == old.fee_owed[k]
             growth == PoolOf(p)!WrappingSub(PoolOf(p)!FeesInside(1)[k],
                                             old.fee_growth_checkpoint[k])
             more == PoolOf(p)!MulShiftRightOrZero(old.liquidity, growth)
  <2>1. now \in Nat
    BY <1>1 DEF IsPosition
  <2>2. more \in Nat
    <3> HIDE DEF growth
    <3>1. U128 \subseteq Nat /\ Q64 \in Nat \ {0}
      BY MathAssumption DEF U128
    <3>2. more = IF old.liquidity * growth \in U128 THEN (old.liquidity * growth) \div Q64 ELSE 0
      BY DEF PoolOf!MulShiftRightOrZero, PoolOf!U128, U128
    <3> DEFINE n == old.liquidity * growth
    <3> HIDE DEF n, more
    <3>3. CASE n \in U128
      <4>1. n \div Q64 \in Nat
        BY <3>1, <3>3, DivType
      <4> QED BY <3>2, <3>3, <4>1 DEF n
    <3>4. CASE n \notin U128
      BY <3>2, <3>4 DEF n
    <3> QED BY <3>3, <3>4
  <2>3. owed(k) = (now + more) % Q64
    BY DEF PoolOf!Settled, PoolOf!WrappingAdd64
  <2> HIDE DEF now, more, owed
  <2>4. now + more \in Nat /\ Q64 \in Nat \ {0}
    BY <2>1, <2>2, MathAssumption
  <2>5. (now + more) % Q64 \in 0 .. Q64 - 1
    BY <2>4, ModType
  <2> QED BY <2>3, <2>4, <2>5
<1> DEFINE new == PoolOf(p)!UpdatedPosition(1, delta)
<1>3. "fee_owed" \in DOMAIN new /\ new.fee_owed = [k \in Token |-> owed(k)]
  BY <1>1 DEF PoolOf!UpdatedPosition, PoolOf!NextPositionModifyLiquidityUpdate, PoolOf!Token, Token,
              IsPosition
<1> HIDE DEF new, owed
<1>4. new.fee_owed \in [Token -> Nat]
  BY <1>2, <1>3
<1> QED BY <1>3, <1>4 DEF IsPosition, new

\* A pool stays one after a hop.
LEMMA PoolSwapped ==
    ASSUME NEW r, IsPool(r), NEW s, SwapSound(s), NEW infos
    PROVE  IsPool(PoolAfterSwap(r, s, infos, 0))
<1> DEFINE k == InputToken(s.args)
           now == r.protocol_fee_owed[k]
           more == s.curr_protocol_fee
           new == PoolAfterSwap(r, s, infos, 0)
<1>1. k \in Token
  BY DEF InputToken, Token
<1>2. now \in Nat /\ more \in Nat
  BY <1>1 DEF IsPool, SwapSound
<1>3. WrappingAdd64(now, more) \in Nat
  <2> HIDE DEF now, more
  <2>1. now + more \in Nat /\ Q64 \in Nat \ {0}
    BY <1>2, MathAssumption
  <2>2. (now + more) % Q64 \in 0 .. Q64 - 1
    BY <2>1, ModType
  <2> QED BY <2>1, <2>2 DEF WrappingAdd64
<1>4. /\ "protocol_fee_owed" \in DOMAIN new /\ new.protocol_fee_rate = r.protocol_fee_rate
      /\ new.protocol_fee_owed = [r.protocol_fee_owed EXCEPT ![k] = WrappingAdd64(now, more)]
  BY DEF PoolAfterSwap, IsPool
<1> HIDE DEF new, now, more, k
<1> QED BY <1>1, <1>3, <1>4 DEF IsPool, new

\* At first.
LEMMA AccountsInit == Init => AccountsInv
<1> SUFFICES ASSUME Init PROVE AccountsInv
  OBVIOUS
<1>1. wallet \in [Mint -> Int] /\ budget \in [Kind -> Nat]
  <2>1. Funds \in Int
    BY SmallNumbers, TwoHopAssumption
  <2> QED BY <2>1, TwoHopAssumption DEF Init
<1>2. token2022 \subseteq Mint
  BY TwoHopAssumption DEF Init
<1>3. /\ transfer_fee \in [Mint -> TransferFee]
      /\ \A m \in Mint \ token2022 : transfer_fee[m] = NoFee
  <2>1. NoFee \in TransferFee
    BY BasisPointsAssumption, MathAssumption DEF NoFee, TransferFee, U64
  <2> QED BY <2>1 DEF Init
<1>4. DOMAIN pool = Pool /\ \A p \in Pool : IsPool(pool[p])
  BY DEF Init, PoolOf!InitialPool, PoolOf!Token, Token, IsPool
<1>5. DOMAIN position = Pool /\ \A p \in Pool : IsPosition(position[p])
  BY DEF Init, PoolOf!ClosedPosition, PoolOf!Token, Token, IsPosition
<1> QED BY <1>1, <1>2, <1>3, <1>4, <1>5 DEF AccountsInv

\* The hops of a trade that is carried out.
LEMMA CommitSound ==
    ASSUME TradeInv, ~Idle, trade.current = LastComputed(trade.args), CanCommitTrade(trade)
    PROVE  /\ TradeSound(trade)
           /\ \A i \in 1 .. HopCount(trade) : HopSound(trade, i) /\ HopStopped(trade, i)
<1> DEFINE first == FirstComputed(trade.args)
           last == LastComputed(trade.args)
<1>1. TradeSound(trade)
  BY DEF TradeInv
<1>2. trade.args \in Trades
  BY <1>1 DEF TradeSound
<1>3. 1 .. HopCount(trade) = {first, last}
  <2>1. HopCount(trade) \in {1, 2} /\ trade.args.amount_specified_is_input \in BOOLEAN
    BY <1>2, TradeParts DEF HopCount
  <2>2. \/ first = 1 /\ last = HopCount(trade)
        \/ first = HopCount(trade) /\ last = 1
    BY DEF FirstComputed, LastComputed, HopCount
  <2> HIDE DEF first, last
  <2> QED BY <2>1, <2>2
<1>4. HopStopped(trade, last)
  BY DEF CanCommitTrade, HopDone, HopStopped
<1>5. HopSound(trade, first) /\ HopSound(trade, last) /\ HopStopped(trade, first)
  BY <1>1, <1>4 DEF TradeSound
<1> QED BY <1>1, <1>3, <1>4, <1>5

\* What is spent of a budget.
LEMMA BudgetSpent ==
    ASSUME AccountsInv, NEW kind \in Kind, Spend(kind)
    PROVE  /\ budget' \in [Kind -> Nat]
           /\ \A other \in Kind : (budget'[other] < budget[other]) <=> other = kind
BY DEF AccountsInv, Spend

\* What the wallet is paid.
LEMMA WalletPaid ==
    ASSUME AccountsInv, NEW p \in Pool, NEW amount, \A k \in Token : amount[k] \in Nat,
           PaidOut(p, amount)
    PROVE  wallet' \in [Mint -> Int]
<1>1. MintOf[p]["a"] \in Mint /\ MintOf[p]["b"] \in Mint
  BY TwoHopAssumption DEF Token
<1>2. amount["a"] \in Nat /\ amount["b"] \in Nat
  BY DEF Token
<1> DEFINE w == Received(wallet, MintOf[p]["a"], amount["a"], MintOf[p]["a"])
<1>3. w \in [Mint -> Int]
  BY <1>1, <1>2, BalancesMove DEF AccountsInv
<1>4. wallet' = Received(w, MintOf[p]["b"], amount["b"], MintOf[p]["b"])
  BY DEF PaidOut
<1> HIDE DEF w
<1> QED BY <1>1, <1>2, <1>3, <1>4, BalancesMove

\* The pools and the positions stay what they are when liquidity changes.
LEMMA LiquiditySynced ==
    ASSUME AccountsInv, NEW p \in Pool, NEW delta, SyncModifyLiquidity(p, delta)
    PROVE  /\ DOMAIN pool' = Pool /\ \A q \in Pool : IsPool(pool'[q])
           /\ DOMAIN position' = Pool /\ \A q \in Pool : IsPosition(position'[q])
<1>1. DOMAIN pool' = Pool /\ \A q \in Pool : IsPool(pool'[q])
  BY DEF SyncModifyLiquidity, AccountsInv, IsPool
<1>2. DOMAIN position' = Pool /\ \A q \in Pool : IsPosition(position'[q])
  <2> DEFINE new == PoolOf(p)!UpdatedPosition(1, delta)
  <2>1. IsPosition(new)
    BY PositionUpdated
  <2>2. position' = [position EXCEPT ![p] = new]
    BY DEF SyncModifyLiquidity
  <2> HIDE DEF new
  <2> QED BY <2>1, <2>2 DEF AccountsInv
<1> QED BY <1>1, <1>2

\* What a trade that is carried out leaves in the wallet.
LEMMA WalletTraded ==
    ASSUME AccountsInv, NEW t, t.args \in Trades,
           \A i \in 1 .. HopCount(t) : HopSound(t, i) /\ HopIn(t, i) # Err
    PROVE  WalletBetween(t) \in [Mint -> Int] /\ WalletAfter(t) \in [Mint -> Int]
<1> DEFINE n == HopCount(t)
<1>1. /\ n \in {1, 2} /\ \A i \in 1 .. n : t.args.hops[i] \in Hop
      /\ n = 1 => t.args.version = 2
      /\ t.args.version \in {1, 2}
  BY TradeParts DEF HopCount
<1>2. \A i \in 1 .. n : /\ InMint(t.args.hops[i]) \in Mint /\ OutMint(t.args.hops[i]) \in Mint
                        /\ HopIn(t, i) \in Nat /\ HopOut(t, i) \in Nat
  <2> SUFFICES ASSUME NEW i \in 1 .. n
               PROVE  /\ InMint(t.args.hops[i]) \in Mint /\ OutMint(t.args.hops[i]) \in Mint
                      /\ HopIn(t, i) \in Nat /\ HopOut(t, i) \in Nat
    OBVIOUS
  <2>1. HopIn(t, i) \in U64 /\ HopOut(t, i) \in U64
    BY HopTakes, HopGives
  <2> QED BY <1>1, <2>1, HopMints, SmallNumbers
<1>3. 1 \in 1 .. n /\ n \in 1 .. n /\ (t.args.version # 2 => 2 \in 1 .. n)
  BY <1>1
<1> HIDE DEF n
<1>4. Sent(wallet, InMint(t.args.hops[1]), HopIn(t, 1)) \in [Mint -> Int]
  BY <1>2, <1>3, BalancesMove DEF AccountsInv
<1> DEFINE paid == Sent(wallet, InMint(t.args.hops[1]), HopIn(t, 1))
           between == InMint(t.args.hops[2])
<1>5. WalletBetween(t) \in [Mint -> Int]
  <2>1. CASE t.args.version = 2
    BY <1>4, <2>1 DEF WalletBetween
  <2>2. CASE t.args.version # 2
    <3>1. HopOut(t, 1) \in Nat /\ HopIn(t, 2) \in Nat /\ between \in Mint
      BY <1>2, <1>3, <2>2
    <3> DEFINE w == Received(paid, between, HopOut(t, 1), between)
    <3>2. w \in [Mint -> Int]
      <4> HIDE DEF paid, between
      <4>1. paid \in [Mint -> Int]
        BY <1>4 DEF paid
      <4> QED BY <3>1, <4>1, BalancesMove
    <3>3. WalletBetween(t) = Sent(w, between, HopIn(t, 2))
      BY <2>2 DEF WalletBetween
    <3> HIDE DEF w, between
    <3> QED BY <3>1, <3>2, <3>3, BalancesMove
  <2> QED BY <2>1, <2>2
<1>6. WalletAfter(t) \in [Mint -> Int]
  <2>1. OutMint(t.args.hops[n]) \in Mint /\ HopOut(t, n) \in Nat
    BY <1>2, <1>3
  <2>2. WalletAfter(t) = Received(WalletBetween(t), OutMint(t.args.hops[n]), HopOut(t, n),
                                  OutMint(t.args.hops[n]))
    BY DEF WalletAfter, n
  <2> QED BY <1>5, <2>1, <2>2, BalancesMove
<1> QED BY <1>5, <1>6

\* What a trade that is carried out leaves in the pools.
LEMMA PoolsTraded ==
    ASSUME AccountsInv, TradeInv, TradeCommit
    PROVE  DOMAIN pool' = Pool /\ \A p \in Pool : IsPool(pool'[p])
<1> DEFINE hops == 1 .. HopCount(trade)
           after == [i \in hops |-> PoolAfterHop(trade, i)]
<1>1. /\ TradeSound(trade) /\ \A i \in hops : HopSound(trade, i)
      /\ pool' = AfterHops(trade, pool, after)
  BY CommitSound DEF TradeCommit
<1>2. \A i \in hops : trade.args.hops[i].pool \in Pool
  <2>1. trade.args \in Trades
    BY <1>1 DEF TradeSound
  <2>2. \A i \in hops : trade.args.hops[i] \in Hop
    BY <2>1, TradeParts DEF HopCount
  <2> QED BY <2>2 DEF Hop
<1>3. \A i \in hops : IsPool(PoolAfterHop(trade, i))
  <2> SUFFICES ASSUME NEW i \in hops PROVE IsPool(PoolAfterHop(trade, i))
    OBVIOUS
  <2> DEFINE p == trade.args.hops[i].pool
  <2>1. IsPool(pool[p]) /\ SwapSound(trade.swaps[i])
    BY <1>1, <1>2 DEF AccountsInv, HopSound
  <2> QED BY <2>1, PoolSwapped DEF PoolAfterHop
<1>4. ASSUME NEW p \in Pool PROVE IsPool(pool'[p])
  <2> DEFINE those == HopsIn(trade, p)
             it == CHOOSE i \in those : TRUE
  <2>1. pool'[p] = IF those = {} THEN pool[p] ELSE after[it]
    BY <1>1 DEF AfterHops
  <2>2. those \subseteq hops /\ (those # {} => it \in those)
    BY DEF HopsIn
  <2>3. those # {} => after[it] = PoolAfterHop(trade, it)
    BY <2>2
  <2> HIDE DEF those, it, after
  <2> QED BY <1>3, <2>1, <2>2, <2>3 DEF AccountsInv
<1>5. DOMAIN pool' = Pool
  BY <1>1 DEF AfterHops
<1> QED BY <1>4, <1>5

\* A step leaves the accounts what they are.
LEMMA AccountsNext ==
    ASSUME AccountsInv, TradeInv, [Next]_vars
    PROVE  AccountsInv'
<1>1. ASSUME UNCHANGED <<token2022, transfer_fee>>,
             wallet' \in [Mint -> Int], budget' \in [Kind -> Nat],
             DOMAIN pool' = Pool, \A p \in Pool : IsPool(pool'[p]),
             DOMAIN position' = Pool, \A p \in Pool : IsPosition(position'[p])
      PROVE  AccountsInv'
  BY <1>1 DEF AccountsInv
<1>2. /\ \A p \in Pool : IsPool(pool[p]) /\ IsPosition(position[p])
      /\ wallet \in [Mint -> Int] /\ budget \in [Kind -> Nat]
      /\ DOMAIN pool = Pool /\ DOMAIN position = Pool
  BY DEF AccountsInv
<1>3. {"liquidity", "trade", "collect", "transfer_fee"} \subseteq Kind
  BY DEF Kind
<1>4. \A p \in Pool : MintOf[p]["a"] \in Mint /\ MintOf[p]["b"] \in Mint
  BY TwoHopAssumption DEF Token
<1>5. CASE UNCHANGED vars
  BY <1>1, <1>2, <1>5 DEF vars
<1>6. ASSUME NEW p \in Pool, NEW amount, IncreaseLiquidityV2(p, amount) PROVE AccountsInv'
  <2> DEFINE owed(k) == PoolOf(p)!LiquidityTokenDelta(k, position[p], amount, TRUE)
             pays(k) == SentForLiquidity(p, k, owed(k))
             mint == MintOf[p]
  <2>1. /\ \A k \in Token : owed(k) # Err /\ pays(k) # Err
        /\ wallet' = Sent(Sent(wallet, mint["a"], pays("a")), mint["b"], pays("b"))
        /\ Spend("liquidity") /\ SyncModifyLiquidity(p, amount)
        /\ UNCHANGED <<token2022, transfer_fee>>
    BY <1>6 DEF IncreaseLiquidityV2
  <2>2. \A k \in Token : pays(k) \in Nat
    <3> SUFFICES ASSUME NEW k \in Token PROVE pays(k) \in Nat
      OBVIOUS
    <3>1. owed(k) \in Nat
      BY <2>1, LiquidityWorth
    <3>2. FeeOf(p, k) \in TransferFee
      BY <1>4 DEF FeeOf, AccountsInv, Token
    <3>3. pays(k) = TransferFeeIncludedAmount(FeeOf(p, k), owed(k)) /\ pays(k) # Err
      BY <2>1 DEF SentForLiquidity
    <3> HIDE DEF owed, pays
    <3>4. pays(k) \in U64
      BY <3>1, <3>2, <3>3, AskedArrives
    <3> QED BY <3>4, SmallNumbers
  <2> DEFINE w == Sent(wallet, mint["a"], pays("a"))
  <2>3. pays("a") \in Nat /\ pays("b") \in Nat
    BY <2>2 DEF Token
  <2>4. wallet' = Sent(w, mint["b"], pays("b"))
    BY <2>1
  <2> HIDE DEF owed, pays
  <2>5. w \in [Mint -> Int]
    BY <1>2, <1>4, <2>3, BalancesMove
  <2> HIDE DEF w
  <2>6. wallet' \in [Mint -> Int]
    BY <1>4, <2>3, <2>4, <2>5, BalancesMove
  <2>7. budget' \in [Kind -> Nat]
    BY <1>3, <2>1, BudgetSpent
  <2>8. /\ DOMAIN pool' = Pool /\ \A q \in Pool : IsPool(pool'[q])
        /\ DOMAIN position' = Pool /\ \A q \in Pool : IsPosition(position'[q])
    BY <2>1, LiquiditySynced
  <2> QED BY <1>1, <2>1, <2>6, <2>7, <2>8
<1>7. ASSUME NEW p \in Pool, NEW amount, DecreaseLiquidityV2(p, amount) PROVE AccountsInv'
  <2> DEFINE owed == [k \in Token |-> PoolOf(p)!LiquidityTokenDelta(k, position[p], amount, FALSE)]
  <2>1. /\ \A k \in Token : owed[k] # Err
        /\ PaidOut(p, owed)
        /\ Spend("liquidity") /\ SyncModifyLiquidity(p, -amount)
        /\ UNCHANGED <<token2022, transfer_fee>>
    BY <1>7 DEF DecreaseLiquidityV2
  <2>2. \A k \in Token : owed[k] \in Nat
    BY <2>1, LiquidityWorth
  <2> HIDE DEF owed
  <2>3. wallet' \in [Mint -> Int]
    BY <2>1, <2>2, WalletPaid
  <2>4. budget' \in [Kind -> Nat]
    BY <1>3, <2>1, BudgetSpent
  <2>5. /\ DOMAIN pool' = Pool /\ \A q \in Pool : IsPool(pool'[q])
        /\ DOMAIN position' = Pool /\ \A q \in Pool : IsPosition(position'[q])
    BY <2>1, LiquiditySynced
  <2> QED BY <1>1, <2>1, <2>3, <2>4, <2>5
<1>8. ASSUME NEW p \in Pool, CollectFeesV2(p) PROVE AccountsInv'
  <2>1. /\ PaidOut(p, position[p].fee_owed) /\ Spend("collect")
        /\ UNCHANGED <<pool, token2022, transfer_fee>>
        /\ position' = [position EXCEPT ![p].fee_owed = [k \in Token |-> 0]]
    BY <1>8 DEF CollectFeesV2
  <2>2. \A k \in Token : position[p].fee_owed[k] \in Nat
    BY <1>2 DEF IsPosition
  <2>3. wallet' \in [Mint -> Int] /\ budget' \in [Kind -> Nat]
    BY <1>3, <2>1, <2>2, WalletPaid, BudgetSpent
  <2>4. DOMAIN position' = Pool /\ \A q \in Pool : IsPosition(position'[q])
    BY <1>2, <2>1 DEF IsPosition
  <2> QED BY <1>1, <1>2, <2>1, <2>3, <2>4
<1>9. ASSUME NEW p \in Pool, CollectProtocolFeesV2(p) PROVE AccountsInv'
  <2>1. /\ PaidOut(p, pool[p].protocol_fee_owed) /\ Spend("collect")
        /\ UNCHANGED <<position, token2022, transfer_fee>>
        /\ pool' = [pool EXCEPT ![p].protocol_fee_owed = [k \in Token |-> 0]]
    BY <1>9 DEF CollectProtocolFeesV2
  <2>2. \A k \in Token : pool[p].protocol_fee_owed[k] \in Nat
    BY <1>2 DEF IsPool
  <2>3. wallet' \in [Mint -> Int] /\ budget' \in [Kind -> Nat]
    BY <1>3, <2>1, <2>2, WalletPaid, BudgetSpent
  <2>4. DOMAIN pool' = Pool /\ \A q \in Pool : IsPool(pool'[q])
    BY <1>2, <2>1 DEF IsPool
  <2> QED BY <1>1, <1>2, <2>1, <2>3, <2>4
<1>10. ASSUME NEW m \in Mint, NEW f \in FeesSet, SetTransferFee(m, f) PROVE AccountsInv'
  <2>1. /\ m \in token2022 /\ transfer_fee' = [transfer_fee EXCEPT ![m] = f]
        /\ UNCHANGED <<pool, position, wallet, token2022>> /\ Spend("transfer_fee")
    BY <1>10 DEF SetTransferFee
  <2>2. f \in TransferFee
    BY TwoHopAssumption
  <2>3. /\ transfer_fee' \in [Mint -> TransferFee]
        /\ \A q \in Mint \ token2022' : transfer_fee'[q] = NoFee
    BY <2>1, <2>2 DEF AccountsInv
  <2>4. budget' \in [Kind -> Nat]
    BY <1>3, <2>1, BudgetSpent
  <2> QED BY <2>1, <2>3, <2>4 DEF AccountsInv
<1>11. ASSUME NEW a \in Trades, TradeBegin(a) PROVE AccountsInv'
  BY <1>1, <1>2, <1>11 DEF TradeBegin
<1>12. CASE SwapIteration
  BY <1>1, <1>2, <1>12 DEF SwapIteration
<1>13. CASE NextHop
  BY <1>1, <1>2, <1>13 DEF NextHop
<1>14. CASE TradeCommit
  <2>1. /\ wallet' = WalletAfter(trade) /\ Spend("trade")
        /\ UNCHANGED <<position, token2022, transfer_fee>>
        /\ ~Idle /\ trade.current = LastComputed(trade.args) /\ CanCommitTrade(trade)
    BY <1>14 DEF TradeCommit
  <2>2. /\ trade.args \in Trades
        /\ \A i \in 1 .. HopCount(trade) : HopSound(trade, i) /\ HopIn(trade, i) # Err
    BY <2>1, CommitSound DEF TradeSound, HopStopped
  <2>3. wallet' \in [Mint -> Int] /\ budget' \in [Kind -> Nat]
    BY <1>3, <2>1, <2>2, WalletTraded, BudgetSpent
  <2> QED BY <1>1, <1>2, <1>14, <2>1, <2>3, PoolsTraded
<1>15. CASE TradeRevert
  BY <1>1, <1>2, <1>15 DEF TradeRevert
<1> QED BY <1>5, <1>6, <1>7, <1>8, <1>9, <1>10, <1>11, <1>12, <1>13, <1>14, <1>15 DEF Next

----------------------------------------------------------------------------
(* A trade in progress.                                                    *)

\* A trade begins.
LEMMA TradeBegins ==
    ASSUME AccountsInv, NEW a \in Trades, TradeBegin(a)
    PROVE  TradeSound(trade')
<1> DEFINE i == FirstComputed(a)
           isInput == a.amount_specified_is_input
           n == Len(a.hops)
           s == SwapOf(a.hops[i], isInput, a.amount)
           t == trade'
<1>1. /\ TradeAllowed(a) /\ CanSwap(a.hops[i], isInput, a.amount)
      /\ t = [args |-> a, current |-> i,
              amounts |-> [j \in DOMAIN a.hops |-> IF j = i THEN a.amount ELSE 0],
              swaps |-> [j \in DOMAIN a.hops |-> s]]
  BY DEF TradeBegin
<1>2. /\ a.amount \in U64 /\ isInput \in BOOLEAN /\ n \in {1, 2} /\ DOMAIN a.hops = 1 .. n
      /\ \A j \in 1 .. n : a.hops[j] \in Hop
  BY TradeParts
<1>3. i \in 1 .. n
  <2>1. n \in {1, 2} /\ i = IF isInput THEN 1 ELSE n
    BY <1>2 DEF FirstComputed
  <2> HIDE DEF i, n, isInput
  <2> QED BY <2>1
<1>4. /\ SwapAmount(a.hops[i], isInput, a.amount) # Err /\ SwapSound(s)
      /\ s.args = SwapArgsOf(a.hops[i], isInput, a.amount)
  BY <1>1, <1>2, <1>3, HopBegins
<1>5. MintsFit(a)
  BY <1>1 DEF TradeAllowed, MintsFit
<1> HIDE DEF s
<1>6. /\ t.args = a /\ t.current = i /\ t.amounts[i] = a.amount /\ t.swaps[i] = s
      /\ DOMAIN t.amounts = 1 .. n /\ DOMAIN t.swaps = 1 .. n
      /\ DOMAIN t = {"args", "current", "amounts", "swaps"}
  BY <1>1, <1>2, <1>3
<1>7. HopSound(t, i)
  BY <1>2, <1>4, <1>6 DEF HopSound, IsInput
<1> HIDE DEF t
<1>8. TradeSound(t)
  BY <1>5, <1>6, <1>7 DEF TradeSound, HopCount
<1> QED BY <1>8 DEF t

\* An iteration of its loop.
LEMMA TradeIterates ==
    ASSUME AccountsInv, TradeInv, SwapIteration
    PROVE  TradeSound(trade')
<1> DEFINE i == trade.current
           first == FirstComputed(trade.args)
           last == LastComputed(trade.args)
           t == trade'
<1>1. TradeSound(trade)
  BY DEF TradeInv, SwapIteration
<1>2. PICK j, c, at :
        /\ c = SwapComputation(SwappedPool, Swap, at)
        /\ StepOk(SwappedPool, Swap, j, at, c)
        /\ trade' = [trade EXCEPT !.swaps[i] =
                        StepSwap(SwappedPool, Swap, j, at, c, SwappedPool.reward_infos)]
  BY DEF SwapIteration
<1> DEFINE s == StepSwap(SwappedPool, Swap, j, at, c, SwappedPool.reward_infos)
<1>3. /\ trade.args \in Trades /\ HopCount(trade) \in {1, 2}
      /\ \A k \in 1 .. HopCount(trade) : trade.args.hops[k] \in Hop
      /\ trade.args.amount_specified_is_input \in BOOLEAN
  BY <1>1, TradeParts DEF TradeSound, HopCount
<1>4. first \in 1 .. HopCount(trade) /\ last \in 1 .. HopCount(trade) /\ i \in {first, last}
  BY <1>1, <1>3 DEF TradeSound, FirstComputed, LastComputed, HopCount
<1>5. HopSound(trade, i)
  BY <1>1 DEF TradeSound
<1>6. SwapSound(s) /\ s.args = Swap.args
  <2>1. SwappedPool.protocol_fee_rate \in Nat
    <3>1. trade.args.hops[i].pool \in Pool
      BY <1>3, <1>4 DEF Hop
    <3>2. SwappedPool.protocol_fee_rate = InitialProtocolFeeRate
      BY <3>1 DEF AccountsInv, IsPool, SwappedPool
    <3> QED BY <3>2, TwoHopAssumption, MathAssumption
  <2>2. SwapSound(Swap)
    BY <1>5 DEF HopSound, Swap
  <2> QED BY <1>2, <2>1, <2>2, StepSound
<1> HIDE DEF s
<1>7. /\ t.args = trade.args /\ t.current = i /\ t.amounts = trade.amounts
      /\ t.swaps = [trade.swaps EXCEPT ![i] = s] /\ DOMAIN t = DOMAIN trade
  BY <1>1, <1>2 DEF TradeSound, s
<1>8. t.swaps[i] = s /\ \A k \in 1 .. HopCount(trade) : k # i => t.swaps[k] = trade.swaps[k]
  BY <1>1, <1>4, <1>7 DEF TradeSound
<1>9. DOMAIN t.swaps = 1 .. HopCount(trade)
  BY <1>1, <1>7 DEF TradeSound
<1> HIDE DEF t
<1>10. HopSound(t, i)
  BY <1>5, <1>6, <1>7, <1>8 DEF HopSound, IsInput, Swap
<1>11. CASE i = first
  BY <1>1, <1>7, <1>9, <1>10, <1>11 DEF TradeSound, HopCount, t
<1>12. CASE i # first
  <2>1. i = last
    BY <1>4, <1>12
  <2>2. /\ HopSound(trade, first) /\ HopStopped(trade, first)
        /\ trade.amounts[last] = NextAmount(trade)
    BY <1>1, <1>12 DEF TradeSound
  <2>3. t.swaps[first] = trade.swaps[first]
    BY <1>4, <1>8, <1>12
  <2>4. HopSound(t, first) /\ HopStopped(t, first)
    BY <1>7, <2>2, <2>3 DEF HopSound, HopStopped, HopIn, IsInput
  <2>5. NextAmount(t) = NextAmount(trade)
    <3>1. HopCount(trade) = 2
      BY <1>3, <1>4, <1>12
    <3>2. IsInput(trade) => first = 1
      BY DEF IsInput, FirstComputed
    <3>3. ~IsInput(trade) => first = 2
      BY <3>1 DEF IsInput, FirstComputed, HopCount
    <3> HIDE DEF first
    <3> QED BY <1>7, <2>3, <3>2, <3>3 DEF NextAmount, HopIn, HopOut, IsInput
  <2> QED BY <1>1, <1>7, <1>9, <1>10, <1>12, <2>1, <2>2, <2>4, <2>5 DEF TradeSound, HopCount, t
<1> QED BY <1>11, <1>12

\* The second loop begins.
LEMMA TradeGoesOn ==
    ASSUME AccountsInv, TradeInv, NextHop
    PROVE  TradeSound(trade')
<1> DEFINE first == FirstComputed(trade.args)
           i == LastComputed(trade.args)
           amount == NextAmount(trade)
           h == trade.args.hops[i]
           s == SwapOf(h, IsInput(trade), amount)
           t == trade'
<1>1. TradeSound(trade) /\ trade.current # i /\ CanGoOn(trade)
  BY DEF TradeInv, NextHop
<1>2. /\ trade.args \in Trades /\ HopCount(trade) \in {1, 2}
      /\ \A k \in 1 .. HopCount(trade) : trade.args.hops[k] \in Hop
      /\ trade.args.amount_specified_is_input \in BOOLEAN
  BY <1>1, TradeParts DEF TradeSound, HopCount
<1>3. /\ trade.current = first /\ first # i /\ HopCount(trade) = 2
      /\ first \in {1, 2} /\ i \in {1, 2}
      /\ (IsInput(trade) => first = 1) /\ (~IsInput(trade) => first = 2)
  BY <1>1, <1>2 DEF TradeSound, FirstComputed, LastComputed, HopCount, IsInput
<1>4. HopSound(trade, first) /\ HopStopped(trade, first)
  BY <1>1, <1>3 DEF TradeSound, CanGoOn, HopDone, HopStopped
<1>5. amount \in U64
  <2>1. CASE IsInput(trade)
    <3>1. HopOut(trade, 1) \in U64
      BY <1>2, <1>3, <1>4, <2>1, HopGives
    <3> QED BY <2>1, <3>1 DEF NextAmount
  <2>2. CASE ~IsInput(trade)
    <3>1. HopSound(trade, 2) /\ HopIn(trade, 2) # Err /\ 2 \in 1 .. HopCount(trade)
      BY <1>3, <1>4, <2>2 DEF HopStopped
    <3>2. TransferFeeExcludedAmount(transfer_fee[InMint(trade.args.hops[2])], HopIn(trade, 2))
            = AmountIn(trade.swaps[2])
      BY <1>2, <3>1, HopTakes
    <3>3. AmountIn(trade.swaps[2]) \in U64
      BY <3>1, SwapReturns DEF HopSound
    <3> QED BY <2>2, <3>2, <3>3 DEF NextAmount
  <2> QED BY <2>1, <2>2
<1>6. h \in Hop /\ CanSwap(h, IsInput(trade), amount)
  BY <1>1, <1>2, <1>3 DEF CanGoOn
<1>7. /\ SwapAmount(h, IsInput(trade), amount) # Err /\ SwapSound(s)
      /\ s.args = SwapArgsOf(h, IsInput(trade), amount)
  BY <1>2, <1>5, <1>6, HopBegins DEF IsInput
<1>8. trade' = [trade EXCEPT !.current = i, !.amounts[i] = amount, !.swaps[i] = s]
  BY DEF NextHop
<1> HIDE DEF s, amount
<1>9. /\ t.args = trade.args /\ t.current = i /\ DOMAIN t = DOMAIN trade
      /\ t.amounts = [trade.amounts EXCEPT ![i] = amount]
      /\ t.swaps = [trade.swaps EXCEPT ![i] = s]
  BY <1>1, <1>8 DEF TradeSound
<1>10. /\ DOMAIN trade.amounts = 1 .. 2 /\ DOMAIN trade.swaps = 1 .. 2
       /\ 1 \in 1 .. 2 /\ 2 \in 1 .. 2
  BY <1>1, <1>3 DEF TradeSound
<1> HIDE DEF t, i, first
<1>11. /\ t.amounts[i] = amount /\ t.swaps[i] = s
       /\ t.amounts[first] = trade.amounts[first] /\ t.swaps[first] = trade.swaps[first]
       /\ DOMAIN t.amounts = 1 .. 2 /\ DOMAIN t.swaps = 1 .. 2
  BY <1>3, <1>9, <1>10
<1>12. HopSound(t, first) /\ HopStopped(t, first)
  BY <1>4, <1>9, <1>11 DEF HopSound, HopStopped, HopIn, IsInput
<1>13. HopSound(t, i)
  BY <1>5, <1>7, <1>9, <1>11 DEF HopSound, IsInput
<1>14. NextAmount(t) = amount
  BY <1>3, <1>9, <1>11 DEF NextAmount, HopIn, HopOut, IsInput, amount
<1>15. TradeSound(t)
  BY <1>1, <1>3, <1>9, <1>11, <1>12, <1>13, <1>14 DEF TradeSound, HopCount, first, i
<1> QED BY <1>15 DEF t

\* A step leaves it sound, or ends it.
LEMMA TradeNext ==
    ASSUME AccountsInv, TradeInv, [Next]_vars
    PROVE  TradeInv'
<1>1. ASSUME Idle' PROVE TradeInv'
  BY <1>1 DEF TradeInv
<1>2. CASE UNCHANGED vars
  <2>1. CASE Idle
    BY <1>1, <1>2, <2>1 DEF vars, Idle
  <2>2. CASE ~Idle
    <3>1. TradeSound(trade')
      BY <1>2, <2>2 DEF TradeInv, vars
    <3> QED BY <1>2, <3>1, SoundKept DEF vars
  <2> QED BY <2>1, <2>2
<1>3. ASSUME NEW p \in Pool, NEW amount, IncreaseLiquidityV2(p, amount) PROVE TradeInv'
  BY <1>1, <1>3 DEF IncreaseLiquidityV2, Idle
<1>4. ASSUME NEW p \in Pool, NEW amount, DecreaseLiquidityV2(p, amount) PROVE TradeInv'
  BY <1>1, <1>4 DEF DecreaseLiquidityV2, Idle
<1>5. ASSUME NEW p \in Pool, CollectFeesV2(p) PROVE TradeInv'
  BY <1>1, <1>5 DEF CollectFeesV2, Idle
<1>6. ASSUME NEW p \in Pool, CollectProtocolFeesV2(p) PROVE TradeInv'
  BY <1>1, <1>6 DEF CollectProtocolFeesV2, Idle
<1>7. ASSUME NEW m \in Mint, NEW f \in FeesSet, SetTransferFee(m, f) PROVE TradeInv'
  BY <1>1, <1>7 DEF SetTransferFee, Idle
<1>8. ASSUME NEW a \in Trades, TradeBegin(a) PROVE TradeInv'
  BY <1>8, TradeBegins, SoundKept DEF TradeBegin
<1>9. CASE SwapIteration
  BY <1>9, TradeIterates, SoundKept DEF SwapIteration
<1>10. CASE NextHop
  BY <1>10, TradeGoesOn, SoundKept DEF NextHop
<1>11. CASE TradeCommit
  BY <1>1, <1>11 DEF TradeCommit, Idle
<1>12. CASE TradeRevert
  BY <1>1, <1>12 DEF TradeRevert, Idle
<1> QED BY <1>2, <1>3, <1>4, <1>5, <1>6, <1>7, <1>8, <1>9, <1>10, <1>11, <1>12 DEF Next

----------------------------------------------------------------------------
(* A trade that is carried out.                                            *)

\* Only TradeCommit carries one out.
LEMMA CommittedBy ==
    ASSUME AccountsInv, [Next]_vars, TradeCommitted
    PROVE  TradeCommit
<1>1. ~Idle /\ budget'["trade"] < budget["trade"]
  BY DEF TradeCommitted
<1>2. "trade" \in Kind /\ budget["trade"] \in Nat
  BY DEF AccountsInv, Kind
<1>3. budget' # budget
  <2> SUFFICES ASSUME budget' = budget PROVE FALSE
    OBVIOUS
  <2> QED BY <1>1, <1>2
<1>4. Next
  BY <1>3 DEF vars
<1>5. \A p \in Pool : /\ \A amount : ~IncreaseLiquidityV2(p, amount)
                      /\ \A amount : ~DecreaseLiquidityV2(p, amount)
                      /\ ~CollectFeesV2(p) /\ ~CollectProtocolFeesV2(p)
  BY <1>1 DEF IncreaseLiquidityV2, DecreaseLiquidityV2, CollectFeesV2, CollectProtocolFeesV2
<1>6. /\ \A m, f : ~SetTransferFee(m, f)
      /\ \A a : ~TradeBegin(a)
  BY <1>1 DEF SetTransferFee, TradeBegin
<1>7. ~SwapIteration /\ ~NextHop /\ ~TradeRevert
  BY <1>3 DEF SwapIteration, NextHop, TradeRevert
<1> QED BY <1>4, <1>5, <1>6, <1>7 DEF Next

\* It moves of the first mint what goes into the first hop, of the last what arrives of what
\* the last one gives, and of the one in between, in the first version only, what the second
\* hop is sent against what arrives of what the first one gives.
LEMMA WalletMoves ==
    ASSUME AccountsInv, TradeInv, TradeCommit
    PROVE  LET n == HopCount(trade)
               in == InMint(trade.args.hops[1])
               out == OutMint(trade.args.hops[n])
               between == InMint(trade.args.hops[2])
           IN  /\ in # out =>
                    /\ Spent(in) = HopIn(trade, 1)
                    /\ -Spent(out) = TransferFeeExcludedAmount(transfer_fee[out],
                                                               HopOut(trade, n))
               /\ n = 2 =>
                    /\ between \in Mint /\ between \notin {in, out}
                    /\ trade.args.version = 2 => wallet'[between] = wallet[between]
                    /\ trade.args.version = 1 =>
                         Spent(between) = HopIn(trade, 2) - HopOut(trade, 1)
<1> DEFINE a == trade.args
           n == HopCount(trade)
           in == InMint(a.hops[1])
           out == OutMint(a.hops[n])
           between == InMint(a.hops[2])
           in1 == HopIn(trade, 1)
           arrives == TransferFeeExcludedAmount(transfer_fee[out], HopOut(trade, n))
           kept == TransferFeeExcludedAmount(transfer_fee[between], HopOut(trade, 1))
           paid == [wallet EXCEPT ![in] = @ - in1]
           mid == WalletBetween(trade)
<1>1. /\ TradeSound(trade) /\ wallet' = WalletAfter(trade)
      /\ \A i \in 1 .. n : HopSound(trade, i) /\ HopIn(trade, i) # Err
  BY CommitSound DEF TradeCommit, HopStopped
<1>2. a \in Trades /\ MintsFit(a)
  BY <1>1 DEF TradeSound
<1>3. /\ n \in {1, 2} /\ (n = 1 => a.version = 2) /\ a.version \in {1, 2}
      /\ \A i \in 1 .. n : a.hops[i] \in Hop
      /\ DOMAIN a.hops = 1 .. n
  BY <1>2, TradeParts DEF HopCount
<1>4. 1 \in 1 .. n /\ n \in 1 .. n /\ (n = 2 => 2 \in 1 .. n)
  BY <1>3
<1>5. \A i \in 1 .. n : /\ InMint(a.hops[i]) \in Mint /\ OutMint(a.hops[i]) \in Mint
                        /\ InMint(a.hops[i]) # OutMint(a.hops[i])
  BY <1>3, HopMints
<1>6. n = 2 => between = OutMint(a.hops[1]) /\ between \notin {in, out} /\ between \in Mint
  <2>1. n = 2 => between = OutMint(a.hops[1])
    BY <1>2 DEF MintsFit, HopCount
  <2> QED BY <1>4, <1>5, <2>1
<1>7. \A i \in 1 .. n : /\ HopIn(trade, i) \in Nat /\ HopOut(trade, i) \in Nat
                        /\ TransferFeeExcludedAmount(
                              transfer_fee[OutMint(a.hops[i])], HopOut(trade, i)) \in Nat
  <2> SUFFICES ASSUME NEW i \in 1 .. n
               PROVE  /\ HopIn(trade, i) \in Nat /\ HopOut(trade, i) \in Nat
                      /\ TransferFeeExcludedAmount(
                            transfer_fee[OutMint(a.hops[i])], HopOut(trade, i)) \in Nat
    OBVIOUS
  <2>1. HopIn(trade, i) \in U64 /\ HopOut(trade, i) \in U64
    BY <1>1, <1>2, HopTakes, HopGives
  <2>2. TransferFeeExcludedAmount(transfer_fee[OutMint(a.hops[i])], HopOut(trade, i)) \in Nat
    BY <1>1, <1>2, HopGives
  <2> QED BY <2>1, <2>2, SmallNumbers
<1>8. in1 \in Nat /\ arrives \in Nat /\ in \in Mint /\ out \in Mint
  BY <1>4, <1>5, <1>7
<1>9. wallet \in [Mint -> Int]
  BY DEF AccountsInv
<1>10. wallet' = [mid EXCEPT ![out] = @ + arrives]
  BY <1>1 DEF WalletAfter, Received
<1>11. a.version = 2 => mid = paid
  BY DEF WalletBetween, Sent
<1>12. ASSUME n = 2, a.version = 1
       PROVE  /\ mid = [[paid EXCEPT ![between] = @ + kept] EXCEPT ![between] = @ - HopIn(trade, 2)]
              /\ kept = HopOut(trade, 1)
              /\ HopOut(trade, 1) \in Nat /\ HopIn(trade, 2) \in Nat
  <2>1. mid = [[paid EXCEPT ![between] = @ + kept] EXCEPT ![between] = @ - HopIn(trade, 2)]
    BY <1>12 DEF WalletBetween, Sent, Received
  <2>2. HopOut(trade, 1) \in Nat /\ HopIn(trade, 2) \in Nat
    BY <1>4, <1>7, <1>12
  <2>3. transfer_fee[between] = NoFee
    <3>1. between \notin token2022
      BY <1>2, <1>3, <1>4, <1>12 DEF MintsFit
    <3> QED BY <1>6, <1>12, <3>1 DEF AccountsInv
  <2>4. TransferFeeExcludedAmount(NoFee, HopOut(trade, 1)) = HopOut(trade, 1)
    BY <2>2, WithoutFee
  <2> QED BY <2>1, <2>2, <2>3, <2>4
<1>13. n = 1 \/ n = 2
  BY <1>3
<1> DEFINE in2 == HopIn(trade, 2)
           out1 == HopOut(trade, 1)
           version == a.version
<1>14. version = 1 => n = 2
  BY <1>3
<1>15. version = 1 \/ version = 2
  BY <1>3
<1>16. /\ (in # out => wallet'[in] = wallet[in] - in1 /\ wallet'[out] = wallet[out] + arrives)
       /\ (n = 2 /\ version = 2 => wallet'[between] = wallet[between])
       /\ (n = 2 /\ version = 1 => wallet'[between] = wallet[between] + out1 - in2)
  <2>1. CASE version = 2
    <3>1. wallet' = [paid EXCEPT ![out] = @ + arrives]
      BY <1>10, <1>11, <2>1
    <3> HIDE DEF in, out, between, in1, arrives, n, version, mid
    <3> QED BY <1>6, <1>8, <1>9, <2>1, <3>1
  <2>2. CASE version = 1
    <3>1. n = 2
      BY <1>14, <2>2
    <3>2. mid = [[paid EXCEPT ![between] = @ + out1] EXCEPT ![between] = @ - in2]
          /\ out1 \in Nat /\ in2 \in Nat
      BY <1>12, <2>2, <3>1
    <3>3. between \notin {in, out} /\ between \in Mint
      BY <1>6, <3>1
    <3> HIDE DEF in, out, between, in1, arrives, n, version, mid, out1, in2
    <3>4. paid \in [Mint -> Int] /\ paid[in] = wallet[in] - in1
          /\ \A m \in Mint : m # in => paid[m] = wallet[m]
      BY <1>8, <1>9
    <3> HIDE DEF paid
    <3>5. /\ mid \in [Mint -> Int] /\ mid[between] = (paid[between] + out1) - in2
          /\ \A m \in Mint : m # between => mid[m] = paid[m]
      BY <3>2, <3>3, <3>4
    <3>6. /\ wallet'[out] = mid[out] + arrives
          /\ \A m \in Mint : m # out => wallet'[m] = mid[m]
      BY <1>8, <1>10, <3>5
    <3>7. wallet'[between] = (wallet[between] + out1) - in2
      BY <3>3, <3>4, <3>5, <3>6
    <3>8. wallet'[between] = wallet[between] + out1 - in2
      <4>1. wallet[between] \in Int
        BY <1>9, <3>3
      <4> QED BY <3>2, <3>7, <4>1
    <3> QED BY <1>8, <2>2, <3>3, <3>4, <3>5, <3>6, <3>8
  <2> QED BY <1>15, <2>1, <2>2
<1>17. /\ wallet[in] \in Int /\ wallet[out] \in Int
       /\ n = 2 => wallet[between] \in Int
  BY <1>6, <1>8, <1>9
<1>18. in # out => Spent(in) = in1 /\ -Spent(out) = arrives
  <2> HIDE DEF in, out, in1, arrives
  <2> QED BY <1>8, <1>16, <1>17 DEF Spent
<1>19. n = 2 /\ version = 1 => Spent(between) = in2 - out1
  <2>1. n = 2 /\ version = 1 => out1 \in Nat /\ in2 \in Nat
    BY <1>12
  <2> HIDE DEF between, in2, out1, n, version
  <2> QED BY <1>16, <1>17, <2>1 DEF Spent
<1> QED BY <1>6, <1>16, <1>18, <1>19

\* The hops of a trade that is carried out, and what they move.
LEMMA Committed ==
    ASSUME AccountsInv, TradeInv, [Next]_vars, TradeCommitted
    PROVE  /\ TradeCommit /\ TradeSound(trade) /\ CanCommitTrade(trade)
           /\ trade.args \in Trades /\ HopCount(trade) \in {1, 2}
           /\ trade.args.version \in {1, 2} /\ IsInput(trade) \in BOOLEAN
           /\ \A i \in 1 .. HopCount(trade) :
                 /\ HopSound(trade, i) /\ HopStopped(trade, i) /\ HopIn(trade, i) # Err
<1>1. TradeCommit
  BY CommittedBy
<1>2. /\ TradeSound(trade) /\ CanCommitTrade(trade)
      /\ \A i \in 1 .. HopCount(trade) : HopSound(trade, i) /\ HopStopped(trade, i)
  BY <1>1, CommitSound DEF TradeCommit
<1>3. trade.args \in Trades
  BY <1>2 DEF TradeSound
<1> QED BY <1>1, <1>2, <1>3, TradeParts DEF HopCount, HopStopped, IsInput

\* A hop whose swap did not come to its price limit takes or gives all it was asked to.
LEMMA HopInFull ==
    ASSUME AccountsInv, TradeInv, [Next]_vars, TradeCommitted, NEW i \in 1 .. HopCount(trade),
           ~ReachedLimit(i)
    PROVE  IF IsInput(trade) THEN AmountIn(trade.swaps[i]) = trade.swaps[i].args.amount
           ELSE HopOut(trade, i) = trade.swaps[i].args.amount
<1> DEFINE s == trade.swaps[i]
<1>1. SwapSound(s) /\ ~SwapRunning(s) /\ s.args.amount_specified_is_input = IsInput(trade)
  <2>1. HopSound(trade, i) /\ HopStopped(trade, i)
    BY Committed
  <2>2. s.args = SwapArgsOf(trade.args.hops[i], IsInput(trade), trade.amounts[i])
    BY <2>1 DEF HopSound
  <2>3. s.args.amount_specified_is_input = IsInput(trade)
    BY <2>2 DEF SwapArgsOf
  <2> QED BY <2>1, <2>3 DEF HopSound, HopStopped
<1>2. s.curr_sqrt_price # s.args.sqrt_price_limit
  BY DEF ReachedLimit
<1> HIDE DEF s
<1>3. IF IsInput(trade) THEN AmountIn(s) = s.args.amount ELSE AmountOut(s) = s.args.amount
  BY <1>1, <1>2, SwapReturns
<1> QED BY <1>3 DEF s, HopOut

(***************************************************************************)
(* In the second version the second pool's swap takes in exactly what      *)
(* arrives of what the first one's gave out, and none of the token in      *)
(* between is gained or spent, whatever the mints withhold and however     *)
(* the amounts are rounded.                                                *)
(***************************************************************************)
THEOREM IntermediateIsConsumed == Spec => IntermediateConsumed
<1> DEFINE Consumed ==
      TradeCommitted /\ HopCount(trade) = 2 /\ trade.args.version = 2 =>
        LET mint == InMint(trade.args.hops[2])
        IN  /\ AmountIn(trade.swaps[2])
                  = TransferFeeExcludedAmount(transfer_fee[mint], AmountOut(trade.swaps[1]))
            /\ mint \notin {InMint(trade.args.hops[1]), OutMint(trade.args.hops[2])}
            /\ wallet'[mint] = wallet[mint]
<1>1. ASSUME AccountsInv, TradeInv, [Next]_vars PROVE Consumed
  <2> SUFFICES ASSUME TradeCommitted, HopCount(trade) = 2, trade.args.version = 2
               PROVE  LET mint == InMint(trade.args.hops[2])
                      IN  /\ AmountIn(trade.swaps[2])
                                = TransferFeeExcludedAmount(transfer_fee[mint],
                                                            AmountOut(trade.swaps[1]))
                          /\ mint \notin {InMint(trade.args.hops[1]), OutMint(trade.args.hops[2])}
                          /\ wallet'[mint] = wallet[mint]
    OBVIOUS
  <2> DEFINE mint == InMint(trade.args.hops[2])
  <2>1. /\ TradeCommit /\ CanCommitTrade(trade) /\ trade.args \in Trades
        /\ \A i \in 1 .. HopCount(trade) : HopSound(trade, i) /\ HopIn(trade, i) # Err
    BY <1>1, Committed
  <2>2. HopOut(trade, 1) = HopIn(trade, 2)
    BY <2>1 DEF CanCommitTrade, IntermediateMatches
  <2>3. 2 \in 1 .. HopCount(trade)
    OBVIOUS
  <2>4. TransferFeeExcludedAmount(transfer_fee[mint], HopIn(trade, 2)) = AmountIn(trade.swaps[2])
    BY <1>1, <2>1, <2>3, HopTakes
  <2>5. /\ mint \notin {InMint(trade.args.hops[1]), OutMint(trade.args.hops[2])}
        /\ wallet'[mint] = wallet[mint]
    BY <1>1, <2>1, WalletMoves
  <2> QED BY <2>2, <2>4, <2>5 DEF HopOut
<1>2. AccountsInv /\ TradeInv /\ [Next]_vars => [Consumed]_vars
  BY <1>1
<1>3. Init => AccountsInv /\ TradeInv
  BY AccountsInit DEF Init, TradeInv, Idle
<1>4. AccountsInv /\ TradeInv /\ [Next]_vars => AccountsInv' /\ TradeInv'
  BY AccountsNext, TradeNext
<1> QED BY <1>2, <1>3, <1>4, PTL DEF Spec, IntermediateConsumed

(***************************************************************************)
(* Of the fixed end of a trade exactly the amount asked for is sent or     *)
(* arrives, unless the swap of that end came to its price limit and then   *)
(* less; of the other end at most the threshold is sent, or at least it    *)
(* arrives.                                                                *)
(***************************************************************************)
THEOREM TradesAreAsAsked == Spec => TradeIsAsAsked
<1> DEFINE AsAsked ==
      TradeCommitted =>
        LET a == trade.args
            n == HopCount(trade)
            in == InMint(a.hops[1])
            out == OutMint(a.hops[n])
        IN  in # out =>
              IF a.amount_specified_is_input
              THEN /\ Spent(in) <= a.amount
                   /\ Spent(in) = a.amount \/ ReachedLimit(1)
                   /\ -Spent(out) >= a.other_amount_threshold
              ELSE /\ -Spent(out) <= a.amount
                   /\ -Spent(out) = a.amount \/ ReachedLimit(n)
                   /\ Spent(in) <= a.other_amount_threshold
<1>1. ASSUME AccountsInv, TradeInv, [Next]_vars PROVE AsAsked
  <2> DEFINE a == trade.args
             n == HopCount(trade)
             in == InMint(a.hops[1])
             out == OutMint(a.hops[n])
             in1 == HopIn(trade, 1)
             arrives == TransferFeeExcludedAmount(transfer_fee[out], HopOut(trade, n))
  <2> SUFFICES ASSUME TradeCommitted, in # out
               PROVE  IF a.amount_specified_is_input
                      THEN /\ Spent(in) <= a.amount
                           /\ Spent(in) = a.amount \/ ReachedLimit(1)
                           /\ -Spent(out) >= a.other_amount_threshold
                      ELSE /\ -Spent(out) <= a.amount
                           /\ -Spent(out) = a.amount \/ ReachedLimit(n)
                           /\ Spent(in) <= a.other_amount_threshold
    OBVIOUS
  <2>1. /\ TradeCommit /\ TradeSound(trade) /\ CanCommitTrade(trade)
        /\ a \in Trades /\ n \in {1, 2} /\ IsInput(trade) \in BOOLEAN
        /\ \A i \in 1 .. n : HopSound(trade, i) /\ HopIn(trade, i) # Err
    BY <1>1, Committed
  <2>2. 1 \in 1 .. n /\ n \in 1 .. n
    BY <2>1
  <2>3. Spent(in) = in1 /\ -Spent(out) = arrives
    BY <1>1, <2>1, WalletMoves
  <2>4. trade.amounts[FirstComputed(a)] = a.amount
    BY <2>1 DEF TradeSound
  <2>5. IF IsInput(trade) THEN arrives >= a.other_amount_threshold
        ELSE in1 <= a.other_amount_threshold
    BY <2>1 DEF CanCommitTrade, TradeWithinThreshold
  <2>6. ASSUME IsInput(trade)
        PROVE  in1 <= a.amount /\ (in1 = a.amount \/ ReachedLimit(1))
    <3>1. trade.amounts[1] = a.amount
      BY <2>4, <2>6 DEF FirstComputed, IsInput
    <3>2. /\ in1 <= trade.amounts[1]
          /\ AmountIn(trade.swaps[1]) = trade.swaps[1].args.amount => in1 = trade.amounts[1]
      BY <1>1, <2>1, <2>2, <2>6, HopTakes
    <3>3. ~ReachedLimit(1) => AmountIn(trade.swaps[1]) = trade.swaps[1].args.amount
      BY <1>1, <2>2, <2>6, HopInFull
    <3> QED BY <3>1, <3>2, <3>3
  <2>7. ASSUME ~IsInput(trade)
        PROVE  arrives <= a.amount /\ (arrives = a.amount \/ ReachedLimit(n))
    <3>1. trade.amounts[n] = a.amount
      BY <2>4, <2>7 DEF FirstComputed, IsInput, HopCount
    <3>2. /\ arrives <= trade.amounts[n]
          /\ HopOut(trade, n) = trade.swaps[n].args.amount => arrives = trade.amounts[n]
      BY <1>1, <2>1, <2>2, <2>7, HopGives
    <3>3. ~ReachedLimit(n) => HopOut(trade, n) = trade.swaps[n].args.amount
      BY <1>1, <2>2, <2>7, HopInFull
    <3> QED BY <3>1, <3>2, <3>3
  <2> HIDE DEF in, out, in1, arrives, n
  <2> QED BY <2>3, <2>5, <2>6, <2>7 DEF IsInput
<1>2. AccountsInv /\ TradeInv /\ [Next]_vars => [AsAsked]_vars
  BY <1>1
<1>3. Init => AccountsInv /\ TradeInv
  BY AccountsInit DEF Init, TradeInv, Idle
<1>4. AccountsInv /\ TradeInv /\ [Next]_vars => AccountsInv' /\ TradeInv'
  BY AccountsNext, TradeNext
<1> QED BY <1>2, <1>3, <1>4, PTL DEF Spec, TradeIsAsAsked

(***************************************************************************)
(* Nothing the trader had of the token in between is spent, except in the  *)
(* first version, for an exact output, when the first hop came to its      *)
(* limit and gave less than the second one takes.                          *)
(***************************************************************************)
THEOREM IntermediateIsNotSpent == Spec => IntermediateNotSpent
<1> DEFINE NotSpent ==
      TradeCommitted /\ HopCount(trade) = 2 =>
        \/ Spent(InMint(trade.args.hops[2])) <= 0
        \/ /\ trade.args.version = 1
           /\ ~trade.args.amount_specified_is_input
           /\ ReachedLimit(1)
<1>1. ASSUME AccountsInv, TradeInv, [Next]_vars PROVE NotSpent
  <2> DEFINE between == InMint(trade.args.hops[2])
             in2 == HopIn(trade, 2)
             out1 == HopOut(trade, 1)
             version == trade.args.version
  <2> SUFFICES ASSUME TradeCommitted, HopCount(trade) = 2
               PROVE  \/ Spent(between) <= 0
                      \/ version = 1 /\ ~IsInput(trade) /\ ReachedLimit(1)
    BY DEF IsInput
  <2>1. /\ TradeCommit /\ TradeSound(trade) /\ trade.args \in Trades
        /\ version \in {1, 2} /\ IsInput(trade) \in BOOLEAN
        /\ \A i \in 1 .. 2 : HopSound(trade, i) /\ HopIn(trade, i) # Err
    BY <1>1, Committed
  <2>2. 1 \in 1 .. HopCount(trade) /\ 2 \in 1 .. HopCount(trade) /\ 1 \in 1 .. 2 /\ 2 \in 1 .. 2
    OBVIOUS
  <2>3. /\ between \in Mint
        /\ version = 2 => wallet'[between] = wallet[between]
        /\ version = 1 => Spent(between) = in2 - out1
    BY <1>1, <2>1, WalletMoves
  <2>4. in2 \in Nat /\ out1 \in Nat
    BY <1>1, <2>1, <2>2, HopTakes, HopGives, SmallNumbers
  <2>5. CASE version = 2
    <3>1. wallet[between] \in Int
      BY <1>1, <2>3 DEF AccountsInv
    <3> HIDE DEF between
    <3> QED BY <2>3, <2>5, <3>1 DEF Spent
  <2>6. CASE version = 1 /\ IsInput(trade)
    <3>1. trade.amounts[2] = out1
      <4>1. trade.current = 2 /\ FirstComputed(trade.args) = 1 /\ LastComputed(trade.args) = 2
        BY <2>1, <2>6 DEF TradeCommit, FirstComputed, LastComputed, IsInput, HopCount
      <4> QED BY <2>1, <2>6, <4>1 DEF TradeSound, NextAmount
    <3>2. in2 <= trade.amounts[2]
      BY <1>1, <2>1, <2>2, <2>6, HopTakes
    <3> HIDE DEF between, in2, out1
    <3> QED BY <2>3, <2>4, <2>6, <3>1, <3>2
  <2>7. CASE version = 1 /\ ~IsInput(trade) /\ ~ReachedLimit(1)
    <3>1. between = OutMint(trade.args.hops[1]) /\ transfer_fee[between] = NoFee
      <4>1. MintsFit(trade.args) /\ DOMAIN trade.args.hops = 1 .. 2
        BY <2>1, TradeParts DEF TradeSound, HopCount
      <4>2. between = OutMint(trade.args.hops[1]) /\ between \notin token2022
        BY <2>2, <2>7, <4>1 DEF MintsFit, HopCount
      <4> QED BY <1>1, <2>3, <4>2 DEF AccountsInv
    <3>2. trade.amounts[1] = in2
      <4>1. trade.current = 1 /\ FirstComputed(trade.args) = 2 /\ LastComputed(trade.args) = 1
        BY <2>1, <2>7 DEF TradeCommit, FirstComputed, LastComputed, IsInput, HopCount
      <4>2. trade.amounts[1] = TransferFeeExcludedAmount(transfer_fee[between], in2)
        BY <2>1, <2>7, <4>1 DEF TradeSound, NextAmount
      <4>3. TransferFeeExcludedAmount(NoFee, in2) = in2
        BY <2>4, WithoutFee
      <4> QED BY <3>1, <4>2, <4>3
    <3>3. out1 = trade.amounts[1]
      <4>1. out1 = trade.swaps[1].args.amount
        BY <1>1, <2>2, <2>7, HopInFull
      <4>2. TransferFeeExcludedAmount(transfer_fee[OutMint(trade.args.hops[1])], out1)
              = trade.amounts[1]
        BY <1>1, <2>1, <2>2, <2>7, <4>1, HopGives
      <4>3. TransferFeeExcludedAmount(NoFee, out1) = out1
        BY <2>4, WithoutFee
      <4> QED BY <3>1, <4>2, <4>3
    <3> HIDE DEF between, in2, out1
    <3> QED BY <2>3, <2>4, <2>7, <3>2, <3>3
  <2> QED BY <2>1, <2>5, <2>6, <2>7
<1>2. AccountsInv /\ TradeInv /\ [Next]_vars => [NotSpent]_vars
  BY <1>1
<1>3. Init => AccountsInv /\ TradeInv
  BY AccountsInit DEF Init, TradeInv, Idle
<1>4. AccountsInv /\ TradeInv /\ [Next]_vars => AccountsInv' /\ TradeInv'
  BY AccountsNext, TradeNext
<1> QED BY <1>2, <1>3, <1>4, PTL DEF Spec, IntermediateNotSpent

----------------------------------------------------------------------------
(***************************************************************************)
(* One pool of them, alone.  What a two-hop trade, the second version of   *)
(* the instructions and the transfer fees do to ThePool, whichever pool    *)
(* that is, are the steps of a ClmmPool with one position; so what         *)
(* EarningsProofs proves of those holds of ThePool.                        *)
(***************************************************************************)

CONSTANT ThePool

\* The hops in ThePool of a trade whose swap has begun: at most one.
Begun(t) == {i \in HopsIn(t, ThePool) : i \in {FirstComputed(t.args), t.current}}

\* A swap as ClmmPool has it, which asks for a threshold; a trade has its own.
Alone(s) ==
    [args |-> [a_to_b |-> s.args.a_to_b,
               amount_specified_is_input |-> s.args.amount_specified_is_input,
               amount |-> s.args.amount, sqrt_price_limit |-> s.args.sqrt_price_limit,
               other_amount_threshold |->
                  IF s.args.amount_specified_is_input THEN 0 ELSE Q64 - 1,
               arrays |-> s.args.arrays],
     amount_remaining |-> s.amount_remaining, amount_calculated |-> s.amount_calculated,
     curr_sqrt_price |-> s.curr_sqrt_price, curr_tick_index |-> s.curr_tick_index,
     curr_liquidity |-> s.curr_liquidity, curr_protocol_fee |-> s.curr_protocol_fee,
     curr_array_index |-> s.curr_array_index,
     curr_fee_growth_global_input |-> s.curr_fee_growth_global_input, ticks |-> s.ticks]

SwapIn(t) ==
    IF t = NoTrade \/ Begun(t) = {} THEN NoTrade ELSE Alone(t.swaps[CHOOSE i \in Begun(t) : TRUE])

TheVault == [k \in Token \cup Reward |-> IF k \in Token THEN vault[ThePool][k] ELSE 0]

TheBudget ==
    [k \in {"array", "open", "liquidity", "swap", "collect", "fee_rate", "reward", "time"} |->
        IF k = "swap" THEN budget["trade"] + 1
        ELSE IF k \in {"liquidity", "collect"} THEN budget[k] ELSE 0]

One == INSTANCE EarningsProofs WITH
    NumPositions <- 1, MAX_FEE_RATE <- InitialFeeRate,
    MAX_PROTOCOL_FEE_RATE <- InitialProtocolFeeRate, DAY_IN_SECONDS <- 0, Supply <- Q64 - 1,
    StartTime <- 0, InitialPrices <- {InitialPrice}, PositionRanges <- {PositionRange[ThePool]},
    SwapArgs <- [a_to_b : BOOLEAN, amount_specified_is_input : BOOLEAN, amount : U64,
                 sqrt_price_limit : U128, other_amount_threshold : U64, arrays : Seq(Int)],
    FeeRates <- {}, ProtocolFeeRates <- {}, Emissions <- {}, Fundings <- {}, Budgets <- {},
    pool <- pool[ThePool], ticks <- ticks[ThePool], arrays <- ArrayStart,
    positions <- <<position[ThePool]>>, vault <- TheVault, now <- 0, swap <- SwapIn(trade),
    budget <- TheBudget, emitted <- [r \in Reward |-> 0], paid <- [r \in Reward |-> 0]

----------------------------------------------------------------------------
(* The definitions that ClmmPool and this module share.                    *)

LEMMA SameSets ==
    /\ One!Token = Token /\ One!Reward = Reward /\ One!U64 = U64 /\ One!U128 = U128
    /\ One!I128 = I128 /\ One!TickIndex = TickIndex /\ One!UsableTick = UsableTick
    /\ One!ArrayStart = ArrayStart /\ One!Err = Err
    /\ One!MIN_SQRT_PRICE_X64 = MIN_SQRT_PRICE_X64
    /\ One!MAX_SQRT_PRICE_X64 = MAX_SQRT_PRICE_X64
    /\ One!DefaultTick = DefaultTick
BY DEF One!Token, One!Reward, One!U64, One!U128, One!I128, One!TickIndex, One!UsableTick,
       One!ArrayStart, One!Err, One!MIN_SQRT_PRICE_X64, One!MAX_SQRT_PRICE_X64,
       One!DefaultTick, Token, Reward, U64, U128, I128, TickIndex, UsableTick, ArrayStart, Err,
       MIN_SQRT_PRICE_X64, MAX_SQRT_PRICE_X64, DefaultTick, One!IsValidStartTick,
       One!MinArrayStart, One!TicksInArray, IsValidStartTick, MinArrayStart, TicksInArray

\* The constants are as ClmmPool assumes them to be.
LEMMA OneAssumptions ==
    ASSUME ThePool \in Pool
    PROVE  One!MathAssumption /\ One!RewardAssumption /\ One!TickAssumption /\ One!PoolAssumption
<1>1. One!MathAssumption
  BY MathAssumption, SameSets DEF One!MathAssumption
<1>2. One!RewardAssumption
  BY RewardAssumption DEF One!RewardAssumption
<1>3. One!TickAssumption
  BY TickAssumption DEF One!TickAssumption
<1>4. One!PoolAssumption
  <2>1. {PositionRange[ThePool]} \subseteq Int \X Int
    <3>1. UsableTick \subseteq Int
      BY MathAssumption DEF UsableTick, TickIndex
    <3>2. PositionRange[ThePool] \in UsableTick \X UsableTick
      BY TwoHopAssumption
    <3> QED BY <3>1, <3>2
  <2>2. Q64 - 1 \in U64 /\ Q64 - 1 \in Nat
    BY MathAssumption DEF U64
  <2>3. /\ InitialFeeRate \in 0 .. FEE_RATE_MUL_VALUE - 1
        /\ InitialProtocolFeeRate \in 0 .. PROTOCOL_FEE_RATE_MUL_VALUE
        /\ InitialFeeRate \in 0 .. InitialFeeRate
        /\ InitialProtocolFeeRate \in 0 .. InitialProtocolFeeRate
    BY TwoHopAssumption, MathAssumption
  <2>4. /\ 0 \in One!TickIndex /\ One!Reward \cap One!Token = {}
        /\ {InitialPrice} \subseteq One!MIN_SQRT_PRICE_X64 .. One!MAX_SQRT_PRICE_X64
        /\ LiquidityAmounts \subseteq One!U128
    BY TwoHopAssumption, SameSets
  <2> QED BY <2>1, <2>2, <2>3, <2>4, SameSets DEF One!PoolAssumption, One!SwapRequest
<1> QED BY <1>1, <1>2, <1>3, <1>4

\* What EarningsProofs shows.
LEMMA OneShown ==
    ASSUME ThePool \in Pool
    PROVE  /\ One!Fresh => One!BackedInv
           /\ One!BackedInv /\ One!NetsNegatable /\ [One!Next]_One!vars => One!BackedInv'
           /\ One!IInv /\ One!LedgerInv /\ One!TokensBacked =>
                \A k \in One!Token :
                    TheVault[k] >= pool[ThePool].protocol_fee_owed[k]
                                     + One!SumOver([p \in One!Position |-> One!Claim(p, k)])
<1>1. One!Fresh => One!BackedInv
  BY OneAssumptions, One!FreshBacked
<1>2. One!BackedInv /\ One!NetsNegatable /\ [One!Next]_One!vars => One!BackedInv'
  BY OneAssumptions, One!NextBackedInv
<1>3. One!IInv /\ One!LedgerInv /\ One!TokensBacked =>
            \A k \in One!Token :
                TheVault[k] >= pool[ThePool].protocol_fee_owed[k]
                                 + One!SumOver([p \in One!Position |-> One!Claim(p, k)])
  BY OneAssumptions, One!BackedPays
<1> QED BY <1>1, <1>2, <1>3

LEMMA OneDropped ==
    ASSUME ThePool \in Pool, One!BackedInv, SwapIn(trade)' = One!NoSwap,
           TheBudget' \in [One!Kind -> Nat],
           UNCHANGED <<pool[ThePool], ticks[ThePool], position[ThePool], TheVault>>
    PROVE  One!BackedInv'
<1>1. UNCHANGED <<pool[ThePool], ticks[ThePool], ArrayStart, <<position[ThePool]>>, TheVault, 0,
                  [r \in Reward |-> 0], [r \in Reward |-> 0]>>
  OBVIOUS
<1> QED BY <1>1, OneAssumptions, One!DroppedBacked

LEMMA SameArithmetic ==
    /\ \A x, y : One!Lesser(x, y) = Lesser(x, y) /\ One!Greater(x, y) = Greater(x, y)
    /\ \A n, d, up : One!DivRoundUpIf(n, d, up) = DivRoundUpIf(n, d, up)
    /\ \A T, x : One!Checked(T, x) = Checked(T, x)
    /\ \A x, y : One!WrappingAdd(x, y) = WrappingAdd(x, y)
    /\ \A x, y : One!WrappingSub(x, y) = WrappingSub(x, y)
    /\ \A x, y : One!WrappingAdd64(x, y) = WrappingAdd64(x, y)
    /\ \A n, x : One!MulShiftRightOrZero(n, x) = MulShiftRightOrZero(n, x)
    /\ \A n, d : One!AddLiquidityDelta(n, d) = AddLiquidityDelta(n, d)
    /\ \A x : One!TickIndexFromSqrtPrice(x) = TickIndexFromSqrtPrice(x)
BY DEF One!Lesser, Lesser, One!Greater, Greater, One!DivRoundUpIf, DivRoundUpIf, One!Checked,
       Checked, One!WrappingAdd, WrappingAdd, One!WrappingSub, WrappingSub,
       One!WrappingAdd64, WrappingAdd64, One!MulShiftRightOrZero, MulShiftRightOrZero,
       One!AddLiquidityDelta, AddLiquidityDelta, One!TickIndexFromSqrtPrice,
       TickIndexFromSqrtPrice, One!TickIndex, TickIndex, One!U128, U128, One!Err, Err

LEMMA SameAmounts ==
    /\ \A k, p, q, n, up : One!GetAmountDelta(k, p, q, n, up) = GetAmountDelta(k, p, q, n, up)
    /\ \A p, n, x, i, a : One!GetNextSqrtPrice(p, n, x, i, a) = GetNextSqrtPrice(p, n, x, i, a)
    /\ \A m, x, r, i, e : One!StepFee(m, x, r, i, e) = StepFee(m, x, r, i, e)
    /\ \A f, r : One!CalculateProtocolFee(f, r) = CalculateProtocolFee(f, r)
    /\ \A f, r, n : One!FeeGrowth(f, r, n) = FeeGrowth(f, r, n)
<1>1. \A k, p, q, n, up : One!GetAmountDelta(k, p, q, n, up) = GetAmountDelta(k, p, q, n, up)
  BY SameArithmetic, SameSets
     DEF One!GetAmountDelta, GetAmountDelta, One!GetAmountDeltaA, GetAmountDeltaA,
         One!GetAmountDeltaB, GetAmountDeltaB
<1>2. \A p, n, x, i, a : One!GetNextSqrtPrice(p, n, x, i, a) = GetNextSqrtPrice(p, n, x, i, a)
  <2>1. ASSUME NEW p, NEW n, NEW x, NEW i
        PROVE  One!GetNextSqrtPriceFromARoundUp(p, n, x, i)
                  = GetNextSqrtPriceFromARoundUp(p, n, x, i)
    <3> DEFINE moved == IF i THEN p * x ELSE -(p * x)
               denominator == n * Q64 + moved
    <3>1. One!DivRoundUpIf(n * p * Q64, denominator, TRUE)
             = DivRoundUpIf(n * p * Q64, denominator, TRUE)
      BY SameArithmetic
    <3>2. \A y : One!Checked(One!MIN_SQRT_PRICE_X64 .. One!MAX_SQRT_PRICE_X64, y)
             = Checked(MIN_SQRT_PRICE_X64 .. MAX_SQRT_PRICE_X64, y)
      BY SameArithmetic, SameSets
    <3> QED BY <3>1, <3>2, SameSets
            DEF One!GetNextSqrtPriceFromARoundUp, GetNextSqrtPriceFromARoundUp
  <2>2. \A p, n, x, i : One!GetNextSqrtPriceFromBRoundDown(p, n, x, i)
                          = GetNextSqrtPriceFromBRoundDown(p, n, x, i)
    BY SameArithmetic, SameSets, Zenon
       DEF One!GetNextSqrtPriceFromBRoundDown, GetNextSqrtPriceFromBRoundDown
  <2> QED BY <2>1, <2>2 DEF One!GetNextSqrtPrice, GetNextSqrtPrice
<1>3. \A m, x, r, i, e : One!StepFee(m, x, r, i, e) = StepFee(m, x, r, i, e)
  BY SameArithmetic DEF One!StepFee, StepFee
<1>4. \A f, r : One!CalculateProtocolFee(f, r) = CalculateProtocolFee(f, r)
  BY DEF One!CalculateProtocolFee, CalculateProtocolFee
<1>5. \A f, r, n : One!FeeGrowth(f, r, n) = FeeGrowth(f, r, n)
  BY <1>4 DEF One!FeeGrowth, FeeGrowth
<1> QED BY <1>1, <1>2, <1>3, <1>4, <1>5

LEMMA SameComputeSwap ==
    ASSUME NEW m, NEW r, NEW n, NEW p, NEW q, NEW i, NEW a
    PROVE  One!ComputeSwap(m, r, n, p, q, i, a) = ComputeSwap(m, r, n, p, q, i, a)
<1> DEFINE next == StepPrice(m, r, n, p, q, i, a)
           one == One!StepPrice(m, r, n, p, q, i, a)
<1>1. One!FixedToken(i, a) = FixedToken(i, a) /\ One!UnfixedToken(i, a) = UnfixedToken(i, a)
  BY DEF One!FixedToken, FixedToken, One!UnfixedToken, UnfixedToken
<1>2. \A t : One!GetAmountDelta(One!FixedToken(i, a), p, t, n, i)
                = GetAmountDelta(FixedToken(i, a), p, t, n, i)
  BY <1>1, SameAmounts
<1>3. \A t : One!GetAmountDelta(One!UnfixedToken(i, a), p, t, n, ~i)
                = GetAmountDelta(UnfixedToken(i, a), p, t, n, ~i)
  BY <1>1, SameAmounts
<1>4. one = next
  BY <1>2, SameAmounts DEF One!StepPrice, StepPrice, One!FixedAmount, FixedAmount,
     One!AfterFee, AfterFee
<1> QED BY <1>2, <1>3, <1>4, SameAmounts, SameArithmetic, SameSets, ZenonT(60)
        DEF One!ComputeSwap, ComputeSwap, One!StepPrice, StepPrice, One!FixedAmount, FixedAmount,
            One!AfterFee, AfterFee

LEMMA SameSearch ==
    /\ \A T, A, k, t, d : One!StopArray(T, A, k, t, d) = StopArray(T, A, k, t, d)
    /\ \A T, A, k, t, d : One!SearchOk(T, A, k, t, d) = SearchOk(T, A, k, t, d)
    /\ \A T, A, j, k, t, d : One!NextTickIndex(T, A, j, k, t, d) = NextTickIndex(T, A, j, k, t, d)
    /\ \A T, u, t : One!IsInitializedTick(T, u, t) = IsInitializedTick(T, u, t)
    /\ \A u, t : One!TickOffset(u, t) = TickOffset(u, t)
BY DEF One!StopArray, StopArray, One!SearchOk, SearchOk, One!NextTickIndex, NextTickIndex,
       One!IsInitializedTick, IsInitializedTick, One!TickOffset, TickOffset,
       One!Ahead, Ahead, One!InitializedAhead, InitializedAhead, One!TicksOf, TicksOf,
       One!UsableTick, UsableTick, One!TickIndex, TickIndex, One!InArray, InArray,
       One!TicksInArray, TicksInArray, One!IsEdgeArray, IsEdgeArray, One!SearchIndex, SearchIndex,
       One!IsMinTickArray, IsMinTickArray, One!IsMaxTickArray, IsMaxTickArray,
       One!Nearest, Nearest, One!InSearchRange, InSearchRange

----------------------------------------------------------------------------
(* A swap alone goes as it does in a trade.                                *)

LEMMA AloneArgs ==
    ASSUME NEW s
    PROVE  /\ Alone(s).args.a_to_b = s.args.a_to_b
           /\ Alone(s).args.amount_specified_is_input = s.args.amount_specified_is_input
           /\ Alone(s).args.amount = s.args.amount
           /\ Alone(s).args.sqrt_price_limit = s.args.sqrt_price_limit
           /\ Alone(s).args.arrays = s.args.arrays
           /\ Alone(s).amount_remaining = s.amount_remaining
           /\ Alone(s).amount_calculated = s.amount_calculated
           /\ Alone(s).curr_sqrt_price = s.curr_sqrt_price
           /\ Alone(s).curr_tick_index = s.curr_tick_index
           /\ Alone(s).curr_liquidity = s.curr_liquidity
           /\ Alone(s).curr_protocol_fee = s.curr_protocol_fee
           /\ Alone(s).curr_array_index = s.curr_array_index
           /\ Alone(s).curr_fee_growth_global_input = s.curr_fee_growth_global_input
           /\ Alone(s).ticks = s.ticks
BY DEF Alone

LEMMA AloneTokens ==
    \A a, b : a.a_to_b = b.a_to_b =>
        One!InputToken(a) = InputToken(b) /\ One!OutputToken(a) = OutputToken(b)
BY DEF One!InputToken, InputToken, One!OutputToken, OutputToken

LEMMA AloneSearches ==
    ASSUME NEW s
    PROVE  /\ One!SwapRunning(Alone(s)) <=> SwapRunning(s)
           /\ One!CanSearch(Alone(s)) <=> CanSearch(s)
           /\ One!NextArrayIndex(Alone(s)) = NextArrayIndex(s)
           /\ \A j : One!NextTick(Alone(s), j) = NextTick(s, j)
           /\ \A q, t : One!SwapComputation(q, Alone(s), t) = SwapComputation(q, s, t)
           /\ One!AmountIn(Alone(s)) = AmountIn(s)
           /\ One!AmountOut(Alone(s)) = AmountOut(s)
<1>1. One!SwapRunning(Alone(s)) <=> SwapRunning(s)
  BY AloneArgs DEF One!SwapRunning, SwapRunning
<1>2. One!CanSearch(Alone(s)) <=> CanSearch(s)
  BY AloneArgs, SameSearch DEF One!CanSearch, CanSearch
<1>3. One!NextArrayIndex(Alone(s)) = NextArrayIndex(s)
  BY AloneArgs, SameSearch DEF One!NextArrayIndex, NextArrayIndex
<1>4. \A j : One!NextTick(Alone(s), j) = NextTick(s, j)
  BY AloneArgs, SameSearch DEF One!NextTick, NextTick
<1>5. ASSUME NEW q, NEW t PROVE One!SwapComputation(q, Alone(s), t) = SwapComputation(q, s, t)
  <2>1. One!SqrtPriceTarget(Alone(s), t) = SqrtPriceTarget(s, t)
    BY AloneArgs, SameArithmetic DEF One!SqrtPriceTarget, SqrtPriceTarget
  <2> QED BY <2>1, AloneArgs, SameComputeSwap DEF One!SwapComputation, SwapComputation
<1>6. One!AmountIn(Alone(s)) = AmountIn(s) /\ One!AmountOut(Alone(s)) = AmountOut(s)
  BY AloneArgs DEF One!AmountIn, AmountIn, One!AmountOut, AmountOut
<1> QED BY <1>1, <1>2, <1>3, <1>4, <1>5, <1>6

LEMMA AloneSteps ==
    ASSUME NEW q, NEW s, NEW j, NEW t, NEW c, NEW infos
    PROVE  /\ One!AmountRemaining(Alone(s), c) = AmountRemaining(s, c)
           /\ One!AmountCalculated(Alone(s), c) = AmountCalculated(s, c)
           /\ One!NextFeeGrowth(q, Alone(s), c) = NextFeeGrowth(q, s, c)
           /\ One!NextProtocolFee(q, Alone(s), c) = NextProtocolFee(q, s, c)
           /\ One!CrossesTick(Alone(s), j, t) <=> CrossesTick(s, j, t)
           /\ \A tick, d, n : One!LiquidityAfterCross(tick, d, n) = LiquidityAfterCross(tick, d, n)
           /\ One!TicksAfterCross(q, Alone(s), t, c, infos) = TicksAfterCross(q, s, t, c, infos)
           /\ One!ArrayIndexAfterTick(Alone(s), j, t) = ArrayIndexAfterTick(s, j, t)
           /\ One!TickAfterTick(Alone(s), t) = TickAfterTick(s, t)
           /\ One!TickAfterShortStep(Alone(s), c.next_price)
                 = TickAfterShortStep(s, c.next_price)
           /\ One!StepOk(q, Alone(s), j, t, c) <=> StepOk(q, s, j, t, c)
<1>1. /\ One!AmountRemaining(Alone(s), c) = AmountRemaining(s, c)
      /\ One!AmountCalculated(Alone(s), c) = AmountCalculated(s, c)
  BY AloneArgs DEF One!AmountRemaining, AmountRemaining, One!AmountCalculated, AmountCalculated
<1>2. One!NextFeeGrowth(q, Alone(s), c) = NextFeeGrowth(q, s, c)
  BY AloneArgs, SameAmounts DEF One!NextFeeGrowth, NextFeeGrowth
<1>3. One!NextProtocolFee(q, Alone(s), c) = NextProtocolFee(q, s, c)
  BY AloneArgs, SameAmounts, SameArithmetic DEF One!NextProtocolFee, NextProtocolFee
<1>4. One!CrossesTick(Alone(s), j, t) <=> CrossesTick(s, j, t)
  BY AloneArgs, SameSearch DEF One!CrossesTick, CrossesTick
<1>5. \A tick, d, n : One!LiquidityAfterCross(tick, d, n) = LiquidityAfterCross(tick, d, n)
  BY SameArithmetic, SameSets DEF One!LiquidityAfterCross, LiquidityAfterCross
<1>6. One!TicksAfterCross(q, Alone(s), t, c, infos) = TicksAfterCross(q, s, t, c, infos)
  <2>1. \A tick, g : One!NextTickCrossUpdate(tick, g, infos) = NextTickCrossUpdate(tick, g, infos)
    BY SameArithmetic, SameSets DEF One!NextTickCrossUpdate, NextTickCrossUpdate
  <2>2. One!InputToken(Alone(s).args) = InputToken(s.args)
    BY AloneArgs, AloneTokens
  <2> QED BY <1>2, <2>1, <2>2, AloneArgs DEF One!TicksAfterCross, TicksAfterCross
<1>7. /\ One!ArrayIndexAfterTick(Alone(s), j, t) = ArrayIndexAfterTick(s, j, t)
      /\ One!TickAfterTick(Alone(s), t) = TickAfterTick(s, t)
      /\ One!TickAfterShortStep(Alone(s), c.next_price) = TickAfterShortStep(s, c.next_price)
  BY AloneArgs, SameSearch, SameArithmetic
     DEF One!ArrayIndexAfterTick, ArrayIndexAfterTick, One!TickAfterTick, TickAfterTick,
         One!TickAfterShortStep, TickAfterShortStep
<1>8. One!StepOk(q, Alone(s), j, t, c) <=> StepOk(q, s, j, t, c)
  BY <1>1, <1>2, <1>4, <1>5, AloneArgs, SameSets DEF One!StepOk, StepOk
<1> QED BY <1>1, <1>2, <1>3, <1>4, <1>5, <1>6, <1>7, <1>8

\* A record with the fields of a swap.
LEMMA RecordOfFields ==
    ASSUME NEW w, w = [k \in SwapFields |-> w[k]]
    PROVE  w = [args |-> w.args, amount_remaining |-> w.amount_remaining,
                amount_calculated |-> w.amount_calculated,
                curr_sqrt_price |-> w.curr_sqrt_price,
                curr_tick_index |-> w.curr_tick_index, curr_liquidity |-> w.curr_liquidity,
                curr_protocol_fee |-> w.curr_protocol_fee,
                curr_array_index |-> w.curr_array_index,
                curr_fee_growth_global_input |-> w.curr_fee_growth_global_input,
                ticks |-> w.ticks]
<1> DEFINE z == [args |-> w.args, amount_remaining |-> w.amount_remaining,
                amount_calculated |-> w.amount_calculated,
                curr_sqrt_price |-> w.curr_sqrt_price,
                curr_tick_index |-> w.curr_tick_index, curr_liquidity |-> w.curr_liquidity,
                curr_protocol_fee |-> w.curr_protocol_fee,
                curr_array_index |-> w.curr_array_index,
                curr_fee_growth_global_input |-> w.curr_fee_growth_global_input,
                ticks |-> w.ticks]
<1>1. z = [k \in SwapFields |-> z[k]]
  BY DEF SwapFields
<1>2. \A k \in SwapFields : z[k] = w[k]
  BY DEF SwapFields
<1> HIDE DEF z
<1> QED BY <1>1, <1>2 DEF z

LEMMA AloneStepped ==
    ASSUME NEW q, NEW s, DOMAIN s = SwapFields, NEW j, NEW t, NEW c, NEW infos
    PROVE  One!StepSwap(q, Alone(s), j, t, c, infos) = Alone(StepSwap(q, s, j, t, c, infos))
<1> DEFINE u == Alone(s)
           next == StepSwap(q, s, j, t, c, infos)
           one == One!StepSwap(q, u, j, t, c, infos)
           crossed == c.next_price = SqrtPrice[t] /\ CrossesTick(s, j, t)
<1>1. /\ next.args = s.args
      /\ next.amount_remaining = AmountRemaining(s, c)
      /\ next.amount_calculated = AmountCalculated(s, c)
      /\ next.curr_sqrt_price = c.next_price
      /\ next.curr_tick_index = IF c.next_price = SqrtPrice[t] THEN TickAfterTick(s, t)
                                ELSE TickAfterShortStep(s, c.next_price)
      /\ next.curr_liquidity =
            IF crossed THEN LiquidityAfterCross(s.ticks[t], s.args.a_to_b, s.curr_liquidity)
            ELSE s.curr_liquidity
      /\ next.curr_protocol_fee = NextProtocolFee(q, s, c)
      /\ next.curr_array_index =
            IF c.next_price = SqrtPrice[t] THEN ArrayIndexAfterTick(s, j, t)
            ELSE s.curr_array_index
      /\ next.curr_fee_growth_global_input = NextFeeGrowth(q, s, c)
      /\ next.ticks = IF crossed THEN TicksAfterCross(q, s, t, c, infos) ELSE s.ticks
  BY DEF StepSwap, SwapFields
<1>2. one = [u EXCEPT
            !.amount_remaining = AmountRemaining(s, c),
            !.amount_calculated = AmountCalculated(s, c),
            !.curr_protocol_fee = NextProtocolFee(q, s, c),
            !.curr_fee_growth_global_input = NextFeeGrowth(q, s, c),
            !.curr_liquidity =
                IF crossed THEN LiquidityAfterCross(s.ticks[t], s.args.a_to_b, @) ELSE @,
            !.ticks = IF crossed THEN TicksAfterCross(q, s, t, c, infos) ELSE @,
            !.curr_array_index =
                IF c.next_price = SqrtPrice[t] THEN ArrayIndexAfterTick(s, j, t) ELSE @,
            !.curr_tick_index =
                IF c.next_price = SqrtPrice[t] THEN TickAfterTick(s, t)
                ELSE TickAfterShortStep(s, c.next_price),
            !.curr_sqrt_price = c.next_price]
  <2> HIDE DEF u
  <2>1. u.ticks = s.ticks /\ u.args.a_to_b = s.args.a_to_b
    BY AloneArgs DEF u
  <2>2. /\ One!AmountRemaining(u, c) = AmountRemaining(s, c)
        /\ One!AmountCalculated(u, c) = AmountCalculated(s, c)
        /\ One!NextFeeGrowth(q, u, c) = NextFeeGrowth(q, s, c)
        /\ One!NextProtocolFee(q, u, c) = NextProtocolFee(q, s, c)
        /\ One!CrossesTick(u, j, t) <=> CrossesTick(s, j, t)
        /\ \A tick, d, n : One!LiquidityAfterCross(tick, d, n) = LiquidityAfterCross(tick, d, n)
        /\ One!TicksAfterCross(q, u, t, c, infos) = TicksAfterCross(q, s, t, c, infos)
        /\ One!ArrayIndexAfterTick(u, j, t) = ArrayIndexAfterTick(s, j, t)
        /\ One!TickAfterTick(u, t) = TickAfterTick(s, t)
        /\ One!TickAfterShortStep(u, c.next_price) = TickAfterShortStep(s, c.next_price)
    BY AloneSteps DEF u
  <2> QED BY <2>1, <2>2 DEF One!StepSwap
<1>3. ASSUME NEW v1, NEW v2, NEW v3, NEW v4, NEW v5, NEW v6, NEW v7, NEW v8, NEW v9
      PROVE  [u EXCEPT !.amount_remaining = v1, !.amount_calculated = v2,
                       !.curr_protocol_fee = v3, !.curr_fee_growth_global_input = v4,
                       !.curr_liquidity = v5, !.ticks = v6, !.curr_array_index = v7,
                       !.curr_tick_index = v8, !.curr_sqrt_price = v9]
             = [args |-> u.args, amount_remaining |-> v1, amount_calculated |-> v2,
                curr_sqrt_price |-> v9, curr_tick_index |-> v8, curr_liquidity |-> v5,
                curr_protocol_fee |-> v3, curr_array_index |-> v7,
                curr_fee_growth_global_input |-> v4, ticks |-> v6]
  <2> DEFINE w == [u EXCEPT
                       !.amount_remaining = v1, !.amount_calculated = v2,
                       !.curr_protocol_fee = v3, !.curr_fee_growth_global_input = v4,
                       !.curr_liquidity = v5, !.ticks = v6, !.curr_array_index = v7,
                       !.curr_tick_index = v8, !.curr_sqrt_price = v9]
  <2>1. DOMAIN u = SwapFields
    BY DEF Alone, SwapFields
  <2> HIDE DEF u
  <2>2. /\ w.args = u.args /\ w.amount_remaining = v1 /\ w.amount_calculated = v2
        /\ w.curr_sqrt_price = v9 /\ w.curr_tick_index = v8 /\ w.curr_liquidity = v5
        /\ w.curr_protocol_fee = v3 /\ w.curr_array_index = v7
        /\ w.curr_fee_growth_global_input = v4 /\ w.ticks = v6
    BY <2>1 DEF SwapFields
  <2>3. w = [k \in SwapFields |-> w[k]]
    BY <2>1 DEF SwapFields
  <2> HIDE DEF w
  <2> QED BY <2>2, <2>3, RecordOfFields, ZenonT(40) DEF w
<1>4. u.ticks = s.ticks /\ u.curr_liquidity = s.curr_liquidity
      /\ u.curr_array_index = s.curr_array_index
  BY AloneArgs
<1>5. u.args = Alone(next).args
  <2>1. \A x : x.args = s.args => Alone(x).args = Alone(s).args
    BY DEF Alone
  <2> HIDE DEF next
  <2> QED BY <1>1, <2>1
<1> HIDE DEF next, u
<1>6. one = [u EXCEPT !.amount_remaining = next.amount_remaining,
                      !.amount_calculated = next.amount_calculated,
                      !.curr_protocol_fee = next.curr_protocol_fee,
                      !.curr_fee_growth_global_input = next.curr_fee_growth_global_input,
                      !.curr_liquidity = next.curr_liquidity,
                      !.ticks = next.ticks,
                      !.curr_array_index = next.curr_array_index,
                      !.curr_tick_index = next.curr_tick_index,
                      !.curr_sqrt_price = next.curr_sqrt_price]
  <2> HIDE DEF one, crossed
  <2> QED BY <1>1, <1>2, <1>4
<1>7. one = [args |-> u.args,
             amount_remaining |-> next.amount_remaining,
             amount_calculated |-> next.amount_calculated,
             curr_sqrt_price |-> next.curr_sqrt_price,
             curr_tick_index |-> next.curr_tick_index,
             curr_liquidity |-> next.curr_liquidity,
             curr_protocol_fee |-> next.curr_protocol_fee,
             curr_array_index |-> next.curr_array_index,
             curr_fee_growth_global_input |-> next.curr_fee_growth_global_input,
             ticks |-> next.ticks]
  <2> HIDE DEF one
  <2> QED BY <1>3, <1>6, ZenonT(40)
<1>8. Alone(next) = [args |-> Alone(next).args,
             amount_remaining |-> next.amount_remaining,
             amount_calculated |-> next.amount_calculated,
             curr_sqrt_price |-> next.curr_sqrt_price,
             curr_tick_index |-> next.curr_tick_index,
             curr_liquidity |-> next.curr_liquidity,
             curr_protocol_fee |-> next.curr_protocol_fee,
             curr_array_index |-> next.curr_array_index,
             curr_fee_growth_global_input |-> next.curr_fee_growth_global_input,
             ticks |-> next.ticks]
  BY DEF Alone
<1>9. one = Alone(next)
  <2> HIDE DEF one
  <2> QED BY <1>5, <1>7, <1>8
<1> QED BY <1>9 DEF next, u

LEMMA AloneStarts ==
    ASSUME NEW q, NEW its, NEW a, NEW b, b = Alone(SwapStart(q, its, a)).args
    PROVE  /\ Alone(SwapStart(q, its, a)) = One!SwapStart(q, its, b)
           /\ One!SwapAllowed(q, b) <=> SwapAllowed(q, a)
<1>1. SwapStart(q, its, a).args = a
  BY DEF SwapStart
<1>2. b.a_to_b = a.a_to_b /\ b.amount = a.amount /\ b.sqrt_price_limit = a.sqrt_price_limit
  BY <1>1, AloneArgs
<1>3. One!SwapAllowed(q, b) <=> SwapAllowed(q, a)
  BY <1>2, SameSets DEF One!SwapAllowed, SwapAllowed
<1>4. One!InputToken(b) = InputToken(a)
  BY <1>2, AloneTokens
<1>5. Alone(SwapStart(q, its, a)) = One!SwapStart(q, its, b)
  BY <1>1, <1>2, <1>4 DEF Alone, SwapStart, One!SwapStart
<1> QED BY <1>3, <1>5

LEMMA AloneEnds ==
    ASSUME NEW q, NEW s, NEW infos, NEW clock
    PROVE  One!PoolAfterSwap(q, Alone(s), infos, clock) = PoolAfterSwap(q, s, infos, clock)
<1>1. One!InputToken(Alone(s).args) = InputToken(s.args)
  BY AloneArgs, AloneTokens
<1> QED BY <1>1, AloneArgs, SameArithmetic DEF One!PoolAfterSwap, PoolAfterSwap

----------------------------------------------------------------------------
(* The liquidity instructions of ThePool are those of the pool alone.      *)

LEMMA PooledArithmetic ==
    /\ PoolOf(ThePool)!U128 = One!U128 /\ PoolOf(ThePool)!I128 = One!I128
    /\ PoolOf(ThePool)!Err = One!Err
    /\ PoolOf(ThePool)!Token = One!Token /\ PoolOf(ThePool)!Reward = One!Reward
    /\ PoolOf(ThePool)!DefaultTick = One!DefaultTick
    /\ \A x, y : PoolOf(ThePool)!WrappingSub(x, y) = One!WrappingSub(x, y)
    /\ \A x, y : PoolOf(ThePool)!WrappingAdd64(x, y) = One!WrappingAdd64(x, y)
    /\ \A n, x : PoolOf(ThePool)!MulShiftRightOrZero(n, x) = One!MulShiftRightOrZero(n, x)
    /\ \A n, d : PoolOf(ThePool)!AddLiquidityDelta(n, d) = One!AddLiquidityDelta(n, d)
<1>1. /\ PoolOf(ThePool)!U128 = One!U128 /\ PoolOf(ThePool)!I128 = One!I128
      /\ PoolOf(ThePool)!Err = One!Err
      /\ PoolOf(ThePool)!Token = One!Token /\ PoolOf(ThePool)!Reward = One!Reward
  BY DEF PoolOf!U128, One!U128, PoolOf!I128, One!I128, PoolOf!Err, One!Err, PoolOf!Token,
         One!Token, PoolOf!Reward, One!Reward
<1>2. PoolOf(ThePool)!DefaultTick = One!DefaultTick
  BY <1>1 DEF PoolOf!DefaultTick, One!DefaultTick
<1>3. /\ \A x, y : PoolOf(ThePool)!WrappingSub(x, y) = One!WrappingSub(x, y)
      /\ \A x, y : PoolOf(ThePool)!WrappingAdd64(x, y) = One!WrappingAdd64(x, y)
  BY DEF PoolOf!WrappingSub, One!WrappingSub, PoolOf!WrappingAdd64, One!WrappingAdd64
<1>4. /\ \A n, x : PoolOf(ThePool)!MulShiftRightOrZero(n, x) = One!MulShiftRightOrZero(n, x)
      /\ \A n, d : PoolOf(ThePool)!AddLiquidityDelta(n, d) = One!AddLiquidityDelta(n, d)
  BY <1>1 DEF PoolOf!MulShiftRightOrZero, One!MulShiftRightOrZero, PoolOf!AddLiquidityDelta,
              One!AddLiquidityDelta, PoolOf!Checked, One!Checked
<1> QED BY <1>1, <1>2, <1>3, <1>4

\* What has grown inside of a range.
LEMMA PooledGrowths ==
    /\ PoolOf(ThePool)!NewRewardInfos = One!NewRewardInfos
    /\ PoolOf(ThePool)!FeesInside(1) = One!FeesInside(1)
    /\ PoolOf(ThePool)!RewardsInside(1) = One!RewardsInside(1)
<1>1. PoolOf(ThePool)!NewRewardInfos = One!NewRewardInfos
  <2>1. \A q : PoolOf(ThePool)!NextPoolRewardInfos(q, 0) = One!NextPoolRewardInfos(q, 0)
    BY PooledArithmetic DEF PoolOf!NextPoolRewardInfos, One!NextPoolRewardInfos,
       PoolOf!WrappingAdd, One!WrappingAdd
  <2> QED BY <2>1 DEF PoolOf!NewRewardInfos, One!NewRewardInfos
<1>2. \A tick, g, lo, li, lx, up, ui, ux :
        PoolOf(ThePool)!GrowthInside(tick, g, lo, li, lx, up, ui, ux)
          = One!GrowthInside(tick, g, lo, li, lx, up, ui, ux)
  BY PooledArithmetic DEF PoolOf!GrowthInside, One!GrowthInside
<1>3. \A q, pos, l, u : PoolOf(ThePool)!NextFeeGrowthsInside(q, pos, l, u)
                          = One!NextFeeGrowthsInside(q, pos, l, u)
  BY <1>2, PooledArithmetic DEF PoolOf!NextFeeGrowthsInside, One!NextFeeGrowthsInside
<1>4. \A q, pos, l, u, ri : PoolOf(ThePool)!NextRewardGrowthsInside(q, pos, l, u, ri)
                          = One!NextRewardGrowthsInside(q, pos, l, u, ri)
  BY <1>2, PooledArithmetic DEF PoolOf!NextRewardGrowthsInside, One!NextRewardGrowthsInside
<1>5. PoolOf(ThePool)!FeesInside(1) = One!FeesInside(1)
  BY <1>3 DEF PoolOf!FeesInside, One!FeesInside
<1>6. PoolOf(ThePool)!RewardsInside(1) = One!RewardsInside(1)
  BY <1>1, <1>4 DEF PoolOf!RewardsInside, One!RewardsInside
<1> QED BY <1>1, <1>5, <1>6

\* What becomes of a position and of a tick, and whether it may.
LEMMA PooledUpdates ==
    ASSUME NEW delta
    PROVE  /\ PoolOf(ThePool)!UpdatedPosition(1, delta) = One!UpdatedPosition(1, delta)
           /\ \A t, isUpper : PoolOf(ThePool)!UpdatedTick(t, delta, isUpper)
                                = One!UpdatedTick(t, delta, isUpper)
           /\ PoolOf(ThePool)!CanModifyLiquidity(1, delta) <=> One!CanModifyLiquidity(1, delta)
<1>1. PoolOf(ThePool)!UpdatedPosition(1, delta) = One!UpdatedPosition(1, delta)
  <2>1. \A o, n, i, c : PoolOf(ThePool)!Settled(o, n, i, c) = One!Settled(o, n, i, c)
    BY PooledArithmetic DEF PoolOf!Settled, One!Settled
  <2>2. ASSUME NEW pos, NEW f, NEW r
        PROVE  PoolOf(ThePool)!NextPositionModifyLiquidityUpdate(pos, delta, f, r)
                 = One!NextPositionModifyLiquidityUpdate(pos, delta, f, r)
    <3>1. PoolOf(ThePool)!AddLiquidityDelta(pos.liquidity, delta)
             = One!AddLiquidityDelta(pos.liquidity, delta)
      BY PooledArithmetic
    <3>2. \A o : [k \in PoolOf(ThePool)!Token |-> PoolOf(ThePool)!Settled(o[k], pos.liquidity,
                        f[k], pos.fee_growth_checkpoint[k])]
                   = [k \in One!Token |-> One!Settled(o[k], pos.liquidity, f[k],
                                                      pos.fee_growth_checkpoint[k])]
      BY <2>1, PooledArithmetic
    <3>3. \A o : [k \in PoolOf(ThePool)!Reward |-> PoolOf(ThePool)!Settled(o[k], pos.liquidity,
                        r[k], pos.reward_growth_checkpoint[k])]
                   = [k \in One!Reward |-> One!Settled(o[k], pos.liquidity, r[k],
                                                       pos.reward_growth_checkpoint[k])]
      BY <2>1, PooledArithmetic
    <3> QED BY <3>1, <3>2, <3>3, Zenon DEF PoolOf!NextPositionModifyLiquidityUpdate,
       One!NextPositionModifyLiquidityUpdate
  <2> QED BY <2>2, PooledGrowths DEF PoolOf!UpdatedPosition, One!UpdatedPosition
<1>2. /\ \A x, d, u : PoolOf(ThePool)!NextLiquidityNet(x, d, u) = One!NextLiquidityNet(x, d, u)
      /\ \A ri : PoolOf(ThePool)!RewardGrowths(ri) = One!RewardGrowths(ri)
  BY PooledArithmetic DEF PoolOf!NextLiquidityNet, One!NextLiquidityNet,
     PoolOf!RewardGrowths, One!RewardGrowths
<1>3. ASSUME NEW t, NEW isUpper
      PROVE  PoolOf(ThePool)!UpdatedTick(t, delta, isUpper) = One!UpdatedTick(t, delta, isUpper)
  <2>1. ASSUME NEW x, NEW q, NEW ri
        PROVE  PoolOf(ThePool)!NextTickModifyLiquidityUpdate(x, t, q, ri, delta, isUpper)
                 = One!NextTickModifyLiquidityUpdate(x, t, q, ri, delta, isUpper)
    <3>1. /\ PoolOf(ThePool)!AddLiquidityDelta(x.liquidity_gross, delta)
                = One!AddLiquidityDelta(x.liquidity_gross, delta)
          /\ PoolOf(ThePool)!DefaultTick = One!DefaultTick
      BY PooledArithmetic
    <3>2. /\ PoolOf(ThePool)!NextLiquidityNet(x, delta, isUpper)
                = One!NextLiquidityNet(x, delta, isUpper)
          /\ PoolOf(ThePool)!RewardGrowths(ri) = One!RewardGrowths(ri)
      BY <1>2
    <3> QED BY <3>1, <3>2, Zenon DEF PoolOf!NextTickModifyLiquidityUpdate,
       One!NextTickModifyLiquidityUpdate
  <2> QED BY <2>1, PooledGrowths DEF PoolOf!UpdatedTick, One!UpdatedTick
<1>4. PoolOf(ThePool)!CanModifyLiquidity(1, delta) <=> One!CanModifyLiquidity(1, delta)
  <2>1. \A t : PoolOf(ThePool)!HasTick(t) <=> One!HasTick(t)
    BY DEF PoolOf!HasTick, One!HasTick, PoolOf!TicksOf, One!TicksOf, PoolOf!TickIndex,
       One!TickIndex, PoolOf!UsableTick, One!UsableTick, PoolOf!InArray, One!InArray,
       PoolOf!TicksInArray, One!TicksInArray
  <2>2. \A q, l, u, d : PoolOf(ThePool)!NextPoolLiquidity(q, l, u, d)
                          = One!NextPoolLiquidity(q, l, u, d)
    BY PooledArithmetic DEF PoolOf!NextPoolLiquidity, One!NextPoolLiquidity
  <2>3. \A x, d, u : PoolOf(ThePool)!TickCanModifyLiquidity(x, d, u)
                        <=> One!TickCanModifyLiquidity(x, d, u)
    BY <1>2, PooledArithmetic DEF PoolOf!TickCanModifyLiquidity, One!TickCanModifyLiquidity
  <2> QED BY <2>1, <2>2, <2>3, PooledArithmetic
          DEF PoolOf!CanModifyLiquidity, One!CanModifyLiquidity
<1> QED BY <1>1, <1>3, <1>4

\* What liquidity is worth.
LEMMA PooledWorth ==
    ASSUME NEW k, NEW pos, NEW amount, NEW up
    PROVE  PoolOf(ThePool)!LiquidityTokenDelta(k, pos, amount, up)
             = One!LiquidityTokenDelta(k, pos, amount, up)
<1>1. \A x, y : /\ PoolOf(ThePool)!Lesser(x, y) = One!Lesser(x, y)
                /\ PoolOf(ThePool)!Greater(x, y) = One!Greater(x, y)
  BY DEF PoolOf!Lesser, One!Lesser, PoolOf!Greater, One!Greater
<1>2. \A n, d : PoolOf(ThePool)!DivRoundUpIf(n, d, up) = One!DivRoundUpIf(n, d, up)
  BY DEF PoolOf!DivRoundUpIf, One!DivRoundUpIf, PoolOf!Err, One!Err
<1>3. \A x : PoolOf(ThePool)!Checked(PoolOf(ThePool)!U64, x) = One!Checked(One!U64, x)
  BY DEF PoolOf!Checked, One!Checked, PoolOf!U64, One!U64, PoolOf!Err, One!Err
<1>4. \A p, q : PoolOf(ThePool)!GetAmountDelta(k, p, q, amount, up)
                  = One!GetAmountDelta(k, p, q, amount, up)
  BY <1>1, <1>2, <1>3 DEF PoolOf!GetAmountDelta, One!GetAmountDelta, PoolOf!GetAmountDeltaA,
     One!GetAmountDeltaA, PoolOf!GetAmountDeltaB, One!GetAmountDeltaB
<1> QED BY <1>4 DEF PoolOf!LiquidityTokenDelta, One!LiquidityTokenDelta

\* Solvency.
LEMMA PooledSolvent ==
    ASSUME One!IInv, One!LedgerInv, One!TokensBacked,
           ThePool \in Pool
    PROVE  PoolOf(ThePool)!Solvent
<1>0. /\ \A k \in Token : TheVault[k] = vault[ThePool][k]
      /\ \A k \in One!Token : TheVault[k] >= pool[ThePool].protocol_fee_owed[k]
               + One!SumOver([p \in One!Position |-> One!Claim(p, k)])
  BY OneShown DEF TheVault
<1>1. ASSUME NEW k PROVE PoolOf(ThePool)!Claim(1, k) = One!Claim(1, k)
  <2>1. \A o, n, i, c : PoolOf(ThePool)!Settled(o, n, i, c) = One!Settled(o, n, i, c)
    BY PooledArithmetic DEF PoolOf!Settled, One!Settled
  <2>2. PoolOf(ThePool)!PendingFee(1, k) = One!PendingFee(1, k)
    BY <2>1, PooledGrowths DEF PoolOf!PendingFee, One!PendingFee
  <2> QED BY <2>2, PooledWorth DEF PoolOf!Claim, One!Claim
<1>2. PoolOf(ThePool)!Position = 1 .. 1 /\ One!Position = 1 .. 1 /\ 1 .. 1 = {1}
  BY DEF PoolOf!Position, One!Position
<1>3. \A k : [p \in PoolOf(ThePool)!Position |-> PoolOf(ThePool)!Claim(p, k)]
                = [p \in One!Position |-> One!Claim(p, k)]
  BY <1>1, <1>2
<1>4. \A f : PoolOf(ThePool)!SumOver(f) = One!SumOver(f)
  BY DEF PoolOf!SumOver, One!SumOver
<1> QED BY <1>0, <1>3, <1>4, SameSets, PooledArithmetic DEF PoolOf!Solvent

----------------------------------------------------------------------------
(* What the pool alone goes through.                                       *)

\* What a trade's hops were checked for.
HopsFit(a) ==
    /\ Len(a.hops) = 2 => a.hops[1].pool # a.hops[2].pool
    /\ \A i \in 1 .. Len(a.hops) : a.hops[i].pool = ThePool => One!SwapArraysLoad(a.hops[i])

\* The accounts of ThePool have their places: its position is open, in the range it was
\* given, and its rewards are settled.
PlaceInv ==
    /\ DOMAIN ticks = Pool /\ DOMAIN vault = Pool /\ DOMAIN vault[ThePool] = Token
    /\ pool[ThePool].reward_last_updated_timestamp = 0
    /\ position[ThePool].open
    /\ position[ThePool].tick_lower_index = PositionRange[ThePool][1]
    /\ position[ThePool].tick_upper_index = PositionRange[ThePool][2]
    /\ ~Idle => HopsFit(trade.args)

\* With these a step keeps what backs the tokens.
Placed == ThePool \in Pool /\ AccountsInv /\ TradeInv /\ PlaceInv /\ One!BackedInv

LEMMA OneStep ==
    ASSUME ThePool \in Pool, One!BackedInv, One!NetsNegatable, One!Next
    PROVE  One!BackedInv'
BY OneShown

LEMMA OneStutter ==
    ASSUME ThePool \in Pool, One!BackedInv, One!NetsNegatable,
           UNCHANGED <<pool[ThePool], ticks[ThePool], position[ThePool], TheVault,
                       SwapIn(trade), TheBudget>>
    PROVE  One!BackedInv'
<1>1. UNCHANGED One!vars
  BY DEF One!vars
<1> QED BY <1>1, OneShown

LEMMA NothingBegun ==
    /\ NoTrade = One!NoSwap
    /\ Idle => SwapIn(trade) = One!NoSwap
    /\ One!Idle <=> SwapIn(trade) = One!NoSwap
BY DEF NoTrade, One!NoSwap, Idle, SwapIn, One!Idle

\* The types of the accounts.
LEMMA PlacedTypes ==
    ASSUME Placed
    PROVE  /\ pool[ThePool] \in One!PoolType /\ ticks[ThePool] \in [UsableTick -> One!TickType]
           /\ position[ThePool] \in One!PositionType
           /\ TheVault \in [Token \cup Reward -> 0 .. Q64 - 1]
           /\ One!Position = {1}
           /\ One!NewRewardInfos = pool[ThePool].reward_infos
<1>1. One!TypeOK
  BY DEF Placed, One!BackedInv, One!IInv
<1>2. One!Position = {1}
  BY DEF One!Position
<1>3. <<position[ThePool]>>[1] \in One!PositionType
  BY <1>1, <1>2 DEF One!TypeOK
<1>4. One!NewRewardInfos = pool[ThePool].reward_infos
  BY DEF Placed, PlaceInv, One!NewRewardInfos, One!NextPoolRewardInfos
<1> QED BY <1>1, <1>2, <1>3, <1>4, SameSets DEF One!TypeOK

\* Liquidity changes.
LEMMA SyncedAlone ==
    ASSUME Placed, NEW delta, SyncModifyLiquidity(ThePool, delta)
    PROVE  One!SyncModifyLiquidity(1, delta)
<1> DEFINE lower == PositionRange[ThePool][1]
           upper == PositionRange[ThePool][2]
           pos == <<position[ThePool]>>[1]
<1>0. /\ DOMAIN position = Pool /\ DOMAIN pool = Pool /\ DOMAIN ticks = Pool
      /\ pool[ThePool].reward_last_updated_timestamp = 0
      /\ pos.tick_lower_index = lower /\ pos.tick_upper_index = upper /\ ThePool \in Pool
  BY DEF Placed, PlaceInv, AccountsInv
<1>1. position' = [position EXCEPT ![ThePool] = One!UpdatedPosition(1, delta)]
  BY PooledUpdates DEF SyncModifyLiquidity
<1>2. <<position[ThePool]>>' = [<<position[ThePool]>> EXCEPT ![1] = One!UpdatedPosition(1, delta)]
  <2>1. position'[ThePool] = One!UpdatedPosition(1, delta)
    BY <1>0, <1>1
  <2> QED BY <2>1
<1>3. ticks'[ThePool] = [ticks[ThePool] EXCEPT
            ![pos.tick_lower_index] = One!UpdatedTick(pos.tick_lower_index, delta, FALSE),
            ![pos.tick_upper_index] = One!UpdatedTick(pos.tick_upper_index, delta, TRUE)]
  <2>1. ticks'[ThePool] = [ticks[ThePool] EXCEPT
            ![lower] = PoolOf(ThePool)!UpdatedTick(lower, delta, FALSE),
            ![upper] = PoolOf(ThePool)!UpdatedTick(upper, delta, TRUE)]
    BY <1>0 DEF SyncModifyLiquidity
  <2>2. /\ PoolOf(ThePool)!UpdatedTick(lower, delta, FALSE) = One!UpdatedTick(lower, delta, FALSE)
        /\ PoolOf(ThePool)!UpdatedTick(upper, delta, TRUE) = One!UpdatedTick(upper, delta, TRUE)
    BY PooledUpdates
  <2> QED BY <1>0, <2>1, <2>2
<1>4. pool'[ThePool] = [pool[ThePool] EXCEPT
              !.liquidity = One!NextPoolLiquidity(pool[ThePool], pos.tick_lower_index,
                                                  pos.tick_upper_index, delta),
              !.reward_infos = One!NewRewardInfos,
              !.reward_last_updated_timestamp = 0]
  <2> DEFINE n == NextPoolLiquidity(pool[ThePool], lower, upper, delta)
  <2>1. pool'[ThePool] = [pool[ThePool] EXCEPT !.liquidity = n]
    BY <1>0 DEF SyncModifyLiquidity
  <2>2. One!NextPoolLiquidity(pool[ThePool], lower, upper, delta) = n
    BY SameArithmetic DEF One!NextPoolLiquidity, NextPoolLiquidity
  <2> HIDE DEF n
  <2>3. pool[ThePool] \in One!PoolType /\ One!NewRewardInfos = pool[ThePool].reward_infos
    BY PlacedTypes
  <2>4. [pool[ThePool] EXCEPT !.liquidity = n]
          = [pool[ThePool] EXCEPT !.liquidity = n,
                                  !.reward_infos = pool[ThePool].reward_infos,
                                  !.reward_last_updated_timestamp = 0]
    BY <1>0, <2>3 DEF One!PoolType
  <2> QED BY <1>0, <2>1, <2>2, <2>3, <2>4
<1> QED BY <1>2, <1>3, <1>4 DEF One!SyncModifyLiquidity

\* What arrives in the vaults, and what leaves them.
LEMMA VaultAlone ==
    ASSUME Placed, NEW x \in Int, NEW y \in Int
    PROVE  /\ vault'[ThePool] = [vault[ThePool] EXCEPT !["a"] = @ + x, !["b"] = @ + y] =>
                TheVault' = One!Deposit(One!Deposit(TheVault, "a", x), "b", y)
           /\ vault'[ThePool] = [vault[ThePool] EXCEPT !["a"] = @ - x, !["b"] = @ - y] =>
                TheVault' = One!Withdraw(One!Withdraw(TheVault, "a", x), "b", y)
<1>1. /\ DOMAIN vault[ThePool] = Token /\ Token = {"a", "b"} /\ Reward \cap Token = {}
  BY TwoHopAssumption DEF Placed, PlaceInv, Token
<1> DEFINE v == vault[ThePool]
           K == Token \cup Reward
           T(f) == [k \in K |-> IF k \in Token THEN f[k] ELSE 0]
<1>2. TheVault = T(v) /\ TheVault' = T(v')
  BY DEF TheVault
<1> HIDE DEF v
<1>3. ASSUME v' = [v EXCEPT !["a"] = @ + x, !["b"] = @ + y]
      PROVE  T(v') = One!Deposit(One!Deposit(T(v), "a", x), "b", y)
  BY <1>1, <1>3 DEF One!Deposit, v
<1>4. ASSUME v' = [v EXCEPT !["a"] = @ - x, !["b"] = @ - y]
      PROVE  T(v') = One!Withdraw(One!Withdraw(T(v), "a", x), "b", y)
  BY <1>1, <1>4 DEF One!Withdraw, v
<1> HIDE DEF T
<1> QED BY <1>2, <1>3, <1>4 DEF v

LEMMA BudgetAlone ==
    ASSUME AccountsInv, NEW kind \in {"liquidity", "collect"}, Spend(kind)
    PROVE  One!Spend(kind)
<1>1. budget \in [Kind -> Nat] /\ kind \in Kind /\ "trade" \in Kind /\ kind # "trade"
      /\ {"liquidity", "collect"} \subseteq Kind
  BY DEF AccountsInv, Kind
<1>2. TheBudget[kind] = budget[kind] /\ TheBudget'[kind] = budget'[kind]
      /\ DOMAIN TheBudget = DOMAIN TheBudget'
  BY DEF TheBudget
<1>3. budget[kind] > 0 /\ budget' = [budget EXCEPT ![kind] = @ - 1]
  BY DEF Spend
<1>4. TheBudget' = [TheBudget EXCEPT ![kind] = @ - 1]
  BY <1>1, <1>3 DEF TheBudget
<1> QED BY <1>2, <1>3, <1>4 DEF One!Spend

LEMMA IncreasedAlone ==
    ASSUME Placed, NEW amount \in LiquidityAmounts, IncreaseLiquidityV2(ThePool, amount)
    PROVE  One!Next
<1> DEFINE owed(k) == PoolOf(ThePool)!LiquidityTokenDelta(k, position[ThePool], amount, TRUE)
           owes(k) == One!LiquidityTokenDelta(k, <<position[ThePool]>>[1], amount, TRUE)
           pays(k) == SentForLiquidity(ThePool, k, owed(k))
           mint == MintOf[ThePool]
<1>0. ThePool \in Pool /\ AccountsInv
  BY DEF Placed
<1>1. /\ Idle /\ amount # 0 /\ amount \in I128 /\ trade' = trade
      /\ PoolOf(ThePool)!CanModifyLiquidity(1, amount)
      /\ \A k \in Token : /\ owed(k) # Err /\ pays(k) # Err
                          /\ CanReceive(vault[ThePool], k, pays(k), mint[k])
      /\ Spend("liquidity") /\ SyncModifyLiquidity(ThePool, amount)
      /\ vault' = [vault EXCEPT ![ThePool] =
            Received(Received(@, "a", pays("a"), mint["a"]), "b", pays("b"), mint["b"])]
  BY DEF IncreaseLiquidityV2
<1>2. \A k : owed(k) = owes(k)
  BY PooledWorth
<1>3. ASSUME NEW k \in Token
      PROVE  /\ owes(k) \in Nat
             /\ TransferFeeExcludedAmount(transfer_fee[mint[k]], pays(k)) = owes(k)
  <2>1. owed(k) \in Nat
    BY <1>0, <1>1, LiquidityWorth
  <2>2. mint[k] \in Mint /\ transfer_fee[mint[k]] \in TransferFee
    BY <1>0, TwoHopAssumption DEF AccountsInv
  <2>3. pays(k) = TransferFeeIncludedAmount(transfer_fee[mint[k]], owed(k)) /\ pays(k) # Err
    BY <1>1 DEF SentForLiquidity, FeeOf
  <2> HIDE DEF owed, pays
  <2>4. TransferFeeExcludedAmount(transfer_fee[mint[k]], pays(k)) = owed(k)
    BY <2>1, <2>2, <2>3, AskedArrives
  <2> QED BY <1>2, <2>1, <2>4
<1>4. \A k \in One!Token : owes(k) # One!Err /\ One!CanDeposit(TheVault, k, owes(k))
  <2> SUFFICES ASSUME NEW k \in Token
               PROVE  owes(k) # One!Err /\ One!CanDeposit(TheVault, k, owes(k))
    BY SameSets
  <2>1. CanReceive(vault[ThePool], k, pays(k), mint[k])
    BY <1>1
  <2>2. owes(k) # One!Err
    BY <1>1, <1>2, SameSets
  <2> HIDE DEF owes, pays, owed
  <2>3. vault[ThePool][k] + owes(k) \in U64
    BY <1>3, <2>1 DEF CanReceive, Received, Placed, PlaceInv
  <2>4. TheVault[k] = vault[ThePool][k]
    BY DEF TheVault
  <2>5. TheVault[k] + owes(k) <= Q64 - 1
    BY <2>3, <2>4, MathAssumption DEF U64
  <2> QED BY <2>2, <2>5 DEF One!CanDeposit
<1>5. TheVault' = One!Deposit(One!Deposit(TheVault, "a", owes("a")), "b", owes("b"))
  <2> HIDE DEF owes, pays, owed
  <2>0. "a" \in Token /\ "b" \in Token
    BY DEF Token
  <2>1. owes("a") \in Int /\ owes("b") \in Int
    BY <1>3, <2>0
  <2>2. /\ TransferFeeExcludedAmount(transfer_fee[mint["a"]], pays("a")) = owes("a")
        /\ TransferFeeExcludedAmount(transfer_fee[mint["b"]], pays("b")) = owes("b")
    BY <1>3, <2>0
  <2>3. vault'[ThePool] = [vault[ThePool] EXCEPT !["a"] = @ + owes("a"), !["b"] = @ + owes("b")]
    BY <1>0, <1>1, <2>2 DEF Received, Placed, PlaceInv
  <2> QED BY <2>1, <2>3, VaultAlone
<1>6. One!CanModifyLiquidity(1, amount) /\ One!SyncModifyLiquidity(1, amount)
  BY <1>1, PooledUpdates, SyncedAlone
<1>7. One!Spend("liquidity") /\ One!Idle /\ amount \in One!I128
  BY <1>0, <1>1, BudgetAlone, NothingBegun, SameSets
<1>8. SwapIn(trade)' = SwapIn(trade)
  BY <1>1 DEF SwapIn, Begun, HopsIn, HopCount
<1>9. One!IncreaseLiquidity(1, amount)
  BY <1>1, <1>4, <1>5, <1>6, <1>7, <1>8 DEF One!IncreaseLiquidity
<1> QED BY <1>9, PlacedTypes DEF One!Next, One!PositionInstruction

LEMMA PaidAlone ==
    ASSUME Placed, NEW amount, \A k \in Token : amount[k] \in Nat, PaidOut(ThePool, amount)
    PROVE  /\ \A k \in One!Token : One!CanWithdraw(TheVault, k, amount[k])
           /\ TheVault' = One!Withdraw(One!Withdraw(TheVault, "a", amount["a"]), "b", amount["b"])
<1>0. ThePool \in Pool /\ "a" \in Token /\ "b" \in Token
  BY DEF Placed, Token
<1>1. /\ \A k \in Token : amount[k] <= vault[ThePool][k]
      /\ vault' = [vault EXCEPT ![ThePool] = Sent(Sent(@, "a", amount["a"]), "b", amount["b"])]
  BY DEF PaidOut
<1>2. \A k \in One!Token : One!CanWithdraw(TheVault, k, amount[k])
  BY <1>1, SameSets DEF One!CanWithdraw, TheVault
<1>3. vault'[ThePool] = [vault[ThePool] EXCEPT !["a"] = @ - amount["a"], !["b"] = @ - amount["b"]]
  BY <1>0, <1>1 DEF Sent, Placed, PlaceInv
<1>4. amount["a"] \in Int /\ amount["b"] \in Int
  BY <1>0
<1> QED BY <1>2, <1>3, <1>4, VaultAlone

LEMMA DecreasedAlone ==
    ASSUME Placed, NEW amount \in LiquidityAmounts, DecreaseLiquidityV2(ThePool, amount)
    PROVE  One!Next
<1> DEFINE owed == [k \in Token |->
                      PoolOf(ThePool)!LiquidityTokenDelta(k, position[ThePool], amount, FALSE)]
           gets(k) == One!LiquidityTokenDelta(k, <<position[ThePool]>>[1], amount, FALSE)
<1>0. ThePool \in Pool /\ AccountsInv /\ "a" \in Token /\ "b" \in Token
  BY DEF Placed, Token
<1>1. /\ Idle /\ amount # 0 /\ amount \in I128 /\ trade' = trade
      /\ PoolOf(ThePool)!CanModifyLiquidity(1, -amount)
      /\ \A k \in Token : owed[k] # Err
      /\ PaidOut(ThePool, owed)
      /\ Spend("liquidity") /\ SyncModifyLiquidity(ThePool, -amount)
  BY DEF DecreaseLiquidityV2
<1>2. \A k \in Token : owed[k] = gets(k)
  BY PooledWorth
<1>3. \A k \in Token : owed[k] \in Nat
  BY <1>0, <1>1, LiquidityWorth
<1>4. One!CanModifyLiquidity(1, -amount) /\ One!SyncModifyLiquidity(1, -amount)
  BY <1>1, PooledUpdates, SyncedAlone
<1> HIDE DEF owed, gets
<1>5. /\ \A k \in One!Token : One!CanWithdraw(TheVault, k, owed[k])
      /\ TheVault' = One!Withdraw(One!Withdraw(TheVault, "a", owed["a"]), "b", owed["b"])
  BY <1>1, <1>3, PaidAlone
<1>6. \A k \in One!Token : gets(k) # One!Err /\ One!CanWithdraw(TheVault, k, gets(k))
  BY <1>1, <1>2, <1>5, SameSets
<1>7. TheVault' = One!Withdraw(One!Withdraw(TheVault, "a", gets("a")), "b", gets("b"))
  BY <1>0, <1>2, <1>5
<1>8. One!Spend("liquidity") /\ One!Idle /\ amount \in One!I128
  BY <1>0, <1>1, BudgetAlone, NothingBegun, SameSets
<1>9. SwapIn(trade)' = SwapIn(trade)
  BY <1>1 DEF SwapIn, Begun, HopsIn, HopCount
<1>10. One!DecreaseLiquidity(1, amount)
  BY <1>1, <1>4, <1>6, <1>7, <1>8, <1>9 DEF One!DecreaseLiquidity, gets
<1> QED BY <1>10, PlacedTypes DEF One!Next, One!PositionInstruction

LEMMA CollectedAlone ==
    ASSUME Placed, CollectFeesV2(ThePool)
    PROVE  One!Next
<1> DEFINE owed == position[ThePool].fee_owed
<1>0. ThePool \in Pool /\ AccountsInv /\ position[ThePool].open
  BY DEF Placed, PlaceInv
<1>1. /\ Idle /\ PaidOut(ThePool, owed) /\ Spend("collect")
      /\ position' = [position EXCEPT ![ThePool].fee_owed = [k \in Token |-> 0]]
      /\ UNCHANGED <<pool, ticks, trade>>
  BY DEF CollectFeesV2
<1>2. \A k \in Token : owed[k] \in Nat
  BY <1>0 DEF AccountsInv, IsPosition
<1>3. /\ \A k \in One!Token : One!CanWithdraw(TheVault, k, owed[k])
      /\ TheVault' = One!Withdraw(One!Withdraw(TheVault, "a", owed["a"]), "b", owed["b"])
  BY <1>1, <1>2, PaidAlone
<1>4. One!Spend("collect") /\ One!Idle
  BY <1>0, <1>1, BudgetAlone, NothingBegun
<1>5. SwapIn(trade)' = SwapIn(trade)
  BY <1>1 DEF SwapIn, Begun, HopsIn, HopCount
<1>6. <<position[ThePool]>>'
        = [<<position[ThePool]>> EXCEPT ![1].fee_owed = [k \in One!Token |-> 0]]
  <2>1. position'[ThePool] = [position[ThePool] EXCEPT !.fee_owed = [k \in Token |-> 0]]
    BY <1>0, <1>1 DEF AccountsInv
  <2> QED BY <2>1, SameSets
<1>7. One!CollectFees(1)
  BY <1>0, <1>1, <1>3, <1>4, <1>5, <1>6 DEF One!CollectFees
<1> QED BY <1>7, PlacedTypes DEF One!Next, One!PositionInstruction

LEMMA ProtocolCollectedAlone ==
    ASSUME Placed, CollectProtocolFeesV2(ThePool)
    PROVE  One!Next
<1> DEFINE owed == pool[ThePool].protocol_fee_owed
<1>0. ThePool \in Pool /\ AccountsInv
  BY DEF Placed
<1>1. /\ Idle /\ PaidOut(ThePool, owed) /\ Spend("collect")
      /\ pool' = [pool EXCEPT ![ThePool].protocol_fee_owed = [k \in Token |-> 0]]
      /\ UNCHANGED <<ticks, position, trade>>
  BY DEF CollectProtocolFeesV2
<1>2. \A k \in Token : owed[k] \in Nat
  BY <1>0 DEF AccountsInv, IsPool
<1>3. /\ \A k \in One!Token : One!CanWithdraw(TheVault, k, owed[k])
      /\ TheVault' = One!Withdraw(One!Withdraw(TheVault, "a", owed["a"]), "b", owed["b"])
  BY <1>1, <1>2, PaidAlone
<1>4. One!Spend("collect") /\ One!Idle
  BY <1>0, <1>1, BudgetAlone, NothingBegun
<1>5. SwapIn(trade)' = SwapIn(trade)
  BY <1>1 DEF SwapIn, Begun, HopsIn, HopCount
<1>6. pool'[ThePool] = [pool[ThePool] EXCEPT !.protocol_fee_owed = [k \in One!Token |-> 0]]
  BY <1>0, <1>1, SameSets DEF AccountsInv
<1>7. One!CollectProtocolFees
  BY <1>1, <1>3, <1>4, <1>5, <1>6 DEF One!CollectProtocolFees
<1> QED BY <1>7 DEF One!Next, One!PoolInstruction

----------------------------------------------------------------------------
(* A trade through ThePool is, there, a swap of the pool alone.            *)

\* At most one hop of a trade is in ThePool, and its swap is that of the pool alone once it
\* has begun.
LEMMA BegunAlone ==
    ASSUME NEW t, TradeSound(t), HopsFit(t.args)
    PROVE  /\ t # NoTrade
           /\ \A i \in 1 .. HopCount(t) : t.args.hops[i].pool = ThePool =>
                 /\ HopsIn(t, ThePool) = {i}
                 /\ SwapIn(t) = IF i \in {FirstComputed(t.args), t.current}
                                THEN Alone(t.swaps[i]) ELSE NoTrade
           /\ HopsIn(t, ThePool) = {} => SwapIn(t) = NoTrade
<1>1. t # NoTrade
  <2>1. DOMAIN t = {"args", "current", "amounts", "swaps"}
    BY DEF TradeSound
  <2>2. DOMAIN NoTrade = {"args"}
    BY DEF NoTrade
  <2> QED BY <2>1, <2>2
<1>2. HopCount(t) \in {1, 2}
  BY TradeParts DEF TradeSound, HopCount
<1>3. ASSUME NEW i \in 1 .. HopCount(t), t.args.hops[i].pool = ThePool
      PROVE  /\ HopsIn(t, ThePool) = {i}
             /\ SwapIn(t) = IF i \in {FirstComputed(t.args), t.current}
                            THEN Alone(t.swaps[i]) ELSE NoTrade
  <2>1. \A j \in 1 .. HopCount(t) : t.args.hops[j].pool = ThePool => j = i
    BY <1>2, <1>3 DEF HopsFit, HopCount
  <2>2. HopsIn(t, ThePool) = {i}
    BY <1>3, <2>1 DEF HopsIn
  <2>3. CASE i \in {FirstComputed(t.args), t.current}
    <3>1. Begun(t) = {i}
      BY <2>2, <2>3 DEF Begun
    <3>2. (CHOOSE j \in {i} : TRUE) = i
      OBVIOUS
    <3> QED BY <1>1, <2>2, <2>3, <3>1, <3>2 DEF SwapIn
  <2>4. CASE i \notin {FirstComputed(t.args), t.current}
    <3>1. Begun(t) = {}
      BY <2>2, <2>4 DEF Begun
    <3> QED BY <2>2, <2>4, <3>1 DEF SwapIn
  <2> QED BY <2>2, <2>3, <2>4
<1>4. HopsIn(t, ThePool) = {} => SwapIn(t) = NoTrade
  BY DEF SwapIn, Begun
<1> QED BY <1>1, <1>3, <1>4

\* A swap under way is one of the pool alone.
LEMMA AloneSwaps == \A s : Alone(s) # One!NoSwap
<1> SUFFICES ASSUME NEW s PROVE Alone(s) # One!NoSwap
  OBVIOUS
<1>1. "ticks" \in DOMAIN Alone(s)
  BY DEF Alone
<1>2. "ticks" \notin DOMAIN One!NoSwap
  BY DEF One!NoSwap
<1> QED BY <1>1, <1>2

\* It begins.
LEMMA BegunAloneNext ==
    ASSUME Placed, NEW h \in Hop, h.pool = ThePool, One!SwapArraysLoad(h),
           NEW isInput \in BOOLEAN, NEW amount \in U64, CanSwap(h, isInput, amount),
           SwapIn(trade) = NoTrade,
           SwapIn(trade)' = Alone(SwapOf(h, isInput, amount)),
           UNCHANGED <<pool, ticks, position, vault, budget>>
    PROVE  One!Next
<1> DEFINE a == SwapArgsOf(h, isInput, amount)
           s == SwapStart(pool[ThePool], ticks[ThePool], a)
           b == Alone(s).args
<1>0. AccountsInv
  BY DEF Placed
<1>1. SwapOf(h, isInput, amount) = s /\ SwapAllowed(pool[ThePool], a)
  BY DEF SwapOf, CanSwap
<1>2. Alone(s) = One!SwapStart(pool[ThePool], ticks[ThePool], b) /\ One!SwapAllowed(pool[ThePool], b)
  BY <1>1, AloneStarts
<1>3. /\ b.arrays = h.arrays
      /\ b \in [a_to_b : BOOLEAN, amount_specified_is_input : BOOLEAN, amount : U64,
                sqrt_price_limit : U128, other_amount_threshold : U64, arrays : Seq(Int)]
  <2>1. s.args = a
    BY DEF SwapStart
  <2>2. a.amount \in U64
    BY <1>0, SwapAmountType DEF CanSwap, SwapArgsOf
  <2>3. 0 \in U64 /\ Q64 - 1 \in U64
    BY MathAssumption DEF U64
  <2>4. /\ h.a_to_b \in BOOLEAN /\ h.sqrt_price_limit \in U128 /\ h.arrays \in Seq(Int)
    BY DEF Hop
  <2>5. /\ a.a_to_b = h.a_to_b /\ a.amount_specified_is_input = isInput
        /\ a.sqrt_price_limit = h.sqrt_price_limit /\ a.arrays = h.arrays
    BY DEF SwapArgsOf
  <2> HIDE DEF a, s
  <2>6. b = [a_to_b |-> a.a_to_b, amount_specified_is_input |-> a.amount_specified_is_input,
             amount |-> a.amount, sqrt_price_limit |-> a.sqrt_price_limit,
             other_amount_threshold |-> IF a.amount_specified_is_input THEN 0 ELSE Q64 - 1,
             arrays |-> a.arrays]
    BY <2>1 DEF Alone
  <2> HIDE DEF b
  <2> QED BY <2>2, <2>3, <2>4, <2>5, <2>6
<1> HIDE DEF a, s, b
<1>4. One!SwapArraysLoad(b)
  BY <1>3 DEF One!SwapArraysLoad
<1>5. TheBudget["swap"] > 0
  <2>1. budget["trade"] \in Nat
    BY <1>0 DEF AccountsInv, Kind
  <2> QED BY <2>1 DEF TheBudget
<1>6. UNCHANGED <<pool[ThePool], ticks[ThePool], <<position[ThePool]>>, TheVault, TheBudget>>
  BY DEF TheVault, TheBudget
<1>7. One!Idle
  BY NothingBegun
<1>8. SwapIn(trade)' = One!SwapStart(pool[ThePool], ticks[ThePool], b)
  BY <1>1, <1>2
<1>9. One!SwapBegin(b)
  BY <1>2, <1>4, <1>5, <1>6, <1>7, <1>8 DEF One!SwapBegin
<1> QED BY <1>3, <1>9 DEF One!Next

\* An iteration.
LEMMA IteratedAlone ==
    ASSUME Placed, SwapIteration, trade.args.hops[trade.current].pool = ThePool,
           NEW i, i = trade.current, SwapSound(trade.swaps[i]),
           SwapIn(trade) = Alone(trade.swaps[i]), SwapIn(trade)' = Alone(trade'.swaps[i]),
           i \in DOMAIN trade.swaps, "swaps" \in DOMAIN trade
    PROVE  One!Next
<1> DEFINE s == trade.swaps[i]
           q == pool[ThePool]
<1>1. /\ Swap = s /\ SwappedPool = q
      /\ SwapRunning(s) /\ CanSearch(s)
      /\ UNCHANGED <<pool, ticks, position, vault, budget>>
  BY DEF SwapIteration, Swap, SwappedPool
<1>2. PICK j, t, c :
         /\ j = NextArrayIndex(s) /\ t = NextTick(s, j) /\ c = SwapComputation(q, s, t)
         /\ StepOk(q, s, j, t, c)
         /\ trade' = [trade EXCEPT !.swaps[i] = StepSwap(q, s, j, t, c, q.reward_infos)]
  BY <1>1 DEF SwapIteration
<1> DEFINE next == StepSwap(q, s, j, t, c, q.reward_infos)
<1>3. trade'.swaps[i] = next
  <2> HIDE DEF next
  <2> QED BY <1>2 DEF next
<1>4. DOMAIN s = SwapFields
  BY DEF SwapSound
<1> HIDE DEF s, q
<1>5. /\ One!SwapRunning(Alone(s)) /\ One!CanSearch(Alone(s))
      /\ j \in {One!NextArrayIndex(Alone(s))} /\ t \in {One!NextTick(Alone(s), j)}
      /\ c \in {One!SwapComputation(q, Alone(s), t)}
  BY <1>1, <1>2, AloneSearches
<1>6. One!StepOk(q, Alone(s), j, t, c)
  BY <1>2, AloneSteps
<1>7. Alone(next) = One!StepSwap(q, Alone(s), j, t, c, q.reward_infos)
  BY <1>4, AloneStepped
<1>8. One!NewRewardInfos = q.reward_infos
  BY PlacedTypes DEF q
<1>9. SwapIn(trade) = Alone(s) /\ SwapIn(trade)' = Alone(next)
  BY <1>3 DEF s
<1>10. UNCHANGED <<pool[ThePool], ticks[ThePool], <<position[ThePool]>>, TheVault, TheBudget>>
  BY <1>1 DEF TheVault, TheBudget
<1>11. ~One!Idle
  BY <1>9, NothingBegun, AloneSwaps
<1> HIDE DEF next
<1>12. One!SwapStep
  BY <1>5, <1>6, <1>7, <1>8, <1>9, <1>10, <1>11 DEF One!SwapStep, q
<1> QED BY <1>12 DEF One!Next, One!Swapping

\* What a swap moves in the vaults.
LEMMA VaultSwappedAlone ==
    ASSUME Placed, NEW k \in Token, NEW l \in Token, NEW x \in Int, NEW y \in Int,
           vault'[ThePool] = [[vault[ThePool] EXCEPT ![k] = @ + x] EXCEPT ![l] = @ - y]
    PROVE  TheVault' = One!Withdraw(One!Deposit(TheVault, k, x), l, y)
<1>1. DOMAIN vault[ThePool] = Token /\ Reward \cap Token = {}
  BY TwoHopAssumption DEF Placed, PlaceInv
<1> DEFINE v == vault[ThePool]
           K == Token \cup Reward
           T(f) == [j \in K |-> IF j \in Token THEN f[j] ELSE 0]
<1>2. TheVault = T(v) /\ TheVault' = T(v')
  BY DEF TheVault
<1>3. v' = [[v EXCEPT ![k] = @ + x] EXCEPT ![l] = @ - y] /\ DOMAIN v = Token
  BY <1>1
<1> HIDE DEF v
<1>4. T(v') = One!Withdraw(One!Deposit(T(v), k, x), l, y)
  BY <1>1, <1>3 DEF One!Deposit, One!Withdraw
<1> HIDE DEF T
<1> QED BY <1>2, <1>4

\* What it spends.
LEMMA BudgetSwapAlone ==
    ASSUME AccountsInv, Spend("trade")
    PROVE  One!Spend("swap")
<1>1. budget["trade"] \in Nat /\ budget' = [budget EXCEPT !["trade"] = @ - 1]
      /\ DOMAIN budget = Kind /\ {"liquidity", "collect", "trade"} \subseteq Kind
  BY DEF AccountsInv, Kind, Spend
<1>2. TheBudget["swap"] = budget["trade"] + 1
  BY DEF TheBudget
<1>3. /\ budget'["trade"] = budget["trade"] - 1
      /\ budget'["liquidity"] = budget["liquidity"] /\ budget'["collect"] = budget["collect"]
  BY <1>1
<1>4. budget'["trade"] + 1 = (budget["trade"] + 1) - 1
  BY <1>1, <1>3
<1>5. TheBudget' = [TheBudget EXCEPT !["swap"] = @ - 1]
  BY <1>3, <1>4 DEF TheBudget
<1> QED BY <1>1, <1>2, <1>5 DEF One!Spend

\* It is carried out.
LEMMA CommittedAlone ==
    ASSUME Placed, TradeCommit, NEW i \in 1 .. HopCount(trade),
           trade.args.hops[i].pool = ThePool
    PROVE  One!Next
<1> DEFINE s == trade.swaps[i]
           q == pool[ThePool]
           h == trade.args.hops[i]
<1>0. ThePool \in Pool /\ AccountsInv /\ TradeInv /\ PlaceInv /\ DOMAIN vault = Pool
  BY DEF Placed, PlaceInv
<1>1. /\ ~Idle /\ trade.current = LastComputed(trade.args) /\ CanCommitTrade(trade)
      /\ pool' = AfterHops(trade, pool, [j \in 1 .. HopCount(trade) |-> PoolAfterHop(trade, j)])
      /\ ticks' = AfterHops(trade, ticks, [j \in 1 .. HopCount(trade) |-> trade.swaps[j].ticks])
      /\ vault' = AfterHops(trade, vault, [j \in 1 .. HopCount(trade) |-> VaultAfterHop(trade, j)])
      /\ trade' = NoTrade /\ Spend("trade") /\ UNCHANGED position
  BY DEF TradeCommit
<1>2. /\ TradeSound(trade) /\ HopSound(trade, i) /\ HopStopped(trade, i)
      /\ HopsFit(trade.args) /\ trade.args \in Trades
  BY <1>0, <1>1, CommitSound DEF PlaceInv, TradeSound
<1>3. i \in {FirstComputed(trade.args), trade.current}
  <2>1. HopCount(trade) \in {1, 2} /\ trade.args.amount_specified_is_input \in BOOLEAN
    BY <1>2, TradeParts DEF HopCount
  <2>2. \/ FirstComputed(trade.args) = 1 /\ LastComputed(trade.args) = HopCount(trade)
        \/ FirstComputed(trade.args) = HopCount(trade) /\ LastComputed(trade.args) = 1
    BY DEF FirstComputed, LastComputed, HopCount
  <2> QED BY <1>1, <2>1, <2>2
<1>4. HopsIn(trade, ThePool) = {i} /\ SwapIn(trade) = Alone(s)
  BY <1>2, <1>3, BegunAlone
<1>5. SwapIn(trade)' = One!NoSwap
  BY <1>1 DEF SwapIn, NoTrade, One!NoSwap
<1>6. (CHOOSE j \in {i} : TRUE) = i
  OBVIOUS
<1>7. /\ pool'[ThePool] = PoolAfterHop(trade, i) /\ ticks'[ThePool] = s.ticks
      /\ vault'[ThePool] = VaultAfterHop(trade, i)
  BY <1>0, <1>1, <1>4, <1>6 DEF AfterHops
<1>8. pool'[ThePool] = One!PoolAfterSwap(q, Alone(s), One!NewRewardInfos, 0)
  <2>1. pool'[ThePool] = PoolAfterSwap(q, s, q.reward_infos, 0)
    BY <1>7 DEF PoolAfterHop
  <2> HIDE DEF q, s
  <2>2. One!NewRewardInfos = q.reward_infos
    BY PlacedTypes DEF q
  <2> QED BY <2>1, <2>2, AloneEnds
<1>9. ticks'[ThePool] = Alone(s).ticks
  BY <1>7, AloneArgs
<1>10. /\ s.args.a_to_b = h.a_to_b /\ InputToken(h) = InputToken(s.args)
       /\ OutputToken(h) = OutputToken(s.args) /\ SwapSound(s)
       /\ InputToken(h) \in Token /\ OutputToken(h) \in Token
       /\ InputToken(h) # OutputToken(h)
  BY <1>2 DEF HopSound, SwapArgsOf, InputToken, OutputToken, Token
<1>11. /\ One!InputToken(Alone(s).args) = InputToken(h)
       /\ One!OutputToken(Alone(s).args) = OutputToken(h)
       /\ One!AmountIn(Alone(s)) = AmountIn(s) /\ One!AmountOut(Alone(s)) = AmountOut(s)
  BY <1>10, AloneArgs, AloneTokens, AloneSearches
<1>12. /\ TransferFeeExcludedAmount(transfer_fee[InMint(h)], HopIn(trade, i)) = AmountIn(s)
       /\ HopOut(trade, i) = AmountOut(s) /\ AmountIn(s) \in U64 /\ AmountOut(s) \in U64
  BY <1>0, <1>2, <1>10, HopTakes, SwapReturns DEF HopStopped, HopOut
<1>13. AmountIn(s) \in Nat /\ AmountOut(s) \in Nat /\ AmountIn(s) <= Q64 - 1
  BY <1>12, MathAssumption DEF U64
<1>14. /\ CanReceive(vault[h.pool], InputToken(h), HopIn(trade, i), InMint(h))
       /\ HopOut(trade, i) <= vault[h.pool][OutputToken(h)]
  BY <1>1 DEF CanCommitTrade, CanTransfer
<1>15. TheVault[InputToken(h)] = vault[ThePool][InputToken(h)]
       /\ TheVault[OutputToken(h)] = vault[ThePool][OutputToken(h)]
  BY <1>10 DEF TheVault
<1>16. vault[ThePool][InputToken(h)] + AmountIn(s) \in U64
  BY <1>0, <1>10, <1>12, <1>14 DEF CanReceive, Received, PlaceInv
<1>17. TheVault' = One!SwapTransfers(TheVault, Alone(s))
  <2>1. vault'[ThePool] = [[vault[ThePool] EXCEPT ![InputToken(h)] = @ + AmountIn(s)]
                             EXCEPT ![OutputToken(h)] = @ - AmountOut(s)]
    BY <1>7, <1>12 DEF VaultAfterHop, Sent, Received
  <2> HIDE DEF s, h
  <2>2. TheVault' = One!Withdraw(One!Deposit(TheVault, InputToken(h), AmountIn(s)),
                                 OutputToken(h), AmountOut(s))
    <3>1. AmountIn(s) \in Int /\ AmountOut(s) \in Int
      BY <1>13
    <3> QED BY <1>10, <2>1, <3>1, VaultSwappedAlone
  <2> QED BY <1>11, <2>2 DEF One!SwapTransfers
<1>18. One!WithinThreshold(Alone(s))
  <2>1. /\ Alone(s).args.amount_specified_is_input = s.args.amount_specified_is_input
        /\ Alone(s).args.other_amount_threshold =
              IF s.args.amount_specified_is_input THEN 0 ELSE Q64 - 1
    BY DEF Alone
  <2> HIDE DEF s
  <2> QED BY <1>11, <1>13, <2>1 DEF One!WithinThreshold
<1>19. One!CanCommit(Alone(s))
  <2> HIDE DEF s, q
  <2>1. One!CanDeposit(TheVault, One!InputToken(Alone(s).args), One!AmountIn(Alone(s)))
    <3>1. TheVault[InputToken(h)] + AmountIn(s) <= Q64 - 1
      BY <1>15, <1>16, MathAssumption DEF U64
    <3> QED BY <1>11, <3>1 DEF One!CanDeposit
  <2>2. One!CanWithdraw(TheVault, One!OutputToken(Alone(s).args), One!AmountOut(Alone(s)))
    BY <1>11, <1>12, <1>14, <1>15 DEF One!CanWithdraw
  <2> QED BY <1>18, <2>1, <2>2 DEF One!CanCommit
<1>20. ~One!SwapRunning(Alone(s))
  BY <1>2, AloneSearches DEF HopStopped
<1>21. ~One!Idle
  BY <1>4, NothingBegun, AloneSwaps
<1>22. One!Spend("swap")
  BY <1>0, <1>1, BudgetSwapAlone
<1>23. UNCHANGED <<position[ThePool]>>
  BY <1>1
<1> HIDE DEF s
<1>24. One!SwapCommit
  BY <1>4, <1>5, <1>8, <1>9, <1>17, <1>19, <1>20, <1>21, <1>22, <1>23 DEF One!SwapCommit, q
<1> QED BY <1>24 DEF One!Next, One!Swapping

\* As far as the pool alone goes, its swap is dropped.
LEMMA DroppedAlone ==
    ASSUME Placed, AccountsInv', SwapIn(trade)' = NoTrade,
           UNCHANGED <<pool[ThePool], ticks[ThePool], position[ThePool], vault[ThePool]>>
    PROVE  One!BackedInv'
<1>1. TheBudget' \in [One!Kind -> Nat]
  <2>1. /\ budget'["trade"] \in Nat /\ budget'["liquidity"] \in Nat
        /\ budget'["collect"] \in Nat
    BY DEF AccountsInv, Kind
  <2>2. budget'["trade"] + 1 \in Nat
    BY <2>1
  <2> QED BY <2>1, <2>2 DEF TheBudget, One!Kind
<1>2. UNCHANGED TheVault
  BY DEF TheVault
<1>3. SwapIn(trade)' = One!NoSwap
  BY NothingBegun
<1> QED BY <1>1, <1>2, <1>3, OneDropped DEF Placed

\* The nets of the ticks of a trade's swaps have negations, which the least i128 has not.
NetsNegatable ==
    ~Idle => \A i \in 1 .. HopCount(trade), t \in UsableTick :
                -(trade.swaps[i].ticks[t].liquidity_net) \in I128

LEMMA NegatableAlone ==
    ASSUME NetsNegatable
    PROVE  One!NetsNegatable
<1> SUFFICES ASSUME ~One!Idle, NEW t \in UsableTick
             PROVE  -(SwapIn(trade).ticks[t].liquidity_net) \in I128
  BY SameSets DEF One!NetsNegatable
<1>1. trade # NoTrade /\ Begun(trade) # {}
  BY NothingBegun DEF SwapIn
<1> DEFINE i == CHOOSE j \in Begun(trade) : TRUE
<1>2. i \in 1 .. HopCount(trade)
  BY <1>1 DEF Begun, HopsIn
<1>3. SwapIn(trade) = Alone(trade.swaps[i])
  BY <1>1 DEF SwapIn
<1> HIDE DEF i
<1>4. SwapIn(trade).ticks = trade.swaps[i].ticks
  BY <1>3, AloneArgs
<1> QED BY <1>1, <1>2, <1>4 DEF NetsNegatable, Idle

\* What was checked of a trade's arrays.
LEMMA AllowedFits ==
    ASSUME NEW a \in Trades, TradeAllowed(a)
    PROVE  HopsFit(a)
<1>1. DOMAIN a.hops = 1 .. Len(a.hops)
  BY TradeParts
<1>2. \A h : PoolOf(ThePool)!SwapArraysLoad(h) <=> One!SwapArraysLoad(h)
  BY DEF PoolOf!SwapArraysLoad, One!SwapArraysLoad
<1>3. ASSUME NEW i \in 1 .. Len(a.hops), a.hops[i].pool = ThePool
      PROVE  One!SwapArraysLoad(a.hops[i])
  BY <1>1, <1>2, <1>3 DEF TradeAllowed
<1> QED BY <1>3 DEF TradeAllowed, HopsFit

\* The swap of ThePool stays as it is while that of another pool goes on.
LEMMA OthersGoOn ==
    ASSUME NEW t, NEW u, TradeSound(t), TradeSound(u), HopsFit(t.args), u.args = t.args,
           \A i \in HopsIn(t, ThePool) :
              /\ u.swaps[i] = t.swaps[i]
              /\ i \in {FirstComputed(t.args), t.current}
                    <=> i \in {FirstComputed(t.args), u.current}
    PROVE  SwapIn(u) = SwapIn(t)
<1>1. HopsIn(u, ThePool) = HopsIn(t, ThePool) /\ HopCount(u) = HopCount(t)
  BY DEF HopsIn, HopCount
<1>2. CASE HopsIn(t, ThePool) = {}
  BY <1>1, <1>2, BegunAlone
<1>3. ASSUME NEW i \in HopsIn(t, ThePool) PROVE SwapIn(u) = SwapIn(t)
  <2>1. i \in 1 .. HopCount(t) /\ t.args.hops[i].pool = ThePool
    BY <1>3 DEF HopsIn
  <2>2. SwapIn(t) = IF i \in {FirstComputed(t.args), t.current}
                    THEN Alone(t.swaps[i]) ELSE NoTrade
    BY <2>1, BegunAlone
  <2>3. SwapIn(u) = IF i \in {FirstComputed(u.args), u.current}
                    THEN Alone(u.swaps[i]) ELSE NoTrade
    BY <1>1, <2>1, BegunAlone
  <2> QED BY <1>3, <2>2, <2>3
<1> QED BY <1>2, <1>3

\* A trade begins.
LEMMA BeginKeepsBacked ==
    ASSUME Placed, NetsNegatable, NEW a \in Trades, TradeBegin(a), AccountsInv'
    PROVE  One!BackedInv' /\ HopsFit(trade'.args)
<1> DEFINE i == FirstComputed(a)
           isInput == a.amount_specified_is_input
           h == a.hops[i]
           s == SwapOf(h, isInput, a.amount)
           t == trade'
<1>0. ThePool \in Pool /\ AccountsInv /\ One!BackedInv
  BY DEF Placed
<1>1. /\ Idle /\ TradeAllowed(a) /\ CanSwap(h, isInput, a.amount)
      /\ t = [args |-> a, current |-> i,
              amounts |-> [j \in DOMAIN a.hops |-> IF j = i THEN a.amount ELSE 0],
              swaps |-> [j \in DOMAIN a.hops |-> s]]
      /\ UNCHANGED <<pool, ticks, position, vault, budget>>
  BY DEF TradeBegin
<1>2. /\ a.amount \in U64 /\ isInput \in BOOLEAN /\ Len(a.hops) \in {1, 2}
      /\ DOMAIN a.hops = 1 .. Len(a.hops) /\ \A j \in 1 .. Len(a.hops) : a.hops[j] \in Hop
  BY TradeParts
<1>3. i \in 1 .. Len(a.hops)
  <2>1. i = 1 \/ i = Len(a.hops)
    BY DEF FirstComputed
  <2>2. 1 \in 1 .. Len(a.hops) /\ Len(a.hops) \in 1 .. Len(a.hops)
    <3>1. \A n \in {1, 2} : 1 \in 1 .. n /\ n \in 1 .. n
      OBVIOUS
    <3> QED BY <1>2, <3>1
  <2> HIDE DEF i
  <2> QED BY <2>1, <2>2
<1>4. HopsFit(a) /\ TradeSound(t)
  BY <1>0, <1>1, AllowedFits, TradeBegins
<1>5. t.args = a /\ t.current = i /\ t.swaps[i] = s
  BY <1>1, <1>2, <1>3
<1>6. SwapIn(trade) = NoTrade
  BY <1>1 DEF SwapIn, Idle
<1> HIDE DEF t, s
<1>7. CASE h.pool = ThePool
  <2>1. SwapIn(t) = Alone(s)
    <3>1. i \in 1 .. HopCount(t) /\ t.args.hops[i].pool = ThePool
      BY <1>3, <1>5, <1>7 DEF HopCount
    <3> QED BY <1>4, <1>5, <3>1, BegunAlone
  <2>2. One!SwapArraysLoad(h) /\ h \in Hop
    BY <1>2, <1>3, <1>4, <1>7 DEF HopsFit
  <2>3. SwapIn(trade)' = Alone(SwapOf(h, isInput, a.amount))
    BY <2>1 DEF t, s, SwapIn, Begun, HopsIn, HopCount
  <2>4. One!Next
    BY <1>1, <1>2, <1>6, <1>7, <2>2, <2>3, BegunAloneNext
  <2> QED BY <1>0, <1>4, <1>5, <2>4, NegatableAlone, OneStep DEF t
<1>8. CASE h.pool # ThePool
  <2>1. Begun(t) = {}
    BY <1>5, <1>8 DEF Begun, HopsIn
  <2>2. SwapIn(trade)' = NoTrade
    BY <2>1 DEF SwapIn, t, Begun, HopsIn, HopCount
  <2>3. One!BackedInv'
    BY <1>1, <2>2, DroppedAlone
  <2> QED BY <1>4, <1>5, <2>3 DEF t
<1> QED BY <1>7, <1>8

\* An iteration, of the swap in ThePool or in another pool.
LEMMA IterationKeepsBacked ==
    ASSUME Placed, NetsNegatable, SwapIteration
    PROVE  One!BackedInv' /\ HopsFit(trade'.args)
<1> DEFINE i == trade.current
           t == trade'
<1>0. ThePool \in Pool /\ AccountsInv /\ TradeInv /\ One!BackedInv
  BY DEF Placed
<1>1. TradeSound(trade) /\ TradeSound(t) /\ HopsFit(trade.args)
  BY <1>0, TradeIterates DEF TradeInv, SwapIteration, Placed, PlaceInv
<1>2. PICK s : trade' = [trade EXCEPT !.swaps[i] = s]
  BY DEF SwapIteration
<1>3. /\ "swaps" \in DOMAIN trade /\ DOMAIN trade.swaps = 1 .. HopCount(trade)
      /\ t.args = trade.args /\ t.current = i
      /\ \A j \in 1 .. HopCount(trade) : j # i => t.swaps[j] = trade.swaps[j]
  BY <1>1, <1>2 DEF TradeSound
<1>4. i \in {FirstComputed(trade.args), LastComputed(trade.args)} /\ i \in 1 .. HopCount(trade)
  <2>1. HopCount(trade) \in {1, 2}
    BY <1>1, TradeParts DEF HopCount, TradeSound
  <2>2. /\ FirstComputed(trade.args) \in {1, HopCount(trade)}
        /\ LastComputed(trade.args) \in {1, HopCount(trade)}
    BY DEF FirstComputed, LastComputed, HopCount
  <2>3. i \in {FirstComputed(trade.args), LastComputed(trade.args)}
    BY <1>1 DEF TradeSound
  <2> QED BY <2>1, <2>2, <2>3
<1>5. SwapSound(trade.swaps[i])
  BY <1>1 DEF TradeSound, HopSound
<1>6. HopCount(t) = HopCount(trade) /\ UNCHANGED <<pool, ticks, position, vault, budget>>
  BY <1>3 DEF HopCount, SwapIteration
<1>7. CASE trade.args.hops[i].pool = ThePool
  <2>1. SwapIn(trade) = Alone(trade.swaps[i]) /\ SwapIn(t) = Alone(t.swaps[i])
    BY <1>1, <1>3, <1>4, <1>6, <1>7, BegunAlone
  <2>2. SwapIn(trade)' = Alone(trade'.swaps[i])
    BY <2>1 DEF SwapIn, Begun, HopsIn, HopCount
  <2>3. One!Next
    BY <1>3, <1>4, <1>5, <1>7, <2>1, <2>2, IteratedAlone
  <2> QED BY <1>0, <1>1, <1>3, <2>3, NegatableAlone, OneStep
<1>8. CASE trade.args.hops[i].pool # ThePool
  <2>1. \A j \in HopsIn(trade, ThePool) : j \in 1 .. HopCount(trade) /\ j # i
    BY <1>8 DEF HopsIn
  <2>2. SwapIn(t) = SwapIn(trade)
    <3> HIDE DEF t
    <3> QED BY <1>1, <1>3, <2>1, OthersGoOn
  <2>3. UNCHANGED <<SwapIn(trade), pool[ThePool], ticks[ThePool], position[ThePool], TheVault,
                    TheBudget>>
    BY <1>6, <2>2 DEF SwapIn, Begun, HopsIn, HopCount, TheVault, TheBudget
  <2> QED BY <1>0, <1>1, <1>3, <2>3, NegatableAlone, OneStutter
<1> QED BY <1>7, <1>8

\* The second loop begins.
LEMMA NextHopKeepsBacked ==
    ASSUME Placed, NetsNegatable, NextHop
    PROVE  One!BackedInv' /\ HopsFit(trade'.args)
<1> DEFINE i == LastComputed(trade.args)
           first == FirstComputed(trade.args)
           h == trade.args.hops[i]
           s == SwapOf(h, IsInput(trade), NextAmount(trade))
           t == trade'
<1>0. ThePool \in Pool /\ AccountsInv /\ TradeInv /\ One!BackedInv
  BY DEF Placed
<1>1. /\ TradeSound(trade) /\ TradeSound(t) /\ HopsFit(trade.args)
      /\ trade.current # i /\ CanSwap(h, IsInput(trade), NextAmount(trade))
      /\ trade' = [trade EXCEPT !.current = i, !.amounts[i] = NextAmount(trade), !.swaps[i] = s]
      /\ UNCHANGED <<pool, ticks, position, vault, budget>>
  BY <1>0, TradeGoesOn DEF TradeInv, NextHop, CanGoOn, Placed, PlaceInv
<1>2. trade.current = first /\ first # i
  BY <1>1 DEF TradeSound
<1>3. /\ HopCount(trade) = 2 /\ IsInput(trade) \in BOOLEAN
      /\ first \in 1 .. HopCount(trade) /\ i \in 1 .. HopCount(trade)
      /\ \A j \in 1 .. HopCount(trade) : j \in {first, i} /\ trade.args.hops[j] \in Hop
  <2>1. /\ HopCount(trade) \in {1, 2} /\ trade.args.amount_specified_is_input \in BOOLEAN
        /\ \A j \in 1 .. HopCount(trade) : trade.args.hops[j] \in Hop
    BY <1>1, TradeParts DEF HopCount, TradeSound
  <2>2. \/ first = 1 /\ i = HopCount(trade)
        \/ first = HopCount(trade) /\ i = 1
    BY DEF FirstComputed, LastComputed, HopCount
  <2> HIDE DEF first, i
  <2> QED BY <1>2, <2>1, <2>2 DEF IsInput
<1> HIDE DEF s
<1>4. /\ DOMAIN trade = {"args", "current", "amounts", "swaps"}
      /\ DOMAIN trade.swaps = 1 .. HopCount(trade) /\ DOMAIN trade.amounts = 1 .. HopCount(trade)
  BY <1>1 DEF TradeSound
<1>5. /\ t.args = trade.args /\ t.current = i /\ t.amounts[i] = NextAmount(trade)
      /\ t.swaps[i] = s /\ t.swaps[first] = trade.swaps[first]
  <2> HIDE DEF i, first
  <2> QED BY <1>1, <1>2, <1>3, <1>4
<1>6. NextAmount(trade) \in U64
  <2>1. HopSound(t, i)
    BY <1>1, <1>2, <1>5 DEF TradeSound
  <2> QED BY <1>5, <2>1 DEF HopSound
<1>7. HopCount(t) = HopCount(trade) /\ FirstComputed(t.args) = first
  BY <1>5 DEF HopCount
<1>8. CASE h.pool = ThePool
  <2>1. SwapIn(trade) = NoTrade /\ SwapIn(t) = Alone(t.swaps[i])
    <3> HIDE DEF t
    <3>1. SwapIn(trade) = IF i \in {first, trade.current} THEN Alone(trade.swaps[i]) ELSE NoTrade
      BY <1>1, <1>3, <1>8, BegunAlone
    <3>2. SwapIn(t) = IF i \in {FirstComputed(t.args), t.current}
                      THEN Alone(t.swaps[i]) ELSE NoTrade
      BY <1>1, <1>3, <1>5, <1>7, <1>8, BegunAlone
    <3> QED BY <1>2, <1>5, <3>1, <3>2
  <2>2. SwapIn(trade)' = Alone(SwapOf(h, IsInput(trade), NextAmount(trade)))
    BY <1>5, <2>1 DEF SwapIn, Begun, HopsIn, HopCount, s
  <2>3. One!SwapArraysLoad(h) /\ h \in Hop
    BY <1>1, <1>3, <1>8 DEF HopsFit, HopCount
  <2>4. One!Next
    BY <1>1, <1>3, <1>6, <1>8, <2>1, <2>2, <2>3, BegunAloneNext
  <2> QED BY <1>0, <1>1, <1>5, <2>4, NegatableAlone, OneStep
<1>9. CASE h.pool # ThePool
  <2>1. \A j \in HopsIn(trade, ThePool) : j = first
    BY <1>3, <1>9 DEF HopsIn
  <2>2. SwapIn(t) = SwapIn(trade)
    <3> HIDE DEF t
    <3> QED BY <1>1, <1>5, <1>7, <2>1, OthersGoOn
  <2>3. UNCHANGED <<SwapIn(trade), pool[ThePool], ticks[ThePool], position[ThePool], TheVault,
                    TheBudget>>
    BY <1>1, <2>2 DEF SwapIn, Begun, HopsIn, HopCount, TheVault, TheBudget
  <2> QED BY <1>0, <1>1, <1>5, <2>3, NegatableAlone, OneStutter
<1> QED BY <1>8, <1>9

\* A trade is carried out.
LEMMA CommitKeepsBacked ==
    ASSUME Placed, NetsNegatable, TradeCommit, AccountsInv'
    PROVE  One!BackedInv'
<1>0. ThePool \in Pool /\ One!BackedInv
  BY DEF Placed
<1>1. CASE HopsIn(trade, ThePool) = {}
  <2>1. /\ pool'[ThePool] = pool[ThePool] /\ ticks'[ThePool] = ticks[ThePool]
        /\ vault'[ThePool] = vault[ThePool] /\ position' = position /\ trade' = NoTrade
    BY <1>0, <1>1 DEF TradeCommit, AfterHops
  <2>2. SwapIn(trade)' = NoTrade
    BY <2>1 DEF SwapIn
  <2> QED BY <2>1, <2>2, DroppedAlone
<1>2. ASSUME NEW i \in HopsIn(trade, ThePool) PROVE One!BackedInv'
  <2>1. i \in 1 .. HopCount(trade) /\ trade.args.hops[i].pool = ThePool
    BY <1>2 DEF HopsIn
  <2> QED BY <1>0, <2>1, CommittedAlone, NegatableAlone, OneStep
<1> QED BY <1>1, <1>2

\* Every step keeps what backs the tokens of ThePool.
LEMMA NextKeepsBacked ==
    ASSUME Placed, NetsNegatable, [Next]_vars, AccountsInv'
    PROVE  One!BackedInv'
<1>0. ThePool \in Pool /\ One!BackedInv /\ AccountsInv /\ TradeInv
  BY DEF Placed
<1>1. \A p \in Pool : p # ThePool =>
        \A f, x : [f EXCEPT ![p] = x][ThePool] = f[ThePool]
  BY <1>0
<1>2. One!Next => One!BackedInv'
  BY <1>0, NegatableAlone, OneStep
<1>3. ASSUME trade' = trade, Idle,
             UNCHANGED <<pool[ThePool], ticks[ThePool], position[ThePool], vault[ThePool]>>
      PROVE  One!BackedInv'
  <2>1. SwapIn(trade)' = NoTrade
    BY <1>3 DEF SwapIn, Idle
  <2> QED BY <1>3, <2>1, DroppedAlone
<1>4. CASE UNCHANGED vars
  <2>1. UNCHANGED <<SwapIn(trade), pool[ThePool], ticks[ThePool], position[ThePool], TheVault,
                    TheBudget>>
    BY <1>4 DEF vars, SwapIn, Begun, HopsIn, HopCount, TheVault, TheBudget
  <2> QED BY <1>0, <2>1, NegatableAlone, OneStutter
<1>5. ASSUME NEW p \in Pool, NEW amount \in LiquidityAmounts, IncreaseLiquidityV2(p, amount)
      PROVE  One!BackedInv'
  <2>1. CASE p = ThePool
    BY <1>2, <1>5, <2>1, IncreasedAlone
  <2>2. CASE p # ThePool
    <3>1. /\ Idle /\ trade' = trade
          /\ pool'[ThePool] = pool[ThePool] /\ ticks'[ThePool] = ticks[ThePool]
          /\ position'[ThePool] = position[ThePool] /\ vault'[ThePool] = vault[ThePool]
      BY <1>1, <1>5, <2>2 DEF IncreaseLiquidityV2, SyncModifyLiquidity
    <3> QED BY <1>3, <3>1
  <2> QED BY <2>1, <2>2
<1>6. ASSUME NEW p \in Pool, NEW amount \in LiquidityAmounts, DecreaseLiquidityV2(p, amount)
      PROVE  One!BackedInv'
  <2>1. CASE p = ThePool
    BY <1>2, <1>6, <2>1, DecreasedAlone
  <2>2. CASE p # ThePool
    <3> DEFINE owed == [k \in Token |->
                          PoolOf(p)!LiquidityTokenDelta(k, position[p], amount, FALSE)]
    <3>1. /\ Idle /\ trade' = trade /\ PaidOut(p, owed) /\ SyncModifyLiquidity(p, -amount)
      BY <1>6 DEF DecreaseLiquidityV2
    <3>2. /\ pool'[ThePool] = pool[ThePool] /\ ticks'[ThePool] = ticks[ThePool]
          /\ position'[ThePool] = position[ThePool]
      BY <1>1, <2>2, <3>1 DEF SyncModifyLiquidity
    <3> HIDE DEF owed
    <3>3. vault'[ThePool] = vault[ThePool]
      BY <1>1, <2>2, <3>1 DEF PaidOut
    <3> QED BY <1>3, <3>1, <3>2, <3>3
  <2> QED BY <2>1, <2>2
<1>7. ASSUME NEW p \in Pool, CollectFeesV2(p)
      PROVE  One!BackedInv'
  <2>1. CASE p = ThePool
    BY <1>2, <1>7, <2>1, CollectedAlone
  <2>2. CASE p # ThePool
    <3>1. /\ Idle /\ trade' = trade
          /\ pool'[ThePool] = pool[ThePool] /\ ticks'[ThePool] = ticks[ThePool]
          /\ position'[ThePool] = position[ThePool] /\ vault'[ThePool] = vault[ThePool]
      BY <1>1, <1>7, <2>2 DEF CollectFeesV2, PaidOut
    <3> QED BY <1>3, <3>1
  <2> QED BY <2>1, <2>2
<1>8. ASSUME NEW p \in Pool, CollectProtocolFeesV2(p)
      PROVE  One!BackedInv'
  <2>1. CASE p = ThePool
    BY <1>2, <1>8, <2>1, ProtocolCollectedAlone
  <2>2. CASE p # ThePool
    <3>1. /\ Idle /\ trade' = trade
          /\ pool'[ThePool] = pool[ThePool] /\ ticks'[ThePool] = ticks[ThePool]
          /\ position'[ThePool] = position[ThePool] /\ vault'[ThePool] = vault[ThePool]
      BY <1>1, <1>8, <2>2 DEF CollectProtocolFeesV2, PaidOut
    <3> QED BY <1>3, <3>1
  <2> QED BY <2>1, <2>2
<1>9. ASSUME NEW m \in Mint, NEW f \in FeesSet, SetTransferFee(m, f)
      PROVE  One!BackedInv'
  BY <1>3, <1>9 DEF SetTransferFee
<1>10. ASSUME NEW a \in Trades, TradeBegin(a) PROVE One!BackedInv'
  BY <1>10, BeginKeepsBacked
<1>11. CASE SwapIteration
  BY <1>11, IterationKeepsBacked
<1>12. CASE NextHop
  BY <1>12, NextHopKeepsBacked
<1>13. CASE TradeCommit
  BY <1>13, CommitKeepsBacked
<1>14. CASE TradeRevert
  <2>1. trade' = NoTrade /\ UNCHANGED <<pool, ticks, position, vault>>
    BY <1>14 DEF TradeRevert
  <2>2. SwapIn(trade)' = NoTrade
    BY <2>1 DEF SwapIn
  <2> QED BY <2>1, <2>2, DroppedAlone
<1> QED BY <1>4, <1>5, <1>6, <1>7, <1>8, <1>9, <1>10, <1>11, <1>12, <1>13, <1>14 DEF Next

----------------------------------------------------------------------------
(* The accounts keep their places.                                         *)

\* A change of liquidity moves no position.
LEMMA SyncKeepsPlaces ==
    ASSUME Placed, NEW p \in Pool, NEW delta, SyncModifyLiquidity(p, delta)
    PROVE  /\ DOMAIN ticks' = Pool
           /\ pool'[ThePool].reward_last_updated_timestamp = 0
           /\ position'[ThePool].open
           /\ position'[ThePool].tick_lower_index = PositionRange[ThePool][1]
           /\ position'[ThePool].tick_upper_index = PositionRange[ThePool][2]
<1>1. /\ ThePool \in Pool /\ DOMAIN pool = Pool /\ DOMAIN position = Pool /\ DOMAIN ticks = Pool
      /\ pool[ThePool].reward_last_updated_timestamp = 0
      /\ position[ThePool].open
      /\ position[ThePool].tick_lower_index = PositionRange[ThePool][1]
      /\ position[ThePool].tick_upper_index = PositionRange[ThePool][2]
  BY DEF Placed, PlaceInv, AccountsInv
<1>2. DOMAIN ticks' = Pool
  BY <1>1 DEF SyncModifyLiquidity
<1>3. pool'[ThePool].reward_last_updated_timestamp = 0
  <2>1. PICK n : pool' = [pool EXCEPT ![p].liquidity = n]
    BY DEF SyncModifyLiquidity
  <2> QED BY <1>1, <2>1
<1>4. /\ position'[ThePool].open
      /\ position'[ThePool].tick_lower_index = PositionRange[ThePool][1]
      /\ position'[ThePool].tick_upper_index = PositionRange[ThePool][2]
  <2> DEFINE new == PoolOf(p)!UpdatedPosition(1, delta)
  <2>1. position' = [position EXCEPT ![p] = new]
    BY DEF SyncModifyLiquidity
  <2>2. /\ new.open = position[p].open
        /\ new.tick_lower_index = position[p].tick_lower_index
        /\ new.tick_upper_index = position[p].tick_upper_index
    BY DEF PoolOf!UpdatedPosition, PoolOf!NextPositionModifyLiquidityUpdate
  <2> HIDE DEF new
  <2> QED BY <1>1, <2>1, <2>2
<1> QED BY <1>2, <1>3, <1>4

\* A vault stays one.
LEMMA VaultKept ==
    ASSUME Placed, NEW p \in Pool, NEW k1, NEW k2, NEW x, NEW y,
           vault' = [vault EXCEPT ![p] = [[@ EXCEPT ![k1] = x] EXCEPT ![k2] = y]]
    PROVE  DOMAIN vault' = Pool /\ DOMAIN vault'[ThePool] = Token
<1>1. ThePool \in Pool /\ DOMAIN vault = Pool /\ DOMAIN vault[ThePool] = Token
  BY DEF Placed, PlaceInv
<1>2. DOMAIN vault' = Pool
  BY <1>1
<1>3. CASE p = ThePool
  BY <1>1, <1>3
<1>4. CASE p # ThePool
  BY <1>1, <1>4
<1> QED BY <1>2, <1>3, <1>4

\* Every step leaves the accounts in their places.
LEMMA NextKeepsPlaces ==
    ASSUME Placed, NetsNegatable, [Next]_vars, AccountsInv'
    PROVE  PlaceInv'
<1>0. /\ ThePool \in Pool /\ AccountsInv /\ TradeInv /\ PlaceInv
      /\ DOMAIN ticks = Pool /\ DOMAIN vault = Pool /\ DOMAIN vault[ThePool] = Token
      /\ DOMAIN pool = Pool /\ DOMAIN position = Pool
      /\ pool[ThePool].reward_last_updated_timestamp = 0
      /\ position[ThePool].open
      /\ position[ThePool].tick_lower_index = PositionRange[ThePool][1]
      /\ position[ThePool].tick_upper_index = PositionRange[ThePool][2]
      /\ ~Idle => HopsFit(trade.args)
  BY SMTT(30) DEF Placed, PlaceInv, AccountsInv
<1>1. ASSUME UNCHANGED <<pool, ticks, position, vault>>, ~Idle' => HopsFit(trade'.args)
      PROVE  PlaceInv'
  BY <1>0, <1>1 DEF PlaceInv, HopsFit, One!SwapArraysLoad
<1>2. ASSUME Idle, trade' = trade, DOMAIN ticks' = Pool,
             DOMAIN vault' = Pool, DOMAIN vault'[ThePool] = Token,
             pool'[ThePool].reward_last_updated_timestamp = 0,
             position'[ThePool].open,
             position'[ThePool].tick_lower_index = PositionRange[ThePool][1],
             position'[ThePool].tick_upper_index = PositionRange[ThePool][2]
      PROVE  PlaceInv'
  BY <1>2 DEF PlaceInv, Idle
<1>3. CASE UNCHANGED vars
  BY <1>0, <1>1, <1>3 DEF vars, Idle
<1>4. ASSUME NEW p \in Pool, NEW amount \in LiquidityAmounts, IncreaseLiquidityV2(p, amount)
      PROVE  PlaceInv'
  <2> DEFINE arrives(k) == TransferFeeExcludedAmount(transfer_fee[MintOf[p][k]],
                SentForLiquidity(p, k, PoolOf(p)!LiquidityTokenDelta(k, position[p], amount, TRUE)))
             x == vault[p]["a"] + arrives("a")
             y == [vault[p] EXCEPT !["a"] = x]["b"] + arrives("b")
  <2>1. vault' = [vault EXCEPT ![p] = [[@ EXCEPT !["a"] = x] EXCEPT !["b"] = y]]
    BY <1>4 DEF IncreaseLiquidityV2, Received
  <2> HIDE DEF x, y
  <2>2. SyncModifyLiquidity(p, amount) /\ Idle /\ trade' = trade
    BY <1>4 DEF IncreaseLiquidityV2
  <2> QED BY <1>2, <2>1, <2>2, VaultKept, SyncKeepsPlaces
<1>5. ASSUME NEW p \in Pool, NEW amount, PaidOut(p, amount)
      PROVE  DOMAIN vault' = Pool /\ DOMAIN vault'[ThePool] = Token
  <2>1. PICK x, y : vault' = [vault EXCEPT ![p] = [[@ EXCEPT !["a"] = x] EXCEPT !["b"] = y]]
    BY <1>5 DEF PaidOut, Sent
  <2> QED BY <2>1, VaultKept
<1>6. ASSUME NEW p \in Pool, NEW amount \in LiquidityAmounts, DecreaseLiquidityV2(p, amount)
      PROVE  PlaceInv'
  <2>1. PICK owed : PaidOut(p, owed)
    BY <1>6 DEF DecreaseLiquidityV2
  <2>2. SyncModifyLiquidity(p, -amount) /\ Idle /\ trade' = trade
    BY <1>6 DEF DecreaseLiquidityV2
  <2>3. DOMAIN vault' = Pool /\ DOMAIN vault'[ThePool] = Token
    BY <1>5, <2>1
  <2> QED BY <1>2, <2>2, <2>3, SyncKeepsPlaces
<1>7. ASSUME NEW p \in Pool, CollectFeesV2(p) PROVE PlaceInv'
  <2>1. /\ PaidOut(p, position[p].fee_owed) /\ Idle /\ trade' = trade
        /\ position' = [position EXCEPT ![p].fee_owed = [k \in Token |-> 0]]
        /\ UNCHANGED <<pool, ticks>>
    BY <1>7 DEF CollectFeesV2
  <2>2. DOMAIN vault' = Pool /\ DOMAIN vault'[ThePool] = Token
    BY <1>5, <2>1
  <2>3. /\ position'[ThePool].open
        /\ position'[ThePool].tick_lower_index = PositionRange[ThePool][1]
        /\ position'[ThePool].tick_upper_index = PositionRange[ThePool][2]
    BY <1>0, <2>1
  <2> QED BY <1>0, <1>2, <2>1, <2>2, <2>3
<1>8. ASSUME NEW p \in Pool, CollectProtocolFeesV2(p) PROVE PlaceInv'
  <2>1. /\ PaidOut(p, pool[p].protocol_fee_owed) /\ Idle /\ trade' = trade
        /\ pool' = [pool EXCEPT ![p].protocol_fee_owed = [k \in Token |-> 0]]
        /\ UNCHANGED <<ticks, position>>
    BY <1>8 DEF CollectProtocolFeesV2
  <2>2. DOMAIN vault' = Pool /\ DOMAIN vault'[ThePool] = Token
    BY <1>5, <2>1
  <2>3. pool'[ThePool].reward_last_updated_timestamp = 0
    BY <1>0, <2>1
  <2> QED BY <1>0, <1>2, <2>1, <2>2, <2>3
<1>9. ASSUME NEW m \in Mint, NEW f \in FeesSet, SetTransferFee(m, f) PROVE PlaceInv'
  BY <1>0, <1>1, <1>9 DEF SetTransferFee, Idle
<1>10. ASSUME NEW a \in Trades, TradeBegin(a) PROVE PlaceInv'
  BY <1>1, <1>10, BeginKeepsBacked DEF TradeBegin
<1>11. CASE SwapIteration
  BY <1>1, <1>11, IterationKeepsBacked DEF SwapIteration
<1>12. CASE NextHop
  BY <1>1, <1>12, NextHopKeepsBacked DEF NextHop
<1>13. CASE TradeCommit
  <2> DEFINE hops == 1 .. HopCount(trade)
  <2>1. /\ pool' = AfterHops(trade, pool, [j \in hops |-> PoolAfterHop(trade, j)])
        /\ ticks' = AfterHops(trade, ticks, [j \in hops |-> trade.swaps[j].ticks])
        /\ vault' = AfterHops(trade, vault, [j \in hops |-> VaultAfterHop(trade, j)])
        /\ trade' = NoTrade /\ UNCHANGED position
    BY <1>13 DEF TradeCommit
  <2>2. DOMAIN ticks' = Pool /\ DOMAIN vault' = Pool
    BY <2>1 DEF AfterHops
  <2> DEFINE i == CHOOSE j \in HopsIn(trade, ThePool) : TRUE
  <2>3. CASE HopsIn(trade, ThePool) = {}
    <3>1. pool'[ThePool] = pool[ThePool] /\ vault'[ThePool] = vault[ThePool]
      BY <1>0, <2>1, <2>3 DEF AfterHops
    <3> QED BY <1>0, <2>1, <2>2, <3>1 DEF PlaceInv, Idle
  <2>4. CASE HopsIn(trade, ThePool) # {}
    <3>1. i \in hops /\ trade.args.hops[i].pool = ThePool
      BY <2>4 DEF HopsIn
    <3>2. pool'[ThePool] = PoolAfterHop(trade, i) /\ vault'[ThePool] = VaultAfterHop(trade, i)
      BY <1>0, <2>1, <2>4, <3>1 DEF AfterHops
    <3> HIDE DEF i
    <3>3. DOMAIN vault'[ThePool] = Token
      BY <1>0, <3>1, <3>2 DEF VaultAfterHop, Sent, Received
    <3>4. pool'[ThePool].reward_last_updated_timestamp = 0
      <4> DEFINE q == pool[ThePool]
      <4>1. "reward_last_updated_timestamp" \in DOMAIN q
        BY PlacedTypes DEF One!PoolType
      <4>2. pool'[ThePool] = PoolAfterSwap(q, trade.swaps[i], q.reward_infos, 0)
        BY <3>1, <3>2 DEF PoolAfterHop
      <4> HIDE DEF q
      <4> QED BY <4>1, <4>2 DEF PoolAfterSwap
    <3> QED BY <1>0, <2>1, <2>2, <3>3, <3>4 DEF PlaceInv, Idle
  <2> QED BY <2>3, <2>4
<1>14. CASE TradeRevert
  BY <1>1, <1>14 DEF TradeRevert, Idle
<1> QED BY <1>3, <1>4, <1>6, <1>7, <1>8, <1>9, <1>10, <1>11, <1>12, <1>13, <1>14 DEF Next

----------------------------------------------------------------------------
(* Solvency.                                                               *)

\* At first ThePool is as ClmmPool has a pool nobody has used.
LEMMA InitPlaced ==
    ASSUME ThePool \in Pool, Init
    PROVE  PlaceInv /\ One!BackedInv
<1> DEFINE range == PositionRange[ThePool]
           q == pool[ThePool]
           pos == position[ThePool]
<1>1. /\ range \in UsableTick \X UsableTick /\ range[1] < range[2]
      /\ range[1] \in UsableTick /\ range[2] \in UsableTick
  BY TwoHopAssumption
<1>2. /\ pool = [p \in Pool |-> PoolOf(p)!InitialPool(InitialPrice)]
      /\ ticks = [p \in Pool |-> [t \in UsableTick |-> DefaultTick]]
      /\ position = [p \in Pool |->
            [PoolOf(p)!ClosedPosition EXCEPT !.open = TRUE,
                                             !.tick_lower_index = PositionRange[p][1],
                                             !.tick_upper_index = PositionRange[p][2]]]
      /\ vault = [p \in Pool |-> [k \in Token |-> 0]]
      /\ trade = NoTrade /\ budget = Budget
  BY Zenon DEF Init
<1>3. /\ DOMAIN pool = Pool /\ DOMAIN ticks = Pool /\ DOMAIN vault = Pool
      /\ ticks[ThePool] = [t \in UsableTick |-> DefaultTick]
      /\ vault[ThePool] = [k \in Token |-> 0]
  <2>1. pool = [p \in Pool |-> PoolOf(p)!InitialPool(InitialPrice)]
        /\ ticks = [p \in Pool |-> [t \in UsableTick |-> DefaultTick]]
        /\ vault = [p \in Pool |-> [k \in Token |-> 0]]
    BY <1>2, Zenon
  <2> QED BY <2>1
<1>4. Idle /\ trade = NoTrade /\ budget = Budget
  BY <1>2, Zenon DEF Idle
<1>5. q = One!InitialPool(InitialPrice) /\ q.reward_last_updated_timestamp = 0
  <2>1. \A x : PoolOf(ThePool)!TickIndexFromSqrtPrice(x) = One!TickIndexFromSqrtPrice(x)
    BY DEF PoolOf!TickIndexFromSqrtPrice, One!TickIndexFromSqrtPrice, PoolOf!TickIndex,
           One!TickIndex
  <2>2. PoolOf(ThePool)!InitialPool(InitialPrice) = One!InitialPool(InitialPrice)
    BY <2>1, PooledArithmetic DEF PoolOf!InitialPool, One!InitialPool
  <2>3. q = PoolOf(ThePool)!InitialPool(InitialPrice)
    <3>1. pool = [p \in Pool |-> PoolOf(p)!InitialPool(InitialPrice)]
      BY <1>2, Zenon
    <3> QED BY <3>1
  <2>4. One!InitialPool(InitialPrice).reward_last_updated_timestamp = 0
    BY DEF One!InitialPool
  <2> QED BY <2>2, <2>3, <2>4
<1>6. pos = [open |-> TRUE, tick_lower_index |-> range[1], tick_upper_index |-> range[2],
             liquidity |-> 0, fee_growth_checkpoint |-> [k \in Token |-> 0],
             fee_owed |-> [k \in Token |-> 0], reward_growth_checkpoint |-> [r \in Reward |-> 0],
             reward_owed |-> [r \in Reward |-> 0]]
  <2>1. pos = [PoolOf(ThePool)!ClosedPosition EXCEPT !.open = TRUE,
                   !.tick_lower_index = range[1], !.tick_upper_index = range[2]]
    <3> DEFINE placed(p) == [PoolOf(p)!ClosedPosition EXCEPT !.open = TRUE,
                                !.tick_lower_index = PositionRange[p][1],
                                !.tick_upper_index = PositionRange[p][2]]
    <3>1. position = [p \in Pool |-> placed(p)]
      BY <1>2, Zenon
    <3>2. position[ThePool] = placed(ThePool)
      <4> HIDE DEF placed
      <4> QED BY <3>1
    <3> QED BY <3>2, Zenon
  <2>2. PoolOf(ThePool)!ClosedPosition =
          [open |-> FALSE, tick_lower_index |-> 0, tick_upper_index |-> 0, liquidity |-> 0,
           fee_growth_checkpoint |-> [k \in Token |-> 0], fee_owed |-> [k \in Token |-> 0],
           reward_growth_checkpoint |-> [r \in Reward |-> 0],
           reward_owed |-> [r \in Reward |-> 0]]
    BY PooledArithmetic, SameSets DEF PoolOf!ClosedPosition
  <2> HIDE DEF pos, range
  <2>3. pos = [[open |-> FALSE, tick_lower_index |-> 0, tick_upper_index |-> 0, liquidity |-> 0,
                fee_growth_checkpoint |-> [k \in Token |-> 0], fee_owed |-> [k \in Token |-> 0],
                reward_growth_checkpoint |-> [r \in Reward |-> 0],
                reward_owed |-> [r \in Reward |-> 0]]
                  EXCEPT !.open = TRUE,
                         !.tick_lower_index = range[1], !.tick_upper_index = range[2]]
    BY <2>1, <2>2, Zenon
  <2> QED BY <2>3
<1>7. PlaceInv
  BY <1>3, <1>4, <1>5, <1>6 DEF PlaceInv
<1>8. 0 \in U64 /\ 0 \in U128
  BY MathAssumption DEF U64, U128
<1>9. pos \in One!PositionType
  <2> HIDE DEF range
  <2> QED BY <1>1, <1>6, <1>8, SameSets DEF One!PositionType
<1>10. One!Position = {1} /\ <<pos>> \in [One!Position -> One!PositionType]
  BY <1>9 DEF One!Position
<1>11. TheVault = [k \in One!Token \cup One!Reward |-> 0]
  <2>1. \A k \in Token : vault[ThePool][k] = 0
    BY <1>3
  <2> QED BY <2>1, SameSets DEF TheVault
<1>12. SwapIn(trade) = One!NoSwap
  BY <1>4, NothingBegun
<1>13. TheBudget \in [One!Kind -> Nat]
  <2>1. AccountsInv
    BY AccountsInit
  <2>2. budget["trade"] + 1 \in Nat /\ budget["liquidity"] \in Nat /\ budget["collect"] \in Nat
    BY <2>1 DEF AccountsInv, Kind
  <2> QED BY <2>2 DEF TheBudget, One!Kind
<1>14. [r \in Reward |-> 0] \in [One!Reward -> Nat]
  BY SameSets
<1>15. \A p \in One!Position :
          /\ <<pos>>[p].liquidity = 0
          /\ \A k \in One!Token : <<pos>>[p].fee_owed[k] = 0
          /\ <<pos>>[p].open => <<pos>>[p].tick_lower_index < <<pos>>[p].tick_upper_index
  BY <1>1, <1>6, <1>10, SameSets
<1>16. One!Fresh
  <2> HIDE DEF pos, q
  <2>1. ticks[ThePool] = [t \in One!UsableTick |-> One!DefaultTick]
        /\ ArrayStart \subseteq One!ArrayStart /\ 0 \in Nat
    BY <1>3, SameSets
  <2>2. \E price \in {InitialPrice} : q = One!InitialPool(price)
    BY <1>5
  <2> QED BY <1>10, <1>11, <1>12, <1>13, <1>14, <1>15, <2>1, <2>2 DEF One!Fresh, pos, q
<1> QED BY <1>7, <1>16, OneShown

(***************************************************************************)
(* Whatever becomes of the pools by trades over one of them or two, by     *)
(* liquidity and by fees that mints withhold and change, a pool's vaults   *)
(* can pay its position and the protocol.  Solvent!(ThePool) is what       *)
(* TwoHopSwap's Solvent says of ThePool, and that is any of the pools.     *)
(***************************************************************************)
THEOREM PoolsAreSolvent ==
    ASSUME ThePool \in Pool
    PROVE  Spec /\ []NetsNegatable => []Solvent!(ThePool)
<1> DEFINE Inv == AccountsInv /\ TradeInv /\ PlaceInv /\ One!BackedInv
<1>1. Init => Inv
  <2> SUFFICES ASSUME Init PROVE Inv
    OBVIOUS
  <2>1. AccountsInv
    BY AccountsInit
  <2>2. TradeInv
    <3>1. Idle
      BY Zenon DEF Init, Idle
    <3> QED BY <3>1, Zenon DEF TradeInv
  <2>3. PlaceInv /\ One!BackedInv
    BY InitPlaced
  <2> QED BY <2>1, <2>2, <2>3
<1>2. Inv /\ NetsNegatable /\ [Next]_vars => Inv'
  <2> SUFFICES ASSUME Inv, NetsNegatable, [Next]_vars PROVE Inv'
    OBVIOUS
  <2>1. Placed
    BY DEF Placed
  <2>2. AccountsInv' /\ TradeInv'
    BY AccountsNext, TradeNext
  <2>3. PlaceInv' /\ One!BackedInv'
    BY <2>1, <2>2, NextKeepsPlaces, NextKeepsBacked
  <2> QED BY <2>2, <2>3
<1>3. Inv => Solvent!(ThePool)
  BY PooledSolvent DEF One!BackedInv
<1> HIDE DEF Inv
<1> QED BY <1>1, <1>2, <1>3, PTL DEF Spec

=============================================================================
