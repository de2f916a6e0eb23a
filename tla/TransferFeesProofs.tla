------------------------- MODULE TransferFeesProofs -------------------------
(***************************************************************************)
(* What must be sent for an amount to arrive: for every width, every unit  *)
(* of basis points, every fee and every amount, the program's answer is    *)
(* the least that does, its own verification of it never fails, and the    *)
(* SDK gives the same.                                                     *)
(***************************************************************************)
EXTENDS MCTransferFees, ClmmMathProofs

----------------------------------------------------------------------------
\* The fee as a share: neither nothing nor everything.
LEMMA Shares ==
    ASSUME NEW f \in TransferFee,
           f.transfer_fee_basis_points \notin {0, MAX_FEE_BASIS_POINTS}
    PROVE  /\ f.transfer_fee_basis_points \in Nat \ {0}
           /\ MAX_FEE_BASIS_POINTS - f.transfer_fee_basis_points \in Nat \ {0}
           /\ MAX_FEE_BASIS_POINTS \in Nat \ {0}
           /\ f.maximum_fee \in Nat
BY BasisPointsAssumption, MathAssumption DEF TransferFee, U64

\* The token program withholds at most the maximum, and at most everything.
LEMMA FeeType ==
    ASSUME NEW f \in TransferFee, NEW x \in Nat
    PROVE  CalculateFee(f, x) \in 0 .. Lesser(x, f.maximum_fee)
<1> DEFINE b == f.transfer_fee_basis_points
           D == MAX_FEE_BASIS_POINTS
           c == CeilDiv(x * b, D)
<1>1. b \in Nat /\ D \in Nat \ {0} /\ b <= D /\ f.maximum_fee \in Nat
  BY BasisPointsAssumption, MathAssumption DEF TransferFee, U64
<1>2. x * b \in Nat
  BY <1>1, MulNat
<1>3. c \in Nat
  BY <1>1, <1>2, CeilType
<1>4. x * b <= D * x
  <2>1. x * b <= x * D
    BY <1>1, MulMono
  <2> QED BY <2>1, <1>1
<1>5. c <= x
  BY <1>1, <1>2, <1>4, CeilAtMost
<1>6. CalculateFee(f, x) = IF b = 0 \/ x = 0 THEN 0 ELSE Lesser(c, f.maximum_fee)
  BY <1>1, CeilIsDivRoundUp DEF CalculateFee
<1> HIDE DEF c, b
<1> QED BY <1>1, <1>3, <1>5, <1>6 DEF Lesser

(***************************************************************************)
(* Below 100%, the amount the token program computes from what should      *)
(* arrive lets exactly that arrive.                                        *)
(***************************************************************************)
LEMMA InverseIsExact ==
    ASSUME NEW f \in TransferFee, NEW x \in Nat \ {0},
           f.transfer_fee_basis_points \notin {0, MAX_FEE_BASIS_POINTS},
           NEW raw, raw = SdkRawIncludedAmount(f, x),
           NEW p, p = Lesser(raw, x + f.maximum_fee)
    PROVE  /\ raw \in Nat
           /\ x <= raw
           /\ p \in Nat
           /\ CalculateFee(f, p) = p - x
<1> DEFINE b == f.transfer_fee_basis_points
           D == MAX_FEE_BASIS_POINTS
           e == D - b
           M == f.maximum_fee
<1>1. /\ b \in Nat \ {0} /\ e \in Nat \ {0} /\ D \in Nat \ {0} /\ M \in Nat
      /\ D = b + e
  BY Shares
<1>2. raw = CeilDiv(x * D, e)
  BY <1>1, CeilIsDivRoundUp DEF SdkRawIncludedAmount
<1> HIDE DEF b, D, e, M
<1>3. x * D \in Nat
  BY <1>1, MulNat
<1>4. raw \in Nat /\ x * D <= e * raw /\ e * raw < x * D + e
  BY <1>1, <1>2, <1>3, CeilType
<1>5. x <= raw
  <2>1. e * (x - 1) < x * D
    <3>1. e * (x - 1) = x * e - e
      BY <1>1
    <3>2. x * D = x * b + x * e
      BY <1>1
    <3>3. x * b \in Nat /\ x * e \in Nat
      BY <1>1, MulNat
    <3> QED BY <1>1, <3>1, <3>2, <3>3
  <2> QED BY <1>1, <1>2, <1>3, <2>1, CeilAtLeast
<1>6. p \in Nat /\ p > 0 /\ p = Lesser(raw, x + M)
  BY <1>1, <1>4, <1>5 DEF Lesser, M
<1>7. CalculateFee(f, p) = Lesser(CeilDiv(p * b, D), M)
  <2>1. p # 0 /\ b # 0 /\ D # 0
    BY <1>1, <1>6
  <2>2. DivRoundUpIf(p * b, D, TRUE) = CeilDiv(p * b, D)
    BY <2>1, CeilIsDivRoundUp
  <2> QED BY <2>1, <2>2 DEF CalculateFee, b, D, M
<1> DEFINE c == CeilDiv(p * b, D)
<1>8. p * b \in Nat
  BY <1>1, <1>6, MulNat
<1>9. c \in Nat
  BY <1>1, <1>8, CeilType
<1>10. p * b = p * D - e * p
  BY <1>1, <1>6
<1>11. p * D - x * D = D * (p - x)
  BY <1>1, <1>6
<1>12. e * p \in Nat /\ p * D \in Nat /\ D * (p - x) \in Int /\ e * raw \in Nat
  BY <1>1, <1>4, <1>6, MulNat
<1>13. CASE raw <= x + M
  <2>1. p = raw
    BY <1>1, <1>4, <1>6, <1>13 DEF Lesser
  <2>2. p * b <= D * (p - x)
    BY <1>3, <1>4, <1>10, <1>11, <1>12, <2>1
  <2>3. D * (p - x - 1) < p * b
    <3>1. D * (p - x - 1) = D * (p - x) - D
      BY <1>1, <1>6
    <3> QED BY <1>1, <1>3, <1>4, <1>10, <1>11, <1>12, <2>1, <3>1
  <2>4. c = p - x
    BY <1>1, <1>6, <1>8, <1>9, <2>2, <2>3, CeilAtLeast, CeilAtMost, p - x \in Int
  <2> HIDE DEF c
  <2> QED BY <1>1, <1>4, <1>5, <1>6, <1>7, <1>13, <2>1, <2>4 DEF Lesser, c
<1>14. CASE raw > x + M
  <2>1. p = x + M
    BY <1>1, <1>4, <1>6, <1>14 DEF Lesser
  <2>2. e * p < x * D
    <3>1. e * p <= e * (raw - 1)
      BY <1>1, <1>4, <1>6, <1>14, <2>1, MulMono
    <3>2. e * (raw - 1) = e * raw - e
      BY <1>1, <1>4
    <3> QED BY <1>1, <1>3, <1>4, <1>12, <3>1, <3>2
  <2>3. D * M < p * b
    BY <1>1, <1>3, <1>10, <1>11, <1>12, <2>1, <2>2
  <2>4. M <= c
    <3>1. D * (M - 1) = D * M - D
      BY <1>1
    <3>2. D * (M - 1) < p * b
      BY <1>1, <1>8, <2>3, <3>1, D * M \in Int
    <3> QED BY <1>1, <1>8, <3>2, CeilAtLeast
  <2> HIDE DEF c
  <2> QED BY <1>1, <1>6, <1>7, <1>9, <2>1, <2>4 DEF Lesser, c
<1> QED BY <1>1, <1>4, <1>5, <1>6, <1>13, <1>14

\* No less than that amount lets x arrive.
LEMMA InverseIsLeast ==
    ASSUME NEW f \in TransferFee, NEW x \in Nat \ {0},
           f.transfer_fee_basis_points \notin {0, MAX_FEE_BASIS_POINTS},
           NEW s \in Nat, TransferFeeExcludedAmount(f, s) = x
    PROVE  Lesser(SdkRawIncludedAmount(f, x), x + f.maximum_fee) <= s
<1> DEFINE b == f.transfer_fee_basis_points
           D == MAX_FEE_BASIS_POINTS
           e == D - b
           M == f.maximum_fee
           raw == SdkRawIncludedAmount(f, x)
           c == CeilDiv(s * b, D)
<1>1. /\ b \in Nat \ {0} /\ e \in Nat \ {0} /\ D \in Nat \ {0} /\ M \in Nat
      /\ D = b + e
  BY Shares
<1>2. raw = CeilDiv(x * D, e)
  BY <1>1, CeilIsDivRoundUp DEF SdkRawIncludedAmount
<1>3. CalculateFee(f, s) = IF s = 0 THEN 0 ELSE Lesser(c, M)
  BY <1>1, CeilIsDivRoundUp DEF CalculateFee
<1>4. s = x + CalculateFee(f, s) /\ CalculateFee(f, s) \in Nat
  BY FeeType DEF TransferFeeExcludedAmount
<1> HIDE DEF b, D, e, M, raw, c
<1>5. s * b \in Nat /\ x * D \in Nat
  BY <1>1, MulNat
<1>6. c \in Nat /\ s * b <= D * c
  BY <1>1, <1>5, CeilType DEF c
<1>7. raw \in Nat
  BY <1>1, <1>2, <1>5, CeilType
<1>8. s = x + Lesser(c, M)
  BY <1>3, <1>4
<1>9. CASE M <= c
  <2>1. s = x + M
    BY <1>1, <1>6, <1>8, <1>9 DEF Lesser
  <2> QED BY <1>1, <1>7, <2>1 DEF Lesser, raw, M
<1>10. CASE c < M
  <2>1. s = x + c
    BY <1>1, <1>6, <1>8, <1>10 DEF Lesser
  <2>2. x * D <= e * s
    <3>1. s * D = x * D + D * c
      BY <1>1, <1>6, <2>1
    <3>2. s * D = s * b + e * s
      BY <1>1
    <3>3. D * c \in Nat /\ e * s \in Nat
      BY <1>1, <1>6, MulNat
    <3> QED BY <1>5, <1>6, <3>1, <3>2, <3>3
  <2>3. raw <= s
    BY <1>1, <1>2, <1>5, <2>2, CeilAtMost
  <2> QED BY <1>1, <1>7, <2>3 DEF Lesser, raw, M
<1> QED BY <1>1, <1>6, <1>9, <1>10

----------------------------------------------------------------------------
\* What the program answers when something should arrive: the amount of the two
\* lemmas, unless it is no u64.  Its verification never fails.
LEMMA IncludedAmount ==
    ASSUME NEW f \in TransferFee, NEW x \in U64, x # 0,
           f.transfer_fee_basis_points \notin {0, MAX_FEE_BASIS_POINTS},
           NEW p, p = Lesser(SdkRawIncludedAmount(f, x), x + f.maximum_fee)
    PROVE  /\ p \in Nat
           /\ TransferFeeIncludedAmount(f, x) = Checked(U64, p)
           /\ TransferFeeExcludedAmount(f, p) = x
<1>1. x \in Nat \ {0} /\ Err \notin Nat /\ U64 \subseteq Nat
  BY MathAssumption DEF U64, Err
<1>2. p \in Nat /\ CalculateFee(f, p) = p - x /\ x <= p
  <2>1. /\ SdkRawIncludedAmount(f, x) \in Nat /\ x <= SdkRawIncludedAmount(f, x)
        /\ p \in Nat /\ CalculateFee(f, p) = p - x
    BY <1>1, InverseIsExact
  <2>2. x <= p
    BY <1>1, <2>1, Shares DEF Lesser
  <2> QED BY <2>1, <2>2
<1>3. CalculatePreFeeAmount(f, x) = Checked(U64, p)
  BY <1>1 DEF CalculatePreFeeAmount, SdkRawIncludedAmount
<1>4. TransferFeeExcludedAmount(f, p) = x
  BY <1>1, <1>2 DEF TransferFeeExcludedAmount
<1>5. CASE p \in U64
  <2>1. FeeToAdd(f, x) = p - x
    BY <1>1, <1>2, <1>3, <1>5 DEF FeeToAdd, CalculateInverseFee, Checked
  <2>2. p - x # Err /\ x + (p - x) = p
    BY <1>1, <1>2 DEF Err
  <2> QED BY <1>1, <1>2, <1>4, <1>5, <2>1, <2>2 DEF TransferFeeIncludedAmount, Checked
<1>6. CASE p \notin U64
  <2>1. FeeToAdd(f, x) = Err
    BY <1>1, <1>3, <1>6 DEF FeeToAdd, CalculateInverseFee, Checked
  <2> QED BY <1>1, <1>2, <1>4, <1>6, <2>1 DEF TransferFeeIncludedAmount, Checked
<1> QED BY <1>5, <1>6

\* A mint without a fee, and one that withholds everything up to its maximum.
LEMMA IncludedAtEnds ==
    ASSUME NEW f \in TransferFee, NEW x \in U64, x # 0
    PROVE  /\ f.transfer_fee_basis_points = 0 =>
                 /\ TransferFeeIncludedAmount(f, x) = x
                 /\ \A s \in Nat : TransferFeeExcludedAmount(f, s) = s
           /\ f.transfer_fee_basis_points = MAX_FEE_BASIS_POINTS =>
                 /\ TransferFeeIncludedAmount(f, x) = Checked(U64, x + f.maximum_fee)
                 /\ \A s \in Nat :
                       TransferFeeExcludedAmount(f, s) = s - Lesser(s, f.maximum_fee)
<1>1. /\ x \in Nat \ {0} /\ U64 \subseteq Nat /\ Err \notin Nat
      /\ f.maximum_fee \in Nat /\ MAX_FEE_BASIS_POINTS \in Nat \ {0}
  BY MathAssumption, BasisPointsAssumption DEF U64, Err, TransferFee
<1>2. CASE f.transfer_fee_basis_points = 0
  <2>1. \A s \in Nat : CalculateFee(f, s) = 0
    BY <1>2 DEF CalculateFee
  <2>2. \A s \in Nat : TransferFeeExcludedAmount(f, s) = s
    BY <2>1 DEF TransferFeeExcludedAmount
  <2>3. FeeToAdd(f, x) = 0
    BY <1>1, <1>2, <2>1 DEF FeeToAdd, CalculateInverseFee, CalculatePreFeeAmount
  <2>4. TransferFeeIncludedAmount(f, x) = x
    BY <1>1, <2>1, <2>3 DEF TransferFeeIncludedAmount
  <2> QED BY <1>1, <1>2, <2>2, <2>4
<1>3. CASE f.transfer_fee_basis_points = MAX_FEE_BASIS_POINTS
  <2> DEFINE D == MAX_FEE_BASIS_POINTS
  <2>1. \A s \in Nat : CalculateFee(f, s) = Lesser(s, f.maximum_fee)
    <3> SUFFICES ASSUME NEW s \in Nat
                 PROVE  CalculateFee(f, s) = Lesser(s, f.maximum_fee)
      OBVIOUS
    <3>1. D \in Nat \ {0} /\ s * D \in Nat /\ s * D = D * s
      BY <1>1, MulNat
    <3>2. D * (s - 1) < s * D
      <4>1. D * (s - 1) = D * s - D
        BY <3>1
      <4> QED BY <3>1, <4>1
    <3>3. CeilDiv(s * D, D) = s
      <4> HIDE DEF D
      <4>1. CeilDiv(s * D, D) \in Nat
        BY <3>1, CeilType
      <4> QED BY <3>1, <3>2, <4>1, CeilAtLeast, CeilAtMost
    <3>4. DivRoundUpIf(s * D, D, TRUE) = s
      BY <3>1, <3>3, CeilIsDivRoundUp
    <3>5. CASE s = 0
      BY <1>1, <3>5 DEF CalculateFee, Lesser
    <3>6. CASE s # 0
      <4>1. f.transfer_fee_basis_points # 0
        BY <1>1, <1>3
      <4> QED BY <1>3, <3>4, <3>6, <4>1 DEF CalculateFee
    <3> QED BY <3>5, <3>6
  <2>2. \A s \in Nat : TransferFeeExcludedAmount(f, s) = s - Lesser(s, f.maximum_fee)
    BY <2>1 DEF TransferFeeExcludedAmount
  <2>3. FeeToAdd(f, x) = f.maximum_fee
    BY <1>3 DEF FeeToAdd
  <2>4. CalculateFee(f, x + f.maximum_fee) = f.maximum_fee
    BY <1>1, <2>1 DEF Lesser
  <2>5. TransferFeeIncludedAmount(f, x) = Checked(U64, x + f.maximum_fee)
    BY <1>1, <2>3, <2>4 DEF TransferFeeIncludedAmount, Checked
  <2> QED BY <1>1, <1>3, <2>2, <2>5
<1> QED BY <1>2, <1>3

(***************************************************************************)
(* IncludedIsLeast, for every fee and amount: the program asks for the     *)
(* least u64 of which the amount arrives, and gives up only if there is    *)
(* none.                                                                   *)
(***************************************************************************)
THEOREM AskedIsLeast ==
    ASSUME transfer_fee \in TransferFee, amount \in U64
    PROVE  IncludedIsLeast
<1> DEFINE f == transfer_fee
           x == amount
           included == TransferFeeIncludedAmount(f, x)
           arrives(s) == TransferFeeExcludedAmount(f, s)
<1>1. U64 \subseteq Nat /\ Err \notin Nat /\ 0 \in U64 /\ f.maximum_fee \in Nat
  BY MathAssumption DEF U64, Err, TransferFee
<1> SUFFICES \/ /\ included \in U64 /\ arrives(included) = x
                /\ \A s \in U64 : arrives(s) = x => included <= s
             \/ /\ included = Err
                /\ \A s \in U64 : arrives(s) # x
  BY <1>1 DEF IncludedIsLeast
<1>2. CASE x = 0
  <2>1. included = 0
    BY <1>2 DEF TransferFeeIncludedAmount
  <2>2. arrives(0) = 0
    BY DEF TransferFeeExcludedAmount, CalculateFee
  <2> HIDE DEF f
  <2> QED BY <1>1, <1>2, <2>1, <2>2
<1>3. CASE x # 0 /\ f.transfer_fee_basis_points = 0
  <2>1. included = x /\ \A s \in Nat : arrives(s) = s
    BY <1>3, IncludedAtEnds
  <2> HIDE DEF f, included, arrives
  <2> QED BY <1>1, <2>1
<1>4. CASE x # 0 /\ f.transfer_fee_basis_points = MAX_FEE_BASIS_POINTS
  <2>1. /\ included = Checked(U64, x + f.maximum_fee)
        /\ \A s \in Nat : arrives(s) = s - Lesser(s, f.maximum_fee)
    BY <1>4, IncludedAtEnds
  <2> HIDE DEF f, included, arrives
  <2>2. \A s \in Nat : arrives(s) = x <=> s = x + f.maximum_fee
    BY <1>1, <1>4, <2>1 DEF Lesser
  <2>3. x + f.maximum_fee \in Nat
    BY <1>1
  <2> QED BY <1>1, <2>1, <2>2, <2>3 DEF Checked
<1>5. CASE x # 0 /\ f.transfer_fee_basis_points \notin {0, MAX_FEE_BASIS_POINTS}
  <2> DEFINE p == Lesser(SdkRawIncludedAmount(f, x), x + f.maximum_fee)
  <2>1. p \in Nat /\ included = Checked(U64, p) /\ arrives(p) = x
    BY <1>5, IncludedAmount
  <2>2. \A s \in Nat : arrives(s) = x => p <= s
    BY <1>1, <1>5, InverseIsLeast
  <2> HIDE DEF f, included, arrives, p
  <2>3. p \notin U64 => \A s \in U64 : s < p
    BY <1>1, <2>1, MathAssumption DEF U64
  <2> QED BY <1>1, <2>1, <2>2, <2>3 DEF Checked
<1> QED BY <1>2, <1>3, <1>4, <1>5

(***************************************************************************)
(* SdkAgrees, for every fee and amount: calculateTransferFeeIncludedAmount *)
(* of the SDK is the program's, verification and all.                      *)
(***************************************************************************)
THEOREM SdkAsksTheSame ==
    ASSUME transfer_fee \in TransferFee, amount \in U64
    PROVE  SdkAgrees
<1> DEFINE f == transfer_fee
           x == amount
           raw == SdkRawIncludedAmount(f, x)
<1>1. U64 \subseteq Nat /\ f.maximum_fee \in Nat
  BY MathAssumption DEF U64, TransferFee
<1> SUFFICES SdkIncludedAmount(f, x) = TransferFeeIncludedAmount(f, x)
  BY DEF SdkAgrees
<1>2. CASE x = 0
  BY <1>2 DEF SdkIncludedAmount, TransferFeeIncludedAmount
<1>3. CASE x # 0 /\ f.transfer_fee_basis_points = 0
  BY <1>3, IncludedAtEnds DEF SdkIncludedAmount
<1>4. CASE x # 0 /\ f.transfer_fee_basis_points = MAX_FEE_BASIS_POINTS
  <2>1. f.transfer_fee_basis_points # 0
    BY <1>4, BasisPointsAssumption
  <2> QED BY <1>4, <2>1, IncludedAtEnds DEF SdkIncludedAmount
<1>5. CASE x # 0 /\ f.transfer_fee_basis_points \notin {0, MAX_FEE_BASIS_POINTS}
  <2>1. TransferFeeIncludedAmount(f, x) = Checked(U64, Lesser(raw, x + f.maximum_fee))
    BY <1>5, IncludedAmount
  <2>2. raw \in Nat
    BY <1>1, <1>5, InverseIsExact
  <2>3. (IF raw - x >= f.maximum_fee THEN x + f.maximum_fee ELSE raw)
            = Lesser(raw, x + f.maximum_fee)
    <3> HIDE DEF raw, f
    <3> QED BY <1>1, <2>2 DEF Lesser
  <2> QED BY <1>5, <2>1, <2>3 DEF SdkIncludedAmount
<1> QED BY <1>2, <1>3, <1>4, <1>5

=============================================================================
