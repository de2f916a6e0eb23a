---------------------------- MODULE TransferFees ----------------------------
(***************************************************************************)
(* The transfer fees of Token-2022 mints, as the second version of the     *)
(* instructions and the SDK reckon with them.  The token program withholds *)
(* a share of every transfer, rounded up, and no more than a maximum; so   *)
(* the program asks what arrives of an amount sent, and what must be sent  *)
(* for an amount to arrive.  A mint without the extension has a fee of     *)
(* zero basis points.                                                      *)
(***************************************************************************)
EXTENDS ClmmMath

CONSTANT MAX_FEE_BASIS_POINTS   \* a fee of everything (10000 in the code)

ASSUME BasisPointsAssumption == MAX_FEE_BASIS_POINTS \in Nat \ {0}

TransferFee == [transfer_fee_basis_points : 0 .. MAX_FEE_BASIS_POINTS, maximum_fee : U64]

NoFee == [transfer_fee_basis_points |-> 0, maximum_fee |-> 0]

----------------------------------------------------------------------------
(* The token program: what it withholds of an amount, and what it takes    *)
(* the fee to be for an amount to arrive (never asked at 100%).            *)

CalculateFee(f, amount) ==
    IF f.transfer_fee_basis_points = 0 \/ amount = 0 THEN 0
    ELSE Lesser(DivRoundUpIf(amount * f.transfer_fee_basis_points, MAX_FEE_BASIS_POINTS, TRUE),
                f.maximum_fee)

CalculatePreFeeAmount(f, amount) ==
    LET raw == DivRoundUpIf(amount * MAX_FEE_BASIS_POINTS,
                            MAX_FEE_BASIS_POINTS - f.transfer_fee_basis_points, TRUE)
    IN  IF f.transfer_fee_basis_points = 0 \/ amount = 0 THEN amount
        ELSE Checked(U64, Lesser(raw, amount + f.maximum_fee))

CalculateInverseFee(f, amount) ==
    LET before == CalculatePreFeeAmount(f, amount)
    IN  IF before = Err THEN Err ELSE CalculateFee(f, before)

----------------------------------------------------------------------------
(* The program: what arrives of an amount sent, and what must be sent.     *)

TransferFeeExcludedAmount(f, included) == included - CalculateFee(f, included)

\* Two faulty forms, for the mutants: the fee of the amount itself, as if it were
\* the one sent; and one that forgets that the token program has no answer at 100%.
FeeOfExcludedAmount(f, excluded) == CalculateFee(f, excluded)

FeeToAddAlwaysInverse(f, excluded) ==
    IF f.transfer_fee_basis_points = MAX_FEE_BASIS_POINTS THEN 0
    ELSE CalculateInverseFee(f, excluded)

\* At 100% the maximum is all there is to ask for.
FeeToAdd(f, excluded) ==
    IF f.transfer_fee_basis_points = MAX_FEE_BASIS_POINTS THEN f.maximum_fee
    ELSE CalculateInverseFee(f, excluded)

\* The fee found must be the one the token program will withhold.
TransferFeeIncludedAmount(f, excluded) ==
    LET fee == FeeToAdd(f, excluded)
        included == excluded + fee
    IN  IF excluded = 0 THEN 0
        ELSE IF fee = Err \/ included \notin U64 \/ CalculateFee(f, included) # fee THEN Err
        ELSE included

----------------------------------------------------------------------------
(* The SDK's own calculation, in integers of any size, checked at the end. *)

SdkRawIncludedAmount(f, amount) ==
    DivRoundUpIf(amount * MAX_FEE_BASIS_POINTS,
                 MAX_FEE_BASIS_POINTS - f.transfer_fee_basis_points, TRUE)

SdkIncludedAmount(f, amount) ==
    LET raw == SdkRawIncludedAmount(f, amount)
    IN  IF f.transfer_fee_basis_points = 0 \/ amount = 0 THEN amount
        ELSE IF f.transfer_fee_basis_points = MAX_FEE_BASIS_POINTS
        THEN Checked(U64, amount + f.maximum_fee)
        ELSE Checked(U64, IF raw - amount >= f.maximum_fee THEN amount + f.maximum_fee ELSE raw)

=============================================================================
