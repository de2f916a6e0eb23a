--------------------------- MODULE MCTransferFees ---------------------------
(***************************************************************************)
(* Every amount of a small u64, one after the other, with each of a set of *)
(* transfer fees.                                                          *)
(***************************************************************************)
EXTENDS TransferFees

CONSTANTS BasisPoints, Maxima

VARIABLES transfer_fee, amount

vars == <<transfer_fee, amount>>

MCSqrtPrice == [t \in 0 .. 1 |-> 64 + t]

Init ==
    /\ transfer_fee \in [transfer_fee_basis_points : BasisPoints, maximum_fee : Maxima]
    /\ amount = 0

NextAmount ==
    /\ amount + 1 \in U64
    /\ amount' = amount + 1
    /\ UNCHANGED transfer_fee

Spec == Init /\ [][NextAmount]_vars

----------------------------------------------------------------------------
\* What must be sent is the least that lets the amount arrive, and asking for it
\* fails only if no u64 does: the verification in
\* calculate_transfer_fee_included_amount, of which the code says that it should
\* never fail, never does.
IncludedIsLeast ==
    LET enough == {sent \in U64 : TransferFeeExcludedAmount(transfer_fee, sent) = amount}
        included == TransferFeeIncludedAmount(transfer_fee, amount)
    IN  IF enough = {} THEN included = Err
        ELSE included \in enough /\ \A sent \in enough : included <= sent

\* The SDK asks for the same amount as the program, and fails with it, although
\* it never asks the token program for the fee of what it found.
SdkAgrees ==
    SdkIncludedAmount(transfer_fee, amount) = TransferFeeIncludedAmount(transfer_fee, amount)

=============================================================================
