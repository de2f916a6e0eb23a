-------------------------- MODULE MCPositionBundle --------------------------
(***************************************************************************)
(* Two bundles, two wallets and a two-byte bitmap.  The index arguments    *)
(* are the last bit of the first byte, the first of the second and the     *)
(* first invalid one.                                                      *)
(***************************************************************************)
EXTENDS PositionBundle

=============================================================================
