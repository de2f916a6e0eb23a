------------------------- MODULE MCAdministration -------------------------
(***************************************************************************)
(* Two configs and two keys.  Mint 1 is an ordinary one of the Token       *)
(* program, 2 a Token-2022 mint that needs a badge, 3 one that has one     *)
(* extension more and is never supported, 4 a Token-2022 mint that needs   *)
(* none, 6 one whose accounts are frozen at first, and 7 the native one.   *)
(* The rates tried are zero, the cap and the first beyond it.              *)
(***************************************************************************)
EXTENDS SupportedTokens, TLC

CONSTANTS c1, c2

KeySymmetry == Permutations(Keys)

Mint(program, freeze, extensions) ==
    [program |-> program, native |-> FALSE, freeze_authority |-> freeze,
     frozen_by_default |-> FALSE, extensions |-> extensions]

MCMintInfo == [m \in Mints |->
    CASE m = 1 -> Mint("Token", TRUE, {})
      [] m = 2 -> Mint("Token2022", TRUE, {"TransferHook"})
      [] m = 3 -> Mint("Token2022", TRUE, {"TransferHook", "NonTransferable"})
      [] m = 4 -> Mint("Token2022", FALSE, {"TransferFeeConfig"})
      [] m = 5 -> Mint("Token", FALSE, {})
      [] m = 6 -> [Mint("Token2022", FALSE, {"DefaultAccountState"})
                     EXCEPT !.frozen_by_default = TRUE]
      [] m = 7 -> [Mint("Token2022", FALSE, {}) EXCEPT !.native = TRUE]]

PK(c, a, b) == [pools_config |-> c, token_mint_a |-> a, token_mint_b |-> b, tick_spacing |-> 1]

TierOfC1 == {[pools_config |-> c1, tick_spacing |-> 1]}
TiersOfBoth == {[pools_config |-> c, tick_spacing |-> 1] : c \in {c1, c2}}

OneOrdinaryPool == {PK(c1, 1, 5)}
BadgedAndSwapped == {PK(c1, 1, 2), PK(c1, 2, 1), PK(c1, 1, 3)}
OneToken2022Pool == {PK(c1, 1, 4), PK(c1, 1, 5)}

=============================================================================
