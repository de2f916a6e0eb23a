--------------------------- MODULE SupportedTokens ---------------------------
(***************************************************************************)
(* Which tokens the SDK takes a pool to support, from the accounts a       *)
(* client can fetch: its own copy of IsSupportedTokenMint, said to be in   *)
(* sync with the program's (utils/public/pool-utils.ts).                   *)
(***************************************************************************)
EXTENDS Administration

\* The extensions of a mint are looked at one by one, each by what it asks for.
SupportedExtension(info, e, isTokenBadgeInitialized) ==
    CASE e \in {"TransferFeeConfig", "TokenMetadata", "MetadataPointer",
                        "ConfidentialTransferMint", "ConfidentialTransferFeeConfig"} -> TRUE
      [] e \in {"PermanentDelegate", "TransferHook", "MintCloseAuthority"} ->
            isTokenBadgeInitialized
      [] e = "DefaultAccountState" ->
            isTokenBadgeInitialized /\ ~info.frozen_by_default
      [] OTHER -> FALSE

\* (The first form, for a mutant, only asks for the badge of a mint that can freeze.)
isSupportedUnlessFrozen(info, isTokenBadgeInitialized) ==
    \/ info.program = "Token"
    \/ ~info.native /\ (info.freeze_authority => isTokenBadgeInitialized)

isSupportedToken(info, isTokenBadgeInitialized) ==
    \/ info.program = "Token"
    \/ /\ ~info.native
       /\ info.freeze_authority => isTokenBadgeInitialized
       /\ \A e \in info.extensions :
             SupportedExtension(info, e, isTokenBadgeInitialized)

\* A client is told of a mint, under every config at every moment, what the program
\* would decide.
SdkAgreesOnSupport ==
    \A c \in Configs, m \in Mints :
        isSupportedToken(MintInfo[m], <<c, m>> \in token_badge) = IsSupported(c, m)

=============================================================================
