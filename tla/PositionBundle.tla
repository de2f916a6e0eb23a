--------------------------- MODULE PositionBundle ---------------------------
(***************************************************************************)
(* Position bundles: one NFT that controls up to 8*POSITION_BITMAP_USIZE   *)
(* positions of any pools.  A bundle keeps a bitmap of the bundle indexes  *)
(* in use; each used index has a position account of its own, created and  *)
(* closed by the Anchor runtime in the same instruction that flips the     *)
(* bit.  Whoever holds the NFT, or a delegate approved for it, acts on the *)
(* bundle; NFTs move, are approved and revoked outside this program.       *)
(*                                                                         *)
(* An instruction is atomic, so each is one action; an action is not       *)
(* enabled where the handler returns an error.  What a position holds is   *)
(* abstracted to which of its two claims are non-zero: "liquidity", and    *)
(* "owed" (fees or rewards).                                               *)
(***************************************************************************)
EXTENDS Integers

CONSTANTS
    Bundles,                \* bundle mints that may be created
    Users,                  \* wallets
    NoOne,                  \* an absent owner or delegate
    POSITION_BITMAP_USIZE,  \* bytes of the bitmap (32 in the code)
    IndexArgs               \* the bundle_index arguments users try, valid or not

ASSUME BundleAssumption ==
    /\ POSITION_BITMAP_USIZE \in Nat \ {0}
    /\ IndexArgs \subseteq Nat
    /\ NoOne \notin Users

VARIABLES
    bundle,     \* [Bundles -> the PositionBundle account, or absent]
    token,      \* [Bundles -> the NFT of the bundle and its token account]
    position    \* [Bundles -> [Index -> the bundled position account]]

vars == <<bundle, token, position>>

----------------------------------------------------------------------------
POSITION_BUNDLE_SIZE == 8 * POSITION_BITMAP_USIZE
Index == 0 .. POSITION_BUNDLE_SIZE - 1
Byte == SUBSET (0 .. 7)                 \* a u8 as the set of its one bits
Bitmap == [0 .. POSITION_BITMAP_USIZE - 1 -> Byte]
Claims == SUBSET {"liquidity", "owed"}

NoBitmap == [k \in 0 .. POSITION_BITMAP_USIZE - 1 |-> {}]
NoPosition == [open |-> FALSE, claims |-> {}]
Unminted == [supply |-> "none", owner |-> NoOne, delegate |-> NoOne, amount |-> 0]

IsValidBundleIndex(i) == i < POSITION_BUNDLE_SIZE

\* bitmap & (1 << offset), and bitmap ^ (1 << offset) on the byte of index i.
Opened(bitmap, i) == i % 8 \in bitmap[i \div 8]
FlipBitInByteZero(bitmap, i) ==         \* a faulty variant of FlipBit
    [bitmap EXCEPT ![0] = (@ \ {i % 8}) \cup ({i % 8} \ @)]
FlipBit(bitmap, i) ==
    [bitmap EXCEPT ![i \div 8] = (@ \ {i % 8}) \cup ({i % 8} \ @)]

UpdateBitmapOk(bitmap, i, open) == IsValidBundleIndex(i) /\ (Opened(bitmap, i) <=> ~open)

IsDeletableFirstByte(bitmap) == bitmap[0] = {}      \* a faulty variant
IsDeletable(bitmap) == \A k \in DOMAIN bitmap : bitmap[k] = {}

IsPositionEmpty(p) == p.claims = {}

\* verify_position_authority: an approved delegate needs an approval for
\* exactly one token; only a signer who is not the delegate is checked
\* against the owner.
IsAuthority(b, user) ==
    IF token[b].delegate = user THEN token[b].amount = 1 ELSE token[b].owner = user

----------------------------------------------------------------------------
Init ==
    /\ bundle = [b \in Bundles |-> [exists |-> FALSE, bitmap |-> NoBitmap]]
    /\ token = [b \in Bundles |-> Unminted]
    /\ position = [b \in Bundles |-> [i \in Index |-> NoPosition]]

\* initialize_position_bundle[_with_metadata]: the mint is created (init), one
\* token is minted to any owner and the mint authority is removed for good.
InitializePositionBundle(b, owner) ==
    /\ token[b].supply = "none"
    /\ bundle' = [bundle EXCEPT ![b] = [exists |-> TRUE, bitmap |-> NoBitmap]]
    /\ token' = [token EXCEPT ![b] = [supply |-> "one", owner |-> owner,
                                      delegate |-> NoOne, amount |-> 0]]
    /\ UNCHANGED position

\* delete_position_bundle: the owner signs (no delegate), the token is burned.
DeletePositionBundle(b, user) ==
    /\ bundle[b].exists
    /\ token[b].supply = "one"
    /\ token[b].owner = user
    /\ IsDeletable(bundle[b].bitmap)
    /\ bundle' = [bundle EXCEPT ![b] = [exists |-> FALSE, bitmap |-> NoBitmap]]
    /\ token' = [token EXCEPT ![b] = [Unminted EXCEPT !.supply = "burned"]]
    /\ UNCHANGED position

\* open_bundled_position: Anchor creates the position account (init).
OpenBundledPosition(b, user, i) ==
    /\ bundle[b].exists
    /\ token[b].supply = "one"
    /\ IsAuthority(b, user)
    /\ UpdateBitmapOk(bundle[b].bitmap, i, TRUE)
    /\ ~position[b][i].open
    /\ bundle' = [bundle EXCEPT ![b].bitmap = FlipBit(@, i)]
    /\ position' = [position EXCEPT ![b][i] = [open |-> TRUE, claims |-> {}]]
    /\ UNCHANGED token

\* close_bundled_position: Anchor closes the position account (close).
CloseBundledPosition(b, user, i) ==
    /\ bundle[b].exists
    /\ token[b].supply = "one"
    /\ IsAuthority(b, user)
    /\ IsValidBundleIndex(i)
    /\ position[b][i].open
    /\ IsPositionEmpty(position[b][i])
    /\ UpdateBitmapOk(bundle[b].bitmap, i, FALSE)
    /\ bundle' = [bundle EXCEPT ![b].bitmap = FlipBit(@, i)]
    /\ position' = [position EXCEPT ![b][i] = NoPosition]
    /\ UNCHANGED token

----------------------------------------------------------------------------
\* The instructions that change what a bundled position holds: liquidity comes
\* and goes, fees and rewards become owed (update_fees_and_rewards is open to
\* anyone but needs liquidity) and are collected.  All but the update need the
\* position's token, which is the bundle's.
ChangeClaims(b, i, claims) ==
    /\ position[b][i].open
    /\ position' = [position EXCEPT ![b][i].claims = claims]
    /\ UNCHANGED <<bundle, token>>

IncreaseLiquidity(b, user, i) ==
    /\ token[b].supply = "one" /\ IsAuthority(b, user)
    /\ ChangeClaims(b, i, position[b][i].claims \cup {"liquidity"})

\* A withdrawal of everything also settles what has been earned until then.
DecreaseLiquidity(b, user, i) ==
    /\ token[b].supply = "one" /\ IsAuthority(b, user)
    /\ "liquidity" \in position[b][i].claims
    /\ \E earned \in SUBSET {"owed"} :
          ChangeClaims(b, i, (position[b][i].claims \ {"liquidity"}) \cup earned)

UpdateFeesAndRewards(b, i) ==
    /\ "liquidity" \in position[b][i].claims
    /\ ChangeClaims(b, i, position[b][i].claims \cup {"owed"})

CollectOwed(b, user, i) ==
    /\ token[b].supply = "one" /\ IsAuthority(b, user)
    /\ ChangeClaims(b, i, position[b][i].claims \ {"owed"})

----------------------------------------------------------------------------
\* The SPL Token program (external): the holder of the token transfers it to
\* a wallet's own token account, approves a delegate for 0 or 1 tokens, or
\* revokes; an approved delegate may transfer it too.
TransferToken(b, user, to) ==
    /\ token[b].supply = "one"
    /\ token[b].owner = user \/ (token[b].delegate = user /\ token[b].amount = 1)
    /\ token' = [token EXCEPT ![b] = [@ EXCEPT !.owner = to, !.delegate = NoOne,
                                               !.amount = 0]]
    /\ UNCHANGED <<bundle, position>>

ApproveDelegate(b, delegate, amount) ==
    /\ token[b].supply = "one"
    /\ token' = [token EXCEPT ![b] = [@ EXCEPT !.delegate = delegate,
                                               !.amount = amount]]
    /\ UNCHANGED <<bundle, position>>

\* What the signer `user` can do to bundle b, and what anyone can.
Signed(b, user) ==
    \/ InitializePositionBundle(b, user)
    \/ DeletePositionBundle(b, user)
    \/ \E i \in IndexArgs : OpenBundledPosition(b, user, i)
    \/ \E i \in IndexArgs : CloseBundledPosition(b, user, i)
    \/ \E i \in IndexArgs \cap Index : IncreaseLiquidity(b, user, i)
    \/ \E i \in IndexArgs \cap Index : DecreaseLiquidity(b, user, i)
    \/ \E i \in IndexArgs \cap Index : CollectOwed(b, user, i)
    \/ \E to \in Users : TransferToken(b, user, to)

Next ==
    \E b \in Bundles :
        \/ \E user \in Users : Signed(b, user)
        \/ \E i \in IndexArgs \cap Index : UpdateFeesAndRewards(b, i)
        \/ \E delegate \in Users, amount \in {0, 1} : ApproveDelegate(b, delegate, amount)
        \/ ApproveDelegate(b, NoOne, 0)     \* revoke

Spec == Init /\ [][Next]_vars

----------------------------------------------------------------------------
TokenType == [supply : {"none", "one", "burned"}, owner : Users \cup {NoOne},
              delegate : Users \cup {NoOne}, amount : {0, 1}]

\* Every account holds values of its type.
TypeOK ==
    /\ bundle \in [Bundles -> [exists : BOOLEAN, bitmap : Bitmap]]
    /\ token \in [Bundles -> TokenType]
    /\ position \in [Bundles -> [Index -> [open : BOOLEAN, claims : Claims]]]

\* The bitmap and the accounts agree: a bit of the bitmap is set exactly when
\* the position account of that index exists, and a bundle that is gone left
\* no position behind.  This is why the two errors of update_bitmap are marked
\* UNREACHABLE: Anchor's init and account checks always fire first.
BitmapMirrorsAccounts ==
    \A b \in Bundles : \A i \in Index :
        position[b][i].open <=> (bundle[b].exists /\ Opened(bundle[b].bitmap, i))

\* Nothing is stranded: a position that holds liquidity or is owed something
\* belongs to a bundle that still exists and whose token still has a holder,
\* so somebody can withdraw it.
NothingStranded ==
    \A b \in Bundles :
        (\E i \in Index : position[b][i].claims # {}) =>
            bundle[b].exists /\ token[b].supply = "one" /\ token[b].owner \in Users

=============================================================================
