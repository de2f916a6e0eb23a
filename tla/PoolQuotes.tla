----------------------------- MODULE PoolQuotes -----------------------------
(***************************************************************************)
(* The quotes of a pool's positions, taken whenever the accounts of        *)
(* ClmmPool can be fetched, that is between transactions.  The pool's      *)
(* mints have no transfer fee (TwoHopSwap's have).                         *)
(***************************************************************************)
EXTENDS ClmmPool, PositionQuotes

\* What a client fetches before it asks for a quote.
Snapshot ==
    [pool |-> pool, ticks |-> ticks, arrays |-> arrays,
     fee |-> [k \in Token \cup Reward |-> NoFee]]

\* The accounts of the ticks can be fetched too.
Quotable(p) ==
    /\ Idle
    /\ positions[p].open
    /\ HasTick(positions[p].tick_lower_index)
    /\ HasTick(positions[p].tick_upper_index)

\* A position is quoted the fees that an update would leave it, so that a client
\* that updates and then collects is paid what it was told.
FeeQuoteForetells ==
    \A p \in Position : Quotable(p) =>
        \A k \in Token :
            collectFeesQuote(Snapshot, positions[p])[k]
                = positions[p].fee_owed[k] + PendingFee(p, k)

\* The same for rewards, up to the present second, for a position that has
\* something to update.  Before a slot is initialized the quote must be zero.
RewardQuoteForetells ==
    \A p \in Position : Quotable(p) /\ CanModifyLiquidity(p, 0) =>
        \A r \in Reward :
            collectRewardsQuote(Snapshot, positions[p], r, now)
                = positions[p].reward_owed[r] + PendingReward(p, r)

=============================================================================
