----------------------- MODULE PositionBundleProofs -----------------------
(***************************************************************************)
(* For any number of bundles, wallets and bitmap bytes: the bitmap of a    *)
(* bundle mirrors its position accounts, and nothing a position holds is   *)
(* ever stranded.                                                          *)
(*                                                                         *)
(* The inductive invariant adds to the two safety properties what ties a   *)
(* bundle account to its token, and a position's claims to its account.    *)
(***************************************************************************)
EXTENDS PositionBundle, TLAPS

\* A bundle account exists exactly while its token does, and that token has a
\* holder; an account that does not exist holds nothing.
AccountsTied ==
    /\ \A b \in Bundles :
          /\ bundle[b].exists <=> token[b].supply = "one"
          /\ token[b].supply = "one" => token[b].owner \in Users
    /\ \A b \in Bundles : \A i \in Index :
          position[b][i].claims # {} => position[b][i].open

IInv == TypeOK /\ BitmapMirrorsAccounts /\ AccountsTied

----------------------------------------------------------------------------
\* An index is determined by its byte and its bit.
LEMMA IndexSplit ==
    ASSUME NEW i \in Index
    PROVE  /\ i \div 8 \in 0 .. POSITION_BITMAP_USIZE - 1
           /\ i % 8 \in 0 .. 7
           /\ i = 8 * (i \div 8) + (i % 8)
  BY BundleAssumption, SMT DEF Index, POSITION_BUNDLE_SIZE

\* Flipping the bit of one index changes what is read for that index only
\* (update_bitmap's XOR with the mask).
LEMMA FlipBitOpened ==
    ASSUME NEW bitmap \in Bitmap, NEW i \in Index, NEW j \in Index
    PROVE  /\ FlipBit(bitmap, i) \in Bitmap
           /\ Opened(FlipBit(bitmap, i), j) <=>
                IF j = i THEN ~Opened(bitmap, i) ELSE Opened(bitmap, j)
  <1>1. /\ i \div 8 \in 0 .. POSITION_BITMAP_USIZE - 1
        /\ j \div 8 \in 0 .. POSITION_BITMAP_USIZE - 1
        /\ i % 8 \in 0 .. 7
        /\ j % 8 \in 0 .. 7
    BY IndexSplit
  <1>2. i \div 8 = j \div 8 /\ i % 8 = j % 8 => i = j
    BY IndexSplit
  <1>3. FlipBit(bitmap, i) \in Bitmap
    BY <1>1 DEF FlipBit, Bitmap, Byte
  <1>4. Opened(FlipBit(bitmap, i), j) <=>
            IF j = i THEN ~Opened(bitmap, i) ELSE Opened(bitmap, j)
    BY <1>1, <1>2 DEF FlipBit, Opened, Bitmap
  <1> QED BY <1>3, <1>4

\* The empty bitmap has no open index; a deletable one neither.
LEMMA NoneOpened ==
    /\ NoBitmap \in Bitmap
    /\ \A i \in Index : ~Opened(NoBitmap, i)
    /\ \A bitmap \in Bitmap : IsDeletable(bitmap) => \A i \in Index : ~Opened(bitmap, i)
  BY IndexSplit DEF NoBitmap, Bitmap, Byte, Opened, IsDeletable

----------------------------------------------------------------------------
\* The invariant holds at first.
LEMMA InitInv == Init => IInv
  BY NoneOpened, BundleAssumption
     DEF Init, IInv, TypeOK, BitmapMirrorsAccounts, AccountsTied, TokenType,
         Unminted, NoPosition, Claims

\* Every step keeps the invariant.
LEMMA NextInv == IInv /\ [Next]_vars => IInv'
  <1> SUFFICES ASSUME TypeOK, BitmapMirrorsAccounts, AccountsTied, [Next]_vars
               PROVE  IInv'
    BY DEF IInv
  <1> USE DEF IInv
  <1>1. ASSUME NEW b \in Bundles, NEW u \in Users, InitializePositionBundle(b, u)
        PROVE  IInv'
    BY <1>1, NoneOpened, BundleAssumption
       DEF InitializePositionBundle, TypeOK, BitmapMirrorsAccounts, AccountsTied,
           TokenType
  <1>2. ASSUME NEW b \in Bundles, NEW u \in Users, DeletePositionBundle(b, u)
        PROVE  IInv'
    <2>1. bundle[b].bitmap \in Bitmap
      BY DEF TypeOK
    <2>2. \A i \in Index : ~position[b][i].open
      BY <1>2, <2>1, NoneOpened DEF DeletePositionBundle, BitmapMirrorsAccounts
    <2>3. TypeOK'
      BY <1>2, NoneOpened DEF DeletePositionBundle, TypeOK, TokenType, Unminted
    <2>4. BitmapMirrorsAccounts'
      BY <1>2, <2>2, NoneOpened DEF DeletePositionBundle, TypeOK, BitmapMirrorsAccounts
    <2>5. AccountsTied'
      BY <1>2, <2>2 DEF DeletePositionBundle, TypeOK, AccountsTied, Unminted
    <2> QED BY <2>3, <2>4, <2>5
  <1>3. ASSUME NEW b \in Bundles, NEW u \in Users, NEW i \in IndexArgs,
               OpenBundledPosition(b, u, i)
        PROVE  IInv'
    <2>1. i \in Index /\ bundle[b].bitmap \in Bitmap /\ ~Opened(bundle[b].bitmap, i)
      <3>1. i < POSITION_BUNDLE_SIZE /\ ~Opened(bundle[b].bitmap, i)
        BY <1>3, Zenon DEF OpenBundledPosition, UpdateBitmapOk, IsValidBundleIndex, Opened
      <3>2. i \in Index
        BY <3>1, BundleAssumption DEF Index, POSITION_BUNDLE_SIZE
      <3> QED BY <3>1, <3>2 DEF TypeOK
    <2>2. \A j \in Index : /\ FlipBit(bundle[b].bitmap, i) \in Bitmap
                           /\ Opened(FlipBit(bundle[b].bitmap, i), j) <=>
                                 (j = i \/ Opened(bundle[b].bitmap, j))
      BY <2>1, FlipBitOpened
    <2>3. TypeOK'
      BY <1>3, <2>1, <2>2 DEF OpenBundledPosition, TypeOK, Claims
    <2>4. BitmapMirrorsAccounts'
      BY <1>3, <2>1, <2>2 DEF OpenBundledPosition, TypeOK, BitmapMirrorsAccounts
    <2>5. AccountsTied'
      BY <1>3, <2>1 DEF OpenBundledPosition, TypeOK, AccountsTied
    <2> QED BY <2>3, <2>4, <2>5
  <1>4. ASSUME NEW b \in Bundles, NEW u \in Users, NEW i \in IndexArgs,
               CloseBundledPosition(b, u, i)
        PROVE  IInv'
    <2>1. i \in Index /\ bundle[b].bitmap \in Bitmap /\ Opened(bundle[b].bitmap, i)
      <3>1. i < POSITION_BUNDLE_SIZE /\ Opened(bundle[b].bitmap, i)
        BY <1>4, Zenon DEF CloseBundledPosition, UpdateBitmapOk, IsValidBundleIndex, Opened
      <3>2. i \in Index
        BY <3>1, BundleAssumption DEF Index, POSITION_BUNDLE_SIZE
      <3> QED BY <3>1, <3>2 DEF TypeOK
    <2>2. \A j \in Index : /\ FlipBit(bundle[b].bitmap, i) \in Bitmap
                           /\ Opened(FlipBit(bundle[b].bitmap, i), j) <=>
                                 (j # i /\ Opened(bundle[b].bitmap, j))
      BY <2>1, FlipBitOpened
    <2>3. TypeOK'
      BY <1>4, <2>1, <2>2 DEF CloseBundledPosition, TypeOK, NoPosition, Claims
    <2>4. BitmapMirrorsAccounts'
      BY <1>4, <2>1, <2>2
         DEF CloseBundledPosition, TypeOK, BitmapMirrorsAccounts, NoPosition
    <2>5. AccountsTied'
      BY <1>4, <2>1 DEF CloseBundledPosition, TypeOK, AccountsTied, NoPosition
    <2> QED BY <2>3, <2>4, <2>5
  <1>5. ASSUME NEW b \in Bundles, NEW i \in Index, NEW c \in Claims, ChangeClaims(b, i, c)
        PROVE  IInv'
    BY <1>5 DEF ChangeClaims, TypeOK, BitmapMirrorsAccounts, AccountsTied
  <1>6. ASSUME NEW b \in Bundles, NEW u \in Users, NEW to \in Users, TransferToken(b, u, to)
        PROVE  IInv'
    <2>1. TypeOK'
      BY <1>6 DEF TransferToken, TypeOK, TokenType
    <2>2. BitmapMirrorsAccounts'
      BY <1>6 DEF TransferToken, BitmapMirrorsAccounts
    <2>3. AccountsTied'
      BY <1>6 DEF TransferToken, AccountsTied, TypeOK, TokenType
    <2> QED BY <2>1, <2>2, <2>3
  <1>7. ASSUME NEW b \in Bundles, NEW d \in Users \cup {NoOne}, NEW a \in {0, 1},
               ApproveDelegate(b, d, a)
        PROVE  IInv'
    <2>1. TypeOK'
      BY <1>7 DEF ApproveDelegate, TypeOK, TokenType
    <2>2. BitmapMirrorsAccounts'
      BY <1>7 DEF ApproveDelegate, BitmapMirrorsAccounts
    <2>3. AccountsTied'
      BY <1>7 DEF ApproveDelegate, AccountsTied, TypeOK, TokenType
    <2> QED BY <2>1, <2>2, <2>3
  <1>8. ASSUME NEW b \in Bundles, NEW i \in Index, NEW u \in Users,
               IncreaseLiquidity(b, u, i) \/ DecreaseLiquidity(b, u, i) \/
               CollectOwed(b, u, i)
        PROVE  IInv'
    <2>1. position[b][i].claims \in Claims
      BY DEF TypeOK
    <2>2. \E c \in Claims : ChangeClaims(b, i, c)
      BY <1>8, <2>1
         DEF IncreaseLiquidity, DecreaseLiquidity, CollectOwed, Claims
    <2> QED BY <2>2, <1>5
  <1>9. CASE UNCHANGED vars
    BY <1>9 DEF vars, TypeOK, BitmapMirrorsAccounts, AccountsTied
  <1>10. ASSUME NEW b \in Bundles, NEW u \in Users, Signed(b, u)
         PROVE  IInv'
    <2>1. CASE \/ InitializePositionBundle(b, u)
               \/ DeletePositionBundle(b, u)
               \/ \E i \in IndexArgs : OpenBundledPosition(b, u, i)
               \/ \E i \in IndexArgs : CloseBundledPosition(b, u, i)
               \/ \E to \in Users : TransferToken(b, u, to)
      BY <1>1, <1>2, <1>3, <1>4, <1>6, <2>1, Zenon
    <2>2. CASE \/ \E i \in IndexArgs \cap Index : IncreaseLiquidity(b, u, i)
               \/ \E i \in IndexArgs \cap Index : DecreaseLiquidity(b, u, i)
               \/ \E i \in IndexArgs \cap Index : CollectOwed(b, u, i)
      BY <1>8, <2>2
    <2> QED BY <1>10, <2>1, <2>2, Zenon DEF Signed
  <1>11. ASSUME NEW b \in Bundles, NEW i \in Index, UpdateFeesAndRewards(b, i)
         PROVE  IInv'
    <2>1. position[b][i].claims \in Claims
      BY DEF TypeOK
    <2> QED BY <1>5, <1>11, <2>1 DEF UpdateFeesAndRewards, Claims
  <1>12. CASE Next
    <2>1. PICK b \in Bundles :
             \/ \E u \in Users : Signed(b, u)
             \/ \E i \in IndexArgs \cap Index : UpdateFeesAndRewards(b, i)
             \/ \E d \in Users, a \in {0, 1} : ApproveDelegate(b, d, a)
             \/ ApproveDelegate(b, NoOne, 0)
      BY <1>12, Zenon DEF Next
    <2>2. NoOne \in Users \cup {NoOne} /\ 0 \in {0, 1}
      OBVIOUS
    <2> QED BY <1>7, <1>10, <1>11, <2>1, <2>2
  <1> QED BY <1>9, <1>12

----------------------------------------------------------------------------
\* So it holds always.
LEMMA Invariance == Spec => []IInv
  BY InitInv, NextInv, PTL DEF Spec

\* The types of the accounts are kept by every instruction.
THEOREM TypeCorrect == Spec => []TypeOK
  BY Invariance, PTL DEF IInv

\* The bitmap of every bundle agrees with its position accounts: the errors of
\* update_bitmap marked UNREACHABLE are unreachable.
THEOREM BitmapCorrect == Spec => []BitmapMirrorsAccounts
  BY Invariance, PTL DEF IInv

\* No position with a claim ever loses its bundle or its token.
THEOREM NeverStranded == Spec => []NothingStranded
  <1>1. IInv => NothingStranded
    BY DEF IInv, AccountsTied, BitmapMirrorsAccounts, NothingStranded
  <1> QED BY <1>1, Invariance, PTL

=============================================================================
