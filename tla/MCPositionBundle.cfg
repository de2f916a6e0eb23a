SPECIFICATION Spec
CONSTANTS
    Bundles = {b1, b2}
    Users = {u1, u2}
    NoOne = NoOne
    POSITION_BITMAP_USIZE = 2
    IndexArgs = {7, 8, 16}
INVARIANTS
    BitmapMirrorsAccounts
    NothingStranded
CHECK_DEADLOCK FALSE
