------------------------------ MODULE Delegation ------------------------------
(***************************************************************************)
(* How authority is handed on, without saying what it is authority over:   *)
(* each office is vacant until it is founded, its first holder is its      *)
(* founder's choice or the holder of another office, and from then on it   *)
(* passes only by the signature of someone who may appoint to it, one      *)
(* office at a time.                                                       *)
(***************************************************************************)
CONSTANTS
    Office,
    Key,
    Nobody,             \* holds the offices that are vacant
    First(_),           \* whose holder comes first: the office's own, or another's
    Appointers(_)       \* the offices whose holders may fill an office anew

VARIABLES
    holder,             \* [Office -> Key \cup {Nobody}]
    signer              \* of the last transaction

Vacant(o) == holder[o] = Nobody

Init == holder = [o \in Office |-> Nobody]

\* A vacant office gets its first holder.
Found(o) ==
    /\ Vacant(o)
    /\ IF First(o) = o THEN holder'[o] \in Key
                       ELSE ~Vacant(First(o)) /\ holder'[o] = holder[First(o)]

\* An office passes to a key, and no other office changes hands.
Appoint(o) ==
    /\ ~Vacant(o)
    /\ holder'[o] \in Key
    /\ \E a \in Appointers(o) : ~Vacant(a) /\ signer' = holder[a]
    /\ \A q \in Office \ {o} : holder'[q] = holder[q]

Next ==
    /\ DOMAIN holder' = Office
    /\ \/ \E o \in Office : Appoint(o)
       \/ \A o \in Office : holder'[o] = holder[o] \/ Found(o)

Spec == Init /\ [][Next]_holder

=============================================================================
