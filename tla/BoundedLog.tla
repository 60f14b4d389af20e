----------------------------- MODULE BoundedLog -----------------------------
(***************************************************************************)
(* What a log of the newest items promises: whoever looks at it sees the   *)
(* last Size items recorded, oldest first, however many were recorded.     *)
(***************************************************************************)
EXTENDS Naturals, Sequences

CONSTANTS Items,     \* what can be recorded
          Size       \* how many of them are shown

VARIABLES recorded,  \* every item, in the order of recording
          shown

Newest(n, s) == IF Len(s) <= n THEN s ELSE SubSeq(s, Len(s) - n + 1, Len(s))

Init == recorded = <<>> /\ shown = <<>>

Add == \E x \in Items :
         /\ recorded' = Append(recorded, x)
         /\ shown' = Newest(Size, Append(recorded, x))

Spec == Init /\ [][Add]_<<recorded, shown>>
=============================================================================
