--------------------------- MODULE ReceiptStream ----------------------------
(***************************************************************************)
(* What a subscriber of receipts is promised: the receipts 1, 2, 3, ... a  *)
(* service publishes reach it each once and in that order, none before it  *)
(* is published, and none after the subscription has ended.  It may end at *)
(* any time.                                                               *)
(***************************************************************************)
EXTENDS Naturals, Sequences

VARIABLES published, delivered, ended
stream == <<published, delivered, ended>>

Init == published \in Nat /\ delivered = <<>> /\ ended = FALSE

Publish ==
    /\ published' = published + 1
    /\ UNCHANGED <<delivered, ended>>

Deliver ==
    /\ ~ended /\ Len(delivered) < published
    /\ delivered' = Append(delivered, Len(delivered) + 1)
    /\ UNCHANGED <<published, ended>>

End ==
    /\ ~ended /\ ended' = TRUE
    /\ UNCHANGED <<published, delivered>>

Next == Publish \/ Deliver \/ End

Spec == Init /\ [][Next]_stream
=============================================================================
