------------------------- MODULE MCChainOrderBoundary -------------------------
(* Model checking of ChainOrderBoundary: a forward and a backward walk of a *)
(* query with one filter, or two forward walks of which one has two.        *)
EXTENDS ChainOrderBoundary, TLC

CONSTANTS w1, w2
Walkers == {w1, w2}
Messages == {"in", "out"}
Blocks == {"block"}
OneFilter == <<Messages>>
TwoFilters == <<{"in"}, {"out"}>>

\* w2 asks for the inbound and the outbound messages with a filter each.
Both == w1 :> OneFilter @@ w2 :> TwoFilters
Single == w1 :> <<Blocks>> @@ w2 :> <<Blocks>>
ForwardW1 == {w1}
AllVouchedByFirst == [d \in Database |-> 1]
OwnSummary == [d \in Database |-> d]
=============================================================================
