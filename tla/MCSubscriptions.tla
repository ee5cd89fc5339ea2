--------------------------- MODULE MCSubscriptions ---------------------------
(* Instance of Subscriptions: a database started twice, for one collection   *)
(* each, as two providers that share their hot database start it.            *)
EXTENDS Subscriptions

MCStarts == <<{"blocks"}, {"messages"}>>
=============================================================================
