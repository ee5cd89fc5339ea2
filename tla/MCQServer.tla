------------------------------ MODULE MCQServer ------------------------------
(* Instance of QServer: files that share databases in different ways, two  *)
(* posts of each mode, and the providers of BOCs and accounts; two servers *)
(* that share a memcached, and three callers of the latency.               *)
EXTENDS QServer, TLC

CONSTANTS d1, d2, d3, s1, s2, r1, r2, c1, c2, c3, l1, l2
Servers == {s1, s2}
Requests == {r1, r2}
Callers == {c1, c2, c3}
Loads == {l1, l2}

A == <<d1, 0>>
B == <<d2, 0>>
C == <<d3, 10>>
NoParameters == [p \in {} |-> 0]
MCFiles ==
    {[hot |-> <<A, B>>, archive |-> <<C>>, requests_mode |-> "rest", use_listeners |-> FALSE,
      counterparties |-> <<B, A>>],
     [blocks_hot |-> <<A>>, blocks_cold |-> <<B, C>>, hot_cache |-> TRUE, blocks_cache |-> TRUE,
      transactions_hot |-> <<A, C>>, accounts |-> <<B, A>>, zerostate |-> A,
      slow_blocks_hot |-> <<A>>, slow_accounts |-> <<C>>],
     [hot |-> <<B>>, archive |-> <<C>>, s3_endpoint |-> TRUE]}
MCEnvironments == {NoParameters, [blocks_hot |-> <<B>>, subscriptions_mode |-> "external"]}

Sized(size_, expires_) == [size |-> size_, expires |-> expires_]
MCBatches == {<<Sized(1, TRUE), Sized(1, FALSE)>>, <<Sized(2, FALSE), Sized(3, FALSE)>>}

MCDeployments ==
    {[archive |-> TRUE, storage |-> s, accounts |-> "rpc"] : s \in {"none", "s3", "pattern", "arango"}}
    \cup {[archive |-> FALSE, storage |-> "s3", accounts |-> "database"],
          [archive |-> FALSE, storage |-> "arango", accounts |-> "lite"]}
=============================================================================
