------------------------------ MODULE Providers ------------------------------
(***************************************************************************)
(* The providers of a server (DataProviderFactory in server.ts) and what   *)
(* starting them and subscribing through them reaches (data-provider.ts,   *)
(* data.ts, blockchain.ts).  A provider is a tree of databases, joined by  *)
(* combiners, fronted by caches, with an archive aside.  The factory keeps *)
(* what it has made by its configuration: the key of a tree stands for the *)
(* identity of the object.                                                 *)
(***************************************************************************)
EXTENDS Configuration, FiniteSets, SequencesExt

\* Mutant of Following: a combiner passes the collections to all its providers.
FollowingEverywhere(kind, key, parts) ==
    IF kind = "database" THEN {key} ELSE UNION {parts[i].follows : i \in DOMAIN parts}

\* start(): the databases that are to follow the collections a provider is given.
\* A combiner passes them to the first of its providers, an archive combiner to
\* the regular one.
Following(kind, key, parts) ==
    CASE kind = "database" -> {key}
      [] kind = "none" -> {}
      [] OTHER -> parts[1].follows

\* subscribe(): the databases that a subscription listens to.
Subscribed(kind, key, parts) ==
    CASE kind = "database" -> <<key>>
      [] kind = "archive" -> parts[1].hears
      [] OTHER -> FlattenSeq([i \in DOMAIN parts |-> parts[i].hears])

\* A provider whose hotUpdate() asks its databases for their fingerprint.
HasCache(kind, parts) == kind = "cache" \/ \E i \in DOMAIN parts : parts[i].asks

\* Of the tree below a provider, what its methods reach.
Provider(kind, key, parts) ==
    [kind |-> kind, key |-> key, follows |-> Following(kind, key, parts),
     hears |-> Subscribed(kind, key, parts), asks |-> HasCache(kind, parts)]
NoProvider == Provider("none", <<>>, <<>>)
Cached(provider, data) == Provider("cache", <<"cache", provider.key, data>>, <<provider>>)

\* ensureDatabase()
Database(db) == IF db = NoDatabase THEN NoProvider ELSE Provider("database", <<"database", db>>, <<>>)

\* The providers of a list that are there, each once and in its order: the loops of
\* ensureDatabases() and collectProviders().
Distinct(providers) ==
    LET found[i \in 0..Len(providers)] ==
          IF i = 0 THEN <<>>
          ELSE IF providers[i] = NoProvider \/ providers[i] \in ToSet(found[i - 1]) THEN found[i - 1]
          ELSE Append(found[i - 1], providers[i])
    IN found[Len(providers)]

Combined(key, providers) ==
    CASE Len(providers) = 0 -> NoProvider
      [] Len(providers) = 1 -> providers[1]
      [] OTHER -> Provider("combiner", key, providers)

\* ensureDatabases()
DatabasesOf(list) == Distinct([i \in DOMAIN list |-> Database(list[i])])
Databases(list) == Combined(<<"databases", list>>, DatabasesOf(list))

\* The hot database of a list is its first.
HotDatabase(list) == IF DatabasesOf(list) = <<>> THEN NoProvider ELSE DatabasesOf(list)[1]

PreCache(provider, cache, data) ==
    IF provider = NoProvider \/ ~cache THEN provider ELSE Cached(provider, data)

\* ensureDataProvider(): hot and cold databases, each behind its cache, and an archive.
DataProvider(data, hotCache) ==
    LET hot == PreCache(HotDatabase(data.hot), hotCache, data)
        cold == PreCache(Databases(data.cold), data.cache, data)
        regular == IF hot # NoProvider /\ cold # NoProvider
                   THEN Provider("combiner", <<"hot-cold", data>>, <<hot, cold>>)
                   ELSE IF hot # NoProvider THEN hot ELSE cold
        archive == Databases(data.archive)
    IN IF regular = NoProvider \/ archive = NoProvider THEN regular
       ELSE Provider("archive", <<"archive", data>>, <<regular, archive>>)

\* What the configuration says of the data for all queries, and of that for slow ones.
RegularData(c) ==
    [blocks |-> [hot |-> c.blocks_hot, archive |-> c.blocks_archive, cache |-> c.blocks_cache, cold |-> c.blocks_cold],
     transactions |-> [hot |-> c.transactions_hot, archive |-> c.transactions_archive,
                       cache |-> c.transactions_cache, cold |-> c.transactions_cold],
     accounts |-> c.accounts, zerostate |-> c.zerostate]
SlowData(c) ==
    [blocks |-> [hot |-> c.slow_blocks_hot, archive |-> c.slow_blocks_archive, cache |-> c.slow_blocks_cache,
                 cold |-> c.slow_blocks_cold],
     transactions |-> [hot |-> c.slow_transactions_hot, archive |-> c.slow_transactions_archive,
                       cache |-> c.slow_transactions_cache, cold |-> c.slow_transactions_cold],
     accounts |-> c.slow_accounts, zerostate |-> c.slow_zerostate]

\* ensureBlockchain()
Blockchain(data, hotCache) ==
    [blocks |-> DataProvider(data.blocks, hotCache), transactions |-> DataProvider(data.transactions, hotCache),
     accounts |-> Databases(data.accounts), zerostate |-> Database(data.zerostate)]

\* The providers of a server, in the order of their start, and those for slow queries.
DataProviders(server) ==
    LET b == server.blockchain
    IN Distinct(<<b.blocks, b.transactions, b.accounts, b.zerostate, server.counterparties>>)
SlowDataProviders(server) ==
    LET b == server.slow IN Distinct(<<b.blocks, b.transactions, b.accounts, b.zerostate>>)

\* The provider of each collection (constructor of QBlockchainData).
Collections(server) ==
    LET b == server.blockchain
    IN [accounts |-> b.accounts, blocks |-> b.blocks, blocks_signatures |-> b.blocks,
        transactions |-> b.transactions, messages |-> b.transactions,
        zerostates |-> b.zerostate, counterparties |-> server.counterparties]

=============================================================================
