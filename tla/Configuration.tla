---------------------------- MODULE Configuration ----------------------------
(***************************************************************************)
(* How the server resolves its configuration (config.ts, config-param.ts): *)
(* program options before the file, the file before the environment, the   *)
(* environment before the defaults; then what parameters take from others. *)
(*                                                                         *)
(* A source of parameters is a function of the names of those it gives.    *)
(* The parameters are the ones that decide which databases a server uses   *)
(* and whether it starts: lists of databases, and a few single values.  A  *)
(* database of a list is <<name, maxSockets>>, maxSockets 0 if not given.  *)
(***************************************************************************)
EXTENDS Integers, Sequences

CONSTANT NoDatabase

DataLists == {"accounts", "blocks_hot", "blocks_archive", "blocks_cold",
              "transactions_hot", "transactions_archive", "transactions_cold"}
ListParams == {"hot", "archive", "counterparties"} \cup DataLists \cup {"slow_" \o p : p \in DataLists}

\* What one source gives, and of the other parameters what the next one gives.
Else(source, next) ==
    [p \in DOMAIN source \cup DOMAIN next |-> IF p \in DOMAIN source THEN source[p] ELSE next[p]]

\* The defaults of the code; use-listeners is deprecated and has none.
ConfigParams ==
    Else([p \in ListParams |-> <<>>],
        [zerostate |-> NoDatabase, slow_zerostate |-> NoDatabase, subscriptions_mode |-> "arango",
        slow_queries |-> "redirect", requests_mode |-> "kafka", s3_endpoint |-> FALSE,
        hot_cache |-> FALSE, blocks_cache |-> FALSE, transactions_cache |-> FALSE,
        slow_blocks_cache |-> FALSE, slow_transactions_cache |-> FALSE])

Enums == [subscriptions_mode |-> {"disabled", "arango", "external"},
          slow_queries |-> {"enable", "redirect", "disable"},
          requests_mode |-> {"tcpadnl", "kafka", "rest", "jrpc"}]

Specified(sources) == UNION {DOMAIN sources[i] : i \in DOMAIN sources}

\* ConfigParam.resolveConfig(): sources are the options, the file and the environment;
\* defaults are the default lists that have been changed since the process began.
ResolveParams(sources, defaults) ==
    Else(sources[1], Else(sources[2], Else(sources[3], Else(defaults, ConfigParams))))

\* The lists that take the databases of "hot" and "archive" when they have none.
DefaultFrom == [accounts |-> "hot", blocks_hot |-> "hot", transactions_hot |-> "hot",
                blocks_archive |-> "archive", transactions_archive |-> "archive"]
ApplyDatabaseDefaults(c) ==
    [p \in DOMAIN c |-> IF p \in DOMAIN DefaultFrom /\ c[p] = <<>> THEN c[DefaultFrom[p]] ELSE c[p]]

UnchangedDefaults == [p \in DOMAIN DefaultFrom |-> ConfigParams[p]]

\* The databases are pushed into the list there is, which is the parameter's own
\* default when no source gives one.
DefaultsAfter(sources, defaults) ==
    LET c == ApplyDatabaseDefaults(ResolveParams(sources, defaults))
    IN [p \in DOMAIN defaults |-> IF p \in Specified(sources) THEN defaults[p] ELSE c[p]]

\* checkSubscriptionsConfig(): the deprecated use-listeners, if given, sets the mode.
SubscriptionsMode(c, specified) ==
    IF "use_listeners" \notin specified THEN c.subscriptions_mode
    ELSE IF c.use_listeners THEN "arango" ELSE "disabled"

\* resolveMaxSocketsFor(): databases for slow queries get 3 connections, if they say nothing else.
SlowLists == {"slow_" \o p : p \in DataLists \ {"blocks_archive", "transactions_archive"}}
FewSockets(list) == [i \in DOMAIN list |-> IF list[i][2] = 0 THEN <<list[i][1], 3>> ELSE list[i]]

\* The zerostate is in the first hot database of blocks, or in the first cold one.
Zerostate(c, specified) ==
    IF c.zerostate # NoDatabase \/ "zerostate" \in specified THEN c.zerostate
    ELSE IF c.blocks_hot # <<>> THEN Head(c.blocks_hot)
    ELSE IF c.blocks_cold # <<>> THEN Head(c.blocks_cold) ELSE NoDatabase

\* resolveConfig()
ResolveConfig(sources, defaults) ==
    LET specified == Specified(sources)
        c == ApplyDatabaseDefaults(ResolveParams(sources, defaults))
    IN [p \in DOMAIN c |->
          CASE p = "zerostate" -> Zerostate(c, specified)
            [] p = "subscriptions_mode" -> SubscriptionsMode(c, specified)
            [] p \in SlowLists -> FewSockets(c[p])
            [] OTHER -> c[p]]

\* checkConfig(): "Missing block boc provider in archive mode" is said when there
\* is one, because ?? binds its right side, which compares "" with "".
ArchiveIsRefused(c) ==
    /\ c.blocks_archive # <<>> \/ c.transactions_archive # <<>>
    /\ c.s3_endpoint

\* resolveConfig() does not throw.
IsAccepted(sources, defaults) ==
    LET c == ResolveConfig(sources, defaults) IN
    /\ ~({"use_listeners", "subscriptions_mode"} \subseteq Specified(sources))
    /\ \A p \in DOMAIN Enums : c[p] \in Enums[p]
    /\ ~ArchiveIsRefused(c)
=============================================================================
