------------------------------ MODULE Lifecycle ------------------------------
(***************************************************************************)
(* The process of the server (index.ts): it starts a server by its         *)
(* configuration, and on SIGHUP stops it and starts another by the file as *)
(* it is then.  A start goes through the providers one by one and listens  *)
(* at its end (server.ts, data.ts); nothing waits for it.                  *)
(***************************************************************************)
EXTENDS Providers

CONSTANTS Files,        \* what the configuration file may hold
          Environments, \* what the environment may give
          MaxServers    \* bound on the servers started one after another

VARIABLES
    environment, \* the environment variables, which a process keeps
    defaults,    \* the default lists of databases that resolveConfig() may push to
    servers,     \* the servers the process has made; the last is gs.server
    reloads,     \* handlers of SIGHUP under way: reloadLock
    ended,       \* why the process has ended, or "no"
    overtaken    \* history: a signal came while a server was starting

vars == <<environment, defaults, servers, reloads, ended, overtaken>>

Init ==
    /\ environment \in Environments
    /\ defaults = UnchangedDefaults
    /\ servers = <<>> /\ reloads = 0 /\ ended = "no" /\ overtaken = FALSE

Newest == Len(servers)
Starting(s) == s.port = "none"
End(why) == ended' = why /\ UNCHANGED servers

\* A server, made of the providers that its configuration asks for.
TONQServer(file, c) ==
    [file |-> file, config |-> c, blockchain |-> Blockchain(RegularData(c), c.hot_cache),
     slow |-> Blockchain(SlowData(c), c.hot_cache), counterparties |-> Databases(c.counterparties),
     started |-> 0, follows |-> {}, port |-> "none"]

\* main(): the configuration is resolved, of the file as it is now, and the
\* server made; its start begins.
Main ==
    \E file \in Files :
    LET sources == <<<<>>, file, environment>>
    IN /\ Newest < MaxServers
       /\ defaults' = DefaultsAfter(sources, defaults)
       /\ IF ~IsAccepted(sources, defaults) THEN End("configuration")
          ELSE /\ servers' = Append(servers, TONQServer(file, ResolveConfig(sources, defaults)))
               /\ UNCHANGED ended

Boot == servers = <<>> /\ Main /\ UNCHANGED <<environment, reloads, overtaken>>

\* How many providers are started before those for slow queries, and in all.
WithCollections(server) == Len(DataProviders(server))
All(server) == WithCollections(server) + Len(SlowDataProviders(server))

\* QBlockchainData.start(): start() of the next provider, with the collections it is
\* of, and its hotUpdate(), which may fail if it asks databases.  A start that fails
\* ends the process, whichever server it is of.
StartProvider(i) ==
    LET server == servers[i]
        next == DataProviders(server)[server.started + 1]
        collections == {coll \in DOMAIN Collections(server) : Collections(server)[coll] = next}
    IN /\ server.started < WithCollections(server)
       /\ \/ servers' = [servers EXCEPT ![i].started = @ + 1,
                                        ![i].follows = @ \cup (next.follows \X collections)]
             /\ UNCHANGED ended
          \/ next.asks /\ End("start")
       /\ UNCHANGED <<environment, defaults, reloads, overtaken>>

\* Then the providers for slow queries, with no collections to follow.
StartSlowProvider(i) ==
    /\ WithCollections(servers[i]) <= servers[i].started /\ servers[i].started < All(servers[i])
    /\ servers' = [servers EXCEPT ![i].started = @ + 1]
    /\ UNCHANGED <<environment, defaults, reloads, ended, overtaken>>

\* The end of start(): two servers cannot listen at one port, and an error of
\* the second one nobody handles ends the process.
Listen(i) ==
    /\ servers[i].started = All(servers[i]) /\ servers[i].port = "none"
    /\ IF \E k \in DOMAIN servers : servers[k].port = "open" THEN End("port")
       ELSE servers' = [servers EXCEPT ![i].port = "open"] /\ UNCHANGED ended
    /\ UNCHANGED <<environment, defaults, reloads, overtaken>>

\* The port of the last server, if it listens, is closed at once: it stays closed.
ClosePort == servers' = [servers EXCEPT ![Newest].port = IF @ = "open" THEN "closed" ELSE @]

\* Mutant of Sighup: the lock is not looked at.
SighupUnlocked ==
    /\ servers # <<>> /\ reloads < MaxServers /\ reloads' = reloads + 1
    /\ ClosePort /\ overtaken' = (overtaken \/ Starting(servers[Newest]))
    /\ UNCHANGED <<environment, defaults, ended>>

\* SIGHUP, ignored while another is handled: stop() begins.
Sighup ==
    /\ servers # <<>> /\ reloads = 0 /\ reloads' = 1
    /\ ClosePort /\ overtaken' = (overtaken \/ Starting(servers[Newest]))
    /\ UNCHANGED <<environment, defaults, ended>>

\* stop() is done, after 50 ms at the latest: main() again, and the lock is released.
Reload ==
    /\ reloads > 0 /\ reloads' = reloads - 1
    /\ Main
    /\ UNCHANGED <<environment, overtaken>>

Next ==
    /\ ended = "no"
    /\ \/ Boot \/ Sighup \/ Reload
       \/ \E i \in DOMAIN servers : StartProvider(i) \/ StartSlowProvider(i) \/ Listen(i)

-----------------------------------------------------------------------------
(* Properties *)

Open == {i \in DOMAIN servers : servers[i].port = "open"}

\* A reload replaces the server that serves by the new one: never do two listen,
\* and the last one does as soon as nothing is under way.  The process ends only
\* if the configuration is refused, databases fail at a start, or a start was
\* overtaken by a reload.
OneServerServes ==
    /\ Cardinality(Open) <= 1
    /\ /\ ended = "no" /\ servers # <<>> /\ reloads = 0
       /\ \A i \in DOMAIN servers : ~Starting(servers[i])
       => Open = {Newest}
    /\ ended \in {"no", "configuration", "start"} \/ overtaken

\* The hot and the cold list of a collection have no database in common.
SplitByAge(c) ==
    /\ ToSet(c.blocks_hot) \cap ToSet(c.blocks_cold) \subseteq {NoDatabase}
    /\ ToSet(c.transactions_hot) \cap ToSet(c.transactions_cold) \subseteq {NoDatabase}

\* Whatever the lists of different collections share and however databases are
\* combined, each collection of a server that has started is followed in exactly
\* one database of those its subscriptions listen to.
FeedIsWhole ==
    \A i \in DOMAIN servers :
        servers[i].started >= WithCollections(servers[i]) /\ SplitByAge(servers[i].config) =>
            \A coll \in DOMAIN Collections(servers[i]) :
                LET provider == Collections(servers[i])[coll]
                    heard == provider.hears
                IN provider # NoProvider =>
                      Cardinality({k \in DOMAIN heard : <<heard[k], coll>> \in servers[i].follows}) = 1

\* "QServer can reload config file without an actual restart": a server has the
\* configuration that a process started with the same file would have.
ReloadedAsWritten ==
    \A i \in DOMAIN servers :
        servers[i].config = ResolveConfig(<<<<>>, servers[i].file, environment>>, UnchangedDefaults)
=============================================================================
