-------------------------- MODULE PrecachedCombiner --------------------------
(***************************************************************************)
(* The memcached front of a database (QDataPrecachedCombiner in            *)
(* data/data-provider.ts): the servers of a network share the cache, and   *)
(* a request that finds neither a result nor the FETCHING mark of another  *)
(* request marks the key, queries the database and stores what it got.     *)
(*                                                                         *)
(* The module follows one query.  Its database only grows, so that a       *)
(* result is the number of documents there were when it was read; the      *)
(* fingerprint of the database, which is part of the key, is that number   *)
(* as well (loadFingerprint() in data/database-provider.ts counts the      *)
(* documents of each collection).                                          *)
(***************************************************************************)
EXTENDS Integers

CONSTANTS Server,      \* the processes that share the cache
          Request,     \* calls of query()
          MaxSize      \* bound on the size of the database

ASSUME PrecachedAssumption == MaxSize \in Nat

Size == 0..MaxSize
Absent == -1            \* in the cache: nothing; of a request or update: no value yet
Fetching == -2          \* in the cache: the FETCHING mark

VARIABLES
    size,        \* the database
    cache,       \* memcached: what it holds under each key
    configHash,  \* of each server: the fingerprint its keys are made from
    loaded,      \* of each server: the fingerprint its running hotUpdate() has loaded
    pc,          \* of each request
    key,         \* of each request: its key, computed once
    docs         \* of each request: its result

vars == <<size, cache, configHash, loaded, pc, key, docs>>

TypeOK ==
    /\ size \in Size
    /\ cache \in [Size -> Size \cup {Absent, Fetching}]
    /\ configHash \in [Server -> Size]
    /\ loaded \in [Server -> Size \cup {Absent}]
    /\ pc \in [Request -> {"idle", "get", "mark", "query", "store", "sleep", "done", "failed"}]
    /\ key \in [Request -> Size \cup {Absent}]
    /\ docs \in [Request -> Size \cup {Absent}]

\* A server listens only after the hotUpdate() of its start: each has a
\* fingerprint, of the time it started at.
Init ==
    /\ size \in Size
    /\ cache = [k \in Size |-> Absent]
    /\ configHash \in [Server -> 0..size]
    /\ loaded = [s \in Server |-> Absent]
    /\ pc = [r \in Request |-> "idle"]
    /\ key = [r \in Request |-> Absent]
    /\ docs = [r \in Request |-> Absent]

-----------------------------------------------------------------------------
(* The database and memcached *)

Grow ==
    /\ size < MaxSize /\ size' = size + 1
    /\ UNCHANGED <<cache, configHash, loaded, pc, key, docs>>

\* The FETCHING mark expires after fetchingExpirationTimeout.
MarkExpires(k) ==
    /\ cache[k] = Fetching
    /\ cache' = [cache EXCEPT ![k] = Absent]
    /\ UNCHANGED <<size, configHash, loaded, pc, key, docs>>

\* A stored result expires after the expiration it was stored with, or
\* memcached evicts it.
ResultExpires(k) ==
    /\ cache[k] \in Size
    /\ cache' = [cache EXCEPT ![k] = Absent]
    /\ UNCHANGED <<size, configHash, loaded, pc, key, docs>>

\* cache.set(): memcached takes the value, or the error is swallowed.
Set(k, value) == cache' \in {cache, [cache EXCEPT ![k] = value]}

-----------------------------------------------------------------------------
(* query() *)

\* The key is made from the configHash that the server of the request has now.
Start(r) ==
    /\ pc[r] = "idle"
    /\ \E s \in Server : key' = [key EXCEPT ![r] = configHash[s]]
    /\ pc' = [pc EXCEPT ![r] = "get"]
    /\ UNCHANGED <<size, cache, configHash, loaded, docs>>

\* cache.get(): a result ends the query, the mark makes it wait, and nothing,
\* like an error of memcached, makes it fetch.
Get(r) ==
    /\ pc[r] = "get"
    /\ \E value \in {cache[key[r]], Absent} :
          \/ /\ value \in Size
             /\ docs' = [docs EXCEPT ![r] = value] /\ pc' = [pc EXCEPT ![r] = "done"]
          \/ /\ value = Fetching
             /\ pc' = [pc EXCEPT ![r] = "sleep"] /\ UNCHANGED docs
          \/ /\ value = Absent
             /\ pc' = [pc EXCEPT ![r] = "mark"] /\ UNCHANGED docs
    /\ UNCHANGED <<size, cache, configHash, loaded, key>>

\* Mutant of Poll: the loop looks at the value it has read before the wait.
PollStale(r) == pc[r] = "sleep" /\ UNCHANGED vars

\* The wait of fetchingPollTimeout is over.
Poll(r) ==
    /\ pc[r] = "sleep"
    /\ pc' = [pc EXCEPT ![r] = "get"]
    /\ UNCHANGED <<size, cache, configHash, loaded, key, docs>>

\* The key is marked, whatever it holds by now.
Mark(r) ==
    /\ pc[r] = "mark"
    /\ Set(key[r], Fetching)
    /\ pc' = [pc EXCEPT ![r] = "query"]
    /\ UNCHANGED <<size, configHash, loaded, key, docs>>

\* The database answers.
Query(r) ==
    /\ pc[r] = "query"
    /\ docs' = [docs EXCEPT ![r] = size]
    /\ pc' = [pc EXCEPT ![r] = "store"]
    /\ UNCHANGED <<size, cache, configHash, loaded, key>>

\* The database fails: the request fails and the mark stays.
QueryFails(r) ==
    /\ pc[r] = "query"
    /\ pc' = [pc EXCEPT ![r] = "failed"]
    /\ UNCHANGED <<size, cache, configHash, loaded, key, docs>>

\* Mutant of Store: the key is made again when the result is there.
StoreUnderNewKey(r) ==
    /\ pc[r] = "store"
    /\ \E s \in Server : Set(configHash[s], docs[r])
    /\ pc' = [pc EXCEPT ![r] = "done"]
    /\ UNCHANGED <<size, configHash, loaded, key, docs>>

\* The result is stored under the key the query began with.
Store(r) ==
    /\ pc[r] = "store"
    /\ Set(key[r], docs[r])
    /\ pc' = [pc EXCEPT ![r] = "done"]
    /\ UNCHANGED <<size, configHash, loaded, key, docs>>

-----------------------------------------------------------------------------
(* hotUpdate(), for dropCachedDbInfo() *)

LoadFingerprint(s) ==
    /\ loaded[s] = Absent
    /\ loaded' = [loaded EXCEPT ![s] = size]
    /\ UNCHANGED <<size, cache, configHash, pc, key, docs>>

SetHash(s) ==
    /\ loaded[s] # Absent
    /\ configHash' = [configHash EXCEPT ![s] = loaded[s]]
    /\ loaded' = [loaded EXCEPT ![s] = Absent]
    /\ UNCHANGED <<size, cache, pc, key, docs>>

Next ==
    \/ Grow
    \/ \E k \in Size : MarkExpires(k) \/ ResultExpires(k)
    \/ \E r \in Request : Start(r) \/ Get(r) \/ Poll(r) \/ Mark(r) \/ Query(r) \/ QueryFails(r) \/ Store(r)
    \/ \E s \in Server : LoadFingerprint(s) \/ SetHash(s)

\* One step of a request
Proceed(r) == Get(r) \/ Poll(r) \/ Mark(r) \/ Query(r) \/ QueryFails(r) \/ Store(r)

\* The database answers or fails; memcached answers, and drops expired marks.
Fairness == (\A k \in Size : WF_vars(MarkExpires(k))) /\ \A r \in Request : WF_vars(Proceed(r))

Spec == Init /\ [][Next]_vars /\ Fairness
-----------------------------------------------------------------------------
(* Properties *)

\* What memcached holds under a key was read after the fingerprint of the key.
CacheIsFresh == \A k \in Size : cache[k] \in Size => cache[k] >= k

\* hotUpdate() is what makes the servers see new data: a result, fetched or
\* cached by whichever server, is never older than the fingerprint that the
\* server of the request had when the request began.
AnswersAreFresh == \A r \in Request : docs[r] # Absent => docs[r] >= key[r]

\* Requests end, each of which is made once: no mark holds one up for good, not
\* even the mark of a request whose query failed.
EveryRequestEnds == <>[](\A r \in Request : pc[r] \in {"idle", "done", "failed"})
=============================================================================
