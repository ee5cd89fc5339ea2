----------------------------- MODULE CachedData -----------------------------
(***************************************************************************)
(* The cache of one value in cached-data.ts, which serves the latencies of *)
(* the collections (data/latency.ts) and the last key block                *)
(* (graphql/last-key-block.ts): callers that find no value wait for one    *)
(* load, every load that ends arms a timer, and the timer starts the next. *)
(*                                                                         *)
(* A value is a version: the time it shows, for a latency, or the key      *)
(* block.  The source answers a load with the version it has when it       *)
(* executes the query.                                                     *)
(***************************************************************************)
EXTENDS Integers

CONSTANTS Caller,       \* the calls of get() that may be under way at a time
          Load,         \* the calls of loadActual() that may be under way
          MaxVersion,   \* bound on the versions of the source
          KeepNewest    \* loadActual() is that of CollectionLatencyCache

ASSUME CachedDataAssumption ==
    /\ MaxVersion \in Nat
    /\ KeepNewest \in BOOLEAN
    /\ Load # {}

NoData == -1
Version == 0..MaxVersion
Idle == -2      \* of a load: not under way
Unread == -1    \* of a load: the source has not executed the query yet

VARIABLES
    source,     \* the version the source has now
    data,       \* the cached version, or NoData
    refreshing, \* the flag of that name
    load,       \* of each load: Idle, Unread or the version it has read
    waiters,    \* the callers of refreshResolvers
    timers,     \* how many refresh timers are armed
    state       \* of each caller: "idle", "waiting", "resolved", "failed"

cachedVars == <<source, data, refreshing, load, waiters, timers, state>>

CachedTypeOK ==
    /\ source \in Version
    /\ data \in Version \cup {NoData}
    /\ refreshing \in BOOLEAN
    /\ load \in [Load -> Version \cup {Idle, Unread}]
    /\ waiters \subseteq Caller
    /\ timers \in Nat
    /\ state \in [Caller -> {"idle", "waiting", "resolved", "failed"}]

CachedInit ==
    /\ source \in Version
    /\ data = NoData /\ refreshing = FALSE
    /\ load = [l \in Load |-> Idle]
    /\ waiters = {} /\ timers = 0
    /\ state = [c \in Caller |-> "idle"]

-----------------------------------------------------------------------------

\* Mutant of StartRefresh: the flag is not looked at.
StartRefreshAlways ==
    /\ refreshing' = TRUE
    /\ \E l \in Load : load[l] = Idle /\ load' = [load EXCEPT ![l] = Unread]

\* startRefreshData(): one load at a time.
StartRefresh ==
    IF refreshing THEN UNCHANGED <<refreshing, load>>
    ELSE /\ refreshing' = TRUE
         /\ \E l \in Load : load[l] = Idle /\ load' = [load EXCEPT ![l] = Unread]

\* Mutant of CompleteRefresh: the waiters are settled by a successful load only.
CompleteRefreshDropsWaiters(outcome) ==
    /\ refreshing' = FALSE
    /\ timers' = IF timers > 0 THEN timers ELSE 1
    /\ waiters' = {}
    /\ state' = [c \in Caller |-> IF c \in waiters /\ outcome = "resolved"
                                 THEN outcome ELSE state[c]]

\* completeRefresh(): the armed timer, if any, is replaced by a new one, and
\* every waiter is settled.
CompleteRefresh(outcome) ==
    /\ refreshing' = FALSE
    /\ timers' = IF timers > 0 THEN timers ELSE 1
    /\ waiters' = {}
    /\ state' = [c \in Caller |-> IF c \in waiters THEN outcome ELSE state[c]]

\* get() of a caller: at once when there is data, else after a refresh.
GetCached(c) ==
    /\ state[c] = "idle"
    /\ IF data = NoData
       THEN /\ waiters' = waiters \cup {c}
            /\ state' = [state EXCEPT ![c] = "waiting"]
            /\ StartRefresh
       ELSE /\ state' = [state EXCEPT ![c] = "resolved"]
            /\ UNCHANGED <<waiters, refreshing, load>>
    /\ UNCHANGED <<source, data, timers>>

\* The caller has its answer and may call again.
Return(c) ==
    /\ state[c] \in {"resolved", "failed"}
    /\ state' = [state EXCEPT ![c] = "idle"]
    /\ UNCHANGED <<source, data, refreshing, load, waiters, timers>>

\* The source executes the query of a load.
Read(l) ==
    /\ load[l] = Unread
    /\ load' = [load EXCEPT ![l] = source]
    /\ UNCHANGED <<source, data, refreshing, waiters, timers, state>>

\* Mutant of Actual: an older answer replaces the cached value.
ActualAsRead(version) == version

\* What loadActual() makes of the version it read: getUpdatedLatency() keeps
\* the cached value when the answer is older.
Actual(version) == IF KeepNewest /\ version < data THEN data ELSE version

\* loadActual() resolves: update().
LoadDone(l) ==
    /\ load[l] \in Version
    /\ data' = Actual(load[l])
    /\ load' = [load EXCEPT ![l] = Idle]
    /\ CompleteRefresh("resolved")
    /\ UNCHANGED source

\* Mutant of LoadFailed: a failed load leaves no timer.
LoadFailedForGood(l) ==
    /\ load[l] # Idle
    /\ load' = [load EXCEPT ![l] = Idle]
    /\ refreshing' = FALSE /\ timers' = 0 /\ waiters' = {}
    /\ state' = [c \in Caller |-> IF c \in waiters THEN "failed" ELSE state[c]]
    /\ UNCHANGED <<source, data>>

\* loadActual() rejects.
LoadFailed(l) ==
    /\ load[l] # Idle
    /\ load' = [load EXCEPT ![l] = Idle]
    /\ CompleteRefresh("failed")
    /\ UNCHANGED <<source, data>>

\* The timer of the last completed refresh fires.
TimerFires ==
    /\ timers > 0
    /\ timers' = timers - 1
    /\ StartRefresh
    /\ UNCHANGED <<source, data, waiters, state>>

\* The source changes.  One that a replica may answer for can also go back.
ChangeSource ==
    /\ source' \in Version
    /\ source' > source \/ KeepNewest
    /\ UNCHANGED <<data, refreshing, load, waiters, timers, state>>

CachedNext ==
    \/ \E c \in Caller : GetCached(c) \/ Return(c)
    \/ \E l \in Load : Read(l) \/ LoadDone(l) \/ LoadFailed(l)
    \/ TimerFires \/ ChangeSource

\* The source answers, or the load fails; the timers fire.
CachedFairness ==
    /\ \A l \in Load : WF_cachedVars(Read(l)) /\ WF_cachedVars(LoadDone(l) \/ LoadFailed(l))
    /\ WF_cachedVars(TimerFires)

CachedSpec == CachedInit /\ [][CachedNext]_cachedVars /\ CachedFairness
-----------------------------------------------------------------------------
(* Properties *)

\* Only callers that came before the first value wait.
WaitersHaveNoData == data # NoData => waiters = {}

\* A source that never goes back: what a load has read lies between the cached
\* version and the source's own.
LoadsAreInOrder ==
    ~KeepNewest => /\ data <= source
                   /\ \A l \in Load : load[l] \in Version => data <= load[l] /\ load[l] <= source

\* At most one load is under way, and the flag says so: the callers that come
\* during a refresh and the timer that fires during one start no other.
SingleFlight ==
    /\ \A l, k \in Load : load[l] # Idle /\ load[k] # Idle => l = k
    /\ refreshing <=> \E l \in Load : load[l] # Idle

\* Whoever waits is in refreshResolvers, and waits for a load under way: no
\* caller is left to a refresh that has already ended.
NoLostWaiter ==
    /\ \A c \in Caller : state[c] = "waiting" <=> c \in waiters
    /\ waiters # {} => refreshing

\* Timers do not pile up, whoever starts the refreshes.
AtMostOneTimer == timers <= 1

\* Background refreshing never stops, not even after a failed load: once a
\* refresh is under way or scheduled, one always is.
RefreshGoesOn == [][refreshing \/ timers > 0 => refreshing' \/ timers' > 0]_cachedVars

\* The cached value never goes back: a load that read an older version does
\* not replace a newer one.
NeverOlder == [][data' >= data]_cachedVars

\* "From now Info.latency always returns last known cached latency": once a
\* value was cached no caller waits for a load or fails because of one.
ServedOnceCached ==
    [][data # NoData =>
        \A c \in Caller : state'[c] # state[c] => state'[c] \in {"idle", "resolved"}]_cachedVars
=============================================================================
