------------------------------- MODULE QServer -------------------------------
(***************************************************************************)
(* Parts of the server that keep state of their own and share nothing with *)
(* each other but the process: its start and reload (Lifecycle), posting   *)
(* with its reports (Posting), the fields a call gets from elsewhere       *)
(* (Bocs), the memcached front of a database (PrecachedCombiner) and the   *)
(* cache of one value (CachedData).  A behaviour follows one of them.      *)
(***************************************************************************)
EXTENDS PrecachedCombiner, CachedData, Posting, FiniteSets

CONSTANTS NoDatabase, Files, Environments, MaxServers, Deployments, MaxRows

VARIABLE part  \* the part that a behaviour follows

VARIABLES environment, defaults, servers, reloads, ended, overtaken

VARIABLES deployment, kept, call, rows, stage

lifecycleVars == <<environment, defaults, servers, reloads, ended, overtaken>>
fieldsVars == <<deployment, kept, call, rows, stage>>
serverVars == <<part, vars, cachedVars, lifecycleVars, postVars, fieldsVars>>

Process == INSTANCE Lifecycle
Selected == INSTANCE Bocs

\* The lists of databases that a source of parameters gives are lists.
GivesLists(params) == \A p \in DOMAIN params \cap Process!ListParams : params[p] \in Seq(Process!ToSet(params[p]))

ASSUME QServerAssumption ==
    /\ MaxServers \in Nat /\ MaxMessage \in Nat /\ MaxRows \in Nat \ {0}
    /\ IsFiniteSet(Reporter) /\ Files # {} /\ Environments # {}
    /\ \A params \in Files \cup Environments : GivesLists(params)
    /\ Modes # {} /\ Modes \subseteq {"rest", "kafka", "jrpc", "tcpadnl"}
    /\ Deployments # {}
    /\ Deployments \subseteq [archive : BOOLEAN, storage : {"none", "s3", "pattern", "arango"},
                              accounts : {"database", "rpc", "lite"}]
    /\ BatchesAreMessages

\* A part that is not followed begins in one state and stays in it.
OneStart ==
    /\ part # "precached" => size = 0 /\ configHash = [s \in Server |-> 0]
    /\ part # "latency" => source = 0
    /\ part # "lifecycle" => environment = CHOOSE e \in Environments : TRUE
    /\ part # "posting" => mode = CHOOSE m \in Modes : TRUE
    /\ part # "fields" => /\ deployment = CHOOSE d \in Deployments : TRUE
                          /\ kept = <<"nowhere">>

ServerInit ==
    /\ part \in {"lifecycle", "posting", "fields", "precached", "latency"}
    /\ Init /\ CachedInit /\ Process!Init /\ PostInit /\ Selected!Init
    /\ OneStart

FollowPrecached ==
    /\ part = "precached" /\ Next
    /\ UNCHANGED <<part, cachedVars, lifecycleVars, postVars, fieldsVars>>

FollowLatency ==
    /\ part = "latency" /\ CachedNext
    /\ UNCHANGED <<part, vars, lifecycleVars, postVars, fieldsVars>>

FollowLifecycle ==
    /\ part = "lifecycle" /\ Process!Next
    /\ UNCHANGED <<part, vars, cachedVars, postVars, fieldsVars>>

FollowPosting ==
    /\ part = "posting" /\ PostNext
    /\ UNCHANGED <<part, vars, cachedVars, lifecycleVars, fieldsVars>>

FollowFields ==
    /\ part = "fields" /\ Selected!Next
    /\ UNCHANGED <<part, vars, cachedVars, lifecycleVars, postVars>>

ServerNext == FollowPrecached \/ FollowLatency \/ FollowLifecycle \/ FollowPosting \/ FollowFields

\* The fairness of the parts asks nothing of those that are not followed: in
\* their initial states they have nothing to go on with.
ServerSpec ==
    /\ ServerInit /\ [][ServerNext]_serverVars
    /\ Fairness /\ PostFairness
-----------------------------------------------------------------------------
(* Properties of Lifecycle and Bocs; those of the others are theirs *)

\* A reload replaces the server that serves by the new one.
OneServerServes == Process!OneServerServes

\* Each collection of a started server is followed in one database it listens to.
FeedIsWhole == Process!FeedIsWhole

\* A reload takes the file as it is, as a new process would.
ReloadedAsWritten == Process!ReloadedAsWritten

\* A call has the fields it selected, whatever the archive keeps of them.
SelectedIsAnswered == Selected!SelectedIsAnswered
=============================================================================
