------------------------------- MODULE DataApi -------------------------------
(***************************************************************************)
(* The two ways to the documents of the databases: queries of collections  *)
(* (Queries) and calls of the blockchain API (BlockchainApi).  They share  *)
(* nothing but the documents, which neither of them writes: a behaviour    *)
(* follows one of them, over the documents of its own.                     *)
(***************************************************************************)
EXTENDS Queries

CONSTANTS Client, Episodes, MaxPage, FirstBoundary, LastBoundary

VARIABLE way    \* "queries" or "api"

VARIABLES episode, documents, reliable, call, stage, took, answers, rows, hasMore, range, todo, held

apiVars == <<episode, documents, reliable, call, stage, took, answers, rows, hasMore, range, todo, held>>
dataVars == <<way, vars, apiVars>>

Api == INSTANCE BlockchainApi WITH stored <- documents

ASSUME DataApiAssumption ==
    /\ IsFiniteSet(Client) /\ MaxPage \in Nat \ {0} /\ {FirstBoundary, LastBoundary} \subseteq Nat
    /\ \A e \in Episodes : AreDocuments(UNION {e.initially[db] \cup e.arrivals[db] : db \in 1..Databases})

\* Of the queries asked, see StatsKeepUp in Queries_proofs.
ASSUME KeysAssumption == KeysTellVerdicts

\* A way that is not followed begins in one state and stays in it.
OneStart ==
    /\ way = "queries" => episode = CHOOSE e \in Episodes : TRUE
    /\ way = "api" => slowQueries = "ENABLE" /\ stored = CHOOSE docs \in Initially : TRUE

DataInit == way \in {"queries", "api"} /\ Init /\ Api!Init /\ OneStart

FollowQueries == way = "queries" /\ Next /\ UNCHANGED <<way, apiVars>>

CallApi == way = "api" /\ Api!Next /\ UNCHANGED <<way, vars>>

DataNext == FollowQueries \/ CallApi

DataSpec == DataInit /\ [][DataNext]_dataVars
-----------------------------------------------------------------------------
(* Properties of the blockchain API; those of queries are theirs *)

\* A page of the API is the rows after its cursor, and stays so; and records are
\* joined to its rows wherever they are.
PageIsRight == Api!PageIsRight

\* Neighbours of a block are whole, and ranges of master blocks cover their time.
WholeOrNothing == Api!WholeOrNothing
=============================================================================
