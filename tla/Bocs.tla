--------------------------------- MODULE Bocs ---------------------------------
(***************************************************************************)
(* Fields that a database does not hold: an archive keeps few fields of a  *)
(* document, and the others are parsed out of its BOC, which is in its row *)
(* or, for a block, in a storage of BOCs (graphql/blockchain/              *)
(* boc-parsers.ts and fetchers, data/boc-provider.ts, graphql/block-boc.ts);*)
(* accounts may come from a node (data/account-provider.ts, fetchers/      *)
(* accounts.ts).  A behaviour is one call of the blockchain API.           *)
(*                                                                         *)
(* Fields are of three kinds: "boc", those in the list of archived fields  *)
(* ("kept"), and all others ("parsed").  Selections are without fragments. *)
(***************************************************************************)
EXTENDS Integers, Sequences

CONSTANTS Deployments, \* [archive, storage, accounts]: what a configuration may give
          MaxRows      \* bound on the rows a query finds

Fields == {"boc", "kept", "parsed"}

VARIABLES
    deployment, \* what the configuration gives
    kept,       \* of each row a query finds: where its BOC is
    call,       \* the call, and how it ends
    rows,       \* the rows: which fields they have, and whether the BOC is an URL
    stage       \* what the call awaits

bocsVars == <<deployment, kept, call, rows, stage>>

Init ==
    /\ deployment \in Deployments
    /\ kept \in UNION {[1..n -> {"row", "storage", "nowhere"}] : n \in 1..MaxRows}
    /\ call = [of |-> "none"]
    /\ rows = <<>>
    /\ stage = "none"

Stored == deployment.storage # "none"
UseArchive == call.archive /\ deployment.archive
SelectsOthers == "parsed" \in call.selected

CallRows ==
    /\ call.of = "none"
    /\ \E of \in {"blocks", "transactions"}, archive \in BOOLEAN, selected \in (SUBSET Fields) \ {{}} :
          call' = [of |-> of, archive |-> archive, selected |-> selected, end |-> "no"]
    /\ stage' = "query"
    /\ UNCHANGED <<deployment, kept, rows>>

Fail == call' = [call EXCEPT !.end = "failed"]
Respond == call' = [call EXCEPT !.end = "answered"]

-----------------------------------------------------------------------------
(* Blocks, transactions and messages; these two are treated alike *)

\* Mutant of Queried: the BOC is parsed if it was selected.
QueriedAsSelected == call.selected

\* upgradeSelectionForBocParsing(): the BOC is queried with the rows it is to be
\* parsed for, but for blocks, whose BOC is asked of the storage.
Queried ==
    IF call.of = "transactions" /\ UseArchive /\ SelectsOthers THEN call.selected \cup {"boc"} ELSE call.selected

RequireBocParsing == UseArchive /\ SelectsOthers

\* getBlocksPostProcessing()
ResolveBocs == call.of = "blocks" /\ UseArchive /\ (SelectsOthers \/ (Stored /\ "boc" \in call.selected))

\* The fields that the database has of a row.
InDatabase(i) ==
    (IF UseArchive THEN {"kept"} ELSE {"kept", "parsed"}) \cup (IF kept[i] = "row" THEN {"boc"} ELSE {})

\* The stages after a stage, by the order of the awaits.
Proceed(from) ==
    LET to == IF from = "query" /\ ResolveBocs /\ Stored THEN "bocs"
              ELSE IF from \in {"query", "bocs"} /\ RequireBocParsing THEN "parse" ELSE "fields"
    IN stage' = to

QueryRows ==
    /\ stage = "query"
    /\ \/ /\ rows' = [i \in DOMAIN kept |-> [fields |-> Queried \cap InDatabase(i), url |-> FALSE, error |-> FALSE]]
          /\ Proceed("query") /\ UNCHANGED call
       \/ Fail /\ stage' = "none" /\ UNCHANGED rows
    /\ UNCHANGED <<deployment, kept>>

WithBoc(row, url) == [row EXCEPT !.fields = @ \cup {"boc"}, !.url = url]

\* getBocs() has the BOC of a row, or in place of it an URL.
Found(i) == deployment.storage = "pattern" \/ (Stored /\ kept[i] = "storage")
Fetched(i) == IF Found(i) THEN WithBoc(rows[i], deployment.storage = "pattern") ELSE rows[i]

\* postProcessBlocks(): the BOCs of all rows.  S3 fails for an object it does not have.
GetBocs ==
    /\ stage = "bocs"
    /\ \/ /\ deployment.storage = "s3" => \A i \in DOMAIN rows : Found(i)
          /\ rows' = [i \in DOMAIN rows |-> Fetched(i)]
          /\ Proceed("bocs") /\ UNCHANGED call
       \/ Fail /\ stage' = "none" /\ UNCHANGED rows
    /\ UNCHANGED <<deployment, kept>>

\* parseBocs(): what has no BOC stays as it is; an URL is no BOC.
ParseBocs ==
    /\ stage = "parse"
    /\ IF \E row \in {rows[i] : i \in DOMAIN rows} : "boc" \in row.fields /\ row.url
       THEN Fail /\ stage' = "none" /\ UNCHANGED rows
       ELSE /\ rows' = [i \in DOMAIN rows |->
                           IF "boc" \in rows[i].fields THEN [rows[i] EXCEPT !.fields = Fields] ELSE rows[i]]
            /\ Proceed("parse") /\ UNCHANGED call
    /\ UNCHANGED <<deployment, kept>>

\* blockBocResolvers: the resolver of the field asks the storage for the BOC of a
\* block that has none, archived or not; its error is told with the answer.
Lacking ==
    IF call.of = "blocks" /\ Stored /\ "boc" \in call.selected
    THEN {i \in DOMAIN rows : "boc" \notin rows[i].fields} ELSE {}

AnswerRows ==
    /\ stage = "fields"
    /\ \E failing \in SUBSET Lacking :
          /\ deployment.storage = "s3" => {i \in Lacking : ~Found(i)} \subseteq failing
          /\ deployment.storage = "pattern" => failing = {}
          /\ rows' = [i \in DOMAIN rows |->
                         IF i \in failing THEN [rows[i] EXCEPT !.error = TRUE]
                         ELSE IF i \in Lacking THEN Fetched(i) ELSE rows[i]]
    /\ Respond /\ stage' = "none"
    /\ UNCHANGED <<deployment, kept>>

-----------------------------------------------------------------------------
(* Accounts.  "code" stands for the fields code and data, "meta" for all but *)
(* these and the BOC.                                                        *)

AccountFields == {"boc", "code", "meta"}

CallAccount ==
    /\ call.of = "none"
    /\ \E exists, byBlock \in BOOLEAN, selected \in (SUBSET AccountFields) \ {{}} :
          call' = [of |-> "account", exists |-> exists, byBlock |-> byBlock, selected |-> selected, end |-> "no"]
    /\ stage' = "account"
    /\ UNCHANGED <<deployment, kept, rows>>

\* queryAccountProvider(): the fields it makes of the BOC, or of the metadata
\* that an RPC node gives or that are parsed of the state a lite server gives.
Provided ==
    CASE call.selected = {"boc"} -> {"boc"}
      [] call.selected = {"meta"} /\ deployment.accounts = "rpc" -> {"meta"}
      [] OTHER -> AccountFields

\* resolve_account(): a lite server is asked for the last state, whatever block
\* is given; an account that is not found is answered as one that does not exist.
AnswerAccount ==
    /\ stage = "account"
    /\ \/ /\ deployment.accounts = "database" => ~call.byBlock
          /\ rows' = <<[exists |-> call.exists,
                        byBlock |-> deployment.accounts = "rpc" /\ call.byBlock,
                        fields |-> IF deployment.accounts = "database" THEN call.selected ELSE Provided]>>
          /\ Respond
       \/ Fail /\ UNCHANGED rows
    /\ stage' = "none"
    /\ UNCHANGED <<deployment, kept>>

Next ==
    \/ CallRows \/ QueryRows \/ GetBocs \/ ParseBocs \/ AnswerRows
    \/ CallAccount \/ AnswerAccount

-----------------------------------------------------------------------------
(* Property *)

\* Where the BOC of an answered row can be had: the BOCs of archived blocks are
\* in the storage, which checkConfig() means to require of an archive.
HasBoc(i) == IF call.of = "blocks" /\ UseArchive THEN kept[i] = "storage" /\ Stored ELSE kept[i] = "row"

\* A call that is answered has every selected field of every row whose BOC can be
\* had, whatever the archive keeps of it, or tells an error.  An account has what
\* was selected however it was asked for, and a node that can tell an earlier
\* state of it is asked for that.
SelectedIsAnswered ==
    call.of # "none" /\ call.end = "answered" =>
        IF call.of = "account"
        THEN /\ rows[1].exists = call.exists
             /\ call.exists => call.selected \subseteq rows[1].fields
             /\ deployment.accounts # "lite" => rows[1].byBlock = call.byBlock
        ELSE \A i \in DOMAIN rows : HasBoc(i) => call.selected \subseteq rows[i].fields \/ rows[i].error
=============================================================================
