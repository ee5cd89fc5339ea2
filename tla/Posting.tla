------------------------------- MODULE Posting -------------------------------
(***************************************************************************)
(* The mutation postRequests (graphql/post-requests.ts): messages for the  *)
(* network are checked, then sent by REST, JSON-RPC, Kafka or to a lite    *)
(* server; how it went is counted by a report to StatsD, which the client  *)
(* of the mutation waits for.                                              *)
(***************************************************************************)
EXTENDS Stats, Sequences

CONSTANTS Modes,     \* requests.mode
          Batches,   \* what is posted: messages [size, expires], at least one
          MaxMessage \* requests.maxSize

Message == [size : Int, expires : BOOLEAN]
BatchesAreMessages == \A messages \in Batches : messages \in Seq(Message) /\ messages # <<>>

VARIABLES
    mode,      \* the mode of the server
    late,      \* the time at which messages with expireAt expire has passed
    producer,  \* a Kafka producer is shared
    post,      \* of each post: where it is, or how it ended
    batch,     \* of each post: its messages
    unsent,    \* of each post: the messages not yet answered
    accepted   \* of each post: the messages the service has taken

postVars == <<mode, late, producer, post, batch, unsent, accepted, statsVars>>

Sending == {"connecting", "sending"}
Counting == {"sent", "lost"}
Ended == {"refused", "posted", "failed"}

PostInit ==
    /\ StatsInit
    /\ mode \in Modes /\ late = FALSE /\ producer = FALSE
    /\ post = [r \in Reporter |-> "idle"]
    /\ batch = [r \in Reporter |-> <<>>]
    /\ unsent = [r \in Reporter |-> {}]
    /\ accepted = [r \in Reporter |-> {}]

\* Mutant of Refused: the loop ends at the first message that may be sent.
RefusedByFirst(messages) ==
    messages # <<>> /\ (messages[1].size > MaxMessage \/ (messages[1].expires /\ late))

\* checkPostRestrictions(), and the search for an expired message.
Refused(messages) ==
    \E i \in DOMAIN messages : messages[i].size > MaxMessage \/ (messages[i].expires /\ late)

\* postRequests() up to its first await: a refusal is not counted.
Post(r) ==
    /\ post[r] = "idle"
    /\ \E messages \in Batches :
          /\ batch' = [batch EXCEPT ![r] = messages]
          /\ unsent' = [unsent EXCEPT ![r] = DOMAIN messages]
          /\ post' = [post EXCEPT ![r] = IF Refused(messages) THEN "refused"
                                         ELSE IF mode = "kafka" /\ ~producer THEN "connecting" ELSE "sending"]
    /\ UNCHANGED <<mode, late, producer, accepted, statsVars>>

\* The count of posted, or of failed requests is awaited.
Counted(r, outcome) == post' = [post EXCEPT ![r] = outcome] /\ Report(r)

\* ensureShared() of the Kafka producer: posts that find none each connect one.
Connect(r) ==
    /\ post[r] = "connecting"
    /\ \/ /\ producer' = TRUE /\ post' = [post EXCEPT ![r] = "sending"]
          /\ UNCHANGED statsVars
       \/ Counted(r, "lost") /\ UNCHANGED producer
    /\ UNCHANGED <<mode, late, batch, unsent, accepted>>

\* One call for all messages, by REST or Kafka.  If it fails the service may
\* have taken none of them, or some.
SendAll(r) ==
    /\ mode \in {"rest", "kafka"} /\ post[r] = "sending"
    /\ \/ accepted' = [accepted EXCEPT ![r] = unsent[r]] /\ Counted(r, "sent")
       \/ \E some \in SUBSET unsent[r] : accepted' = [accepted EXCEPT ![r] = some] /\ Counted(r, "lost")
    /\ unsent' = [unsent EXCEPT ![r] = {}]
    /\ UNCHANGED <<mode, late, producer, batch>>

First(S) == CHOOSE i \in S : \A k \in S : i <= k

\* JSON-RPC: a call for each message, one after the other.  The call fails, with
\* an error in its answer, before or after the service has taken the message.
SendNext(r) ==
    LET i == First(unsent[r])
        rest == unsent[r] \ {i}
        Taken == accepted' = [accepted EXCEPT ![r] = @ \cup {i}]
    IN /\ mode = "jrpc" /\ post[r] = "sending"
       /\ unsent' = [unsent EXCEPT ![r] = rest]
       /\ \/ Taken /\ rest # {} /\ UNCHANGED <<post, statsVars>>
          \/ Taken /\ rest = {} /\ Counted(r, "sent")
          \/ (Taken \/ UNCHANGED accepted) /\ Counted(r, "lost")
       /\ UNCHANGED <<mode, late, producer, batch>>

\* Lite server: all messages at once.  When the first is rejected, or all are
\* taken, the post goes on as posted; others may be answered later.
SendToLiteServer(r) ==
    /\ mode = "tcpadnl"
    /\ \E i \in unsent[r], taken \in BOOLEAN :
          /\ unsent' = [unsent EXCEPT ![r] = @ \ {i}]
          /\ accepted' = IF taken THEN [accepted EXCEPT ![r] = @ \cup {i}] ELSE accepted
          /\ IF post[r] = "sending" /\ (~taken \/ unsent[r] = {i}) THEN Counted(r, "sent")
             ELSE UNCHANGED <<post, statsVars>>
    /\ post[r] # "refused"
    /\ UNCHANGED <<mode, late, producer, batch>>

\* The report has returned, and with it the client has its answer.
Answer(r) ==
    /\ post[r] \in Counting /\ report[r] = "returned"
    /\ post' = [post EXCEPT ![r] = IF @ = "sent" THEN "posted" ELSE "failed"]
    /\ UNCHANGED <<mode, late, producer, batch, unsent, accepted, statsVars>>

TimePasses == late' = TRUE /\ UNCHANGED <<mode, producer, post, batch, unsent, accepted, statsVars>>

\* One step of a post
ProceedPost(r) == Connect(r) \/ SendAll(r) \/ SendNext(r) \/ SendToLiteServer(r) \/ Answer(r)

OfStats(A) == A /\ UNCHANGED <<mode, late, producer, post, batch, unsent, accepted>>
TimeOutOf(r) == OfStats(TimeOut(r))

PostNext ==
    \/ \E r \in Reporter : Post(r) \/ ProceedPost(r)
    \/ TimePasses
    \/ OfStats(StatsNext)

\* Services answer or fail, and timers fire.
PostFairness == \A r \in Reporter : WF_postVars(ProceedPost(r)) /\ WF_postVars(TimeOutOf(r))

PostSpec == PostInit /\ [][PostNext]_postVars /\ PostFairness

-----------------------------------------------------------------------------
(* Properties *)

\* What the client is told is what happened: messages it is told are posted have
\* all been taken, and a batch that holds a message too large has been sent to
\* nobody, not even in part.  By JSON-RPC the messages taken are the first ones,
\* so that a failed post can be told where to go on.
PostedAsTold ==
    \A r \in Reporter :
        /\ post[r] \in {"sent", "posted"} /\ mode # "tcpadnl" => accepted[r] = DOMAIN batch[r]
        /\ (\E i \in DOMAIN batch[r] : batch[r][i].size > MaxMessage) => accepted[r] = {}
        /\ mode = "jrpc" => \E n \in 0..Len(batch[r]) : accepted[r] = 1..n

\* Posts end, each of which is made once, with an answer or an error: the StatsD
\* client they wait for may hang.
EveryPostEnds == <>[](\A r \in Reporter : post[r] \in Ended \cup {"idle"})
=============================================================================
