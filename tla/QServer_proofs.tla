----------------------------- MODULE QServer_proofs -----------------------------
(***************************************************************************)
(* Proofs about the parts of QServer: Posting with the reports it makes    *)
(* (Stats), for any posts, batches and modes; the servers of a process and *)
(* the databases they follow (Lifecycle, Providers, Configuration), for    *)
(* any configurations and signals; the fields of archived rows (Bocs), for *)
(* any deployment; values cached for a time (CachedData), for any callers  *)
(* and source; the memcached front of a database (PrecachedCombiner), for  *)
(* any servers and requests.                                               *)
(***************************************************************************)
EXTENDS QServer, Loops, TLAPS, FiniteSetTheorems, WellFoundedInduction

-----------------------------------------------------------------------------
(* The StatsD client *)

\* One socket, and a number for every client, so that a new one is none of the old.
Clients == [made : Nat, impl : Nat, open : SUBSET Nat]
IsWell(c) == c \in Clients /\ c.impl <= c.made /\ c.open = {c.impl} \ {NoImpl}

\* dropImpl() and ensureImpl() keep a client so.
LEMMA Dropped ==
    ASSUME NEW c, IsWell(c)
    PROVE  IsWell(DropImpl(c))
  <1>1. c.made \in Nat /\ c.open \ {c.impl} = {}
    BY DEF IsWell, Clients
  <1>2. DropImpl(c) = [made |-> c.made, impl |-> NoImpl, open |-> {}]
    BY <1>1 DEF DropImpl
  <1> QED
    BY <1>1, <1>2 DEF IsWell, Clients, NoImpl

\* ensureImpl() leaves a client with one socket, that of its number.
LEMMA Ensured ==
    ASSUME NEW c, IsWell(c)
    PROVE  IsWell(EnsureImpl(c))
  <1>1. CASE c.impl # NoImpl
    BY <1>1 DEF EnsureImpl
  <1>2. CASE c.impl = NoImpl
    <2>1. EnsureImpl(c) = [made |-> c.made + 1, impl |-> c.made + 1, open |-> c.open \cup {c.made + 1}]
      BY <1>2 DEF EnsureImpl
    <2>2. c.made + 1 \in Nat /\ c.made + 1 # NoImpl /\ c.open = {}
      BY <1>2 DEF IsWell, Clients, NoImpl
    <2> QED
      BY <2>1, <2>2 DEF IsWell, Clients
  <1> QED
    BY <1>1, <1>2

\* The client after a report is begun.
LEMMA Reported ==
    ASSUME NEW r \in Reporter, IsWell(client), Report(r)
    PROVE  IsWell(client')
  <1> DEFINE before == IF resetDue THEN DropImpl(client) ELSE client
             c == EnsureImpl(before)
  <1>1. IsWell(before)
    BY Dropped
  <1>2. IsWell(c)
    BY <1>1, Ensured
  <1>3. client' = c \/ client' = DropImpl(c)
    BY DEF Report
  <1> HIDE DEF c
  <1> QED
    BY <1>2, <1>3, Dropped

\* Every other step leaves it or drops it.
LEMMA StatsKeep ==
    ASSUME IsWell(client), StatsNext \/ UNCHANGED statsVars
    PROVE  IsWell(client')
  <1>1. client' = client \/ client' = DropImpl(client)
    BY DEF StatsNext, Called, CalledLate, TimeOut, SocketError, ResetIsDue, statsVars
  <1> QED
    BY <1>1, Dropped

-----------------------------------------------------------------------------
(* Posts *)

Stages == {"idle", "refused", "connecting", "sending", "sent", "lost", "posted", "failed"}
TooLarge(r) == \E i \in DOMAIN batch[r] : batch[r][i].size > MaxMessage

PostTypeOK ==
    /\ post \in [Reporter -> Stages]
    /\ batch \in [Reporter -> Seq(Message)]
    /\ unsent \in [Reporter -> SUBSET Nat]
    /\ accepted \in [Reporter -> SUBSET Nat]

\* What has become of the messages of a post.  JSON-RPC sends them in their
\* order, so that a number tells those taken from those to be sent.
Accounted(r) ==
    /\ post[r] = "idle" => batch[r] = <<>> /\ unsent[r] = {}
    /\ post[r] \in {"idle", "refused", "connecting"} => accepted[r] = {}
    /\ post[r] \notin {"idle", "refused"} => ~TooLarge(r)
    /\ post[r] = "connecting" => unsent[r] = DOMAIN batch[r] /\ mode = "kafka"
    /\ post[r] = "sending" /\ mode \notin {"jrpc", "tcpadnl"} => unsent[r] = DOMAIN batch[r]
    /\ post[r] = "sending" /\ mode = "jrpc" =>
          \E n \in 0..(Len(batch[r]) - 1) : accepted[r] = 1..n /\ unsent[r] = (n + 1)..Len(batch[r])
    /\ post[r] \in {"sent", "posted"} /\ mode # "tcpadnl" => accepted[r] = DOMAIN batch[r]
    /\ mode = "jrpc" => \E n \in 0..Len(batch[r]) : accepted[r] = 1..n

PostInv == IsWell(client) /\ PostTypeOK /\ \A r \in Reporter : Accounted(r)

\* Posts have not begun at first.
LEMMA InitPostInv == PostInit => PostInv
  <1> SUFFICES ASSUME PostInit PROVE PostInv
    OBVIOUS
  <1>1. IsWell(client)
    BY DEF PostInit, StatsInit, IsWell, Clients, NoImpl
  <1>2. PostTypeOK
    BY DEF PostInit, PostTypeOK, Stages
  <1>3. ASSUME NEW r \in Reporter PROVE Accounted(r)
    <2>1. post[r] = "idle" /\ batch[r] = <<>> /\ unsent[r] = {} /\ accepted[r] = {}
      BY DEF PostInit
    <2>2. 0 \in 0..Len(batch[r]) /\ 1..0 = {}
      BY <2>1
    <2> QED
      BY <2>1, <2>2 DEF Accounted
  <1> QED
    BY <1>1, <1>2, <1>3 DEF PostInv

\* A step that leaves a post and the mode alone leaves its account.
LEMMA Untouched ==
    ASSUME NEW r \in Reporter, Accounted(r),
           UNCHANGED <<mode, post[r], batch[r], unsent[r], accepted[r]>>
    PROVE  Accounted(r)'
  BY DEF Accounted, TooLarge

\* A post begins with nothing sent.
LEMMA PostKeeps ==
    ASSUME BatchesAreMessages, PostInv, NEW r \in Reporter, Post(r)
    PROVE  PostInv'
  <1> PICK messages \in Batches :
          /\ batch' = [batch EXCEPT ![r] = messages]
          /\ unsent' = [unsent EXCEPT ![r] = DOMAIN messages]
          /\ post' = [post EXCEPT ![r] = IF Refused(messages) THEN "refused"
                                         ELSE IF mode = "kafka" /\ ~producer THEN "connecting" ELSE "sending"]
    BY DEF Post
  <1>1. post[r] = "idle" /\ mode' = mode /\ accepted' = accepted /\ client' = client
    BY DEF Post, statsVars
  <1>2. messages \in Seq(Message) /\ messages # <<>> /\ DOMAIN messages = 1..Len(messages) /\ Len(messages) \in Nat \ {0}
    BY DEF BatchesAreMessages
  <1>3. PostTypeOK'
    BY <1>1, <1>2 DEF PostInv, PostTypeOK, Stages
  <1>4. ASSUME NEW q \in Reporter, q # r PROVE Accounted(q)'
    BY <1>1, <1>4, Untouched DEF PostInv, PostTypeOK
  <1>5. Accounted(r)'
    <2>1. batch'[r] = messages /\ unsent'[r] = DOMAIN messages /\ accepted'[r] = {}
      BY <1>1 DEF PostInv, PostTypeOK, Accounted
    <2>2. \/ post'[r] = "refused"
          \/ post'[r] = "connecting" /\ mode = "kafka" /\ ~Refused(messages)
          \/ post'[r] = "sending" /\ ~Refused(messages)
      BY DEF PostInv, PostTypeOK
    <2>3. ~Refused(messages) => ~TooLarge(r)'
      BY <2>1 DEF Refused, TooLarge
    <2>4. 0 \in 0..(Len(messages) - 1) /\ 0 \in 0..Len(messages) /\ 1..0 = {} /\ 0 + 1 = 1
      BY <1>2
    <2> QED
      BY <1>1, <1>2, <2>1, <2>2, <2>3, <2>4 DEF Accounted
  <1> QED
    BY <1>1, <1>3, <1>4, <1>5 DEF PostInv

\* The rest of a step of a post that ends with the count of its outcome.
LEMMA CountedKeeps ==
    ASSUME PostInv, NEW r \in Reporter, NEW outcome, Counted(r, outcome)
    PROVE  /\ IsWell(client)' /\ post' = [post EXCEPT ![r] = outcome]
           /\ outcome \in Stages => post'[r] = outcome /\ post' \in [Reporter -> Stages]
  BY Reported DEF PostInv, Counted, PostTypeOK, IsWell

\* A step of one post, which changes nothing but its own messages.
LEMMA OthersKept ==
    ASSUME PostInv, NEW r \in Reporter, mode' = mode, batch' = batch,
           IsWell(client)', PostTypeOK', Accounted(r)',
           \A q \in Reporter \ {r} : post'[q] = post[q] /\ unsent'[q] = unsent[q] /\ accepted'[q] = accepted[q]
    PROVE  PostInv'
  <1>1. ASSUME NEW q \in Reporter, q # r PROVE Accounted(q)'
    BY <1>1, Untouched DEF PostInv
  <1> QED
    BY <1>1 DEF PostInv

\* Connecting sends nothing.
LEMMA ConnectKeeps ==
    ASSUME PostInv, NEW r \in Reporter, Connect(r)
    PROVE  PostInv'
  <1>1. post[r] = "connecting" /\ UNCHANGED <<mode, batch, unsent, accepted>>
    BY DEF Connect
  <1>2. /\ IsWell(client)'
        /\ \E outcome \in {"sending", "lost"} : post' = [post EXCEPT ![r] = outcome]
    <2>1. CASE Counted(r, "lost")
      BY <2>1, CountedKeeps
    <2>2. CASE post' = [post EXCEPT ![r] = "sending"] /\ UNCHANGED statsVars
      BY <2>2 DEF PostInv, statsVars, IsWell
    <2> QED
      BY <2>1, <2>2 DEF Connect
  <1>3. PostTypeOK'
    BY <1>1, <1>2 DEF PostInv, PostTypeOK, Stages
  <1>4. Accounted(r)'
    BY <1>1, <1>2 DEF PostInv, PostTypeOK, Accounted, TooLarge
  <1> QED
    BY <1>1, <1>2, <1>3, <1>4, OthersKept DEF PostInv, PostTypeOK

\* All messages of a batch are sent at once.
LEMMA SendAllKeeps ==
    ASSUME PostInv, NEW r \in Reporter, SendAll(r)
    PROVE  PostInv'
  <1>1. /\ mode \in {"rest", "kafka"} /\ post[r] = "sending" /\ UNCHANGED <<mode, batch>>
        /\ unsent' = [unsent EXCEPT ![r] = {}] /\ unsent[r] = DOMAIN batch[r]
    BY DEF SendAll, PostInv, Accounted
  <1>2. /\ IsWell(client)'
        /\ \E taken \in SUBSET unsent[r], outcome \in {"sent", "lost"} :
              /\ accepted' = [accepted EXCEPT ![r] = taken]
              /\ post' = [post EXCEPT ![r] = outcome]
              /\ outcome = "sent" => taken = unsent[r]
    <2>1. CASE accepted' = [accepted EXCEPT ![r] = unsent[r]] /\ Counted(r, "sent")
      BY <2>1, CountedKeeps
    <2>2. CASE \E some \in SUBSET unsent[r] : accepted' = [accepted EXCEPT ![r] = some] /\ Counted(r, "lost")
      BY <2>2, CountedKeeps
    <2> QED
      BY <2>1, <2>2 DEF SendAll
  <1>3. PostTypeOK'
    BY <1>1, <1>2 DEF PostInv, PostTypeOK, Stages
  <1>4. Accounted(r)'
    BY <1>1, <1>2 DEF PostInv, PostTypeOK, Accounted, TooLarge
  <1> QED
    BY <1>1, <1>2, <1>3, <1>4, OthersKept DEF PostInv, PostTypeOK

\* The first message that is left is the next.
LEMMA FirstIsNext ==
    ASSUME NEW n \in Nat, NEW m \in Nat, n < m
    PROVE  First((n + 1)..m) = n + 1
  <1>1. \A i \in (n + 1)..m : (\A k \in (n + 1)..m : i <= k) <=> i = n + 1
    OBVIOUS
  <1> QED
    BY <1>1 DEF First

\* Messages are sent one by one, in their order.
LEMMA SendNextKeeps ==
    ASSUME PostInv, NEW r \in Reporter, SendNext(r)
    PROVE  PostInv'
  <1> DEFINE i == First(unsent[r])
             rest == unsent[r] \ {i}
  <1>1. mode = "jrpc" /\ post[r] = "sending" /\ UNCHANGED <<mode, batch>> /\ unsent' = [unsent EXCEPT ![r] = rest]
    BY DEF SendNext
  <1>2. PICK n \in 0..(Len(batch[r]) - 1) : accepted[r] = 1..n /\ unsent[r] = (n + 1)..Len(batch[r])
    BY <1>1 DEF PostInv, Accounted
  <1>3. Len(batch[r]) \in Nat /\ DOMAIN batch[r] = 1..Len(batch[r])
    BY DEF PostInv, PostTypeOK
  <1>4. i = n + 1
    BY <1>2, <1>3, FirstIsNext
  <1>5. rest = (n + 2)..Len(batch[r]) /\ accepted[r] \cup {i} = 1..(n + 1)
    BY <1>2, <1>3, <1>4
  <1>6. /\ IsWell(client)'
        /\ \E taken \in {1..n, 1..(n + 1)}, outcome \in {"sending", "sent", "lost"} :
              /\ accepted' = [accepted EXCEPT ![r] = taken]
              /\ post' = [post EXCEPT ![r] = outcome]
              /\ outcome = "sending" => taken = 1..(n + 1) /\ rest # {}
              /\ outcome = "sent" => taken = 1..(n + 1) /\ rest = {}
    <2> DEFINE Taken == accepted' = [accepted EXCEPT ![r] = @ \cup {i}]
    <2>0. /\ Taken => accepted' = [accepted EXCEPT ![r] = 1..(n + 1)]
          /\ UNCHANGED accepted => accepted' = [accepted EXCEPT ![r] = 1..n]
      BY <1>2, <1>5 DEF PostInv, PostTypeOK
    <2>1. CASE Taken /\ rest # {} /\ UNCHANGED <<post, statsVars>>
      <3>1. post' = [post EXCEPT ![r] = "sending"] /\ client' = client
        BY <1>1, <2>1 DEF PostInv, PostTypeOK, statsVars
      <3> QED
        BY <2>0, <2>1, <3>1 DEF PostInv, IsWell
    <2>2. CASE Taken /\ rest = {} /\ Counted(r, "sent")
      BY <2>0, <2>2, CountedKeeps
    <2>3. CASE (Taken \/ UNCHANGED accepted) /\ Counted(r, "lost")
      BY <2>0, <2>3, CountedKeeps
    <2> QED
      BY <2>1, <2>2, <2>3 DEF SendNext
  <1> HIDE DEF i, rest
  <1>7. PostTypeOK'
    <2>1. 1..n \in SUBSET Nat /\ 1..(n + 1) \in SUBSET Nat /\ rest \in SUBSET Nat
      BY <1>2, <1>3, <1>5
    <2> QED
      BY <1>1, <1>6, <2>1 DEF PostInv, PostTypeOK, Stages
  <1>8. Accounted(r)'
    <2>1. PICK taken \in {1..n, 1..(n + 1)}, outcome \in {"sending", "sent", "lost"} :
              /\ accepted'[r] = taken /\ post'[r] = outcome
              /\ outcome = "sending" => taken = 1..(n + 1) /\ rest # {}
              /\ outcome = "sent" => taken = 1..(n + 1) /\ rest = {}
      BY <1>6 DEF PostInv, PostTypeOK
    <2>2. batch'[r] = batch[r] /\ unsent'[r] = rest /\ mode' = "jrpc"
      BY <1>1 DEF PostInv, PostTypeOK
    <2>3. ~TooLarge(r)'
      BY <1>1, <2>2 DEF PostInv, Accounted, TooLarge
    <2>4. n \in 0..Len(batch[r]) /\ n + 1 \in 0..Len(batch[r])
      BY <1>2, <1>3
    <2>5. rest # {} => n + 1 \in 0..(Len(batch[r]) - 1) /\ rest = ((n + 1) + 1)..Len(batch[r])
      BY <1>2, <1>3, <1>5
    <2>6. rest = {} => n + 1 = Len(batch[r])
      BY <1>2, <1>3, <1>5
    <2> QED
      BY <1>3, <2>1, <2>2, <2>3, <2>4, <2>5, <2>6 DEF Accounted
  <1> QED
    BY <1>1, <1>6, <1>7, <1>8, OthersKept DEF PostInv, PostTypeOK

\* Answers of a lite server come while the post is sent, or after it.
LEMMA SendToLiteServerKeeps ==
    ASSUME PostInv, NEW r \in Reporter, SendToLiteServer(r)
    PROVE  PostInv'
  <1> PICK i \in unsent[r], taken \in BOOLEAN :
          /\ unsent' = [unsent EXCEPT ![r] = @ \ {i}]
          /\ accepted' = IF taken THEN [accepted EXCEPT ![r] = @ \cup {i}] ELSE accepted
          /\ IF post[r] = "sending" /\ (~taken \/ unsent[r] = {i}) THEN Counted(r, "sent")
             ELSE UNCHANGED <<post, statsVars>>
    BY DEF SendToLiteServer
  <1>1. /\ mode = "tcpadnl" /\ UNCHANGED <<mode, batch>>
        /\ post[r] \notin {"idle", "refused", "connecting"}
    BY DEF SendToLiteServer, PostInv, Accounted
  <1>2. /\ IsWell(client)'
        /\ \E outcome \in {"sent", post[r]} : post' = [post EXCEPT ![r] = outcome]
    <2>1. CASE Counted(r, "sent")
      BY <2>1, CountedKeeps
    <2>2. CASE UNCHANGED <<post, statsVars>>
      BY <2>2 DEF PostInv, PostTypeOK, statsVars, IsWell
    <2> QED
      BY <2>1, <2>2
  <1>3. PostTypeOK'
    BY <1>1, <1>2 DEF PostInv, PostTypeOK, Stages
  <1>4. Accounted(r)'
    <2>1. post'[r] \notin {"idle", "refused", "connecting"} /\ mode' = "tcpadnl" /\ batch'[r] = batch[r]
      BY <1>1, <1>2 DEF PostInv, PostTypeOK
    <2> QED
      BY <1>1, <2>1 DEF PostInv, Accounted, TooLarge
  <1> QED
    BY <1>1, <1>2, <1>3, <1>4, OthersKept DEF PostInv, PostTypeOK

\* An answer is of what was sent.
LEMMA AnswerKeeps ==
    ASSUME PostInv, NEW r \in Reporter, Answer(r)
    PROVE  PostInv'
  <1>1. /\ post[r] \in {"sent", "lost"}
        /\ post' = [post EXCEPT ![r] = IF post[r] = "sent" THEN "posted" ELSE "failed"]
        /\ UNCHANGED <<mode, batch, unsent, accepted, client>>
    BY DEF Answer, Counting, statsVars
  <1>2. PostTypeOK' /\ IsWell(client)'
    BY <1>1 DEF PostInv, PostTypeOK, Stages, IsWell
  <1>3. Accounted(r)'
    BY <1>1 DEF PostInv, PostTypeOK, Accounted, TooLarge
  <1> QED
    BY <1>1, <1>2, <1>3, OthersKept DEF PostInv, PostTypeOK

\* Nothing of a post changes.
LEMMA PostsKept ==
    ASSUME PostInv, UNCHANGED <<mode, post, batch, unsent, accepted>>, IsWell(client)'
    PROVE  PostInv'
  BY Untouched DEF PostInv, PostTypeOK

\* Every step keeps the invariant of posts.
LEMMA NextPostInv ==
    ASSUME BatchesAreMessages, PostInv, [PostNext]_postVars
    PROVE  PostInv'
  <1>1. ASSUME NEW r \in Reporter, Post(r) PROVE PostInv'
    BY <1>1, PostKeeps
  <1>2. ASSUME NEW r \in Reporter, ProceedPost(r) PROVE PostInv'
    BY <1>2, ConnectKeeps, SendAllKeeps, SendNextKeeps, SendToLiteServerKeeps, AnswerKeeps DEF ProceedPost
  <1>3. CASE TimePasses \/ UNCHANGED postVars
    <2>1. UNCHANGED <<mode, post, batch, unsent, accepted, client>>
      BY <1>3 DEF TimePasses, postVars, statsVars
    <2> QED
      BY <2>1, PostsKept DEF PostInv, IsWell
  <1>4. CASE OfStats(StatsNext)
    BY <1>4, StatsKeep, PostsKept DEF PostInv, OfStats
  <1> QED
    BY <1>1, <1>2, <1>3, <1>4 DEF PostNext

\* It holds in every state.
LEMMA SpecPostInv == BatchesAreMessages /\ PostSpec => []PostInv
  <1>1. BatchesAreMessages /\ PostInv /\ [PostNext]_postVars => PostInv'
    BY NextPostInv
  <1>2. CASE BatchesAreMessages
    BY <1>1, <1>2, InitPostInv, PTL DEF PostSpec
  <1>3. CASE ~BatchesAreMessages
    BY <1>3
  <1> QED
    BY <1>2, <1>3

-----------------------------------------------------------------------------
(* Theorems *)

\* The variables of a post keep their types, however it is sent.
THEOREM TypeCorrect == BatchesAreMessages /\ PostSpec => []PostTypeOK
  <1>1. PostInv => PostTypeOK
    BY DEF PostInv
  <1> QED
    BY <1>1, SpecPostInv, PTL

\* The StatsD client that reports go to has its socket open, and no other socket
\* is left open, whatever hangs, fails or answers late.
THEOREM SocketIsOne == BatchesAreMessages /\ PostSpec => []OneSocket
  <1>1. PostInv => OneSocket
    BY DEF PostInv, IsWell, OneSocket
  <1> QED
    BY <1>1, SpecPostInv, PTL

\* What the client is told of a post is what has happened to its messages.
THEOREM ToldIsTrue == BatchesAreMessages /\ PostSpec => []PostedAsTold
  <1>1. PostInv => PostedAsTold
    <2> SUFFICES ASSUME PostInv, NEW r \in Reporter
                 PROVE  /\ post[r] \in {"sent", "posted"} /\ mode # "tcpadnl" => accepted[r] = DOMAIN batch[r]
                        /\ (\E i \in DOMAIN batch[r] : batch[r][i].size > MaxMessage) => accepted[r] = {}
                        /\ mode = "jrpc" => \E n \in 0..Len(batch[r]) : accepted[r] = 1..n
      BY DEF PostedAsTold
    <2> QED
      BY DEF PostInv, Accounted, TooLarge
  <1> QED
    BY <1>1, SpecPostInv, PTL

-----------------------------------------------------------------------------
(* The servers of a process *)

\* What is said of the ports.
PortsAre(all) ==
    /\ \E S : all \in Seq(S)
    /\ \A i \in 1..Len(all) : "port" \in DOMAIN all[i] /\ all[i].port \in {"none", "open", "closed"}
    /\ \A i, j \in 1..Len(all) : all[i].port = "open" /\ all[j].port = "open" => i = j

\* While no signal is handled, the port of the last server is not closed; and
\* unless a signal came during a start, no other server has one, nor has the last
\* one while it is replaced.  So only a server that was overtaken can find the
\* port taken.
ProcessInv ==
    /\ PortsAre(servers)
    /\ reloads \in {0, 1} /\ (reloads = 1 => Len(servers) > 0)
    /\ ended = "no" /\ reloads = 0 /\ Len(servers) > 0 => servers[Len(servers)].port # "closed"
    /\ overtaken \/ \A i \in 1..Len(servers) : servers[i].port = "closed" \/ (i = Len(servers) /\ reloads = 0)
    /\ ended \in {"no", "configuration", "start"} \/ overtaken

\* No server is made at first.
LEMMA InitProcessInv == Process!Init => ProcessInv
  <1> SUFFICES ASSUME Process!Init PROVE ProcessInv
    OBVIOUS
  <1>1. servers \in Seq({}) /\ Len(servers) = 0 /\ reloads = 0 /\ ended = "no"
    BY DEF Process!Init
  <1>2. 1..0 = {}
    OBVIOUS
  <1> QED
    BY <1>1, <1>2 DEF ProcessInv, PortsAre

\* main() adds a server that starts, or ends the process.
LEMMA MainKeeps ==
    ASSUME ProcessInv, ended = "no", Process!Main, reloads' = 0, UNCHANGED overtaken,
           Len(servers) = 0 \/ reloads = 1
    PROVE  ProcessInv'
  <1>1. CASE ended' = "configuration" /\ UNCHANGED servers
    BY <1>1 DEF ProcessInv
  <1>2. ASSUME NEW s, servers' = Append(servers, s), "port" \in DOMAIN s, s.port = "none", UNCHANGED ended
        PROVE  ProcessInv'
    <2>1. PICK S : servers \in Seq(S)
      BY DEF ProcessInv, PortsAre
    <2> DEFINE n == Len(servers)
    <2>2. n \in Nat /\ servers \in Seq(S \cup {s}) /\ s \in S \cup {s}
      BY <2>1
    <2>3. /\ servers' \in Seq(S \cup {s}) /\ Len(servers') = n + 1 /\ servers'[n + 1] = s
          /\ \A i \in 1..n : servers'[i] = servers[i]
      BY <1>2, <2>2
    <2>4. \A i \in 1..(n + 1) : i = n + 1 \/ i \in 1..n
      BY <2>2
    <2>5. PortsAre(servers')
      <3>1. \A i \in 1..(n + 1) :
               "port" \in DOMAIN servers'[i] /\ servers'[i].port \in {"none", "open", "closed"}
        BY <1>2, <2>3, <2>4 DEF ProcessInv, PortsAre
      <3>2. \A i, j \in 1..(n + 1) : servers'[i].port = "open" /\ servers'[j].port = "open" => i = j
        BY <1>2, <2>3, <2>4 DEF ProcessInv, PortsAre
      <3> QED
        BY <2>3, <3>1, <3>2 DEF PortsAre
    <2>6. overtaken \/ \A i \in 1..n : servers[i].port = "closed"
      BY DEF ProcessInv
    <2>7. overtaken' \/ \A i \in 1..Len(servers') :
                           servers'[i].port = "closed" \/ (i = Len(servers') /\ reloads' = 0)
      BY <2>3, <2>4, <2>6
    <2>8. Len(servers') > 0 /\ servers'[Len(servers')].port # "closed"
      BY <1>2, <2>2, <2>3
    <2> QED
      BY <1>2, <2>5, <2>7, <2>8 DEF ProcessInv
  <1>3. \/ ended' = "configuration" /\ UNCHANGED servers
        \/ \E file, c : servers' = Append(servers, Process!TONQServer(file, c)) /\ UNCHANGED ended
    BY DEF Process!Main, Process!End
  <1>4. \A file, c : "port" \in DOMAIN Process!TONQServer(file, c) /\ Process!TONQServer(file, c).port = "none"
    BY DEF Process!TONQServer
  <1> QED
    BY <1>1, <1>2, <1>3, <1>4

\* What a step does to one server and to no other.
LEMMA OneServer ==
    ASSUME ProcessInv, NEW i \in 1..Len(servers), NEW r, servers' = [servers EXCEPT ![i] = r]
    PROVE  /\ \E S : servers' \in Seq(S)
           /\ Len(servers') = Len(servers) /\ servers'[i] = r
           /\ \A k \in 1..Len(servers) : k # i => servers'[k] = servers[k]
  <1>1. PICK S : servers \in Seq(S)
    BY DEF ProcessInv, PortsAre
  <1>2. servers \in Seq(S \cup {r}) /\ r \in S \cup {r}
    BY <1>1
  <1> QED
    BY <1>2

\* A start goes on, or fails, which ends the process: the ports stay.
LEMMA StartKeeps ==
    ASSUME ProcessInv, NEW i \in 1..Len(servers), ended = "no",
           Process!StartProvider(i) \/ Process!StartSlowProvider(i)
    PROVE  ProcessInv'
  <1>1. UNCHANGED <<reloads, overtaken>>
    BY DEF Process!StartProvider, Process!StartSlowProvider
  <1>2. CASE UNCHANGED servers /\ ended' = "start"
    BY <1>1, <1>2 DEF ProcessInv
  <1>3. ASSUME NEW r, servers' = [servers EXCEPT ![i] = r], "port" \in DOMAIN r, r.port = servers[i].port,
               UNCHANGED ended
        PROVE  ProcessInv'
    <2>1. /\ \E S : servers' \in Seq(S)
          /\ Len(servers') = Len(servers) /\ servers'[i] = r
          /\ \A k \in 1..Len(servers) : k # i => servers'[k] = servers[k]
      BY <1>3, OneServer
    <2>2. \A k \in 1..Len(servers) : "port" \in DOMAIN servers'[k] /\ servers'[k].port = servers[k].port
      BY <1>3, <2>1 DEF ProcessInv, PortsAre
    <2>3. PortsAre(servers')
      BY <2>1, <2>2 DEF ProcessInv, PortsAre
    <2>4. Len(servers) > 0 => Len(servers) \in 1..Len(servers)
      BY DEF ProcessInv, PortsAre
    <2> QED
      BY <1>1, <1>3, <2>1, <2>2, <2>3, <2>4 DEF ProcessInv
  <1>4. "port" \in DOMAIN servers[i]
    BY DEF ProcessInv, PortsAre
  <1>5. CASE Process!StartSlowProvider(i)
    <2> DEFINE r == [servers[i] EXCEPT !.started = @ + 1]
    <2>1. "port" \in DOMAIN r /\ r.port = servers[i].port
      BY <1>4
    <2>2. servers' = [servers EXCEPT ![i] = r] /\ UNCHANGED ended
      BY <1>5 DEF Process!StartSlowProvider
    <2> HIDE DEF r
    <2> QED
      BY <1>3, <2>1, <2>2
  <1>6. CASE Process!StartProvider(i)
    <2>1. PICK n, f : \/ servers' = [servers EXCEPT ![i].started = n, ![i].follows = f] /\ UNCHANGED ended
                      \/ UNCHANGED servers /\ ended' = "start"
      BY <1>6 DEF Process!StartProvider, Process!End
    <2> DEFINE r == [[servers[i] EXCEPT !.started = n] EXCEPT !.follows = f]
    <2>2. "port" \in DOMAIN r /\ r.port = servers[i].port
      BY <1>4
    <2>3. [servers EXCEPT ![i].started = n, ![i].follows = f] = [servers EXCEPT ![i] = r]
      BY DEF ProcessInv, PortsAre
    <2> HIDE DEF r
    <2> QED
      BY <1>2, <1>3, <2>1, <2>2, <2>3
  <1> QED
    BY <1>5, <1>6

\* A server listens, if no other does.
LEMMA ListenKeeps ==
    ASSUME ProcessInv, NEW i \in 1..Len(servers), ended = "no", Process!Listen(i)
    PROVE  ProcessInv'
  <1>1. UNCHANGED <<reloads, overtaken>> /\ servers[i].port = "none"
    BY DEF Process!Listen
  <1>2. Len(servers) \in Nat /\ DOMAIN servers = 1..Len(servers)
    BY DEF ProcessInv, PortsAre
  <1>3. CASE \E k \in DOMAIN servers : servers[k].port = "open"
    <2>1. ended' = "port" /\ UNCHANGED servers
      BY <1>3 DEF Process!Listen, Process!End
    <2>2. overtaken
      BY <1>1, <1>2, <1>3 DEF ProcessInv
    <2> QED
      BY <1>1, <2>1, <2>2 DEF ProcessInv
  <1>4. CASE ~ \E k \in DOMAIN servers : servers[k].port = "open"
    <2> DEFINE r == [servers[i] EXCEPT !.port = "open"]
    <2>1. "port" \in DOMAIN r /\ r.port = "open"
      BY DEF ProcessInv, PortsAre
    <2>2. servers' = [servers EXCEPT ![i] = r] /\ UNCHANGED ended
      BY <1>4 DEF Process!Listen
    <2> HIDE DEF r
    <2>3. /\ \E S : servers' \in Seq(S)
          /\ Len(servers') = Len(servers) /\ servers'[i] = r
          /\ \A k \in 1..Len(servers) : k # i => servers'[k] = servers[k]
      BY <2>2, OneServer
    <2>4. PortsAre(servers')
      BY <1>2, <1>4, <2>1, <2>3 DEF ProcessInv, PortsAre
    <2>5. overtaken \/ (i = Len(servers) /\ reloads = 0)
      BY <1>1 DEF ProcessInv
    <2>6. Len(servers) > 0 => Len(servers) \in 1..Len(servers)
      BY <1>2
    <2> QED
      BY <1>1, <2>1, <2>2, <2>3, <2>4, <2>5, <2>6 DEF ProcessInv
  <1> QED
    BY <1>3, <1>4

\* A signal that is not ignored closes the port of the last server.
LEMMA SighupKeeps ==
    ASSUME ProcessInv, ended = "no", Process!Sighup
    PROVE  ProcessInv'
  <1> DEFINE n == Len(servers)  r == [servers[n] EXCEPT !.port = IF @ = "open" THEN "closed" ELSE @]
  <1>1. n \in Nat /\ n > 0 /\ n \in 1..n
    BY DEF ProcessInv, PortsAre, Process!Sighup
  <1>2. /\ reloads = 0 /\ reloads' = 1 /\ UNCHANGED ended
        /\ servers' = [servers EXCEPT ![n] = r]
        /\ overtaken' = (overtaken \/ servers[n].port = "none")
    BY DEF Process!Sighup, Process!ClosePort, Process!Newest, Process!Starting
  <1>3. "port" \in DOMAIN r /\ r.port = IF servers[n].port = "open" THEN "closed" ELSE servers[n].port
    BY <1>1 DEF ProcessInv, PortsAre
  <1> HIDE DEF r
  <1>4. /\ \E S : servers' \in Seq(S)
        /\ Len(servers') = n /\ servers'[n] = r
        /\ \A k \in 1..n : k # n => servers'[k] = servers[k]
    BY <1>1, <1>2, OneServer
  <1>5. PortsAre(servers')
    BY <1>1, <1>3, <1>4 DEF ProcessInv, PortsAre
  <1>6. overtaken' \/ \A i \in 1..n : servers'[i].port = "closed"
    BY <1>1, <1>2, <1>3, <1>4 DEF ProcessInv, PortsAre
  <1> QED
    BY <1>1, <1>2, <1>4, <1>5, <1>6 DEF ProcessInv

\* Every step keeps the invariant, those of the other parts too.
LEMMA NextProcessInv == ProcessInv /\ [ServerNext]_serverVars => ProcessInv'
  <1> SUFFICES ASSUME ProcessInv, [ServerNext]_serverVars PROVE ProcessInv'
    OBVIOUS
  <1>1. CASE UNCHANGED lifecycleVars
    BY <1>1 DEF lifecycleVars, ProcessInv, PortsAre
  <1>2. CASE FollowLifecycle
    <2>1. ended = "no" /\ DOMAIN servers = 1..Len(servers) /\ Len(servers) \in Nat
      BY <1>2 DEF FollowLifecycle, Process!Next, ProcessInv, PortsAre
    <2>2. CASE Process!Boot
      <3>1. Len(servers) = 0 /\ reloads = 0
        BY <2>2 DEF Process!Boot, ProcessInv
      <3> QED
        BY <2>1, <2>2, <3>1, MainKeeps DEF Process!Boot
    <2>3. CASE Process!Sighup
      BY <2>1, <2>3, SighupKeeps
    <2>4. CASE Process!Reload
      <3>1. reloads = 1 /\ reloads' = 0
        BY <2>4 DEF Process!Reload, ProcessInv
      <3> QED
        BY <2>1, <2>4, <3>1, MainKeeps DEF Process!Reload
    <2>5. ASSUME NEW i \in DOMAIN servers,
                 Process!StartProvider(i) \/ Process!StartSlowProvider(i) \/ Process!Listen(i)
          PROVE  ProcessInv'
      BY <2>1, <2>5, StartKeeps, ListenKeeps
    <2> QED
      BY <1>2, <2>2, <2>3, <2>4, <2>5 DEF FollowLifecycle, Process!Next
  <1> QED
    BY <1>1, <1>2 DEF ServerNext, FollowPrecached, FollowLatency, FollowPosting, FollowFields, serverVars

\* A reload replaces the server that serves by the new one: never do two servers
\* listen, the last one does as soon as nothing is under way, and the process ends
\* only for a reason, whatever the configurations and however many signals come
\* (the SIGHUP handler of index.ts, start() and stop() of server.ts).
THEOREM OneServes == ServerSpec => []OneServerServes
  <1>1. ASSUME ProcessInv PROVE OneServerServes
    <2> DEFINE n == Len(servers)
    <2>1. n \in Nat /\ DOMAIN servers = 1..n
      BY <1>1 DEF ProcessInv, PortsAre
    <2>2. \A i, j \in Process!Open : i = j
      BY <1>1, <2>1 DEF ProcessInv, PortsAre, Process!Open
    <2>3. Cardinality(Process!Open) <= 1
      <3>1. CASE Process!Open = {}
        BY <3>1, FS_EmptySet
      <3>2. CASE Process!Open # {}
        <4>1. PICK i : Process!Open = {i}
          BY <2>2, <3>2
        <4> QED
          BY <4>1, FS_Singleton
      <3> QED
        BY <3>1, <3>2
    <2>4. ASSUME ended = "no", servers # <<>>, reloads = 0, \A i \in DOMAIN servers : servers[i].port # "none"
          PROVE  Process!Open = {n}
      <3>1. n > 0 /\ n \in 1..n
        <4>1. PICK S : servers \in Seq(S)
          BY <1>1 DEF ProcessInv, PortsAre
        <4> QED
          BY <2>4, <4>1
      <3>2. servers[n].port # "closed" /\ servers[n].port \in {"none", "open", "closed"}
        BY <1>1, <2>4, <3>1 DEF ProcessInv, PortsAre
      <3>3. servers[n].port # "none"
        BY <2>1, <2>4, <3>1
      <3> QED
        BY <2>1, <2>2, <3>1, <3>2, <3>3 DEF Process!Open
    <2>5. ended \in {"no", "configuration", "start"} \/ overtaken
      BY <1>1 DEF ProcessInv
    <2>6. Process!Cardinality(Process!Open) = Cardinality(Process!Open)
      BY DEF Process!Cardinality, Cardinality
    <2> QED
      BY <2>3, <2>4, <2>5, <2>6 DEF OneServerServes, Process!OneServerServes, Process!Newest, Process!Starting
  <1>2. ServerInit => ProcessInv
    BY InitProcessInv DEF ServerInit
  <1> QED
    BY <1>1, <1>2, NextProcessInv, PTL DEF ServerSpec

-----------------------------------------------------------------------------
(* Sequences of sequences *)

\* What FlattenSeq makes of one sequence, of two, and of sequences of one element.
LEMMA FlattenOne ==
    ASSUME NEW s
    PROVE  Process!FlattenSeq(<<s>>) = s
  <1> DEFINE G(f) == [i \in 1..1 |-> IF i = 1 THEN <<s>>[i] ELSE f[i - 1] \o <<s>>[i]]
             flatten == CHOOSE f : f = G(f)
  <1>1. [i \in 1..1 |-> s] = G([i \in 1..1 |-> s])
    OBVIOUS
  <1>2. flatten = G(flatten)
    BY <1>1
  <1>3. flatten[1] = s
    BY <1>2
  <1>4. Process!FlattenSeq(<<s>>) = flatten[1]
    BY DEF Process!FlattenSeq
  <1> QED
    BY <1>3, <1>4

\* Two sequences, flat, are one after the other.
LEMMA FlattenTwo ==
    ASSUME NEW s, NEW t
    PROVE  Process!FlattenSeq(<<s, t>>) = s \o t
  <1> DEFINE G(f) == [i \in 1..2 |-> IF i = 1 THEN <<s, t>>[i] ELSE f[i - 1] \o <<s, t>>[i]]
             flatten == CHOOSE f : f = G(f)
             g == [i \in 1..2 |-> IF i = 1 THEN s ELSE s \o t]
  <1>1. g = G(g)
    OBVIOUS
  <1>2. flatten = G(flatten)
    BY <1>1
  <1>3. ASSUME NEW f, f = G(f) PROVE f[2] = s \o t
    <2>1. G(f)[1] = s /\ G(f)[2] = f[1] \o t
      OBVIOUS
    <2> HIDE DEF G
    <2> QED
      BY <1>3, <2>1
  <1>4. Process!FlattenSeq(<<s, t>>) = flatten[2]
    BY DEF Process!FlattenSeq
  <1> HIDE DEF flatten, G
  <1> QED
    BY <1>2, <1>3, <1>4

\* Single elements, flat, are their sequence.
LEMMA FlattenSingles ==
    ASSUME NEW n \in Nat, NEW e
    PROVE  Process!FlattenSeq([i \in 1..n |-> <<e[i]>>]) = [i \in 1..n |-> e[i]]
  <1> DEFINE seqs == [i \in 1..n |-> <<e[i]>>]
             G(f) == [i \in 1..n |-> IF i = 1 THEN seqs[i] ELSE f[i - 1] \o seqs[i]]
             flatten == CHOOSE f : f = G(f)
             g == [i \in 1..n |-> [k \in 1..i |-> e[k]]]
  <1>0. Len(seqs) = n /\ (n = 0 => seqs = [i \in 1..n |-> e[i]])
    OBVIOUS
  <1>1. ASSUME NEW i \in 1..n, i # 1 PROVE i - 1 \in 1..n /\ g[i] = g[i - 1] \o seqs[i]
    <2> DEFINE S == {e[k] : k \in 1..n}
    <2>1. i - 1 \in 1..n /\ g[i - 1] \in Seq(S) /\ Len(g[i - 1]) = i - 1 /\ seqs[i] = <<e[i]>>
      <3>1. i - 1 \in 1..n
        BY <1>1
      <3>2. g[i - 1] = [k \in 1..(i - 1) |-> e[k]]
        BY <3>1
      <3>3. \A k \in 1..(i - 1) : e[k] \in S
        OBVIOUS
      <3> QED
        BY <3>1, <3>2, <3>3
    <2>2. g[i - 1] = [k \in 1..(i - 1) |-> e[k]]
      BY <2>1
    <2>3. [k \in 1..(i - 1) |-> e[k]] \o <<e[i]>> = [k \in 1..i |-> e[k]]
      <3>1. \A k \in 1..(i - 1) : e[k] \in S
        OBVIOUS
      <3> DEFINE u == [k \in 1..(i - 1) |-> e[k]]
      <3>2. u \in Seq(S) /\ Len(u) = i - 1 /\ \A k \in 1..(i - 1) : u[k] = e[k]
        BY <3>1, <2>1
      <3> HIDE DEF u, S
      <3> QED
        BY <3>2, <2>1
    <2> QED
      BY <2>1, <2>2, <2>3
  <1>2. g = G(g)
    <2>1. \A i \in 1..n : g[i] = IF i = 1 THEN seqs[i] ELSE g[i - 1] \o seqs[i]
      <3>1. n >= 1 => g[1] = seqs[1]
        OBVIOUS
      <3> TAKE i \in 1..n
      <3> HIDE DEF g, seqs
      <3>2. CASE i = 1
        BY <3>1, <3>2
      <3>3. CASE i # 1
        BY <1>1, <3>3
      <3> QED
        BY <3>2, <3>3
    <2> HIDE DEF seqs
    <2> QED
      BY <2>1
  <1>3. ASSUME NEW f, f = G(f) PROVE n > 0 => f[n] = g[n]
    <2>0. \A i \in 1..n : f[i] = IF i = 1 THEN seqs[i] ELSE f[i - 1] \o seqs[i]
      <3>1. \A i \in 1..n : G(f)[i] = IF i = 1 THEN seqs[i] ELSE f[i - 1] \o seqs[i]
        OBVIOUS
      <3> HIDE DEF G, seqs
      <3> QED
        BY <1>3, <3>1
    <2> DEFINE same == {m \in Nat : m \in 1..n => f[m] = g[m]}
    <2>1. 0 \in same
      OBVIOUS
    <2>2. ASSUME NEW m \in same PROVE m + 1 \in same
      <3>1. CASE m = 0
        BY <3>1, <2>0
      <3>2. CASE m # 0 /\ m + 1 \in 1..n
        <4>1. f[m + 1] = f[m] \o seqs[m + 1]
          <5>1. m + 1 # 1 /\ (m + 1) - 1 = m
            BY <3>2
          <5> HIDE DEF seqs
          <5> QED
            BY <5>1, <3>2, <2>0
        <4>2. g[m + 1] = g[m] \o seqs[m + 1]
          <5>1. m + 1 # 1 /\ (m + 1) - 1 = m
            BY <3>2
          <5> HIDE DEF g, seqs
          <5> QED
            BY <5>1, <3>2, <1>1
        <4>3. f[m] = g[m]
          <5> HIDE DEF g, seqs
          <5> QED
            BY <3>2
        <4>4. f[m + 1] = g[m + 1]
          <5> HIDE DEF g, seqs
          <5> QED
            BY <4>1, <4>2, <4>3, Zenon
        <4> HIDE DEF g, seqs
        <4> QED
          BY <4>4
      <3> QED
        BY <3>1, <3>2
    <2>3. same \in SUBSET Nat
      OBVIOUS
    <2>4. same = Nat
      <3> HIDE DEF same
      <3> QED
        BY <2>1, <2>2, <2>3, ByInduction
    <2>5. n \in same
      BY <2>4
    <2> QED
      BY <2>5
  <1>4. Process!FlattenSeq(seqs) = IF Len(seqs) = 0 THEN seqs ELSE flatten[n]
    BY <1>0 DEF Process!FlattenSeq
  <1>5. flatten = G(flatten)
    BY <1>2
  <1>6. n > 0 => g[n] = [k \in 1..n |-> e[k]]
    OBVIOUS
  <1> HIDE DEF flatten, G, g, seqs
  <1>7. n > 0 => flatten[n] = g[n]
    BY <1>3, <1>5
  <1> QED
    BY <1>0, <1>4, <1>6, <1>7 DEF seqs

-----------------------------------------------------------------------------
(* What a server follows *)

\* Distinct() gives the providers of a list that are there, each once.
LEMMA DistinctFound ==
    ASSUME NEW S, NEW providers \in Seq(S)
    PROVE  LET d == Process!Distinct(providers)
           IN /\ d \in Seq(S)
              /\ \A i, j \in 1..Len(d) : d[i] = d[j] => i = j
              /\ Process!ToSet(d) = Process!ToSet(providers) \ {Process!NoProvider}
  <1> DEFINE n == Len(providers)
             Next1(i, q) == IF providers[i] = Process!NoProvider \/ providers[i] \in Process!ToSet(q) THEN q
                           ELSE Append(q, providers[i])
             G(f) == [i \in 0..n |->
                        IF i = 0 THEN <<>>
                        ELSE IF providers[i] = Process!NoProvider \/ providers[i] \in Process!ToSet(f[i - 1])
                             THEN f[i - 1]
                        ELSE Append(f[i - 1], providers[i])]
             found == CHOOSE f : f = G(f)
             d == Process!Distinct(providers)
  <1>1. d = found[n]
    BY DEF Process!Distinct
  <1>2. n \in Nat /\ \A i \in 1..n : providers[i] \in S
    OBVIOUS
  <1>3. \E f : f = G(f)
    <2> DEFINE step == [p \in Nat \X Seq(S) |-> IF p[1] \in 1..n THEN Next1(p[1], p[2]) ELSE p[2]]
    <2>1. step \in [Nat \X Seq(S) -> Seq(S)]
      <3>1. ASSUME NEW i \in 1..n, NEW q \in Seq(S) PROVE Next1(i, q) \in Seq(S)
        BY <1>2
      <3> HIDE DEF Next1
      <3> QED
        BY <3>1
    <2>2. <<>> \in Seq(S)
      OBVIOUS
    <2> DEFINE X == Seq(S)  first == <<>>
    <2>3. PICK f \in [0..n -> X] : f[0] = first /\ \A i \in 1..n : f[i] = step[<<i, f[i - 1]>>]
      <3>1. n \in Nat /\ first \in X /\ step \in Steps(X)
        BY <1>2, <2>1, <2>2 DEF Steps
      <3> HIDE DEF step, n, X, first
      <3>2. Runs(X, first, step, n) # {}
        BY <3>1, Recursion
      <3> QED
        BY <3>2 DEF Runs
    <2>4. ASSUME NEW i \in 0..n PROVE f[i] = IF i = 0 THEN <<>> ELSE Next1(i, f[i - 1])
      <3>1. CASE i = 0
        BY <2>3, <3>1
      <3>2. CASE i # 0
        <4>1. i \in 1..n /\ i \in Nat /\ f[i - 1] \in Seq(S)
          BY <1>2, <3>2
        <4>2. step[<<i, f[i - 1]>>] = Next1(i, f[i - 1])
          <5> HIDE DEF Next1, n
          <5> QED
            BY <4>1
        <4> QED
          BY <2>3, <3>2, <4>1, <4>2
      <3> QED
        BY <3>1, <3>2
    <2>5. f = G(f)
      <3>1. DOMAIN f = 0..n /\ f = [i \in 0..n |-> f[i]]
        OBVIOUS
      <3>2. [i \in 0..n |-> f[i]] = [i \in 0..n |-> IF i = 0 THEN <<>> ELSE Next1(i, f[i - 1])]
        <4> HIDE DEF Next1, n
        <4> QED
          BY <2>4
      <3> QED
        BY <3>1, <3>2
    <2> QED
      BY <2>5
  <1>4. found = G(found)
    <2> HIDE DEF G
    <2> QED
      BY <1>3
  <1>5. \A i \in 0..n : found[i] = IF i = 0 THEN <<>> ELSE Next1(i, found[i - 1])
    <2>1. \A i \in 0..n : G(found)[i] = IF i = 0 THEN <<>> ELSE Next1(i, found[i - 1])
      <3> HIDE DEF found, n
      <3> QED
        OBVIOUS
    <2> HIDE DEF G, found, n, Next1
    <2> QED
      BY <1>4, <2>1
  <1> DEFINE Good(m) ==
               /\ found[m] \in Seq(S)
               /\ \A i, j \in 1..Len(found[m]) : found[m][i] = found[m][j] => i = j
               /\ Process!ToSet(found[m]) = {providers[i] : i \in 1..m} \ {Process!NoProvider}
             good == {m \in Nat : m <= n => Good(m)}
  <1> HIDE DEF found, G
  <1>6. 0 \in good
    <2>1. found[0] = <<>>
      BY <1>2, <1>5
    <2>2. Process!ToSet(<<>>) = {}
      BY DEF Process!ToSet
    <2>3. Len(<<>>) = 0 /\ <<>> \in Seq(S) /\ 1..0 = {}
      OBVIOUS
    <2>4. {providers[i] : i \in 1..0} = {}
      BY <2>3
    <2>5. Good(0)
      BY <2>1, <2>2, <2>3, <2>4
    <2> HIDE DEF Good
    <2> QED
      BY <2>5
  <1>7. ASSUME NEW m \in good PROVE m + 1 \in good
    <2> SUFFICES ASSUME m + 1 <= n PROVE Good(m + 1)
      <3> HIDE DEF Good, n
      <3> QED
        OBVIOUS
    <2>1. m \in Nat /\ Good(m) /\ m + 1 \in 0..n /\ m + 1 \in 1..n
      <3> HIDE DEF Good, n
      <3> QED
        BY <1>2
    <2> DEFINE q == found[m]  x == providers[m + 1]
    <2>2. found[m + 1] = Next1(m + 1, q)
      <3>1. m + 1 # 0 /\ (m + 1) - 1 = m
        BY <2>1
      <3> HIDE DEF Next1, n
      <3> QED
        BY <1>5, <2>1, <3>1
    <2>3. {providers[i] : i \in 1..(m + 1)} = {providers[i] : i \in 1..m} \cup {x}
      BY <2>1
    <2>4. x \in S
      BY <1>2, <2>1
    <2>5. CASE x = Process!NoProvider \/ x \in Process!ToSet(q)
      <3>1. found[m + 1] = q
        BY <2>2, <2>5
      <3> QED
        BY <2>1, <2>3, <2>5, <3>1
    <2>6. CASE ~ (x = Process!NoProvider \/ x \in Process!ToSet(q))
      <3>1. found[m + 1] = Append(q, x)
        BY <2>2, <2>6
      <3>2. q \in Seq(S) /\ Append(q, x) \in Seq(S) /\ Len(Append(q, x)) = Len(q) + 1 /\ Len(q) \in Nat
            /\ Append(q, x)[Len(q) + 1] = x /\ \A i \in 1..Len(q) : Append(q, x)[i] = q[i]
        BY <2>1, <2>4
      <3>3. \A i \in 1..Len(q) : q[i] # x
        BY <2>6, <3>2 DEF Process!ToSet
      <3>4. Process!ToSet(Append(q, x)) = Process!ToSet(q) \cup {x}
        <4>1. DOMAIN Append(q, x) = 1..(Len(q) + 1) /\ DOMAIN q = 1..Len(q)
          BY <3>2
        <4>2. \A i \in 1..(Len(q) + 1) : i = Len(q) + 1 \/ i \in 1..Len(q)
          BY <3>2
        <4>3. Len(q) + 1 \in 1..(Len(q) + 1) /\ \A i \in 1..Len(q) : i \in 1..(Len(q) + 1)
          BY <3>2
        <4> HIDE DEF q, x
        <4>4. ASSUME NEW y \in Process!ToSet(Append(q, x)) PROVE y \in Process!ToSet(q) \cup {x}
          <5>1. PICK i \in 1..(Len(q) + 1) : y = Append(q, x)[i]
            BY <4>1 DEF Process!ToSet
          <5> QED
            BY <3>2, <4>1, <4>2, <5>1 DEF Process!ToSet
        <4>5. ASSUME NEW y \in Process!ToSet(q) \cup {x} PROVE y \in Process!ToSet(Append(q, x))
          <5>1. y = x \/ \E i \in 1..Len(q) : y = q[i]
            BY <4>1 DEF Process!ToSet
          <5>2. \E i \in 1..(Len(q) + 1) : y = Append(q, x)[i]
            BY <3>2, <4>3, <5>1
          <5> QED
            BY <4>1, <5>2 DEF Process!ToSet
        <4> QED
          BY <4>4, <4>5
      <3>5. \A i, j \in 1..(Len(q) + 1) : Append(q, x)[i] = Append(q, x)[j] => i = j
        <4> TAKE i, j \in 1..(Len(q) + 1)
        <4>1. (i = Len(q) + 1 \/ i \in 1..Len(q)) /\ (j = Len(q) + 1 \/ j \in 1..Len(q))
          BY <3>2
        <4> QED
          BY <2>1, <3>2, <3>3, <4>1
      <3> QED
        BY <2>1, <2>3, <2>6, <3>1, <3>2, <3>4, <3>5
    <2> QED
      BY <2>5, <2>6
  <1>8. good = Nat
    <2>1. good \in SUBSET Nat
      OBVIOUS
    <2> HIDE DEF good
    <2> QED
      BY <1>6, <1>7, <2>1, ByInduction
  <1>9. Good(n)
    <2> HIDE DEF Good, n
    <2>1. n \in good /\ n <= n
      BY <1>2, <1>8
    <2> QED
      BY <2>1
  <1>10. {providers[i] : i \in 1..n} = Process!ToSet(providers)
    BY DEF Process!ToSet
  <1> QED
    BY <1>1, <1>9, <1>10

\* A provider follows one of the databases that it hears.
IsWhole(p) ==
    /\ \E S : p.hears \in Seq(S)
    /\ \E k \in 1..Len(p.hears) : {m \in 1..Len(p.hears) : p.hears[m] \in p.follows} = {k}

\* The databases of a list.
Keys(list) == {<<"database", db>> : db \in Process!ToSet(list) \ {NoDatabase}}

\* A provider of some of these databases.
IsOf(p, keys) == p # Process!NoProvider => IsWhole(p) /\ Process!ToSet(p.hears) \subseteq keys

\* A database follows itself, and is heard itself.
LEMMA OneDatabase ==
    ASSUME NEW db, db # NoDatabase
    PROVE  LET d == Process!Database(db)  k == <<"database", db>>
           IN d.key = k /\ d.hears = <<k>> /\ d.follows = {k} /\ d.kind = "database" /\ d # Process!NoProvider
  <1> DEFINE d == Process!Database(db)  k == <<"database", db>>
  <1>1. d = [kind |-> "database", key |-> k, follows |-> {k}, hears |-> <<k>>, asks |-> Process!HasCache("database", <<>>)]
    BY DEF Process!Database, Process!Provider, Process!Following, Process!Subscribed
  <1>2. Process!NoProvider.kind = "none"
    BY DEF Process!NoProvider, Process!Provider
  <1> HIDE DEF k
  <1>3. d.kind = "database" /\ d.key = k /\ d.hears = <<k>> /\ d.follows = {k}
    BY <1>1
  <1>4. d # Process!NoProvider
    BY <1>2, <1>3
  <1> QED
    BY <1>3, <1>4 DEF k

\* The providers of the databases of a list: each once.
LEMMA DatabasesFound ==
    ASSUME NEW S, NEW list \in Seq(S)
    PROVE  LET found == Process!DatabasesOf(list)
           IN /\ found \in Seq({Process!Database(db) : db \in Process!ToSet(list) \ {NoDatabase}})
              /\ \A i, j \in 1..Len(found) : found[i] = found[j] => i = j
  <1> DEFINE all == [i \in DOMAIN list |-> Process!Database(list[i])]
             T == {Process!Database(db) : db \in S}
             found == Process!DatabasesOf(list)
             made == {Process!Database(db) : db \in Process!ToSet(list) \ {NoDatabase}}
  <1>1. all \in Seq(T)
    OBVIOUS
  <1>2. found = Process!Distinct(all)
    BY DEF Process!DatabasesOf
  <1>3. /\ found \in Seq(T)
        /\ \A i, j \in 1..Len(found) : found[i] = found[j] => i = j
        /\ Process!ToSet(found) = Process!ToSet(all) \ {Process!NoProvider}
    <2> HIDE DEF all, found, T
    <2> QED
      BY <1>1, <1>2, DistinctFound
  <1>4. ASSUME NEW i \in 1..Len(found) PROVE found[i] \in made
    <2>1. found[i] \in Process!ToSet(found)
      BY <1>3 DEF Process!ToSet
    <2>2. found[i] \in Process!ToSet(all) /\ found[i] # Process!NoProvider
      BY <1>3, <2>1
    <2>3. PICK j \in DOMAIN list : found[i] = Process!Database(list[j])
      BY <2>2 DEF Process!ToSet
    <2>4. list[j] # NoDatabase
      BY <2>2, <2>3 DEF Process!Database
    <2> QED
      BY <2>3, <2>4 DEF Process!ToSet
  <1>5. found \in Seq(made)
    <2> HIDE DEF found, made
    <2> QED
      BY <1>3, <1>4
  <1> QED
    BY <1>3, <1>5

\* The combiner of the databases of a list hears each of them once, and follows the
\* first.
LEMMA DatabasesWhole ==
    ASSUME NEW S, NEW list \in Seq(S)
    PROVE  IsOf(Process!Databases(list), Keys(list))
  <1> DEFINE f == Process!DatabasesOf(list)
             n == Len(f)
             made == {Process!Database(db) : db \in Process!ToSet(list) \ {NoDatabase}}
             e == [i \in 1..n |-> f[i].key]
             p == Process!Databases(list)
  <1>1. f \in Seq(made) /\ \A i, j \in 1..n : f[i] = f[j] => i = j
    BY DatabasesFound
  <1>2. n \in Nat /\ DOMAIN f = 1..n
    BY <1>1
  <1>3. ASSUME NEW i \in 1..n
        PROVE  f[i].key \in Keys(list) /\ f[i].hears = <<f[i].key>> /\ f[i].follows = {f[i].key}
               /\ f[i] # Process!NoProvider /\ \E db : f[i] = Process!Database(db) /\ f[i].key = <<"database", db>>
    <2>1. PICK db \in Process!ToSet(list) \ {NoDatabase} : f[i] = Process!Database(db)
      BY <1>1
    <2> QED
      BY <2>1, OneDatabase DEF Keys
  <1>4. \A i, j \in 1..n : f[i].key = f[j].key => i = j
    <2> TAKE i, j \in 1..n
    <2>1. PICK di : f[i] = Process!Database(di) /\ f[i].key = <<"database", di>>
      BY <1>3
    <2>2. PICK dj : f[j] = Process!Database(dj) /\ f[j].key = <<"database", dj>>
      BY <1>3
    <2> HIDE DEF f
    <2>3. <<"database", di>> = <<"database", dj>> => di = dj
      OBVIOUS
    <2> QED
      BY <1>1, <2>1, <2>2, <2>3
  <1> HIDE DEF f
  <1>5. CASE n = 0
    BY <1>5 DEF Process!Databases, Process!Combined, IsOf, f
  <1>6. CASE n = 1
    <2>1. p = f[1]
      BY <1>6 DEF Process!Databases, Process!Combined, f
    <2>2. p.hears = <<p.key>> /\ p.follows = {p.key} /\ p.key \in Keys(list)
      BY <1>3, <1>6, <2>1
    <2> HIDE DEF p
    <2>3. IsWhole(p)
      <3>1. p.hears \in Seq({p.key}) /\ Len(p.hears) = 1 /\ p.hears[1] = p.key
        BY <2>2
      <3>2. {m \in 1..1 : p.hears[m] \in p.follows} = {1}
        BY <2>2, <3>1
      <3> QED
        BY <3>1, <3>2 DEF IsWhole
    <2>4. Process!ToSet(p.hears) = {p.key}
      BY <2>2 DEF Process!ToSet
    <2> QED
      BY <2>2, <2>3, <2>4 DEF IsOf, p
  <1>7. CASE n > 1
    <2> DEFINE h == [i \in DOMAIN f |-> f[i].hears]
    <2>1. p = Process!Provider("combiner", <<"databases", list>>, f)
      BY <1>2, <1>7 DEF Process!Databases, Process!Combined, f
    <2>2. p.follows = f[1].follows /\ p.hears = Process!FlattenSeq(h)
      BY <2>1 DEF Process!Provider, Process!Following, Process!Subscribed
    <2>3. h = [i \in 1..n |-> <<e[i]>>]
      BY <1>2, <1>3
    <2>4. Process!FlattenSeq([i \in 1..n |-> <<e[i]>>]) = [i \in 1..n |-> e[i]]
      <3> HIDE DEF e, n
      <3> QED
        BY <1>2, FlattenSingles
    <2>5. p.hears = e
      <3> HIDE DEF p, h
      <3> QED
        BY <2>2, <2>3, <2>4
    <2>6. p.follows = {e[1]} /\ 1 \in 1..n
      <3>1. 1 \in 1..n
        BY <1>2, <1>7
      <3> QED
        BY <1>3, <2>2, <3>1
    <2> HIDE DEF p
    <2>7. e \in Seq(Keys(list)) /\ Len(e) = n /\ \A i, j \in 1..n : e[i] = e[j] => i = j
      BY <1>2, <1>3, <1>4
    <2>8. IsWhole(p)
      <3>1. {m \in 1..n : e[m] \in {e[1]}} = {1}
        <4> HIDE DEF e, n
        <4> QED
          BY <2>6, <2>7
      <3> HIDE DEF e, n
      <3> QED
        BY <2>5, <2>6, <2>7, <3>1 DEF IsWhole
    <2>9. Process!ToSet(p.hears) \subseteq Keys(list)
      <3> HIDE DEF e, n
      <3> QED
        BY <2>5, <2>7 DEF Process!ToSet
    <2> QED
      BY <2>8, <2>9 DEF IsOf, p
  <1> QED
    BY <1>2, <1>5, <1>6, <1>7

\* The hot database of a list: it follows what it hears.
LEMMA HotWhole ==
    ASSUME NEW S, NEW list \in Seq(S)
    PROVE  LET p == Process!HotDatabase(list)
           IN p # Process!NoProvider => \E k \in Keys(list) : p.hears = <<k>> /\ p.follows = {k}
  <1> DEFINE f == Process!DatabasesOf(list)
             made == {Process!Database(db) : db \in Process!ToSet(list) \ {NoDatabase}}
  <1>1. f \in Seq(made)
    BY DatabasesFound
  <1>2. CASE f = <<>>
    BY <1>2 DEF Process!HotDatabase
  <1>3. CASE f # <<>>
    <2>1. f[1] \in made
      <3> HIDE DEF f, made
      <3> QED
        BY <1>1, <1>3
    <2>2. PICK db \in Process!ToSet(list) \ {NoDatabase} : f[1] = Process!Database(db)
      BY <2>1
    <2> QED
      BY <1>3, <2>2, OneDatabase DEF Process!HotDatabase, Keys
  <1> QED
    BY <1>2, <1>3

\* A cache changes neither what is followed nor what is heard.
LEMMA CacheKeeps ==
    ASSUME NEW p, NEW cacheOf, NEW data_
    PROVE  LET c == Process!PreCache(p, cacheOf, data_)
           IN /\ c = Process!NoProvider <=> p = Process!NoProvider
              /\ c.hears = p.hears /\ c.follows = p.follows
  <1> DEFINE c == Process!PreCache(p, cacheOf, data_)
  <1>1. CASE c = p
    BY <1>1
  <1>2. CASE p # Process!NoProvider /\ c = Process!Cached(p, data_)
    <2> DEFINE k == <<"cache", p.key, data_>>
    <2>1. c = Process!Provider("cache", k, <<p>>)
      BY <1>2 DEF Process!Cached
    <2>2. c.kind = "cache" /\ c.follows = p.follows
      BY <2>1 DEF Process!Provider, Process!Following
    <2>3. c.hears = Process!FlattenSeq([i \in DOMAIN <<p>> |-> <<p>>[i].hears])
      BY <2>1 DEF Process!Provider, Process!Subscribed
    <2>4. [i \in DOMAIN <<p>> |-> <<p>>[i].hears] = <<p.hears>>
      OBVIOUS
    <2>5. c.hears = p.hears
      <3> HIDE DEF c
      <3> QED
        BY <2>3, <2>4, FlattenOne
    <2>6. Process!NoProvider.kind = "none"
      BY DEF Process!NoProvider, Process!Provider
    <2>7. c # Process!NoProvider
      <3> HIDE DEF c
      <3> QED
        BY <2>2, <2>6
    <2> QED
      BY <1>2, <2>2, <2>5, <2>7
  <1> QED
    BY <1>1, <1>2 DEF Process!PreCache

\* The provider of blocks or of transactions, if its hot and its cold list have no
\* database in common.
LEMMA DataWhole ==
    ASSUME NEW S, NEW hotCache, NEW data_, data_.hot \in Seq(S), data_.cold \in Seq(S),
           Process!ToSet(data_.hot) \cap Process!ToSet(data_.cold) \subseteq {NoDatabase}
    PROVE  LET p == Process!DataProvider(data_, hotCache) IN p # Process!NoProvider => IsWhole(p)
  <1> DEFINE hot == Process!PreCache(Process!HotDatabase(data_.hot), hotCache, data_)
             cold == Process!PreCache(Process!Databases(data_.cold), data_.cache, data_)
             both == Process!Provider("combiner", <<"hot-cold", data_>>, <<hot, cold>>)
             regular == IF hot # Process!NoProvider /\ cold # Process!NoProvider THEN both
                        ELSE IF hot # Process!NoProvider THEN hot ELSE cold
             archive == Process!Databases(data_.archive)
             aside == Process!Provider("archive", <<"archive", data_>>, <<regular, archive>>)
             p == Process!DataProvider(data_, hotCache)
  <1>1. p = IF regular = Process!NoProvider \/ archive = Process!NoProvider THEN regular ELSE aside
    BY DEF Process!DataProvider
  <1>2. hot # Process!NoProvider => \E k \in Keys(data_.hot) : hot.hears = <<k>> /\ hot.follows = {k}
    BY HotWhole, CacheKeeps
  <1>3. cold # Process!NoProvider => IsWhole(cold) /\ Process!ToSet(cold.hears) \subseteq Keys(data_.cold)
    <2>1. IsOf(Process!Databases(data_.cold), Keys(data_.cold))
      BY DatabasesWhole
    <2>2. cold.hears = Process!Databases(data_.cold).hears /\ cold.follows = Process!Databases(data_.cold).follows
          /\ (cold = Process!NoProvider <=> Process!Databases(data_.cold) = Process!NoProvider)
      BY CacheKeeps
    <2> HIDE DEF cold
    <2> QED
      BY <2>1, <2>2 DEF IsOf, IsWhole
  <1>4. ASSUME NEW k, hot.hears = <<k>>, hot.follows = {k}
        PROVE  IsWhole(hot)
    <2> HIDE DEF hot
    <2>1. hot.hears \in Seq({k}) /\ Len(hot.hears) = 1 /\ hot.hears[1] = k
      BY <1>4
    <2>2. {m \in 1..1 : hot.hears[m] \in hot.follows} = {1}
      BY <1>4, <2>1
    <2> QED
      BY <2>1, <2>2 DEF IsWhole
  <1>5. ASSUME hot # Process!NoProvider, cold # Process!NoProvider
        PROVE  IsWhole(both)
    <2>1. PICK k \in Keys(data_.hot) : hot.hears = <<k>> /\ hot.follows = {k}
      BY <1>2, <1>5
    <2>2. PICK T : cold.hears \in Seq(T)
      BY <1>3, <1>5 DEF IsWhole
    <2>3. both.follows = {k} /\ both.hears = Process!FlattenSeq([i \in DOMAIN <<hot, cold>> |-> <<hot, cold>>[i].hears])
      BY <2>1 DEF Process!Provider, Process!Following, Process!Subscribed
    <2>4. [i \in DOMAIN <<hot, cold>> |-> <<hot, cold>>[i].hears] = <<hot.hears, cold.hears>>
      <3> HIDE DEF hot, cold
      <3> QED
        OBVIOUS
    <2> DEFINE c == cold.hears
    <2>5. both.hears = <<k>> \o c
      <3> HIDE DEF both, hot, cold
      <3> QED
        BY <2>1, <2>3, <2>4, FlattenTwo
    <2> HIDE DEF both
    <2>6. k \notin Process!ToSet(c)
      <3>1. k \notin Keys(data_.cold)
        BY DEF Keys
      <3> QED
        BY <1>3, <1>5, <3>1
    <2>7. \A m \in 1..Len(c) : c[m] # k
      <3> HIDE DEF c
      <3> QED
        BY <2>2, <2>6 DEF Process!ToSet, c
    <2> DEFINE h == <<k>> \o c
    <2>8. h \in Seq(T \cup {k}) /\ Len(c) \in Nat /\ Len(h) = Len(c) + 1 /\ h[1] = k
          /\ \A m \in 2..(Len(c) + 1) : h[m] = c[m - 1]
      <3> HIDE DEF c
      <3>1. c \in Seq(T \cup {k}) /\ <<k>> \in Seq(T \cup {k})
        BY <2>2 DEF c
      <3> QED
        BY <3>1
    <2>9. {m \in 1..Len(h) : h[m] \in {k}} = {1}
      <3>1. ASSUME NEW m \in 1..Len(h), h[m] = k PROVE m = 1
        <4> HIDE DEF h, c
        <4> SUFFICES ASSUME m # 1 PROVE FALSE
          OBVIOUS
        <4>1. m \in 2..(Len(c) + 1) /\ m - 1 \in 1..Len(c)
          BY <2>8
        <4> QED
          BY <2>7, <2>8, <3>1, <4>1
      <3>2. 1 \in 1..Len(h)
        <4> HIDE DEF h, c
        <4> QED
          BY <2>8
      <3> HIDE DEF h
      <3> QED
        BY <2>8, <3>1, <3>2
    <2> HIDE DEF c, h
    <2>10. 1 \in 1..Len(h)
      BY <2>8
    <2> QED
      BY <2>3, <2>5, <2>8, <2>9, <2>10 DEF IsWhole, h, c
  <1> HIDE DEF hot, cold, both, archive
  <1>6. regular # Process!NoProvider => IsWhole(regular)
    BY <1>2, <1>3, <1>4, <1>5
  <1>7. aside.hears = regular.hears /\ aside.follows = regular.follows
    <2> HIDE DEF regular
    <2> QED
      BY DEF Process!Provider, Process!Following, Process!Subscribed
  <1> HIDE DEF regular, aside, p
  <1>8. p # Process!NoProvider => IsWhole(p)
    BY <1>1, <1>6, <1>7 DEF IsWhole
  <1> QED
    BY <1>8 DEF p

\* The lists of databases that a configuration gives are lists.
IsList(list) == \E S : list \in Seq(S)
Lists(c) == \A p \in DOMAIN c \cap Process!ListParams : IsList(c[p])

\* What a source and the next one give are lists.
LEMMA ElseLists == ASSUME NEW a, NEW b, Lists(a), Lists(b) PROVE Lists(Process!Else(a, b))
  BY DEF Lists, Process!Else

\* The lists that collections are in.
Regular == {"accounts", "blocks_hot", "blocks_cold", "transactions_hot", "transactions_cold", "counterparties"}

\* So are those of a resolved configuration, and the defaults that it leaves.
LEMMA ResolvedLists ==
    ASSUME NEW file \in Files, environment \in Environments, Lists(defaults)
    PROVE  LET sources == <<<<>>, file, environment>>
           IN /\ \A p \in Regular : IsList(Process!ResolveConfig(sources, defaults)[p])
              /\ DOMAIN defaults \subseteq DOMAIN Process!DefaultFrom => Lists(Process!DefaultsAfter(sources, defaults))
  <1> DEFINE sources == <<<<>>, file, environment>>
             r == Process!ResolveParams(sources, defaults)
             c == Process!ApplyDatabaseDefaults(r)
             d == Process!ResolveConfig(sources, defaults)
  <1>1. Lists(file) /\ Lists(environment)
    BY QServerAssumption DEF Lists, IsList, GivesLists
  <1>2. Lists(<<>>)
    BY DEF Lists
  <1>3. IsList(<<>>)
    <2>1. <<>> \in Seq({})
      OBVIOUS
    <2> QED
      BY <2>1 DEF IsList
  <1>4. Lists(Process!ConfigParams) /\ Process!ListParams \subseteq DOMAIN Process!ConfigParams
    BY <1>3 DEF Lists, Process!ConfigParams, Process!Else
  <1>5. Lists(r) /\ Process!ListParams \subseteq DOMAIN r
    <2>1. sources[1] = <<>> /\ sources[2] = file /\ sources[3] = environment
      OBVIOUS
    <2>2. r = Process!Else(<<>>, Process!Else(file, Process!Else(environment, Process!Else(defaults, Process!ConfigParams))))
      BY <2>1 DEF Process!ResolveParams
    <2>3. Lists(r)
      BY <1>1, <1>2, <1>4, <2>2, ElseLists
    <2>4. \A a, b : DOMAIN b \subseteq DOMAIN Process!Else(a, b)
      BY DEF Process!Else
    <2> HIDE DEF r
    <2>5. DOMAIN Process!ConfigParams \subseteq DOMAIN r
      BY <2>2, <2>4
    <2> QED
      BY <1>4, <2>3, <2>5
  <1> HIDE DEF r
  <1>6. Lists(c) /\ DOMAIN c = DOMAIN r
    <2>1. \A p \in DOMAIN Process!DefaultFrom : Process!DefaultFrom[p] \in {"hot", "archive"}
      BY DEF Process!DefaultFrom
    <2>2. {"hot", "archive"} \subseteq Process!ListParams
      BY DEF Process!ListParams
    <2> QED
      BY <1>5, <2>1, <2>2 DEF Lists, Process!ApplyDatabaseDefaults
  <1> HIDE DEF c
  <1>7. Regular \subseteq Process!ListParams
    BY DEF Regular, Process!ListParams, Process!DataLists
  <1>8. ASSUME NEW p \in Regular PROVE IsList(d[p])
    <2>1. p \in DOMAIN c /\ IsList(c[p]) /\ p # "zerostate" /\ p # "subscriptions_mode"
      BY <1>5, <1>6, <1>7 DEF Lists, Regular
    <2>2. d[p] = c[p] \/ d[p] = Process!FewSockets(c[p])
      BY <2>1 DEF Process!ResolveConfig, c, r
    <2>3. IsList(Process!FewSockets(c[p]))
      <3> DEFINE l == c[p]
      <3>1. PICK S : l \in Seq(S)
        BY <2>1 DEF IsList
      <3> DEFINE T == S \cup {<<x[1], 3>> : x \in S}
      <3> HIDE DEF l
      <3>2. Process!FewSockets(l) \in Seq(T)
        BY <3>1 DEF Process!FewSockets
      <3> QED
        BY <3>2 DEF IsList, l
    <2> QED
      BY <2>1, <2>2, <2>3
  <1>9. ASSUME DOMAIN defaults \subseteq DOMAIN Process!DefaultFrom
        PROVE  Lists(Process!DefaultsAfter(sources, defaults))
    <2>1. DOMAIN Process!DefaultFrom \subseteq Process!ListParams
      BY DEF Process!DefaultFrom, Process!ListParams, Process!DataLists
    <2>2. \A p \in DOMAIN defaults : p \in DOMAIN c /\ IsList(c[p]) /\ IsList(defaults[p])
      BY <1>5, <1>6, <1>9, <2>1 DEF Lists
    <2> QED
      BY <2>2 DEF Lists, Process!DefaultsAfter, c, r
  <1> QED
    BY <1>8, <1>9

\* What has been followed: the collections of the providers that have been started.
Followed(s, d, coll) ==
    \E k \in 1..Process!WithCollections(s) :
       /\ k <= s.started /\ coll \in DOMAIN Process!Collections(s)
       /\ Process!Collections(s)[coll] = Process!DataProviders(s)[k] /\ d \in Process!DataProviders(s)[k].follows

ServerFields == {"file", "config", "blockchain", "slow", "counterparties", "started", "follows", "port"}

\* A server is made of its configuration, and follows what it has started.
AsConfigured(s) ==
    /\ DOMAIN s = ServerFields
    /\ \A p \in Regular : IsList(s.config[p])
    /\ s.blockchain = Process!Blockchain(Process!RegularData(s.config), s.config.hot_cache)
    /\ s.counterparties = Process!Databases(s.config.counterparties)
    /\ s.started \in Nat
    /\ \A d, coll : <<d, coll>> \in s.follows <=> Followed(s, d, coll)

\* Every server is made of its configuration, whose lists are lists, and follows
\* exactly the collections of the providers that it has started.
FeedInv ==
    /\ environment \in Environments
    /\ Lists(defaults) /\ DOMAIN defaults \subseteq DOMAIN Process!DefaultFrom
    /\ \A i \in 1..Len(servers) : AsConfigured(servers[i])

\* The providers of a server are those of its collections.
LEMMA ProvidersOf ==
    ASSUME NEW s
    PROVE  /\ Process!WithCollections(s) \in Nat
           /\ \A coll \in DOMAIN Process!Collections(s) :
                 Process!Collections(s)[coll] # Process!NoProvider =>
                    \E k \in 1..Process!WithCollections(s) : Process!Collections(s)[coll] = Process!DataProviders(s)[k]
  <1> DEFINE b == s.blockchain
             all == <<b.blocks, b.transactions, b.accounts, b.zerostate, s.counterparties>>
             T == {b.blocks, b.transactions, b.accounts, b.zerostate, s.counterparties}
             d == Process!DataProviders(s)
  <1>1. all \in Seq(T)
    OBVIOUS
  <1>2. d = Process!Distinct(all)
    BY DEF Process!DataProviders
  <1>3. d \in Seq(T) /\ Process!ToSet(d) = Process!ToSet(all) \ {Process!NoProvider}
    <2> HIDE DEF all, T, d
    <2> QED
      BY <1>1, <1>2, DistinctFound
  <1>4. Process!WithCollections(s) = Len(d)
    BY DEF Process!WithCollections
  <1>5. T \subseteq Process!ToSet(all)
    <2>1. all[1] = b.blocks /\ all[2] = b.transactions /\ all[3] = b.accounts /\ all[4] = b.zerostate
          /\ all[5] = s.counterparties /\ DOMAIN all = 1..5
      OBVIOUS
    <2> HIDE DEF all, b
    <2>2. {1, 2, 3, 4, 5} \subseteq DOMAIN all
      BY <2>1
    <2> QED
      BY <2>1, <2>2 DEF Process!ToSet
  <1>6. \A coll \in DOMAIN Process!Collections(s) : Process!Collections(s)[coll] \in T
    BY DEF Process!Collections
  <1>7. \A p \in T : p # Process!NoProvider => \E k \in 1..Len(d) : p = d[k]
    <2> HIDE DEF all, T, d
    <2> QED
      <3>1. DOMAIN d = 1..Len(d)
        BY <1>3
      <3> QED
        BY <1>3, <1>5, <3>1 DEF Process!ToSet
  <1> HIDE DEF d, T
  <1> QED
    BY <1>3, <1>4, <1>6, <1>7 DEF d

\* Each of them follows one of the databases that it hears.
LEMMA CollectionsWhole ==
    ASSUME NEW s, AsConfigured(s), Process!SplitByAge(s.config),
           NEW coll \in DOMAIN Process!Collections(s), Process!Collections(s)[coll] # Process!NoProvider
    PROVE  IsWhole(Process!Collections(s)[coll])
  <1> DEFINE c == s.config  b == s.blockchain  r == Process!RegularData(c)
  <1>1. \A p \in Regular : \E S : c[p] \in Seq(S)
    BY DEF AsConfigured, IsList
  <1>2. b = [blocks |-> Process!DataProvider(r.blocks, c.hot_cache),
             transactions |-> Process!DataProvider(r.transactions, c.hot_cache),
             accounts |-> Process!Databases(c.accounts), zerostate |-> Process!Database(c.zerostate)]
    BY DEF AsConfigured, Process!Blockchain, Process!RegularData
  <1>3. \A l : Process!Database(l) # Process!NoProvider => l # NoDatabase
    BY DEF Process!Database
  <1>4. b.zerostate # Process!NoProvider => IsWhole(b.zerostate)
    <2> DEFINE l == c.zerostate  k == <<"database", l>>  p == Process!Database(l)
    <2> SUFFICES ASSUME p # Process!NoProvider PROVE IsWhole(p)
      BY <1>2
    <2>1. p.hears = <<k>> /\ p.follows = {k}
      BY <1>3, OneDatabase
    <2> HIDE DEF p, k
    <2>2. p.hears \in Seq({k}) /\ Len(p.hears) = 1 /\ p.hears[1] = k
      BY <2>1
    <2>3. {m \in 1..1 : p.hears[m] \in p.follows} = {1}
      BY <2>1, <2>2
    <2> QED
      BY <2>2, <2>3 DEF IsWhole
  <1>5. b.accounts # Process!NoProvider => IsWhole(b.accounts)
    <2>1. PICK S : c.accounts \in Seq(S)
      BY <1>1 DEF Regular
    <2> QED
      BY <1>2, <2>1, DatabasesWhole DEF IsOf
  <1>6. s.counterparties # Process!NoProvider => IsWhole(s.counterparties)
    <2>1. PICK S : c.counterparties \in Seq(S)
      BY <1>1 DEF Regular
    <2> QED
      BY <2>1, DatabasesWhole DEF IsOf, AsConfigured
  <1>7. b.blocks # Process!NoProvider => IsWhole(b.blocks)
    <2>1. PICK S : c.blocks_hot \in Seq(S)
      BY <1>1 DEF Regular
    <2>2. PICK T : c.blocks_cold \in Seq(T)
      BY <1>1 DEF Regular
    <2>3. r.blocks.hot = c.blocks_hot /\ r.blocks.cold = c.blocks_cold
      BY DEF Process!RegularData
    <2>4. r.blocks.hot \in Seq(S \cup T) /\ r.blocks.cold \in Seq(S \cup T)
      <3> HIDE DEF c, r
      <3> QED
        BY <2>1, <2>2, <2>3
    <2>5. Process!ToSet(r.blocks.hot) \cap Process!ToSet(r.blocks.cold) \subseteq {NoDatabase}
      BY <2>3 DEF Process!SplitByAge
    <2> DEFINE x == r.blocks  p == Process!DataProvider(x, c.hot_cache)
    <2>6. p # Process!NoProvider => IsWhole(p)
      <3> HIDE DEF r, c
      <3> QED
        BY <2>4, <2>5, DataWhole
    <2>7. b.blocks = p
      <3> HIDE DEF r, c, b
      <3> QED
        BY <1>2
    <2> HIDE DEF p, b
    <2> QED
      BY <2>6, <2>7
  <1>8. b.transactions # Process!NoProvider => IsWhole(b.transactions)
    <2>1. PICK S : c.transactions_hot \in Seq(S)
      BY <1>1 DEF Regular
    <2>2. PICK T : c.transactions_cold \in Seq(T)
      BY <1>1 DEF Regular
    <2>3. r.transactions.hot = c.transactions_hot /\ r.transactions.cold = c.transactions_cold
      BY DEF Process!RegularData
    <2>4. r.transactions.hot \in Seq(S \cup T) /\ r.transactions.cold \in Seq(S \cup T)
      <3> HIDE DEF c, r
      <3> QED
        BY <2>1, <2>2, <2>3
    <2>5. Process!ToSet(r.transactions.hot) \cap Process!ToSet(r.transactions.cold) \subseteq {NoDatabase}
      BY <2>3 DEF Process!SplitByAge
    <2> DEFINE x == r.transactions  p == Process!DataProvider(x, c.hot_cache)
    <2>6. p # Process!NoProvider => IsWhole(p)
      <3> HIDE DEF r, c
      <3> QED
        BY <2>4, <2>5, DataWhole
    <2>7. b.transactions = p
      <3> HIDE DEF r, c, b
      <3> QED
        BY <1>2
    <2> HIDE DEF p, b
    <2> QED
      BY <2>6, <2>7
  <1> HIDE DEF b, c
  <1>9. Process!Collections(s)[coll] \in {b.blocks, b.transactions, b.accounts, b.zerostate, s.counterparties}
    BY DEF Process!Collections, b
  <1> QED
    BY <1>4, <1>5, <1>6, <1>7, <1>8, <1>9

\* So a server that has started them all follows each collection in one database.
LEMMA FollowedWhole ==
    ASSUME ProcessInv, FeedInv
    PROVE  FeedIsWhole
  <1> SUFFICES ASSUME NEW i \in DOMAIN servers,
                      servers[i].started >= Process!WithCollections(servers[i]),
                      Process!SplitByAge(servers[i].config),
                      NEW coll \in DOMAIN Process!Collections(servers[i]),
                      Process!Collections(servers[i])[coll] # Process!NoProvider
               PROVE  Process!Cardinality({k \in DOMAIN Process!Collections(servers[i])[coll].hears :
                         <<Process!Collections(servers[i])[coll].hears[k], coll>> \in servers[i].follows}) = 1
    BY DEF FeedIsWhole, Process!FeedIsWhole
  <1> DEFINE s == servers[i]  p == Process!Collections(s)[coll]  w == Process!WithCollections(s)
  <1>1. AsConfigured(s)
    BY DEF FeedInv, ProcessInv, PortsAre
  <1>2. IsWhole(p)
    BY <1>1, CollectionsWhole
  <1>3. PICK k \in 1..w : p = Process!DataProviders(s)[k]
    BY ProvidersOf
  <1>4. k <= s.started /\ s.started \in Nat
    BY <1>1, ProvidersOf DEF AsConfigured
  <1>5. \A d : <<d, coll>> \in s.follows <=> d \in p.follows
    <2>1. \A d : <<d, coll>> \in s.follows <=> Followed(s, d, coll)
      BY <1>1 DEF AsConfigured
    <2> QED
      BY <1>3, <1>4, <2>1 DEF Followed
  <1> HIDE DEF p, s
  <1>6. PICK m \in 1..Len(p.hears) : {n \in 1..Len(p.hears) : p.hears[n] \in p.follows} = {m}
    BY <1>2 DEF IsWhole
  <1>7. DOMAIN p.hears = 1..Len(p.hears)
    BY <1>2 DEF IsWhole
  <1>8. {n \in DOMAIN p.hears : <<p.hears[n], coll>> \in s.follows} = {m}
    BY <1>5, <1>6, <1>7
  <1>9. Process!Cardinality({m}) = Cardinality({m})
    BY DEF Process!Cardinality, Cardinality
  <1>10. Cardinality({m}) = 1
    BY FS_Singleton
  <1> QED
    BY <1>8, <1>9, <1>10 DEF p, s

\* A server made of a configuration has followed nothing.
LEMMA MadeAsConfigured ==
    ASSUME NEW file, NEW c, \A p \in Regular : IsList(c[p])
    PROVE  AsConfigured(Process!TONQServer(file, c))
  <1> DEFINE s == Process!TONQServer(file, c)
  <1>1. /\ DOMAIN s = ServerFields /\ s.config = c /\ s.started = 0 /\ s.follows = {}
        /\ s.blockchain = Process!Blockchain(Process!RegularData(c), c.hot_cache)
        /\ s.counterparties = Process!Databases(c.counterparties)
    BY DEF Process!TONQServer, ServerFields
  <1> HIDE DEF s
  <1>2. \A d, coll : ~ Followed(s, d, coll)
    BY <1>1, ProvidersOf DEF Followed
  <1> QED
    BY <1>1, <1>2 DEF AsConfigured, s

\* What a server is made of does not change.
LEMMA SameProviders ==
    ASSUME NEW s, NEW t, t.blockchain = s.blockchain, t.counterparties = s.counterparties
    PROVE  /\ Process!WithCollections(t) = Process!WithCollections(s)
           /\ Process!DataProviders(t) = Process!DataProviders(s)
           /\ Process!Collections(t) = Process!Collections(s)
  BY DEF Process!WithCollections, Process!DataProviders, Process!Collections

\* The port of a server says nothing of what is followed.
LEMMA PortKeeps ==
    ASSUME NEW s, NEW port, AsConfigured(s)
    PROVE  AsConfigured([s EXCEPT !.port = port])
  <1> DEFINE t == [s EXCEPT !.port = port]
  <1>1. /\ DOMAIN t = ServerFields /\ t.config = s.config /\ t.started = s.started /\ t.follows = s.follows
        /\ t.blockchain = s.blockchain /\ t.counterparties = s.counterparties
    BY DEF AsConfigured, ServerFields
  <1> HIDE DEF t
  <1>2. \A d, coll : Followed(t, d, coll) <=> Followed(s, d, coll)
    BY <1>1, SameProviders DEF Followed
  <1> QED
    BY <1>1, <1>2 DEF AsConfigured, t

\* Nor does the start of a provider for slow queries.
LEMMA SlowStartKeeps ==
    ASSUME NEW s, AsConfigured(s), Process!WithCollections(s) <= s.started
    PROVE  AsConfigured([s EXCEPT !.started = @ + 1])
  <1> DEFINE t == [s EXCEPT !.started = @ + 1]
  <1>1. /\ DOMAIN t = ServerFields /\ t.config = s.config /\ t.started = s.started + 1 /\ t.follows = s.follows
        /\ t.blockchain = s.blockchain /\ t.counterparties = s.counterparties
    BY DEF AsConfigured, ServerFields
  <1> HIDE DEF t
  <1>2. s.started \in Nat /\ Process!WithCollections(s) \in Nat
    BY ProvidersOf DEF AsConfigured
  <1>3. \A k \in 1..Process!WithCollections(s) : k <= s.started /\ k <= s.started + 1
    BY <1>2
  <1>4. \A d, coll : Followed(t, d, coll) <=> Followed(s, d, coll)
    BY <1>1, <1>3, SameProviders DEF Followed
  <1> QED
    BY <1>1, <1>2, <1>4 DEF AsConfigured, t

\* The start of a provider of collections adds what it follows of them.
LEMMA StartFollows ==
    ASSUME NEW s, AsConfigured(s), s.started < Process!WithCollections(s)
    PROVE  LET next == Process!DataProviders(s)[s.started + 1]
               collections == {coll \in DOMAIN Process!Collections(s) : Process!Collections(s)[coll] = next}
           IN AsConfigured([[s EXCEPT !.started = @ + 1] EXCEPT !.follows = @ \cup (next.follows \X collections)])
  <1> DEFINE next == Process!DataProviders(s)[s.started + 1]
             collections == {coll \in DOMAIN Process!Collections(s) : Process!Collections(s)[coll] = next}
             t == [[s EXCEPT !.started = @ + 1] EXCEPT !.follows = @ \cup (next.follows \X collections)]
             more == next.follows \X collections
  <1>1. /\ DOMAIN t = ServerFields /\ t.config = s.config /\ t.started = s.started + 1
        /\ t.follows = s.follows \cup more
        /\ t.blockchain = s.blockchain /\ t.counterparties = s.counterparties
    <2> HIDE DEF more
    <2> QED
      BY DEF AsConfigured, ServerFields, more
  <1> HIDE DEF t
  <1>2. s.started \in Nat /\ Process!WithCollections(s) \in Nat
    BY ProvidersOf DEF AsConfigured
  <1>3. s.started + 1 \in 1..Process!WithCollections(s)
        /\ \A k \in 1..Process!WithCollections(s) : k <= s.started + 1 <=> (k <= s.started \/ k = s.started + 1)
    BY <1>2
  <1>4. ASSUME NEW d, NEW coll
        PROVE  <<d, coll>> \in t.follows <=> Followed(t, d, coll)
    <2>1. <<d, coll>> \in more <=> d \in next.follows /\ coll \in DOMAIN Process!Collections(s) /\ Process!Collections(s)[coll] = next
      OBVIOUS
    <2> HIDE DEF more
    <2>2. <<d, coll>> \in s.follows <=> Followed(s, d, coll)
      BY DEF AsConfigured
    <2>3. Followed(t, d, coll) <=> Followed(s, d, coll) \/ <<d, coll>> \in more
      <3> HIDE DEF collections
      <3> QED
        BY <1>1, <1>3, <2>1, SameProviders DEF Followed
    <2> QED
      BY <1>1, <2>2, <2>3
  <1>5. AsConfigured(t)
    <2> HIDE DEF next, collections, more
    <2> QED
      BY <1>1, <1>2, <1>4 DEF AsConfigured
  <1> QED
    BY <1>5 DEF t

\* No server is made at first.
LEMMA InitFeedInv == Process!Init => FeedInv
  <1> SUFFICES ASSUME Process!Init PROVE FeedInv
    OBVIOUS
  <1>1. environment \in Environments /\ defaults = Process!UnchangedDefaults /\ Len(servers) = 0
    BY DEF Process!Init
  <1>2. DOMAIN Process!DefaultFrom \subseteq Process!ListParams
    BY DEF Process!DefaultFrom, Process!ListParams, Process!DataLists
  <1>3. \A p \in DOMAIN Process!DefaultFrom : Process!UnchangedDefaults[p] = <<>>
    BY <1>2 DEF Process!UnchangedDefaults, Process!ConfigParams, Process!Else
  <1>4. IsList(<<>>)
    <2>1. <<>> \in Seq({})
      OBVIOUS
    <2> QED
      BY <2>1 DEF IsList
  <1>5. DOMAIN defaults = DOMAIN Process!DefaultFrom
    BY <1>1 DEF Process!UnchangedDefaults
  <1>6. 1..0 = {}
    OBVIOUS
  <1> QED
    BY <1>1, <1>3, <1>4, <1>5, <1>6 DEF FeedInv, Lists

\* main() makes a server of lists.
LEMMA MainFeed ==
    ASSUME ProcessInv, FeedInv, Process!Main, UNCHANGED environment
    PROVE  FeedInv'
  <1>1. PICK file \in Files :
          LET sources == <<<<>>, file, environment>>
          IN /\ defaults' = Process!DefaultsAfter(sources, defaults)
             /\ \/ UNCHANGED servers
                \/ servers' = Append(servers, Process!TONQServer(file, Process!ResolveConfig(sources, defaults)))
    BY DEF Process!Main, Process!End
  <1> DEFINE sources == <<<<>>, file, environment>>
             c == Process!ResolveConfig(sources, defaults)
  <1>2. Lists(defaults') /\ \A p \in Regular : IsList(c[p])
    BY <1>1, ResolvedLists DEF FeedInv
  <1>3. DOMAIN defaults' \subseteq DOMAIN Process!DefaultFrom
    BY <1>1 DEF FeedInv, Process!DefaultsAfter
  <1>4. environment' \in Environments
    BY DEF FeedInv
  <1>5. CASE UNCHANGED servers
    BY <1>2, <1>3, <1>4, <1>5 DEF FeedInv
  <1> DEFINE s == Process!TONQServer(file, c)
  <1>6. CASE servers' = Append(servers, s)
    <2>1. AsConfigured(s)
      BY <1>2, MadeAsConfigured
    <2>2. PICK S : servers \in Seq(S)
      BY DEF ProcessInv, PortsAre
    <2> HIDE DEF s
    <2>3. Len(servers') = Len(servers) + 1 /\ Len(servers) \in Nat /\ servers'[Len(servers) + 1] = s
          /\ \A i \in 1..Len(servers) : servers'[i] = servers[i]
      BY <1>6, <2>2
    <2>4. \A i \in 1..(Len(servers) + 1) : i = Len(servers) + 1 \/ i \in 1..Len(servers)
      BY <2>3
    <2>5. \A i \in 1..Len(servers') : AsConfigured(servers'[i])
      BY <2>1, <2>3, <2>4 DEF FeedInv
    <2> QED
      BY <1>2, <1>3, <1>4, <2>5 DEF FeedInv
  <1> QED
    BY <1>1, <1>5, <1>6

\* A step of one server that keeps it as configured.
LEMMA OneFeed ==
    ASSUME ProcessInv, FeedInv, NEW i \in 1..Len(servers), NEW r, AsConfigured(r),
           servers' = [servers EXCEPT ![i] = r], UNCHANGED <<environment, defaults>>
    PROVE  FeedInv'
  <1>1. Len(servers') = Len(servers) /\ servers'[i] = r /\ \A k \in 1..Len(servers) : k # i => servers'[k] = servers[k]
    BY OneServer
  <1> QED
    BY <1>1 DEF FeedInv

\* Every step keeps the servers as configured, those of the other parts too.
LEMMA NextFeedInv == ProcessInv /\ FeedInv /\ [ServerNext]_serverVars => FeedInv'
  <1> SUFFICES ASSUME ProcessInv, FeedInv, [ServerNext]_serverVars PROVE FeedInv'
    OBVIOUS
  <1>1. CASE UNCHANGED <<environment, defaults, servers>>
    BY <1>1 DEF FeedInv
  <1>2. CASE FollowLifecycle
    <2>1. DOMAIN servers = 1..Len(servers) /\ Len(servers) \in Nat
      BY DEF ProcessInv, PortsAre
    <2>2. CASE Process!Boot
      BY <2>2, MainFeed DEF Process!Boot
    <2>3. CASE Process!Reload
      BY <2>3, MainFeed DEF Process!Reload
    <2>4. CASE Process!Sighup
      <3> DEFINE n == Len(servers)  port == IF servers[n].port = "open" THEN "closed" ELSE servers[n].port
                 r == [servers[n] EXCEPT !.port = port]
      <3>1. n \in 1..n
        <4>1. PICK S : servers \in Seq(S)
          BY DEF ProcessInv, PortsAre
        <4>2. servers # <<>>
          BY <2>4 DEF Process!Sighup
        <4> QED
          BY <4>1, <4>2
      <3>2. servers' = [servers EXCEPT ![n] = r] /\ UNCHANGED <<environment, defaults>>
        BY <2>4 DEF Process!Sighup, Process!ClosePort, Process!Newest
      <3>3. AsConfigured(servers[n])
        BY <3>1 DEF FeedInv
      <3>4. AsConfigured(r)
        <4> HIDE DEF port, n
        <4> QED
          BY <3>3, PortKeeps
      <3> HIDE DEF r
      <3> QED
        BY <3>1, <3>2, <3>4, OneFeed
    <2>5. ASSUME NEW i \in DOMAIN servers, Process!Listen(i)
          PROVE  FeedInv'
      <3>1. AsConfigured(servers[i])
        BY <2>1 DEF FeedInv
      <3> DEFINE r == [servers[i] EXCEPT !.port = "open"]
      <3>2. AsConfigured(r)
        BY <3>1, PortKeeps
      <3>3. UNCHANGED <<environment, defaults>> /\ (UNCHANGED servers \/ servers' = [servers EXCEPT ![i] = r])
        BY <2>5 DEF Process!Listen, Process!End
      <3> HIDE DEF r
      <3> QED
        BY <1>1, <2>1, <3>2, <3>3, OneFeed
    <2>6. ASSUME NEW i \in DOMAIN servers, Process!StartSlowProvider(i)
          PROVE  FeedInv'
      <3>1. AsConfigured(servers[i])
        BY <2>1 DEF FeedInv
      <3> DEFINE r == [servers[i] EXCEPT !.started = @ + 1]
      <3>2. AsConfigured(r)
        BY <2>6, <3>1, SlowStartKeeps DEF Process!StartSlowProvider
      <3>3. UNCHANGED <<environment, defaults>> /\ servers' = [servers EXCEPT ![i] = r]
        BY <2>6 DEF Process!StartSlowProvider
      <3> HIDE DEF r
      <3> QED
        BY <2>1, <3>2, <3>3, OneFeed
    <2>7. ASSUME NEW i \in DOMAIN servers, Process!StartProvider(i)
          PROVE  FeedInv'
      <3>1. AsConfigured(servers[i])
        BY <2>1 DEF FeedInv
      <3> DEFINE s == servers[i]
                 next == Process!DataProviders(s)[s.started + 1]
                 collections == {coll \in DOMAIN Process!Collections(s) : Process!Collections(s)[coll] = next}
                 f == next.follows \X collections
                 r == [[s EXCEPT !.started = @ + 1] EXCEPT !.follows = @ \cup f]
      <3>2. AsConfigured(r)
        BY <2>7, <3>1, StartFollows DEF Process!StartProvider
      <3>3. UNCHANGED <<environment, defaults>>
            /\ (UNCHANGED servers \/ servers' = [servers EXCEPT ![i].started = @ + 1, ![i].follows = @ \cup f])
        BY <2>7 DEF Process!StartProvider, Process!End
      <3>4. [servers EXCEPT ![i].started = @ + 1, ![i].follows = @ \cup f] = [servers EXCEPT ![i] = r]
        <4> HIDE DEF f
        <4> QED
          BY <2>1
      <3> HIDE DEF r
      <3> QED
        BY <1>1, <2>1, <3>2, <3>3, <3>4, OneFeed
    <2> QED
      BY <1>2, <2>2, <2>3, <2>4, <2>5, <2>6, <2>7 DEF FollowLifecycle, Process!Next
  <1> QED
    BY <1>1, <1>2 DEF ServerNext, FollowPrecached, FollowLatency, FollowPosting, FollowFields, serverVars, lifecycleVars

\* Whatever lists of databases a server is configured with, whatever they share and
\* however they are combined, each collection of a started server is followed in
\* exactly one database of those its subscriptions listen to, if no database is in
\* both the hot and the cold list of one collection (the factory of providers in
\* server.ts, start() and subscribe() in data-provider.ts and data.ts).
THEOREM WholeFeed == ServerSpec => []FeedIsWhole
  <1>1. ServerInit => ProcessInv /\ FeedInv
    BY InitProcessInv, InitFeedInv DEF ServerInit
  <1> QED
    BY <1>1, NextProcessInv, NextFeedInv, FollowedWhole, PTL DEF ServerSpec

-----------------------------------------------------------------------------
(* The fields of a call *)

\* A call of rows, and a call of an account.
RowsCall == [of : {"blocks", "transactions"}, archive : BOOLEAN, selected : SUBSET Selected!Fields,
             end : {"no", "failed", "answered"}]
AccountCall == [of : {"account"}, exists : BOOLEAN, byBlock : BOOLEAN, selected : SUBSET Selected!AccountFields,
                end : {"no", "failed", "answered"}]
Row == [fields : SUBSET Selected!Fields, url : BOOLEAN, error : BOOLEAN]

\* The fields that a row whose BOC can be had has at a stage: before its BOC is
\* got, those the archive keeps; before it is parsed, the BOC; before the fields
\* are resolved, all selected ones, but for the BOC of an archived block, which is
\* then in the storage.
Progress(i) ==
    /\ stage = "bocs" => /\ call.of = "blocks" /\ Selected!UseArchive /\ Selected!Stored
                         /\ call.selected \cap {"kept"} \subseteq rows[i].fields
    /\ stage = "parse" => /\ Selected!UseArchive /\ Selected!SelectsOthers
                          /\ Selected!HasBoc(i) => "boc" \in rows[i].fields
    /\ stage = "fields" /\ Selected!HasBoc(i) =>
          /\ call.selected \ {"boc"} \subseteq rows[i].fields
          /\ "boc" \in call.selected \ rows[i].fields =>
                call.of = "blocks" /\ Selected!UseArchive

FieldsInv ==
    /\ deployment \in Deployments
    /\ \/ call = [of |-> "none"] /\ stage = "none"
       \/ /\ call \in RowsCall
          /\ stage \in {"query", "bocs", "parse", "fields", "none"} /\ (stage # "none" => call.end = "no")
          /\ stage \in {"bocs", "parse", "fields"} =>
                rows \in [DOMAIN kept -> Row] /\ \A i \in DOMAIN kept : Progress(i)
       \/ call \in AccountCall /\ stage \in {"account", "none"} /\ (stage # "none" => call.end = "no")
    /\ SelectedIsAnswered

\* No call is made at first.
LEMMA InitFieldsInv == Selected!Init => FieldsInv
  BY DEF Selected!Init, FieldsInv, SelectedIsAnswered, Selected!SelectedIsAnswered

\* A call is made of rows or of an account.
LEMMA CallsKeep ==
    ASSUME FieldsInv, Selected!CallRows \/ Selected!CallAccount
    PROVE  FieldsInv'
  <1>1. CASE Selected!CallRows
    <2>1. PICK of \in {"blocks", "transactions"}, archive \in BOOLEAN, selected \in SUBSET Selected!Fields :
             call' = [of |-> of, archive |-> archive, selected |-> selected, end |-> "no"]
      BY <1>1 DEF Selected!CallRows
    <2>2. call' \in RowsCall /\ call'.end = "no"
      BY <2>1 DEF RowsCall
    <2>3. stage' = "query" /\ UNCHANGED <<deployment, kept, rows>>
      BY <1>1 DEF Selected!CallRows
    <2> QED
      BY <2>2, <2>3 DEF FieldsInv, SelectedIsAnswered, Selected!SelectedIsAnswered
  <1>2. CASE Selected!CallAccount
    <2>1. PICK exists \in BOOLEAN, byBlock \in BOOLEAN, selected \in SUBSET Selected!AccountFields :
             call' = [of |-> "account", exists |-> exists, byBlock |-> byBlock, selected |-> selected, end |-> "no"]
      BY <1>2 DEF Selected!CallAccount
    <2>2. call' \in AccountCall /\ call'.end = "no"
      BY <2>1 DEF AccountCall
    <2>3. stage' = "account" /\ UNCHANGED <<deployment, kept, rows>>
      BY <1>2 DEF Selected!CallAccount
    <2> QED
      BY <2>2, <2>3 DEF FieldsInv, SelectedIsAnswered, Selected!SelectedIsAnswered
  <1> QED
    BY <1>1, <1>2

\* A call that fails answers nothing.
LEMMA FailKeeps ==
    ASSUME FieldsInv, stage # "none", Selected!Fail, stage' = "none", UNCHANGED <<deployment, kept>>
    PROVE  FieldsInv'
  <1>1. call' = [call EXCEPT !.end = "failed"] /\ (call \in RowsCall \/ call \in AccountCall)
    BY DEF Selected!Fail, FieldsInv
  <1>2. call'.end = "failed" /\ (call' \in RowsCall \/ call' \in AccountCall)
    BY <1>1 DEF RowsCall, AccountCall
  <1> QED
    BY <1>2 DEF FieldsInv, SelectedIsAnswered, Selected!SelectedIsAnswered

\* A call that goes on has not ended.
LEMMA GoesOn ==
    ASSUME FieldsInv, call \in RowsCall, UNCHANGED <<deployment, kept, call>>, stage # "none",
           stage' \in {"bocs", "parse", "fields"}, rows' \in [DOMAIN kept -> Row],
           \A i \in DOMAIN kept : Progress(i)'
    PROVE  FieldsInv'
  <1>1. call.end = "no"
    BY DEF FieldsInv, RowsCall, AccountCall
  <1> QED
    BY <1>1 DEF FieldsInv, SelectedIsAnswered, Selected!SelectedIsAnswered

\* What is known of a call that awaits rows.
LEMMA AtStage ==
    ASSUME FieldsInv, stage \in {"query", "bocs", "parse", "fields"}
    PROVE  /\ call \in RowsCall /\ call.of \in {"blocks", "transactions"} /\ call.archive \in BOOLEAN
           /\ call.selected \in SUBSET Selected!Fields /\ call.end = "no"
           /\ stage # "query" => rows \in [DOMAIN kept -> Row] /\ \A i \in DOMAIN kept : Progress(i)
  BY DEF FieldsInv, RowsCall, AccountCall

\* The database answers with what it has of the selected fields.
LEMMA QueryRowsKeeps ==
    ASSUME FieldsInv, Selected!QueryRows
    PROVE  FieldsInv'
  <1>1. stage = "query" /\ UNCHANGED <<deployment, kept>>
    BY DEF Selected!QueryRows
  <1>2. CASE Selected!Fail /\ stage' = "none"
    BY <1>1, <1>2, FailKeeps
  <1>3. ASSUME rows' = [i \in DOMAIN kept |-> [fields |-> Selected!Queried \cap Selected!InDatabase(i),
                                              url |-> FALSE, error |-> FALSE]],
               Selected!Proceed("query"), UNCHANGED call
        PROVE  FieldsInv'
    <2>1. rows' \in [DOMAIN kept -> Row]
      BY <1>1, <1>3, AtStage DEF Row, Selected!Queried, Selected!Fields
    <2>2. stage' \in {"bocs", "parse", "fields"}
      BY <1>3 DEF Selected!Proceed
    <2>3. ASSUME NEW i \in DOMAIN kept PROVE Progress(i)'
      <3>1. rows'[i].fields = Selected!Queried \cap Selected!InDatabase(i)
        BY <1>3
      <3>2. Selected!HasBoc(i)' <=> Selected!HasBoc(i)
        BY <1>1, <1>3 DEF Selected!HasBoc, Selected!UseArchive, Selected!Stored
      <3> QED
        BY <1>1, <1>3, <3>1, <3>2, AtStage
        DEF Progress, Selected!Proceed, Selected!Queried, Selected!InDatabase, Selected!HasBoc, Selected!Fields,
            Selected!ResolveBocs, Selected!RequireBocParsing, Selected!UseArchive, Selected!Stored,
            Selected!SelectsOthers
    <2> QED
      BY <1>1, <1>3, <2>1, <2>2, <2>3, AtStage, GoesOn
  <1> QED
    BY <1>2, <1>3 DEF Selected!QueryRows

\* A row that gets its BOC keeps its fields.
LEMMA FetchedRow ==
    ASSUME NEW i, rows[i] \in Row
    PROVE  /\ Selected!Fetched(i) \in Row /\ rows[i].fields \subseteq Selected!Fetched(i).fields
           /\ Selected!Found(i) => "boc" \in Selected!Fetched(i).fields
  <1> DEFINE u == deployment.storage = "pattern"
  <1>1. u \in BOOLEAN
    OBVIOUS
  <1>2. Selected!Fetched(i) = IF Selected!Found(i) THEN Selected!WithBoc(rows[i], u) ELSE rows[i]
    BY DEF Selected!Fetched
  <1> HIDE DEF u
  <1> DEFINE r == rows[i]  f == r.fields \cup {"boc"}
  <1>3. Selected!WithBoc(rows[i], u) = [r EXCEPT !.fields = f, !.url = u]
    BY DEF Selected!WithBoc
  <1>4. r \in Row /\ f \in SUBSET Selected!Fields
    BY DEF Row, Selected!Fields
  <1> HIDE DEF r, f
  <1>5. [r EXCEPT !.fields = f, !.url = u] \in Row /\ [r EXCEPT !.fields = f, !.url = u].fields = f
    BY <1>1, <1>4 DEF Row
  <1> QED
    BY <1>2, <1>3, <1>4, <1>5 DEF r, f

\* The storage gives the BOCs it has.
LEMMA GetBocsKeeps ==
    ASSUME FieldsInv, Selected!GetBocs
    PROVE  FieldsInv'
  <1>1. stage = "bocs" /\ UNCHANGED <<deployment, kept>>
    BY DEF Selected!GetBocs
  <1>2. CASE Selected!Fail /\ stage' = "none"
    BY <1>1, <1>2, FailKeeps
  <1>3. ASSUME rows' = [i \in DOMAIN rows |-> Selected!Fetched(i)], Selected!Proceed("bocs"), UNCHANGED call
        PROVE  FieldsInv'
    <2>1. rows \in [DOMAIN kept -> Row] /\ DOMAIN rows = DOMAIN kept
      BY <1>1, AtStage
    <2>2. \A i \in DOMAIN kept :
             /\ rows'[i] = Selected!Fetched(i) /\ rows'[i] \in Row /\ rows[i].fields \subseteq rows'[i].fields
             /\ Selected!Found(i) => "boc" \in rows'[i].fields
      BY <1>3, <2>1, FetchedRow
    <2>3. rows' \in [DOMAIN kept -> Row]
      BY <1>3, <2>1, <2>2
    <2>4. stage' \in {"bocs", "parse", "fields"}
      BY <1>3 DEF Selected!Proceed
    <2>5. ASSUME NEW i \in DOMAIN kept PROVE Progress(i)'
      <3>1. Progress(i)
        BY <1>1, AtStage
      <3>2. Selected!HasBoc(i)' <=> Selected!HasBoc(i)
        BY <1>1, <1>3 DEF Selected!HasBoc, Selected!UseArchive, Selected!Stored
      <3>3. Selected!HasBoc(i) => Selected!Found(i)
        BY <1>1, <3>1 DEF Progress, Selected!HasBoc, Selected!Found
      <3> QED
        BY <1>1, <1>3, <2>2, <3>1, <3>2, <3>3, AtStage
        DEF Progress, Selected!Proceed, Selected!Fields, Selected!ResolveBocs, Selected!RequireBocParsing,
            Selected!UseArchive, Selected!Stored, Selected!SelectsOthers
    <2> QED
      BY <1>1, <1>3, <2>3, <2>4, <2>5, AtStage, GoesOn
  <1> QED
    BY <1>2, <1>3 DEF Selected!GetBocs

\* All fields are parsed out of a BOC that is there.
LEMMA ParseBocsKeeps ==
    ASSUME FieldsInv, Selected!ParseBocs
    PROVE  FieldsInv'
  <1>1. stage = "parse" /\ UNCHANGED <<deployment, kept>>
    BY DEF Selected!ParseBocs
  <1>2. CASE Selected!Fail /\ stage' = "none"
    BY <1>1, <1>2, FailKeeps
  <1>3. ASSUME rows' = [i \in DOMAIN rows |->
                           IF "boc" \in rows[i].fields THEN [rows[i] EXCEPT !.fields = Selected!Fields] ELSE rows[i]],
               Selected!Proceed("parse"), UNCHANGED call
        PROVE  FieldsInv'
    <2>1. rows \in [DOMAIN kept -> Row] /\ DOMAIN rows = DOMAIN kept
      BY <1>1, AtStage
    <2>2. \A r \in Row : /\ [r EXCEPT !.fields = Selected!Fields] \in Row
                          /\ [r EXCEPT !.fields = Selected!Fields].fields = Selected!Fields
      BY DEF Row
    <2>3. \A i \in DOMAIN kept :
             rows'[i] \in Row /\ ("boc" \in rows[i].fields => rows'[i].fields = Selected!Fields)
      BY <1>3, <2>1, <2>2
    <2>4. rows' \in [DOMAIN kept -> Row]
      BY <1>3, <2>1, <2>3
    <2>5. stage' = "fields"
      BY <1>3 DEF Selected!Proceed
    <2>6. ASSUME NEW i \in DOMAIN kept PROVE Progress(i)'
      <3>1. Progress(i)
        BY <1>1, AtStage
      <3>2. Selected!HasBoc(i)' <=> Selected!HasBoc(i)
        BY <1>1, <1>3 DEF Selected!HasBoc, Selected!UseArchive, Selected!Stored
      <3> QED
        BY <1>1, <1>3, <2>3, <2>5, <3>1, <3>2, AtStage DEF Progress
    <2> QED
      BY <1>1, <1>3, <2>4, <2>5, <2>6, AtStage, GoesOn
  <1> QED
    BY <1>2, <1>3 DEF Selected!ParseBocs

\* The resolvers of the fields ask the storage for the BOCs of blocks that lack it.
LEMMA AnswerRowsKeeps ==
    ASSUME FieldsInv, Selected!AnswerRows
    PROVE  FieldsInv'
  <1>1. stage = "fields" /\ stage' = "none" /\ UNCHANGED <<deployment, kept>>
        /\ call' = [call EXCEPT !.end = "answered"]
    BY DEF Selected!AnswerRows, Selected!Respond
  <1>2. call' = [of |-> call.of, archive |-> call.archive, selected |-> call.selected, end |-> "answered"]
    BY <1>1, AtStage DEF RowsCall
  <1>3. call' \in RowsCall
    BY <1>1, <1>2, AtStage DEF RowsCall
  <1>4. rows \in [DOMAIN kept -> Row] /\ DOMAIN rows = DOMAIN kept
    BY <1>1, AtStage
  <1>5. PICK failing \in SUBSET Selected!Lacking :
           /\ deployment.storage = "s3" => {i \in Selected!Lacking : ~Selected!Found(i)} \subseteq failing
           /\ deployment.storage = "pattern" => failing = {}
           /\ rows' = [i \in DOMAIN rows |->
                          IF i \in failing THEN [rows[i] EXCEPT !.error = TRUE]
                          ELSE IF i \in Selected!Lacking THEN Selected!Fetched(i) ELSE rows[i]]
    BY DEF Selected!AnswerRows
  <1>6. ASSUME NEW i \in DOMAIN kept, Selected!HasBoc(i)
        PROVE  call.selected \subseteq rows'[i].fields \/ rows'[i].error
    <2>1. CASE i \in failing
      BY <1>4, <1>5, <2>1 DEF Row
    <2>2. CASE i \notin failing /\ i \in Selected!Lacking
      <3>1. rows'[i] = Selected!Fetched(i) /\ rows[i].fields \subseteq rows'[i].fields
            /\ (Selected!Found(i) => "boc" \in rows'[i].fields)
        BY <1>4, <1>5, <2>2, FetchedRow
      <3>2. call.selected \ {"boc"} \subseteq rows[i].fields /\ call.of = "blocks" /\ Selected!UseArchive
        BY <1>1, <1>6, <2>2, AtStage DEF Progress, Selected!Lacking
      <3>3. Selected!Found(i)
        BY <1>6, <3>2 DEF Selected!HasBoc, Selected!Found
      <3> QED
        BY <3>1, <3>2, <3>3
    <2>3. CASE i \notin failing /\ i \notin Selected!Lacking
      <3>1. rows'[i] = rows[i]
        BY <1>4, <1>5, <2>3
      <3>2. call.selected \ {"boc"} \subseteq rows[i].fields
            /\ ("boc" \in call.selected \ rows[i].fields => call.of = "blocks" /\ Selected!UseArchive)
        BY <1>1, <1>6, AtStage DEF Progress
      <3>3. "boc" \in call.selected => "boc" \in rows[i].fields
        BY <1>4, <1>6, <2>3, <3>2 DEF Selected!Lacking, Selected!HasBoc
      <3> QED
        BY <3>1, <3>2, <3>3
    <2> QED
      BY <2>1, <2>2, <2>3
  <1>7. \A i : Selected!HasBoc(i)' <=> Selected!HasBoc(i)
    BY <1>1, <1>2 DEF Selected!HasBoc, Selected!UseArchive, Selected!Stored
  <1>8. DOMAIN rows' = DOMAIN kept /\ call'.of # "account" /\ call'.selected = call.selected
    BY <1>1, <1>2, <1>4, <1>5, AtStage
  <1>9. SelectedIsAnswered'
    BY <1>6, <1>7, <1>8 DEF SelectedIsAnswered, Selected!SelectedIsAnswered
  <1> QED
    BY <1>1, <1>3, <1>9 DEF FieldsInv

\* An account is made of what its provider gives.
LEMMA AnswerAccountKeeps ==
    ASSUME FieldsInv, Selected!AnswerAccount
    PROVE  FieldsInv'
  <1>1. stage = "account" /\ stage' = "none" /\ UNCHANGED <<deployment, kept>>
    BY DEF Selected!AnswerAccount
  <1>2. call \in AccountCall
    BY <1>1 DEF FieldsInv
  <1>3. CASE Selected!Fail
    BY <1>1, <1>3, FailKeeps
  <1>4. CASE ~Selected!Fail
    <2> DEFINE fields == IF deployment.accounts = "database" THEN call.selected ELSE Selected!Provided
               row == [exists |-> call.exists,
                       byBlock |-> deployment.accounts = "rpc" /\ call.byBlock, fields |-> fields]
    <2>1. /\ deployment.accounts = "database" => ~call.byBlock
          /\ rows' = <<row>> /\ call' = [call EXCEPT !.end = "answered"]
      BY <1>4 DEF Selected!AnswerAccount, Selected!Respond
    <2>2. /\ call' \in AccountCall /\ call'.of = "account" /\ call'.selected = call.selected
          /\ call'.exists = call.exists /\ call'.byBlock = call.byBlock
      BY <1>2, <2>1 DEF AccountCall
    <2>3. call.selected \subseteq fields
      BY <1>2 DEF AccountCall, Selected!Provided
    <2>4. deployment.accounts \in {"database", "rpc", "lite"}
      BY QServerAssumption DEF FieldsInv
    <2>5. deployment.accounts # "lite" => row.byBlock = call.byBlock
      BY <1>2, <2>1, <2>4 DEF AccountCall
    <2>6. rows'[1].exists = call.exists /\ rows'[1].fields = fields /\ rows'[1].byBlock = row.byBlock
      BY <2>1
    <2> HIDE DEF fields, row
    <2>7. SelectedIsAnswered'
      BY <1>1, <2>2, <2>3, <2>5, <2>6 DEF SelectedIsAnswered, Selected!SelectedIsAnswered
    <2> QED
      BY <1>1, <2>2, <2>7 DEF FieldsInv
  <1> QED
    BY <1>3, <1>4

\* Every step keeps the invariant, those of the other parts too.
LEMMA NextFieldsInv == FieldsInv /\ [ServerNext]_serverVars => FieldsInv'
  <1> SUFFICES ASSUME FieldsInv, [ServerNext]_serverVars PROVE FieldsInv'
    OBVIOUS
  <1>1. CASE UNCHANGED fieldsVars
    <2>1. \A i : Progress(i)' <=> Progress(i)
      BY <1>1 DEF fieldsVars, Progress, Selected!HasBoc, Selected!UseArchive, Selected!Stored, Selected!SelectsOthers
    <2>2. SelectedIsAnswered'
      BY <1>1 DEF FieldsInv, fieldsVars, SelectedIsAnswered, Selected!SelectedIsAnswered, Selected!HasBoc,
                  Selected!UseArchive, Selected!Stored
    <2> QED
      BY <1>1, <2>1, <2>2 DEF fieldsVars, FieldsInv
  <1>2. CASE FollowFields
    BY <1>2, CallsKeep, QueryRowsKeeps, GetBocsKeeps, ParseBocsKeeps, AnswerRowsKeeps, AnswerAccountKeeps
    DEF FollowFields, Selected!Next
  <1> QED
    BY <1>1, <1>2 DEF ServerNext, FollowPrecached, FollowLatency, FollowLifecycle, FollowPosting, serverVars

\* A call that is answered has every selected field of every row whose BOC can be
\* had, or tells an error, in every deployment (upgradeSelectionForBocParsing() and
\* parseBocs() of boc-parsers.ts, postProcessBlocks(), block-boc.ts); an account has
\* what was selected (queryAccountProvider(), resolve_account()).
THEOREM FieldsAreAnswered == ServerSpec => []SelectedIsAnswered
  <1>1. ServerInit => FieldsInv
    BY InitFieldsInv DEF ServerInit
  <1>2. FieldsInv => SelectedIsAnswered
    BY DEF FieldsInv
  <1> QED
    BY <1>1, <1>2, NextFieldsInv, PTL DEF ServerSpec

-----------------------------------------------------------------------------
(* Values cached for a time (CachedData): for every set of callers, every   *)
(* source and both kinds of loadActual()                                    *)
\* The inductive invariant: the single flight needs nothing else, but that no
\* waiter is lost rests on it (a load that ends is the one the flag stands
\* for), and so does the order of the versions.
CachedIInv ==
    /\ CachedTypeOK /\ SingleFlight /\ NoLostWaiter /\ AtMostOneTimer
    /\ WaitersHaveNoData /\ LoadsAreInOrder

\* The facts about constants the steps use.
LEMMA CachedMarkers == NoData = -1 /\ Idle = -2 /\ Unread = -1 /\ \A v \in Version : v \in Nat
  BY CachedDataAssumption DEF NoData, Idle, Unread, Version

\* The first state satisfies the inductive invariant.
LEMMA CachedInitIInv == CachedInit => CachedIInv
  <1> SUFFICES ASSUME CachedInit PROVE CachedIInv
    OBVIOUS
  <1>1. \A l \in Load : load[l] = Idle
    BY DEF CachedInit
  <1>2. CachedTypeOK
    BY CachedMarkers DEF CachedInit, CachedTypeOK
  <1>3. SingleFlight /\ NoLostWaiter
    BY <1>1 DEF CachedInit, SingleFlight, NoLostWaiter
  <1>4. AtMostOneTimer /\ WaitersHaveNoData
    BY DEF CachedInit, AtMostOneTimer, WaitersHaveNoData
  <1>5. LoadsAreInOrder
    BY <1>1, CachedMarkers DEF CachedInit, LoadsAreInOrder
  <1>6. QED
    BY <1>2, <1>3, <1>4, <1>5 DEF CachedIInv

\* A refresh is started at most once: after startRefreshData() the flag is set
\* and exactly one load is under way, which has read nothing if it is new.
LEMMA StartRefreshStep ==
    ASSUME CachedTypeOK, SingleFlight, LoadsAreInOrder, StartRefresh, UNCHANGED <<data, source>>
    PROVE  /\ refreshing' = TRUE
           /\ load' \in [Load -> Version \cup {Idle, Unread}]
           /\ SingleFlight'
           /\ LoadsAreInOrder'
  <1>1. CASE refreshing
    BY <1>1 DEF StartRefresh, CachedTypeOK, SingleFlight, LoadsAreInOrder
  <1>2. CASE ~refreshing
    <2>1. PICK l \in Load : load[l] = Idle /\ load' = [load EXCEPT ![l] = Unread]
      BY <1>2 DEF StartRefresh
    <2>2. refreshing' = TRUE
      BY <1>2 DEF StartRefresh
    <2>3. \A k \in Load : load'[k] = IF k = l THEN Unread ELSE Idle
      BY <1>2, <2>1 DEF CachedTypeOK, SingleFlight
    <2>4. load' \in [Load -> Version \cup {Idle, Unread}]
      BY <2>1 DEF CachedTypeOK
    <2>5. SingleFlight'
      BY <2>2, <2>3, CachedMarkers DEF SingleFlight
    <2>6. LoadsAreInOrder'
      BY <2>3, CachedMarkers DEF LoadsAreInOrder
    <2>7. QED
      BY <2>2, <2>4, <2>5, <2>6
  <1>3. QED
    BY <1>1, <1>2 DEF CachedTypeOK

\* The end of a load: with the load gone nothing is under way, as the flag says.
LEMMA CompleteRefreshStep ==
    ASSUME CachedTypeOK, SingleFlight, NoLostWaiter, AtMostOneTimer,
           NEW l \in Load, load[l] # Idle,
           load' = [load EXCEPT ![l] = Idle],
           NEW outcome \in {"resolved", "failed"}, CompleteRefresh(outcome)
    PROVE  /\ \A k \in Load : load'[k] = Idle
           /\ load' \in [Load -> Version \cup {Idle, Unread}]
           /\ SingleFlight' /\ NoLostWaiter' /\ AtMostOneTimer'
           /\ timers' \in Nat /\ refreshing' = FALSE /\ waiters' = {}
           /\ state' \in [Caller -> {"idle", "waiting", "resolved", "failed"}]
  <1>1. \A k \in Load : load'[k] = Idle
    BY DEF CachedTypeOK, SingleFlight
  <1>2. load' \in [Load -> Version \cup {Idle, Unread}]
    BY DEF CachedTypeOK
  <1>3. refreshing' = FALSE /\ waiters' = {}
    BY DEF CompleteRefresh
  <1>4. SingleFlight'
    BY <1>1, <1>3 DEF SingleFlight
  <1>5. state' \in [Caller -> {"idle", "waiting", "resolved", "failed"}]
    BY DEF CompleteRefresh, CachedTypeOK
  <1>6. NoLostWaiter'
    <2>1. \A c \in Caller : state'[c] # "waiting"
      BY DEF CompleteRefresh, CachedTypeOK, NoLostWaiter
    <2>2. QED
      BY <1>3, <2>1 DEF NoLostWaiter
  <1>7. timers' \in Nat /\ AtMostOneTimer'
    BY DEF CompleteRefresh, CachedTypeOK, AtMostOneTimer
  <1>8. QED
    BY <1>1, <1>2, <1>3, <1>4, <1>5, <1>6, <1>7

\* Every step of the cache keeps the inductive invariant.
LEMMA CachedNextIInv == CachedIInv /\ [CachedNext]_cachedVars => CachedIInv'
  <1> SUFFICES ASSUME CachedIInv, [CachedNext]_cachedVars PROVE CachedIInv'
    OBVIOUS
  <1> USE DEF CachedIInv
  <1>1. ASSUME NEW c \in Caller, GetCached(c) PROVE CachedIInv'
    <2>1. CASE data = NoData
      <3>1. StartRefresh /\ UNCHANGED <<data, source, timers>>
        BY <1>1, <2>1 DEF GetCached
      <3>2. SingleFlight' /\ LoadsAreInOrder' /\ refreshing'
            /\ load' \in [Load -> Version \cup {Idle, Unread}]
        BY <3>1, StartRefreshStep
      <3>3. waiters' = waiters \cup {c} /\ state' = [state EXCEPT ![c] = "waiting"]
        BY <1>1, <2>1 DEF GetCached
      <3>4. CachedTypeOK'
        BY <3>1, <3>2, <3>3 DEF CachedTypeOK
      <3>5. NoLostWaiter' /\ WaitersHaveNoData' /\ AtMostOneTimer'
        BY <2>1, <3>1, <3>2, <3>3
        DEF CachedTypeOK, NoLostWaiter, WaitersHaveNoData, AtMostOneTimer
      <3>6. QED
        BY <3>2, <3>4, <3>5
    <2>2. CASE data # NoData
      BY <1>1, <2>2
      DEF GetCached, CachedTypeOK, SingleFlight, NoLostWaiter, AtMostOneTimer, WaitersHaveNoData,
          LoadsAreInOrder
    <2>3. QED
      BY <2>1, <2>2
  <1>2. ASSUME NEW c \in Caller, Return(c) PROVE CachedIInv'
    BY <1>2
    DEF Return, CachedTypeOK, SingleFlight, NoLostWaiter, AtMostOneTimer, WaitersHaveNoData,
        LoadsAreInOrder
  <1>3. ASSUME NEW l \in Load, Read(l) PROVE CachedIInv'
    <2>1. CachedTypeOK'
      BY <1>3 DEF Read, CachedTypeOK
    <2>2. SingleFlight'
      BY <1>3, CachedMarkers DEF Read, CachedTypeOK, SingleFlight
    <2>3. LoadsAreInOrder'
      BY <1>3, CachedMarkers DEF Read, CachedTypeOK, LoadsAreInOrder
    <2>4. NoLostWaiter' /\ AtMostOneTimer' /\ WaitersHaveNoData'
      BY <1>3 DEF Read, NoLostWaiter, AtMostOneTimer, WaitersHaveNoData
    <2>5. QED
      BY <2>1, <2>2, <2>3, <2>4
  <1>4. ASSUME NEW l \in Load, LoadDone(l) PROVE CachedIInv'
    <2>1. load[l] # Idle /\ load[l] \in Version
          /\ load' = [load EXCEPT ![l] = Idle] /\ CompleteRefresh("resolved")
      BY <1>4, CachedMarkers DEF LoadDone
    <2>2. /\ \A k \in Load : load'[k] = Idle
          /\ load' \in [Load -> Version \cup {Idle, Unread}]
          /\ SingleFlight' /\ NoLostWaiter' /\ AtMostOneTimer'
          /\ timers' \in Nat /\ refreshing' = FALSE /\ waiters' = {}
          /\ state' \in [Caller -> {"idle", "waiting", "resolved", "failed"}]
      BY <2>1, CompleteRefreshStep
    <2>3. data' \in Version /\ source' = source
      <3>1. data' = Actual(load[l]) /\ source' = source
        BY <1>4 DEF LoadDone
      <3>2. load[l] < data => data \in Version
        BY <2>1, CachedMarkers DEF CachedTypeOK
      <3>3. QED
        BY <2>1, <3>1, <3>2, Zenon DEF Actual
    <2>4. CachedTypeOK' /\ WaitersHaveNoData'
      BY <2>2, <2>3 DEF CachedTypeOK, WaitersHaveNoData
    <2>5. LoadsAreInOrder'
      BY <1>4, <2>1, <2>2, <2>3, CachedMarkers DEF LoadDone, Actual, LoadsAreInOrder
    <2>6. QED
      BY <2>2, <2>4, <2>5
  <1>5. ASSUME NEW l \in Load, LoadFailed(l) PROVE CachedIInv'
    <2>1. load[l] # Idle /\ load' = [load EXCEPT ![l] = Idle]
          /\ CompleteRefresh("failed") /\ UNCHANGED <<source, data>>
      BY <1>5 DEF LoadFailed
    <2>2. /\ \A k \in Load : load'[k] = Idle
          /\ load' \in [Load -> Version \cup {Idle, Unread}]
          /\ SingleFlight' /\ NoLostWaiter' /\ AtMostOneTimer'
          /\ timers' \in Nat /\ refreshing' = FALSE /\ waiters' = {}
          /\ state' \in [Caller -> {"idle", "waiting", "resolved", "failed"}]
      BY <2>1, CompleteRefreshStep
    <2>3. CachedTypeOK' /\ WaitersHaveNoData'
      BY <2>1, <2>2 DEF CachedTypeOK, WaitersHaveNoData
    <2>4. LoadsAreInOrder'
      BY <2>1, <2>2, CachedMarkers DEF LoadsAreInOrder
    <2>5. QED
      BY <2>2, <2>3, <2>4
  <1>6. ASSUME TimerFires PROVE CachedIInv'
    <2>1. StartRefresh /\ UNCHANGED <<data, source, waiters, state>>
          /\ timers' = timers - 1 /\ timers > 0
      BY <1>6 DEF TimerFires
    <2>2. SingleFlight' /\ LoadsAreInOrder' /\ refreshing' = TRUE
          /\ load' \in [Load -> Version \cup {Idle, Unread}]
      BY <2>1, StartRefreshStep
    <2>3. CachedTypeOK' /\ AtMostOneTimer'
      BY <2>1, <2>2 DEF CachedTypeOK, AtMostOneTimer
    <2>4. NoLostWaiter' /\ WaitersHaveNoData'
      BY <2>1, <2>2 DEF NoLostWaiter, WaitersHaveNoData
    <2>5. QED
      BY <2>2, <2>3, <2>4
  <1>7. ASSUME ChangeSource PROVE CachedIInv'
    <2>1. CachedTypeOK' /\ SingleFlight' /\ NoLostWaiter' /\ AtMostOneTimer' /\ WaitersHaveNoData'
      BY <1>7
      DEF ChangeSource, CachedTypeOK, SingleFlight, NoLostWaiter, AtMostOneTimer, WaitersHaveNoData
    <2>2. LoadsAreInOrder'
      <3>1. data \in Int /\ source \in Int /\ source' \in Int
        BY <1>7, CachedMarkers DEF ChangeSource, CachedTypeOK
      <3>2. \A l \in Load : load[l] \in Version => load[l] \in Int
        BY CachedMarkers
      <3>3. data' = data /\ load' = load /\ (~KeepNewest => source' > source)
        BY <1>7 DEF ChangeSource
      <3>4. ASSUME ~KeepNewest
            PROVE  /\ data' <= source'
                   /\ \A l \in Load :
                        load'[l] \in Version => data' <= load'[l] /\ load'[l] <= source'
        BY <3>1, <3>2, <3>3, <3>4 DEF LoadsAreInOrder
      <3>5. QED
        BY <3>4, Zenon DEF LoadsAreInOrder
    <2>3. QED
      BY <2>1, <2>2
  <1>8. CASE UNCHANGED cachedVars
    BY <1>8
    DEF cachedVars, CachedTypeOK, SingleFlight, NoLostWaiter, AtMostOneTimer, WaitersHaveNoData,
        LoadsAreInOrder
  <1>9. QED
    BY <1>1, <1>2, <1>3, <1>4, <1>5, <1>6, <1>7, <1>8 DEF CachedNext

\* The inductive invariant holds in every reachable state.
LEMMA CachedInvariance == CachedSpec => []CachedIInv
  <1>1. QED
    BY CachedInitIInv, CachedNextIInv, PTL DEF CachedSpec

\* The variables keep their types.
THEOREM CachedTypeCorrect == CachedSpec => []CachedTypeOK
  <1>1. CachedIInv => CachedTypeOK
    BY DEF CachedIInv
  <1>2. QED
    BY <1>1, CachedInvariance, PTL

\* startRefreshData() and completeRefresh() never let two loads be under way,
\* and the flag refreshing tells exactly when one is.
THEOREM AtMostOneLoad == CachedSpec => []SingleFlight
  <1>1. CachedIInv => SingleFlight
    BY DEF CachedIInv
  <1>2. QED
    BY <1>1, CachedInvariance, PTL

\* Every caller that waits in get() is in refreshResolvers of a load under way.
THEOREM WaitersAreServed == CachedSpec => []NoLostWaiter
  <1>1. CachedIInv => NoLostWaiter
    BY DEF CachedIInv
  <1>2. QED
    BY <1>1, CachedInvariance, PTL

\* Refresh timers never pile up (AtMostOneTimer): completeRefresh() replaces the
\* armed timer, whoever started the refresh.
THEOREM TimersDoNotPileUp == CachedSpec => []AtMostOneTimer
  <1>1. CachedIInv => AtMostOneTimer
    BY DEF CachedIInv
  <1>2. QED
    BY <1>1, CachedInvariance, PTL

\* Background refreshing does not stop: no step of the cache, a failed load
\* included, leaves it without a load under way or a timer armed.
THEOREM RefreshNeverStops == CachedSpec => RefreshGoesOn
  <1>1. CachedIInv /\ [CachedNext]_cachedVars => [refreshing \/ timers > 0 => refreshing' \/ timers' > 0]_cachedVars
    <2> SUFFICES ASSUME CachedIInv, CachedNext, refreshing \/ timers > 0
                 PROVE  refreshing' \/ timers' > 0
      OBVIOUS
    <2>1. ASSUME NEW c \in Caller, GetCached(c) \/ Return(c) PROVE refreshing' \/ timers' > 0
      BY <2>1 DEF GetCached, Return, StartRefresh
    <2>2. ASSUME NEW l \in Load, Read(l) PROVE refreshing' \/ timers' > 0
      BY <2>2 DEF Read
    <2>3. ASSUME NEW l \in Load, LoadDone(l) \/ LoadFailed(l)
          PROVE  refreshing' \/ timers' > 0
      BY <2>3 DEF LoadDone, LoadFailed, CompleteRefresh
    <2>4. CASE TimerFires
      BY <2>4 DEF TimerFires, StartRefresh
    <2>5. CASE ChangeSource
      BY <2>5 DEF ChangeSource
    <2>6. QED
      BY <2>1, <2>2, <2>3, <2>4, <2>5 DEF CachedNext
  <1>2. QED
    BY <1>1, CachedInvariance, PTL DEF CachedSpec, RefreshGoesOn

\* The cached value never goes back to an older one.
THEOREM DataNeverOlder == CachedSpec => NeverOlder
  <1>1. CachedIInv /\ [CachedNext]_cachedVars => [data' >= data]_cachedVars
    <2> SUFFICES ASSUME CachedIInv, CachedNext PROVE data' >= data
      OBVIOUS
    <2>1. data \in Int
      BY CachedMarkers DEF CachedIInv, CachedTypeOK
    <2>2. ASSUME NEW l \in Load, LoadDone(l) PROVE data' >= data
      BY <2>1, <2>2, CachedMarkers, CachedDataAssumption
      DEF LoadDone, Actual, CachedIInv, LoadsAreInOrder
    <2>3. ASSUME NEW l \in Load, Read(l) \/ LoadFailed(l) PROVE data' >= data
      BY <2>1, <2>3 DEF Read, LoadFailed
    <2>4. ASSUME NEW c \in Caller, GetCached(c) \/ Return(c) PROVE data' >= data
      BY <2>1, <2>4 DEF GetCached, Return
    <2>5. CASE TimerFires \/ ChangeSource
      BY <2>1, <2>5 DEF TimerFires, ChangeSource
    <2>6. QED
      BY <2>2, <2>3, <2>4, <2>5 DEF CachedNext
  <1>2. QED
    BY <1>1, CachedInvariance, PTL DEF CachedSpec, NeverOlder

\* Once a value was cached, no call of get() waits or fails.
THEOREM LastKnownIsServed == CachedSpec => ServedOnceCached
  <1> DEFINE Served == data # NoData =>
                 \A c \in Caller : state'[c] # state[c] => state'[c] \in {"idle", "resolved"}
  <1>1. CachedIInv /\ [CachedNext]_cachedVars => [Served]_cachedVars
    <2> SUFFICES ASSUME CachedIInv, CachedNext, data # NoData,
                        NEW c \in Caller, state'[c] # state[c]
                 PROVE  state'[c] \in {"idle", "resolved"}
      OBVIOUS
    <2>1. waiters = {} /\ state \in [Caller -> {"idle", "waiting", "resolved", "failed"}]
      BY DEF CachedIInv, WaitersHaveNoData, CachedTypeOK
    <2>2. ASSUME NEW d \in Caller, GetCached(d) \/ Return(d) PROVE state'[c] \in {"idle", "resolved"}
      BY <2>1, <2>2 DEF GetCached, Return
    <2>3. ASSUME NEW l \in Load, Read(l) \/ LoadDone(l) \/ LoadFailed(l)
          PROVE  state'[c] \in {"idle", "resolved"}
      BY <2>1, <2>3 DEF Read, LoadDone, LoadFailed, CompleteRefresh
    <2>4. CASE TimerFires \/ ChangeSource
      BY <2>4 DEF TimerFires, ChangeSource
    <2>5. QED
      BY <2>2, <2>3, <2>4 DEF CachedNext
  <1>2. QED
    BY <1>1, CachedInvariance, PTL DEF CachedSpec, ServedOnceCached

-----------------------------------------------------------------------------
(* The memcached front of a database (PrecachedCombiner).  The invariant says *)
(* that every value on the way from the database through memcached to an      *)
(* answer was read after the fingerprint in its key: the fingerprints are     *)
(* never ahead of the database, and the database only grows.                  *)
\* No fingerprint is ahead of the database.
NoneAhead ==
    /\ \A s \in Server : configHash[s] <= size /\ loaded[s] <= size
    /\ \A r \in Request : key[r] <= size

\* A request has a key once it has begun, and no result before.
HasKey == \A r \in Request : IF pc[r] = "idle" THEN docs[r] = Absent ELSE key[r] \in Size

\* A request that is about to store its result has one.
HasResult == \A r \in Request : pc[r] = "store" => docs[r] \in Size

PrecachedIInv == TypeOK /\ NoneAhead /\ HasKey /\ HasResult /\ CacheIsFresh /\ AnswersAreFresh

\* The markers of the cache are no sizes.
LEMMA PrecachedMarkers == Absent \notin Size /\ Fetching \notin Size /\ Absent # Fetching
                 /\ \A n \in Size : n \in Int /\ n >= 0
  BY PrecachedAssumption DEF Absent, Fetching, Size

\* It holds at first.
LEMMA PrecachedInitIInv == Init => PrecachedIInv
<1> SUFFICES ASSUME Init PROVE PrecachedIInv OBVIOUS
<1> USE PrecachedAssumption, PrecachedMarkers
<1>1. TypeOK BY DEF Init, TypeOK, Size
<1>2. NoneAhead BY DEF Init, NoneAhead, Size, Absent
<1>3. HasKey /\ HasResult BY DEF Init, HasKey, HasResult
<1>4. CacheIsFresh BY DEF Init, CacheIsFresh
<1>5. AnswersAreFresh BY DEF Init, AnswersAreFresh
<1> QED BY <1>1, <1>2, <1>3, <1>4, <1>5 DEF PrecachedIInv

\* memcached stays fresh when a fresh value or the mark is set.
LEMMA SetKeepsFresh ==
    ASSUME TypeOK, CacheIsFresh, NEW k \in Size, NEW value \in Size \cup {Fetching},
           value \in Size => value >= k, Set(k, value)
    PROVE  cache' \in [Size -> Size \cup {Absent, Fetching}] /\ CacheIsFresh'
  BY PrecachedMarkers DEF TypeOK, CacheIsFresh, Set

\* Every step keeps it.
LEMMA PrecachedNextIInv == PrecachedIInv /\ [Next]_vars => PrecachedIInv'
<1> SUFFICES ASSUME PrecachedIInv, [Next]_vars PROVE PrecachedIInv' OBVIOUS
<1> USE PrecachedAssumption, PrecachedMarkers DEF PrecachedIInv
<1>1. ASSUME Grow PROVE PrecachedIInv'
  <2>1. size' \in Size /\ size' >= size BY <1>1 DEF Grow, TypeOK, Size
  <2>2. TypeOK' BY <1>1, <2>1 DEF Grow, TypeOK
  <2>3. NoneAhead'
    <3>1. \A n \in Size \cup {Absent} : n <= size => n <= size'
      BY <2>1 DEF Size, Absent, TypeOK
    <3> QED BY <1>1, <3>1 DEF Grow, NoneAhead, TypeOK
  <2>4. (HasKey /\ HasResult /\ CacheIsFresh /\ AnswersAreFresh)'
    BY <1>1 DEF Grow, HasKey, HasResult, CacheIsFresh, AnswersAreFresh
  <2> QED BY <2>2, <2>3, <2>4
<1>2. ASSUME NEW k \in Size, MarkExpires(k) \/ ResultExpires(k) PROVE PrecachedIInv'
  <2>1. TypeOK' BY <1>2 DEF MarkExpires, ResultExpires, TypeOK
  <2>2. CacheIsFresh' BY <1>2 DEF MarkExpires, ResultExpires, CacheIsFresh, TypeOK
  <2>3. (NoneAhead /\ HasKey /\ HasResult /\ AnswersAreFresh)'
    BY <1>2 DEF MarkExpires, ResultExpires, NoneAhead, HasKey, HasResult, AnswersAreFresh
  <2> QED BY <2>1, <2>2, <2>3
<1>3. ASSUME NEW r \in Request, Start(r) PROVE PrecachedIInv'
  <2>1. PICK s \in Server : key' = [key EXCEPT ![r] = configHash[s]] BY <1>3 DEF Start
  <2>2. configHash[s] \in Size /\ configHash[s] <= size BY DEF TypeOK, NoneAhead
  <2>3. TypeOK' BY <1>3, <2>1, <2>2 DEF Start, TypeOK
  <2>4. NoneAhead' BY <1>3, <2>1, <2>2 DEF Start, NoneAhead, TypeOK
  <2>5. (HasKey /\ HasResult)' BY <1>3, <2>1, <2>2 DEF Start, HasKey, HasResult, TypeOK
  <2>6. CacheIsFresh' BY <1>3 DEF Start, CacheIsFresh
  <2>7. docs[r] = Absent BY <1>3 DEF Start, HasKey
  <2>8. AnswersAreFresh' BY <1>3, <2>1, <2>2, <2>7 DEF Start, AnswersAreFresh, TypeOK
  <2> QED BY <2>3, <2>4, <2>5, <2>6, <2>8
<1>4. ASSUME NEW r \in Request, Get(r) PROVE PrecachedIInv'
  <2>1. key[r] \in Size BY <1>4 DEF Get, HasKey
  <2>2. UNCHANGED <<size, cache, configHash, loaded, key>> BY <1>4 DEF Get
  <2>3. CASE UNCHANGED docs /\ \E p \in {"sleep", "mark"} : pc' = [pc EXCEPT ![r] = p]
    <3>1. TypeOK' BY <2>2, <2>3 DEF TypeOK
    <3>2. (HasKey /\ HasResult)' BY <2>1, <2>2, <2>3 DEF HasKey, HasResult, TypeOK
    <3> QED BY <2>2, <2>3, <3>1, <3>2 DEF NoneAhead, CacheIsFresh, AnswersAreFresh
  <2>4. CASE /\ cache[key[r]] \in Size
             /\ docs' = [docs EXCEPT ![r] = cache[key[r]]]
             /\ pc' = [pc EXCEPT ![r] = "done"]
    <3>1. TypeOK' BY <2>2, <2>4 DEF TypeOK
    <3>2. (HasKey /\ HasResult)' BY <2>1, <2>2, <2>4 DEF HasKey, HasResult, TypeOK
    <3>3. cache[key[r]] >= key[r] BY <2>1, <2>4 DEF CacheIsFresh
    <3>4. AnswersAreFresh' BY <2>2, <2>4, <3>3 DEF AnswersAreFresh, TypeOK
    <3> QED BY <2>2, <3>1, <3>2, <3>4 DEF NoneAhead, CacheIsFresh
  <2> QED BY <1>4, <2>3, <2>4 DEF Get
<1>5. ASSUME NEW r \in Request, Poll(r) \/ QueryFails(r) PROVE PrecachedIInv'
  <2>1. TypeOK' BY <1>5 DEF Poll, QueryFails, TypeOK
  <2>2. (HasKey /\ HasResult)' BY <1>5 DEF Poll, QueryFails, HasKey, HasResult, TypeOK
  <2> QED BY <1>5, <2>1, <2>2 DEF Poll, QueryFails, NoneAhead, CacheIsFresh, AnswersAreFresh
<1>6. ASSUME NEW r \in Request, Mark(r) PROVE PrecachedIInv'
  <2>1. key[r] \in Size BY <1>6 DEF Mark, HasKey
  <2>2. cache' \in [Size -> Size \cup {Absent, Fetching}] /\ CacheIsFresh'
    BY <1>6, <2>1, SetKeepsFresh DEF Mark
  <2>3. TypeOK' BY <1>6, <2>2 DEF Mark, TypeOK
  <2>4. (HasKey /\ HasResult)' BY <1>6 DEF Mark, HasKey, HasResult, TypeOK
  <2> QED BY <1>6, <2>2, <2>3, <2>4 DEF Mark, NoneAhead, AnswersAreFresh
<1>7. ASSUME NEW r \in Request, Query(r) PROVE PrecachedIInv'
  <2>1. key[r] \in Size /\ key[r] <= size BY <1>7 DEF Query, HasKey, NoneAhead
  <2>2. TypeOK' BY <1>7 DEF Query, TypeOK
  <2>3. (HasKey /\ HasResult)' BY <1>7, <2>1 DEF Query, HasKey, HasResult, TypeOK
  <2>4. AnswersAreFresh' BY <1>7, <2>1 DEF Query, AnswersAreFresh, TypeOK
  <2> QED BY <1>7, <2>2, <2>3, <2>4 DEF Query, NoneAhead, CacheIsFresh
<1>8. ASSUME NEW r \in Request, Store(r) PROVE PrecachedIInv'
  <2>1. key[r] \in Size /\ docs[r] \in Size BY <1>8 DEF Store, HasKey, HasResult
  <2>2. docs[r] >= key[r] BY <2>1 DEF AnswersAreFresh
  <2>3. cache' \in [Size -> Size \cup {Absent, Fetching}] /\ CacheIsFresh'
    BY <1>8, <2>1, <2>2, SetKeepsFresh DEF Store
  <2>4. TypeOK' BY <1>8, <2>3 DEF Store, TypeOK
  <2>5. (HasKey /\ HasResult)' BY <1>8 DEF Store, HasKey, HasResult, TypeOK
  <2> QED BY <1>8, <2>3, <2>4, <2>5 DEF Store, NoneAhead, AnswersAreFresh
<1>9. ASSUME NEW s \in Server, LoadFingerprint(s) \/ SetHash(s) PROVE PrecachedIInv'
  <2>1. TypeOK' BY <1>9 DEF LoadFingerprint, SetHash, TypeOK
  <2>2. NoneAhead' BY <1>9 DEF LoadFingerprint, SetHash, NoneAhead, TypeOK, Size, Absent
  <2>3. (HasKey /\ HasResult /\ CacheIsFresh /\ AnswersAreFresh)'
    BY <1>9 DEF LoadFingerprint, SetHash, HasKey, HasResult, CacheIsFresh, AnswersAreFresh
  <2> QED BY <2>1, <2>2, <2>3
<1>10. CASE UNCHANGED vars
  BY <1>10 DEF vars, TypeOK, NoneAhead, HasKey, HasResult, CacheIsFresh, AnswersAreFresh
<1> QED BY <1>1, <1>2, <1>3, <1>4, <1>5, <1>6, <1>7, <1>8, <1>9, <1>10 DEF Next

\* It holds in every state.
LEMMA PrecachedInvariance == Spec => []PrecachedIInv
  BY PrecachedInitIInv, PrecachedNextIInv, PTL DEF Spec

\* The state of the servers, of their requests and of memcached keeps its type:
\* in particular no request takes the FETCHING mark for a result.
THEOREM PrecachedTypeCorrect == Spec => []TypeOK
  BY PrecachedInvariance, PTL DEF PrecachedIInv

\* No answer of query(), fetched or taken from memcached, is older than the
\* fingerprint that the server of the request had when it computed the key.
THEOREM AnswersFresh == Spec => []AnswersAreFresh
  BY PrecachedInvariance, PTL DEF PrecachedIInv
=============================================================================
