----------------------------- MODULE QueriesInv -----------------------------
(***************************************************************************)
(* Why no end of file overtakes the data it ends: the inductive invariant  *)
(* of Queries, in named parts.  It counts ends of file.  A node is done    *)
(* with a client when it has handled all the ends of file it waits for,    *)
(* and each queue has got as many as it has senders that are done.  And    *)
(* why the counts of query 1 are right, an invariant on top of it.         *)
(***************************************************************************)
EXTENDS Queries

Gateways == {"games_platform", "games_indie", "games_action", "reviews"}

FanIns == {"top_queue", "joined_counted", "joined_percentile"}

(* What publishes to the queues of a name. *)
Writer ==
  [ platforms        |-> "platform",       platform_counts   |-> "platform_counter",
    indie_q2         |-> "indie",          release_date      |-> "release_date",
    topn_playtime_q2 |-> "topn_playtime",
    indie_q3         |-> "indie",          reviews_q3        |-> "review",
    joined_top       |-> "joiner_top",     top_queue         |-> "topn",
    action_q4        |-> "action",         text_reviews_q4   |-> "review",
    reviews_q4       |-> "text",           joined_counted    |-> "joiner_counter",
    action_q5        |-> "action",         reviews_q5        |-> "review",
    joined_percentile |-> "joiner_percentile" ]

(* The nodes whose ends of file queue k gets, and all that publish to it.  *)
EndSenders(k) ==
  CASE k[1] \in Gateways                         -> {}
    [] k[1] = "text_reviews_q4" /\ k[2] # 0      -> {<<"text", k[2] - 1>>}
    [] k[1] = "reviews_q4"                       -> {<<"text", Texts - 1>>}
    [] k[1] = "joined_top"                       -> {<<"joiner_top", k[2]>>}
    [] k[1] \in FanIns                           -> {<<Writer[k[1]], j>> : j \in 0..(Joiners - 1)}
    [] OTHER                                     -> {<<Writer[k[1]], 0>>}

Senders(k) ==
  CASE k[1] = "reviews_q4"      -> {<<"text", t>> : t \in 0..(Texts - 1)}
    [] k[1] = "text_reviews_q4" -> EndSenders(k) \union {<<"review", 0>>}
    [] OTHER                    -> EndSenders(k)

(* The node that answers the query. *)
Answerer ==
  << <<"platform_counter_agg", "topn_playtime_agg", "topn_agg", "counter_agg", "percentile_agg">>[query], 0>>

Inputs(n) == {k \in Queues[query] : NodeOf(k) = n}

(* The data messages of the queues of a name; the rest are ends of file.   *)
Data ==
  [ games_platform |-> "games",      games_indie      |-> "games",   games_action    |-> "games",
    reviews        |-> "reviews",    platforms        |-> "platforms",
    platform_counts |-> "platforms", indie_q2         |-> "releases",
    release_date   |-> "playtimes",  topn_playtime_q2 |-> "playtimes",
    indie_q3       |-> "name",       reviews_q3       |-> "score",
    joined_top     |-> "scores",     top_queue        |-> "scores",
    action_q4      |-> "name",       text_reviews_q4  |-> "text",
    reviews_q4     |-> "score",      joined_counted   |-> "name",
    action_q5      |-> "name",       reviews_q5       |-> "score",
    joined_percentile |-> "scores" ]

Origin(k) == IF Data[k[1]] = "score" THEN "review" ELSE "game"

JoinInputs == {"indie_q3", "reviews_q3", "action_q4", "reviews_q4", "action_q5", "reviews_q5"}

IsSeq(s) == Len(s) \in Nat /\ s = [i \in 1..Len(s) |-> s[i]]

(* What a reader relies on in a message of queue k. *)
Carried(k, m) ==
  /\ m.client \in Clients
  /\ m.kind \in {Data[k[1]], "eof"}
  /\ IsEof(m) /\ k[1] \in JoinInputs => m.origin = Origin(k)
  /\ IsEof(m) /\ k[1] = "text_reviews_q4" => m.visited = 0..(k[2] - 1)
  /\ m.kind = "games" => GamesBatch(m)
  /\ m.kind \in {"reviews", "text"} => m.reviews \in Seq(Review)
  /\ m.kind = "scores" /\ k[1] = "joined_percentile" => IsSeq(m.scores)

-----------------------------------------------------------------------------
(* The ends of file of client c in queue k among the messages E of a log.  *)
EndsAmong(E, k, c) == {i \in Ends(k, c) : [from |-> k, at |-> i] \in E}

DoneAmong(E, n, c) == \A k \in Inputs(n) : Cardinality(EndsAmong(E, k, c)) = EndsIn(k)

Handled(n) == Range(log[n])

Done(n, c) == DoneAmong(Handled(n), n, c)

IsJoiner(n) == n[1] \in {"joiner_top", "joiner_counter", "joiner_percentile"}

IsFanIn(n) == n[1] \in {"topn_agg", "counter_agg", "percentile_agg"}

(* What a node keeps of a client has the fields its handlers use. *)
RecShape(n, r) ==
  /\ ~ Keeps(n) => r = << >>
  /\ IsJoiner(n) => r = [info |-> r.info, eofs |-> r.eofs] /\ IsFiniteSet(DOMAIN r.info)
  /\ n[1] \in {"topn", "topn_agg"} => r = [top |-> r.top, recv |-> r.recv]
  /\ n[1] = "topn" => r.recv = 0
  /\ n[1] \in {"counter_agg", "percentile_agg"} => r = [games |-> r.games, recv |-> r.recv]
  /\ n[1] = "percentile_agg" => IsSeq(r.games)

(* It is right about the ends of file among the messages E it comes from.  *)
RecCounts(E, n, c, r) ==
  /\ IsJoiner(n) => r.eofs = {Origin(k) : k \in {k \in Inputs(n) : EndsAmong(E, k, c) # {}}}
  /\ IsFanIn(n) => \A k \in Inputs(n) : r.recv = Cardinality(EndsAmong(E, k, c))

RecFits(E, n, c, r) ==
  /\ RecShape(n, r)
  /\ IF DoneAmong(E, n, c) THEN r = New(n) ELSE RecCounts(E, n, c, r)

-----------------------------------------------------------------------------
Shapes ==
  /\ query \in Asked /\ upload \in Uploads[query]
  /\ sent = [k \in Queues[query] |-> sent[k]]
  /\ \A k \in Queues[query] : IsSeq(sent[k])
  /\ taken \in [Queues[query] -> Nat]
  /\ \A k \in Queues[query] : taken[k] <= Len(sent[k])
  /\ rec = [n \in Nodes[query] |-> [c \in Clients |-> rec[n][c]]]
  /\ log \in [Nodes[query] -> Seq([from : Queues[query], at : Nat])]
  /\ IsSeq(reports)

(* The gateway's queues never get more than the upload. *)
Uploaded ==
  \A k \in Queues[query] : k[1] \in Gateways =>
    sent[k] = IF k[1] = "reviews" THEN upload.reviews ELSE upload.games

Carries == \A k \in Queues[query] : \A i \in 1..Len(sent[k]) : Carried(k, sent[k][i])

(* A log has what was taken from the node's queues, each in its order.     *)
LogIsTaken ==
  /\ \A n \in Nodes[query] : \A e \in Handled(n) : NodeOf(e.from) = n /\ e.at \in 1..taken[e.from]
  /\ \A k \in Queues[query] : \A i \in 1..taken[k] : [from |-> k, at |-> i] \in Handled(NodeOf(k))
  /\ \A n \in Nodes[query] : \A i \in 1..Len(log[n]) : \A j \in 1..Len(log[n]) :
       i < j /\ log[n][i].from = log[n][j].from => log[n][i].at < log[n][j].at

(* Every sender that is done has put its end of file in, and nobody else.  *)
EndsCounted ==
  \A k \in Queues[query] : k[1] \notin Gateways => \A c \in Clients :
    Cardinality(Ends(k, c)) = Cardinality({n \in EndSenders(k) : Done(n, c)})

RecsFit == \A n \in Nodes[query] : \A c \in Clients : RecFits(Handled(n), n, c, rec[n][c])

AnswerIsLast ==
  \A i \in 1..Len(reports) :
    reports[i].client \in Clients /\ (IsLast(reports[i]) => Done(Answerer, reports[i].client))

(* How far each end of file is, what a node knows of them, and that none   *)
(* is in front of data, be the query, the upload, the order in which       *)
(* queues are served and the restarts what they may.                       *)
NetworkInvariant ==
  /\ Shapes
  /\ Uploaded
  /\ Carries
  /\ LogIsTaken
  /\ EndsCounted
  /\ EofBehindData
  /\ RecsFit
  /\ AnswerIsLast
  /\ NothingAfterResult

-----------------------------------------------------------------------------
(* Query 1, whose counts are right at every stage: the batches the filter  *)
(* took are in the counter's queue one by one, a counter has               *)
(* counted those among the messages E it handled, and each client's        *)
(* counts are handed over once, when they are the total.                   *)
Counted == <<"platforms", 0>>

Summed == <<"platform_counts", 0>>

Told(E, c) == \E e \in E : Message(e).client = c /\ ~ IsEof(Message(e))

Ended(E, c) == \E e \in E : Message(e).client = c /\ IsEof(Message(e))

TotalAmong(E, c) ==
  [p \in Platforms |-> Cardinality({x \in Supporting(c, p) : [from |-> Counted, at |-> x[1]] \in E})]

CountsRight(E, n, c, r) ==
  /\ n = NodeOf(Counted) => r = IF Ended(E, c) THEN NoCounts ELSE TotalAmong(E, c)
  /\ n = NodeOf(Summed)  => r = IF Told(E, c) /\ ~ Ended(E, c) THEN Total(c) ELSE NoCounts

(* Message m is what the platform filter makes of u. *)
CountsOf(u, m) ==
  /\ m.client = u.client
  /\ IsEof(m) <=> IsEof(u)
  /\ ~ IsEof(u) => m.counts = Counts(u.games)

BatchesCounted ==
  /\ Len(sent[Counted]) = taken[<<"games_platform", 0>>]
  /\ \A i \in 1..Len(sent[Counted]) : CountsOf(upload.games[i], sent[Counted][i])

(* In front of a client's end of file in s is its total, and nothing else. *)
TotalThenEnd(s, i) ==
  LET Like(j) == s[j].client = s[i].client
  IN  /\ IsEof(s[i]) => \E j \in 1..(i - 1) : Like(j) /\ ~ IsEof(s[j])
      /\ \A j \in 1..(i - 1) : Like(j) => (IsEof(s[i]) <=> ~ IsEof(s[j]))

TotalsOnce ==
  \A i \in 1..Len(sent[Summed]) :
    LET m == sent[Summed][i]
    IN  /\ Ended(Handled(NodeOf(Counted)), m.client)
        /\ ~ IsEof(m) => m.counts = Total(m.client)
        /\ TotalThenEnd(sent[Summed], i)

CountersRight ==
  \A n \in Nodes[query] : \A c \in Clients : CountsRight(Handled(n), n, c, rec[n][c])

(* In query 1 every stage has counted each client's batches once, restarts *)
(* or not (platform_counter.go): what makes PlatformsCounted inductive,    *)
(* beside NetworkInvariant.                                                *)
CountsInvariant ==
  query = 1 => /\ BatchesCounted
               /\ TotalsOnce
               /\ CountersRight
               /\ PlatformsCounted
=============================================================================
