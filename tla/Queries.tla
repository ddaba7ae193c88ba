------------------------------ MODULE Queries -------------------------------
(***************************************************************************)
(* The five queries, from the queues the gateway fills with a client's     *)
(* games and reviews to the reports queue: filters, joiners, tops,         *)
(* counters and aggregators connected as in configs/*.json.                *)
(*                                                                         *)
(* A step is one whole message handled: processed, published, logged,      *)
(* acknowledged.  What a crash inside one does is the subject of Worker;   *)
(* here any node that keeps something is restarted between two messages    *)
(* and rebuilds it from its recovery log.  The queries share only their    *)
(* first filters, which keep nothing: a behaviour is one query's, and what *)
(* a filter publishes for another leaves the model.  The gateway's queues  *)
(* are full from the start, which only makes the nodes behind them slow.   *)
(***************************************************************************)
EXTENDS Filters, Joiners, Hybrids, Aggregators

CONSTANTS
  Clients,
  Asked,       \* the queries of this instance
  Uploads,     \* Uploads[q]: a set of [games, reviews], each the Seq of the
               \* messages of a gateway queue
  MaxRestarts  \* bound: restarts of nodes

ASSUME QueriesAssumption ==
  /\ Asked \subseteq 1..5 /\ DOMAIN Uploads = Asked
  /\ Texts \in Nat \ {0} /\ Joiners \in Nat \ {0} /\ Expected = Joiners
  /\ Shard \in [Games -> 0..(Joiners - 1)]
  /\ JoinBatch \in Nat \ {0} /\ CounterBatch \in Nat \ {0}
  /\ Percent \in Nat /\ PercentBatch \in Nat \ {0}
  /\ MaxRestarts \in Nat

IsEof(m) == m.kind = "eof"

(* What the gateway publishes of its clients: batches, and a client's end  *)
(* of file at most once and after them (Upload).                           *)
Ordered(s) ==
  \A i \in DOMAIN s : \A j \in DOMAIN s :
    s[i].client = s[j].client /\ IsEof(s[i]) => j <= i

Review == [game : Games, score : {-1, 1}, english : BOOLEAN]

GamesBatch(m) == m.kind = "games" /\ m.games \in Seq(Games)

ReviewsBatch(m) == m.kind = "reviews" /\ m.reviews \in Seq(Review)

ASSUME UploadsAssumption ==
  \A q \in Asked : \A u \in Uploads[q] :
    /\ u.games \in Seq(Range(u.games)) /\ u.reviews \in Seq(Range(u.reviews))
    /\ Ordered(u.games) /\ Ordered(u.reviews)
    /\ \A m \in Range(u.games) : m.client \in Clients /\ (IsEof(m) \/ GamesBatch(m))
    /\ \A m \in Range(u.reviews) : m.client \in Clients /\ (IsEof(m) \/ ReviewsBatch(m))

-----------------------------------------------------------------------------
(* The node that reads the queues of a name, and how many there are.       *)
Reader ==
  [ games_platform    |-> "platform",         platforms        |-> "platform_counter",
    platform_counts   |-> "platform_counter_agg",
    games_indie       |-> "indie",            indie_q2         |-> "release_date",
    release_date      |-> "topn_playtime",    topn_playtime_q2 |-> "topn_playtime_agg",
    reviews           |-> "review",
    reviews_q3        |-> "joiner_top",       indie_q3         |-> "joiner_top",
    joined_top        |-> "topn",             top_queue        |-> "topn_agg",
    games_action      |-> "action",           text_reviews_q4  |-> "text",
    reviews_q4        |-> "joiner_counter",   action_q4        |-> "joiner_counter",
    joined_counted    |-> "counter_agg",
    reviews_q5        |-> "joiner_percentile", action_q5       |-> "joiner_percentile",
    joined_percentile |-> "percentile_agg" ]

Width(name) ==
  CASE name \in {"reviews_q3", "indie_q3", "joined_top", "reviews_q4", "action_q4",
                 "reviews_q5", "action_q5"} -> Joiners
    [] name = "text_reviews_q4"             -> Texts
    [] OTHER                                -> 1

GamesQueue == <<"games_platform", "games_indie", "games_indie", "games_action", "games_action">>

QueuesOf(q) ==
  CASE q = 1 -> {"games_platform", "platforms", "platform_counts"}
    [] q = 2 -> {"games_indie", "indie_q2", "release_date", "topn_playtime_q2"}
    [] q = 3 -> {"games_indie", "reviews", "indie_q3", "reviews_q3", "joined_top", "top_queue"}
    [] q = 4 -> {"games_action", "reviews", "action_q4", "text_reviews_q4", "reviews_q4",
                 "joined_counted"}
    [] q = 5 -> {"games_action", "reviews", "action_q5", "reviews_q5", "joined_percentile"}

Queues == [q \in 1..5 |-> UNION { {<<name, i>> : i \in 0..(Width(name) - 1)} : name \in QueuesOf(q) }]

NodeOf(k) == <<Reader[k[1]], k[2]>>

Nodes == [q \in 1..5 |-> {NodeOf(k) : k \in Queues[q]}]

(* How many ends of file of a client a queue gets. *)
EndsIn(k) ==
  IF k[1] \in {"top_queue", "joined_counted", "joined_percentile"} THEN Expected ELSE 1

VARIABLES
  query,    \* the query of this behaviour
  sent,     \* [Queues[query] -> Seq of messages]: all that were ever put in
  taken,    \* [Queues[query] -> Nat]: how many of them were taken out
  rec,      \* [Nodes[query] -> [Clients -> what the node keeps]]
  log,      \* [Nodes[query] -> Seq of [from, at]]: its recovery log, each
            \* message by its queue and its place in it
  reports,  \* Seq of messages: the gateway's reports queue
  upload,   \* the [games, reviews] of this behaviour
  restarts

vars == <<query, sent, taken, rec, log, reports, upload, restarts>>

Message(e) == sent[e.from][e.at]

New(n) ==
  CASE n[1] \in {"joiner_top", "joiner_counter", "joiner_percentile"} -> NewJoin
    [] n[1] \in {"platform_counter", "platform_counter_agg"}          -> NoCounts
    [] n[1] \in {"topn_playtime", "topn_playtime_agg"}                -> NoHeap
    [] n[1] \in {"topn", "topn_agg"}                                  -> NoTop
    [] n[1] \in {"counter_agg", "percentile_agg"}                     -> NewAgg
    [] OTHER                                                          -> << >>

Keeps(n) == New(n) # << >>

(* Node.Process: what node n may make of message m, with r kept of its     *)
(* client.                                                                 *)
Process(n, r, m) ==
  LET Stateless(outs) == {Outcome(r, out) : out \in outs}
  IN  CASE n[1] = "platform"             -> Stateless(PlatformFilter(m))
        [] n[1] = "indie"                -> Stateless(IndieFilter(m))
        [] n[1] = "action"               -> Stateless(ActionFilter(m))
        [] n[1] = "release_date"         -> Stateless(ReleaseDateFilter(m))
        [] n[1] = "review"               -> Stateless(ReviewFilter(m))
        [] n[1] = "text"                 -> Stateless(TextFilter(n[2], m))
        [] n[1] = "joiner_top"           -> TopJoiner(n[2], r, m)
        [] n[1] = "joiner_counter"       -> CounterJoiner(r, m)
        [] n[1] = "joiner_percentile"    -> PercentileJoiner(r, m)
        [] n[1] = "platform_counter"     -> PlatformCounter(FALSE, r, m)
        [] n[1] = "platform_counter_agg" -> PlatformCounter(TRUE, r, m)
        [] n[1] = "topn_playtime"        -> TopNPlaytime(FALSE, r, m)
        [] n[1] = "topn_playtime_agg"    -> TopNPlaytime(TRUE, r, m)
        [] n[1] = "topn"                 -> TopVotes(FALSE, r, m)
        [] n[1] = "topn_agg"             -> TopVotes(TRUE, r, m)
        [] n[1] = "counter_agg"          -> CounterAgg(r, m)
        [] n[1] = "percentile_agg"       -> PercentileAgg(r, m)

(* recover: the handlers again without their publications; what differs    *)
(* is the counter aggregator's.  Several outcomes differ by equals only.   *)
Replay(n, kept, e) ==
  LET m == Message(e)
      c == m.client
      After(s) == IF n[1] = "counter_agg"
                    THEN {CounterAggReplay(s[c], m)}
                    ELSE {o.rec : o \in Process(n, s[c], m)}
  IN  UNION { {[s EXCEPT ![c] = r] : r \in After(s)} : s \in kept }

Recovered(n) ==
  LET kept[i \in 0..Len(log[n])] ==
        IF i = 0 THEN {[c \in Clients |-> New(n)]} ELSE Replay(n, kept[i - 1], log[n][i])
  IN  kept[Len(log[n])]

-----------------------------------------------------------------------------
Init ==
  /\ query \in Asked
  /\ upload \in Uploads[query]
  /\ sent = [k \in Queues[query] |->
                CASE k[1] = GamesQueue[query] -> upload.games
                  [] k[1] = "reviews"         -> upload.reviews
                  [] OTHER                    -> << >>]
  /\ taken = [k \in Queues[query] |-> 0]
  /\ rec = [n \in Nodes[query] |-> [c \in Clients |-> New(n)]]
  /\ log = [n \in Nodes[query] |-> << >>]
  /\ reports = << >>
  /\ restarts = 0

(* What reaches queue k of the publications out. *)
Published(out, k) ==
  LET mine == Pick(out, {i \in 1..Len(out) : out[i].to = k})
  IN  [i \in 1..Len(mine) |-> mine[i].msg]

Reports == <<"reports", 0>>

(* A node takes the next message of one of its queues. *)
Handle(k) ==
  /\ taken[k] < Len(sent[k])
  /\ LET n == NodeOf(k)
         e == [from |-> k, at |-> taken[k] + 1]
         m == Message(e)
     IN  \E o \in Process(n, rec[n][m.client], m) :
           /\ rec' = [rec EXCEPT ![n][m.client] = o.rec]
           /\ sent' = [q \in DOMAIN sent |-> sent[q] \o Published(o.out, q)]
           /\ reports' = reports \o Published(o.out, Reports)
           /\ log' = [log EXCEPT ![n] = Append(@, e)]
  /\ taken' = [taken EXCEPT ![k] = @ + 1]
  /\ UNCHANGED <<query, upload, restarts>>

Restart(n) ==
  /\ Keeps(n) /\ restarts < MaxRestarts
  /\ \E kept \in Recovered(n) : rec' = [rec EXCEPT ![n] = kept]
  /\ restarts' = restarts + 1
  /\ UNCHANGED <<query, sent, taken, log, reports, upload>>

Work == \E k \in DOMAIN sent : Handle(k)

Next == Work \/ \E n \in DOMAIN rec : Restart(n)

(* As long as there is a message some node takes one; uploads are finite.  *)
Fairness == WF_vars(Work)

Spec == Init /\ [][Next]_vars

FairSpec == Spec /\ Fairness

-----------------------------------------------------------------------------
TypeOK ==
  /\ \A k \in DOMAIN sent : /\ \A i \in 1..Len(sent[k]) : sent[k][i].client \in Clients
                            /\ taken[k] \in 0..Len(sent[k])
  /\ \A n \in DOMAIN rec : \A c \in Clients :
       LET r == rec[n][c]
       IN  CASE New(n) = NewJoin  -> /\ r.eofs \subseteq {"review", "game"}
                                     /\ \A g \in DOMAIN r.info : g \in Games /\ Shard[g] = n[2]
             [] New(n) = NoCounts -> r \in [Platforms -> Nat]
             [] New(n) = NoHeap   -> r.heap \in Seq(Games) /\ Len(r.heap) <= PlaytimeN
             [] New(n) = NoTop    -> DOMAIN r.top \subseteq Games /\ r.recv < Expected
             [] New(n) = NewAgg   -> r.recv < Expected
             [] OTHER             -> r = << >>

-----------------------------------------------------------------------------
(* What the results of a client should be, from the whole of its upload.   *)
Mine(s, c) ==
  LET OfClient(m) == m.client = c
  IN  SelectSeq(s, OfClient)

GamesOf(c) ==
  LET GamesIn(all, m) == IF IsEof(m) THEN all ELSE all \o m.games
  IN  FoldLeft(GamesIn, << >>, Mine(upload.games, c))

ReviewsOf(c) ==
  LET ReviewsIn(all, m) == IF IsEof(m) THEN all ELSE all \o m.reviews
  IN  FoldLeft(ReviewsIn, << >>, Mine(upload.reviews, c))

Votes(c, g, score) == VotesOf(WithScore(ReviewsOf(c), score), g)

VotesInEnglish(c, g) == VotesOf(InEnglish(WithScore(ReviewsOf(c), Scored.text)), g)

(* The games of a genre with votes of a score: a function to the votes.    *)
VotedIn(c, genre, score) ==
  [g \in {g \in Range(OfGenre(GamesOf(c), genre)) : Votes(c, g, score) > 0} |-> Votes(c, g, score)]

Results(c) == Mine(reports, c)

(* Queries 1 to 3 answer in one message, 4 and 5 end with an end of file.  *)
IsLast(m) == query \in 1..3 \/ IsEof(m)

Answered(c) == \E m \in Range(reports) : m.client = c /\ IsLast(m)

(* The places in a queue of what was put in it of a client, and of its     *)
(* ends of file.                                                           *)
PlacesOf(k, c) == {i \in 1..Len(sent[k]) : sent[k][i].client = c}

Ends(k, c) == {i \in PlacesOf(k, c) : IsEof(sent[k][i])}

-----------------------------------------------------------------------------
(* No end of file overtakes the data it ends: through the round of the     *)
(* text filters, the two inputs of the joiners and the fan-in of the       *)
(* aggregators, the last message of a client in every queue is its last    *)
(* end of file, and none comes too much.                                   *)
EofBehindData ==
  \A k \in DOMAIN sent : \A c \in Clients :
    Cardinality(Ends(k, c)) >= EndsIn(k) =>
      /\ Cardinality(Ends(k, c)) = EndsIn(k)
      /\ \A i \in PlacesOf(k, c) : \E e \in Ends(k, c) : i <= e

(* Nothing of a client is reported after its result, or its end.           *)
NothingAfterResult ==
  \A i \in 1..Len(reports) : \A j \in 1..Len(reports) :
    reports[i].client = reports[j].client /\ IsLast(reports[i]) => j <= i

(* Once a client is answered no node keeps, or is about to make again, an  *)
(* entry for it: the maps by client of the nodes do not grow.              *)
ClientForgotten ==
  \A c \in Clients : Answered(c) =>
    /\ \A n \in DOMAIN rec : rec[n][c] = New(n)
    /\ \A k \in DOMAIN sent : \A i \in PlacesOf(k, c) : i <= taken[k]

(* The games of a client in its upload that support a platform, by batch   *)
(* and place in it.                                                        *)
Supporting(c, p) ==
  UNION { {<<i, j>> : j \in {j \in 1..Len(upload.games[i].games) :
                               p \in Catalog[upload.games[i].games[j]].platforms}} :
            i \in {i \in 1..Len(upload.games) :
                     upload.games[i].client = c /\ ~ IsEof(upload.games[i])} }

Total(c) == [p \in Platforms |-> Cardinality(Supporting(c, p))]

(* Query 1 reports the games of a client by platform, all of its batches   *)
(* counted once and nobody else's.                                         *)
PlatformsCounted == query = 1 => \A m \in Range(reports) : m.counts = Total(m.client)

(* Query 2 reports as many games as it can of those asked for, the longest *)
(* played of them (ties go either way), the longest first.                 *)
LongestPlayed ==
  query = 2 => \A c \in Clients : \A m \in Range(Results(c)) :
    LET asked == Range(InYears(OfGenre(GamesOf(c), "Indie")))
        top   == Range(m.games)
    IN  /\ top \subseteq asked
        /\ Len(m.games) = Cardinality(top)
        /\ Len(m.games) < PlaytimeN => top = asked
        /\ \A i \in 1..(Len(m.games) - 1) : Playtime(m.games[i]) >= Playtime(m.games[i + 1])
        /\ \A g \in top : \A h \in asked \ top : Playtime(g) >= Playtime(h)

(* Query 3 reports a top of the final votes of the indie games, whatever   *)
(* running totals and evictions it went through on the way.                *)
MostVoted ==
  query = 3 => \A c \in Clients : \A m \in Range(Results(c)) :
    LET of(g) == CHOOSE i \in 1..Len(m.scores) : m.scores[i].game = g
        top == [g \in {s.game : s \in Range(m.scores)} |-> m.scores[of(g)].votes]
    IN  /\ IsTop(top, VotedIn(c, "Indie", Scored.positive))
        /\ Len(m.scores) = Cardinality(DOMAIN top)
        /\ \A i \in 1..(Len(m.scores) - 1) : m.scores[i].votes >= m.scores[i + 1].votes

(* Query 5 reports, in order and in batches that are not too large, the    *)
(* games above the percentile, every vote of all joiners counted.          *)
AbovePercentile ==
  query = 5 => \A c \in Clients : Answered(c) =>
    LET voted == VotedIn(c, "Action", Scored.negative)
        Below(g) == {h \in DOMAIN voted : Ascending(Score(h, voted[h]), Score(g, voted[g]))}
        above == {g \in DOMAIN voted : 100 * (Cardinality(Below(g)) + 1) > Percent * Cardinality(DOMAIN voted)}
        batches == SelectSeq(Results(c), LAMBDA m : ~ IsEof(m))
        scores == FlattenSeq([i \in 1..Len(batches) |-> batches[i].scores])
    IN  /\ Range(scores) = {Score(g, voted[g]) : g \in above}
        /\ \A i \in 1..(Len(scores) - 1) : Ascending(scores[i], scores[i + 1])
        /\ \A i \in 1..Len(batches) : Len(batches[i].scores) \in 1..PercentBatch

-----------------------------------------------------------------------------
(* Query 4. *)
Popular(c) == {g \in Range(OfGenre(GamesOf(c), "Action")) : VotesInEnglish(c, g) >= Target}

NamesReported(c) ==
  LET batches == SelectSeq(Results(c), LAMBDA m : ~ IsEof(m))
  IN  FlattenSeq([i \in 1..Len(batches) |-> batches[i].games])

(* No game is reported without its genre or its votes, restarts or not.    *)
OnlyPopular ==
  query = 4 => \A c \in Clients : Range(NamesReported(c)) \subseteq Popular(c)

(* A joiner whose first message of the client was a review of g.           *)
OpenedBy(c, g) ==
  LET Data(e) == Message(e).client = c /\ ~ IsEof(Message(e))
      seen == SelectSeq(log[<<"joiner_counter", Shard[g]>>], Data)
      first == Message(seen[1])
  IN  seen # << >> /\ first.kind = "score" /\ first.score.game = g

(* Every popular game is reported by the end of the results, the games     *)
(* whose review was a joiner's very first message of the client excepted.  *)
AllPopular ==
  query = 4 => \A c \in Clients : Answered(c) =>
    \A g \in Popular(c) : g \in Range(NamesReported(c)) \/ OpenedBy(c, g)

(* The joiner's publish "publishes the game name when the target is        *)
(* reached": a client's results hold every popular game.                   *)
TargetReachedIsPublished ==
  query = 4 => \A c \in Clients : Answered(c) => Popular(c) \subseteq Range(NamesReported(c))

(* A restarted node handles the persisted messages again but "does not     *)
(* propagate" them again: no game is reported twice.                       *)
ReportedOnce ==
  query = 4 => \A c \in Clients :
    Cardinality(Range(NamesReported(c))) = Len(NamesReported(c))

(* In query 2 a client that sent no game gets nothing: the playtime nodes  *)
(* publish nothing for a client they never heard of.                       *)
Awaits(c) == Mine(upload.games, c) # << >> /\ (query = 2 => GamesOf(c) # << >>)

(* Every client that finished its upload is answered, once and for all.    *)
ResultsArrive == \A c \in Clients : <>[](Awaits(c) => Answered(c))
=============================================================================
