------------------------------ MODULE Messages ------------------------------
(***************************************************************************)
(* The messages between the nodes of the five queries (pkg/message) with   *)
(* the header fields the nodes look at: the client and, for an end of      *)
(* file, the origin (reviews or games) and the workers that have seen it.  *)
(* A game stands for its id, its name and its line of the catalog.         *)
(***************************************************************************)
EXTENDS Naturals, Sequences, FiniteSets

CONSTANTS
  Catalog,   \* [Games -> [genres, year, playtime, platforms]]
  Joiners,   \* joiners of each join: the joiners are 0..Joiners-1
  Expected   \* "expected-eofs" of the aggregators behind them

Games     == DOMAIN Catalog
Platforms == {"windows", "mac", "linux"}

GamesMsg(c, gs)   == [kind |-> "games", client |-> c, games |-> gs]
ReviewsMsg(c, rs) == [kind |-> "reviews", client |-> c, reviews |-> rs]

PlatformMsg(c, n)   == [kind |-> "platforms", client |-> c, counts |-> n]
ReleasesMsg(c, gs)  == [kind |-> "releases", client |-> c, games |-> gs]
PlaytimesMsg(c, gs) == [kind |-> "playtimes", client |-> c, games |-> gs]
TextMsg(c, rs)      == [kind |-> "text", client |-> c, reviews |-> rs]
NameMsg(c, g)       == [kind |-> "name", client |-> c, game |-> g]
NamesMsg(c, gs)     == [kind |-> "names", client |-> c, games |-> gs]

(* ScoredReview and ScoredReviews: a game and a number of votes. *)
Score(g, n)      == [game |-> g, votes |-> n]
ScoreMsg(c, s)   == [kind |-> "score", client |-> c, score |-> s]
ScoresMsg(c, ss) == [kind |-> "scores", client |-> c, scores |-> ss]

EofMsg(c, o, ws) == [kind |-> "eof", client |-> c, origin |-> o, visited |-> ws]

Eof(c) == EofMsg(c, "query", {})

-----------------------------------------------------------------------------
(* A publication: the message and the queue bound to its key.              *)
Out(name, i, m) == [to |-> <<name, i>>, msg |-> m]

(* The publications of one message to each of the n queues of a name.      *)
Everywhere(name, n, m) == [i \in 1..n |-> Out(name, i - 1, m)]

(* A handler's outcome: what it keeps for the client, what it publishes.   *)
Outcome(r, out) == [rec |-> r, out |-> out]

(* The elements of s at the positions in I, in their order: SelectSeq      *)
(* without recursion, so that the proofs can speak of it.                  *)
Pick(s, I) ==
  LET Rank(i) == Cardinality({j \in I : j <= i})
  IN  [n \in 1..Cardinality(I) |-> s[CHOOSE i \in I : Rank(i) = n]]

(* s in pieces of n, the last of what is left.                             *)
Pieces(s, n) ==
  LET count == (Len(s) + n - 1) \div n
      EndOf(i) == IF i * n <= Len(s) THEN i * n ELSE Len(s)
  IN  [i \in 1..count |-> SubSeq(s, (i - 1) * n + 1, EndOf(i))]
=============================================================================
