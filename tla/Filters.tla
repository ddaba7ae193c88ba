------------------------------ MODULE Filters -------------------------------
(***************************************************************************)
(* The filters (internal/worker/filter): what each publishes for a         *)
(* message.  They keep nothing between messages.  All but the text filter  *)
(* are deployed once ("peers" 1 in their configurations), so an end of     *)
(* file has visited every worker as soon as one has seen it.               *)
(***************************************************************************)
EXTENDS Messages, SequencesExt

CONSTANTS
  FirstYear, LastYear,   \* "query" of release_date.json
  Shard,      \* [Games -> 0..Joiners-1]: shard.Int64 of the game id
  Texts       \* text filters ("peers" of text.json)

(* "query" of review.json. *)
Scored == [positive |-> 1, text |-> -1, negative |-> -1]

OfGenre(gs, genre) == Pick(gs, {i \in 1..Len(gs) : genre \in Catalog[gs[i]].genres})

(* Mutant of Counts: a game of several platforms is counted for one.       *)
CountsOnce(gs) ==
  LET One(P) == CHOOSE p \in P : TRUE
      Of(i) == Catalog[gs[i]].platforms
  IN  [p \in Platforms |-> Cardinality({i \in 1..Len(gs) : Of(i) # {} /\ p = One(Of(i))})]

Counts(gs) ==
  [p \in Platforms |-> Cardinality({i \in 1..Len(gs) : p \in Catalog[gs[i]].platforms})]

InYears(gs) == Pick(gs, {i \in 1..Len(gs) : Catalog[gs[i]].year \in FirstYear..LastYear})

WithScore(rs, score) == Pick(rs, {i \in 1..Len(rs) : rs[i].score = score})

InEnglish(rs) == Pick(rs, {i \in 1..Len(rs) : rs[i].english})

VotesOf(rs, g) == Cardinality({i \in 1..Len(rs) : rs[i].game = g})

(* ToScoredReviewMessage and the counts of a text batch: a message per     *)
(* game, ranging over a map, hence in any order.                           *)
Scores(rs) ==
  { [i \in 1..Len(order) |-> Score(order[i], VotesOf(rs, order[i]))] :
      order \in SetToSeqs({rs[i].game : i \in 1..Len(rs)}) }

Sharded(name, c, scores) ==
  [i \in 1..Len(scores) |-> Out(name, Shard[scores[i].game], ScoreMsg(c, scores[i]))]

-----------------------------------------------------------------------------
PlatformFilter(m) ==
  CASE m.kind = "games" -> { <<Out("platforms", 0, PlatformMsg(m.client, Counts(m.games)))>> }
    [] m.kind = "eof"   -> { <<Out("platforms", 0, EofMsg(m.client, m.origin, {}))>> }

(* Every game to each queue of names in turn.                              *)
NamesTo(names, c, gs) ==
  LET game(i) == gs[((i - 1) \div Len(names)) + 1]
      name(i) == names[((i - 1) % Len(names)) + 1]
  IN  [i \in 1..(Len(names) * Len(gs)) |-> Out(name(i), Shard[game(i)], NameMsg(c, game(i)))]

IndieFilter(m) ==
  LET indie == OfGenre(m.games, "Indie")
      eof   == EofMsg(m.client, "game", {})
  IN  CASE m.kind = "games" -> { <<Out("indie_q2", 0, ReleasesMsg(m.client, indie))>>
                                   \o NamesTo(<<"indie_q3">>, m.client, indie) }
        [] m.kind = "eof"   -> { <<Out("indie_q2", 0, eof)>>
                                   \o Everywhere("indie_q3", Joiners, eof) }

ActionFilter(m) ==
  LET eof == EofMsg(m.client, "game", {})
  IN  CASE m.kind = "games" -> { NamesTo(<<"action_q4", "action_q5">>, m.client,
                                         OfGenre(m.games, "Action")) }
        [] m.kind = "eof"   -> { Everywhere("action_q4", Joiners, eof)
                                   \o Everywhere("action_q5", Joiners, eof) }

ReleaseDateFilter(m) ==
  CASE m.kind = "releases" -> { <<Out("release_date", 0, PlaytimesMsg(m.client, InYears(m.games)))>> }
    [] m.kind = "eof"      -> { <<Out("release_date", 0, EofMsg(m.client, m.origin, {}))>> }

(* Mutant of ReviewEofs: it goes to the last text filter.                  *)
ReviewEofsToLast(c) ==
  LET eof == EofMsg(c, "review", {})
  IN  Everywhere("reviews_q3", Joiners, eof) \o <<Out("text_reviews_q4", Texts - 1, eof)>>
        \o Everywhere("reviews_q5", Joiners, eof)

(* The end of file; of the text filters the first ("single" in review.json). *)
ReviewEofs(c) ==
  LET eof == EofMsg(c, "review", {})
  IN  Everywhere("reviews_q3", Joiners, eof) \o <<Out("text_reviews_q4", 0, eof)>>
        \o Everywhere("reviews_q5", Joiners, eof)

(* A text batch goes to the filter its sequence id is hashed to.           *)
ReviewFilter(m) ==
  CASE m.kind = "reviews" ->
         { <<Out("text_reviews_q4", t, TextMsg(m.client, WithScore(m.reviews, Scored.text)))>>
             \o Sharded("reviews_q3", m.client, pos) \o Sharded("reviews_q5", m.client, neg) :
           t \in 0..(Texts - 1),
           pos \in Scores(WithScore(m.reviews, Scored.positive)),
           neg \in Scores(WithScore(m.reviews, Scored.negative)) }
    [] m.kind = "eof" -> { ReviewEofs(m.client) }

(* Mutant of TextEofs: the first text filter ends the round.               *)
TextEofsAtOnce(t, m) == Everywhere("reviews_q4", Joiners, EofMsg(m.client, "review", {}))

(* HandleEofMessage: to the next text filter, or, all visited, to every    *)
(* joiner.                                                                 *)
TextEofs(t, m) ==
  LET visited == m.visited \union {t}
  IN  IF Cardinality(visited) < Texts
        THEN <<Out("text_reviews_q4", t + 1, EofMsg(m.client, "review", visited))>>
        ELSE Everywhere("reviews_q4", Joiners, EofMsg(m.client, "review", {}))

TextFilter(t, m) ==
  CASE m.kind = "text" -> { Sharded("reviews_q4", m.client, scores) :
                              scores \in Scores(InEnglish(m.reviews)) }
    [] m.kind = "eof"  -> { TextEofs(t, m) }
=============================================================================
