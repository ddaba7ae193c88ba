------------------------------ MODULE Joiners -------------------------------
(***************************************************************************)
(* The joiners (internal/worker/joiner) match review counts with the names *)
(* of the games of a genre: the top joiner (query 3) publishes a game's    *)
(* running total, the counter joiner (query 4) the games that reach a      *)
(* target, the percentile joiner (query 5) everything at the end.          *)
(*                                                                         *)
(* What a joiner keeps for a client is a record of info, a function on the *)
(* games it has an entry for, and eofs, the origins whose end it has seen. *)
(* A client is in gameInfoByClient iff info is not empty.                  *)
(***************************************************************************)
EXTENDS Messages, SequencesExt

CONSTANTS
  Target,     \* "query" of joiner_counter.json
  JoinBatch   \* "query" of joiner_percentile.json

GameInfo(named, votes, sent) == [named |-> named, votes |-> votes, sent |-> sent]

NewJoin == [info |-> << >>, eofs |-> {}]

Known(r, g) == g \in DOMAIN r.info

Put(r, g, e) ==
  [r EXCEPT !.info = [h \in DOMAIN @ \union {g} |-> IF h = g THEN e ELSE @[h]]]

Complete(r, m) == r.eofs \union {m.origin} = {"review", "game"}

(* Mutant of AfterEof: gameInfoByClient keeps the client.                  *)
AfterEofKept(r, m) ==
  IF Complete(r, m) THEN [r EXCEPT !.eofs = {}] ELSE [r EXCEPT !.eofs = @ \union {m.origin}]

(* joiner.processEof: both ends of file in, the client is forgotten.       *)
AfterEof(r, m) ==
  IF Complete(r, m) THEN NewJoin ELSE [r EXCEPT !.eofs = @ \union {m.origin}]

(* What the joiner publishes before the end of file, if it is the second.  *)
AtEof(r, m, last, eof) == IF Complete(r, m) THEN { out \o <<eof>> : out \in last } ELSE { << >> }

-----------------------------------------------------------------------------
(* processReview and processGame of the top and the percentile joiner.     *)
AddVotes(r, s) ==
  IF Known(r, s.game) THEN GameInfo(r.info[s.game].named, r.info[s.game].votes + s.votes, FALSE)
                      ELSE GameInfo(FALSE, s.votes, FALSE)

SetName(r, g) == GameInfo(TRUE, IF Known(r, g) THEN r.info[g].votes ELSE 0, FALSE)

(* The entry a message of a game leaves, for these two joiners.            *)
Joined(r, m) ==
  CASE m.kind = "score" -> Put(r, m.score.game, AddVotes(r, m.score))
    [] m.kind = "name"  -> Put(r, m.game, SetName(r, m.game))
    [] m.kind = "eof"   -> AfterEof(r, m)

-----------------------------------------------------------------------------
(* Mutant of RunningTotal: the votes of the message, not their sum.        *)
LastVotes(r, s) == s.votes

RunningTotal(r, s) == r.info[s.game].votes + s.votes

TopTotals(r, m) ==
  CASE m.kind = "score" /\ Known(r, m.score.game) /\ r.info[m.score.game].named
         -> << Score(m.score.game, RunningTotal(r, m.score)) >>
    [] m.kind = "name" /\ Known(r, m.game) -> << Score(m.game, r.info[m.game].votes) >>
    [] OTHER                               -> << >>

(* Joiner j publishes to top filter j.                                     *)
TopJoiner(j, r, m) ==
  LET outs == IF m.kind = "eof"
                THEN AtEof(r, m, { << >> }, Out("joined_top", j, Eof(m.client)))
                ELSE { [i \in 1..Len(TopTotals(r, m)) |->
                          Out("joined_top", j, ScoresMsg(m.client, TopTotals(r, m)))] }
  IN  { Outcome(Joined(r, m), out) : out \in outs }

-----------------------------------------------------------------------------
ToSend(r) == {g \in DOMAIN r.info : r.info[g].named /\ r.info[g].votes > 0}

(* processBatch, ranging over a map.                                       *)
Batches(c, r) ==
  LET Scores(order) == [i \in 1..Len(order) |-> Score(order[i], r.info[order[i]].votes)]
      Send(piece) == Out("joined_percentile", 0, ScoresMsg(c, piece))
      Pub(order) == [i \in 1..Len(Pieces(Scores(order), JoinBatch)) |->
                       Send(Pieces(Scores(order), JoinBatch)[i])]
  IN  { Pub(order) : order \in SetToSeqs(ToSend(r)) }

PercentileJoiner(r, m) ==
  LET outs == IF m.kind = "eof"
                THEN AtEof(r, m, Batches(m.client, r),
                           Out("joined_percentile", 0, Eof(m.client)))
                ELSE { << >> }
  IN  { Outcome(Joined(r, m), out) : out \in outs }

-----------------------------------------------------------------------------
(* The counter joiner. *)

(* Mutant of Reaches: any game may be published, named, known or not.      *)
ReachesUnnamed(r, s) ==
  LET e == IF Known(r, s.game) THEN r.info[s.game] ELSE GameInfo(FALSE, 0, FALSE)
  IN  ~ e.sent /\ e.votes + s.votes >= Target

(* A review of a game with a name takes it over the target.                *)
Reaches(r, s) ==
  /\ Known(r, s.game) /\ ~ r.info[s.game].sent
  /\ r.info[s.game].named /\ r.info[s.game].votes + s.votes >= Target

(* processReview; the first message of a client stores no votes.           *)
CountVotes(r, s) ==
  CASE r.info = << >>                              -> GameInfo(FALSE, 0, FALSE)
    [] r.info # << >> /\ ~ Known(r, s.game)        -> GameInfo(FALSE, s.votes, FALSE)
    [] Known(r, s.game) /\ r.info[s.game].sent     -> r.info[s.game]
    [] Reaches(r, s)                               -> GameInfo(FALSE, r.info[s.game].votes, TRUE)
    [] OTHER                     -> [r.info[s.game] EXCEPT !.votes = @ + s.votes]

(* Mutant of NameReaches: the target itself is not enough.                 *)
NameExceeds(r, g) == Known(r, g) /\ r.info[g].votes > Target

NameReaches(r, g) == Known(r, g) /\ r.info[g].votes >= Target

(* processGame *)
CountName(r, g) == GameInfo(TRUE, IF Known(r, g) THEN r.info[g].votes ELSE 0, NameReaches(r, g))

CounterStep(r, m) ==
  CASE m.kind = "score" -> Put(r, m.score.game, CountVotes(r, m.score))
    [] m.kind = "name"  -> Put(r, m.game, CountName(r, m.game))
    [] m.kind = "eof"   -> AfterEof(r, m)

CounterOut(r, m) ==
  LET Publish(g) == { << Out("joined_counted", 0, NameMsg(m.client, g)) >> }
  IN  CASE m.kind = "score" /\ Reaches(r, m.score)   -> Publish(m.score.game)
        [] m.kind = "name" /\ NameReaches(r, m.game) -> Publish(m.game)
        [] m.kind = "eof" -> AtEof(r, m, { << >> }, Out("joined_counted", 0, Eof(m.client)))
        [] OTHER          -> { << >> }

CounterJoiner(r, m) == { Outcome(CounterStep(r, m), out) : out \in CounterOut(r, m) }
=============================================================================
