---------------------------- MODULE Aggregators -----------------------------
(***************************************************************************)
(* The aggregators (internal/worker/aggregator) of queries 4 and 5.  What  *)
(* one keeps for a client is the games received and not yet published, and *)
(* how many joiners have sent their end of file.                           *)
(***************************************************************************)
EXTENDS Messages, SequencesExt, TLC

CONSTANTS
  CounterBatch,   \* "query" of counter_agg.json
  Percent,        \* first of "query" in percentile.json
  PercentBatch    \* second of "query" in percentile.json

NewAgg == [games |-> << >>, recv |-> 0]

(* Mutants of LastEof: one end of file too many, and one is enough.        *)
LastEofLate(r) == r.recv >= Expected

FirstEof(r) == r.recv >= 0

LastEof(r) == r.recv + 1 >= Expected

(* aggregator.processEof, reset. *)
AggEof(r) == IF LastEof(r) THEN NewAgg ELSE [r EXCEPT !.recv = @ + 1]

Report(m) == Out("reports", 0, m)

ReportEof(c) == Report(Eof(c))

-----------------------------------------------------------------------------
(* The counter aggregator. *)
SaveName(r, m) == [r EXCEPT !.games = Append(@, m.game)]

Full(r) == Len(r.games) >= CounterBatch

CounterAggOut(r, c) ==
  IF r.games = << >> THEN << >> ELSE <<Report(NamesMsg(c, r.games))>>

CounterAgg(r, m) ==
  LET saved == SaveName(r, m)
  IN  CASE m.kind = "eof" /\ ~ LastEof(r) -> { Outcome(AggEof(r), << >>) }
        [] m.kind = "eof" /\ LastEof(r)
             -> { Outcome(AggEof(r), CounterAggOut(r, m.client) \o <<ReportEof(m.client)>>) }
        [] m.kind = "name" /\ ~ Full(saved) -> { Outcome(saved, << >>) }
        [] m.kind = "name" /\ Full(saved)
             -> { Outcome([saved EXCEPT !.games = << >>], CounterAggOut(saved, m.client)) }

(* Mutant of CounterAggReplay: recovery counts no ends of file.            *)
SavedOnly(r, m) == IF m.kind = "name" THEN SaveName(r, m) ELSE r

(* aggregator.recover: a game is saved, no batch is taken out.             *)
CounterAggReplay(r, m) == IF m.kind = "name" THEN SaveName(r, m) ELSE AggEof(r)

-----------------------------------------------------------------------------
(* The percentile aggregator. *)
SaveScores(r, m) == [r EXCEPT !.games = @ \o m.scores]

(* Mutant of PercentileIdx: the product is rounded up.                     *)
PercentileIdxUp(length) == (Percent * length + 99) \div 100

(* int((n / 100) * length), at most the last index; from 0.  With the 90   *)
(* of the configuration the float product is never below an integer it     *)
(* should be.                                                              *)
PercentileIdx(length) ==
  LET i == (Percent * length) \div 100
  IN  IF i >= length THEN length - 1 ELSE i

(* ScoredReviews.Sort(true). *)
Ascending(s, t) == s.votes < t.votes \/ (s.votes = t.votes /\ s.game < t.game)

InPercentile(scores) ==
  LET sorted == SortSeq(scores, Ascending)
      idx == PercentileIdx(Len(scores))
  IN  [i \in 1..(Len(scores) - idx) |-> sorted[idx + i]]

PercentileOut(r, c) ==
  IF r.games = << >> THEN << >>
  ELSE LET batches == Pieces(InPercentile(r.games), PercentBatch)
       IN  [i \in 1..Len(batches) |-> Report(ScoresMsg(c, batches[i]))]

PercentileAgg(r, m) ==
  CASE m.kind = "scores" -> { Outcome(SaveScores(r, m), << >>) }
    [] m.kind = "eof" /\ ~ LastEof(r) -> { Outcome(AggEof(r), << >>) }
    [] m.kind = "eof" /\ LastEof(r)
         -> { Outcome(AggEof(r), PercentileOut(r, m.client) \o <<ReportEof(m.client)>>) }
=============================================================================
