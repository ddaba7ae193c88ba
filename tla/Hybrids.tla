------------------------------ MODULE Hybrids -------------------------------
(***************************************************************************)
(* The nodes of internal/worker/hybrid, each deployed as a filter and, on  *)
(* another configuration, as the aggregator of the filters: the platform   *)
(* counter (query 1), the longest played games (query 2) and the most      *)
(* voted ones (query 3).  An operator takes what the node keeps for the    *)
(* message's client and whether the node is the aggregator.                *)
(***************************************************************************)
EXTENDS Messages, TopN, SequencesExt, TLC

CONSTANT PlaytimeN   \* "query" of topn_playtime.json and topn_playtime_agg.json

-----------------------------------------------------------------------------
(* The platform counter; a client it has no counters of counts nothing.    *)
NoCounts == [p \in Platforms |-> 0]

(* Mutant of Increment: the aggregator keeps the last partial count.       *)
Overwrite(n, counts) == counts

Increment(n, counts) == [p \in Platforms |-> n[p] + counts[p]]

PlatformCounter(agg, r, m) ==
  LET result == PlatformMsg(m.client, r)
  IN  CASE m.kind = "platforms"   -> { Outcome(Increment(r, m.counts), << >>) }
        [] m.kind = "eof" /\ agg  -> { Outcome(NoCounts, <<Out("reports", 0, result)>>) }
        [] m.kind = "eof" /\ ~agg -> { Outcome(NoCounts,
             <<Out("platform_counts", 0, result), Out("platform_counts", 0, Eof(m.client))>>) }

-----------------------------------------------------------------------------
(* The longest played games: a heap with at most PlaytimeN of them, known  *)
(* once a message of the client has come.  The heap compares playtimes     *)
(* only; of several lowest ones any may be on top.                         *)
NoHeap == [known |-> FALSE, heap |-> << >>]

Playtime(g) == Catalog[g].playtime

Lowests(h) == {i \in 1..Len(h) : \A k \in 1..Len(h) : Playtime(h[i]) <= Playtime(h[k])}

(* Mutant of Release: the game on top leaves for any game that comes.      *)
ReleaseAny(h, g) ==
  IF Len(h) < PlaytimeN THEN {Append(h, g)}
                        ELSE {Append(RemoveAt(h, i), g) : i \in Lowests(h)}

(* One release of UpdateReleases: the heaps it may leave. *)
Release(h, g) ==
  CASE Len(h) < PlaytimeN -> {Append(h, g)}
    [] Len(h) >= PlaytimeN /\ \E i \in Lowests(h) : Playtime(g) > Playtime(h[i])
         -> {Append(RemoveAt(h, i), g) : i \in Lowests(h)}
    [] OTHER -> {h}

UpdateReleases(heap, gs) ==
  LET Next(heaps, g) == UNION {Release(h, g) : h \in heaps}
  IN  FoldLeft(Next, {heap}, gs)

(* ToTopNPlaytimeMessage: the longest played first.                        *)
TopReleases(heap) ==
  LET Order(p) == [i \in 1..Len(heap) |-> heap[p[i]]]
      Sorted(s) == \A i \in 1..(Len(s) - 1) : Playtime(s[i]) >= Playtime(s[i + 1])
  IN  {s \in {Order(p) : p \in SetToSeqs(1..Len(heap))} : Sorted(s)}

(* A client without a heap gets no result, only the end of file.           *)
PlaytimeOut(name, r, c) ==
  IF r.known THEN { <<Out(name, 0, PlaytimesMsg(c, top))>> : top \in TopReleases(r.heap) }
             ELSE { << >> }

PlaytimeFilterEof(r, c) ==
  { out \o <<Out("topn_playtime_q2", 0, Eof(c))>> : out \in PlaytimeOut("topn_playtime_q2", r, c) }

TopNPlaytime(agg, r, m) ==
  CASE m.kind = "playtimes" -> { Outcome([known |-> TRUE, heap |-> h], << >>) :
                                   h \in UpdateReleases(r.heap, m.games) }
    [] m.kind = "eof" /\ agg -> { Outcome(NoHeap, out) : out \in PlaytimeOut("reports", r, m.client) }
    [] m.kind = "eof" /\ ~agg -> { Outcome(NoHeap, out) : out \in PlaytimeFilterEof(r, m.client) }

-----------------------------------------------------------------------------
(* The most voted games: the heap and the ends of file received.           *)
NoTop == [top |-> << >>, recv |-> 0]

UpdateTop(top, scores) ==
  LET Next(t, s) == Update(t, s.game, s.votes)
  IN  FoldLeft(Next, top, scores)

(* The filter's configuration expects no ends of file: the first is last.  *)
EofsIn(agg, r) == r.recv + 1 >= (IF agg THEN Expected ELSE 0)

(* getTopNScoredReviews: popped from the lowest, placed from the end.      *)
TopScores(top) ==
  LET Above(g, h) == Less(top, h, g)
      order == SetToSortSeq(DOMAIN top, Above)
  IN  [i \in 1..Len(order) |-> Score(order[i], top[order[i]])]

TopVotes(agg, r, m) ==
  LET result == ScoresMsg(m.client, TopScores(r.top))
  IN  CASE m.kind = "scores" -> { Outcome([r EXCEPT !.top = UpdateTop(@, m.scores)], << >>) }
        [] m.kind = "eof" /\ ~ EofsIn(agg, r) -> { Outcome([r EXCEPT !.recv = @ + 1], << >>) }
        [] m.kind = "eof" /\ EofsIn(agg, r) /\ agg
             -> { Outcome(NoTop, <<Out("reports", 0, result)>>) }
        [] m.kind = "eof" /\ EofsIn(agg, r) /\ ~ agg
             -> { Outcome(NoTop, <<Out("top_queue", 0, result), Out("top_queue", 0, Eof(m.client))>>) }
=============================================================================
