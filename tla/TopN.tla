-------------------------------- MODULE TopN --------------------------------
(***************************************************************************)
(* The top of query 3 (internal/worker/hybrid/top_n): a heap of at most N  *)
(* games, kept over running totals.  A game in the top has its votes set;  *)
(* another is pushed while there is room, or in exchange for the lowest    *)
(* game if it has more votes.  The heap is a function of its games; their  *)
(* ids are numbers, by which it orders games with equal votes.             *)
(***************************************************************************)
EXTENDS Naturals, FiniteSets

CONSTANT N   \* "query" of topn.json and topn_agg.json

ASSUME TopNAssumption == N \in Nat \ {0}

Less(top, g, h) == top[g] < top[h] \/ (top[g] = top[h] /\ g < h)

Lowest(top) == CHOOSE g \in DOMAIN top : \A h \in DOMAIN top \ {g} : Less(top, g, h)

Set(top, g, v) == [h \in DOMAIN top \union {g} |-> IF h = g THEN v ELSE top[h]]

Drop(top, g) == [h \in DOMAIN top \ {g} |-> top[h]]

Room(top) == Cardinality(DOMAIN top) < N

Update(top, g, v) ==
  CASE g \in DOMAIN top                        -> Set(top, g, v)
    [] g \notin DOMAIN top /\ Room(top)        -> Set(top, g, v)
    [] g \notin DOMAIN top /\ ~ Room(top) /\ v > top[Lowest(top)]
                                               -> Set(Drop(top, Lowest(top)), g, v)
    [] g \notin DOMAIN top /\ ~ Room(top) /\ ~ v > top[Lowest(top)]
                                               -> top

-----------------------------------------------------------------------------
(* What it is a top of: total maps every game heard of to its last total.  *)
IsTop(top, total) ==
  /\ DOMAIN top \subseteq DOMAIN total
  /\ \A g \in DOMAIN top : top[g] = total[g]
  /\ Cardinality(DOMAIN top) <= N
  /\ \A g \in DOMAIN total \ DOMAIN top :
       /\ Cardinality(DOMAIN top) = N
       /\ \A h \in DOMAIN top : total[g] <= top[h]

(* The totals of some of the games. *)
Part(total, games) == [g \in games |-> total[g]]
=============================================================================
