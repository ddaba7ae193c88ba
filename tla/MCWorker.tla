------------------------------ MODULE MCWorker ------------------------------
(***************************************************************************)
(* Worker on small instances: a node with one input queue that two nodes   *)
(* publish to, with outputs that depend on what was processed before; a    *)
(* joiner-like node with two input queues; a node that publishes in the    *)
(* iteration order of a map.                                               *)
(***************************************************************************)
EXTENDS WorkerRefinement, TLC

Msg(s, n, b) == [src |-> s, id |-> n, body |-> b]
Put(k, b)    == [key |-> k, body |-> b]

MCKeys    == {"k1", "k2"}
MCSources == {"a", "b"}
MCInputs  == {Msg("a", 0, "x"), Msg("a", 1, "y"), Msg("b", 0, "z")}
MCBodies  == {"x", "y", "z", "late"}

OneQueue  == [s \in MCSources |-> "q"]
TwoQueues == [s \in MCSources |-> IF s = "a" THEN "reviews" ELSE "games"]

(* x goes to both keys, y twice to one key, and z is a join: it publishes  *)
(* what was processed before it, or nothing.                               *)
StatefulOuts(h, m) ==
  { CASE m.body = "x" -> <<Put("k1", "x"), Put("k2", "x")>>
      [] m.body = "y" -> <<Put("k1", "y"), Put("k1", "late")>>
      [] m.body = "z" -> [i \in 1..Len(h) |-> Put("k2", h[i].body)] }

(* Every message is forwarded to one key.                                  *)
ForwardOuts(h, m) == { <<Put("k1", m.body)>> }

(* Two outputs in the order of a map iteration.                            *)
MapOuts(h, m) == { <<Put("k1", m.body), Put("k1", "late")>>,
                   <<Put("k1", "late"), Put("k1", m.body)>> }

-----------------------------------------------------------------------------
-----------------------------------------------------------------------------
(* Every message put in the queue is acknowledged in the end.              *)
EventuallyAcked ==
  \A q \in Queues : \A n \in 1..MaxFeed :
    (Len(feed[q]) >= n) ~> (acked[q] >= n)
=============================================================================
