--------------------------- MODULE WorkerRefinement ---------------------------
(***************************************************************************)
(* How a worker with one input queue implements ExactlyOnce: a message is  *)
(* processed, once and for all, by the first attempt that publishes an     *)
(* output of it, or by its record if it has no outputs.                    *)
(***************************************************************************)
EXTENDS WorkerInv

Q == CHOOSE q \in Queues : TRUE

(* A record of the log used id n on key k.                                 *)
Recorded(k, n) ==
  \E a \in 1..Len(log) : \E b \in 1..Len(log[a].dsts) :
    log[a].dsts[b].key = k /\ log[a].dsts[b].id = n

(* An attempt at the first delivery published something.                   *)
Begun ==
  \E k \in Keys : \E p \in 1..Len(out[k]) : ~ Recorded(k, out[k][p].id)

Taken ==
  IF Begun THEN Append(History(log, Len(log)), Delivery(Q)) ELSE History(log, Len(log))

Abstract ==
  INSTANCE ExactlyOnce WITH queue <- feed[Q], input <- Taken, delivered <- accepted

(* The worker with its log, ids and duplicate handler, killed at any step, *)
(* takes the steps of ExactlyOnce only.                                    *)
ImplementsSteps == Abstract!SafeSpec

(* It does all that ExactlyOnce promises, liveness included: every message *)
(* put in the queue gets its outputs to the next nodes, once and in order. *)
ImplementsExactlyOnce == Abstract!Spec
=============================================================================
