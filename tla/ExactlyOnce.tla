----------------------------- MODULE ExactlyOnce -----------------------------
(***************************************************************************)
(* What a worker promises to the nodes after it, with no ids, no log, no   *)
(* duplicates and no crashes: of the messages in its queue, each is        *)
(* processed once, in the order of the queue, and each of its outputs      *)
(* reaches the next node on its key once, in the order Process published   *)
(* them.                                                                   *)
(***************************************************************************)
EXTENDS Naturals, Sequences, FiniteSets

CONSTANTS Inputs, Keys, Outs(_, _)

VARIABLES
  queue,     \* the messages put in the node's queue, some more than once
  input,     \* those processed, each once
  delivered  \* [Keys -> Seq(Bodies)]: what the next node on a key worked on

evars == <<queue, input, delivered>>

Processed == { input[n] : n \in 1..Len(input) }

(* The one output sequence of the n-th input.                              *)
OutputsOf(n) ==
  CHOOSE o \in Outs(SubSeq(input, 1, n - 1), input[n]) : TRUE

(* Output p[2] of input p[1] goes to key k.                                *)
Places(k) ==
  UNION { { <<n, b>> : b \in { c \in 1..Len(OutputsOf(n)) : OutputsOf(n)[c].key = k } }
          : n \in 1..Len(input) }

Precedes(p, r) == p[1] < r[1] \/ (p[1] = r[1] /\ p[2] < r[2])

Init == queue = <<>> /\ input = <<>> /\ delivered = [k \in Keys |-> <<>>]

Arrive ==
  /\ \E m \in Inputs : queue' = Append(queue, m)
  /\ UNCHANGED <<input, delivered>>

(* The first message of the queue that was not processed yet.              *)
Process ==
  /\ \E i \in 1..Len(queue) :
       /\ queue[i] \notin Processed
       /\ \A j \in 1..(i - 1) : queue[j] \in Processed
       /\ input' = Append(input, queue[i])
  /\ UNCHANGED <<queue, delivered>>

(* The first output for key k that was not handed over yet.                *)
Hand(k) ==
  /\ \E p \in Places(k) :
       /\ Cardinality({ r \in Places(k) : Precedes(r, p) }) = Len(delivered[k])
       /\ delivered' = [delivered EXCEPT ![k] =
                          Append(@, OutputsOf(p[1])[p[2]].body)]
  /\ UNCHANGED <<queue, input>>

Next == Arrive \/ Process \/ \E k \in Keys : Hand(k)

SafeSpec == Init /\ [][Next]_evars

Spec == SafeSpec /\ WF_evars(Process) /\ \A k \in Keys : WF_evars(Hand(k))
=============================================================================
