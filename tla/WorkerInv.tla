------------------------------ MODULE WorkerInv ------------------------------
(***************************************************************************)
(* The inductive invariant of Worker, in the parts WorkerProofs proves one *)
(* after the other: the input side (queue, log, duplicate handler), the    *)
(* numbering of the outputs, what was published under each number, and     *)
(* what the next node let through.                                         *)
(***************************************************************************)
EXTENDS Worker

(* What the theorems assume of a node.                                     *)
TypedNode ==
  \A h \in Seq(Inputs), m \in Inputs : Outs(h, m) \subseteq Seq(Outputs)

DeterministicNode ==
  \A h \in Seq(Inputs), m \in Inputs : \A o, p \in Outs(h, m) : o = p

SingleQueue == \A q, r \in Queues : q = r

-----------------------------------------------------------------------------
(* A delivery being handled is not acknowledged yet; outputs exist only    *)
(* while they are being published.                                         *)
ControlInv ==
  /\ pc \in {"publishing", "acking"} => HasDelivery(cur)
  /\ pc # "publishing" => outs = <<>> /\ dsts = <<>>

(* A source numbers its messages densely, and always uses one queue.       *)
FeedInv ==
  \A q \in Queues : \A i \in 1..Len(feed[q]) :
    /\ QueueOf[feed[q][i].src] = q
    /\ feed[q][i].id # 0 =>
         \E j \in 1..(i - 1) : /\ feed[q][j].src = feed[q][i].src
                               /\ feed[q][j].id + 1 = feed[q][i].id

(* d is the duplicate handler's state after the first r records.           *)
DupAfter(r, d) ==
  \A s \in Sources :
    /\ \A i \in 1..r : log[i].msg.src = s => log[i].msg.id < d[s]
    /\ \A n \in 0..(d[s] - 1) :
         \E i \in 1..r : log[i].msg.src = s /\ log[i].msg.id = n

MemAfter(r, h) == Len(h) = r /\ \A i \in 1..r : h[i] = log[i].msg

LogSources ==
  \A i \in 1..Len(log) :
    /\ \A a \in 1..(i - 1) :
         log[a].msg.src = log[i].msg.src => log[a].msg.id < log[i].msg.id
    /\ \A n \in 0..(log[i].msg.id - 1) :
         \E a \in 1..(i - 1) : /\ log[a].msg.src = log[i].msg.src
                               /\ log[a].msg.id = n

(* What memory holds, by what the node is doing.                           *)
RecoveringInv == pc = "recovering" => DupAfter(rec, dup) /\ MemAfter(rec, mem)

SettledInv ==
  pc \in {"idle", "acking"} =>
    DupAfter(Len(log), dup) /\ MemAfter(Len(log), mem)

AckingInv == pc = "acking" => Delivery(cur) \in LoggedMsgs

(* What was processed before the delivery being handled.                   *)
Earlier == SubSeq(mem, 1, Len(log))

(* Processing m, the next of its source: dup already counts it.            *)
PublishingInv ==
  pc = "publishing" =>
    LET m == Delivery(cur)
    IN  /\ dup[m.src] = m.id + 1
        /\ DupAfter(Len(log), [dup EXCEPT ![m.src] = m.id])
        /\ MemAfter(Len(log), Earlier)
        /\ Len(mem) = Len(log) + 1 /\ mem = Append(Earlier, m)
        /\ outs \in Outs(Earlier, m)

InputInv ==
  /\ FeedInv /\ LogSources /\ AckedIsLogged
  /\ RecoveringInv /\ SettledInv /\ AckingInv /\ PublishingInv

-----------------------------------------------------------------------------
(* Destination b of record a is among those of the first r records and the *)
(* first j of the next one.                                                *)
Before(a, b, r, j) == a <= r \/ (a = r + 1 /\ b <= j)

(* The ids those records of log L used on key k are 0..g-1.                *)
Covers(L, k, r, j, g) ==
  /\ \A a \in 1..Len(L) : \A b \in 1..Len(L[a].dsts) :
       Before(a, b, r, j) /\ L[a].dsts[b].key = k => L[a].dsts[b].id < g
  /\ \A n \in 0..(g - 1) :
       \E a \in 1..Len(L) : \E b \in 1..Len(L[a].dsts) :
         Before(a, b, r, j) /\ L[a].dsts[b].key = k /\ L[a].dsts[b].id = n

(* How many of the first n outputs of o go to key k.                       *)
Count(o, k, n) == Cardinality({ i \in 1..n : o[i].key = k })

(* The id output b of o gets when the generator stands at base.            *)
Number(base, o, b) == base[o[b].key] + Count(o, o[b].key, b - 1)

(* base is what the whole log leaves the generator at.                     *)
LogCovered(base) == \A k \in Keys : Covers(log, k, Len(log), 0, base[k])

(* Each destination was given the first id not used before it on its key.  *)
LogOrdered ==
  \A a \in 1..Len(log) : \A b \in 1..Len(log[a].dsts) :
    Covers(log, log[a].dsts[b].key, a - 1, b - 1, log[a].dsts[b].id)

RecoveringGen ==
  pc = "recovering" =>
    /\ \A k \in Keys : Covers(log, k, rec, recDst, gen[k])
    /\ IF rec < Len(log) THEN recDst <= Len(log[rec + 1].dsts) ELSE recDst = 0

SettledGen(base) == pc \in {"idle", "acking"} => gen = base

PublishingGen(base) ==
  pc = "publishing" =>
    /\ \A k \in Keys : gen[k] = base[k] + Count(outs, k, Len(dsts))
    /\ \A b \in 1..Len(dsts) :
         /\ dsts[b].key = outs[b].key
         /\ dsts[b].id = Number(base, outs, b)
         /\ \A n \in base[dsts[b].key]..(dsts[b].id - 1) :
              \E c \in 1..(b - 1) : dsts[c].key = dsts[b].key /\ dsts[c].id = n
    /\ \A k \in Keys : \A n \in base[k]..(gen[k] - 1) :
         \E c \in 1..Len(dsts) : dsts[c].key = k /\ dsts[c].id = n

NumberInv(base) ==
  /\ LogCovered(base) /\ LogOrdered
  /\ RecoveringGen /\ SettledGen(base) /\ PublishingGen(base)

-----------------------------------------------------------------------------
(* The outputs of a deterministic node for m after h.                      *)
Node(h, m) == CHOOSE o \in Outs(h, m) : TRUE

History(L, n) == [i \in 1..n |-> L[i].msg]

(* e was published for a record of log L.                                  *)
FromLog(L, k, e) ==
  \E a \in 1..Len(L) : \E b \in 1..Len(L[a].dsts) :
    /\ L[a].dsts[b].key = k /\ L[a].dsts[b].id = e.id
    /\ e.body = Node(History(L, a - 1), L[a].msg)[b].body

(* e was published by an attempt, finished or not, on the first delivery.  *)
FromAttempt(base, k, e) ==
  \E q \in Queues :
    /\ HasDelivery(q) /\ Delivery(q) \notin LoggedMsgs
    /\ LET o == Node(History(log, Len(log)), Delivery(q))
       IN  \E b \in 1..Len(o) :
             /\ o[b].key = k
             /\ e.id = Number(base, o, b)
             /\ e.body = o[b].body

OutFrom(base) ==
  \A k \in Keys : \A p \in 1..Len(out[k]) :
    FromLog(log, k, out[k][p]) \/ FromAttempt(base, k, out[k][p])

(* The record of a message has the destinations of the node's outputs.     *)
LogIsNode ==
  \A a \in 1..Len(log) :
    LET o == Node(History(log, a - 1), log[a].msg)
    IN  /\ Len(log[a].dsts) = Len(o)
        /\ \A b \in 1..Len(o) : log[a].dsts[b].key = o[b].key

(* Id n was published on key k.                                            *)
Published(k, n) == \E p \in 1..Len(out[k]) : out[k][p].id = n

LoggedPublished ==
  \A a \in 1..Len(log) : \A b \in 1..Len(log[a].dsts) :
    Published(log[a].dsts[b].key, log[a].dsts[b].id)

AttemptPublished == \A b \in 1..Len(dsts) : Published(dsts[b].key, dsts[b].id)

(* Each id is first published after the one before it.                     *)
OutDense ==
  \A k \in Keys : \A p \in 1..Len(out[k]) :
    out[k][p].id # 0 => \E r \in 1..(p - 1) : out[k][r].id + 1 = out[k][p].id

NextInv ==
  \A k \in Keys :
    /\ Len(accepted[k]) = expect[k]
    /\ \A i \in 1..got[k] :
         /\ out[k][i].id < expect[k]
         /\ accepted[k][out[k][i].id + 1] = out[k][i].body
    /\ \A n \in 0..(expect[k] - 1) : \E i \in 1..got[k] : out[k][i].id = n

-----------------------------------------------------------------------------
(* The parts that hold of every node.                                      *)
NodeInv(base) == ControlInv /\ InputInv /\ NumberInv(base)

(* Those that need one input queue and a deterministic node.               *)
IndInv(base) ==
  /\ NodeInv(base)
  /\ OutFrom(base) /\ LogIsNode /\ LoggedPublished /\ AttemptPublished /\ OutDense
  /\ NextInv

(* What the log leaves the generator at.                                   *)
Base == [k \in Keys |-> Cardinality(LoggedIds(k))]

(* Log, duplicate handler, generator, what was published and what the next *)
(* nodes let through agree, wherever consume or Recover was cut off.       *)
InductiveInvariant == TypeOK /\ IndInv(Base)
=============================================================================
