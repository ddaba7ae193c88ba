------------------------------- MODULE Worker -------------------------------
(***************************************************************************)
(* One worker node of the pipeline (internal/worker/worker.go) with its    *)
(* sequence-id generator (pkg/sequence), its duplicate handler (pkg/dup)   *)
(* and its recovery log (pkg/recovery), between the broker queues it reads *)
(* and the next node's duplicate handler on each key it publishes to.      *)
(*                                                                         *)
(* The node is killed at any step and started again (the health checker    *)
(* runs `docker restart`): its memory is lost, the recovery file and the   *)
(* broker's unacknowledged messages survive.                               *)
(*                                                                         *)
(* What a concrete node computes is the parameter Outs: the sequences of   *)
(* outputs that Process may publish for message m when the messages h have *)
(* been processed before it.  A node whose output order depends on the     *)
(* iteration order of a Go map has several of them.                        *)
(***************************************************************************)
EXTENDS Naturals, Sequences, FiniteSets

CONSTANTS
  Queues,      \* input queues of the node
  Sources,     \* uuids of the upstream nodes
  Keys,        \* routing keys the node publishes to
  Bodies,      \* message contents
  Inputs,      \* the messages upstream nodes send: [src, id, body]
  QueueOf,     \* the input queue each source publishes to
  Outs(_, _),  \* Outs(h, m): possible output sequences, each <<[key, body], ...>>
  MaxFeed,     \* bound: messages put in one input queue
  MaxCrashes   \* bound: times the node is killed

Outputs == [key : Keys, body : Bodies]

ASSUME WorkerAssumption ==
  /\ Inputs \subseteq [src : Sources, id : Nat, body : Bodies]
  /\ \A m, n \in Inputs : m.src = n.src /\ m.id = n.id => m = n
  /\ QueueOf \in [Sources -> Queues]
  /\ MaxFeed \in Nat /\ MaxCrashes \in Nat

VARIABLES
  feed,     \* [Queues -> Seq(Inputs)]: what the broker was handed, in its order
  acked,    \* [Queues -> Nat]: how many of them were acknowledged
  log,      \* recovery.csv: Seq of [msg, dsts]
  pc,       \* "down", "recovering", "idle", "publishing", "acking"
  cur,      \* the queue the delivery being handled came from
  rec,      \* records recovered so far
  recDst,   \* destinations of record rec + 1 recovered so far
  mem,      \* the node's state, as the messages it was built from
  outs,     \* outputs Process is publishing
  dsts,     \* sequence.Destination of the outputs published so far
  gen,      \* Generator.sequenceIds
  dup,      \* Handler.dupsByWorker
  out,      \* [Keys -> Seq([id, body])]: what was published, in order
  got,      \* [Keys -> Nat]: how much of out the next node has handled
  expect,   \* [Keys -> Nat]: the next node's dupsByWorker entry for this node
  accepted, \* [Keys -> Seq(Bodies)]: what passed the next node's IsDuplicate
  crashes

disk   == <<feed, acked, log>>
memory == <<rec, recDst, mem, gen, dup>>
work   == <<outs, dsts>>
next   == <<got, expect, accepted>>
vars   == <<feed, acked, log, pc, cur, rec, recDst, mem, outs, dsts, gen, dup,
            out, got, expect, accepted, crashes>>

Destinations == [key : Keys, id : Nat]
Records      == [msg : Inputs, dsts : Seq(Destinations)]

BrokerType ==
  /\ feed \in [Queues -> Seq(Inputs)]
  /\ acked \in [Queues -> Nat]
  /\ \A q \in Queues : acked[q] <= Len(feed[q])

ControlType ==
  /\ pc \in {"down", "recovering", "idle", "publishing", "acking"}
  /\ cur \in Queues
  /\ crashes \in 0..MaxCrashes

LogType == log \in Seq(Records) /\ rec \in 0..Len(log) /\ recDst \in Nat

MemoryType ==
  /\ mem \in Seq(Inputs)
  /\ gen \in [Keys -> Nat]
  /\ dup \in [Sources -> Nat]

WorkType ==
  /\ outs \in Seq(Outputs)
  /\ dsts \in Seq(Destinations)
  /\ Len(dsts) <= Len(outs)

NextType ==
  /\ out \in [Keys -> Seq([id : Nat, body : Bodies])]
  /\ got \in [Keys -> Nat]
  /\ \A k \in Keys : got[k] <= Len(out[k])
  /\ expect \in [Keys -> Nat]
  /\ accepted \in [Keys -> Seq(Bodies)]

TypeOK ==
  BrokerType /\ ControlType /\ LogType /\ MemoryType /\ WorkType /\ NextType

NoneYet(S) == [x \in S |-> 0]

Init ==
  /\ feed = [q \in Queues |-> <<>>] /\ acked = NoneYet(Queues)
  /\ log = <<>>
  /\ pc = "recovering"
  /\ cur \in Queues
  /\ rec = 0 /\ recDst = 0
  /\ mem = <<>> /\ outs = <<>> /\ dsts = <<>>
  /\ gen = NoneYet(Keys) /\ dup = NoneYet(Sources)
  /\ out = [k \in Keys |-> <<>>] /\ got = NoneYet(Keys)
  /\ expect = NoneYet(Keys) /\ accepted = [k \in Keys |-> <<>>]
  /\ crashes = 0

-----------------------------------------------------------------------------
(* The upstream nodes: each numbers its messages to this node 0, 1, 2, ... *)
(* and, being restarted itself, may publish one it has published before.   *)
Arrive(q) ==
  /\ Len(feed[q]) < MaxFeed
  /\ \E m \in Inputs :
       /\ QueueOf[m.src] = q
       /\ m.id # 0 => \E i \in 1..Len(feed[q]) :
                        feed[q][i].src = m.src /\ feed[q][i].id + 1 = m.id
       /\ feed' = [feed EXCEPT ![q] = Append(@, m)]
  /\ UNCHANGED <<acked, log, pc, cur, memory, work, out, next, crashes>>

(* Mutant of RecoverId: resumes at the last id used, not after it.         *)
RecoverIdStale ==
  /\ pc = "recovering" /\ rec < Len(log)
  /\ recDst < Len(log[rec + 1].dsts)
  /\ LET d == log[rec + 1].dsts[recDst + 1]
     IN  gen' = [gen EXCEPT ![d.key] = d.id]
  /\ recDst' = recDst + 1
  /\ UNCHANGED <<disk, pc, cur, rec, mem, work, dup, out, next, crashes>>

(* Worker.Recover, one step per assignment that a record causes: the ids   *)
(* of its destinations, then its message (handed to the node through ch)   *)
(* and the id of its source.                                               *)
RecoverId ==
  /\ pc = "recovering" /\ rec < Len(log)
  /\ recDst < Len(log[rec + 1].dsts)
  /\ LET d == log[rec + 1].dsts[recDst + 1]
     IN  gen' = [gen EXCEPT ![d.key] = d.id + 1]
  /\ recDst' = recDst + 1
  /\ UNCHANGED <<disk, pc, cur, rec, mem, work, dup, out, next, crashes>>

(* Mutant of RecoverMessage: the duplicate handler is not rebuilt.         *)
RecoverMessageOnly ==
  /\ pc = "recovering" /\ rec < Len(log)
  /\ recDst = Len(log[rec + 1].dsts)
  /\ mem' = Append(mem, log[rec + 1].msg)
  /\ rec' = rec + 1
  /\ recDst' = 0
  /\ UNCHANGED <<disk, pc, cur, dup, work, gen, out, next, crashes>>

RecoverMessage ==
  /\ pc = "recovering" /\ rec < Len(log)
  /\ recDst = Len(log[rec + 1].dsts)
  /\ LET m == log[rec + 1].msg
     IN  /\ mem' = Append(mem, m)
         /\ dup' = [dup EXCEPT ![m.src] = m.id + 1]
  /\ rec' = rec + 1
  /\ recDst' = 0
  /\ UNCHANGED <<disk, pc, cur, work, gen, out, next, crashes>>

RecoverDone ==
  /\ pc = "recovering" /\ rec = Len(log)
  /\ pc' = "idle"
  /\ UNCHANGED <<disk, cur, memory, work, out, next, crashes>>

(* reflect.Select hands over a delivery of any queue that has one; within  *)
(* a queue the order is the broker's, from the first unacknowledged.       *)
Delivery(q) == feed[q][acked[q] + 1]

HasDelivery(q) == acked[q] < Len(feed[q])

(* Mutant of IsDuplicate: the next id expected counts as seen.             *)
IsDuplicateInclusive(m) == m.id <= dup[m.src]

IsDuplicate(m) == m.id < dup[m.src]

(* Mutant of TakeDuplicate: a duplicate is skipped without Ack.            *)
SkipDuplicate(q) ==
  /\ pc = "idle" /\ HasDelivery(q)
  /\ IsDuplicate(Delivery(q))
  /\ cur' = q
  /\ UNCHANGED <<pc, disk, memory, work, out, next, crashes>>

TakeDuplicate(q) ==
  /\ pc = "idle" /\ HasDelivery(q)
  /\ IsDuplicate(Delivery(q))
  /\ pc' = "acking"
  /\ cur' = q
  /\ UNCHANGED <<disk, memory, work, out, next, crashes>>

(* Mutant of TakeNew: IsDuplicate does not note the id it lets through.    *)
TakeNewUnnoted(q) ==
  /\ pc = "idle" /\ HasDelivery(q)
  /\ LET m == Delivery(q)
     IN  /\ ~ IsDuplicate(m)
         /\ outs' \in Outs(mem, m)
         /\ mem' = Append(mem, m)
  /\ dsts' = <<>>
  /\ pc' = "publishing"
  /\ cur' = q
  /\ UNCHANGED <<disk, rec, recDst, dup, gen, out, next, crashes>>

(* IsDuplicate notes the id before Process starts; Process updates the     *)
(* node's state and settles what it will publish.                          *)
TakeNew(q) ==
  /\ pc = "idle" /\ HasDelivery(q)
  /\ LET m == Delivery(q)
     IN  /\ ~ IsDuplicate(m)
         /\ dup' = [dup EXCEPT ![m.src] = m.id + 1]
         /\ outs' \in Outs(mem, m)
         /\ mem' = Append(mem, m)
  /\ dsts' = <<>>
  /\ pc' = "publishing"
  /\ cur' = q
  /\ UNCHANGED <<disk, rec, recDst, gen, out, next, crashes>>

(* NextSequenceId and Broker.Publish of the next output.                   *)
Publish ==
  /\ pc = "publishing" /\ Len(dsts) < Len(outs)
  /\ LET o == outs[Len(dsts) + 1]
     IN  /\ gen' = [gen EXCEPT ![o.key] = @ + 1]
         /\ out' = [out EXCEPT ![o.key] =
                      Append(@, [id |-> gen[o.key], body |-> o.body])]
         /\ dsts' = Append(dsts, [key |-> o.key, id |-> gen[o.key]])
  /\ UNCHANGED <<disk, pc, cur, rec, recDst, mem, outs, dup, next, crashes>>

(* Mutant of Log: the record is written without its destinations.          *)
LogWithoutIds ==
  /\ pc = "publishing" /\ Len(dsts) = Len(outs)
  /\ log' = Append(log, [msg |-> Delivery(cur), dsts |-> <<>>])
  /\ outs' = <<>> /\ dsts' = <<>>
  /\ pc' = "acking"
  /\ UNCHANGED <<feed, acked, cur, memory, out, next, crashes>>

(* Mutant of Log: the record is written before the outputs are published.  *)
LogBeforePublish ==
  /\ pc = "publishing"
  /\ log' = Append(log, [msg |-> Delivery(cur), dsts |-> dsts])
  /\ outs' = <<>> /\ dsts' = <<>>
  /\ pc' = "acking"
  /\ UNCHANGED <<feed, acked, cur, memory, out, next, crashes>>

(* recovery.Log once Process has returned.                                 *)
Log ==
  /\ pc = "publishing" /\ Len(dsts) = Len(outs)
  /\ log' = Append(log, [msg |-> Delivery(cur), dsts |-> dsts])
  /\ outs' = <<>> /\ dsts' = <<>>
  /\ pc' = "acking"
  /\ UNCHANGED <<feed, acked, cur, memory, out, next, crashes>>

(* Mutant of Ack: a duplicate is acknowledged in both branches.            *)
AckTwice ==
  /\ pc = "acking"
  /\ acked' = [acked EXCEPT ![cur] = @ + 2]
  /\ pc' = "idle"
  /\ UNCHANGED <<feed, log, cur, memory, work, out, next, crashes>>

Ack ==
  /\ pc = "acking"
  /\ acked' = [acked EXCEPT ![cur] = @ + 1]
  /\ pc' = "idle"
  /\ UNCHANGED <<feed, log, cur, memory, work, out, next, crashes>>

(* The next node on key k: its own IsDuplicate, for this node's uuid.      *)
Deliver(k) ==
  /\ got[k] < Len(out[k])
  /\ LET e == out[k][got[k] + 1]
     IN  IF e.id < expect[k]
           THEN UNCHANGED <<expect, accepted>>
           ELSE /\ expect' = [expect EXCEPT ![k] = e.id + 1]
                /\ accepted' = [accepted EXCEPT ![k] = Append(@, e.body)]
  /\ got' = [got EXCEPT ![k] = @ + 1]
  /\ UNCHANGED <<disk, pc, cur, memory, work, out, crashes>>

(* The process dies: the broker requeues, in place, what was not acked.    *)
Crash ==
  /\ pc # "down" /\ crashes < MaxCrashes
  /\ pc' = "down"
  /\ crashes' = crashes + 1
  /\ outs' = <<>> /\ dsts' = <<>>
  /\ UNCHANGED <<disk, cur, memory, out, next>>

(* New and Init of the restarted process: empty maps, then Recover.        *)
Restart ==
  /\ pc = "down"
  /\ pc' = "recovering"
  /\ rec' = 0 /\ recDst' = 0 /\ mem' = <<>>
  /\ gen' = NoneYet(Keys) /\ dup' = NoneYet(Sources)
  /\ UNCHANGED <<disk, cur, work, out, next, crashes>>

Recover == RecoverId \/ RecoverMessage \/ RecoverDone

Consume ==
  \/ \E q \in Queues : TakeDuplicate(q) \/ TakeNew(q)
  \/ Publish
  \/ Log
  \/ Ack

Next ==
  \/ \E q \in Queues : Arrive(q)
  \/ Recover
  \/ Consume
  \/ \E k \in Keys : Deliver(k)
  \/ Crash
  \/ Restart

Spec == Init /\ [][Next]_vars

(* The node runs, is started again when it died, and so does the next one; *)
(* nothing makes a message arrive or the node die.                         *)
Fairness ==
  /\ WF_vars(Recover) /\ WF_vars(Consume) /\ WF_vars(Restart)
  /\ \A k \in Keys : WF_vars(Deliver(k))

FairSpec == Spec /\ Fairness

-----------------------------------------------------------------------------
(* The inputs of the properties below. *)
LoggedMsgs == { log[i].msg : i \in 1..Len(log) }

(* Two copies of one sequence id on one key carry the same content,        *)
(* however often the node is killed: the next node may drop either.        *)
SequenceIdNamesContent ==
  \A k \in Keys : \A i, j \in 1..Len(out[k]) :
    out[k][i].id = out[k][j].id => out[k][i].body = out[k][j].body

(* What the next node's IsDuplicate (pkg/dup/dup.go) drops, now or later,  *)
(* is a copy of something it let through, and it lets each id through      *)
(* once, in order: nothing is lost and nothing counts twice.               *)
AcceptedOnceInOrder ==
  \A k \in Keys :
    /\ Len(accepted[k]) = expect[k]
    /\ \A i \in 1..got[k] :
         /\ out[k][i].id < expect[k]
         /\ accepted[k][out[k][i].id + 1] = out[k][i].body

(* A message that was acknowledged, and so will not be delivered again, is *)
(* in the recovery log: the state it led to survives a restart.            *)
AckedIsLogged ==
  \A q \in Queues : \A i \in 1..acked[q] : feed[q][i] \in LoggedMsgs

(* "Persisted messages are not duplicates": the log holds a message once.  *)
LoggedOnce ==
  \A i, j \in 1..Len(log) : log[i].msg = log[j].msg => i = j

(* The ids that the log says were used on a key.                           *)
LoggedIds(k) ==
  { d.id : d \in { e \in UNION { { log[i].dsts[j] : j \in 1..Len(log[i].dsts) }
                                 : i \in 1..Len(log) } : e.key = k } }

(* Once recovery is over, the generator never hands out an id that a       *)
(* logged record already used: for each key it resumes right after them.   *)
GeneratorResumes ==
  pc \in {"idle", "acking"} =>
    \A k \in Keys : LoggedIds(k) = 0..(gen[k] - 1)
=============================================================================
