------------------------ MODULE WorkerContentProofs ------------------------
(***************************************************************************)
(* Proofs that a node with one input queue, whose Process is a function of *)
(* what it processed before, repeats under each sequence id the content it *)
(* published first, so that the next node's duplicate handler drops copies *)
(* only.  Both assumptions are needed: the runs worker_two_queues and      *)
(* worker_map_order show what happens without them.                        *)
(***************************************************************************)
EXTENDS WorkerProofs, WorkerRefinement

LEMMA NodeIsOuts ==
  ASSUME DeterministicNode, NEW h \in Seq(Inputs), NEW m \in Inputs,
         NEW o \in Outs(h, m)
  PROVE  Node(h, m) = o
<1>1. Node(h, m) \in Outs(h, m)
  BY DEF Node
<1> QED
  BY <1>1 DEF DeterministicNode

(* While it publishes, outs is what the node computes after the log's      *)
(* messages for a delivery the log does not hold.                          *)
LEMMA AttemptIsNode ==
  ASSUME DeterministicNode, BrokerType, ControlType, ControlInv, LogType,
         MemoryType, PublishingInv, pc = "publishing"
  PROVE  /\ HasDelivery(cur) /\ Delivery(cur) \notin LoggedMsgs
         /\ Node(History(log, Len(log)), Delivery(cur)) = outs
<1> DEFINE m == Delivery(cur)
<1>1. HasDelivery(cur)
  BY DEF ControlInv
<1>2. m \in Inputs /\ m.src \in Sources /\ m.id \in Nat
  BY <1>1, DeliveryType, InputFields DEF ControlType
<1>3. /\ DupAfter(Len(log), [dup EXCEPT ![m.src] = m.id])
      /\ MemAfter(Len(log), Earlier)
      /\ Len(mem) = Len(log) + 1
      /\ outs \in Outs(Earlier, m)
  BY DEF PublishingInv
<1>4. m \notin LoggedMsgs
  <2> SUFFICES ASSUME NEW i \in 1..Len(log), log[i].msg = m PROVE FALSE
    BY DEF LoggedMsgs
  <2>1. [dup EXCEPT ![m.src] = m.id][m.src] = m.id
    BY <1>2 DEF MemoryType
  <2>2. log[i].msg.id < m.id
    BY <1>2, <1>3, <2>1 DEF DupAfter
  <2> QED
    BY <1>2, <2>2
<1>5. Earlier \in Seq(Inputs) /\ Len(log) \in Nat
  BY <1>3 DEF MemoryType, LogType, Earlier
<1>6. History(log, Len(log)) = Earlier
  <2>1. Len(Earlier) = Len(log) /\ \A i \in 1..Len(log) : Earlier[i] = log[i].msg
    BY <1>3 DEF MemAfter
  <2>2. Earlier = [i \in 1..Len(log) |-> Earlier[i]]
    BY <1>5, <2>1
  <2> QED
    BY <2>1, <2>2 DEF History
<1>7. Node(Earlier, m) = outs
  BY <1>2, <1>3, <1>5, NodeIsOuts
<1> QED
  BY <1>1, <1>4, <1>6, <1>7

LEMMA PublishOut ==
  ASSUME MemoryType, WorkType, NextType, Publish
  PROVE  LET o == outs[Len(dsts) + 1]
             e == [id |-> gen[o.key], body |-> o.body]
         IN  /\ o.key \in Keys /\ gen[o.key] \in Nat
             /\ Len(dsts) \in Nat /\ Len(dsts) + 1 \in 1..Len(outs)
             /\ \A k \in Keys : Len(out[k]) \in Nat
             /\ \A k \in Keys : Len(out'[k]) = IF k = o.key THEN Len(out[k]) + 1
                                                           ELSE Len(out[k])
             /\ \A k \in Keys : \A p \in 1..Len(out[k]) : out'[k][p] = out[k][p]
             /\ out'[o.key][Len(out[o.key]) + 1] = e
             /\ Len(dsts') = Len(dsts) + 1
             /\ dsts'[Len(dsts) + 1] = [key |-> o.key, id |-> gen[o.key]]
             /\ \A b \in 1..Len(dsts) : dsts'[b] = dsts[b]
             /\ pc = "publishing"
             /\ UNCHANGED <<feed, acked, log, pc, cur, outs, got, expect, accepted>>
<1> DEFINE n == Len(dsts)
           o == outs[n + 1]
           E == [id : Nat, body : Bodies]
           e == [id |-> gen[o.key], body |-> o.body]
           d == [key |-> o.key, id |-> gen[o.key]]
<1>1. n \in Nat /\ n + 1 \in 1..Len(outs) /\ dsts \in Seq(Destinations)
  BY DEF Publish, WorkType
<1>2. o.key \in Keys /\ o.body \in Bodies
  BY <1>1, OutputType
<1>3. gen[o.key] \in Nat
  BY <1>2 DEF MemoryType
<1>4. e \in E /\ d \in Destinations
  BY <1>2, <1>3 DEF Destinations
<1>5. out \in [Keys -> Seq(E)]
  BY DEF NextType
<1>6. /\ out' = [out EXCEPT ![o.key] = Append(@, e)] /\ dsts' = Append(dsts, d)
      /\ pc = "publishing"
      /\ UNCHANGED <<feed, acked, log, pc, cur, outs, got, expect, accepted>>
  BY DEF Publish, disk, next
<1> HIDE DEF E, e, d, o, n
<1>7. /\ \A k \in Keys : Len(out[k]) \in Nat
      /\ \A k \in Keys : Len(out'[k]) = IF k = o.key THEN Len(out[k]) + 1
                                                    ELSE Len(out[k])
      /\ \A k \in Keys : \A p \in 1..Len(out[k]) : out'[k][p] = out[k][p]
      /\ out'[o.key][Len(out[o.key]) + 1] = e
  BY <1>2, <1>4, <1>5, <1>6
<1>8. /\ Len(dsts') = n + 1 /\ dsts'[n + 1] = d
      /\ \A b \in 1..n : dsts'[b] = dsts[b]
  BY <1>1, <1>4, <1>6 DEF n
<1> QED
  BY <1>1, <1>2, <1>3, <1>6, <1>7, <1>8 DEF n, o, e, d

-----------------------------------------------------------------------------
LEMMA ContentInit ==
  ASSUME Init, NEW base
  PROVE  /\ OutFrom(base) /\ LogIsNode /\ LoggedPublished /\ AttemptPublished
         /\ OutDense /\ NextInv
  BY DEF Init, NoneYet, OutFrom, LogIsNode, LoggedPublished, AttemptPublished, OutDense, NextInv

(* The log grows by what was just published.                               *)
LEMMA FromLogKept ==
  ASSUME BrokerType, ControlType, ControlInv, LogType, WorkType, Log,
         NEW k, NEW e, FromLog(log, k, e)
  PROVE  FromLog(log', k, e)
<1>1. /\ Len(log) \in Nat /\ Len(log') = Len(log) + 1
      /\ \A a \in 1..Len(log) : log'[a] = log[a]
  BY LogKept
<1>2. PICK a \in 1..Len(log) : \E b \in 1..Len(log[a].dsts) :
        /\ log[a].dsts[b].key = k /\ log[a].dsts[b].id = e.id
        /\ e.body = Node(History(log, a - 1), log[a].msg)[b].body
  BY DEF FromLog
<1>3. a \in 1..Len(log') /\ log'[a] = log[a]
  BY <1>1
<1>4. History(log', a - 1) = History(log, a - 1)
  <2>1. \A i \in 1..(a - 1) : log'[i].msg = log[i].msg
    BY <1>1
  <2> QED
    BY <2>1 DEF History
<1> QED
  BY <1>2, <1>3, <1>4 DEF FromLog

LEMMA OutFromKept ==
  ASSUME NEW base, UNCHANGED log,
         \A q \in Queues : HasDelivery(q) => HasDelivery(q)' /\ Delivery(q)' = Delivery(q),
         \A k \in Keys : \A p \in 1..Len(out'[k]) :
           FromLog(log, k, out'[k][p]) \/ FromAttempt(base, k, out'[k][p])
  PROVE  OutFrom(base)'
<1>1. LoggedMsgs' = LoggedMsgs
  BY DEF LoggedMsgs
<1>2. ASSUME NEW k \in Keys, NEW p \in 1..Len(out'[k])
      PROVE  \/ FromLog(log', k, out'[k][p])
             \/ \E q \in Queues :
                  /\ HasDelivery(q)' /\ Delivery(q)' \notin LoggedMsgs'
                  /\ LET w == Node(History(log', Len(log')), Delivery(q)')
                     IN  \E b \in 1..Len(w) :
                           /\ w[b].key = k
                           /\ out'[k][p].id = Number(base, w, b)
                           /\ out'[k][p].body = w[b].body
  <2>1. CASE FromLog(log, k, out'[k][p])
    BY <2>1
  <2>2. CASE FromAttempt(base, k, out'[k][p])
    <3>1. PICK q \in Queues :
            /\ HasDelivery(q) /\ Delivery(q) \notin LoggedMsgs
            /\ LET w == Node(History(log, Len(log)), Delivery(q))
               IN  \E b \in 1..Len(w) : /\ w[b].key = k
                                        /\ out'[k][p].id = Number(base, w, b)
                                        /\ out'[k][p].body = w[b].body
      BY <2>2 DEF FromAttempt
    <3>2. HasDelivery(q)' /\ Delivery(q)' = Delivery(q)
      BY <3>1
    <3> QED
      BY <1>1, <3>1, <3>2
  <2> QED
    BY <2>1, <2>2
<1> QED
  BY <1>2 DEF OutFrom, FromAttempt

LEMMA OutFromNext ==
  ASSUME NEW base \in [Keys -> Nat], SingleQueue, DeterministicNode,
         BrokerType, ControlType, ControlInv, LogType, MemoryType, WorkType, NextType,
         AckingInv, PublishingInv, PublishingGen(base), OutFrom(base), Next,
         NEW b2 \in [Keys -> Nat], b2 = IF Log THEN gen ELSE base
  PROVE  OutFrom(b2)'
<1>1. CASE Publish
  <2> DEFINE o == outs[Len(dsts) + 1]
             n == Len(dsts)
  <2>1. /\ o.key \in Keys /\ gen[o.key] \in Nat
        /\ n \in Nat /\ n + 1 \in 1..Len(outs)
        /\ \A k \in Keys : Len(out[k]) \in Nat
        /\ \A k \in Keys : Len(out'[k]) = IF k = o.key THEN Len(out[k]) + 1
                                                      ELSE Len(out[k])
        /\ \A k \in Keys : \A p \in 1..Len(out[k]) : out'[k][p] = out[k][p]
        /\ out'[o.key][Len(out[o.key]) + 1] = [id |-> gen[o.key], body |-> o.body]
        /\ pc = "publishing"
        /\ UNCHANGED <<feed, acked, log, pc, cur, outs>>
    BY <1>1, PublishOut
  <2>2. b2 = base
    BY <1>1, <2>1 DEF Publish, Log
  <2>3. /\ HasDelivery(cur) /\ Delivery(cur) \notin LoggedMsgs
        /\ Node(History(log, Len(log)), Delivery(cur)) = outs
    BY <2>1, AttemptIsNode
  <2>4. gen[o.key] = Number(base, outs, n + 1)
    <3>1. (n + 1) - 1 = n
      BY <2>1
    <3> QED
      BY <2>1, <3>1 DEF PublishingGen, Number
  <2>5. FromAttempt(base, o.key, [id |-> gen[o.key], body |-> o.body])
    BY <2>1, <2>3, <2>4 DEF FromAttempt, ControlType
  <2>6. \A q \in Queues : HasDelivery(q) => HasDelivery(q)' /\ Delivery(q)' = Delivery(q)
    BY <2>1 DEF HasDelivery, Delivery
  <2> HIDE DEF o, n
  <2>7. ASSUME NEW k \in Keys, NEW p \in 1..Len(out'[k])
        PROVE  FromLog(log, k, out'[k][p]) \/ FromAttempt(base, k, out'[k][p])
    <3>1. CASE p \in 1..Len(out[k])
      BY <2>1, <3>1 DEF OutFrom
    <3>2. CASE p \notin 1..Len(out[k])
      <4>0. /\ Len(out[k]) \in Nat
            /\ Len(out'[k]) = IF k = o.key THEN Len(out[k]) + 1 ELSE Len(out[k])
        BY <2>1
      <4>1. k = o.key /\ p = Len(out[o.key]) + 1
        BY <3>2, <4>0
      <4> QED
        BY <2>1, <2>5, <4>1
    <3> QED
      BY <3>1, <3>2
  <2>8. UNCHANGED log
    BY <2>1
  <2> QED
    BY <2>2, <2>6, <2>7, <2>8, OutFromKept
<1>2. CASE Log
  <2>1. /\ Len(log) \in Nat /\ Len(log') = Len(log) + 1
        /\ \A a \in 1..Len(log) : log'[a] = log[a]
        /\ log'[Len(log) + 1].msg = Delivery(cur)
        /\ log'[Len(log) + 1].dsts = dsts
    BY <1>2, LogKept
  <2>2. pc = "publishing" /\ Len(dsts) = Len(outs) /\ UNCHANGED out
    BY <1>2 DEF Log
  <2>3. Node(History(log, Len(log)), Delivery(cur)) = outs
    BY <2>2, AttemptIsNode
  <2>4. History(log', (Len(log) + 1) - 1) = History(log, Len(log))
    <3>1. (Len(log) + 1) - 1 = Len(log) /\ \A i \in 1..Len(log) : log'[i].msg = log[i].msg
      BY <2>1
    <3> QED
      BY <3>1 DEF History
  <2>5. \A b \in 1..Len(dsts) : dsts[b].key = outs[b].key
                                /\ dsts[b].id = Number(base, outs, b)
    BY <2>2 DEF PublishingGen
  <2>6. ASSUME NEW k \in Keys, NEW e, FromAttempt(base, k, e)
        PROVE  FromLog(log', k, e)
    <3>1. \E b \in 1..Len(outs) :
            /\ outs[b].key = k /\ e.id = Number(base, outs, b)
            /\ e.body = outs[b].body
      <4>1. PICK q \in Queues :
              LET w == Node(History(log, Len(log)), Delivery(q))
              IN  \E b \in 1..Len(w) : /\ w[b].key = k
                                       /\ e.id = Number(base, w, b)
                                       /\ e.body = w[b].body
        BY <2>6 DEF FromAttempt
      <4>2. q = cur
        BY DEF SingleQueue, ControlType
      <4> QED
        BY <2>3, <4>1, <4>2
    <3>2. PICK b \in 1..Len(outs) :
            /\ outs[b].key = k /\ e.id = Number(base, outs, b)
            /\ e.body = outs[b].body
      BY <3>1
    <3>3. b \in 1..Len(dsts) /\ dsts[b].key = k /\ dsts[b].id = e.id
      BY <2>2, <2>5, <3>2
    <3>4. Len(log) + 1 \in 1..Len(log')
      BY <2>1
    <3>5. e.body = Node(History(log', (Len(log) + 1) - 1), Delivery(cur))[b].body
      BY <2>3, <2>4, <3>2
    <3> QED
      BY <2>1, <3>3, <3>4, <3>5 DEF FromLog
  <2>7. \A k \in Keys : \A p \in 1..Len(out'[k]) : FromLog(log', k, out'[k][p])
    BY <1>2, <2>2, <2>6, FromLogKept DEF OutFrom
  <2> QED
    BY <2>7 DEF OutFrom
<1>3. CASE Ack
  <2>1. pc = "acking" /\ UNCHANGED <<log, out>>
    BY <1>3 DEF Ack
  <2>2. \A k \in Keys : \A e : ~ FromAttempt(base, k, e)
    BY <2>1 DEF FromAttempt, AckingInv, SingleQueue, ControlType
  <2>3. \A k \in Keys : \A p \in 1..Len(out'[k]) : FromLog(log', k, out'[k][p])
    BY <2>1, <2>2 DEF OutFrom
  <2> QED
    BY <2>3 DEF OutFrom
<1>4. ASSUME NEW q \in Queues, Arrive(q) PROVE OutFrom(b2)'
  <2>1. /\ UNCHANGED <<acked, log, pc, out, dsts, outs>>
        /\ \A r \in Queues : HasDelivery(r) => HasDelivery(r)' /\ Delivery(r)' = Delivery(r)
    BY <1>4, FeedKept
  <2>2. b2 = base
    BY <2>1 DEF Log
  <2>3. \A k \in Keys : \A p \in 1..Len(out'[k]) :
          FromLog(log, k, out'[k][p]) \/ FromAttempt(base, k, out'[k][p])
    BY <2>1 DEF OutFrom
  <2> QED
    BY <2>1, <2>2, <2>3, OutFromKept
<1>5. CASE ~ Publish /\ ~ Log /\ ~ Ack /\ \A q \in Queues : ~ Arrive(q)
  <2>1. UNCHANGED <<feed, acked, log, out>>
    BY <1>5 DEF Next, Recover, RecoverId, RecoverMessage, RecoverDone, Consume,
       TakeDuplicate, TakeNew, Deliver, Crash, Restart, disk
  <2>2. b2 = base
    BY <1>5
  <2>3. \A q \in Queues : HasDelivery(q)' = HasDelivery(q) /\ Delivery(q)' = Delivery(q)
    BY <2>1 DEF HasDelivery, Delivery
  <2>4. \A k \in Keys : \A p \in 1..Len(out'[k]) :
          FromLog(log, k, out'[k][p]) \/ FromAttempt(base, k, out'[k][p])
    BY <2>1 DEF OutFrom
  <2> QED
    BY <2>1, <2>2, <2>3, <2>4, OutFromKept
<1> QED
  BY <1>1, <1>2, <1>3, <1>4, <1>5

LEMMA LogIsNodeNext ==
  ASSUME DeterministicNode, NEW base, BrokerType, ControlType, ControlInv, LogType,
         MemoryType, WorkType, PublishingInv, PublishingGen(base), LogIsNode, Next
  PROVE  LogIsNode'
<1>1. CASE Log
  <2>1. /\ Len(log) \in Nat /\ Len(log') = Len(log) + 1
        /\ \A a \in 1..Len(log) : log'[a] = log[a]
        /\ log'[Len(log) + 1].msg = Delivery(cur)
        /\ log'[Len(log) + 1].dsts = dsts
    BY <1>1, LogKept
  <2>2. pc = "publishing" /\ Len(dsts) = Len(outs)
    BY <1>1 DEF Log
  <2>3. Node(History(log, Len(log)), Delivery(cur)) = outs
    BY <2>2, AttemptIsNode
  <2>4. \A b \in 1..Len(outs) : dsts[b].key = outs[b].key
    BY <2>2 DEF PublishingGen
  <2>5. ASSUME NEW a \in 1..Len(log')
        PROVE  LET o == Node(History(log', a - 1), log'[a].msg)
               IN  /\ Len(log'[a].dsts) = Len(o)
                   /\ \A b \in 1..Len(o) : log'[a].dsts[b].key = o[b].key
    <3>1. History(log', a - 1) = History(log, a - 1)
      <4>1. \A i \in 1..(a - 1) : log'[i].msg = log[i].msg
        BY <2>1
      <4> QED
        BY <4>1 DEF History
    <3>2. CASE a \in 1..Len(log)
      <4>1. log'[a] = log[a]
        BY <2>1, <3>2
      <4> QED
        BY <3>1, <3>2, <4>1 DEF LogIsNode
    <3>3. CASE a = Len(log) + 1
      <4>1. a - 1 = Len(log) /\ log'[a].msg = Delivery(cur) /\ log'[a].dsts = dsts
        BY <2>1, <3>3
      <4> QED
        BY <2>2, <2>3, <2>4, <3>1, <4>1
    <3> QED
      BY <2>1, <3>2, <3>3
  <2> QED
    BY <2>5 DEF LogIsNode
<1>2. CASE ~ Log
  <2>1. UNCHANGED log
    BY <1>2 DEF Next, Arrive, Recover, RecoverId, RecoverMessage, RecoverDone, Consume,
       TakeDuplicate, TakeNew, Publish, Ack, Deliver, Crash, Restart, disk
  <2> QED
    BY <2>1 DEF LogIsNode, History
<1> QED
  BY <1>1, <1>2

-----------------------------------------------------------------------------
LEMMA OutKept ==
  ASSUME MemoryType, WorkType, NextType, Next, NEW k \in Keys
  PROVE  /\ Len(out[k]) \in Nat /\ Len(out[k]) <= Len(out'[k])
         /\ \A p \in 1..Len(out[k]) : out'[k][p] = out[k][p]
<1>1. Len(out[k]) \in Nat
  BY DEF NextType
<1>2. CASE Publish
  <2> DEFINE j == outs[Len(dsts) + 1].key
  <2>1. /\ Len(out'[k]) = IF k = j THEN Len(out[k]) + 1 ELSE Len(out[k])
        /\ \A p \in 1..Len(out[k]) : out'[k][p] = out[k][p]
    BY <1>2, PublishOut, Zenon
  <2> HIDE DEF j
  <2> QED
    BY <1>1, <2>1
<1>3. CASE ~ Publish
  <2>1. UNCHANGED out
    BY <1>3 DEF Next, Arrive, Recover, RecoverId, RecoverMessage, RecoverDone,
       Consume, TakeDuplicate, TakeNew, Log, Ack, Deliver, Crash, Restart
  <2> QED
    BY <1>1, <2>1
<1> QED
  BY <1>2, <1>3

LEMMA PublishedKept ==
  ASSUME MemoryType, WorkType, NextType, Next, NEW k \in Keys, NEW n, Published(k, n)
  PROVE  \E p \in 1..Len(out'[k]) : out'[k][p].id = n
<1>1. PICK p \in 1..Len(out[k]) : out[k][p].id = n
  BY DEF Published
<1>2. p \in 1..Len(out'[k]) /\ out'[k][p] = out[k][p]
  BY OutKept
<1> QED
  BY <1>1, <1>2

LEMMA LoggedPublishedNext ==
  ASSUME BrokerType, ControlType, ControlInv, LogType, MemoryType, WorkType,
         NextType, LoggedPublished, AttemptPublished, Next
  PROVE  LoggedPublished'
<1>1. CASE Log
  <2>1. /\ Len(log) \in Nat /\ Len(log') = Len(log) + 1
        /\ \A a \in 1..Len(log) : log'[a] = log[a]
        /\ log'[Len(log) + 1].dsts = dsts
    BY <1>1, LogKept
  <2>2. \A a \in 1..Len(log') : a \in 1..Len(log) \/ a = Len(log) + 1
    BY <2>1
  <2>3. UNCHANGED out
    BY <1>1 DEF Log
  <2>4. ASSUME NEW a \in 1..Len(log'), NEW b \in 1..Len(log'[a].dsts)
        PROVE  \E p \in 1..Len(out[log'[a].dsts[b].key]) :
                 out[log'[a].dsts[b].key][p].id = log'[a].dsts[b].id
    <3>1. CASE a \in 1..Len(log)
      <4>1. log'[a] = log[a]
        BY <2>1, <3>1
      <4>2. b \in 1..Len(log[a].dsts)
        BY <4>1
      <4>3. Published(log[a].dsts[b].key, log[a].dsts[b].id)
        BY <3>1, <4>2 DEF LoggedPublished
      <4> QED
        BY <4>1, <4>3 DEF Published
    <3>2. CASE a = Len(log) + 1
      <4>1. log'[a].dsts = dsts
        BY <2>1, <3>2
      <4> QED
        BY <4>1 DEF AttemptPublished, Published
    <3> QED
      BY <2>2, <3>1, <3>2
  <2> QED
    BY <2>3, <2>4 DEF LoggedPublished, Published
<1>2. CASE ~ Log
  <2>1. UNCHANGED log
    BY <1>2 DEF Next, Arrive, Recover, RecoverId, RecoverMessage, RecoverDone,
       Consume, TakeDuplicate, TakeNew, Publish, Ack, Deliver, Crash, Restart, disk
  <2>2. ASSUME NEW a \in 1..Len(log), NEW b \in 1..Len(log[a].dsts)
        PROVE  \E p \in 1..Len(out'[log[a].dsts[b].key]) :
                 out'[log[a].dsts[b].key][p].id = log[a].dsts[b].id
    <3>1. log[a].dsts[b].key \in Keys
      BY RecordType
    <3>2. Published(log[a].dsts[b].key, log[a].dsts[b].id)
      BY DEF LoggedPublished
    <3> QED
      BY <3>1, <3>2, PublishedKept
  <2>3. ASSUME NEW a \in 1..Len(log'), NEW b \in 1..Len(log'[a].dsts)
        PROVE  \E p \in 1..Len(out'[log'[a].dsts[b].key]) :
                 out'[log'[a].dsts[b].key][p].id = log'[a].dsts[b].id
    BY <2>1, <2>2
  <2> QED
    BY <2>3, Zenon DEF LoggedPublished, Published
<1> QED
  BY <1>1, <1>2

LEMMA AttemptPublishedNext ==
  ASSUME MemoryType, WorkType, NextType, AttemptPublished, Next
  PROVE  AttemptPublished'
<1>0. \A b \in 1..Len(dsts) : dsts[b].key \in Keys
  <2>1. dsts \in Seq(Destinations)
    BY DEF WorkType
  <2>2. \A b \in 1..Len(dsts) : dsts[b] \in Destinations
    BY <2>1
  <2> QED
    BY <2>2 DEF Destinations
<1>1. ASSUME NEW b \in 1..Len(dsts)
      PROVE  \E p \in 1..Len(out'[dsts[b].key]) : out'[dsts[b].key][p].id = dsts[b].id
  <2>1. Published(dsts[b].key, dsts[b].id)
    BY DEF AttemptPublished
  <2> QED
    BY <1>0, <2>1, PublishedKept
<1>2. CASE Publish
  <2> DEFINE o == outs[Len(dsts) + 1]
             n == Len(dsts)
  <2>1. /\ o.key \in Keys /\ n \in Nat /\ Len(dsts') = n + 1
        /\ \A k \in Keys : Len(out[k]) \in Nat
        /\ \A k \in Keys : Len(out'[k]) = IF k = o.key THEN Len(out[k]) + 1
                                                      ELSE Len(out[k])
        /\ out'[o.key][Len(out[o.key]) + 1] = [id |-> gen[o.key], body |-> o.body]
        /\ dsts'[n + 1] = [key |-> o.key, id |-> gen[o.key]]
        /\ \A b \in 1..n : dsts'[b] = dsts[b]
    BY <1>2, PublishOut
  <2>2. \A b \in 1..Len(dsts') : b \in 1..n \/ b = n + 1
    BY <2>1
  <2>3. /\ Len(out[o.key]) + 1 \in 1..Len(out'[o.key])
        /\ out'[o.key][Len(out[o.key]) + 1].id = gen[o.key]
    BY <2>1
  <2>4. dsts'[n + 1].key = o.key /\ dsts'[n + 1].id = gen[o.key]
    BY <2>1
  <2> HIDE DEF o, n
  <2>5. ASSUME NEW b \in 1..Len(dsts')
        PROVE  \E p \in 1..Len(out'[dsts'[b].key]) : out'[dsts'[b].key][p].id = dsts'[b].id
    <3>1. CASE b \in 1..n
      <4>1. dsts'[b] = dsts[b]
        BY <2>1, <3>1
      <4> QED
        BY <1>1, <3>1, <4>1 DEF n
    <3>2. CASE b = n + 1
      BY <2>3, <2>4, <3>2
    <3> QED
      BY <2>2, <3>1, <3>2
  <2> QED
    BY <2>5 DEF AttemptPublished, Published
<1>3. CASE ~ Publish
  <2>1. dsts' = dsts \/ dsts' = <<>>
    BY <1>3 DEF Next, Arrive, Recover, RecoverId, RecoverMessage, RecoverDone,
       Consume, TakeDuplicate, TakeNew, Log, Ack, Deliver, Crash, Restart, work
  <2>2. ASSUME NEW b \in 1..Len(dsts')
        PROVE  \E p \in 1..Len(out'[dsts'[b].key]) : out'[dsts'[b].key][p].id = dsts'[b].id
    BY <1>1, <2>1
  <2> QED
    BY <2>2, Zenon DEF AttemptPublished, Published
<1> QED
  BY <1>2, <1>3

LEMMA OutDenseNext ==
  ASSUME NEW base \in [Keys -> Nat], LogType, MemoryType, WorkType, NextType,
         LogCovered(base), PublishingGen(base), LoggedPublished, AttemptPublished,
         OutDense, Next
  PROVE  OutDense'
<1>1. CASE Publish
  <2> DEFINE o == outs[Len(dsts) + 1]
  <2>1. /\ o.key \in Keys /\ gen[o.key] \in Nat /\ pc = "publishing"
        /\ \A k \in Keys : Len(out[k]) \in Nat
        /\ \A k \in Keys : Len(out'[k]) = IF k = o.key THEN Len(out[k]) + 1
                                                      ELSE Len(out[k])
        /\ \A k \in Keys : \A p \in 1..Len(out[k]) : out'[k][p] = out[k][p]
        /\ out'[o.key][Len(out[o.key]) + 1] = [id |-> gen[o.key], body |-> o.body]
    BY <1>1, PublishOut
  <2> HIDE DEF o
  <2>2. ASSUME gen[o.key] # 0 PROVE Published(o.key, gen[o.key] - 1)
    <3>1. base[o.key] \in Nat
      BY <2>1
    <3>2. CASE gen[o.key] - 1 < base[o.key]
      <4>1. gen[o.key] - 1 \in 0..(base[o.key] - 1)
        BY <2>1, <2>2, <3>1, <3>2
      <4>2. PICK a \in 1..Len(log) : \E b \in 1..Len(log[a].dsts) :
              log[a].dsts[b].key = o.key /\ log[a].dsts[b].id = gen[o.key] - 1
        <5>1. Covers(log, o.key, Len(log), 0, base[o.key])
          BY <2>1 DEF LogCovered
        <5> QED
          BY <4>1, <5>1 DEF Covers
      <4> QED
        BY <4>2 DEF LoggedPublished
    <3>3. CASE ~ (gen[o.key] - 1 < base[o.key])
      <4>1. gen[o.key] - 1 \in base[o.key]..(gen[o.key] - 1)
        BY <2>1, <3>1, <3>3
      <4>2. PICK c \in 1..Len(dsts) : dsts[c].key = o.key /\ dsts[c].id = gen[o.key] - 1
        BY <2>1, <4>1 DEF PublishingGen
      <4> QED
        BY <4>2 DEF AttemptPublished
    <3> QED
      BY <3>2, <3>3
  <2>3. ASSUME NEW k \in Keys, NEW p \in 1..Len(out'[k]), out'[k][p].id # 0
        PROVE  \E r \in 1..(p - 1) : out'[k][r].id + 1 = out'[k][p].id
    <3>1. CASE p \in 1..Len(out[k])
      <4>1. PICK r \in 1..(p - 1) : out[k][r].id + 1 = out[k][p].id
        BY <2>1, <2>3, <3>1 DEF OutDense
      <4>2. r \in 1..Len(out[k])
        BY <2>1, <3>1
      <4> QED
        BY <2>1, <3>1, <4>1, <4>2
    <3>2. CASE p \notin 1..Len(out[k])
      <4>1. k = o.key /\ p = Len(out[o.key]) + 1 /\ out'[k][p].id = gen[o.key]
        BY <2>1, <3>2
      <4>2. PICK r \in 1..Len(out[k]) : out[k][r].id = gen[o.key] - 1
        BY <2>2, <2>3, <4>1 DEF Published
      <4>3. r \in 1..(p - 1) /\ out'[k][r] = out[k][r]
        BY <2>1, <4>1, <4>2
      <4>4. (gen[o.key] - 1) + 1 = gen[o.key]
        BY <2>1
      <4> QED
        BY <4>1, <4>2, <4>3, <4>4
    <3> QED
      BY <3>1, <3>2
  <2> QED
    BY <2>3 DEF OutDense
<1>2. CASE ~ Publish
  <2>1. UNCHANGED out
    BY <1>2 DEF Next, Arrive, Recover, RecoverId, RecoverMessage, RecoverDone,
       Consume, TakeDuplicate, TakeNew, Log, Ack, Deliver, Crash, Restart
  <2> QED
    BY <2>1 DEF OutDense
<1> QED
  BY <1>1, <1>2

-----------------------------------------------------------------------------
(* The log uses an id of a key once.                                       *)
LEMMA LogEntryUnique ==
  ASSUME LogType, LogOrdered,
         NEW a \in 1..Len(log), NEW b \in 1..Len(log[a].dsts),
         NEW c \in 1..Len(log), NEW e \in 1..Len(log[c].dsts),
         log[a].dsts[b].key = log[c].dsts[e].key,
         log[a].dsts[b].id = log[c].dsts[e].id
  PROVE  a = c /\ b = e
<1>1. ASSUME NEW x \in 1..Len(log), NEW y \in 1..Len(log[x].dsts),
             NEW z \in 1..Len(log), NEW w \in 1..Len(log[z].dsts),
             log[x].dsts[y].key = log[z].dsts[w].key,
             log[x].dsts[y].id = log[z].dsts[w].id,
             Before(x, y, z - 1, w - 1)
      PROVE  FALSE
  <2>1. Covers(log, log[z].dsts[w].key, z - 1, w - 1, log[z].dsts[w].id)
    BY DEF LogOrdered
  <2>2. log[x].dsts[y].id < log[z].dsts[w].id
    BY <1>1, <2>1 DEF Covers
  <2> DEFINE i == log[x].dsts[y].id
  <2>3. i \in Nat /\ i < i
    BY <1>1, <2>2, RecordType
  <2> HIDE DEF i
  <2> QED
    BY <2>3
<1>2. /\ Len(log) \in Nat /\ Len(log[a].dsts) \in Nat /\ Len(log[c].dsts) \in Nat
  BY LogLengths
<1>3. Before(a, b, c - 1, e - 1) \/ Before(c, e, a - 1, b - 1) \/ (a = c /\ b = e)
  BY <1>2 DEF Before
<1> QED
  BY <1>1, <1>3

(* An id below base is in the log; an attempt numbers from base on.        *)
LEMMA LoggedBelowBase ==
  ASSUME NEW base, LogCovered(base), NEW k \in Keys, NEW e, FromLog(log, k, e)
  PROVE  e.id < base[k]
<1>1. PICK a \in 1..Len(log) : \E b \in 1..Len(log[a].dsts) :
        log[a].dsts[b].key = k /\ log[a].dsts[b].id = e.id
  BY DEF FromLog
<1>2. \A b : Before(a, b, Len(log), 0)
  BY DEF Before
<1> QED
  BY <1>1, <1>2 DEF LogCovered, Covers

LEMMA AttemptAboveBase ==
  ASSUME NEW base \in [Keys -> Nat], NEW k \in Keys, NEW e, FromAttempt(base, k, e)
  PROVE  e.id \in Nat /\ base[k] <= e.id
<1>1. PICK q \in Queues :
        LET o == Node(History(log, Len(log)), Delivery(q))
        IN  \E b \in 1..Len(o) : o[b].key = k /\ e.id = Number(base, o, b)
  BY DEF FromAttempt
<1> DEFINE o == Node(History(log, Len(log)), Delivery(q))
<1>2. PICK b \in 1..Len(o) : o[b].key = k /\ e.id = Number(base, o, b)
  BY <1>1
<1> HIDE DEF o
<1>3. Count(o, k, b - 1) \in Nat
  <2>1. b - 1 \in Nat
    OBVIOUS
  <2> QED
    BY <2>1, CountFinite
<1>4. e.id = base[k] + Count(o, k, b - 1)
  BY <1>2 DEF Number
<1> QED
  BY <1>3, <1>4

LEMMA AttemptUnique ==
  ASSUME NEW base \in [Keys -> Nat], SingleQueue, NEW k \in Keys, NEW e, NEW f,
         FromAttempt(base, k, e), FromAttempt(base, k, f), e.id = f.id
  PROVE  e.body = f.body
<1>1. PICK q \in Queues :
        LET o == Node(History(log, Len(log)), Delivery(q))
        IN  \E b \in 1..Len(o) : /\ o[b].key = k /\ e.id = Number(base, o, b)
                                 /\ e.body = o[b].body
  BY DEF FromAttempt
<1>2. PICK r \in Queues :
        LET o == Node(History(log, Len(log)), Delivery(r))
        IN  \E b \in 1..Len(o) : /\ o[b].key = k /\ f.id = Number(base, o, b)
                                 /\ f.body = o[b].body
  BY DEF FromAttempt
<1> DEFINE o == Node(History(log, Len(log)), Delivery(q))
<1>3. q = r
  BY DEF SingleQueue
<1>4. PICK b \in 1..Len(o) : /\ o[b].key = k /\ e.id = Number(base, o, b)
                             /\ e.body = o[b].body
  BY <1>1
<1>5. PICK c \in 1..Len(o) : /\ o[c].key = k /\ f.id = Number(base, o, c)
                             /\ f.body = o[c].body
  BY <1>2, <1>3
<1> HIDE DEF o
<1>6. ASSUME NEW x \in Nat \ {0}, NEW y \in Nat, x < y, o[x].key = k, o[y].key = k,
             Number(base, o, x) = Number(base, o, y)
      PROVE  FALSE
  <2>1. Number(base, o, x) < Number(base, o, y)
    BY <1>6, NumbersIncrease
  <2>2. Number(base, o, x) \in Nat
    <3>1. x - 1 \in Nat
      OBVIOUS
    <3>2. Count(o, k, x - 1) \in Nat
      BY <3>1, CountFinite
    <3> QED
      BY <1>6, <3>2 DEF Number
  <2> QED
    BY <1>6, <2>1, <2>2
<1>7. b = c
  <2>1. b \in Nat \ {0} /\ c \in Nat \ {0}
    OBVIOUS
  <2>2. b < c \/ c < b \/ b = c
    BY <2>1
  <2> QED
    BY <1>4, <1>5, <1>6, <2>1, <2>2
<1> QED
  BY <1>4, <1>5, <1>7

LEMMA ContentOfIds ==
  ASSUME NEW base \in [Keys -> Nat], SingleQueue, LogType, LogCovered(base),
         LogOrdered, OutFrom(base)
  PROVE  SequenceIdNamesContent
<1> SUFFICES ASSUME NEW k \in Keys, NEW i \in 1..Len(out[k]), NEW j \in 1..Len(out[k]),
                    out[k][i].id = out[k][j].id
             PROVE  out[k][i].body = out[k][j].body
  BY DEF SequenceIdNamesContent
<1> DEFINE e == out[k][i]
           f == out[k][j]
<1>1. /\ FromLog(log, k, e) \/ FromAttempt(base, k, e)
      /\ FromLog(log, k, f) \/ FromAttempt(base, k, f)
      /\ e.id = f.id
  BY DEF OutFrom
<1> HIDE DEF e, f
<1>2. CASE FromLog(log, k, e) /\ FromLog(log, k, f)
  <2>1. PICK a \in 1..Len(log) : \E b \in 1..Len(log[a].dsts) :
          /\ log[a].dsts[b].key = k /\ log[a].dsts[b].id = e.id
          /\ e.body = Node(History(log, a - 1), log[a].msg)[b].body
    BY <1>2 DEF FromLog
  <2>2. PICK b \in 1..Len(log[a].dsts) :
          /\ log[a].dsts[b].key = k /\ log[a].dsts[b].id = e.id
          /\ e.body = Node(History(log, a - 1), log[a].msg)[b].body
    BY <2>1
  <2>3. PICK c \in 1..Len(log) : \E d \in 1..Len(log[c].dsts) :
          /\ log[c].dsts[d].key = k /\ log[c].dsts[d].id = f.id
          /\ f.body = Node(History(log, c - 1), log[c].msg)[d].body
    BY <1>2 DEF FromLog
  <2>4. PICK d \in 1..Len(log[c].dsts) :
          /\ log[c].dsts[d].key = k /\ log[c].dsts[d].id = f.id
          /\ f.body = Node(History(log, c - 1), log[c].msg)[d].body
    BY <2>3
  <2>5. a = c /\ b = d
    <3>1. /\ log[a].dsts[b].key = log[c].dsts[d].key
          /\ log[a].dsts[b].id = log[c].dsts[d].id
      BY <1>1, <2>2, <2>4 DEF e, f
    <3> QED
      BY <3>1, LogEntryUnique
  <2> QED
    BY <2>2, <2>4, <2>5 DEF e, f
<1>3. CASE FromAttempt(base, k, e) /\ FromAttempt(base, k, f)
  BY <1>1, <1>3, AttemptUnique DEF e, f
<1>4. \A x, y : FromLog(log, k, x) /\ FromAttempt(base, k, y) => x.id # y.id
  <2> SUFFICES ASSUME NEW x, NEW y, FromLog(log, k, x), FromAttempt(base, k, y),
                      x.id = y.id
               PROVE  FALSE
    OBVIOUS
  <2>1. x.id < base[k] /\ base[k] <= y.id /\ y.id \in Nat /\ base[k] \in Nat
    BY LoggedBelowBase, AttemptAboveBase
  <2> QED
    BY <2>1
<1> QED
  BY <1>1, <1>2, <1>3, <1>4

(* The next node lets a copy through only when it is the next id.          *)
LEMMA NextIsExpected ==
  ASSUME NextType, OutDense, NextInv, NEW k \in Keys, got[k] < Len(out[k]),
         ~ (out[k][got[k] + 1].id < expect[k])
  PROVE  out[k][got[k] + 1].id = expect[k]
<1> DEFINE g == got[k] + 1
<1>1. /\ Len(out[k]) \in Nat /\ got[k] \in Nat /\ expect[k] \in Nat
      /\ \A p \in 1..Len(out[k]) : out[k][p].id \in Nat
  <2> DEFINE E == [id : Nat, body : Bodies]
  <2>1. out \in [Keys -> Seq(E)] /\ \A x \in E : x.id \in Nat
    BY DEF NextType
  <2> HIDE DEF E
  <2>2. \A p \in 1..Len(out[k]) : out[k][p] \in E
    BY <2>1
  <2> QED
    BY <2>1, <2>2 DEF NextType
<1>2. g \in 1..Len(out[k]) /\ out[k][g].id \in Nat
  BY <1>1
<1>3. CASE out[k][g].id = 0
  BY <1>1, <1>3
<1>4. CASE out[k][g].id # 0
  <2>1. PICK r \in 1..(g - 1) : out[k][r].id + 1 = out[k][g].id
    BY <1>2, <1>4 DEF OutDense
  <2>2. r \in 1..got[k] /\ r \in 1..Len(out[k])
    BY <1>1
  <2>3. out[k][r].id < expect[k] /\ out[k][r].id \in Nat
    BY <1>1, <2>2 DEF NextInv
  <2> DEFINE x == out[k][r].id
             y == out[k][g].id
             z == expect[k]
  <2>4. /\ x \in Nat /\ y \in Nat /\ z \in Nat
        /\ x + 1 = y /\ x < z /\ ~ (y < z)
    BY <1>1, <1>2, <2>1, <2>3
  <2> HIDE DEF x, y, z
  <2>5. y = z
    BY <2>4
  <2> QED
    BY <2>5 DEF y, z
<1> QED
  BY <1>3, <1>4

(* The next node lets through an id it has not seen, always the next one.  *)
LEMMA NextInvNext ==
  ASSUME MemoryType, WorkType, NextType, SequenceIdNamesContent, OutDense, NextInv, Next
  PROVE  NextInv'
<1>0. \A k \in Keys : /\ Len(out[k]) \in Nat /\ got[k] \in Nat /\ expect[k] \in Nat
                       /\ got[k] <= Len(out[k])
                       /\ accepted[k] \in Seq(Bodies)
                       /\ \A p \in 1..Len(out[k]) : /\ out[k][p].id \in Nat
                                                    /\ out[k][p].body \in Bodies
  <2> DEFINE E == [id : Nat, body : Bodies]
  <2>1. out \in [Keys -> Seq(E)]
    BY DEF NextType
  <2>2. \A x \in E : x.id \in Nat /\ x.body \in Bodies
    OBVIOUS
  <2> HIDE DEF E
  <2>3. \A k \in Keys : \A p \in 1..Len(out[k]) : out[k][p] \in E
    BY <2>1
  <2> QED
    BY <2>1, <2>2, <2>3 DEF NextType
<1>1. ASSUME NEW k \in Keys, Deliver(k) PROVE NextInv'
  <2> DEFINE g == got[k] + 1
             e == out[k][g]
  <2>1. /\ got[k] < Len(out[k]) /\ UNCHANGED out
        /\ got' = [got EXCEPT ![k] = @ + 1]
        /\ IF e.id < expect[k]
             THEN UNCHANGED <<expect, accepted>>
             ELSE /\ expect' = [expect EXCEPT ![k] = e.id + 1]
                  /\ accepted' = [accepted EXCEPT ![k] = Append(@, e.body)]
    BY <1>1 DEF Deliver
  <2>2. g \in 1..Len(out[k]) /\ e.id \in Nat /\ e.body \in Bodies
    BY <1>0, <2>1
  <2>3. got \in [Keys -> Nat] /\ expect \in [Keys -> Nat]
        /\ accepted \in [Keys -> Seq(Bodies)]
    BY DEF NextType
  <2>4. got'[k] = g /\ \A x \in Keys \ {k} : got'[x] = got[x]
    BY <2>1, <2>3
  <2>5. \A i \in 1..g : i \in 1..got[k] \/ i = g
    BY <1>0
  <2>6. /\ Len(accepted[k]) = expect[k]
        /\ \A i \in 1..got[k] :
             /\ out[k][i].id < expect[k]
             /\ accepted[k][out[k][i].id + 1] = out[k][i].body
        /\ \A n \in 0..(expect[k] - 1) : \E i \in 1..got[k] : out[k][i].id = n
    BY DEF NextInv
  <2>7. \A i \in 1..got[k] : i \in 1..Len(out[k])
    BY <1>0
  <2>8. CASE e.id < expect[k]
    <3>1. UNCHANGED <<out, expect, accepted>>
      BY <2>1, <2>8
    <3>2. PICK i \in 1..got[k] : out[k][i].id = e.id
      <4>1. e.id \in 0..(expect[k] - 1)
        BY <1>0, <2>2, <2>8
      <4> QED
        BY <2>6, <4>1
    <3>3. out[k][i].body = e.body
      BY <2>2, <2>7, <3>2 DEF SequenceIdNamesContent
    <3>4. accepted[k][e.id + 1] = e.body
      BY <2>6, <3>2, <3>3
    <3>5. \A x \in 1..g : /\ out[k][x].id < expect[k]
                          /\ accepted[k][out[k][x].id + 1] = out[k][x].body
      BY <2>5, <2>6, <2>8, <3>4
    <3>6. \A n \in 0..(expect[k] - 1) : \E x \in 1..g : out[k][x].id = n
      BY <1>0, <2>6
    <3> HIDE DEF g
    <3>7. ASSUME NEW x \in Keys
          PROVE  /\ Len(accepted[x]) = expect[x]
                 /\ \A i2 \in 1..got'[x] :
                      /\ out[x][i2].id < expect[x]
                      /\ accepted[x][out[x][i2].id + 1] = out[x][i2].body
                 /\ \A n \in 0..(expect[x] - 1) : \E i2 \in 1..got'[x] : out[x][i2].id = n
      <4>1. CASE x = k
        BY <2>4, <2>6, <3>5, <3>6, <4>1
      <4>2. CASE x # k
        BY <2>4, <4>2 DEF NextInv
      <4> QED
        BY <4>1, <4>2
    <3> QED
      BY <3>1, <3>7 DEF NextInv
  <2>9. CASE ~ (e.id < expect[k])
    <3>1. e.id = expect[k]
      BY <2>1, <2>9, NextIsExpected
    <3>2. /\ expect' = [expect EXCEPT ![k] = e.id + 1]
          /\ accepted' = [accepted EXCEPT ![k] = Append(@, e.body)]
          /\ UNCHANGED out
      BY <2>1, <2>9
    <3>3. expect'[k] = expect[k] + 1 /\ accepted'[k] = Append(accepted[k], e.body)
          /\ \A x \in Keys \ {k} : expect'[x] = expect[x] /\ accepted'[x] = accepted[x]
      BY <2>3, <3>1, <3>2
    <3> HIDE DEF e
    <3>4. /\ Len(accepted'[k]) = expect'[k]
          /\ accepted'[k][expect[k] + 1] = e.body
          /\ \A n \in 1..expect[k] : accepted'[k][n] = accepted[k][n]
      BY <1>0, <2>2, <2>6, <3>3
    <3>5. \A i \in 1..got[k] : /\ out[k][i].id < expect'[k]
                               /\ accepted'[k][out[k][i].id + 1] = out[k][i].body
      <4> SUFFICES ASSUME NEW i \in 1..got[k]
                   PROVE  /\ out[k][i].id < expect'[k]
                          /\ accepted'[k][out[k][i].id + 1] = out[k][i].body
        OBVIOUS
      <4>1. out[k][i].id \in Nat /\ out[k][i].id < expect[k] /\ expect[k] \in Nat
        BY <1>0, <2>6, <2>7
      <4>2. out[k][i].id + 1 \in 1..expect[k]
        BY <4>1
      <4> QED
        BY <2>6, <3>3, <3>4, <4>1, <4>2
    <3>6. out[k][g].id < expect'[k] /\ accepted'[k][out[k][g].id + 1] = out[k][g].body
      BY <1>0, <3>1, <3>3, <3>4 DEF e
    <3>7. ASSUME NEW n \in 0..(expect'[k] - 1)
          PROVE  \E i \in 1..g : out[k][i].id = n
      <4>1. CASE n = expect[k]
        <5>1. g \in 1..g
          BY <1>0
        <5> QED
          BY <3>1, <4>1, <5>1 DEF e
      <4>2. CASE n # expect[k]
        <5>1. n \in 0..(expect[k] - 1)
          BY <1>0, <3>3, <4>2
        <5>2. PICK i \in 1..got[k] : out[k][i].id = n
          BY <2>6, <5>1
        <5>3. i \in 1..g
          BY <1>0
        <5> QED
          BY <5>2, <5>3
      <4> QED
        BY <4>1, <4>2
    <3> HIDE DEF g
    <3>8. ASSUME NEW x \in Keys
          PROVE  /\ Len(accepted'[x]) = expect'[x]
                 /\ \A i \in 1..got'[x] :
                      /\ out[x][i].id < expect'[x]
                      /\ accepted'[x][out[x][i].id + 1] = out[x][i].body
                 /\ \A n \in 0..(expect'[x] - 1) : \E i \in 1..got'[x] : out[x][i].id = n
      <4>1. CASE x = k
        BY <2>4, <2>5, <3>4, <3>5, <3>6, <3>7, <4>1
      <4>2. CASE x # k
        BY <2>4, <3>3, <4>2 DEF NextInv
      <4> QED
        BY <4>1, <4>2
    <3>9. out' = out
      BY <3>2
    <3> QED
      BY <3>8, <3>9 DEF NextInv
  <2> QED
    BY <2>8, <2>9
<1>2. CASE \A k \in Keys : ~ Deliver(k)
  <2>1. UNCHANGED <<got, expect, accepted>>
    BY <1>2 DEF Next, Arrive, Recover, RecoverId, RecoverMessage, RecoverDone,
       Consume, TakeDuplicate, TakeNew, Publish, Log, Ack, Crash, Restart, next
  <2>2. \A k \in Keys : \A i \in 1..got[k] : out'[k][i] = out[k][i]
    BY <1>0, OutKept
  <2>3. ASSUME NEW k \in Keys
        PROVE  /\ Len(accepted'[k]) = expect'[k]
               /\ \A i \in 1..got'[k] :
                    /\ out'[k][i].id < expect'[k]
                    /\ accepted'[k][out'[k][i].id + 1] = out'[k][i].body
               /\ \A n \in 0..(expect'[k] - 1) :
                    \E i \in 1..got'[k] : out'[k][i].id = n
    <3>1. /\ \A i \in 1..got[k] :
                /\ out[k][i].id < expect[k]
                /\ accepted[k][out[k][i].id + 1] = out[k][i].body
          /\ \A n \in 0..(expect[k] - 1) : \E i \in 1..got[k] : out[k][i].id = n
          /\ Len(accepted[k]) = expect[k]
      BY DEF NextInv
    <3>2. \A i \in 1..got[k] : out'[k][i] = out[k][i]
      BY <2>2
    <3>3. got' = got /\ expect' = expect /\ accepted' = accepted
      BY <2>1
    <3>4. Len(accepted'[k]) = expect'[k]
      BY <3>1, <3>3
    <3>5. \A i \in 1..got'[k] :
            /\ out'[k][i].id < expect'[k]
            /\ accepted'[k][out'[k][i].id + 1] = out'[k][i].body
      BY <3>1, <3>2, <3>3
    <3>6. \A n \in 0..(expect'[k] - 1) : \E i \in 1..got'[k] : out'[k][i].id = n
      BY <3>1, <3>2, <3>3
    <3> QED
      BY <3>4, <3>5, <3>6
  <2> QED
    BY <2>3, Zenon DEF NextInv
<1> QED
  BY <1>1, <1>2

-----------------------------------------------------------------------------
(* The numbering and the contents hold with one and the same base.         *)
NumberedContent ==
  \E base \in [Keys -> Nat] : NumberInv(base) /\ OutFrom(base)

ContentInv ==
  /\ NumberedContent /\ LogIsNode
  /\ LoggedPublished /\ AttemptPublished /\ OutDense /\ NextInv

LEMMA ContentStep ==
  ASSUME SingleQueue, DeterministicNode, TypeOK, ControlInv, InputInv, ContentInv,
         [Next]_vars
  PROVE  ContentInv'
<1>0. /\ BrokerType /\ ControlType /\ LogType /\ MemoryType /\ WorkType /\ NextType
      /\ AckingInv /\ PublishingInv
  BY DEF TypeOK, InputInv
<1>1. PICK base \in [Keys -> Nat] : NumberInv(base) /\ OutFrom(base)
  BY DEF ContentInv, NumberedContent
<1>2. CASE Next
  <2>1. PICK b \in [Keys -> Nat] : NumberInv(b)' /\ b = IF Log THEN gen ELSE base
    BY <1>1, <1>2, NumberInvNext
  <2>2. OutFrom(b)'
    BY <1>0, <1>1, <1>2, <2>1, OutFromNext DEF NumberInv
  <2>3. LoggedPublished' /\ AttemptPublished'
    BY <1>0, <1>2, LoggedPublishedNext, AttemptPublishedNext DEF ContentInv
  <2>4. OutDense'
    BY <1>0, <1>1, <1>2, OutDenseNext DEF ContentInv, NumberInv
  <2>5. SequenceIdNamesContent
    BY <1>0, <1>1, ContentOfIds DEF NumberInv
  <2>6. NextInv'
    BY <1>0, <1>2, <2>5, NextInvNext DEF ContentInv
  <2>7. LogIsNode'
    BY <1>0, <1>1, <1>2, LogIsNodeNext DEF TypeOK, ContentInv, NumberInv
  <2> QED
    BY <2>1, <2>2, <2>3, <2>4, <2>6, <2>7 DEF ContentInv, NumberedContent
<1>3. CASE UNCHANGED vars
  <2>1. NumberInv(base)'
    <3>1. UNCHANGED <<log, pc, rec, recDst, outs, dsts, gen>>
      BY <1>3 DEF vars
    <3>2. LogCovered(base)' = LogCovered(base)
      BY <3>1 DEF LogCovered
    <3>3. LogOrdered' = LogOrdered
      BY <3>1 DEF LogOrdered
    <3>4. RecoveringGen' = RecoveringGen
      BY <3>1 DEF RecoveringGen
    <3>5. SettledGen(base)' = SettledGen(base)
      BY <3>1 DEF SettledGen
    <3>6. PublishingGen(base)' = PublishingGen(base)
      BY <3>1 DEF PublishingGen
    <3> QED
      BY <1>1, <3>2, <3>3, <3>4, <3>5, <3>6 DEF NumberInv
  <2>2. OutFrom(base)'
    <3>1. UNCHANGED <<feed, acked, log, out>>
      BY <1>3 DEF vars
    <3>2. \A q \in Queues : HasDelivery(q)' = HasDelivery(q) /\ Delivery(q)' = Delivery(q)
      BY <3>1 DEF HasDelivery, Delivery
    <3>3. \A k \in Keys : \A p \in 1..Len(out'[k]) :
            FromLog(log, k, out'[k][p]) \/ FromAttempt(base, k, out'[k][p])
      BY <1>1, <3>1 DEF OutFrom
    <3> QED
      BY <3>1, <3>2, <3>3, OutFromKept
  <2>3. LogIsNode' /\ LoggedPublished' /\ AttemptPublished' /\ OutDense' /\ NextInv'
    <3>1. UNCHANGED <<log, dsts, out, got, expect, accepted>>
      BY <1>3 DEF vars
    <3>2. LoggedPublished' = LoggedPublished
      BY <3>1 DEF LoggedPublished, Published
    <3>3. AttemptPublished' = AttemptPublished
      BY <3>1 DEF AttemptPublished, Published
    <3>4. OutDense' = OutDense
      BY <3>1 DEF OutDense
    <3>5. NextInv' = NextInv
      BY <3>1 DEF NextInv
    <3>6. LogIsNode' = LogIsNode
      BY <3>1 DEF LogIsNode, History
    <3> QED
      BY <3>2, <3>3, <3>4, <3>5, <3>6 DEF ContentInv
  <2> QED
    BY <2>1, <2>2, <2>3 DEF ContentInv, NumberedContent
<1> QED
  BY <1>2, <1>3

LEMMA ContentStart == Init => ContentInv
<1> SUFFICES ASSUME Init PROVE ContentInv
  OBVIOUS
<1>1. NoneYet(Keys) \in [Keys -> Nat]
  BY DEF NoneYet
<1>2. NumberInv(NoneYet(Keys)) /\ OutFrom(NoneYet(Keys))
  BY NumberInit, ContentInit
<1>3. LogIsNode /\ LoggedPublished /\ AttemptPublished /\ OutDense /\ NextInv
  BY ContentInit
<1> QED
  BY <1>1, <1>2, <1>3 DEF ContentInv, NumberedContent

(* A node with one input queue whose outputs are a function of what it     *)
(* processed repeats, under each sequence id, what it first published      *)
(* there, wherever worker.consume (worker.go:303) was cut off.             *)
THEOREM SequenceIdsNameContent ==
  ASSUME TypedNode, DeterministicNode, SingleQueue
  PROVE  Spec => []SequenceIdNamesContent
<1>1. Init => InputInv /\ ContentInv
  BY InputInit, ContentStart
<1>2. TypeOK /\ ControlInv /\ InputInv /\ ContentInv /\ [Next]_vars
        => InputInv' /\ ContentInv'
  BY InputInvNext, ContentStep
<1>3. TypeOK /\ ContentInv => SequenceIdNamesContent
  BY ContentOfIds DEF TypeOK, ContentInv, NumberedContent, NumberInv
<1> QED
  BY TypeCorrect, <1>1, <1>2, <1>3, PTL DEF Spec

(* Of such a node the next one lets through (dup.go:25) every output once, *)
(* in order, with nothing lost, however often this one is killed.          *)
THEOREM DeliveredExactlyOnce ==
  ASSUME TypedNode, DeterministicNode, SingleQueue
  PROVE  Spec => []AcceptedOnceInOrder
<1>1. Init => InputInv /\ ContentInv
  BY InputInit, ContentStart
<1>2. TypeOK /\ ControlInv /\ InputInv /\ ContentInv /\ [Next]_vars
        => InputInv' /\ ContentInv'
  BY InputInvNext, ContentStep
<1>3. ContentInv => AcceptedOnceInOrder
  BY DEF ContentInv, NextInv, AcceptedOnceInOrder
<1> QED
  BY TypeCorrect, <1>1, <1>2, <1>3, PTL DEF Spec

(* Where the numbering stands is what the log says. *)
LEMMA BaseIsLogged ==
  ASSUME LogType, NEW base \in [Keys -> Nat], LogCovered(base)
  PROVE  Base = base
<1>1. ASSUME NEW k \in Keys PROVE Cardinality(LoggedIds(k)) = base[k]
  <2>1. LoggedIds(k) = 0..(base[k] - 1)
    BY LoggedIdsAre DEF LogCovered
  <2>2. base[k] \in Nat /\ 0 \in Int /\ base[k] - 1 \in Int
    OBVIOUS
  <2>3. Cardinality(0..(base[k] - 1)) = IF 0 > base[k] - 1 THEN 0 ELSE (base[k] - 1) - 0 + 1
    BY <2>2, FS_Interval
  <2> QED
    BY <2>1, <2>2, <2>3
<1> QED
  BY <1>1 DEF Base

(* The whole of what the theorems about a worker rest on, which the run    *)
(* worker_safety checks too: at every step of worker.consume               *)
(* (worker.go:303) and Worker.Recover (worker.go:185) the log, the         *)
(* duplicate handler, the generator and the next nodes agree.              *)
THEOREM InductiveInvariantHolds ==
  ASSUME TypedNode, DeterministicNode, SingleQueue
  PROVE  Spec => []InductiveInvariant
<1>1. Init => InputInv /\ ContentInv
  BY InputInit, ContentStart
<1>2. TypeOK /\ ControlInv /\ InputInv /\ ContentInv /\ [Next]_vars
        => InputInv' /\ ContentInv'
  BY InputInvNext, ContentStep
<1>3. TypeOK /\ ControlInv /\ InputInv /\ ContentInv => InductiveInvariant
  <2> SUFFICES ASSUME TypeOK, ControlInv, InputInv, ContentInv PROVE InductiveInvariant
    OBVIOUS
  <2>1. PICK base \in [Keys -> Nat] : NumberInv(base) /\ OutFrom(base)
    BY DEF ContentInv, NumberedContent
  <2>2. Base = base
    BY <2>1, BaseIsLogged DEF TypeOK, NumberInv
  <2> QED
    BY <2>1, <2>2 DEF InductiveInvariant, IndInv, NodeInv, ContentInv
<1> QED
  BY TypeCorrect, <1>1, <1>2, <1>3, PTL DEF Spec

-----------------------------------------------------------------------------
(* The refinement: what one step of the worker does to ExactlyOnce.        *)

(* Destination b of record a goes to key k.                                *)
LogPlaces(k) ==
  { p \in (1..Len(log)) \X Nat :
      p[2] \in 1..Len(log[p[1]].dsts) /\ log[p[1]].dsts[p[2]].key = k }

(* Outputs of w to key k among the first b, all of input n.                *)
InputPlaces(n, w, k, b) == { <<n, i>> : i \in { c \in 1..b : w[c].key = k } }

LEMMA LogPlacesCounted ==
  ASSUME LogType, LogOrdered, NEW k, NEW r \in Nat, NEW j \in Nat, NEW g \in Nat,
         Covers(log, k, r, j, g)
  PROVE  LET S == { p \in LogPlaces(k) : Before(p[1], p[2], r, j) }
         IN  IsFiniteSet(S) /\ Cardinality(S) = g
<1> DEFINE S == { p \in LogPlaces(k) : Before(p[1], p[2], r, j) }
           T == 0..(g - 1)
           f == [p \in S |-> log[p[1]].dsts[p[2]].id]
<1>1. ASSUME NEW p \in S
      PROVE  /\ p[1] \in 1..Len(log) /\ p[2] \in 1..Len(log[p[1]].dsts)
             /\ p = <<p[1], p[2]>>
             /\ log[p[1]].dsts[p[2]].key = k /\ Before(p[1], p[2], r, j)
  BY DEF LogPlaces
<1>2. IsFiniteSet(T) /\ Cardinality(T) = g
  <2>1. 0 \in Int /\ g - 1 \in Int
    OBVIOUS
  <2>2. IsFiniteSet(T) /\ Cardinality(T) = IF 0 > g - 1 THEN 0 ELSE (g - 1) - 0 + 1
    BY <2>1, FS_Interval
  <2> QED
    BY <2>2
<1>3. f \in [S -> T]
  <2> SUFFICES ASSUME NEW p \in S PROVE log[p[1]].dsts[p[2]].id \in T
    OBVIOUS
  <2>1. log[p[1]].dsts[p[2]].id \in Nat
    BY <1>1, RecordType
  <2>2. log[p[1]].dsts[p[2]].id < g
    BY <1>1 DEF Covers
  <2> QED
    BY <2>1, <2>2
<1>4. ASSUME NEW p \in S, NEW q \in S, f[p] = f[q] PROVE p = q
  <2> DEFINE a == p[1]
             b == p[2]
             c == q[1]
             e == q[2]
  <2>1. /\ a \in 1..Len(log) /\ b \in 1..Len(log[a].dsts)
        /\ c \in 1..Len(log) /\ e \in 1..Len(log[c].dsts)
        /\ p = <<a, b>> /\ q = <<c, e>>
        /\ log[a].dsts[b].key = k /\ log[c].dsts[e].key = k
    BY <1>1
  <2>2. log[a].dsts[b].id = log[c].dsts[e].id
    BY <1>4
  <2> HIDE DEF S, T, f, a, b, c, e
  <2>3. log[a].dsts[b].key = log[c].dsts[e].key
    BY <2>1
  <2>4. a = c /\ b = e
    <3>1. a \in 1..Len(log) /\ b \in 1..Len(log[a].dsts)
      BY <2>1
    <3>2. c \in 1..Len(log) /\ e \in 1..Len(log[c].dsts)
      BY <2>1
    <3> QED
      BY <2>2, <2>3, <3>1, <3>2, LogEntryUnique
  <2> QED
    BY <2>1, <2>4
<1>5. ASSUME NEW n \in T PROVE \E p \in S : f[p] = n
  <2>1. PICK a \in 1..Len(log) : \E b \in 1..Len(log[a].dsts) :
          Before(a, b, r, j) /\ log[a].dsts[b].key = k /\ log[a].dsts[b].id = n
    BY DEF Covers
  <2>2. PICK b \in 1..Len(log[a].dsts) :
          Before(a, b, r, j) /\ log[a].dsts[b].key = k /\ log[a].dsts[b].id = n
    BY <2>1
  <2>3. <<a, b>> \in S
    BY <2>2 DEF LogPlaces
  <2>4. f[<<a, b>>] = n
    BY <2>2, <2>3
  <2> QED
    BY <2>3, <2>4
<1> HIDE DEF S, T, f
<1>6. f \in Injection(S, T) /\ f \in Surjection(S, T)
  BY <1>3, <1>4, <1>5 DEF Injection, Surjection, IsInjective
<1>7. IsFiniteSet(S) /\ Cardinality(S) = g
  BY <1>2, <1>6, FS_Injection
<1> QED
  BY <1>7 DEF S

LEMMA InputPlacesCounted ==
  ASSUME NEW n, NEW w, NEW k, NEW b \in Nat
  PROVE  /\ IsFiniteSet(InputPlaces(n, w, k, b))
         /\ Cardinality(InputPlaces(n, w, k, b)) = Count(w, k, b)
<1> DEFINE S == { c \in 1..b : w[c].key = k }
           T == InputPlaces(n, w, k, b)
           f == [c \in S |-> <<n, c>>]
<1>1. IsFiniteSet(S) /\ Cardinality(S) = Count(w, k, b)
  BY CountFinite DEF Count
<1>2. f \in [S -> T] /\ (\A c \in S : f[c] = <<n, c>>) /\ \A t \in T : \E c \in S : t = <<n, c>>
  BY DEF InputPlaces
<1> HIDE DEF S, T, f
<1>3. f \in Injection(S, T)
  BY <1>2 DEF Injection, IsInjective
<1>4. f \in Surjection(S, T)
  BY <1>2 DEF Surjection
<1>5. IsFiniteSet(T) /\ Cardinality(T) = Cardinality(S)
  BY <1>1, <1>3, <1>4, FS_Surjection
<1> QED
  BY <1>1, <1>5 DEF T

-----------------------------------------------------------------------------
LEMMA HistoryType ==
  ASSUME LogType, NEW n \in 0..Len(log)
  PROVE  /\ History(log, n) \in Seq(Inputs) /\ Len(History(log, n)) = n
         /\ \A i \in 1..n : History(log, n)[i] = log[i].msg
<1>1. Len(log) \in Nat
  BY DEF LogType
<1>2. n \in Nat /\ \A i \in 1..n : log[i].msg \in Inputs
  BY <1>1, RecordType
<1> QED
  BY <1>2 DEF History

LEMMA QueueIsCur ==
  ASSUME SingleQueue, ControlType
  PROVE  Q \in Queues /\ Q = cur
<1>1. cur \in Queues
  BY DEF ControlType
<1>2. Q \in Queues
  BY <1>1 DEF Q
<1> QED
  BY <1>1, <1>2 DEF SingleQueue

(* A delivery that was begun is still there, and not in the log; one being *)
(* acknowledged is done.                                                   *)
BegunInv ==
  /\ Begun => HasDelivery(Q) /\ Delivery(Q) \notin LoggedMsgs
  /\ pc = "acking" => ~ Begun

LEMMA BegunHolds ==
  ASSUME SingleQueue, TypeOK, InputInv, ContentInv
  PROVE  BegunInv
<1>1. PICK base \in [Keys -> Nat] : NumberInv(base) /\ OutFrom(base)
  BY DEF ContentInv, NumberedContent
<1>2. Q \in Queues /\ Q = cur
  BY QueueIsCur DEF TypeOK
<1>3. ASSUME Begun PROVE HasDelivery(Q) /\ Delivery(Q) \notin LoggedMsgs
  <2>1. PICK k \in Keys : \E p \in 1..Len(out[k]) : ~ Recorded(k, out[k][p].id)
    BY <1>3 DEF Begun
  <2>2. PICK p \in 1..Len(out[k]) : ~ Recorded(k, out[k][p].id)
    BY <2>1
  <2>3. ~ FromLog(log, k, out[k][p])
    BY <2>2 DEF FromLog, Recorded
  <2>4. FromAttempt(base, k, out[k][p])
    BY <1>1, <2>3 DEF OutFrom
  <2>5. PICK q \in Queues : HasDelivery(q) /\ Delivery(q) \notin LoggedMsgs
    BY <2>4 DEF FromAttempt
  <2> QED
    BY <1>2, <2>5 DEF SingleQueue
<1>4. pc = "acking" => Delivery(Q) \in LoggedMsgs
  BY <1>2 DEF InputInv, AckingInv
<1> QED
  BY <1>3, <1>4 DEF BegunInv

(* What Taken holds, and what ExactlyOnce reads from it.                   *)
LEMMA TakenType ==
  ASSUME BrokerType, LogType, BegunInv, Q \in Queues
  PROVE  LET N == Len(log)
         IN  /\ N \in Nat /\ Taken \in Seq(Inputs)
             /\ Len(Taken) = IF Begun THEN N + 1 ELSE N
             /\ \A i \in 1..N : Taken[i] = log[i].msg
             /\ Begun => Taken[N + 1] = Delivery(Q)
             /\ \A n \in 0..N : SubSeq(Taken, 1, n) = History(log, n)
<1> DEFINE N == Len(log)
           H == History(log, N)
<1>1. N \in Nat /\ N \in 0..N
  BY DEF LogType
<1>2. H \in Seq(Inputs) /\ Len(H) = N /\ \A i \in 1..N : H[i] = log[i].msg
  BY <1>1, HistoryType
<1>3. Begun => Delivery(Q) \in Inputs
  BY DeliveryType DEF BegunInv
<1>4. Taken = IF Begun THEN Append(H, Delivery(Q)) ELSE H
  BY DEF Taken
<1> HIDE DEF H
<1>5. /\ Taken \in Seq(Inputs)
      /\ Len(Taken) = IF Begun THEN N + 1 ELSE N
      /\ \A i \in 1..N : Taken[i] = log[i].msg
      /\ Begun => Taken[N + 1] = Delivery(Q)
  <2>1. CASE Begun
    <3>1. Taken = Append(H, Delivery(Q)) /\ Delivery(Q) \in Inputs
      BY <1>3, <1>4, <2>1
    <3> QED
      BY <1>1, <1>2, <2>1, <3>1
  <2>2. CASE ~ Begun
    BY <1>1, <1>2, <1>4, <2>2
  <2> QED
    BY <2>1, <2>2
<1>6. ASSUME NEW n \in 0..N PROVE SubSeq(Taken, 1, n) = History(log, n)
  <2> DEFINE S == SubSeq(Taken, 1, n)
             G == History(log, n)
  <2>1. n \in Nat /\ n <= Len(Taken)
    BY <1>1, <1>5
  <2>2. S \in Seq(Inputs) /\ Len(S) = n /\ \A i \in 1..n : S[i] = Taken[i]
    BY <1>5, <2>1
  <2>3. G \in Seq(Inputs) /\ Len(G) = n /\ \A i \in 1..n : G[i] = log[i].msg
    BY <1>6, HistoryType
  <2>4. \A i \in 1..n : S[i] = G[i]
    BY <1>1, <1>5, <2>2, <2>3
  <2> HIDE DEF S, G
  <2>5. S = [i \in 1..n |-> S[i]] /\ G = [i \in 1..n |-> G[i]]
    BY <2>2, <2>3
  <2>6. S = G
    BY <2>4, <2>5
  <2> QED
    BY <2>6 DEF S, G
<1> QED
  BY <1>1, <1>5, <1>6

LEMMA AbstractOutputs ==
  ASSUME BrokerType, LogType, BegunInv, Q \in Queues
  PROVE  /\ \A n \in 1..Len(log) :
              Abstract!OutputsOf(n) = Node(History(log, n - 1), log[n].msg)
         /\ Begun => Abstract!OutputsOf(Len(log) + 1)
                       = Node(History(log, Len(log)), Delivery(Q))
<1> DEFINE N == Len(log)
<1>1. /\ N \in Nat
      /\ \A i \in 1..N : Taken[i] = log[i].msg
      /\ Begun => Taken[N + 1] = Delivery(Q)
      /\ \A n \in 0..N : SubSeq(Taken, 1, n) = History(log, n)
  BY TakenType
<1>2. \A n : Abstract!OutputsOf(n) = Node(SubSeq(Taken, 1, n - 1), Taken[n])
  BY DEF Abstract!OutputsOf, Node
<1>3. \A n \in 1..N : n - 1 \in 0..N
  BY <1>1
<1>4. (N + 1) - 1 = N /\ N \in 0..N
  BY <1>1
<1> QED
  BY <1>1, <1>2, <1>3, <1>4

LEMMA AbstractProcessed ==
  ASSUME BrokerType, LogType, BegunInv, Q \in Queues
  PROVE  Abstract!Processed = LoggedMsgs \cup (IF Begun THEN {Delivery(Q)} ELSE {})
<1> DEFINE N == Len(log)
<1>1. /\ N \in Nat
      /\ Len(Taken) = IF Begun THEN N + 1 ELSE N
      /\ \A i \in 1..N : Taken[i] = log[i].msg
      /\ Begun => Taken[N + 1] = Delivery(Q)
  BY TakenType
<1>2. Abstract!Processed = { Taken[n] : n \in 1..Len(Taken) }
  BY DEF Abstract!Processed
<1> HIDE DEF N
<1>3. CASE Begun
  <2>1. 1..Len(Taken) = (1..N) \cup {N + 1}
    BY <1>1, <1>3
  <2> QED
    BY <1>1, <1>2, <1>3, <2>1 DEF LoggedMsgs, N
<1>4. CASE ~ Begun
  BY <1>1, <1>2, <1>4 DEF LoggedMsgs, N
<1> QED
  BY <1>3, <1>4

LEMMA AbstractPlaces ==
  ASSUME BrokerType, LogType, BegunInv, LogIsNode, Q \in Queues, NEW k
  PROVE  LET w == Node(History(log, Len(log)), Delivery(Q))
         IN  Abstract!Places(k) =
               LogPlaces(k) \cup
                 (IF Begun THEN InputPlaces(Len(log) + 1, w, k, Len(w)) ELSE {})
<1> DEFINE N == Len(log)
           w == Node(History(log, N), Delivery(Q))
           P == Abstract!Places(k)
           O(n) == Abstract!OutputsOf(n)
           D(n) == Node(History(log, n - 1), log[n].msg)
<1>1. /\ N \in Nat
      /\ Len(Taken) = IF Begun THEN N + 1 ELSE N
  BY TakenType
<1>2. /\ \A n \in 1..N : O(n) = D(n)
      /\ Begun => O(N + 1) = w
  BY AbstractOutputs
<1>3. \A n \in 1..N : /\ Len(log[n].dsts) \in Nat
                      /\ Len(log[n].dsts) = Len(D(n))
                      /\ \A b \in 1..Len(D(n)) : log[n].dsts[b].key = D(n)[b].key
  BY LogLengths DEF LogIsNode
<1>4. \A p : p \in P <=> \E n \in 1..Len(Taken) : \E b \in 1..Len(O(n)) :
                           O(n)[b].key = k /\ p = <<n, b>>
  BY DEF Abstract!Places
<1>5. \A p : p \in LogPlaces(k) <=>
               \E n \in 1..N : \E b \in 1..Len(log[n].dsts) :
                 log[n].dsts[b].key = k /\ p = <<n, b>>
  BY DEF LogPlaces
<1>6. \A p : p \in InputPlaces(N + 1, w, k, Len(w)) <=>
               \E b \in 1..Len(w) : w[b].key = k /\ p = <<N + 1, b>>
  BY DEF InputPlaces
<1> HIDE DEF N, w, P, O, D
<1>7. \A p : p \in LogPlaces(k) <=>
               \E n \in 1..N : \E b \in 1..Len(O(n)) : O(n)[b].key = k /\ p = <<n, b>>
  BY <1>2, <1>3, <1>5
<1>8. CASE Begun
  <2>1. \A n : n \in 1..Len(Taken) <=> (n \in 1..N \/ n = N + 1)
    BY <1>1, <1>8
  <2>2. \A p : p \in P <=> (p \in LogPlaces(k) \/ p \in InputPlaces(N + 1, w, k, Len(w)))
    BY <1>2, <1>4, <1>6, <1>7, <1>8, <2>1
  <2>3. P = LogPlaces(k) \cup InputPlaces(N + 1, w, k, Len(w))
    BY <2>2
  <2> QED
    BY <1>8, <2>3 DEF N, w, P
<1>9. CASE ~ Begun
  <2>1. \A p : p \in P <=> p \in LogPlaces(k)
    BY <1>1, <1>4, <1>7, <1>9
  <2>2. P = LogPlaces(k)
    BY <2>1
  <2> QED
    BY <1>9, <2>2 DEF P
<1> QED
  BY <1>8, <1>9

LEMMA TakenKept ==
  ASSUME UNCHANGED <<log, out>>, Begun => Delivery(Q)' = Delivery(Q)
  PROVE  Taken' = Taken
<1>1. Begun' <=> Begun
  BY DEF Begun, Recorded
<1>2. Taken' = IF Begun' THEN Append(History(log, Len(log)), Delivery(Q)')
                         ELSE History(log, Len(log))
  BY DEF Taken, History
<1> QED
  BY <1>1, <1>2 DEF Taken

(* e is an output to key k that as many others precede as its id says.     *)
PlaceOf(k, e) ==
  \E p \in Abstract!Places(k) :
    /\ Cardinality({ r \in Abstract!Places(k) : Abstract!Precedes(r, p) }) = e.id
    /\ e.body = Abstract!OutputsOf(p[1])[p[2]].body

LEMMA SameCardinality == \A S : Abstract!Cardinality(S) = Cardinality(S)
  BY DEF Abstract!Cardinality, Cardinality, Abstract!IsFiniteSet, IsFiniteSet

(* An output of a record is the one after those of its key that the log    *)
(* numbered before it.                                                     *)
LEMMA LoggedPlace ==
  ASSUME BrokerType, LogType, BegunInv, LogIsNode, LogOrdered, Q \in Queues,
         NEW k \in Keys, NEW e, FromLog(log, k, e)
  PROVE  PlaceOf(k, e)
<1> DEFINE N == Len(log)
           w == Node(History(log, N), Delivery(Q))
           P == Abstract!Places(k)
<1>1. N \in Nat /\ \A a \in 1..N : Len(log[a].dsts) \in Nat
  BY LogLengths
<1>2. PICK a \in 1..N : \E b \in 1..Len(log[a].dsts) :
        /\ log[a].dsts[b].key = k /\ log[a].dsts[b].id = e.id
        /\ e.body = Node(History(log, a - 1), log[a].msg)[b].body
  BY DEF FromLog
<1>3. PICK b \in 1..Len(log[a].dsts) :
        /\ log[a].dsts[b].key = k /\ log[a].dsts[b].id = e.id
        /\ e.body = Node(History(log, a - 1), log[a].msg)[b].body
  BY <1>2
<1> DEFINE p == <<a, b>>
           S == { r \in LogPlaces(k) : Before(r[1], r[2], a - 1, b - 1) }
<1>4. P = LogPlaces(k) \cup (IF Begun THEN InputPlaces(N + 1, w, k, Len(w)) ELSE {})
  BY AbstractPlaces
<1>5. p \in P
  <2>1. p \in LogPlaces(k)
    BY <1>1, <1>3 DEF LogPlaces
  <2> QED
    BY <1>4, <2>1
<1>6. { r \in P : Abstract!Precedes(r, p) } = S
  <2>1. \A r \in LogPlaces(k) : r[1] \in 1..N /\ r[2] \in Nat
    BY DEF LogPlaces
  <2>2. \A r \in LogPlaces(k) :
          Abstract!Precedes(r, p) <=> Before(r[1], r[2], a - 1, b - 1)
    BY <1>1, <2>1 DEF Abstract!Precedes, Before
  <2>3. \A r \in InputPlaces(N + 1, w, k, Len(w)) : ~ Abstract!Precedes(r, p)
    BY <1>1 DEF InputPlaces, Abstract!Precedes
  <2> HIDE DEF N, w, P, p
  <2> QED
    BY <1>4, <2>2, <2>3
<1>7. Cardinality(S) = e.id
  <2>1. Covers(log, k, a - 1, b - 1, e.id)
    BY <1>3 DEF LogOrdered
  <2>2. a - 1 \in Nat /\ b - 1 \in Nat /\ e.id \in Nat
    BY <1>1, <1>3, RecordType
  <2> QED
    BY <2>1, <2>2, LogPlacesCounted
<1>8. e.body = Abstract!OutputsOf(p[1])[p[2]].body
  BY <1>3, AbstractOutputs
<1> QED
  BY <1>5, <1>6, <1>7, <1>8 DEF PlaceOf

(* An output of an attempt comes after all the log holds for its key, and  *)
(* after those that the attempt numbered before it.                        *)
LEMMA AttemptPlace ==
  ASSUME NEW base \in [Keys -> Nat], BrokerType, LogType, BegunInv, LogIsNode,
         LogOrdered, LogCovered(base), SingleQueue, Q \in Queues, Begun,
         NEW k \in Keys, NEW e, FromAttempt(base, k, e)
  PROVE  PlaceOf(k, e)
<1> DEFINE N == Len(log)
           w == Node(History(log, N), Delivery(Q))
           P == Abstract!Places(k)
<1>1. N \in Nat /\ \A a \in 1..N : Len(log[a].dsts) \in Nat
  BY LogLengths
<1>2. PICK q \in Queues :
        LET o == Node(History(log, Len(log)), Delivery(q))
        IN  \E c \in 1..Len(o) :
              o[c].key = k /\ e.id = Number(base, o, c) /\ e.body = o[c].body
  BY DEF FromAttempt
<1>3. q = Q
  BY DEF SingleQueue
<1>4. PICK b \in 1..Len(w) : w[b].key = k /\ e.id = Number(base, w, b) /\ e.body = w[b].body
  BY <1>2, <1>3
<1> DEFINE p == <<N + 1, b>>
           S == { r \in LogPlaces(k) : Before(r[1], r[2], N, 0) }
           T == InputPlaces(N + 1, w, k, b - 1)
<1>5. P = LogPlaces(k) \cup InputPlaces(N + 1, w, k, Len(w))
  BY AbstractPlaces
<1>6. b \in Nat /\ b - 1 \in Nat
  OBVIOUS
<1>7. p \in P
  <2>1. p \in InputPlaces(N + 1, w, k, Len(w))
    BY <1>4 DEF InputPlaces
  <2> QED
    BY <1>5, <2>1
<1>8. { r \in P : Abstract!Precedes(r, p) } = S \cup T
  <2>1. \A r \in LogPlaces(k) : r[1] \in 1..N
    BY DEF LogPlaces
  <2>2. \A r \in LogPlaces(k) : Abstract!Precedes(r, p) /\ Before(r[1], r[2], N, 0)
    BY <1>1, <2>1 DEF Abstract!Precedes, Before
  <2>3. \A r \in InputPlaces(N + 1, w, k, Len(w)) : Abstract!Precedes(r, p) => r \in T
    BY <1>1, <1>6 DEF InputPlaces, Abstract!Precedes
  <2>4. \A r \in T : r \in InputPlaces(N + 1, w, k, Len(w)) /\ Abstract!Precedes(r, p)
    <3>1. \A c \in 1..(b - 1) : c \in 1..Len(w) /\ c < b
      BY <1>6
    <3> QED
      BY <1>1, <3>1 DEF InputPlaces, Abstract!Precedes
  <2> HIDE DEF N, w, P, p, T
  <2> QED
    BY <1>5, <2>2, <2>3, <2>4
<1>9. Cardinality(S \cup T) = e.id
  <2>1. base[k] \in Nat /\ 0 \in Nat
    OBVIOUS
  <2>2. IsFiniteSet(S) /\ Cardinality(S) = base[k]
    <3>1. Covers(log, k, N, 0, base[k])
      BY DEF LogCovered
    <3> QED
      BY <1>1, <2>1, <3>1, LogPlacesCounted
  <2>3. IsFiniteSet(T) /\ Cardinality(T) = Count(w, k, b - 1)
    BY <1>6, InputPlacesCounted
  <2>4. S \cap T = {}
    <3>1. \A r \in S : r[1] \in 1..N
      BY DEF LogPlaces
    <3>2. \A r \in T : r[1] = N + 1
      BY DEF InputPlaces
    <3> QED
      BY <1>1, <3>1, <3>2
  <2>5. Count(w, k, b - 1) \in Nat
    BY <1>6, CountFinite
  <2>6. e.id = base[k] + Count(w, k, b - 1)
    BY <1>4 DEF Number
  <2> HIDE DEF S, T
  <2>7. Cardinality(S \cup T) = Cardinality(S) + Cardinality(T) - Cardinality({})
    BY <2>2, <2>3, <2>4, FS_Union
  <2> QED
    BY <2>1, <2>2, <2>3, <2>5, <2>6, <2>7, FS_EmptySet
<1>10. e.body = Abstract!OutputsOf(p[1])[p[2]].body
  BY <1>4, AbstractOutputs
<1> QED
  BY <1>7, <1>8, <1>9, <1>10 DEF PlaceOf

(* What the next node lets through is the next output of its key.          *)
LEMMA DeliverHands ==
  ASSUME SingleQueue, TypeOK, ContentInv, BegunInv, NEW k \in Keys, Deliver(k),
         ~ (out[k][got[k] + 1].id < expect[k])
  PROVE  Abstract!Hand(k)
<1> DEFINE e == out[k][got[k] + 1]
<1>1. PICK base \in [Keys -> Nat] : NumberInv(base) /\ OutFrom(base)
  BY DEF ContentInv, NumberedContent
<1>2. /\ BrokerType /\ ControlType /\ LogType /\ NextType
      /\ LogIsNode /\ LogOrdered /\ LogCovered(base) /\ OutDense /\ NextInv
      /\ Q \in Queues
  BY <1>1, QueueIsCur DEF TypeOK, ContentInv, NumberInv
<1>3. got[k] < Len(out[k]) /\ got[k] + 1 \in 1..Len(out[k])
  BY <1>2 DEF Deliver, NextType
<1>4. e.id = Len(accepted[k])
  <2>1. e.id = expect[k]
    BY <1>2, <1>3, NextIsExpected
  <2> QED
    BY <1>2, <2>1 DEF NextInv
<1>5. /\ accepted' = [accepted EXCEPT ![k] = Append(@, e.body)]
      /\ UNCHANGED <<feed, acked, log, out>>
  BY DEF Deliver, disk
<1>6. UNCHANGED <<feed[Q], Taken>>
  <2>1. Delivery(Q)' = Delivery(Q)
    BY <1>5 DEF Delivery
  <2> QED
    BY <1>5, <2>1, TakenKept
<1>7. FromLog(log, k, e) \/ (FromAttempt(base, k, e) /\ Begun)
  <2>1. CASE FromAttempt(base, k, e)
    <3>1. base[k] <= e.id /\ e.id \in Nat /\ base[k] \in Nat
      BY <2>1, AttemptAboveBase
    <3>2. ~ Recorded(k, e.id)
      <4> SUFFICES ASSUME Recorded(k, e.id) PROVE FALSE
        OBVIOUS
      <4>1. PICK a \in 1..Len(log) : \E b \in 1..Len(log[a].dsts) :
              log[a].dsts[b].key = k /\ log[a].dsts[b].id = e.id
        BY DEF Recorded
      <4>2. \A b : Before(a, b, Len(log), 0)
        BY DEF Before
      <4>3. e.id < base[k]
        BY <1>2, <4>1, <4>2 DEF LogCovered, Covers
      <4> QED
        BY <3>1, <4>3
    <3> QED
      BY <1>3, <2>1, <3>2 DEF Begun
  <2>2. CASE FromLog(log, k, e)
    BY <2>2
  <2> QED
    BY <1>1, <1>3, <2>1, <2>2 DEF OutFrom
<1> HIDE DEF e
<1>8. PlaceOf(k, e)
  BY <1>2, <1>7, LoggedPlace, AttemptPlace
<1>9. PICK p \in Abstract!Places(k) :
        /\ Cardinality({ r \in Abstract!Places(k) : Abstract!Precedes(r, p) }) = e.id
        /\ e.body = Abstract!OutputsOf(p[1])[p[2]].body
  BY <1>8 DEF PlaceOf
<1> DEFINE S == { r \in Abstract!Places(k) : Abstract!Precedes(r, p) }
<1>10. Abstract!Cardinality(S) = Len(accepted[k])
  BY <1>4, <1>9, SameCardinality
<1> QED
  BY <1>5, <1>6, <1>9, <1>10 DEF Abstract!Hand

(* The delivery being handled is the first message not processed yet.      *)
LEMMA DeliveryProcesses ==
  ASSUME TypeOK, AckedIsLogged, BegunInv, Q \in Queues, ~ Begun,
         HasDelivery(Q), Delivery(Q) \notin LoggedMsgs,
         Taken' = Append(Taken, Delivery(Q)), UNCHANGED <<feed, accepted>>
  PROVE  Abstract!Process
<1> DEFINE i == acked[Q] + 1
<1>1. Abstract!Processed = LoggedMsgs
  BY AbstractProcessed DEF TypeOK
<1>2. acked[Q] \in Nat /\ Len(feed[Q]) \in Nat /\ i \in 1..Len(feed[Q]) /\ i - 1 = acked[Q]
  BY DEF TypeOK, BrokerType, HasDelivery
<1>3. feed[Q][i] = Delivery(Q)
  BY DEF Delivery
<1>4. \A j \in 1..(i - 1) : feed[Q][j] \in LoggedMsgs
  BY <1>2 DEF AckedIsLogged
<1> HIDE DEF i
<1> QED
  BY <1>1, <1>2, <1>3, <1>4 DEF Abstract!Process

LEMMA ArriveArrives ==
  ASSUME SingleQueue, TypeOK, BegunInv, Q \in Queues, NEW q \in Queues, Arrive(q)
  PROVE  Abstract!Arrive
<1>1. PICK m \in Inputs : feed' = [feed EXCEPT ![q] = Append(@, m)]
  BY DEF Arrive
<1>2. q = Q
  BY DEF SingleQueue
<1>3. feed'[Q] = Append(feed[Q], m)
  BY <1>1, <1>2 DEF TypeOK, BrokerType
<1>4. /\ UNCHANGED <<log, out, accepted>>
      /\ HasDelivery(Q) => Delivery(Q)' = Delivery(Q)
  BY FeedKept DEF TypeOK
<1>5. Begun => Delivery(Q)' = Delivery(Q)
  BY <1>4 DEF BegunInv
<1>6. Taken' = Taken
  BY <1>4, <1>5, TakenKept
<1> QED
  BY <1>3, <1>4, <1>6 DEF Abstract!Arrive

LEMMA PublishProcesses ==
  ASSUME SingleQueue, DeterministicNode, TypeOK, ControlInv, InputInv, ContentInv,
         BegunInv, Publish
  PROVE  Abstract!Process \/ UNCHANGED <<feed[Q], Taken, accepted>>
<1> DEFINE o == outs[Len(dsts) + 1]
           k == o.key
           x == Len(out[k]) + 1
<1>1. PICK base \in [Keys -> Nat] : NumberInv(base) /\ OutFrom(base)
  BY DEF ContentInv, NumberedContent
<1>2. Q \in Queues /\ Q = cur
  BY QueueIsCur DEF TypeOK
<1>3. /\ k \in Keys /\ gen[k] \in Nat
      /\ Len(dsts) \in Nat
      /\ Len(out[k]) \in Nat /\ Len(out'[k]) = Len(out[k]) + 1
      /\ out'[k][x] = [id |-> gen[k], body |-> o.body]
      /\ pc = "publishing"
      /\ UNCHANGED <<feed, acked, log, accepted>>
  BY PublishOut DEF TypeOK
<1>4. /\ HasDelivery(Q) /\ Delivery(Q) \notin LoggedMsgs
  BY <1>2, <1>3, AttemptIsNode DEF TypeOK, InputInv
<1> HIDE DEF o, k, x
<1>5. ~ Recorded(k, gen[k])
  <2> SUFFICES ASSUME Recorded(k, gen[k]) PROVE FALSE
    OBVIOUS
  <2>1. PICK a \in 1..Len(log) : \E b \in 1..Len(log[a].dsts) :
          log[a].dsts[b].key = k /\ log[a].dsts[b].id = gen[k]
    BY DEF Recorded
  <2>2. \A b : Before(a, b, Len(log), 0)
    BY DEF Before
  <2>3. gen[k] < base[k]
    BY <1>1, <1>3, <2>1, <2>2 DEF NumberInv, LogCovered, Covers
  <2>4. gen[k] = base[k] + Count(outs, k, Len(dsts))
    BY <1>1, <1>3 DEF NumberInv, PublishingGen
  <2>5. Count(outs, k, Len(dsts)) \in Nat /\ base[k] \in Nat
    BY <1>3, CountFinite
  <2> QED
    BY <2>3, <2>4, <2>5
<1>6. Begun'
  <2>1. x \in 1..Len(out'[k]) /\ out'[k][x].id = gen[k]
    BY <1>3 DEF x
  <2>2. ~ Recorded(k, out'[k][x].id)
    BY <1>5, <2>1
  <2>3. log' = log
    BY <1>3
  <2>4. ~ \E a \in 1..Len(log') : \E b \in 1..Len(log'[a].dsts) :
            log'[a].dsts[b].key = k /\ log'[a].dsts[b].id = out'[k][x].id
    BY <2>2, <2>3 DEF Recorded
  <2>5. \E y \in 1..Len(out'[k]) :
          ~ \E a \in 1..Len(log') : \E b \in 1..Len(log'[a].dsts) :
              log'[a].dsts[b].key = k /\ log'[a].dsts[b].id = out'[k][y].id
    BY <2>1, <2>4, Zenon
  <2> QED
    BY <1>3, <2>5, Zenon DEF Begun, Recorded
<1>7. Taken' = Append(History(log, Len(log)), Delivery(Q))
  BY <1>3, <1>6 DEF Taken, History, Delivery
<1>8. CASE Begun
  BY <1>3, <1>7, <1>8 DEF Taken
<1>9. CASE ~ Begun
  <2>1. Taken' = Append(Taken, Delivery(Q))
    BY <1>7, <1>9 DEF Taken
  <2> QED
    BY <1>2, <1>3, <1>4, <1>9, <2>1, DeliveryProcesses DEF InputInv
<1> QED
  BY <1>8, <1>9

LEMMA LogProcesses ==
  ASSUME SingleQueue, DeterministicNode, TypeOK, ControlInv, InputInv, BegunInv,
         BegunInv', Log
  PROVE  Abstract!Process \/ UNCHANGED <<feed[Q], Taken, accepted>>
<1> DEFINE N == Len(log)
           m == Delivery(Q)
           H == History(log, N)
           G == History(log', N + 1)
<1>1. Q \in Queues /\ Q = cur
  BY QueueIsCur DEF TypeOK
<1>2. /\ N \in Nat /\ Len(log') = N + 1
      /\ \A i \in 1..N : log'[i] = log[i]
      /\ log'[N + 1].msg = m
      /\ m \in Inputs
  BY <1>1, LogKept DEF TypeOK
<1>3. pc = "publishing" /\ pc' = "acking" /\ UNCHANGED <<feed, acked, out, accepted>>
  BY DEF Log, next
<1>4. HasDelivery(Q) /\ m \notin LoggedMsgs
  BY <1>1, <1>3, AttemptIsNode DEF TypeOK, InputInv
<1>5. Taken' = G
  BY <1>2, <1>3 DEF BegunInv, Taken
<1>6. G = Append(H, m)
  <2>1. H \in Seq(Inputs) /\ Len(H) = N /\ \A i \in 1..N : H[i] = log[i].msg
    BY <1>2, HistoryType DEF TypeOK
  <2>2. G = [i \in 1..(N + 1) |-> log'[i].msg]
    BY DEF History
  <2> DEFINE A == Append(H, m)
  <2> HIDE DEF H, G, m
  <2>3. /\ A \in Seq(Inputs) /\ Len(A) = N + 1
        /\ \A i \in 1..N : A[i] = H[i]
        /\ A[N + 1] = m
    BY <1>2, <2>1
  <2>4. \A i \in 1..(N + 1) : i \in 1..N \/ i = N + 1
    BY <1>2
  <2> HIDE DEF A
  <2>5. \A i \in 1..(N + 1) : log'[i].msg = A[i]
    BY <1>2, <2>1, <2>3, <2>4
  <2>6. A = [i \in 1..(N + 1) |-> A[i]]
    BY <2>3
  <2> QED
    BY <2>2, <2>5, <2>6 DEF A
<1>7. CASE Begun
  <2>1. Taken' = Taken
    BY <1>5, <1>6, <1>7 DEF Taken
  <2> QED
    BY <1>3, <2>1
<1>8. CASE ~ Begun
  <2>1. Taken' = Append(Taken, m)
    BY <1>5, <1>6, <1>8 DEF Taken
  <2> QED
    BY <1>1, <1>3, <1>4, <1>8, <2>1, DeliveryProcesses DEF InputInv
<1> QED
  BY <1>7, <1>8

LEMMA StepImplements ==
  ASSUME SingleQueue, DeterministicNode, TypeOK, ControlInv, InputInv, ContentInv,
         BegunInv, BegunInv', [Next]_vars
  PROVE  [Abstract!Next]_(Abstract!evars)
<1> USE DEF Abstract!evars
<1>1. Q \in Queues /\ Q = cur
  BY QueueIsCur DEF TypeOK
<1>2. ASSUME NEW q \in Queues, Arrive(q) PROVE Abstract!Arrive
  BY <1>1, <1>2, ArriveArrives
<1>3. CASE Publish
  BY <1>3, PublishProcesses DEF Abstract!Next
<1>4. CASE Log
  BY <1>4, LogProcesses DEF Abstract!Next
<1>5. ASSUME NEW k \in Keys, Deliver(k)
      PROVE  [Abstract!Next]_(Abstract!evars)
  <2>1. CASE out[k][got[k] + 1].id < expect[k]
    <3>1. UNCHANGED <<feed, acked, log, out, accepted>>
      BY <1>5, <2>1 DEF Deliver, disk
    <3>2. Taken' = Taken
      BY <3>1, TakenKept DEF Delivery
    <3> QED
      BY <3>1, <3>2
  <2>2. CASE ~ (out[k][got[k] + 1].id < expect[k])
    BY <1>5, <2>2, DeliverHands DEF Abstract!Next
  <2> QED
    BY <2>1, <2>2
<1>6. CASE Ack
  <2>1. UNCHANGED <<feed, log, out, accepted>> /\ pc = "acking"
    BY <1>6 DEF Ack, next
  <2>2. ~ Begun
    BY <2>1 DEF BegunInv
  <2>3. Taken' = Taken
    BY <2>1, <2>2, TakenKept
  <2> QED
    BY <2>1, <2>3
<1>7. CASE \/ Recover \/ Crash \/ Restart \/ UNCHANGED vars
           \/ \E q \in Queues : TakeDuplicate(q) \/ TakeNew(q)
  <2>1. UNCHANGED <<feed, acked, log, out, accepted>>
    BY <1>7 DEF Recover, RecoverId, RecoverMessage, RecoverDone, Crash, Restart,
       TakeDuplicate, TakeNew, disk, next, vars
  <2>2. Taken' = Taken
    BY <2>1, TakenKept DEF Delivery
  <2> QED
    BY <2>1, <2>2
<1>8. \/ \E q \in Queues : Arrive(q)
      \/ Publish \/ Log \/ Ack
      \/ \E k \in Keys : Deliver(k)
      \/ \/ Recover \/ Crash \/ Restart \/ UNCHANGED vars
         \/ \E q \in Queues : TakeDuplicate(q) \/ TakeNew(q)
  BY DEF Next, Consume
<1>9. Abstract!Arrive => Abstract!Next
  BY DEF Abstract!Next
<1> QED
  BY <1>2, <1>3, <1>4, <1>5, <1>6, <1>7, <1>8, <1>9

LEMMA InitImplements == Init => Abstract!Init
<1> SUFFICES ASSUME Init PROVE Abstract!Init
  OBVIOUS
<1>1. Q \in Queues
  BY DEF Init, Q
<1>2. /\ feed[Q] = <<>> /\ log = <<>> /\ accepted = [k \in Keys |-> <<>>]
      /\ \A k \in Keys : out[k] = <<>>
  BY <1>1 DEF Init
<1>3. ~ Begun
  BY <1>2 DEF Begun
<1>4. Len(log) = 0
  BY <1>2
<1>5. LogType
  BY TypeInit DEF TypeOK
<1>6. History(log, 0) \in Seq(Inputs) /\ Len(History(log, 0)) = 0
  <2>1. 0 \in 0..Len(log)
    BY <1>4
  <2> QED
    BY <1>5, <2>1, HistoryType
<1>7. Taken = <<>>
  BY <1>3, <1>4, <1>6 DEF Taken
<1> QED
  BY <1>2, <1>7 DEF Abstract!Init

(* A worker with one input queue whose outputs are a function of what it   *)
(* processed, killed and restarted at any step of worker.consume           *)
(* (worker.go:303) and Worker.Recover (worker.go:185), does to the next    *)
(* node what one that never dies and numbers nothing would: it takes each  *)
(* message of its queue once, in order, and hands each output over once.   *)
THEOREM WorkerImplementsSteps ==
  ASSUME TypedNode, DeterministicNode, SingleQueue
  PROVE  Spec => ImplementsSteps
<1>1. Init => InputInv /\ ContentInv
  BY InputInit, ContentStart
<1>2. TypeOK /\ ControlInv /\ InputInv /\ ContentInv /\ [Next]_vars
        => InputInv' /\ ContentInv'
  BY InputInvNext, ContentStep
<1>3. TypeOK /\ InputInv /\ ContentInv => BegunInv
  BY BegunHolds
<1>4. TypeOK /\ ControlInv /\ InputInv /\ ContentInv /\ BegunInv /\ BegunInv' /\ [Next]_vars
        => [Abstract!Next]_(Abstract!evars)
  BY StepImplements
<1> QED
  BY TypeCorrect, InitImplements, <1>1, <1>2, <1>3, <1>4, PTL
     DEF Spec, ImplementsSteps, Abstract!SafeSpec
=============================================================================
