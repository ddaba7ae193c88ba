---------------------------- MODULE WorkerProofs ----------------------------
(***************************************************************************)
(* Proofs about Worker for any sources, keys, messages, node and bounds.   *)
(***************************************************************************)
EXTENDS WorkerInv, FiniteSetTheorems, TLAPS

-----------------------------------------------------------------------------
(* Type correctness, one part of TypeOK after the other.                   *)

LEMMA InputFields ==
  ASSUME NEW m \in Inputs
  PROVE  m.src \in Sources /\ m.id \in Nat /\ m.body \in Bodies
  BY WorkerAssumption

LEMMA DeliveryType ==
  ASSUME BrokerType, NEW q \in Queues, HasDelivery(q)
  PROVE  Delivery(q) \in Inputs
  BY DEF BrokerType, HasDelivery, Delivery

LEMMA RecordType ==
  ASSUME LogType, NEW i \in 1..Len(log)
  PROVE  /\ log[i].msg \in Inputs
         /\ log[i].dsts \in Seq(Destinations)
         /\ \A b \in 1..Len(log[i].dsts) : /\ log[i].dsts[b].key \in Keys
                                           /\ log[i].dsts[b].id \in Nat
<1>1. log[i] \in Records
  BY DEF LogType
<1> DEFINE d == log[i].dsts
<1>2. log[i].msg \in Inputs /\ d \in Seq(Destinations)
  BY <1>1 DEF Records
<1> HIDE DEF d
<1>3. \A b \in 1..Len(d) : d[b] \in Destinations
  BY <1>2
<1>4. \A b \in 1..Len(d) : d[b].key \in Keys /\ d[b].id \in Nat
  BY <1>3 DEF Destinations
<1> QED
  BY <1>2, <1>4 DEF d

LEMMA OutputType ==
  ASSUME WorkType, NEW b \in 1..Len(outs)
  PROVE  outs[b].key \in Keys /\ outs[b].body \in Bodies
<1>1. outs[b] \in Outputs
  BY DEF WorkType
<1> QED
  BY <1>1 DEF Outputs

LEMMA TypeInit == Init => TypeOK /\ ControlInv
<1> SUFFICES ASSUME Init PROVE TypeOK /\ ControlInv
  OBVIOUS
<1>1. BrokerType /\ LogType
  BY DEF Init, NoneYet, BrokerType, LogType
<1>2. ControlType /\ ControlInv
  BY WorkerAssumption DEF Init, ControlType, ControlInv
<1>3. MemoryType /\ WorkType
  BY DEF Init, NoneYet, MemoryType, WorkType
<1>4. NextType
  BY DEF Init, NoneYet, NextType
<1> QED
  BY <1>1, <1>2, <1>3, <1>4 DEF TypeOK

LEMMA BrokerTypeNext ==
  ASSUME BrokerType, ControlType, ControlInv, Next
  PROVE  BrokerType'
<1>1. ASSUME NEW q \in Queues, Arrive(q) PROVE BrokerType'
  <2>1. PICK m \in Inputs : feed' = [feed EXCEPT ![q] = Append(@, m)]
    BY <1>1 DEF Arrive
  <2>2. UNCHANGED acked
    BY <1>1 DEF Arrive
  <2> QED
    BY <2>1, <2>2 DEF BrokerType
<1>2. CASE Ack
  BY <1>2 DEF Ack, BrokerType, ControlType, ControlInv, HasDelivery
<1>3. CASE ~ Ack /\ \A q \in Queues : ~ Arrive(q)
  <2>1. UNCHANGED <<feed, acked>>
    BY <1>3 DEF Next, Recover, RecoverId, RecoverMessage, RecoverDone, Consume,
       TakeDuplicate, TakeNew, Publish, Log, Deliver, Crash, Restart, disk
  <2> QED
    BY <2>1 DEF BrokerType
<1> QED
  BY <1>1, <1>2, <1>3

LEMMA ControlTypeNext ==
  ASSUME ControlType, Next
  PROVE  ControlType'
<1> USE WorkerAssumption DEF ControlType
<1>1. CASE Crash
  BY <1>1 DEF Crash
<1>2. ASSUME NEW q \in Queues, TakeNew(q) \/ TakeDuplicate(q) PROVE ControlType'
  BY <1>2 DEF TakeNew, TakeDuplicate
<1>3. CASE RecoverId \/ RecoverMessage \/ RecoverDone \/ Restart
  BY <1>3 DEF RecoverId, RecoverMessage, RecoverDone, Restart
<1>4. CASE Publish \/ Log \/ Ack
  BY <1>4 DEF Publish, Log, Ack
<1>5. CASE \/ \E q \in Queues : Arrive(q)
           \/ \E k \in Keys : Deliver(k)
  BY <1>5 DEF Arrive, Deliver
<1> QED
  BY <1>1, <1>2, <1>3, <1>4, <1>5 DEF Next, Recover, Consume

LEMMA LogTypeNext ==
  ASSUME BrokerType, ControlType, ControlInv, LogType, WorkType, Next
  PROVE  LogType'
<1>1. CASE RecoverId \/ RecoverMessage \/ Restart
  BY <1>1 DEF RecoverId, RecoverMessage, Restart, disk, LogType
<1>2. CASE Log
  <2>1. Delivery(cur) \in Inputs
    BY <1>2, DeliveryType DEF Log, ControlType, ControlInv
  <2>2. [msg |-> Delivery(cur), dsts |-> dsts] \in Records
    BY <2>1 DEF Records, WorkType
  <2> DEFINE r == [msg |-> Delivery(cur), dsts |-> dsts]
  <2>3. log' = Append(log, r) /\ UNCHANGED <<rec, recDst>>
    BY <1>2 DEF Log, memory
  <2> HIDE DEF r
  <2> QED
    BY <2>2, <2>3 DEF LogType, r
<1>3. CASE ~ (RecoverId \/ RecoverMessage \/ Restart \/ Log)
  <2>1. UNCHANGED <<log, rec, recDst>>
    BY <1>3 DEF Next, Arrive, Recover, RecoverDone, Consume, TakeDuplicate,
       TakeNew, Publish, Ack, Deliver, Crash, disk, memory
  <2> QED
    BY <2>1 DEF LogType
<1> QED
  BY <1>1, <1>2, <1>3

LEMMA MemoryTypeNext ==
  ASSUME BrokerType, ControlType, LogType, WorkType, MemoryType, Next
  PROVE  MemoryType'
<1>1. CASE RecoverId
  <2>1. rec + 1 \in 1..Len(log) /\ recDst + 1 \in 1..Len(log[rec + 1].dsts)
    BY <1>1, RecordType DEF RecoverId, LogType
  <2> DEFINE d == log[rec + 1].dsts[recDst + 1]
  <2>2. d.key \in Keys /\ d.id \in Nat
    BY <2>1, RecordType
  <2>3. gen' = [gen EXCEPT ![d.key] = d.id + 1] /\ UNCHANGED <<mem, dup>>
    BY <1>1 DEF RecoverId
  <2> HIDE DEF d
  <2> QED
    BY <2>2, <2>3 DEF MemoryType
<1>2. CASE RecoverMessage
  <2> DEFINE m == log[rec + 1].msg
  <2>1. rec + 1 \in 1..Len(log)
    BY <1>2 DEF RecoverMessage, LogType
  <2>2. m \in Inputs /\ m.src \in Sources /\ m.id \in Nat
    BY <2>1, RecordType, InputFields
  <2>3. /\ mem' = Append(mem, m) /\ dup' = [dup EXCEPT ![m.src] = m.id + 1]
        /\ UNCHANGED gen
    BY <1>2 DEF RecoverMessage
  <2> HIDE DEF m
  <2> QED
    BY <2>2, <2>3 DEF MemoryType
<1>3. ASSUME NEW q \in Queues, TakeNew(q) PROVE MemoryType'
  <2> DEFINE m == Delivery(q)
  <2>1. m \in Inputs /\ m.src \in Sources /\ m.id \in Nat
    BY <1>3, DeliveryType, InputFields DEF TakeNew
  <2>2. /\ mem' = Append(mem, m) /\ dup' = [dup EXCEPT ![m.src] = m.id + 1]
        /\ UNCHANGED gen
    BY <1>3 DEF TakeNew
  <2> HIDE DEF m
  <2> QED
    BY <2>1, <2>2 DEF MemoryType
<1>4. CASE Publish
  <2> DEFINE k == outs[Len(dsts) + 1].key
  <2>1. k \in Keys
    BY <1>4, OutputType DEF Publish, WorkType
  <2>2. gen' = [gen EXCEPT ![k] = @ + 1] /\ UNCHANGED <<mem, dup>>
    BY <1>4 DEF Publish
  <2> HIDE DEF k
  <2> QED
    BY <2>1, <2>2 DEF MemoryType
<1>5. CASE Restart
  BY <1>5 DEF Restart, NoneYet, MemoryType
<1>6. CASE ~ (RecoverId \/ RecoverMessage \/ Publish \/ Restart)
           /\ \A q \in Queues : ~ TakeNew(q)
  <2>1. UNCHANGED <<mem, gen, dup>>
    BY <1>6 DEF Next, Arrive, Recover, RecoverDone, Consume, TakeDuplicate,
       Log, Ack, Deliver, Crash, memory
  <2> QED
    BY <2>1 DEF MemoryType
<1> QED
  BY <1>1, <1>2, <1>3, <1>4, <1>5, <1>6

LEMMA WorkTypeNext ==
  ASSUME TypedNode, BrokerType, MemoryType, WorkType, Next
  PROVE  WorkType'
<1>1. ASSUME NEW q \in Queues, TakeNew(q) PROVE WorkType'
  <2>1. Delivery(q) \in Inputs
    BY <1>1, DeliveryType DEF TakeNew
  <2>2. outs' \in Outs(mem, Delivery(q)) /\ dsts' = <<>>
    BY <1>1 DEF TakeNew
  <2>3. outs' \in Seq(Outputs)
    BY <2>1, <2>2 DEF TypedNode, MemoryType
  <2> QED
    BY <2>2, <2>3 DEF WorkType
<1>2. CASE Publish
  <2> DEFINE o == outs[Len(dsts) + 1]
             d == [key |-> o.key, id |-> gen[o.key]]
  <2>1. o.key \in Keys
    BY <1>2, OutputType DEF Publish, WorkType
  <2>2. d \in Destinations
    BY <2>1 DEF Destinations, MemoryType
  <2>3. dsts' = Append(dsts, d) /\ UNCHANGED outs /\ Len(dsts) < Len(outs)
    BY <1>2 DEF Publish
  <2> HIDE DEF d
  <2> QED
    BY <2>2, <2>3 DEF WorkType
<1>3. CASE Log \/ Crash
  <2>1. outs' = <<>> /\ dsts' = <<>>
    BY <1>3 DEF Log, Crash
  <2> QED
    BY <2>1 DEF WorkType
<1>4. CASE ~ (Publish \/ Log \/ Crash) /\ \A q \in Queues : ~ TakeNew(q)
  <2>1. UNCHANGED <<outs, dsts>>
    BY <1>4 DEF Next, Arrive, Recover, RecoverId, RecoverMessage, RecoverDone,
       Consume, TakeDuplicate, Ack, Deliver, Restart, work
  <2> QED
    BY <2>1 DEF WorkType
<1> QED
  BY <1>1, <1>2, <1>3, <1>4

LEMMA NextTypeNext ==
  ASSUME MemoryType, WorkType, NextType, Next
  PROVE  NextType'
<1>1. CASE Publish
  <2> DEFINE o == outs[Len(dsts) + 1]
             E == [id : Nat, body : Bodies]
             e == [id |-> gen[o.key], body |-> o.body]
  <2>1. o.key \in Keys /\ o.body \in Bodies
    BY <1>1, OutputType DEF Publish, WorkType
  <2>2. e \in E
    BY <2>1 DEF MemoryType
  <2>3. /\ out' = [out EXCEPT ![o.key] = Append(@, e)]
        /\ UNCHANGED <<got, expect, accepted>>
    BY <1>1 DEF Publish, next
  <2>4. out \in [Keys -> Seq(E)] /\ got \in [Keys -> Nat]
        /\ \A k \in Keys : got[k] <= Len(out[k])
    BY DEF NextType
  <2> HIDE DEF e, o, E
  <2>5. out' \in [Keys -> Seq(E)] /\ \A k \in Keys : got[k] <= Len(out'[k])
    BY <2>1, <2>2, <2>3, <2>4
  <2> QED
    BY <2>3, <2>5 DEF NextType, E
<1>2. ASSUME NEW k \in Keys, Deliver(k) PROVE NextType'
  <2> DEFINE E == [id : Nat, body : Bodies]
             e == out[k][got[k] + 1]
  <2>1. /\ out[k] \in Seq(E) /\ Len(out[k]) \in Nat
        /\ got[k] \in Nat /\ got[k] < Len(out[k])
    <3> HIDE DEF E
    <3>1. out \in [Keys -> Seq(E)] /\ got \in [Keys -> Nat]
      BY DEF NextType, E
    <3>2. got[k] < Len(out[k])
      BY <1>2 DEF Deliver
    <3> QED
      BY <3>1, <3>2
  <2>2. e.id \in Nat /\ e.body \in Bodies
    <3> HIDE DEF E
    <3>1. e \in E
      BY <2>1
    <3> QED
      BY <3>1 DEF E
  <2>3. /\ \/ UNCHANGED <<expect, accepted>>
           \/ /\ expect' = [expect EXCEPT ![k] = e.id + 1]
              /\ accepted' = [accepted EXCEPT ![k] = Append(@, e.body)]
        /\ got' = [got EXCEPT ![k] = @ + 1]
        /\ UNCHANGED out
    BY <1>2 DEF Deliver
  <2> HIDE DEF e
  <2>4. got' \in [Keys -> Nat] /\ \A j \in Keys : got'[j] <= Len(out[j])
    BY <2>1, <2>3 DEF NextType
  <2>5. expect' \in [Keys -> Nat] /\ accepted' \in [Keys -> Seq(Bodies)]
    <3>1. expect \in [Keys -> Nat] /\ accepted \in [Keys -> Seq(Bodies)]
      BY DEF NextType
    <3>2. CASE UNCHANGED <<expect, accepted>>
      BY <3>1, <3>2
    <3>3. CASE /\ expect' = [expect EXCEPT ![k] = e.id + 1]
               /\ accepted' = [accepted EXCEPT ![k] = Append(@, e.body)]
      <4>1. expect' \in [Keys -> Nat]
        BY <2>2, <3>1, <3>3
      <4>2. accepted' \in [Keys -> Seq(Bodies)]
        BY <2>2, <3>1, <3>3
      <4> QED
        BY <4>1, <4>2
    <3> QED
      BY <2>3, <3>2, <3>3
  <2> QED
    BY <2>3, <2>4, <2>5 DEF NextType
<1>3. CASE ~ Publish /\ \A k \in Keys : ~ Deliver(k)
  <2>1. UNCHANGED <<out, got, expect, accepted>>
    BY <1>3 DEF Next, Arrive, Recover, RecoverId, RecoverMessage, RecoverDone,
       Consume, TakeDuplicate, TakeNew, Log, Ack, Crash, Restart, next
  <2> QED
    BY <2>1 DEF NextType
<1> QED
  BY <1>1, <1>2, <1>3

LEMMA ControlInvNext ==
  ASSUME BrokerType, ControlType, ControlInv, Next
  PROVE  ControlInv'
<1>1. ASSUME NEW q \in Queues, Arrive(q) PROVE ControlInv'
  <2>1. PICK m \in Inputs : feed' = [feed EXCEPT ![q] = Append(@, m)]
    BY <1>1 DEF Arrive
  <2>2. \A r \in Queues : Len(feed[r]) <= Len(feed'[r])
    BY <2>1 DEF BrokerType
  <2>3. UNCHANGED <<acked, pc, cur, outs, dsts>>
    BY <1>1 DEF Arrive, work
  <2>4. Len(feed[cur]) \in Nat /\ Len(feed'[cur]) \in Nat /\ acked[cur] \in Nat
    BY <2>1 DEF BrokerType, ControlType
  <2> QED
    BY <2>2, <2>3, <2>4 DEF ControlInv, HasDelivery, ControlType
<1>2. CASE \A q \in Queues : ~ Arrive(q)
  BY <1>2 DEF ControlInv, HasDelivery, Next, Recover, RecoverId, RecoverMessage,
     RecoverDone, Consume, TakeDuplicate, TakeNew, Publish, Log, Ack, Deliver,
     Crash, Restart, disk, work
<1> QED
  BY <1>1, <1>2

LEMMA TypeNext ==
  ASSUME TypedNode, TypeOK, ControlInv, [Next]_vars
  PROVE  TypeOK' /\ ControlInv'
<1>1. CASE Next
  BY <1>1, BrokerTypeNext, ControlTypeNext, LogTypeNext, MemoryTypeNext,
     WorkTypeNext, NextTypeNext, ControlInvNext DEF TypeOK
<1>2. CASE UNCHANGED vars
  BY <1>2 DEF vars, TypeOK, ControlInv, BrokerType, ControlType, LogType,
     MemoryType, WorkType, NextType, HasDelivery
<1> QED
  BY <1>1, <1>2

(* Every variable stays in its type, for every node whose Process          *)
(* publishes to known keys: in particular a node never acknowledges past   *)
(* the end of a queue (worker.go, consume).                                *)
THEOREM TypeCorrect ==
  ASSUME TypedNode
  PROVE  Spec => [](TypeOK /\ ControlInv)
<1>1. Init => TypeOK /\ ControlInv
  BY TypeInit
<1>2. TypeOK /\ ControlInv /\ [Next]_vars => (TypeOK /\ ControlInv)'
  BY TypeNext
<1> QED
  BY <1>1, <1>2, PTL DEF Spec

-----------------------------------------------------------------------------
(* The input side: the duplicate handler and the log, for every node.      *)

LEMMA FeedKept ==
  ASSUME BrokerType, NEW q \in Queues, Arrive(q)
  PROVE  /\ \A r \in Queues : \A i \in 1..Len(feed[r]) : feed'[r][i] = feed[r][i]
         /\ \A r \in Queues : Len(feed[r]) <= Len(feed'[r])
         /\ \A r \in Queues : HasDelivery(r) => HasDelivery(r)' /\ Delivery(r)' = Delivery(r)
         /\ UNCHANGED <<acked, log, pc, cur, rec, recDst, mem, outs, dsts, gen,
                        dup, out, got, expect, accepted>>
<1>1. PICK m \in Inputs : feed' = [feed EXCEPT ![q] = Append(@, m)]
  BY DEF Arrive
<1>2. UNCHANGED <<acked, log, pc, cur, rec, recDst, mem, outs, dsts, gen,
                  dup, out, got, expect, accepted>>
  BY DEF Arrive, memory, work, next
<1>3. feed \in [Queues -> Seq(Inputs)] /\ acked \in [Queues -> Nat]
  BY DEF BrokerType
<1>4. \A r \in Queues : \A i \in 1..Len(feed[r]) : feed'[r][i] = feed[r][i]
  BY <1>1, <1>3
<1>5. \A r \in Queues : Len(feed[r]) <= Len(feed'[r])
                        /\ Len(feed[r]) \in Nat /\ Len(feed'[r]) \in Nat
  BY <1>1, <1>3
<1>6. ASSUME NEW r \in Queues, HasDelivery(r)
      PROVE  HasDelivery(r)' /\ Delivery(r)' = Delivery(r)
  <2>1. acked[r] \in Nat /\ acked[r] + 1 \in 1..Len(feed[r])
    BY <1>3, <1>5, <1>6 DEF HasDelivery
  <2>2. feed'[r][acked[r] + 1] = feed[r][acked[r] + 1]
    BY <2>1, <1>4
  <2> QED
    BY <1>2, <1>5, <2>1, <2>2 DEF HasDelivery, Delivery
<1> QED
  BY <1>2, <1>4, <1>5, <1>6

LEMMA LogKept ==
  ASSUME BrokerType, ControlType, ControlInv, LogType, WorkType, Log
  PROVE  /\ Len(log) \in Nat /\ Len(log') = Len(log) + 1
         /\ \A i \in 1..Len(log) : log'[i] = log[i]
         /\ log'[Len(log) + 1].msg = Delivery(cur)
         /\ log'[Len(log) + 1].dsts = dsts
         /\ Delivery(cur) \in Inputs
<1>1. Delivery(cur) \in Inputs
  BY DeliveryType DEF Log, ControlType, ControlInv
<1> DEFINE r == [msg |-> Delivery(cur), dsts |-> dsts]
<1>2. r \in Records /\ r.msg = Delivery(cur) /\ r.dsts = dsts
  BY <1>1 DEF Records, WorkType
<1>3. log' = Append(log, r) /\ log \in Seq(Records)
  BY DEF Log, LogType
<1> HIDE DEF r
<1> QED
  BY <1>1, <1>2, <1>3

LEMMA InputInit == Init => InputInv
  BY DEF Init, NoneYet, InputInv, FeedInv, LogSources, AckedIsLogged,
     RecoveringInv, SettledInv, AckingInv, PublishingInv, DupAfter, MemAfter

LEMMA FeedInvNext ==
  ASSUME BrokerType, FeedInv, Next
  PROVE  FeedInv'
<1>1. ASSUME NEW q \in Queues, Arrive(q) PROVE FeedInv'
  <2>1. PICK m \in Inputs :
          /\ QueueOf[m.src] = q
          /\ m.id # 0 => \E i \in 1..Len(feed[q]) :
                           feed[q][i].src = m.src /\ feed[q][i].id + 1 = m.id
          /\ feed' = [feed EXCEPT ![q] = Append(@, m)]
    BY <1>1 DEF Arrive
  <2>2. feed \in [Queues -> Seq(Inputs)]
    BY DEF BrokerType
  <2>3. ASSUME NEW r \in Queues, NEW i \in 1..Len(feed'[r])
        PROVE  /\ QueueOf[feed'[r][i].src] = r
               /\ feed'[r][i].id # 0 =>
                    \E j \in 1..(i - 1) : /\ feed'[r][j].src = feed'[r][i].src
                                          /\ feed'[r][j].id + 1 = feed'[r][i].id
    <3>1. CASE i \in 1..Len(feed[r])
      <4>1. \A j \in 1..i : feed'[r][j] = feed[r][j]
        BY <2>1, <2>2, <3>1
      <4>2. feed'[r][i] = feed[r][i] /\ \A j \in 1..(i - 1) : feed'[r][j] = feed[r][j]
        BY <4>1, <3>1
      <4>3. /\ QueueOf[feed[r][i].src] = r
            /\ feed[r][i].id # 0 =>
                 \E j \in 1..(i - 1) : /\ feed[r][j].src = feed[r][i].src
                                       /\ feed[r][j].id + 1 = feed[r][i].id
        BY <3>1 DEF FeedInv
      <4> QED
        BY <4>2, <4>3
    <3>2. CASE i \notin 1..Len(feed[r])
      <4>1. r = q /\ i = Len(feed[q]) + 1 /\ feed'[r][i] = m /\ Len(feed[q]) \in Nat
        BY <2>1, <2>2, <3>2
      <4>2. \A j \in 1..(i - 1) : feed'[r][j] = feed[r][j]
        BY <2>1, <2>2, <4>1
      <4> QED
        BY <2>1, <4>1, <4>2
    <3> QED
      BY <3>1, <3>2
  <2> QED
    BY <2>3 DEF FeedInv
<1>2. CASE \A q \in Queues : ~ Arrive(q)
  <2>1. UNCHANGED feed
    BY <1>2 DEF Next, Recover, RecoverId, RecoverMessage, RecoverDone, Consume,
       TakeDuplicate, TakeNew, Publish, Log, Ack, Deliver, Crash, Restart, disk
  <2> QED
    BY <2>1 DEF FeedInv
<1> QED
  BY <1>1, <1>2

LEMMA LogSourcesNext ==
  ASSUME BrokerType, ControlType, ControlInv, LogType, WorkType, MemoryType,
         LogSources, PublishingInv, Next
  PROVE  LogSources'
<1>1. CASE Log
  <2> DEFINE m == Delivery(cur)
  <2>1. DupAfter(Len(log), [dup EXCEPT ![m.src] = m.id])
    BY <1>1 DEF Log, PublishingInv
  <2>2. m \in Inputs /\ m.src \in Sources /\ m.id \in Nat
    BY <1>1, LogKept, InputFields
  <2> HIDE DEF m
  <2>3. /\ \A i \in 1..Len(log) : log[i].msg.src = m.src => log[i].msg.id < m.id
        /\ \A n \in 0..(m.id - 1) :
             \E i \in 1..Len(log) : log[i].msg.src = m.src /\ log[i].msg.id = n
    BY <2>1, <2>2 DEF DupAfter, MemoryType
  <2>4. /\ Len(log) \in Nat /\ Len(log') = Len(log) + 1
        /\ \A i \in 1..Len(log) : log'[i] = log[i]
        /\ log'[Len(log) + 1].msg = m
    BY <1>1, LogKept DEF m
  <2>5. ASSUME NEW i \in 1..Len(log')
        PROVE  /\ \A a \in 1..(i - 1) :
                    log'[a].msg.src = log'[i].msg.src => log'[a].msg.id < log'[i].msg.id
               /\ \A n \in 0..(log'[i].msg.id - 1) :
                    \E a \in 1..(i - 1) : /\ log'[a].msg.src = log'[i].msg.src
                                          /\ log'[a].msg.id = n
    <3>1. CASE i \in 1..Len(log)
      <4>1. \A a \in 1..i : log'[a] = log[a]
        BY <2>4, <3>1
      <4>2. i \in 1..Len(log)
        BY <3>1
      <4>3. /\ \A b \in 1..(i - 1) :
                 log[b].msg.src = log[i].msg.src => log[b].msg.id < log[i].msg.id
            /\ \A n \in 0..(log[i].msg.id - 1) :
                 \E b \in 1..(i - 1) : /\ log[b].msg.src = log[i].msg.src
                                       /\ log[b].msg.id = n
        BY <4>2 DEF LogSources
      <4>4. log'[i] = log[i] /\ \A b \in 1..(i - 1) : log'[b] = log[b]
        BY <2>4, <3>1, <4>1
      <4> QED
        BY <4>3, <4>4
    <3>2. CASE i = Len(log) + 1
      BY <2>3, <2>4, <3>2
    <3> QED
      BY <2>4, <3>1, <3>2
  <2> QED
    BY <2>5 DEF LogSources
<1>2. CASE ~ Log
  <2>1. UNCHANGED log
    BY <1>2 DEF Next, Arrive, Recover, RecoverId, RecoverMessage, RecoverDone,
       Consume, TakeDuplicate, TakeNew, Publish, Ack, Deliver, Crash, Restart, disk
  <2> QED
    BY <2>1 DEF LogSources
<1> QED
  BY <1>1, <1>2

(* A delivery that is not a duplicate is the next of its source: all those *)
(* before it were acknowledged, hence logged, hence counted.               *)
LEMMA NewIsNext ==
  ASSUME BrokerType, LogType, MemoryType, FeedInv, AckedIsLogged,
         DupAfter(Len(log), dup),
         NEW q \in Queues, HasDelivery(q), ~ IsDuplicate(Delivery(q))
  PROVE  dup[Delivery(q).src] = Delivery(q).id
<1> DEFINE m == Delivery(q)
<1>1. m \in Inputs /\ m.src \in Sources /\ m.id \in Nat /\ dup[m.src] \in Nat
  BY DeliveryType, InputFields DEF MemoryType
<1>2. dup[m.src] <= m.id
  BY <1>1 DEF IsDuplicate
<1>3. CASE m.id = 0
  BY <1>1, <1>2, <1>3
<1>4. CASE m.id # 0
  <2>1. acked[q] \in Nat /\ acked[q] + 1 \in 1..Len(feed[q])
    BY DEF BrokerType, HasDelivery
  <2>2. PICK j \in 1..acked[q] : /\ feed[q][j].src = m.src
                                 /\ feed[q][j].id + 1 = m.id
    <3>1. \E j \in 1..((acked[q] + 1) - 1) : /\ feed[q][j].src = m.src
                                             /\ feed[q][j].id + 1 = m.id
      BY <1>4, <2>1 DEF FeedInv, Delivery
    <3> QED
      BY <2>1, <3>1
  <2>3. PICK i \in 1..Len(log) : feed[q][j] = log[i].msg
    BY DEF AckedIsLogged, LoggedMsgs
  <2>4. log[i].msg.id < dup[m.src] /\ log[i].msg.id \in Nat
    BY <1>1, <2>2, <2>3, RecordType, InputFields DEF DupAfter
  <2> QED
    BY <1>1, <1>2, <2>2, <2>3, <2>4
<1> QED
  BY <1>3, <1>4

(* A delivery that is a duplicate has a record in the log.                 *)
LEMMA DuplicateIsLogged ==
  ASSUME BrokerType, LogType, MemoryType, DupAfter(Len(log), dup),
         NEW q \in Queues, HasDelivery(q), IsDuplicate(Delivery(q))
  PROVE  Delivery(q) \in LoggedMsgs
<1> DEFINE m == Delivery(q)
<1>1. m \in Inputs /\ m.src \in Sources /\ m.id \in Nat /\ dup[m.src] \in Nat
  BY DeliveryType, InputFields DEF MemoryType
<1>2. m.id \in 0..(dup[m.src] - 1)
  BY <1>1 DEF IsDuplicate
<1>3. PICK i \in 1..Len(log) : log[i].msg.src = m.src /\ log[i].msg.id = m.id
  BY <1>1, <1>2 DEF DupAfter
<1>4. log[i].msg = m
  BY <1>1, <1>3, RecordType, WorkerAssumption
<1> QED
  BY <1>4 DEF LoggedMsgs

LEMMA AckedIsLoggedNext ==
  ASSUME BrokerType, ControlType, ControlInv, LogType, WorkType,
         AckedIsLogged, AckingInv, Next
  PROVE  AckedIsLogged'
<1>1. ASSUME NEW q \in Queues, Arrive(q) PROVE AckedIsLogged'
  <2>1. /\ \A r \in Queues : \A i \in 1..Len(feed[r]) : feed'[r][i] = feed[r][i]
        /\ UNCHANGED <<acked, log>>
    BY <1>1, FeedKept
  <2>2. \A r \in Queues : \A i \in 1..acked[r] : i \in 1..Len(feed[r])
    BY DEF BrokerType
  <2> QED
    BY <2>1, <2>2 DEF AckedIsLogged, LoggedMsgs
<1>2. CASE Log
  <2>1. /\ Len(log) \in Nat /\ Len(log') = Len(log) + 1
        /\ \A i \in 1..Len(log) : log'[i] = log[i]
    BY <1>2, LogKept
  <2>2. LoggedMsgs \subseteq LoggedMsgs'
    BY <2>1 DEF LoggedMsgs
  <2>3. UNCHANGED <<feed, acked>>
    BY <1>2 DEF Log
  <2> QED
    BY <2>2, <2>3 DEF AckedIsLogged
<1>3. CASE Ack
  <2>1. feed[cur][acked[cur] + 1] \in LoggedMsgs
    BY <1>3 DEF Ack, AckingInv, Delivery
  <2>2. acked' = [acked EXCEPT ![cur] = @ + 1] /\ UNCHANGED <<feed, log>>
    BY <1>3 DEF Ack
  <2>3. acked \in [Queues -> Nat] /\ cur \in Queues
    BY DEF BrokerType, ControlType
  <2>4. LoggedMsgs' = LoggedMsgs
    BY <2>2 DEF LoggedMsgs
  <2>5. ASSUME NEW q \in Queues, NEW i \in 1..acked'[q]
        PROVE  feed[q][i] \in LoggedMsgs
    <3>1. CASE i \in 1..acked[q]
      BY <3>1 DEF AckedIsLogged
    <3>2. CASE i \notin 1..acked[q]
      <4>1. q = cur /\ i = acked[cur] + 1
        BY <2>2, <2>3, <3>2
      <4> QED
        BY <2>1, <4>1
    <3> QED
      BY <3>1, <3>2
  <2> QED
    BY <2>2, <2>4, <2>5 DEF AckedIsLogged
<1>4. CASE ~ Log /\ ~ Ack /\ \A q \in Queues : ~ Arrive(q)
  <2>1. UNCHANGED <<feed, acked, log>>
    BY <1>4 DEF Next, Recover, RecoverId, RecoverMessage, RecoverDone, Consume,
       TakeDuplicate, TakeNew, Publish, Deliver, Crash, Restart, disk
  <2> QED
    BY <2>1 DEF AckedIsLogged, LoggedMsgs
<1> QED
  BY <1>1, <1>2, <1>3, <1>4

LEMMA RecoveringInvNext ==
  ASSUME BrokerType, ControlType, LogType, MemoryType, LogSources,
         RecoveringInv, Next
  PROVE  RecoveringInv'
<1>1. CASE RecoverMessage
  <2> DEFINE m == log[rec + 1].msg
  <2>1. rec \in Nat /\ rec + 1 \in 1..Len(log)
    BY <1>1 DEF RecoverMessage, LogType
  <2>2. m \in Inputs /\ m.src \in Sources /\ m.id \in Nat
    BY <2>1, RecordType, InputFields
  <2>3. /\ mem' = Append(mem, m) /\ dup' = [dup EXCEPT ![m.src] = m.id + 1]
        /\ rec' = rec + 1 /\ UNCHANGED log
    BY <1>1 DEF RecoverMessage, disk
  <2>4. DupAfter(rec, dup) /\ MemAfter(rec, mem)
    BY <1>1 DEF RecoverMessage, RecoveringInv
  <2>5. mem \in Seq(Inputs) /\ dup \in [Sources -> Nat]
    BY DEF MemoryType
  <2>6. MemAfter(rec + 1, mem')
    BY <2>1, <2>2, <2>3, <2>4, <2>5 DEF MemAfter
  <2>7. /\ \A a \in 1..rec : log[a].msg.src = m.src => log[a].msg.id < m.id
        /\ \A n \in 0..(m.id - 1) :
             \E a \in 1..rec : log[a].msg.src = m.src /\ log[a].msg.id = n
    BY <2>1 DEF LogSources
  <2>8. \A a \in 1..rec : log[a].msg.id \in Nat /\ log[a].msg.src \in Sources
    <3>1. \A a \in 1..rec : a \in 1..Len(log)
      BY <2>1
    <3> QED
      BY <3>1, RecordType, InputFields
  <2>9. ASSUME NEW s \in Sources
        PROVE  /\ \A i \in 1..(rec + 1) : log[i].msg.src = s => log[i].msg.id < dup'[s]
               /\ \A n \in 0..(dup'[s] - 1) :
                    \E i \in 1..(rec + 1) : log[i].msg.src = s /\ log[i].msg.id = n
    <3>1. CASE s = m.src
      <4>1. dup'[s] = m.id + 1
        BY <2>2, <2>3, <2>5, <3>1
      <4> HIDE DEF m
      <4>2. log[rec + 1].msg = m
        BY DEF m
      <4>3. ASSUME NEW i \in 1..(rec + 1), log[i].msg.src = s
            PROVE  log[i].msg.id < m.id + 1
        <5>1. CASE i \in 1..rec
          BY <2>2, <2>7, <2>8, <3>1, <4>3, <5>1
        <5>2. CASE i = rec + 1
          BY <2>2, <4>2, <5>2
        <5> QED
          BY <2>1, <5>1, <5>2
      <4>4. ASSUME NEW n \in 0..m.id
            PROVE  \E i \in 1..(rec + 1) : log[i].msg.src = s /\ log[i].msg.id = n
        <5>1. CASE n = m.id
          BY <2>1, <3>1, <4>2, <5>1
        <5>2. CASE n # m.id
          <6>1. n \in 0..(m.id - 1)
            BY <2>2, <5>2
          <6>2. PICK i \in 1..rec : log[i].msg.src = m.src /\ log[i].msg.id = n
            BY <2>7, <6>1
          <6> QED
            BY <2>1, <3>1, <6>2
        <5> QED
          BY <5>1, <5>2
      <4> QED
        BY <2>2, <4>1, <4>3, <4>4
    <3>2. CASE s # m.src
      <4>1. dup'[s] = dup[s] /\ dup[s] \in Nat
        BY <2>2, <2>3, <2>5, <3>2
      <4>2. /\ \A i \in 1..rec : log[i].msg.src = s => log[i].msg.id < dup[s]
            /\ \A n \in 0..(dup[s] - 1) :
                 \E i \in 1..rec : log[i].msg.src = s /\ log[i].msg.id = n
        BY <2>4 DEF DupAfter
      <4> QED
        BY <2>1, <3>2, <4>1, <4>2
    <3> QED
      BY <3>1, <3>2
  <2>10. DupAfter(rec + 1, dup')
    BY <2>9 DEF DupAfter
  <2> QED
    BY <2>3, <2>6, <2>10 DEF RecoveringInv, DupAfter, MemAfter
<1>2. CASE Restart
  BY <1>2 DEF Restart, NoneYet, RecoveringInv, DupAfter, MemAfter
<1>3. CASE ~ RecoverMessage /\ ~ Restart
  <2>1. pc' = "recovering" => pc = "recovering" /\ UNCHANGED <<log, rec, dup, mem>>
    BY <1>3 DEF Next, Arrive, Recover, RecoverId, RecoverDone, Consume,
       TakeDuplicate, TakeNew, Publish, Log, Ack, Deliver, Crash, disk, memory
  <2> QED
    BY <2>1 DEF RecoveringInv, DupAfter, MemAfter
<1> QED
  BY <1>1, <1>2, <1>3

LEMMA SettledInvNext ==
  ASSUME BrokerType, ControlType, ControlInv, LogType, MemoryType, WorkType,
         RecoveringInv, SettledInv, PublishingInv, Next
  PROVE  SettledInv'
<1>1. CASE RecoverDone
  <2>1. DupAfter(Len(log), dup) /\ MemAfter(Len(log), mem)
    BY <1>1 DEF RecoverDone, RecoveringInv
  <2>2. UNCHANGED <<log, dup, mem>>
    BY <1>1 DEF RecoverDone, disk, memory
  <2> QED
    BY <2>1, <2>2 DEF SettledInv, DupAfter, MemAfter
<1>2. CASE Log
  <2> DEFINE m == Delivery(cur)
             N == Len(log)
  <2>1. /\ dup[m.src] = m.id + 1
        /\ DupAfter(N, [dup EXCEPT ![m.src] = m.id])
        /\ MemAfter(N, Earlier) /\ Len(mem) = N + 1 /\ mem = Append(Earlier, m)
    BY <1>2 DEF Log, PublishingInv
  <2>2. m \in Inputs /\ m.src \in Sources /\ m.id \in Nat
    BY <1>2, LogKept, InputFields
  <2> HIDE DEF m
  <2>3. /\ N \in Nat /\ Len(log') = N + 1
        /\ \A i \in 1..N : log'[i] = log[i]
        /\ log'[N + 1].msg = m
    BY <1>2, LogKept DEF m
  <2> HIDE DEF N
  <2>4. UNCHANGED <<dup, mem>> /\ dup \in [Sources -> Nat]
    BY <1>2 DEF Log, memory, MemoryType
  <2>5. Len(mem) = N + 1 /\ \A i \in 1..(N + 1) : mem[i] = log'[i].msg
    <3>1. PICK h \in Seq(Inputs) : MemAfter(N, h) /\ mem = Append(h, m)
      <4>1. Earlier \in Seq(Inputs)
        BY <2>1, <2>3 DEF MemoryType, Earlier, N
      <4> QED
        BY <2>1, <4>1
    <3>2. Len(h) = N /\ \A i \in 1..N : h[i] = log[i].msg
      BY <3>1 DEF MemAfter
    <3> QED
      BY <2>2, <2>3, <3>1, <3>2
  <2>6. ASSUME NEW s \in Sources
        PROVE  /\ \A i \in 1..(N + 1) : log'[i].msg.src = s => log'[i].msg.id < dup[s]
               /\ \A n \in 0..(dup[s] - 1) :
                    \E i \in 1..(N + 1) : log'[i].msg.src = s /\ log'[i].msg.id = n
    <3> DEFINE d == IF s = m.src THEN m.id ELSE dup[s]
    <3>1. /\ \A i \in 1..N : log[i].msg.src = s => log[i].msg.id < d
          /\ \A n \in 0..(d - 1) : \E i \in 1..N : log[i].msg.src = s /\ log[i].msg.id = n
      BY <2>1, <2>2, <2>4 DEF DupAfter
    <3>2. CASE s # m.src
      <4>1. d = dup[s] /\ log'[N + 1].msg.src # s
        BY <2>3, <3>2
      <4>2. \A i \in 1..(N + 1) : i \in 1..N \/ i = N + 1
        BY <2>3
      <4>3. \A i \in 1..N : log'[i] = log[i] /\ i \in 1..(N + 1)
        BY <2>3
      <4> HIDE DEF d
      <4> QED
        BY <3>1, <4>1, <4>2, <4>3
    <3>3. CASE s = m.src
      <4>1. dup[s] = m.id + 1 /\ d = m.id
        BY <2>1, <3>3
      <4>2. \A i \in 1..N : log'[i].msg.src = s => log'[i].msg.id < m.id
        BY <2>3, <3>1, <4>1
      <4>3. \A i \in 1..N : log[i].msg.id \in Nat
        BY RecordType, InputFields DEF N
      <4>4. \A i \in 1..(N + 1) : log'[i].msg.src = s => log'[i].msg.id < m.id + 1
        BY <2>2, <2>3, <4>2, <4>3
      <4>5. ASSUME NEW n \in 0..m.id
            PROVE  \E i \in 1..(N + 1) : log'[i].msg.src = s /\ log'[i].msg.id = n
        <5>1. CASE n = m.id
          BY <2>3, <3>3, <5>1
        <5>2. CASE n # m.id
          <6>1. n \in 0..(d - 1)
            BY <2>2, <4>1, <5>2
          <6>2. PICK i \in 1..N : log[i].msg.src = s /\ log[i].msg.id = n
            BY <3>1, <6>1
          <6> QED
            BY <2>3, <6>2
        <5> QED
          BY <5>1, <5>2
      <4> QED
        BY <2>2, <4>1, <4>4, <4>5
    <3> QED
      BY <3>2, <3>3
  <2> QED
    BY <2>3, <2>4, <2>5, <2>6 DEF SettledInv, DupAfter, MemAfter
<1>3. CASE ~ RecoverDone /\ ~ Log
  <2>1. pc' \in {"idle", "acking"} =>
          pc \in {"idle", "acking"} /\ UNCHANGED <<log, dup, mem>>
    BY <1>3 DEF Next, Arrive, Recover, RecoverId, RecoverMessage, Consume,
       TakeDuplicate, TakeNew, Publish, Ack, Deliver, Crash, Restart, disk, memory
  <2> QED
    BY <2>1 DEF SettledInv, DupAfter, MemAfter
<1> QED
  BY <1>1, <1>2, <1>3

LEMMA AckingInvNext ==
  ASSUME BrokerType, ControlType, ControlInv, LogType, MemoryType, WorkType,
         SettledInv, AckingInv, Next
  PROVE  AckingInv'
<1>1. ASSUME NEW q \in Queues, Arrive(q) PROVE AckingInv'
  <2>1. /\ UNCHANGED <<log, pc, cur>>
        /\ \A r \in Queues : HasDelivery(r) => Delivery(r)' = Delivery(r)
    BY <1>1, FeedKept
  <2>2. pc = "acking" => Delivery(cur)' = Delivery(cur)
    BY <2>1 DEF ControlType, ControlInv, Delivery
  <2> QED
    BY <2>1, <2>2 DEF AckingInv, LoggedMsgs
<1>2. CASE Log
  <2>1. /\ Len(log) \in Nat /\ Len(log') = Len(log) + 1
        /\ log'[Len(log) + 1].msg = Delivery(cur)
    BY <1>2, LogKept
  <2>2. Delivery(cur)' = Delivery(cur)
    BY <1>2 DEF Log, Delivery
  <2> QED
    BY <2>1, <2>2 DEF AckingInv, LoggedMsgs
<1>3. ASSUME NEW q \in Queues, TakeDuplicate(q) PROVE AckingInv'
  <2>1. HasDelivery(q) /\ IsDuplicate(Delivery(q)) /\ DupAfter(Len(log), dup)
    BY <1>3 DEF TakeDuplicate, SettledInv
  <2>2. Delivery(q) \in LoggedMsgs
    BY <2>1, DuplicateIsLogged
  <2>3. Delivery(cur)' = Delivery(q) /\ UNCHANGED log
    BY <1>3 DEF TakeDuplicate, disk, Delivery
  <2> QED
    BY <2>2, <2>3 DEF AckingInv, LoggedMsgs
<1>4. CASE ~ Log /\ \A q \in Queues : ~ Arrive(q) /\ ~ TakeDuplicate(q)
  <2>1. pc' = "acking" => pc = "acking" /\ UNCHANGED <<feed, acked, log, cur>>
    BY <1>4 DEF Next, Recover, RecoverId, RecoverMessage, RecoverDone, Consume,
       TakeNew, Publish, Ack, Deliver, Crash, Restart, disk
  <2> QED
    BY <2>1 DEF AckingInv, Delivery, LoggedMsgs
<1> QED
  BY <1>1, <1>2, <1>3, <1>4

LEMMA PublishingInvNext ==
  ASSUME BrokerType, ControlType, ControlInv, LogType, MemoryType,
         FeedInv, AckedIsLogged, SettledInv, PublishingInv, Next
  PROVE  PublishingInv'
<1>1. ASSUME NEW q \in Queues, Arrive(q) PROVE PublishingInv'
  <2>1. /\ UNCHANGED <<log, pc, cur, dup, mem, outs>>
        /\ \A r \in Queues : HasDelivery(r) => Delivery(r)' = Delivery(r)
    BY <1>1, FeedKept
  <2>2. pc = "publishing" => Delivery(cur)' = Delivery(cur)
    BY <2>1 DEF ControlType, ControlInv, Delivery
  <2> SUFFICES ASSUME pc = "publishing"
               PROVE  PublishingInv'
    BY <2>1 DEF PublishingInv
  <2> DEFINE m == Delivery(cur)
  <2>3. Delivery(cur)' = m
    BY <2>2
  <2>4. /\ dup[m.src] = m.id + 1
        /\ DupAfter(Len(log), [dup EXCEPT ![m.src] = m.id])
        /\ MemAfter(Len(log), Earlier)
        /\ Len(mem) = Len(log) + 1 /\ mem = Append(Earlier, m)
        /\ outs \in Outs(Earlier, m)
    BY DEF PublishingInv
  <2> HIDE DEF m
  <2>5. Earlier' = Earlier
    BY <2>1 DEF Earlier
  <2>6. DupAfter(Len(log), [dup EXCEPT ![Delivery(cur).src] = Delivery(cur).id])'
    BY <2>1, <2>3, <2>4 DEF DupAfter
  <2>7. MemAfter(Len(log), Earlier)'
    BY <2>1, <2>4, <2>5 DEF MemAfter
  <2> QED
    BY <2>1, <2>3, <2>4, <2>5, <2>6, <2>7 DEF PublishingInv
<1>2. ASSUME NEW q \in Queues, TakeNew(q) PROVE PublishingInv'
  <2> DEFINE m == Delivery(q)
  <2>1. /\ HasDelivery(q) /\ ~ IsDuplicate(m)
        /\ DupAfter(Len(log), dup) /\ MemAfter(Len(log), mem)
        /\ dup' = [dup EXCEPT ![m.src] = m.id + 1]
        /\ mem' = Append(mem, m) /\ outs' \in Outs(mem, m)
        /\ UNCHANGED <<feed, acked, log>> /\ cur' = q
    BY <1>2 DEF TakeNew, SettledInv, disk
  <2>2. m \in Inputs /\ m.src \in Sources /\ m.id \in Nat
    BY <2>1, DeliveryType, InputFields
  <2>3. dup[m.src] = m.id
    BY <2>1, NewIsNext
  <2>4. Delivery(cur)' = m
    BY <2>1 DEF Delivery
  <2> HIDE DEF m
  <2>5. dup'[m.src] = m.id + 1 /\ [dup' EXCEPT ![m.src] = m.id] = dup
    BY <2>1, <2>2, <2>3 DEF MemoryType
  <2> DEFINE d == [dup' EXCEPT ![m.src] = m.id]
  <2>6. DupAfter(Len(log), d)
    BY <2>1, <2>5
  <2> HIDE DEF d
  <2>7. \A s \in Sources :
          /\ \A i \in 1..Len(log') : log'[i].msg.src = s => log'[i].msg.id < d[s]
          /\ \A n \in 0..(d[s] - 1) :
               \E i \in 1..Len(log') : log'[i].msg.src = s /\ log'[i].msg.id = n
    BY <2>1, <2>6 DEF DupAfter
  <2>8. PICK h \in Seq(Inputs) : h = mem
    BY DEF MemoryType
  <2>9. Len(h) = Len(log') /\ \A i \in 1..Len(log') : h[i] = log'[i].msg
    BY <2>1, <2>8 DEF MemAfter
  <2>10. mem' = Append(h, m) /\ outs' \in Outs(h, m)
    BY <2>1, <2>8
  <2>11. Earlier' = h /\ Len(mem') = Len(log') + 1
    BY <2>2, <2>9, <2>10 DEF Earlier
  <2> QED
    BY <2>4, <2>5, <2>7, <2>9, <2>10, <2>11 DEF PublishingInv, DupAfter, MemAfter, d
<1>3. CASE \A q \in Queues : ~ Arrive(q) /\ ~ TakeNew(q)
  <2>1. pc' = "publishing" =>
          pc = "publishing" /\ UNCHANGED <<feed, acked, log, cur, dup, mem, outs>>
    BY <1>3 DEF Next, Recover, RecoverId, RecoverMessage, RecoverDone, Consume,
       TakeDuplicate, Publish, Log, Ack, Deliver, Crash, Restart, disk, memory, work
  <2> QED
    BY <2>1 DEF PublishingInv, Delivery, DupAfter, MemAfter, Earlier
<1> QED
  BY <1>1, <1>2, <1>3

LEMMA InputInvNext ==
  ASSUME TypeOK, ControlInv, InputInv, [Next]_vars
  PROVE  InputInv'
<1>1. CASE Next
  BY <1>1, FeedInvNext, LogSourcesNext, AckedIsLoggedNext, RecoveringInvNext,
     SettledInvNext, AckingInvNext, PublishingInvNext DEF TypeOK, InputInv
<1>2. CASE UNCHANGED vars
  BY <1>2 DEF vars, InputInv, FeedInv, LogSources, AckedIsLogged, RecoveringInv,
     SettledInv, AckingInv, PublishingInv, DupAfter, MemAfter, Earlier, Delivery, LoggedMsgs
<1> QED
  BY <1>1, <1>2

(* Whatever the node computes and however many queues it reads, a message  *)
(* is acknowledged (worker.go:336) only after its record was written       *)
(* (worker.go:330), so a restart never loses the state it led to.          *)
THEOREM AckedMessagesAreLogged ==
  ASSUME TypedNode
  PROVE  Spec => []AckedIsLogged
<1>1. Init => InputInv
  BY InputInit
<1>2. TypeOK /\ ControlInv /\ InputInv /\ [Next]_vars => InputInv'
  BY InputInvNext
<1>3. InputInv => AckedIsLogged
  BY DEF InputInv
<1> QED
  BY TypeCorrect, <1>1, <1>2, <1>3, PTL DEF Spec

(* A message is written to the recovery log at most once, however often it *)
(* is delivered and the node killed: recovery never processes it twice.    *)
THEOREM MessagesAreLoggedOnce ==
  ASSUME TypedNode
  PROVE  Spec => []LoggedOnce
<1>1. Init => InputInv
  BY InputInit
<1>2. TypeOK /\ ControlInv /\ InputInv /\ [Next]_vars => InputInv'
  BY InputInvNext
<1>3. TypeOK /\ InputInv => LoggedOnce
  <2> SUFFICES ASSUME LogType, LogSources,
                      NEW i \in 1..Len(log), NEW j \in 1..Len(log),
                      log[i].msg = log[j].msg, i < j
               PROVE  FALSE
    BY DEF TypeOK, InputInv, LoggedOnce, LogType
  <2>1. i \in 1..(j - 1)
    BY DEF LogType
  <2>2. log[i].msg.id < log[j].msg.id
    BY <2>1 DEF LogSources
  <2> QED
    BY <2>2, RecordType, InputFields
<1> QED
  BY TypeCorrect, <1>1, <1>2, <1>3, PTL DEF Spec

-----------------------------------------------------------------------------
(* The sequence ids a worker gives its outputs are, on each key, 0, 1, 2,  *)
(* ... in the order of the log, and the generator resumes after them.      *)

LEMMA CountZero == \A o, k : Count(o, k, 0) = 0
<1> SUFFICES ASSUME NEW o, NEW k PROVE Count(o, k, 0) = 0
  OBVIOUS
<1>1. { i \in 1..0 : o[i].key = k } = {}
  OBVIOUS
<1> QED
  BY <1>1, FS_EmptySet DEF Count

LEMMA CountFinite ==
  ASSUME NEW o, NEW k, NEW n \in Nat
  PROVE  /\ IsFiniteSet({ i \in 1..n : o[i].key = k })
         /\ Count(o, k, n) \in Nat
<1>1. IsFiniteSet(1..n)
  BY FS_Interval
<1>2. IsFiniteSet({ i \in 1..n : o[i].key = k })
  BY <1>1, FS_Subset
<1> QED
  BY <1>2, FS_CardinalityType DEF Count

LEMMA CountNext ==
  ASSUME NEW o, NEW k, NEW n \in Nat
  PROVE  Count(o, k, n + 1) =
           IF o[n + 1].key = k THEN Count(o, k, n) + 1 ELSE Count(o, k, n)
<1> DEFINE S == { i \in 1..n : o[i].key = k }
           T == { i \in 1..(n + 1) : o[i].key = k }
<1>1. IsFiniteSet(S)
  BY CountFinite
<1>2. CASE o[n + 1].key = k
  <2>1. T = S \cup {n + 1} /\ n + 1 \notin S
    BY <1>2
  <2> HIDE DEF S, T
  <2>2. Cardinality(T) = Cardinality(S) + 1
    BY <1>1, <2>1, FS_AddElement
  <2> QED
    BY <1>2, <2>2 DEF Count, S, T
<1>3. CASE o[n + 1].key # k
  <2>1. T = S
    BY <1>3
  <2> QED
    BY <1>3, <2>1 DEF Count
<1> QED
  BY <1>2, <1>3

LEMMA CountMonotonic ==
  ASSUME NEW o, NEW k, NEW m \in Nat, NEW n \in Nat, m <= n
  PROVE  Count(o, k, m) <= Count(o, k, n)
<1> DEFINE S == { i \in 1..m : o[i].key = k }
           T == { i \in 1..n : o[i].key = k }
<1>1. S \in SUBSET T
  OBVIOUS
<1>2. IsFiniteSet(T)
  BY CountFinite
<1> HIDE DEF S, T
<1>3. Cardinality(S) <= Cardinality(T)
  BY <1>1, <1>2, FS_Subset
<1> QED
  BY <1>3 DEF Count, S, T

(* Of two outputs to one key, the later has the larger number.             *)
LEMMA NumbersIncrease ==
  ASSUME NEW base \in [Keys -> Nat], NEW o, NEW b \in Nat \ {0}, NEW c \in Nat,
         b < c, o[b].key = o[c].key, o[b].key \in Keys
  PROVE  /\ Number(base, o, b) < Number(base, o, c)
         /\ base[o[b].key] <= Number(base, o, b)
<1> DEFINE k == o[b].key
<1>1. Count(o, k, (b - 1) + 1) = Count(o, k, b - 1) + 1
  BY CountNext
<1>2. Count(o, k, b) <= Count(o, k, c - 1)
  BY CountMonotonic
<1>3. /\ Count(o, k, b - 1) \in Nat /\ Count(o, k, c - 1) \in Nat
      /\ base[k] \in Nat
  <2>1. b - 1 \in Nat /\ c - 1 \in Nat
    OBVIOUS
  <2> QED
    BY <2>1, CountFinite
<1>4. (b - 1) + 1 = b
  OBVIOUS
<1> HIDE DEF k
<1>5. /\ Number(base, o, b) = base[k] + Count(o, k, b - 1)
      /\ Number(base, o, c) = base[k] + Count(o, k, c - 1)
  BY DEF Number, k
<1> QED
  BY <1>1, <1>2, <1>3, <1>4, <1>5 DEF k

LEMMA CoversUnique ==
  ASSUME NEW L, NEW k, NEW r, NEW j, NEW g \in Nat, NEW h \in Nat,
         Covers(L, k, r, j, g), Covers(L, k, r, j, h)
  PROVE  g = h
<1>1. ASSUME NEW x \in Nat, NEW y \in Nat, x < y,
             Covers(L, k, r, j, x), Covers(L, k, r, j, y)
      PROVE  FALSE
  <2>1. PICK a \in 1..Len(L) : \E b \in 1..Len(L[a].dsts) :
          Before(a, b, r, j) /\ L[a].dsts[b].key = k /\ L[a].dsts[b].id = x
    <3>1. x \in 0..(y - 1)
      BY <1>1
    <3> QED
      BY <1>1, <3>1 DEF Covers
  <2>2. PICK b \in 1..Len(L[a].dsts) :
          Before(a, b, r, j) /\ L[a].dsts[b].key = k /\ L[a].dsts[b].id = x
    BY <2>1
  <2>3. L[a].dsts[b].id < x
    BY <1>1, <2>2 DEF Covers
  <2> QED
    BY <2>2, <2>3
<1> QED
  BY <1>1

(* A log that grows keeps what its old records cover.                      *)
LEMMA CoversKept ==
  ASSUME NEW L, NEW M, NEW k, NEW r \in Nat, NEW j \in Nat, NEW g,
         Len(L) \in Nat, Len(M) \in Nat, Len(L) <= Len(M),
         \A a \in 1..Len(L) : M[a] = L[a],
         r < Len(L) \/ (r = Len(L) /\ j = 0),
         \A a \in 1..Len(M) : Len(M[a].dsts) \in Nat
  PROVE  Covers(L, k, r, j, g) <=> Covers(M, k, r, j, g)
<1>1. \A a \in 1..Len(M) : \A b \in 1..Len(M[a].dsts) :
        Before(a, b, r, j) => a \in 1..Len(L)
  BY DEF Before
<1>2. Covers(L, k, r, j, g) => Covers(M, k, r, j, g)
  <2> SUFFICES ASSUME Covers(L, k, r, j, g) PROVE Covers(M, k, r, j, g)
    OBVIOUS
  <2>1. \A a \in 1..Len(M) : \A b \in 1..Len(M[a].dsts) :
          Before(a, b, r, j) /\ M[a].dsts[b].key = k => M[a].dsts[b].id < g
    BY <1>1 DEF Covers
  <2>2. ASSUME NEW n \in 0..(g - 1)
        PROVE  \E a \in 1..Len(M) : \E b \in 1..Len(M[a].dsts) :
                 Before(a, b, r, j) /\ M[a].dsts[b].key = k /\ M[a].dsts[b].id = n
    <3>1. PICK a \in 1..Len(L) : \E b \in 1..Len(L[a].dsts) :
            Before(a, b, r, j) /\ L[a].dsts[b].key = k /\ L[a].dsts[b].id = n
      BY DEF Covers
    <3>2. a \in 1..Len(M) /\ M[a] = L[a]
      OBVIOUS
    <3> QED
      BY <3>1, <3>2
  <2> QED
    BY <2>1, <2>2 DEF Covers
<1>3. Covers(M, k, r, j, g) => Covers(L, k, r, j, g)
  <2> SUFFICES ASSUME Covers(M, k, r, j, g) PROVE Covers(L, k, r, j, g)
    OBVIOUS
  <2>1. \A a \in 1..Len(L) : a \in 1..Len(M) /\ M[a] = L[a]
    OBVIOUS
  <2>2. \A a \in 1..Len(L) : \A b \in 1..Len(L[a].dsts) :
          Before(a, b, r, j) /\ L[a].dsts[b].key = k => L[a].dsts[b].id < g
    BY <2>1 DEF Covers
  <2>3. ASSUME NEW n \in 0..(g - 1)
        PROVE  \E a \in 1..Len(L) : \E b \in 1..Len(L[a].dsts) :
                 Before(a, b, r, j) /\ L[a].dsts[b].key = k /\ L[a].dsts[b].id = n
    <3>1. PICK a \in 1..Len(M) : \E b \in 1..Len(M[a].dsts) :
            Before(a, b, r, j) /\ M[a].dsts[b].key = k /\ M[a].dsts[b].id = n
      BY DEF Covers
    <3>2. a \in 1..Len(L)
      BY <1>1, <3>1
    <3> QED
      BY <2>1, <3>1, <3>2
  <2> QED
    BY <2>2, <2>3 DEF Covers
<1> QED
  BY <1>2, <1>3

LEMMA LogLengths ==
  ASSUME LogType
  PROVE  /\ Len(log) \in Nat
         /\ \A a \in 1..Len(log) : Len(log[a].dsts) \in Nat
<1>1. Len(log) \in Nat
  BY DEF LogType
<1>2. ASSUME NEW a \in 1..Len(log) PROVE Len(log[a].dsts) \in Nat
  <2>1. log[a].dsts \in Seq(Destinations)
    BY RecordType
  <2> QED
    BY <2>1
<1> QED
  BY <1>1, <1>2

LEMMA CoversStep ==
  ASSUME NEW L, NEW k, NEW r \in Nat, NEW j \in Nat, NEW g \in Nat,
         Len(L) \in Nat, r < Len(L), Len(L[r + 1].dsts) \in Nat,
         j < Len(L[r + 1].dsts),
         \A a \in 1..Len(L) : Len(L[a].dsts) \in Nat,
         \A a \in 1..Len(L) : \A b \in 1..Len(L[a].dsts) : L[a].dsts[b].id \in Nat,
         Covers(L, k, r, j, g)
  PROVE  LET d == L[r + 1].dsts[j + 1]
         IN  /\ d.key # k => Covers(L, k, r, j + 1, g)
             /\ d.key = k /\ d.id = g => Covers(L, k, r, j + 1, g + 1)
<1> DEFINE d == L[r + 1].dsts[j + 1]
<1>1. r + 1 \in 1..Len(L) /\ j + 1 \in 1..Len(L[r + 1].dsts)
  OBVIOUS
<1>2. \A a \in 1..Len(L) : \A b \in 1..Len(L[a].dsts) :
        Before(a, b, r, j + 1) <=> (Before(a, b, r, j) \/ (a = r + 1 /\ b = j + 1))
  BY DEF Before
<1>3. Before(r + 1, j + 1, r, j + 1)
  BY DEF Before
<1>4. CASE d.key # k
  <2>1. Covers(L, k, r, j + 1, g)
    BY <1>2, <1>4 DEF Covers
  <2> QED
    BY <1>4, <2>1
<1>5. CASE d.key = k /\ d.id = g
  <2>1. \A a \in 1..Len(L) : \A b \in 1..Len(L[a].dsts) :
          Before(a, b, r, j + 1) /\ L[a].dsts[b].key = k => L[a].dsts[b].id < g + 1
    <3> SUFFICES ASSUME NEW a \in 1..Len(L), NEW b \in 1..Len(L[a].dsts),
                        Before(a, b, r, j + 1), L[a].dsts[b].key = k
                 PROVE  L[a].dsts[b].id < g + 1
      OBVIOUS
    <3>1. L[a].dsts[b].id \in Nat
      OBVIOUS
    <3>2. CASE Before(a, b, r, j)
      <4>1. L[a].dsts[b].id < g
        BY <3>2 DEF Covers
      <4> QED
        BY <3>1, <4>1
    <3>3. CASE a = r + 1 /\ b = j + 1
      BY <1>5, <3>3
    <3> QED
      BY <1>2, <3>2, <3>3
  <2>2. ASSUME NEW n \in 0..((g + 1) - 1)
        PROVE  \E a \in 1..Len(L) : \E b \in 1..Len(L[a].dsts) :
                 Before(a, b, r, j + 1) /\ L[a].dsts[b].key = k /\ L[a].dsts[b].id = n
    <3>1. CASE n = g
      BY <1>1, <1>3, <1>5, <3>1
    <3>2. CASE n # g
      <4>1. n \in 0..(g - 1)
        BY <3>2
      <4>2. PICK a \in 1..Len(L) : \E b \in 1..Len(L[a].dsts) :
              Before(a, b, r, j) /\ L[a].dsts[b].key = k /\ L[a].dsts[b].id = n
        BY <4>1 DEF Covers
      <4> QED
        BY <1>2, <4>2
    <3> QED
      BY <3>1, <3>2
  <2>3. Covers(L, k, r, j + 1, g + 1)
    BY <2>1, <2>2 DEF Covers
  <2> QED
    BY <1>5, <2>3
<1> QED
  BY <1>4, <1>5

LEMMA CoversRecordDone ==
  ASSUME NEW L, NEW k, NEW r \in Nat, NEW g,
         Len(L) \in Nat, r < Len(L),
         \A a \in 1..Len(L) : Len(L[a].dsts) \in Nat,
         Covers(L, k, r, Len(L[r + 1].dsts), g)
  PROVE  Covers(L, k, r + 1, 0, g)
<1>1. \A a \in 1..Len(L) : \A b \in 1..Len(L[a].dsts) :
        Before(a, b, r + 1, 0) <=> Before(a, b, r, Len(L[r + 1].dsts))
  BY DEF Before
<1>2. \A a \in 1..Len(L) : \A b \in 1..Len(L[a].dsts) :
        Before(a, b, r + 1, 0) /\ L[a].dsts[b].key = k => L[a].dsts[b].id < g
  BY <1>1 DEF Covers
<1>3. ASSUME NEW n \in 0..(g - 1)
      PROVE  \E a \in 1..Len(L) : \E b \in 1..Len(L[a].dsts) :
               Before(a, b, r + 1, 0) /\ L[a].dsts[b].key = k /\ L[a].dsts[b].id = n
  <2>1. PICK a \in 1..Len(L) : \E b \in 1..Len(L[a].dsts) :
          Before(a, b, r, Len(L[r + 1].dsts)) /\ L[a].dsts[b].key = k
          /\ L[a].dsts[b].id = n
    BY DEF Covers
  <2> QED
    BY <1>1, <2>1
<1> QED
  BY <1>2, <1>3 DEF Covers

-----------------------------------------------------------------------------
LEMMA NumberInit == Init => NumberInv(NoneYet(Keys))
  BY DEF Init, NumberInv, LogCovered, LogOrdered, RecoveringGen, SettledGen,
     PublishingGen, Covers, NoneYet

LEMMA RecoveringGenNext ==
  ASSUME BrokerType, ControlType, LogType, MemoryType, LogOrdered,
         RecoveringGen, Next
  PROVE  RecoveringGen'
<1>0. /\ Len(log) \in Nat /\ rec \in Nat /\ recDst \in Nat
      /\ \A a \in 1..Len(log) : Len(log[a].dsts) \in Nat
      /\ \A a \in 1..Len(log) : \A b \in 1..Len(log[a].dsts) :
           log[a].dsts[b].id \in Nat
  BY LogLengths, RecordType DEF LogType
<1>1. CASE RecoverId
  <2> DEFINE d == log[rec + 1].dsts[recDst + 1]
  <2>1. /\ rec < Len(log) /\ recDst < Len(log[rec + 1].dsts)
        /\ rec + 1 \in 1..Len(log) /\ recDst + 1 \in 1..Len(log[rec + 1].dsts)
    BY <1>0, <1>1 DEF RecoverId
  <2>2. /\ gen' = [gen EXCEPT ![d.key] = d.id + 1] /\ recDst' = recDst + 1
        /\ UNCHANGED <<log, rec>> /\ pc = "recovering"
    BY <1>1 DEF RecoverId, disk
  <2>3. d.key \in Keys /\ d.id \in Nat
    BY <2>1, RecordType
  <2>4. Covers(log, d.key, rec, recDst, d.id)
    <3>1. Covers(log, d.key, (rec + 1) - 1, (recDst + 1) - 1, d.id)
      BY <2>1 DEF LogOrdered
    <3>2. (rec + 1) - 1 = rec /\ (recDst + 1) - 1 = recDst
      BY <1>0
    <3> QED
      BY <3>1, <3>2
  <2>5. gen \in [Keys -> Nat] /\ \A k \in Keys : Covers(log, k, rec, recDst, gen[k])
    BY <2>2 DEF RecoveringGen, MemoryType
  <2>6. ASSUME NEW k \in Keys PROVE Covers(log, k, rec, recDst + 1, gen'[k])
    <3>1. CASE d.key = k
      <4>1. Covers(log, k, rec, recDst + 1, d.id + 1)
        BY <1>0, <2>1, <2>3, <2>4, <3>1, CoversStep
      <4>2. gen'[k] = d.id + 1
        BY <2>2, <2>5, <3>1
      <4> QED
        BY <4>1, <4>2
    <3>2. CASE d.key # k
      <4>1. gen'[k] = gen[k] /\ gen[k] \in Nat
        BY <2>2, <2>5, <3>2
      <4>2. Covers(log, k, rec, recDst + 1, gen[k])
        BY <1>0, <2>1, <2>5, <3>2, <4>1, CoversStep
      <4> QED
        BY <4>1, <4>2
    <3> QED
      BY <3>1, <3>2
  <2> HIDE DEF d
  <2> QED
    BY <1>0, <2>1, <2>2, <2>6 DEF RecoveringGen
<1>2. CASE RecoverMessage
  <2>1. /\ rec < Len(log) /\ recDst = Len(log[rec + 1].dsts)
        /\ rec' = rec + 1 /\ recDst' = 0 /\ UNCHANGED <<log, gen>>
        /\ pc = "recovering"
    BY <1>2 DEF RecoverMessage, disk
  <2>2. \A k \in Keys : Covers(log, k, rec + 1, 0, gen[k])
    BY <1>0, <2>1, CoversRecordDone DEF RecoveringGen
  <2>3. rec + 1 < Len(log) => 0 <= Len(log[rec + 2].dsts)
    BY <1>0
  <2> QED
    BY <1>0, <2>1, <2>2, <2>3 DEF RecoveringGen
<1>3. CASE Restart
  <2>1. /\ rec' = 0 /\ recDst' = 0 /\ UNCHANGED log
        /\ gen' = [k \in Keys |-> 0]
    BY <1>3 DEF Restart, disk, NoneYet
  <2>2. \A k \in Keys : Covers(log, k, 0, 0, gen'[k])
    BY <1>0, <2>1 DEF Covers, Before
  <2> QED
    BY <1>0, <2>1, <2>2 DEF RecoveringGen
<1>4. CASE ~ RecoverId /\ ~ RecoverMessage /\ ~ Restart
  <2>1. pc' = "recovering" =>
          pc = "recovering" /\ UNCHANGED <<log, rec, recDst, gen>>
    BY <1>4 DEF Next, Arrive, Recover, RecoverDone, Consume, TakeDuplicate,
       TakeNew, Publish, Log, Ack, Deliver, Crash, disk, memory
  <2> QED
    BY <2>1 DEF RecoveringGen
<1> QED
  BY <1>1, <1>2, <1>3, <1>4

LEMMA SettledGenNext ==
  ASSUME NEW base \in [Keys -> Nat], LogType, MemoryType,
         LogCovered(base), RecoveringGen, SettledGen(base), Next, ~ Log
  PROVE  SettledGen(base)'
<1>1. CASE RecoverDone
  <2>1. /\ rec = Len(log) /\ pc = "recovering" /\ UNCHANGED gen
    BY <1>1 DEF RecoverDone, memory
  <2>2. ASSUME NEW k \in Keys PROVE gen[k] = base[k]
    <3>1. Covers(log, k, Len(log), 0, gen[k]) /\ Covers(log, k, Len(log), 0, base[k])
      BY <2>1 DEF RecoveringGen, LogCovered, LogType
    <3>2. gen[k] \in Nat /\ base[k] \in Nat
      BY DEF MemoryType
    <3> QED
      BY <3>1, <3>2, CoversUnique
  <2>3. gen = base
    BY <2>2 DEF MemoryType
  <2> QED
    BY <2>1, <2>3 DEF SettledGen
<1>2. CASE ~ RecoverDone
  <2>1. pc' \in {"idle", "acking"} => pc \in {"idle", "acking"} /\ UNCHANGED gen
    BY <1>2 DEF Next, Arrive, Recover, RecoverId, RecoverMessage, Consume,
       TakeDuplicate, TakeNew, Publish, Ack, Deliver, Crash, Restart, memory
  <2> QED
    BY <2>1 DEF SettledGen
<1> QED
  BY <1>1, <1>2

LEMMA PublishingGenNext ==
  ASSUME NEW base \in [Keys -> Nat], MemoryType, WorkType,
         SettledGen(base), PublishingGen(base), Next
  PROVE  PublishingGen(base)'
<1>1. ASSUME NEW q \in Queues, TakeNew(q) PROVE PublishingGen(base)'
  <2>1. dsts' = <<>> /\ gen' = gen /\ gen = base
    BY <1>1 DEF TakeNew, SettledGen
  <2>2. \A k \in Keys : gen'[k] = base[k] + Count(outs', k, Len(dsts'))
    BY <2>1, CountZero
  <2>3. \A k \in Keys : base[k]..(gen'[k] - 1) = {}
    BY <2>1
  <2> QED
    BY <2>1, <2>2, <2>3 DEF PublishingGen
<1>2. CASE Publish
  <2> DEFINE n == Len(dsts)
             o == outs[n + 1]
             g == gen[o.key]
             d == [key |-> o.key, id |-> g]
  <2>1. /\ pc = "publishing" /\ n < Len(outs)
        /\ gen' = [gen EXCEPT ![o.key] = @ + 1] /\ dsts' = Append(dsts, d)
        /\ UNCHANGED <<pc, outs>>
    BY <1>2 DEF Publish
  <2>2. n \in Nat /\ n + 1 \in 1..Len(outs) /\ dsts \in Seq(Destinations)
    BY <2>1 DEF WorkType
  <2>3. o.key \in Keys
    BY <2>2, OutputType
  <2>4. gen \in [Keys -> Nat] /\ g \in Nat
    BY <2>3 DEF MemoryType
  <2>5. /\ \A k \in Keys : gen[k] = base[k] + Count(outs, k, n)
        /\ \A b \in 1..n :
             /\ dsts[b].key = outs[b].key
             /\ dsts[b].id = Number(base, outs, b)
             /\ \A i \in base[dsts[b].key]..(dsts[b].id - 1) :
                  \E c \in 1..(b - 1) : dsts[c].key = dsts[b].key /\ dsts[c].id = i
        /\ \A k \in Keys : \A i \in base[k]..(gen[k] - 1) :
             \E c \in 1..n : dsts[c].key = k /\ dsts[c].id = i
    BY <2>1 DEF PublishingGen
  <2>6. d \in Destinations
    BY <2>3, <2>4 DEF Destinations
  <2>7. /\ Len(dsts') = n + 1 /\ dsts'[n + 1] = d
        /\ \A b \in 1..n : dsts'[b] = dsts[b]
    BY <2>1, <2>2, <2>6
  <2>8. d.key = o.key /\ d.id = g
    OBVIOUS
  <2>9. \A k \in Keys : gen'[k] = IF k = o.key THEN gen[k] + 1 ELSE gen[k]
    BY <2>1, <2>3, <2>4
  <2>10. ASSUME NEW k \in Keys PROVE gen'[k] = base[k] + Count(outs, k, n + 1)
    <3>1. /\ Count(outs, k, n) \in Nat
          /\ Count(outs, k, n + 1) =
               IF o.key = k THEN Count(outs, k, n) + 1 ELSE Count(outs, k, n)
      BY <2>2, CountFinite, CountNext
    <3>2. base[k] \in Nat /\ gen[k] = base[k] + Count(outs, k, n)
      BY <2>5
    <3> QED
      BY <2>9, <3>1, <3>2
  <2>11. d.id = Number(base, outs, n + 1)
    <3>1. (n + 1) - 1 = n
      BY <2>2
    <3> QED
      BY <2>3, <2>5, <2>8, <3>1 DEF Number
  <2> HIDE DEF n, o, g, d
  <2>12. ASSUME NEW b \in 1..(n + 1)
         PROVE  /\ dsts'[b].key = outs[b].key
                /\ dsts'[b].id = Number(base, outs, b)
                /\ \A i \in base[dsts'[b].key]..(dsts'[b].id - 1) :
                     \E c \in 1..(b - 1) : dsts'[c].key = dsts'[b].key
                                           /\ dsts'[c].id = i
    <3>1. CASE b \in 1..n
      <4>1. dsts'[b] = dsts[b] /\ \A c \in 1..(b - 1) : dsts'[c] = dsts[c]
        BY <2>2, <2>7, <3>1
      <4> QED
        BY <2>5, <3>1, <4>1
    <3>2. CASE b = n + 1
      <4>1. dsts'[b] = d /\ b - 1 = n
        BY <2>2, <2>7, <3>2
      <4>2. d.key = outs[b].key /\ d.id = Number(base, outs, b)
        BY <2>8, <2>11, <3>2 DEF o
      <4>3. \A i \in base[d.key]..(d.id - 1) :
              \E c \in 1..n : dsts'[c].key = d.key /\ dsts'[c].id = i
        BY <2>3, <2>5, <2>7, <2>8 DEF g
      <4> QED
        BY <4>1, <4>2, <4>3
    <3> QED
      BY <2>2, <3>1, <3>2
  <2>13. ASSUME NEW k \in Keys, NEW i \in base[k]..(gen'[k] - 1)
         PROVE  \E c \in 1..(n + 1) : dsts'[c].key = k /\ dsts'[c].id = i
    <3>1. CASE k = o.key /\ i = g
      BY <2>2, <2>7, <2>8, <3>1
    <3>2. CASE ~ (k = o.key /\ i = g)
      <4>1. i \in base[k]..(gen[k] - 1)
        BY <2>4, <2>9, <3>2 DEF g
      <4>2. PICK c \in 1..n : dsts[c].key = k /\ dsts[c].id = i
        BY <2>5, <4>1
      <4> QED
        BY <2>2, <2>7, <4>2
    <3> QED
      BY <3>1, <3>2
  <2>14. Len(dsts') = n + 1 /\ outs' = outs
    BY <2>1, <2>7
  <2> QED
    BY <2>10, <2>12, <2>13, <2>14 DEF PublishingGen
<1>3. CASE ~ Publish /\ \A q \in Queues : ~ TakeNew(q)
  <2>1. pc' = "publishing" => pc = "publishing" /\ UNCHANGED <<outs, dsts, gen>>
    BY <1>3 DEF Next, Arrive, Recover, RecoverId, RecoverMessage, RecoverDone,
       Consume, TakeDuplicate, Log, Ack, Deliver, Crash, Restart, memory, work
  <2> QED
    BY <2>1 DEF PublishingGen
<1> QED
  BY <1>1, <1>2, <1>3

(* Logging a record makes the generator's state the new base.              *)
LEMMA NumberLog ==
  ASSUME NEW base \in [Keys -> Nat], BrokerType, ControlType, ControlInv, LogType,
         MemoryType, WorkType, LogCovered(base), LogOrdered, PublishingGen(base), Log
  PROVE  LogCovered(gen)' /\ LogOrdered' /\ SettledGen(gen)'
<1> DEFINE N == Len(log)
           M == log'
<1>1. /\ N \in Nat /\ Len(M) = N + 1
      /\ \A a \in 1..N : M[a] = log[a]
      /\ M[N + 1].dsts = dsts
  BY LogKept
<1>2. /\ pc' = "acking" /\ UNCHANGED gen /\ Len(dsts) = Len(outs)
      /\ pc = "publishing"
  BY DEF Log, memory
<1>3. /\ \A k \in Keys : gen[k] = base[k] + Count(outs, k, Len(dsts))
      /\ \A b \in 1..Len(dsts) :
           /\ dsts[b].key = outs[b].key
           /\ dsts[b].id = Number(base, outs, b)
           /\ \A n \in base[dsts[b].key]..(dsts[b].id - 1) :
                \E c \in 1..(b - 1) : dsts[c].key = dsts[b].key /\ dsts[c].id = n
      /\ \A k \in Keys : \A n \in base[k]..(gen[k] - 1) :
           \E c \in 1..Len(dsts) : dsts[c].key = k /\ dsts[c].id = n
  BY <1>2 DEF PublishingGen
<1>4. /\ Len(dsts) \in Nat
      /\ \A b \in 1..Len(dsts) : dsts[b].key \in Keys /\ dsts[b].id \in Nat
  <2>1. dsts \in Seq(Destinations)
    BY DEF WorkType
  <2>2. \A b \in 1..Len(dsts) : dsts[b] \in Destinations
    BY <2>1
  <2> QED
    BY <2>1, <2>2 DEF Destinations
<1>5. /\ \A a \in 1..N : Len(log[a].dsts) \in Nat
      /\ \A a \in 1..N : \A b \in 1..Len(log[a].dsts) :
           log[a].dsts[b].key \in Keys /\ log[a].dsts[b].id \in Nat
  BY LogLengths, RecordType
<1>6. \A a \in 1..Len(M) : Len(M[a].dsts) \in Nat
  BY <1>1, <1>4, <1>5
<1>7. gen \in [Keys -> Nat]
  BY DEF MemoryType
<1>8. ASSUME NEW k \in Keys
      PROVE  base[k] <= gen[k] /\ base[k] \in Nat /\ gen[k] \in Nat
  <2>1. Count(outs, k, Len(dsts)) \in Nat
    BY <1>4, CountFinite
  <2>2. gen[k] = base[k] + Count(outs, k, Len(dsts)) /\ base[k] \in Nat
    BY <1>3
  <2> QED
    BY <2>1, <2>2
<1>9. ASSUME NEW b \in 1..Len(dsts), NEW c \in Nat, b < c, c <= Len(dsts) + 1
      PROVE  /\ dsts[b].id < base[dsts[b].key] + Count(outs, dsts[b].key, c - 1)
             /\ base[dsts[b].key] <= dsts[b].id
  <2> DEFINE k == dsts[b].key
  <2>1. k \in Keys /\ outs[b].key = k /\ dsts[b].id = base[k] + Count(outs, k, b - 1)
    BY <1>3, <1>4 DEF Number
  <2>2. Count(outs, k, (b - 1) + 1) = Count(outs, k, b - 1) + 1
    <3>1. (b - 1) + 1 = b /\ b - 1 \in Nat
      OBVIOUS
    <3> QED
      BY <2>1, <3>1, CountNext
  <2>3. Count(outs, k, b) <= Count(outs, k, c - 1)
    BY <1>9, CountMonotonic
  <2>4. /\ Count(outs, k, b - 1) \in Nat /\ Count(outs, k, c - 1) \in Nat
        /\ base[k] \in Nat
    <3>1. b - 1 \in Nat /\ c - 1 \in Nat
      BY <1>9
    <3> QED
      BY <2>1, <3>1, CountFinite
  <2>5. (b - 1) + 1 = b
    OBVIOUS
  <2> QED
    BY <2>1, <2>2, <2>3, <2>4, <2>5
<1> HIDE DEF N, M
<1>10. ASSUME NEW k \in Keys PROVE Covers(log, k, N, 0, base[k])
  BY DEF LogCovered, N
<1>11. \A a \in 1..(N + 1) : \A b : \A j \in Nat :
         Before(a, b, N, j) <=> (a \in 1..N \/ (a = N + 1 /\ b <= j))
  BY <1>1 DEF Before
<1>12. ASSUME NEW k \in Keys PROVE Covers(M, k, N + 1, 0, gen[k])
  <2>1. ASSUME NEW a \in 1..Len(M), NEW b \in 1..Len(M[a].dsts), M[a].dsts[b].key = k
        PROVE  M[a].dsts[b].id < gen[k]
    <3>1. CASE a \in 1..N
      <4>1. M[a] = log[a] /\ Before(a, b, N, 0)
        BY <1>1, <3>1 DEF Before
      <4>2. log[a].dsts[b].id < base[k]
        BY <1>10, <2>1, <3>1, <4>1 DEF Covers, N
      <4> QED
        BY <1>5, <1>8, <2>1, <3>1, <4>1, <4>2
    <3>2. CASE a = N + 1
      <4>1. b \in 1..Len(dsts) /\ dsts[b].key = k /\ M[a].dsts[b].id = dsts[b].id
        BY <1>1, <2>1, <3>2
      <4>2. b < Len(dsts) + 1 /\ (Len(dsts) + 1) - 1 = Len(dsts)
            /\ Len(dsts) + 1 \in Nat /\ Len(dsts) + 1 <= Len(dsts) + 1
        BY <1>4, <4>1
      <4>3. dsts[b].id < base[dsts[b].key]
                           + Count(outs, dsts[b].key, (Len(dsts) + 1) - 1)
        BY <1>9, <4>1, <4>2
      <4> QED
        BY <1>3, <4>1, <4>2, <4>3
    <3> QED
      BY <1>1, <3>1, <3>2
  <2>2. ASSUME NEW n \in 0..(gen[k] - 1)
        PROVE  \E a \in 1..Len(M) : \E b \in 1..Len(M[a].dsts) :
                 Before(a, b, N + 1, 0) /\ M[a].dsts[b].key = k /\ M[a].dsts[b].id = n
    <3>1. CASE n < base[k]
      <4>1. n \in 0..(base[k] - 1)
        BY <1>8, <3>1
      <4>2. PICK a \in 1..N : \E b \in 1..Len(log[a].dsts) :
              log[a].dsts[b].key = k /\ log[a].dsts[b].id = n
        BY <1>10, <4>1 DEF Covers, N
      <4>3. a \in 1..Len(M) /\ M[a] = log[a] /\ a <= N + 1
        BY <1>1, <4>2
      <4> QED
        BY <4>2, <4>3 DEF Before
    <3>2. CASE ~ (n < base[k])
      <4>1. n \in base[k]..(gen[k] - 1)
        BY <1>8, <3>2
      <4>2. PICK c \in 1..Len(dsts) : dsts[c].key = k /\ dsts[c].id = n
        BY <1>3, <4>1
      <4>3. N + 1 \in 1..Len(M) /\ N + 1 <= N + 1
        BY <1>1
      <4> QED
        BY <1>1, <4>2, <4>3 DEF Before
    <3> QED
      BY <3>1, <3>2
  <2> QED
    BY <2>1, <2>2 DEF Covers
<1>13. ASSUME NEW a \in 1..Len(M), NEW b \in 1..Len(M[a].dsts)
       PROVE  Covers(M, M[a].dsts[b].key, a - 1, b - 1, M[a].dsts[b].id)
  <2>1. CASE a \in 1..N
    <3>1. M[a] = log[a]
      BY <1>1, <2>1
    <3>2. Covers(log, log[a].dsts[b].key, a - 1, b - 1, log[a].dsts[b].id)
      BY <2>1, <3>1 DEF LogOrdered, N
    <3>3. a - 1 \in Nat /\ b - 1 \in Nat /\ a - 1 < N
      BY <1>1, <1>6, <2>1
    <3> QED
      BY <1>1, <1>6, <3>1, <3>2, <3>3, CoversKept DEF N
  <2>2. CASE a = N + 1
    <3> DEFINE k == dsts[b].key
               g == dsts[b].id
    <3>1. b \in 1..Len(dsts) /\ M[a].dsts = dsts /\ a - 1 = N /\ k \in Keys /\ g \in Nat
      BY <1>1, <1>4, <2>2
    <3>2. g = base[k] + Count(outs, k, b - 1) /\ base[k] <= g
      <4>1. g = base[k] + Count(outs, k, b - 1)
        BY <1>3, <3>1 DEF Number
      <4>2. Count(outs, k, b - 1) \in Nat
        <5>1. b - 1 \in Nat
          BY <3>1
        <5> QED
          BY <5>1, CountFinite
      <4> QED
        BY <1>8, <3>1, <4>1, <4>2
    <3>3. ASSUME NEW c \in 1..Len(M), NEW e \in 1..Len(M[c].dsts),
                 Before(c, e, N, b - 1), M[c].dsts[e].key = k
          PROVE  M[c].dsts[e].id < g
      <4>1. CASE c \in 1..N
        <5>1. M[c] = log[c] /\ Before(c, e, N, 0)
          BY <1>1, <4>1 DEF Before
        <5>2. log[c].dsts[e].id < base[k] /\ log[c].dsts[e].id \in Nat
          BY <1>5, <1>10, <3>1, <3>3, <4>1, <5>1 DEF Covers, N
        <5>3. base[k] \in Nat /\ g \in Nat
          BY <1>8, <3>1
        <5>4. M[c].dsts[e].id = log[c].dsts[e].id
          BY <5>1
        <5> HIDE DEF k, g, M, N
        <5> QED
          BY <3>2, <5>2, <5>3, <5>4
      <4>2. CASE c \notin 1..N
        <5>1. c = N + 1 /\ e <= b - 1 /\ M[c].dsts = dsts /\ e \in 1..Len(dsts)
          BY <1>1, <3>3, <4>2 DEF Before
        <5>2. e < b /\ b \in Nat /\ b <= Len(dsts) + 1
          BY <1>4, <3>1, <5>1
        <5>3. dsts[e].id < base[dsts[e].key] + Count(outs, dsts[e].key, b - 1)
          BY <1>9, <5>1, <5>2
        <5> QED
          BY <3>2, <3>3, <5>1, <5>3
      <4> QED
        BY <4>1, <4>2
    <3>4. ASSUME NEW n \in 0..(g - 1)
          PROVE  \E c \in 1..Len(M) : \E e \in 1..Len(M[c].dsts) :
                   Before(c, e, N, b - 1) /\ M[c].dsts[e].key = k /\ M[c].dsts[e].id = n
      <4>1. CASE n < base[k]
        <5>1. n \in 0..(base[k] - 1)
          BY <1>8, <3>1, <4>1
        <5>2. PICK c \in 1..N : \E e \in 1..Len(log[c].dsts) :
                log[c].dsts[e].key = k /\ log[c].dsts[e].id = n
          <6>1. Covers(log, k, N, 0, base[k])
            BY <1>10, <3>1
          <6> HIDE DEF k, g
          <6> QED
            BY <5>1, <6>1 DEF Covers, N
        <5>3. c \in 1..Len(M) /\ M[c] = log[c] /\ c <= N
          BY <1>1, <5>2
        <5> QED
          BY <5>2, <5>3 DEF Before
      <4>2. CASE ~ (n < base[k])
        <5>1. n \in base[k]..(g - 1)
          BY <1>8, <3>1, <4>2
        <5>2. PICK c \in 1..(b - 1) : dsts[c].key = k /\ dsts[c].id = n
          BY <1>3, <3>1, <5>1
        <5>3. N + 1 \in 1..Len(M) /\ c \in 1..Len(dsts) /\ c <= b - 1
          BY <1>1, <1>4, <3>1, <5>2
        <5> QED
          BY <1>1, <5>2, <5>3 DEF Before
      <4> QED
        BY <4>1, <4>2
    <3>5. Covers(M, k, N, b - 1, g)
      BY <3>3, <3>4 DEF Covers
    <3> QED
      BY <3>1, <3>5
  <2> QED
    BY <1>1, <2>1, <2>2
<1>14. LogCovered(gen)'
  BY <1>1, <1>2, <1>12 DEF LogCovered, M
<1>15. LogOrdered'
  BY <1>13 DEF LogOrdered, M
<1> QED
  BY <1>2, <1>14, <1>15 DEF SettledGen

LEMMA NumberInvNext ==
  ASSUME NEW base \in [Keys -> Nat], TypeOK, ControlInv, NumberInv(base), Next
  PROVE  \E b \in [Keys -> Nat] : NumberInv(b)' /\ b = IF Log THEN gen ELSE base
<1>1. RecoveringGen' /\ PublishingGen(base)'
  BY RecoveringGenNext, PublishingGenNext DEF TypeOK, NumberInv
<1>2. CASE Log
  <2>1. LogCovered(gen)' /\ LogOrdered' /\ SettledGen(gen)'
    BY <1>2, NumberLog DEF TypeOK, NumberInv
  <2>2. gen' = gen /\ gen \in [Keys -> Nat] /\ pc' = "acking"
    BY <1>2 DEF Log, memory, TypeOK, MemoryType
  <2>3. PICK b \in [Keys -> Nat] : b = gen
    BY <2>2
  <2>4. LogCovered(b)' /\ SettledGen(b)' /\ PublishingGen(b)'
    BY <2>1, <2>2, <2>3 DEF LogCovered, SettledGen, PublishingGen
  <2> QED
    BY <1>1, <1>2, <2>1, <2>3, <2>4 DEF NumberInv
<1>3. CASE ~ Log
  <2>1. SettledGen(base)'
    BY <1>3, SettledGenNext DEF TypeOK, NumberInv
  <2>2. UNCHANGED log
    BY <1>3 DEF Next, Arrive, Recover, RecoverId, RecoverMessage, RecoverDone,
       Consume, TakeDuplicate, TakeNew, Publish, Ack, Deliver, Crash, Restart, disk
  <2>3. LogCovered(base)' /\ LogOrdered'
    BY <2>2 DEF NumberInv, LogCovered, LogOrdered
  <2> QED
    BY <1>1, <1>3, <2>1, <2>3 DEF NumberInv
<1> QED
  BY <1>2, <1>3

Numbered == \E base \in [Keys -> Nat] : NumberInv(base)

LEMMA NumberedStep ==
  ASSUME TypeOK, ControlInv, Numbered, [Next]_vars
  PROVE  Numbered'
<1>1. CASE Next
  BY <1>1, NumberInvNext DEF Numbered
<1>2. CASE UNCHANGED vars
  <2>1. PICK base \in [Keys -> Nat] : NumberInv(base)
    BY DEF Numbered
  <2>2. NumberInv(base)'
    BY <1>2, <2>1 DEF vars, NumberInv, LogCovered, LogOrdered, RecoveringGen,
       SettledGen, PublishingGen
  <2> QED
    BY <2>2 DEF Numbered
<1> QED
  BY <1>1, <1>2

LEMMA NumberedInit == Init => Numbered
<1>1. NoneYet(Keys) \in [Keys -> Nat]
  BY DEF NoneYet
<1> QED
  BY <1>1, NumberInit DEF Numbered

(* What covers the log on a key is what the log's ids on it are below.      *)
LEMMA LoggedIdsAre ==
  ASSUME LogType, NEW k \in Keys, NEW g \in Nat, Covers(log, k, Len(log), 0, g)
  PROVE  LoggedIds(k) = 0..(g - 1)
<1> DEFINE D == UNION { { log[i].dsts[j] : j \in 1..Len(log[i].dsts) }
                        : i \in 1..Len(log) }
<1>1. ASSUME NEW d \in D, d.key = k PROVE d.id \in 0..(g - 1)
  <2>1. PICK i \in 1..Len(log) : \E j \in 1..Len(log[i].dsts) : d = log[i].dsts[j]
    OBVIOUS
  <2>2. PICK j \in 1..Len(log[i].dsts) : d = log[i].dsts[j]
    BY <2>1
  <2>3. d.id \in Nat
    BY <2>2, RecordType
  <2>4. Before(i, j, Len(log), 0)
    BY DEF Before
  <2>5. d.id < g
    BY <1>1, <2>2, <2>4 DEF Covers
  <2> QED
    BY <2>3, <2>5
<1>2. ASSUME NEW n \in 0..(g - 1)
      PROVE  \E d \in D : d.key = k /\ d.id = n
  <2>1. PICK i \in 1..Len(log) : \E j \in 1..Len(log[i].dsts) :
          log[i].dsts[j].key = k /\ log[i].dsts[j].id = n
    BY DEF Covers
  <2>2. PICK j \in 1..Len(log[i].dsts) :
          log[i].dsts[j].key = k /\ log[i].dsts[j].id = n
    BY <2>1
  <2>3. log[i].dsts[j] \in D
    OBVIOUS
  <2> QED
    BY <2>2, <2>3
<1> HIDE DEF D
<1>3. { d.id : d \in { e \in D : e.key = k } } = 0..(g - 1)
  BY <1>1, <1>2
<1> QED
  BY <1>3 DEF D, LoggedIds

(* After any number of restarts the generator stands, for each key, right  *)
(* after the ids the recovery log holds, which are 0, 1, 2, ... with no    *)
(* gap: Worker.Recover (worker.go:185) rebuilds what NextId had reached.   *)
THEOREM GeneratorResumesAfterLog ==
  ASSUME TypedNode
  PROVE  Spec => []GeneratorResumes
<1>1. TypeOK /\ ControlInv /\ Numbered /\ [Next]_vars => Numbered'
  BY NumberedStep
<1>2. TypeOK /\ Numbered => GeneratorResumes
  <2> SUFFICES ASSUME TypeOK, Numbered, pc \in {"idle", "acking"}, NEW k \in Keys
               PROVE  LoggedIds(k) = 0..(gen[k] - 1)
    BY DEF GeneratorResumes
  <2>1. LogType /\ gen[k] \in Nat
    BY DEF TypeOK, MemoryType
  <2>2. Covers(log, k, Len(log), 0, gen[k])
    BY DEF Numbered, NumberInv, LogCovered, SettledGen
  <2> QED
    BY <2>1, <2>2, LoggedIdsAre
<1> QED
  BY TypeCorrect, NumberedInit, <1>1, <1>2, PTL DEF Spec
=============================================================================
