--------------------------- MODULE ResultsProofs ----------------------------
(***************************************************************************)
(* Proof that ResultsInvariant is inductive, for any feed that its nodes   *)
(* number as Results assumes, any clients and any number of crashes: the   *)
(* recovery file is true and holds no message twice, and the results the   *)
(* clients write down are whole unless a crash lost a record.              *)
(***************************************************************************)
EXTENDS ResultsInv, FiniteSetTheorems, SequenceTheorems, TLAPS

-----------------------------------------------------------------------------
(* Messages and records. *)

LEMMA FeedPosition ==
  /\ Len(Feed) \in Nat /\ DOMAIN Feed = 1..Len(Feed)
  /\ \A i \in 1..Len(Feed) : Feed[i] \in Range(Feed)
  /\ \A m \in Range(Feed) : \E i \in 1..Len(Feed) : m = Feed[i]
BY ResultsAssumption DEF Range

LEMMA ElementType ==
  ASSUME NEW S, NEW s \in Seq(S)
  PROVE  \A i \in 1..Len(s) : s[i] \in S
OBVIOUS

LEMMA MessageFields ==
  ASSUME NEW m \in Range(Feed)
  PROVE  /\ m.query \in Queries /\ m.id \in Nat /\ m.client \in Clients /\ m.part \in Nat
         /\ IsPart(m) => m.query \in Accumulating
         /\ ~ IsPart(m) /\ m.query \notin Simple => m.query \in Accumulating
<1>1. m \in [query : Queries, id : Nat, client : Clients, part : Nat]
  <2>1. Feed \in Seq([query : Queries, id : Nat, client : Clients, part : Nat])
    BY ResultsAssumption
  <2>2. \A i \in 1..Len(Feed) : Feed[i] \in [query : Queries, id : Nat, client : Clients, part : Nat]
    BY <2>1, ElementType
  <2> QED BY <2>2, FeedPosition
<1>2. m.query \in Queries /\ m.id \in Nat /\ m.client \in Clients /\ m.part \in Nat
  BY <1>1
<1> QED BY <1>2 DEF Queries, IsPart

LEMMA FeedFinite == IsFiniteSet(Range(Feed))
<1>1. IsFiniteSet(1..Len(Feed))
  BY FeedPosition, FS_Interval
<1>2. Feed \in Surjection(1..Len(Feed), Range(Feed))
  <2>1. Feed = [i \in 1..Len(Feed) |-> Feed[i]]
    BY ResultsAssumption
  <2>2. \A i \in 1..Len(Feed) : Feed[i] \in Range(Feed)
    BY FeedPosition
  <2>3. Feed \in [1..Len(Feed) -> Range(Feed)]
    BY <2>1, <2>2
  <2> QED BY <2>3, FeedPosition DEF Surjection
<1> QED BY <1>1, <1>2, FS_Surjection

LEMMA SameId ==
  ASSUME NEW m \in Range(Feed), NEW n \in Range(Feed), m.query = n.query, m.id = n.id
  PROVE  m = n
<1>1. PICK i \in 1..Len(Feed) : m = Feed[i]
  BY FeedPosition
<1>2. PICK j \in 1..Len(Feed) : n = Feed[j]
  BY FeedPosition
<1> QED BY <1>1, <1>2, FeedPosition, ResultsAssumption

LEMMA EndIsLast ==
  ASSUME NEW m \in Range(Feed), NEW n \in Range(Feed), ~ IsPart(m), m.query \in Accumulating,
         m.query = n.query, m.client = n.client
  PROVE  n.id <= m.id
<1>1. PICK i \in 1..Len(Feed) : m = Feed[i]
  BY FeedPosition
<1>2. PICK j \in 1..Len(Feed) : n = Feed[j]
  BY FeedPosition
<1> QED BY <1>1, <1>2, FeedPosition, ResultsAssumption

(* A message of an id below one in the queue was in the queue before it.   *)
LEMMA LowerIsBefore ==
  ASSUME NEW i \in 1..Len(Feed), NEW m \in Range(Feed), m.query = Feed[i].query,
         m.id < Feed[i].id
  PROVE  \E k \in 1..(i - 1) : Feed[k] = m
<1>1. PICK j \in 1..Len(Feed) : m = Feed[j]
  BY FeedPosition
<1>2. CASE i < j
  <2>1. Feed[j].id < Feed[i].id => \E k \in 1..(i - 1) : Feed[k] = Feed[j]
    BY <1>1, <1>2, FeedPosition, ResultsAssumption
  <2> QED BY <1>1, <2>1
<1>3. CASE j < i
  BY <1>1, <1>3
<1>4. CASE i = j
  BY <1>1, <1>4, MessageFields
<1> QED BY <1>2, <1>3, <1>4

LEMMA RecordFields ==
  ASSUME NEW r \in Records
  PROVE  \/ r.kind = "msg" /\ r.msg \in Range(Feed) /\ r = MsgRecord(r.msg)
         \/ /\ r.kind = "ack" /\ r.client \in Clients /\ r.query \in Queries
            /\ r = AckRecord(r.client, r.query)
BY DEF Records, MsgRecord, AckRecord

LEMMA RecordMade ==
  /\ \A m : MsgRecord(m).kind = "msg" /\ MsgRecord(m).msg = m
  /\ \A m \in Range(Feed) : MsgRecord(m) \in Records
  /\ \A c, q : /\ AckRecord(c, q).kind = "ack"
               /\ AckRecord(c, q).client = c /\ AckRecord(c, q).query = q
  /\ \A c \in Clients, q \in Queries : AckRecord(c, q) \in Records
<1>1. \A m \in Range(Feed) : MsgRecord(m) \in Records
  BY DEF Records
<1>2. \A c \in Clients, q \in Queries : AckRecord(c, q) \in Records
  BY DEF Records
<1> QED BY <1>1, <1>2 DEF MsgRecord, AckRecord

-----------------------------------------------------------------------------
(* The types. *)

ListenerTypes ==
  /\ acked \in 0..Len(Feed)
  /\ pc \in {"down", "recovering", "resending", "idle", "logging", "sending", "acking"}
  /\ dup \in [Queries -> Nat]
  /\ acc \in [Clients -> [Accumulating -> Seq(Nat)]]
  /\ pending \subseteq Pending

LogTypes ==
  /\ replayed \in 0..Len(file)
  /\ hand \subseteq Records /\ \A r, s \in hand : r = s
  /\ file \in Seq(Records)

SenderTypes ==
  /\ sender \in [Clients -> {"none", "waiting", "sent", "logging"}]
  /\ item \in [Clients -> SUBSET Reports] /\ socket \in [Clients -> SUBSET Reports]
  /\ got \in [Clients -> SUBSET Reports]
  /\ ackByte \in [Clients -> BOOLEAN]
  /\ state \in [Clients -> ClientStates]

OneByOne(c) ==
  /\ item[c] = {} <=> sender[c] \in {"none", "waiting"}
  /\ \A r, s \in item[c] : r = s
  /\ \A r, s \in socket[c] : r = s
  /\ \A r, s \in got[c] : r.query = s.query => r = s

HistoryTypes == lost \in BOOLEAN /\ crashes \in 0..MaxCrashes

LEMMA TypeParts ==
  TypeOK <=> /\ ListenerTypes /\ LogTypes /\ SenderTypes /\ HistoryTypes
             /\ \A c \in Clients : OneByOne(c)
BY DEF TypeOK, ListenerTypes, LogTypes, SenderTypes, HistoryTypes, OneByOne

LEMMA MessageIsInFeed ==
  ASSUME acked \in 0..Len(Feed), acked < Len(Feed)
  PROVE  Message \in Range(Feed)
BY FeedPosition DEF Message

LEMMA BodyType ==
  ASSUME NEW m \in Range(Feed), ~ IsPart(m), acc \in [Clients -> [Accumulating -> Seq(Nat)]]
  PROVE  Body(m) \in Seq(Nat)
<1>1. CASE m.query \in Simple
  BY <1>1, MessageFields DEF Body
<1>2. CASE m.query \notin Simple
  BY <1>2, MessageFields DEF Body
<1> QED BY <1>1, <1>2

(* One more part of a client's result.                                     *)
LEMMA PartAdded ==
  ASSUME acc \in [Clients -> [Accumulating -> Seq(Nat)]], NEW m \in Range(Feed), IsPart(m)
  PROVE  LET more == [acc EXCEPT ![m.client][m.query] = Append(@, m.part)]
         IN  /\ more \in [Clients -> [Accumulating -> Seq(Nat)]]
             /\ more[m.client][m.query] = Append(acc[m.client][m.query], m.part)
             /\ \A c \in Clients, q \in Accumulating :
                  c # m.client \/ q # m.query => more[c][q] = acc[c][q]
<1>1. m.client \in Clients /\ m.query \in Accumulating /\ m.part \in Nat
  BY MessageFields
<1>2. acc[m.client] \in [Accumulating -> Seq(Nat)] /\ acc[m.client][m.query] \in Seq(Nat)
  BY <1>1
<1>3. Append(acc[m.client][m.query], m.part) \in Seq(Nat)
  BY <1>1, <1>2
<1> QED BY <1>1, <1>2, <1>3

(* An ACK record clears the parts of its query.                            *)
LEMMA PartsCleared ==
  ASSUME acc \in [Clients -> [Accumulating -> Seq(Nat)]], NEW c \in Clients, NEW q \in Queries
  PROVE  LET left == [acc EXCEPT ![c] = [a \in Accumulating |-> IF a = q THEN << >> ELSE @[a]]]
         IN  /\ left \in [Clients -> [Accumulating -> Seq(Nat)]]
             /\ \A d \in Clients, a \in Accumulating :
                  d # c \/ a # q => left[d][a] = acc[d][a]
<1>1. acc[c] \in [Accumulating -> Seq(Nat)] /\ << >> \in Seq(Nat)
  OBVIOUS
<1>2. [a \in Accumulating |-> IF a = q THEN << >> ELSE acc[c][a]] \in [Accumulating -> Seq(Nat)]
  BY <1>1
<1> QED BY <1>1, <1>2

LEMMA InitTypes == Init => TypeOK
<1> SUFFICES ASSUME Init PROVE TypeOK
  OBVIOUS
<1>1. ListenerTypes
  <2>1. << >> \in Seq(Nat) /\ Len(Feed) \in Nat
    BY FeedPosition
  <2>2. NoParts \in [Clients -> [Accumulating -> Seq(Nat)]]
    BY <2>1 DEF NoParts
  <2> QED BY <2>1, <2>2 DEF Init, ListenerTypes
<1>2. LogTypes
  BY DEF Init, LogTypes
<1>3. SenderTypes
  BY DEF Init, SenderTypes, ClientStates
<1>4. \A c \in Clients : OneByOne(c)
  BY DEF Init, OneByOne
<1>5. HistoryTypes
  <2>1. lost \in BOOLEAN
    BY DEF Init
  <2>2. crashes \in 0..MaxCrashes
    BY ResultsAssumption DEF Init
  <2> QED BY <2>1, <2>2 DEF HistoryTypes
<1> QED BY <1>1, <1>2, <1>3, <1>4, <1>5, TypeParts

(* The listener's own variables.                                           *)
LEMMA ListenerTypesStep ==
  ASSUME ListenerTypes, LogTypes, Standing, [Next]_vars
  PROVE  ListenerTypes'
<1>1. ASSUME UNCHANGED <<acked, pc, dup, acc, pending>> PROVE ListenerTypes'
  BY <1>1 DEF ListenerTypes
<1>2. CASE RecoverRecord
  <2>1. file[replayed + 1] \in Records
    <3>1. replayed + 1 \in 1..Len(file) /\ file \in Seq(Records)
      BY <1>2 DEF RecoverRecord, LogTypes
    <3> QED BY <3>1, ElementType
  <2>2. acked' = acked /\ pc' = pc
    BY <1>2 DEF RecoverRecord
  <2>3. dup \in [Queries -> Nat] /\ acc \in [Clients -> [Accumulating -> Seq(Nat)]]
        /\ pending \subseteq Pending
    BY DEF ListenerTypes
  <2>4. /\ dup' \in [Queries -> Nat] /\ acc' \in [Clients -> [Accumulating -> Seq(Nat)]]
        /\ pending' \subseteq Pending
    <3> DEFINE r == file[replayed + 1]
    <3>1. CASE r.kind = "ack"
      <4>1. ReplayAck(r.client, r.query) /\ r.client \in Clients /\ r.query \in Queries
        BY <1>2, <2>1, <3>1, RecordFields DEF RecoverRecord
      <4> HIDE DEF r
      <4> QED BY <2>3, <4>1, PartsCleared DEF ReplayAck
    <3>2. CASE r.kind = "msg"
      <4>1. ReplayMessage(r.msg) /\ r.msg \in Range(Feed)
        BY <1>2, <2>1, <3>2, RecordFields DEF RecoverRecord
      <4> HIDE DEF r
      <4> DEFINE m == r.msg
      <4>2. m.query \in Queries /\ m.id + 1 \in Nat /\ m.client \in Clients
        BY <4>1, MessageFields
      <4>3. CASE IsPart(m)
        <5>1. /\ dup' = [dup EXCEPT ![m.query] = m.id + 1] /\ pending' = pending
              /\ acc' = [acc EXCEPT ![m.client][m.query] = Append(@, m.part)]
          BY <4>1, <4>3 DEF ReplayMessage
        <5>2. acc' \in [Clients -> [Accumulating -> Seq(Nat)]]
          BY <2>3, <4>1, <4>3, <5>1, PartAdded
        <5> QED BY <2>3, <4>2, <5>1, <5>2
      <4>4. CASE ~ IsPart(m)
        <5>1. [client |-> m.client, query |-> m.query, body |-> Body(m)] \in Pending
          BY <2>3, <4>1, <4>2, <4>4, BodyType DEF Pending
        <5> QED BY <2>3, <4>1, <4>2, <4>4, <5>1 DEF ReplayMessage
      <4> QED BY <4>3, <4>4
    <3> QED BY <2>1, <3>1, <3>2, RecordFields
  <2> QED BY <2>2, <2>4 DEF ListenerTypes
<1>3. CASE Recovered
  BY <1>3 DEF Recovered, ListenerTypes
<1>4. ASSUME NEW p \in pending, Resend(p) PROVE ListenerTypes'
  BY <1>4 DEF Resend, ListenerTypes
<1>5. CASE Resent
  BY <1>5 DEF Resent, ListenerTypes
<1>6. CASE Take
  <2>1. Message.id + 1 \in Nat
    <3>1. Message \in Range(Feed)
      BY <1>6, MessageIsInFeed DEF Take, ListenerTypes
    <3> QED BY <3>1, MessageFields
  <2>2. dup' \in [Queries -> Nat]
    BY <1>6, <2>1 DEF Take, ListenerTypes
  <2> QED BY <1>6, <2>2 DEF Take, ListenerTypes
<1>7. CASE LogMessage
  <2>1. Message \in Range(Feed)
    BY <1>7, MessageIsInFeed DEF LogMessage, ListenerTypes, Standing
  <2>2. acc' \in [Clients -> [Accumulating -> Seq(Nat)]]
    BY <1>7, <2>1, PartAdded DEF LogMessage, ListenerTypes
  <2> QED BY <1>7, <2>2 DEF LogMessage, ListenerTypes
<1>8. CASE SendResult
  BY <1>8 DEF SendResult, ListenerTypes
<1>9. CASE AckMessage
  BY <1>9, FeedPosition DEF AckMessage, ListenerTypes, Standing
<1>10. CASE Restart
  BY <1>10 DEF Restart, ListenerTypes
<1>11. CASE WriteRecord
  BY <1>1, <1>11 DEF WriteRecord, listener
<1>12. ASSUME NEW c \in Clients, Sender(c) \/ Client(c) PROVE ListenerTypes'
  BY <1>1, <1>12 DEF Sender, Client, ReadAck, LogAck, Connect, DialFails, ReadResult, listener
<1>13. CASE Crash
  <2>1. << >> \in Seq(Nat)
    OBVIOUS
  <2>2. NoParts \in [Clients -> [Accumulating -> Seq(Nat)]]
    BY <2>1 DEF NoParts
  <2> QED BY <1>13, <2>2 DEF Crash, ListenerTypes
<1>14. CASE UNCHANGED vars
  BY <1>1, <1>14 DEF vars
<1> QED BY <1>2, <1>3, <1>4, <1>5, <1>6, <1>7, <1>8, <1>9, <1>10, <1>11, <1>12, <1>13, <1>14
        DEF Next, Listen

(* The recovery file, and the record on its way to it.                     *)
LEMMA LogTypesStep ==
  ASSUME ListenerTypes, LogTypes, SenderTypes, \A c \in Clients : OneByOne(c), Standing, [Next]_vars
  PROVE  LogTypes'
<1>1. ASSUME UNCHANGED <<replayed, hand, file>> PROVE LogTypes'
  BY <1>1 DEF LogTypes
<1>2. Len(file) \in Nat
  BY DEF LogTypes
<1>3. CASE RecoverRecord
  BY <1>2, <1>3 DEF RecoverRecord, LogTypes
<1>4. CASE Recovered
  BY <1>2, <1>4 DEF Recovered, LogTypes
<1>5. CASE Resent \/ Take \/ SendResult \/ AckMessage \/ Restart
  BY <1>1, <1>5 DEF Resent, Take, SendResult, AckMessage, Restart
<1>6. ASSUME NEW p \in pending, Resend(p) PROVE LogTypes'
  BY <1>1, <1>6 DEF Resend
<1>7. CASE LogMessage
  <2>1. MsgRecord(Message) \in Records
    BY <1>7, MessageIsInFeed, RecordMade DEF LogMessage, ListenerTypes, Standing
  <2>2. hand' = {MsgRecord(Message)} /\ UNCHANGED <<replayed, file>>
    BY <1>7 DEF LogMessage
  <2> QED BY <2>1, <2>2 DEF LogTypes
<1>8. CASE WriteRecord
  <2>1. PICK r \in hand : file' = Append(file, r)
    BY <1>8 DEF WriteRecord
  <2>2. /\ r \in Records /\ file \in Seq(Records) /\ replayed' = replayed
        /\ replayed \in 0..Len(file) /\ hand' = {}
    BY <1>8 DEF WriteRecord, LogTypes, listener
  <2>3. file' \in Seq(Records) /\ Len(file') = Len(file) + 1
    BY <2>1, <2>2
  <2> QED BY <1>2, <2>2, <2>3 DEF LogTypes
<1>9. ASSUME NEW c \in Clients, LogAck(c) PROVE LogTypes'
  <2>1. hand' = {AckRecord(c, r.query) : r \in item[c]} /\ UNCHANGED <<replayed, file>>
    BY <1>9 DEF LogAck, listener
  <2>2. item[c] \subseteq Reports /\ \A r, s \in item[c] : r = s
    BY DEF SenderTypes, OneByOne
  <2>3. \A r \in item[c] : r.query \in Queries
    BY <2>2 DEF Reports
  <2>4. hand' \subseteq Records
    BY <2>1, <2>3, RecordMade
  <2>5. \A r, s \in hand' : r = s
    BY <2>1, <2>2
  <2> QED BY <2>1, <2>4, <2>5 DEF LogTypes
<1>10. ASSUME NEW c \in Clients, ReadAck(c) \/ Client(c) PROVE LogTypes'
  BY <1>1, <1>10 DEF Client, ReadAck, Connect, DialFails, ReadResult, listener
<1>11. CASE Crash
  BY <1>2, <1>11 DEF Crash, LogTypes
<1>12. CASE UNCHANGED vars
  BY <1>1, <1>12 DEF vars
<1> QED BY <1>3, <1>4, <1>5, <1>6, <1>7, <1>8, <1>9, <1>10, <1>11, <1>12 DEF Next, Listen, Sender

(* A result is handed to the sender of a client.                           *)
LEMMA HandedOver ==
  ASSUME SenderTypes, \A c \in Clients : OneByOne(c), NEW c \in Clients, NEW r \in Reports,
         HandOver(c, r), UNCHANGED <<ackByte, state, got>>
  PROVE  SenderTypes' /\ \A d \in Clients : OneByOne(d)'
<1>1. SenderTypes'
  BY DEF HandOver, SenderTypes
<1>2. ASSUME NEW d \in Clients PROVE OneByOne(d)'
  <2>1. CASE d = c
    BY <2>1 DEF HandOver, SenderTypes, OneByOne
  <2>2. CASE d # c
    BY <2>2 DEF HandOver, SenderTypes, OneByOne
  <2> QED BY <2>1, <2>2
<1> QED BY <1>1, <1>2

LEMMA SenderTypesStep ==
  ASSUME ListenerTypes, SenderTypes, \A c \in Clients : OneByOne(c), Standing,
         \A c \in Clients : Delivery(c), [Next]_vars
  PROVE  SenderTypes' /\ \A c \in Clients : OneByOne(c)'
<1>1. ASSUME UNCHANGED <<senders, links, clients>>
      PROVE  SenderTypes' /\ \A c \in Clients : OneByOne(c)'
  BY <1>1 DEF SenderTypes, OneByOne, senders, links, clients
<1>2. CASE RecoverRecord \/ Recovered \/ Resent \/ Take \/ LogMessage \/ AckMessage \/ Restart
           \/ WriteRecord
  BY <1>1, <1>2 DEF RecoverRecord, Recovered, Resent, Take, LogMessage, AckMessage, Restart,
                    WriteRecord
<1>3. ASSUME NEW p \in pending, Resend(p)
      PROVE  SenderTypes' /\ \A c \in Clients : OneByOne(c)'
  <2>1. p \in Pending
    BY DEF ListenerTypes
  <2>2. p.client \in Clients /\ Result(p.query, p.body) \in Reports
    BY <2>1 DEF Pending, Reports, Result
  <2> QED BY <1>3, <2>2, HandedOver DEF Resend, clients
<1>4. CASE SendResult
  <2>1. Message \in Range(Feed) /\ ~ IsPart(Message)
    BY <1>4, MessageIsInFeed DEF SendResult, Standing, ListenerTypes
  <2>2. Message.client \in Clients /\ Message.query \in Queries /\ Body(Message) \in Seq(Nat)
    BY <2>1, MessageFields, BodyType DEF ListenerTypes
  <2>3. Result(Message.query, Body(Message)) \in Reports
    BY <2>2 DEF Result, Reports
  <2> QED BY <1>4, <2>2, <2>3, HandedOver DEF SendResult, clients
<1>5. ASSUME NEW c \in Clients, ReadAck(c)
      PROVE  SenderTypes' /\ \A d \in Clients : OneByOne(d)'
  <2>1. SenderTypes'
    BY <1>5 DEF ReadAck, SenderTypes, clients
  <2>2. \A d \in Clients : OneByOne(d)'
    BY <1>5 DEF ReadAck, SenderTypes, OneByOne, clients
  <2> QED BY <2>1, <2>2
<1>6. ASSUME NEW c \in Clients, LogAck(c)
      PROVE  SenderTypes' /\ \A d \in Clients : OneByOne(d)'
  <2>1. SenderTypes'
    BY <1>6 DEF LogAck, SenderTypes, clients, links
  <2>2. \A d \in Clients : OneByOne(d)'
    BY <1>6 DEF LogAck, SenderTypes, OneByOne, clients, links
  <2> QED BY <2>1, <2>2
<1>7. ASSUME NEW c \in Clients, Connect(c)
      PROVE  SenderTypes' /\ \A d \in Clients : OneByOne(d)'
  <2>1. SenderTypes'
    BY <1>7 DEF Connect, SenderTypes, ClientStates
  <2>2. \A d \in Clients : OneByOne(d)'
    <3>1. item[c] = {}
      BY <1>7 DEF Connect, Delivery, OneByOne
    <3> QED BY <1>7, <3>1 DEF Connect, SenderTypes, OneByOne
  <2> QED BY <2>1, <2>2
<1>8. ASSUME NEW c \in Clients, ReadResult(c)
      PROVE  SenderTypes' /\ \A d \in Clients : OneByOne(d)'
  <2>1. PICK r \in socket[c] :
          got' = [got EXCEPT ![c] = IF Has(c, r.query) THEN @ ELSE @ \union {r}]
    BY <1>8 DEF ReadResult
  <2>2. r \in Reports /\ got[c] \subseteq Reports
    BY DEF SenderTypes
  <2>3. got' \in [Clients -> SUBSET Reports]
    BY <2>1, <2>2 DEF SenderTypes
  <2>4. SenderTypes'
    BY <1>8, <2>3 DEF ReadResult, SenderTypes, ClientStates, senders
  <2>5. ASSUME NEW d \in Clients PROVE OneByOne(d)'
    <3>1. \A r1, s \in got'[d] : r1.query = s.query => r1 = s
      BY <2>1 DEF SenderTypes, OneByOne, Has
    <3>2. item' = item /\ sender' = sender /\ socket' = [socket EXCEPT ![c] = {}]
      BY <1>8 DEF ReadResult, senders
    <3>3. \A r1, s \in socket'[d] : r1 = s
      BY <3>2 DEF SenderTypes, OneByOne
    <3> QED BY <3>1, <3>2, <3>3 DEF OneByOne
  <2> QED BY <2>4, <2>5
<1>9. CASE Crash
  <2>1. SenderTypes'
    BY <1>9 DEF Crash, SenderTypes, ClientStates
  <2>2. \A d \in Clients : OneByOne(d)'
    BY <1>9 DEF Crash, SenderTypes, OneByOne
  <2> QED BY <2>1, <2>2
<1>10. CASE UNCHANGED vars
  BY <1>1, <1>10 DEF vars, senders, links, clients
<1>11. ASSUME NEW c \in Clients, DialFails(c)
       PROVE  SenderTypes' /\ \A d \in Clients : OneByOne(d)'
  <2>1. SenderTypes'
    BY <1>11 DEF DialFails, SenderTypes, ClientStates, senders, links
  <2>2. \A d \in Clients : OneByOne(d)'
    BY <1>11 DEF DialFails, OneByOne, senders, links
  <2> QED BY <2>1, <2>2
<1> QED BY <1>2, <1>3, <1>4, <1>5, <1>6, <1>7, <1>8, <1>9, <1>10, <1>11
        DEF Next, Listen, Sender, Client

LEMMA HistoryTypesStep ==
  ASSUME HistoryTypes, [Next]_vars
  PROVE  HistoryTypes'
<1>1. CASE UNCHANGED history
  BY <1>1 DEF HistoryTypes, history
<1>2. CASE Crash
  <2>1. lost' \in BOOLEAN
    BY <1>2 DEF Crash
  <2>2. crashes' \in 0..MaxCrashes
    BY <1>2, ResultsAssumption DEF Crash, HistoryTypes
  <2> QED BY <2>1, <2>2 DEF HistoryTypes
<1>3. UNCHANGED history \/ Crash
  BY DEF Next, Listen, Sender, Client, RecoverRecord, Recovered, Resend, Resent, Take, LogMessage,
         SendResult, AckMessage, Restart, WriteRecord, ReadAck, LogAck, Connect, DialFails,
         ReadResult, vars, history
<1> QED BY <1>1, <1>2, <1>3

LEMMA TypeStep ==
  ASSUME TypeOK, Standing, \A c \in Clients : Delivery(c), [Next]_vars
  PROVE  TypeOK'
<1>1. ListenerTypes /\ LogTypes /\ SenderTypes /\ HistoryTypes /\ \A c \in Clients : OneByOne(c)
  BY TypeParts
<1>2. ListenerTypes' /\ LogTypes' /\ SenderTypes' /\ HistoryTypes'
      /\ \A c \in Clients : OneByOne(c)'
  BY <1>1, ListenerTypesStep, LogTypesStep, SenderTypesStep, HistoryTypesStep
<1> QED BY <1>2 DEF TypeOK, ListenerTypes, LogTypes, SenderTypes, HistoryTypes, OneByOne

-----------------------------------------------------------------------------
(* What a step does to the records that are logged and known.              *)

(* A record of the file, and what is known while all of it is.             *)
LEMMA FileRecords ==
  ASSUME LogTypes
  PROVE  /\ Len(file) \in Nat /\ DOMAIN file = 1..Len(file)
         /\ \A i \in 1..Len(file) : file[i] \in Records /\ file[i] \in Range(file)
         /\ \A r \in Range(file) : \E i \in 1..Len(file) : r = file[i]
         /\ Live => Known = Logged
         /\ Known \subseteq Logged
<1>1. Len(file) \in Nat /\ DOMAIN file = 1..Len(file) /\ replayed \in 0..Len(file)
  BY DEF LogTypes
<1>2. \A i \in 1..Len(file) : file[i] \in Records
  BY ElementType DEF LogTypes
<1>3. Range(file) = {file[i] : i \in 1..Len(file)}
  BY <1>1 DEF Range
<1>4. Live => Known = Logged
  BY <1>3 DEF Known, Logged
<1>5. Known \subseteq Logged
  BY <1>1, <1>3 DEF Known, Logged
<1> QED BY <1>1, <1>2, <1>3, <1>4, <1>5

LEMMA RecordedMessage ==
  ASSUME NEW R, NEW m \in Range(Feed), MsgRecord(m) \in R
  PROVE  m \in MessagesOf(R)
BY DEF MessagesOf

LEMMA MoreMessages ==
  ASSUME NEW R
  PROVE  /\ \A m \in Range(Feed) : MessagesOf(R \union {MsgRecord(m)}) = MessagesOf(R) \union {m}
         /\ \A c, q : MessagesOf(R \union {AckRecord(c, q)}) = MessagesOf(R)
<1>1. ASSUME NEW m, NEW n, MsgRecord(m) = MsgRecord(n) PROVE m = n
  BY <1>1, RecordMade
<1>2. ASSUME NEW m, NEW c, NEW q PROVE MsgRecord(m) # AckRecord(c, q)
  BY RecordMade
<1> QED BY <1>1, <1>2 DEF MessagesOf

(* Steps that touch neither the file nor what is known of it.              *)
Aside ==
  \/ Recovered \/ (\E p \in pending : Resend(p)) \/ Resent \/ Take \/ SendResult \/ AckMessage
  \/ \E c \in Clients : ReadAck(c) \/ Client(c)
  \/ UNCHANGED vars

LEMMA AsideKeeps ==
  ASSUME LogTypes, Aside
  PROVE  file' = file /\ hand' = hand /\ Known' = Known /\ Logged' = Logged
<1>1. file' = file /\ hand' = hand
  BY DEF Aside, Recovered, Resend, Resent, Take, SendResult, AckMessage, ReadAck, Client,
         Connect, DialFails, ReadResult, vars
<1>2. (IF Live THEN Len(file) ELSE replayed)' = IF Live THEN Len(file) ELSE replayed
  <2>1. CASE Recovered
    BY <2>1 DEF Recovered, Live
  <2>2. CASE ~ Recovered
    <3>1. Live' = Live /\ replayed' = replayed
      BY <2>2 DEF Aside, Recovered, Resend, Resent, Take, SendResult, AckMessage, ReadAck, Client,
                  Connect, DialFails, ReadResult, vars, listener, Live
    <3> QED BY <1>1, <3>1
  <2> QED BY <2>1, <2>2
<1> QED BY <1>1, <1>2 DEF Known, Logged

LEMMA StepKinds ==
  ASSUME [Next]_vars
  PROVE  \/ Aside \/ RecoverRecord \/ LogMessage \/ Restart \/ WriteRecord
         \/ (\E c \in Clients : LogAck(c)) \/ Crash
BY DEF Next, Listen, Sender, Aside

LEMMA LogMessageKnows ==
  ASSUME LogTypes, LogMessage
  PROVE  /\ file' = file /\ hand = {} /\ hand' = {MsgRecord(Message)}
         /\ Known' = Known \union {MsgRecord(Message)}
         /\ Logged' = Logged \union {MsgRecord(Message)}
<1>1. /\ file' = file /\ hand = {} /\ hand' = {MsgRecord(Message)} /\ Live /\ Live'
  BY DEF LogMessage, Live
<1> QED BY <1>1 DEF Known, Logged

LEMMA LogAckKnows ==
  ASSUME LogTypes, SenderTypes, Standing, \A c \in Clients : OneByOne(c),
         NEW c \in Clients, LogAck(c)
  PROVE  \E r \in item[c] :
           /\ item[c] = {r} /\ r \in Reports
           /\ file' = file /\ hand = {} /\ hand' = {AckRecord(c, r.query)}
           /\ Known' = Known \union {AckRecord(c, r.query)}
           /\ Logged' = Logged \union {AckRecord(c, r.query)}
           /\ Live /\ Live' /\ replayed' = replayed
<1>1. PICK r \in item[c] : item[c] = {r}
  BY DEF LogAck, OneByOne
<1>2. r \in Reports
  BY DEF SenderTypes
<1>3. /\ file' = file /\ hand = {} /\ hand' = {AckRecord(c, r.query)} /\ Live /\ Live'
      /\ replayed' = replayed
  BY <1>1 DEF LogAck, Standing, Live, listener
<1>4. Known' = Known \union {AckRecord(c, r.query)} /\ Logged' = Logged \union {AckRecord(c, r.query)}
  BY <1>3 DEF Known, Logged
<1> QED BY <1>1, <1>2, <1>3, <1>4

(* The record in hand gets to the end of the file.                         *)
LEMMA WriteRecordKnows ==
  ASSUME LogTypes, Standing, WriteRecord
  PROVE  \E r \in hand :
           /\ hand = {r} /\ hand' = {} /\ Len(file') = Len(file) + 1
           /\ file'[Len(file) + 1] = r /\ \A i \in 1..Len(file) : file'[i] = file[i]
           /\ Known' = Known /\ Logged' = Logged /\ Range(file') = Logged
           /\ Live /\ Live' /\ UNCHANGED <<pc, replayed>>
<1>1. PICK r \in hand : file' = Append(file, r)
  BY DEF WriteRecord
<1>2. hand = {r} /\ r \in Records /\ file \in Seq(Records) /\ Len(file) \in Nat
  BY DEF LogTypes
<1>3. /\ Len(file') = Len(file) + 1 /\ file'[Len(file) + 1] = r
      /\ file' \in Seq(Records)
      /\ \A i \in 1..Len(file) : file'[i] = file[i]
  BY <1>1, <1>2, AppendProperties
<1>4. hand' = {} /\ Live /\ Live' /\ UNCHANGED <<pc, replayed>>
  BY <1>2 DEF WriteRecord, Standing, Live, listener
<1>5. DOMAIN file = 1..Len(file) /\ DOMAIN file' = 1..(Len(file) + 1)
  BY <1>1, <1>2, <1>3
<1>6. Range(file') = Range(file) \union {r}
  BY <1>2, <1>3, <1>5 DEF Range
<1>7. Known = Range(file) \union hand /\ Known' = Range(file') \union hand'
  BY <1>2, <1>3, <1>4, <1>5 DEF Known, Range
<1> QED BY <1>2, <1>3, <1>4, <1>6, <1>7 DEF Logged

LEMMA RecoverKnows ==
  ASSUME LogTypes, Standing, RecoverRecord
  PROVE  /\ hand = {} /\ hand' = {} /\ file' = file /\ replayed + 1 \in 1..Len(file)
         /\ Known = {file[i] : i \in 1..replayed}
         /\ Known' = Known \union {file[replayed + 1]} /\ Logged' = Logged
         /\ ~ Live /\ pc' = pc /\ acked' = acked
<1>1. /\ hand = {} /\ hand' = {} /\ file' = file /\ replayed' = replayed + 1 /\ pc' = pc
      /\ ~ Live /\ ~ Live' /\ replayed \in 0..Len(file) /\ replayed < Len(file) /\ Len(file) \in Nat
      /\ acked' = acked
  BY DEF RecoverRecord, Standing, Live, LogTypes
<1>2. replayed + 1 \in 1..Len(file) /\ 1..(replayed + 1) = (1..replayed) \union {replayed + 1}
  BY <1>1
<1> QED BY <1>1, <1>2 DEF Known, Logged

LEMMA CrashKnows ==
  ASSUME LogTypes, Standing, Crash \/ Restart
  PROVE  hand' = {} /\ file' = file /\ Known' = {} /\ Logged' = Range(file)
         /\ replayed' = 0 /\ acked' = acked
<1>1. /\ hand' = {} /\ file' = file /\ replayed' = 0 /\ ~ Live' /\ acked' = acked
  BY DEF Crash, Restart, Standing, Live
<1> QED BY <1>1 DEF Known, Logged

-----------------------------------------------------------------------------
(* Where the listener stands, and a delivery to a client.                  *)

LEMMA StandingStep ==
  ASSUME TypeOK, Standing, \A c \in Clients : Delivery(c), [Next]_vars
  PROVE  Standing'
<1>0. ListenerTypes /\ LogTypes /\ SenderTypes /\ \A c \in Clients : OneByOne(c)
  BY TypeParts
<1>1. pc' \in {"logging", "sending", "acking"} => acked' < Len(Feed)
  BY DEF Next, Listen, Sender, Client, RecoverRecord, Recovered, Resend, Resent, Take, LogMessage,
         SendResult, AckMessage, Restart, WriteRecord, ReadAck, LogAck, Connect, DialFails,
         ReadResult, Crash, vars, listener, Standing
<1>2. pc' # "recovering" => replayed' = 0
  BY DEF Next, Listen, Sender, Client, RecoverRecord, Recovered, Resend, Resent, Take, LogMessage,
         SendResult, AckMessage, Restart, WriteRecord, ReadAck, LogAck, Connect, DialFails,
         ReadResult, Crash, vars, listener, Standing
<1>3. ~ Live' => hand' = {}
  BY DEF Next, Listen, Sender, Client, RecoverRecord, Recovered, Resend, Resent, Take, LogMessage,
         SendResult, AckMessage, Restart, WriteRecord, ReadAck, LogAck, Connect, DialFails,
         ReadResult, Crash, vars, listener, Standing, Live
<1>4. ~ Live' => \A c \in Clients : sender'[c] \in {"none", "waiting"}
  <2>1. CASE UNCHANGED sender
    BY <2>1 DEF Next, Listen, Sender, Client, RecoverRecord, Recovered, Resend, Resent, Take,
                LogMessage, SendResult, AckMessage, Restart, WriteRecord, ReadAck, LogAck,
                Connect, DialFails, ReadResult, Crash, vars, listener, Standing, Live
  <2>2. CASE Crash
    BY <2>2 DEF Crash
  <2>3. ASSUME NEW c \in Clients, Connect(c) \/ ReadAck(c) \/ LogAck(c)
        PROVE  ~ Live' => \A d \in Clients : sender'[d] \in {"none", "waiting"}
    BY <1>0, <2>3 DEF Connect, ReadAck, LogAck, listener, Standing, Live, SenderTypes
  <2>4. CASE SendResult \/ \E p \in pending : Resend(p)
    BY <2>4 DEF SendResult, Resend, Live
  <2>5. \/ UNCHANGED sender \/ Crash \/ SendResult \/ (\E p \in pending : Resend(p))
        \/ \E c \in Clients : Connect(c) \/ ReadAck(c) \/ LogAck(c)
    BY DEF Next, Listen, Sender, Client, RecoverRecord, Recovered, Resent, Take, LogMessage,
           AckMessage, Restart, WriteRecord, DialFails, ReadResult, vars, senders
  <2> QED BY <2>1, <2>2, <2>3, <2>4, <2>5
<1>5. pc' = "down" => dup' = [q \in Queries |-> 0] /\ acc' = NoParts /\ pending' = {}
  BY DEF Next, Listen, Sender, Client, RecoverRecord, Recovered, Resend, Resent, Take, LogMessage,
         SendResult, AckMessage, Restart, WriteRecord, ReadAck, LogAck, Connect, DialFails,
         ReadResult, Crash, vars, listener, Standing
<1>6. pc' \in {"down", "idle", "logging", "sending", "acking"} => pending' = {}
  BY DEF Next, Listen, Sender, Client, RecoverRecord, Recovered, Resend, Resent, Take, LogMessage,
         SendResult, AckMessage, Restart, WriteRecord, ReadAck, LogAck, Connect, DialFails,
         ReadResult, Crash, vars, listener, Standing
<1>7. pc' = "sending" => ~ IsPart(Message') /\ MsgRecord(Message') \in Logged'
  <2>1. CASE LogMessage
    <3>1. Message' = Message
      BY <2>1 DEF LogMessage, Message
    <3> QED BY <1>0, <2>1, <3>1, LogMessageKnows DEF LogMessage
  <2>2. CASE ~ LogMessage
    <3>1. SUFFICES ASSUME pc' = "sending" PROVE ~ IsPart(Message') /\ MsgRecord(Message') \in Logged'
      OBVIOUS
    <3>2. pc = "sending" /\ acked' = acked
      BY <2>2, <3>1 DEF Next, Listen, Sender, Client, RecoverRecord, Recovered, Resend, Resent, Take,
         LogMessage, SendResult, AckMessage, Restart, WriteRecord, ReadAck, LogAck, Connect,
         DialFails, ReadResult, Crash, vars, listener
    <3>3. Logged \subseteq Logged'
      <4>1. CASE Aside
        BY <1>0, <4>1, AsideKeeps
      <4>2. CASE WriteRecord
        BY <1>0, <4>2, WriteRecordKnows
      <4>3. ASSUME NEW c \in Clients, LogAck(c) PROVE Logged \subseteq Logged'
        BY <1>0, <4>3, LogAckKnows
      <4>4. ~ (RecoverRecord \/ Restart \/ Crash)
        BY <3>1 DEF RecoverRecord, Restart, Crash
      <4> QED BY <2>2, <4>1, <4>2, <4>3, <4>4, StepKinds
    <3> QED BY <3>2, <3>3 DEF Standing, Message
  <2> QED BY <2>1, <2>2
<1> QED BY <1>1, <1>2, <1>3, <1>4, <1>5, <1>6, <1>7 DEF Standing, Live

(* What the delivery to a client depends on.                               *)
LEMMA DeliveryKept ==
  ASSUME NEW c \in Clients, Delivery(c),
         sender'[c] = sender[c], item'[c] = item[c], socket'[c] = socket[c],
         ackByte'[c] = ackByte[c], state'[c] = state[c], got'[c] = got[c]
  PROVE  Delivery(c)'
BY DEF Delivery, Has

LEMMA DeliveryOfHandOver ==
  ASSUME TypeOK, NEW c \in Clients, Delivery(c), NEW d \in Clients, NEW r, HandOver(d, r),
         UNCHANGED <<ackByte, state, got>>
  PROVE  Delivery(c)'
<1>0. SenderTypes
  BY TypeParts
<1>1. CASE c = d
  <2>1. /\ sender[c] = "waiting" /\ sender'[c] = "sent" /\ socket'[c] = {r} /\ item'[c] = {r}
        /\ ackByte'[c] = ackByte[c] /\ state'[c] = state[c]
    BY <1>0, <1>1 DEF HandOver, SenderTypes
  <2> QED BY <2>1 DEF Delivery
<1>2. CASE c # d
  <2>1. sender'[c] = sender[c] /\ socket'[c] = socket[c] /\ item'[c] = item[c]
    BY <1>0, <1>2 DEF HandOver, SenderTypes
  <2> QED BY <2>1, DeliveryKept
<1> QED BY <1>1, <1>2

LEMMA DeliveryStep ==
  ASSUME TypeOK, Standing, \A c \in Clients : Delivery(c), [Next]_vars, NEW c \in Clients
  PROVE  Delivery(c)'
<1>0. SenderTypes /\ ListenerTypes /\ OneByOne(c) /\ Delivery(c)
  BY TypeParts
<1>1. CASE UNCHANGED <<senders, links, clients>>
  BY <1>0, <1>1, DeliveryKept DEF senders, links, clients
<1>2. ASSUME NEW p \in pending, Resend(p) PROVE Delivery(c)'
  <2>1. p.client \in Clients
    BY <1>0 DEF ListenerTypes, Pending
  <2> QED BY <1>0, <1>2, <2>1, DeliveryOfHandOver DEF Resend, clients
<1>3. CASE SendResult
  <2>1. Message.client \in Clients
    BY <1>0, <1>3, MessageIsInFeed, MessageFields DEF SendResult, Standing, ListenerTypes
  <2> QED BY <1>0, <1>3, <2>1, DeliveryOfHandOver DEF SendResult, clients
<1>4. ASSUME NEW d \in Clients, d # c, Sender(d) \/ Client(d) PROVE Delivery(c)'
  <2>1. /\ sender'[c] = sender[c] /\ item'[c] = item[c] /\ socket'[c] = socket[c]
        /\ ackByte'[c] = ackByte[c] /\ state'[c] = state[c] /\ got'[c] = got[c]
    BY <1>0, <1>4 DEF Sender, Client, ReadAck, LogAck, Connect, DialFails, ReadResult,
                      SenderTypes, links, clients, senders
  <2> QED BY <1>0, <2>1, DeliveryKept
<1>5. CASE ReadAck(c)
  <2>1. /\ sender[c] = "sent" /\ ackByte[c] /\ ~ ackByte'[c] /\ sender'[c] = "logging"
        /\ item' = item /\ socket' = socket /\ state' = state /\ got' = got
    BY <1>0, <1>5 DEF ReadAck, SenderTypes, clients
  <2> QED BY <1>0, <2>1 DEF Delivery, Has
<1>6. CASE LogAck(c)
  <2>1. /\ sender[c] = "logging" /\ ackByte' = ackByte /\ sender'[c] = "waiting"
        /\ item'[c] = {} /\ socket' = socket /\ state' = state /\ got' = got
    BY <1>0, <1>6 DEF LogAck, SenderTypes, clients, links
  <2> QED BY <1>0, <2>1 DEF Delivery
<1>7. CASE Connect(c)
  <2>1. /\ state[c] \in {"new", "away"} /\ state'[c] = "connected" /\ sender'[c] = "waiting"
        /\ socket'[c] = {} /\ ackByte' = ackByte
    BY <1>0, <1>7 DEF Connect, SenderTypes
  <2> QED BY <1>0, <2>1 DEF Delivery
<1>10. CASE DialFails(c)
  <2>1. /\ state[c] = "new" /\ state'[c] = "failed"
        /\ sender' = sender /\ item' = item /\ socket' = socket /\ ackByte' = ackByte /\ got' = got
    BY <1>0, <1>10 DEF DialFails, SenderTypes, senders, links
  <2> QED BY <1>0, <2>1 DEF Delivery, Has
<1>8. CASE ReadResult(c)
  <2>1. PICK r \in socket[c] :
          got' = [got EXCEPT ![c] = IF Has(c, r.query) THEN @ ELSE @ \union {r}]
    BY <1>8 DEF ReadResult
  <2>2. Has(c, r.query)' /\ \A q : Has(c, q) => Has(c, q)'
    BY <1>0, <2>1 DEF SenderTypes, Has
  <2>3. /\ state[c] \in {"connected", "away"} /\ socket'[c] = {} /\ sender' = sender /\ item' = item
        /\ ackByte'[c] = (state[c] = "connected")
        /\ state'[c] \in {state[c], "finished"}
    BY <1>0, <1>8 DEF ReadResult, SenderTypes, senders
  <2>4. sender[c] \in {"none", "sent"}
    BY <1>0, <2>1 DEF Delivery, SenderTypes
  <2>5. CASE sender[c] = "none"
    BY <1>0, <2>3, <2>5 DEF Delivery
  <2>6. CASE sender[c] = "sent"
    <3>1. \A s \in item[c] : Has(c, s.query)'
      BY <1>0, <2>1, <2>2, <2>6 DEF Delivery, OneByOne
    <3>2. state'[c] \in {"connected", "finished"}
      BY <1>0, <2>3, <2>6 DEF Delivery
    <3> QED BY <2>3, <2>6, <3>1, <3>2 DEF Delivery, Has
  <2> QED BY <2>4, <2>5, <2>6
<1>9. CASE Crash
  BY <1>0, <1>9 DEF Crash, Delivery, SenderTypes
<1> QED BY <1>1, <1>2, <1>3, <1>4, <1>5, <1>6, <1>7, <1>8, <1>9, <1>10
        DEF Next, Listen, Sender, Client, RecoverRecord, Recovered, Resent, Take, LogMessage,
            AckMessage, Restart, WriteRecord, vars, senders, links, clients

-----------------------------------------------------------------------------
(* ACK records. *)

LEMMA GotGrows ==
  ASSUME TypeOK, [Next]_vars
  PROVE  \A c \in Clients : got[c] \subseteq got'[c]
<1>1. CASE got' = got
  BY <1>1
<1>2. ASSUME NEW c \in Clients, ReadResult(c) PROVE \A d \in Clients : got[d] \subseteq got'[d]
  BY <1>2, TypeParts DEF ReadResult, SenderTypes
<1>3. got' = got \/ \E c \in Clients : ReadResult(c)
  BY DEF Next, Listen, Sender, Client, RecoverRecord, Recovered, Resend, Resent, Take, LogMessage,
         SendResult, AckMessage, Restart, WriteRecord, ReadAck, LogAck, Connect, DialFails,
         Crash, vars, clients
<1> QED BY <1>1, <1>2, <1>3

(* The records a step may log.                                             *)
LEMMA NewRecords ==
  ASSUME TypeOK, Standing, [Next]_vars
  PROVE  \/ Logged' \subseteq Logged
         \/ LogMessage /\ Logged' = Logged \union {MsgRecord(Message)}
         \/ \E c \in Clients : \E r \in item[c] :
              LogAck(c) /\ item[c] = {r} /\ Logged' = Logged \union {AckRecord(c, r.query)}
<1>0. LogTypes /\ SenderTypes /\ \A c \in Clients : OneByOne(c)
  BY TypeParts
<1>1. CASE Aside
  BY <1>0, <1>1, AsideKeeps
<1>2. CASE RecoverRecord
  BY <1>0, <1>2, RecoverKnows
<1>3. CASE LogMessage
  BY <1>0, <1>3, LogMessageKnows
<1>4. CASE WriteRecord
  BY <1>0, <1>4, WriteRecordKnows
<1>5. ASSUME NEW c \in Clients, LogAck(c)
      PROVE  \E r \in item[c] : item[c] = {r} /\ Logged' = Logged \union {AckRecord(c, r.query)}
  BY <1>0, <1>5, LogAckKnows
<1>6. CASE Crash \/ Restart
  BY <1>0, <1>6, CrashKnows DEF Logged
<1> QED BY <1>1, <1>2, <1>3, <1>4, <1>5, <1>6, StepKinds

LEMMA AckRecordStep ==
  ASSUME TypeOK, Standing, \A c \in Clients : Delivery(c), AckRecordIsTrue, [Next]_vars
  PROVE  AckRecordIsTrue'
<1>1. \A c \in Clients : \A q : Has(c, q) => Has(c, q)'
  BY GotGrows DEF Has
<1>2. ASSUME NEW r \in Logged, r.kind = "ack" PROVE Has(r.client, r.query)'
  <2>1. r \in Records
    BY TypeParts, FileRecords DEF LogTypes, Logged
  <2>2. r.client \in Clients /\ Has(r.client, r.query)
    BY <1>2, <2>1, RecordFields DEF AckRecordIsTrue, Logged
  <2> QED BY <1>1, <2>2
<1>3. ASSUME NEW c \in Clients, NEW s \in item[c], LogAck(c) PROVE Has(c, s.query)'
  <2>1. Has(c, s.query)
    BY <1>3 DEF LogAck, Delivery
  <2> QED BY <1>1, <2>1
<1>4. \A r \in Logged' : r.kind = "ack" => Has(r.client, r.query)'
  BY <1>2, <1>3, NewRecords, RecordMade
<1> QED BY <1>4 DEF AckRecordIsTrue, Logged

-----------------------------------------------------------------------------
(* The ids in the file, and the duplicate handler. *)

LEMMA KnownMessage ==
  ASSUME NEW R, NEW r \in R, r \in Records, r.kind = "msg"
  PROVE  r.msg \in MessagesOf(R)
BY RecordFields, RecordMade DEF MessagesOf

LEMMA InOrderStep ==
  ASSUME TypeOK, Standing, InOrder, DupIsAbove, [Next]_vars
  PROVE  InOrder'
<1>0. /\ LogTypes /\ SenderTypes /\ ListenerTypes /\ \A c \in Clients : OneByOne(c)
      /\ DOMAIN file = 1..Len(file) /\ Len(file) \in Nat
  BY TypeParts, FileRecords
<1>1. CASE file' = file /\ hand' \subseteq hand
  BY <1>1 DEF InOrder
<1>2. CASE LogMessage
  <2>1. file' = file /\ hand' = {MsgRecord(Message)}
    BY <1>0, <1>2, LogMessageKnows
  <2>2. Live
    BY <1>2 DEF LogMessage, Live
  <2>3. ASSUME NEW i \in DOMAIN file PROVE Below(file[i], MsgRecord(Message))
    <3>1. file[i] \in Records /\ file[i] \in Known
      BY <1>0, <2>2, FileRecords DEF Logged
    <3>2. file[i].kind = "msg" => file[i].msg \in MessagesOf(Known)
      BY <3>1, KnownMessage
    <3> QED BY <1>2, <3>2, RecordMade DEF Below, DupIsAbove, LogMessage
  <2> QED BY <2>1, <2>3 DEF InOrder
<1>3. ASSUME NEW c \in Clients, LogAck(c) PROVE InOrder'
  <2>1. PICK r \in item[c] : file' = file /\ hand' = {AckRecord(c, r.query)}
    BY <1>0, <1>3, LogAckKnows
  <2>2. \A i \in DOMAIN file : Below(file[i], AckRecord(c, r.query))
    BY RecordMade DEF Below
  <2> QED BY <2>1, <2>2 DEF InOrder
<1>4. CASE WriteRecord
  <2>1. PICK r \in hand :
          /\ hand' = {} /\ Len(file') = Len(file) + 1 /\ file'[Len(file) + 1] = r
          /\ \A i \in 1..Len(file) : file'[i] = file[i]
    BY <1>0, <1>4, WriteRecordKnows
  <2>2. DOMAIN file' = 1..(Len(file) + 1)
    <3>1. LogTypes'
      BY <1>0, TypeParts, LogTypesStep
    <3> QED BY <2>1, <3>1 DEF LogTypes
  <2>3. ASSUME NEW i \in 1..(Len(file) + 1), NEW j \in 1..(Len(file) + 1), i < j
        PROVE  Below(file'[i], file'[j])
    <3>1. i \in 1..Len(file) /\ file'[i] = file[i]
      BY <1>0, <2>1, <2>3
    <3>2. CASE j \in 1..Len(file)
      BY <1>0, <2>1, <2>3, <3>1, <3>2 DEF InOrder
    <3>3. CASE j = Len(file) + 1
      BY <1>0, <2>1, <3>1, <3>3 DEF InOrder
    <3> QED BY <1>0, <3>2, <3>3
  <2> QED BY <2>1, <2>2, <2>3 DEF InOrder
<1>5. CASE Aside
  BY <1>0, <1>1, <1>5, AsideKeeps
<1>6. CASE RecoverRecord
  BY <1>0, <1>1, <1>6, RecoverKnows
<1>7. CASE Crash \/ Restart
  BY <1>0, <1>1, <1>7, CrashKnows
<1> QED BY <1>2, <1>3, <1>4, <1>5, <1>6, <1>7, StepKinds

LEMMA DupIsAboveStep ==
  ASSUME TypeOK, Standing, InOrder, DupIsAbove, [Next]_vars
  PROVE  DupIsAbove'
<1>0. /\ LogTypes /\ SenderTypes /\ ListenerTypes /\ \A c \in Clients : OneByOne(c)
      /\ dup \in [Queries -> Nat]
  BY TypeParts DEF ListenerTypes
<1>1. ASSUME dup' = dup, MessagesOf(Known') = MessagesOf(Known),
             pc' = "logging" <=> pc = "logging", pc' = "logging" => acked' = acked
      PROVE  DupIsAbove'
  <2>1. pc' = "logging" => Message' = Message
    BY <1>1 DEF Message
  <2> QED BY <1>1, <2>1 DEF DupIsAbove, MessagesOf
<1>2. CASE Take
  <2>1. Known' = Known /\ acked' = acked /\ Message' = Message /\ Message \in Range(Feed)
    BY <1>0, <1>2, AsideKeeps, MessageIsInFeed DEF Aside, Take, Message, ListenerTypes
  <2>2. CASE dup' = dup /\ pc' = "acking"
    BY <1>1, <1>2, <2>1, <2>2 DEF Take
  <2>3. CASE /\ ~ IsDuplicate(Message) /\ pc' = "logging"
             /\ dup' = [dup EXCEPT ![Message.query] = Message.id + 1]
    <3>1. /\ Message.query \in Queries /\ Message.id \in Nat /\ dup[Message.query] \in Nat
          /\ ~ (Message.id < dup[Message.query])
      BY <1>0, <2>1, <2>3, MessageFields DEF IsDuplicate
    <3>2. ASSUME NEW m \in MessagesOf(Known)
          PROVE  m.id < dup'[m.query] /\ (m.query = Message.query => m.id < Message.id)
      <4>1. m.id \in Nat /\ m.query \in Queries /\ m.id < dup[m.query]
        BY MessageFields DEF MessagesOf, DupIsAbove
      <4>2. CASE m.query = Message.query
        BY <1>0, <2>3, <3>1, <4>1, <4>2
      <4>3. CASE m.query # Message.query
        BY <1>0, <2>3, <4>1, <4>3
      <4> QED BY <4>2, <4>3
    <3>3. \A q \in Queries : q # Message.query => dup'[q] = dup[q]
      BY <1>0, <2>3
    <3>4. dup'[Message.query] = Message.id + 1
      BY <1>0, <2>3, <3>1
    <3>5. \A q \in Queries :
            \/ dup'[q] = 0 \/ Message.query = q
            \/ \E m \in MessagesOf(Known) : m.query = q /\ dup'[q] = m.id + 1
      BY <1>2, <3>3 DEF Take, DupIsAbove
    <3> HIDE DEF Message
    <3> QED BY <2>1, <2>3, <3>2, <3>4, <3>5 DEF DupIsAbove, MessagesOf
  <2> QED BY <1>2, <2>2, <2>3 DEF Take
<1>3. CASE Aside /\ ~ Take
  <2>1. /\ dup' = dup /\ (pc' = "logging" <=> pc = "logging")
        /\ pc' = "logging" => acked' = acked
    BY <1>3 DEF Aside, Recovered, Resend, Resent, SendResult, AckMessage, ReadAck, Client,
                Connect, DialFails, ReadResult, vars, listener
  <2> QED BY <1>0, <1>1, <1>3, <2>1, AsideKeeps
<1>4. CASE LogMessage
  <2>1. Message \in Range(Feed)
    BY <1>0, <1>4, MessageIsInFeed DEF LogMessage, ListenerTypes, Standing
  <2>2. MessagesOf(Known') = MessagesOf(Known) \union {Message} /\ dup' = dup
    BY <1>0, <1>4, <2>1, LogMessageKnows, MoreMessages DEF LogMessage
  <2>3. pc = "logging" /\ pc' # "logging" /\ dup[Message.query] = Message.id + 1
    BY <1>4 DEF LogMessage, DupIsAbove
  <2>4. \A m \in MessagesOf(Known') : m.id < dup'[m.query]
    BY <2>1, <2>2, <2>3, MessageFields DEF DupIsAbove
  <2>5. ASSUME NEW q \in Queries
        PROVE  dup'[q] = 0 \/ \E m \in MessagesOf(Known') : m.query = q /\ dup'[q] = m.id + 1
    BY <2>2, <2>3 DEF DupIsAbove
  <2> QED BY <2>3, <2>4, <2>5 DEF DupIsAbove, MessagesOf
<1>5. ASSUME NEW c \in Clients, LogAck(c) PROVE DupIsAbove'
  <2>1. MessagesOf(Known') = MessagesOf(Known)
    BY <1>0, <1>5, LogAckKnows, MoreMessages
  <2> QED BY <1>1, <1>5, <2>1 DEF LogAck, listener
<1>6. CASE WriteRecord
  BY <1>0, <1>1, <1>6, WriteRecordKnows DEF WriteRecord, listener
<1>7. CASE RecoverRecord
  <2> DEFINE r == file[replayed + 1]
  <2>1. /\ replayed + 1 \in 1..Len(file) /\ Known = {file[i] : i \in 1..replayed}
        /\ Known' = Known \union {r} /\ pc' = pc /\ pc = "recovering" /\ acked' = acked
    BY <1>0, <1>7, RecoverKnows DEF RecoverRecord
  <2>2. r \in Records
    BY <1>0, <2>1, FileRecords
  <2>3. CASE r.kind = "ack"
    <3>1. dup' = dup
      BY <1>7, <2>3 DEF RecoverRecord, ReplayAck
    <3>2. MessagesOf(Known') = MessagesOf(Known)
      BY <2>1, <2>2, <2>3, RecordFields, MoreMessages
    <3> QED BY <1>1, <2>1, <3>1, <3>2
  <2>4. CASE r.kind = "msg"
    <3> DEFINE m == r.msg
    <3>1. m \in Range(Feed) /\ r = MsgRecord(m)
      BY <2>2, <2>4, RecordFields
    <3>2. MessagesOf(Known') = MessagesOf(Known) \union {m}
      BY <2>1, <3>1, MoreMessages
    <3>3. dup' = [dup EXCEPT ![m.query] = m.id + 1]
      BY <1>7, <2>4 DEF RecoverRecord, ReplayMessage
    <3>4. ASSUME NEW n \in MessagesOf(Known), n.query = m.query PROVE n.id < m.id
      <4>1. PICK i \in 1..replayed : MsgRecord(n) = file[i]
        BY <2>1 DEF MessagesOf
      <4>2. i \in DOMAIN file /\ replayed + 1 \in DOMAIN file /\ i < replayed + 1
        BY <1>0, <2>1, <4>1, FileRecords DEF LogTypes
      <4>3. Below(file[i], r)
        BY <4>2 DEF InOrder
      <4> QED BY <2>4, <3>4, <4>1, <4>3, RecordMade DEF Below
    <3> HIDE DEF m, r
    <3>5. m.query \in Queries /\ m.id \in Nat
      BY <3>1, MessageFields
    <3>6. dup'[m.query] = m.id + 1 /\ \A q \in Queries : q # m.query => dup'[q] = dup[q]
      BY <1>0, <3>3, <3>5
    <3>7. ASSUME NEW n \in MessagesOf(Known') PROVE n.id < dup'[n.query]
      <4>1. n.id \in Nat /\ n.query \in Queries
        BY <3>7, MessageFields DEF MessagesOf
      <4>2. CASE n = m
        BY <3>5, <3>6, <4>2
      <4>3. CASE n \in MessagesOf(Known) /\ n.query = m.query
        BY <3>4, <3>5, <3>6, <4>1, <4>3
      <4>4. CASE n \in MessagesOf(Known) /\ n.query # m.query
        BY <3>6, <4>1, <4>4 DEF DupIsAbove
      <4> QED BY <3>2, <4>2, <4>3, <4>4
    <3>8. ASSUME NEW q \in Queries
          PROVE  dup'[q] = 0 \/ \E n \in MessagesOf(Known') : n.query = q /\ dup'[q] = n.id + 1
      <4>1. CASE q = m.query
        BY <3>2, <3>6, <4>1
      <4>2. CASE q # m.query
        <5>1. dup[q] = 0 \/ \E n \in MessagesOf(Known) : n.query = q /\ dup[q] = n.id + 1
          BY <2>1 DEF DupIsAbove
        <5> QED BY <3>2, <3>6, <4>2, <5>1
      <4> QED BY <4>1, <4>2
    <3> QED BY <2>1, <3>7, <3>8 DEF DupIsAbove, MessagesOf
  <2> QED BY <2>2, <2>3, <2>4, RecordFields
<1>8. CASE Crash \/ Restart
  <2>1. Known' = {} /\ dup' = [q \in Queries |-> 0] /\ pc' # "logging"
    BY <1>0, <1>8, CrashKnows DEF Crash, Restart, Standing
  <2>2. MessagesOf(Known') = {}
    BY <2>1 DEF MessagesOf
  <2> QED BY <2>1, <2>2 DEF DupIsAbove, MessagesOf
<1> QED BY <1>2, <1>3, <1>4, <1>5, <1>6, <1>7, <1>8, StepKinds

-----------------------------------------------------------------------------
(* The log and the queue. *)

(* A message below the expected id was logged, if no record was lost.      *)
LEMMA DuplicateIsLogged ==
  ASSUME TypeOK, DupIsAbove, LoggedIsPast, ~ lost, pc = "idle", acked < Len(Feed),
         IsDuplicate(Message)
  PROVE  MsgRecord(Message) \in Logged
<1>0. LogTypes /\ ListenerTypes /\ Message \in Range(Feed) /\ Live
  BY TypeParts, MessageIsInFeed DEF ListenerTypes, Live
<1>1. Message.query \in Queries /\ Message.id \in Nat /\ dup[Message.query] \in Nat
  BY <1>0, MessageFields DEF ListenerTypes
<1>2. Message.id < dup[Message.query]
  BY DEF IsDuplicate
<1>3. PICK m \in MessagesOf(Known) : m.query = Message.query /\ dup[Message.query] = m.id + 1
  <2>1. dup[Message.query] # 0
    BY <1>1, <1>2
  <2> QED BY <1>1, <2>1 DEF DupIsAbove
<1>4. m \in Range(Feed) /\ m \in MessagesOf(Logged) /\ m.id \in Nat
  BY <1>0, <1>3, FileRecords, MessageFields DEF MessagesOf
<1>5. PICK k \in DOMAIN Feed : k <= acked + 1 /\ m = Feed[k]
  BY <1>4 DEF LoggedIsPast
<1>6. acked \in Nat /\ k \in 1..Len(Feed)
  BY <1>0, FeedPosition DEF ListenerTypes
<1>7. CASE m.id = Message.id
  <2>1. m = Message
    BY <1>0, <1>3, <1>4, <1>7, SameId
  <2> QED BY <1>4, <2>1 DEF MessagesOf
<1>8. CASE m.id # Message.id
  <2>1. Message.id < m.id
    BY <1>1, <1>2, <1>3, <1>4, <1>8
  <2>2. PICK i \in 1..(k - 1) : Feed[i] = Message
    BY <1>0, <1>3, <1>5, <1>6, <2>1, LowerIsBefore
  <2>3. i \in 1..acked
    BY <1>5, <1>6
  <2>4. MsgRecord(Feed[i]) \in Logged
    BY <2>3 DEF LoggedIsPast
  <2> QED BY <2>2, <2>4
<1> QED BY <1>7, <1>8

LEMMA LoggedIsPastStep ==
  ASSUME TypeOK, Standing, DupIsAbove, LoggedIsPast, [Next]_vars
  PROVE  LoggedIsPast'
<1>0. /\ LogTypes /\ SenderTypes /\ ListenerTypes /\ \A c \in Clients : OneByOne(c)
      /\ acked \in Nat
  BY TypeParts, FeedPosition DEF ListenerTypes
<1>1. acked' \in {acked, acked + 1} /\ (AckMessage \/ acked' = acked)
  BY DEF Next, Listen, Sender, Client, RecoverRecord, Recovered, Resend, Resent, Take, LogMessage,
         SendResult, AckMessage, Restart, WriteRecord, ReadAck, LogAck, Connect, DialFails,
         ReadResult, Crash, vars
<1>2. ASSUME NEW m \in MessagesOf(Logged')
      PROVE  \E k \in DOMAIN Feed : k <= acked' + 1 /\ m = Feed[k]
  <2>1. m \in MessagesOf(Logged) \/ (LogMessage /\ m = Message)
    <3>1. m \in Range(Feed) /\ MsgRecord(m) \in Logged'
      BY <1>2 DEF MessagesOf
    <3>2. CASE MsgRecord(m) \in Logged
      BY <3>1, <3>2, RecordedMessage
    <3>3. CASE LogMessage /\ MsgRecord(m) = MsgRecord(Message)
      BY <3>3, RecordMade
    <3>4. ASSUME NEW c, NEW q PROVE MsgRecord(m) # AckRecord(c, q)
      BY RecordMade
    <3> QED BY <3>1, <3>2, <3>3, <3>4, NewRecords
  <2>2. CASE m \in MessagesOf(Logged)
    <3>1. PICK k \in DOMAIN Feed : k <= acked + 1 /\ m = Feed[k]
      BY <2>2 DEF LoggedIsPast
    <3>2. k <= acked' + 1
      BY <1>0, <1>1, <3>1, FeedPosition
    <3> QED BY <3>1, <3>2
  <2>3. CASE LogMessage /\ m = Message
    <3>1. acked + 1 \in DOMAIN Feed /\ acked' = acked
      BY <1>0, <2>3, FeedPosition DEF LogMessage, Standing
    <3> QED BY <1>0, <2>3, <3>1 DEF Message
  <2> QED BY <2>1, <2>2, <2>3
<1>3. CASE Crash
  <2>1. Logged' = Range(file) /\ acked' = acked /\ pc' = "down"
    BY <1>0, <1>3, CrashKnows DEF Crash
  <2>2. ~ lost' => \A i \in 1..acked : MsgRecord(Feed[i]) \in Range(file)
    BY <1>3 DEF Crash
  <2> QED BY <1>2, <2>1, <2>2 DEF LoggedIsPast, MessagesOf
<1>4. CASE ~ Crash
  <2>1. lost' = lost
    BY <1>4 DEF Next, Listen, Sender, Client, RecoverRecord, Recovered, Resend, Resent, Take,
                LogMessage, SendResult, AckMessage, Restart, WriteRecord, ReadAck, LogAck,
                Connect, DialFails, ReadResult, vars, history
  <2>2. Logged \subseteq Logged'
    <3>1. CASE Aside
      BY <1>0, <3>1, AsideKeeps
    <3>2. CASE RecoverRecord
      BY <1>0, <3>2, RecoverKnows
    <3>3. CASE LogMessage
      BY <1>0, <3>3, LogMessageKnows
    <3>4. CASE WriteRecord
      BY <1>0, <3>4, WriteRecordKnows
    <3>5. ASSUME NEW c \in Clients, LogAck(c) PROVE Logged \subseteq Logged'
      BY <1>0, <3>5, LogAckKnows
    <3>6. CASE Restart
      <4>1. hand = {}
        BY <3>6 DEF Restart, Standing, Live
      <4> QED BY <1>0, <3>6, <4>1, CrashKnows DEF Logged
    <3> QED BY <1>4, <3>1, <3>2, <3>3, <3>4, <3>5, <3>6, StepKinds
  <2>3. SUFFICES ASSUME ~ lost
                 PROVE  /\ \A i \in 1..acked' : MsgRecord(Feed[i]) \in Logged
                        /\ pc' = "acking" => MsgRecord(Message') \in Logged'
    BY <1>2, <2>1, <2>2 DEF LoggedIsPast, MessagesOf
  <2>4. \A i \in 1..acked : MsgRecord(Feed[i]) \in Logged
    BY <2>3 DEF LoggedIsPast
  <2>5. CASE AckMessage
    <3>1. MsgRecord(Feed[acked + 1]) \in Logged /\ acked' = acked + 1 /\ pc' = "idle"
      BY <2>3, <2>5 DEF AckMessage, LoggedIsPast, Message
    <3>2. \A i \in 1..(acked + 1) : i \in 1..acked \/ i = acked + 1
      BY <1>0
    <3> QED BY <2>4, <3>1, <3>2
  <2>6. CASE acked' = acked
    <3>1. Message' = Message
      BY <2>6 DEF Message
    <3>2. ASSUME pc' = "acking" PROVE MsgRecord(Message) \in Logged'
      <4>1. CASE pc = "acking"
        BY <2>2, <2>3, <4>1 DEF LoggedIsPast
      <4>2. CASE Take
        <5>1. IsDuplicate(Message) /\ pc = "idle" /\ acked < Len(Feed)
          BY <3>2, <4>2 DEF Take
        <5> QED BY <2>2, <2>3, <5>1, DuplicateIsLogged
      <4>3. CASE LogMessage
        BY <1>0, <4>3, LogMessageKnows
      <4>4. CASE SendResult
        BY <2>2, <4>4 DEF SendResult, Standing
      <4>5. pc = "acking" \/ Take \/ LogMessage \/ SendResult
        BY <3>2 DEF Next, Listen, Sender, Client, RecoverRecord, Recovered, Resend, Resent,
                    AckMessage, Restart, WriteRecord, ReadAck, LogAck, Connect, DialFails,
                    ReadResult, Crash, vars, listener
      <4> QED BY <4>1, <4>2, <4>3, <4>4, <4>5
    <3> QED BY <2>4, <2>6, <3>1, <3>2
  <2> QED BY <1>1, <2>5, <2>6
<1> QED BY <1>3, <1>4

-----------------------------------------------------------------------------
(* Results end before they are sent. *)

LEMMA EndedStays ==
  ASSUME NEW R, NEW S, R \subseteq S, NEW c, NEW q, Ended(R, c, q)
  PROVE  Ended(S, c, q)
BY DEF Ended, MessagesOf

LEMMA EndIsLoggedStep ==
  ASSUME TypeOK, Standing, EndIsLogged, [Next]_vars
  PROVE  EndIsLogged'
<1>0. /\ LogTypes /\ SenderTypes /\ ListenerTypes /\ \A c \in Clients : OneByOne(c)
      /\ DOMAIN file = 1..Len(file) /\ Len(file) \in Nat /\ Known \subseteq Logged
  BY TypeParts, FileRecords
<1>1. \A p \in pending' : Ended(Known', p.client, p.query)
  <2>1. CASE RecoverRecord
    <3> DEFINE r == file[replayed + 1]
    <3>1. r \in Records /\ Known' = Known \union {r}
      BY <1>0, <2>1, RecoverKnows, FileRecords
    <3>2. ASSUME NEW p \in pending' PROVE p \in pending \/ Ended({r}, p.client, p.query)
      <4>1. CASE r.kind = "ack"
        BY <2>1, <3>2, <4>1 DEF RecoverRecord, ReplayAck
      <4>2. CASE r.kind = "msg"
        <5>1. r.msg \in MessagesOf({r})
          BY <3>1, <4>2, KnownMessage
        <5>2. /\ ReplayMessage(r.msg) /\ r.msg \in Range(Feed)
          BY <2>1, <3>1, <4>2, RecordFields DEF RecoverRecord
        <5> HIDE DEF r
        <5>3. CASE p \notin pending
          <6>1. ~ IsPart(r.msg) /\ p.client = r.msg.client /\ p.query = r.msg.query
            BY <3>2, <5>2, <5>3 DEF ReplayMessage
          <6> QED BY <5>1, <6>1 DEF Ended
        <5> QED BY <5>3
      <4> QED BY <3>1, <4>1, <4>2, RecordFields
    <3> HIDE DEF r
    <3> QED BY <3>1, <3>2, EndedStays DEF EndIsLogged
  <2>2. CASE ~ RecoverRecord
    <3>1. pending' \subseteq pending
      BY <2>2 DEF Next, Listen, Sender, Client, Recovered, Resend, Resent, Take, LogMessage,
                  SendResult, AckMessage, Restart, WriteRecord, ReadAck, LogAck, Connect, DialFails,
                  ReadResult, Crash, vars, listener
    <3>2. pending' # {} => Known \subseteq Known'
      <4>1. CASE Aside
        BY <1>0, <4>1, AsideKeeps
      <4>2. CASE LogMessage
        BY <1>0, <4>2, LogMessageKnows
      <4>3. CASE WriteRecord
        BY <1>0, <4>3, WriteRecordKnows
      <4>4. ASSUME NEW c \in Clients, LogAck(c) PROVE Known \subseteq Known'
        BY <1>0, <4>4, LogAckKnows
      <4>5. CASE Crash \/ Restart
        BY <4>5 DEF Crash, Restart, Standing
      <4> QED BY <2>2, <4>1, <4>2, <4>3, <4>4, <4>5, StepKinds
    <3> QED BY <3>1, <3>2, EndedStays DEF EndIsLogged
  <2> QED BY <2>1, <2>2
<1>2. ASSUME NEW c \in Clients, NEW r \in item'[c] PROVE Ended(Logged', c, r.query)
  <2>1. CASE r \in item[c] /\ Logged \subseteq Logged'
    BY <2>1, EndedStays DEF EndIsLogged
  <2>2. CASE item' = item
    <3>1. ~ Crash
      BY <1>2, <2>2 DEF Crash, SenderTypes
    <3>2. Logged \subseteq Logged'
      <4>1. CASE Aside
        BY <1>0, <4>1, AsideKeeps
      <4>2. CASE RecoverRecord
        BY <1>0, <4>2, RecoverKnows
      <4>3. CASE LogMessage
        BY <1>0, <4>3, LogMessageKnows
      <4>4. CASE WriteRecord
        BY <1>0, <4>4, WriteRecordKnows
      <4>5. ASSUME NEW d \in Clients, LogAck(d) PROVE Logged \subseteq Logged'
        BY <1>0, <4>5, LogAckKnows
      <4>6. CASE Restart
        <5>1. hand = {}
          BY <4>6 DEF Restart, Standing, Live
        <5> QED BY <1>0, <4>6, <5>1, CrashKnows DEF Logged
      <4> QED BY <3>1, <4>1, <4>2, <4>3, <4>4, <4>5, <4>6, StepKinds
    <3> QED BY <1>2, <2>1, <2>2, <3>2
  <2>3. ASSUME NEW d \in Clients, LogAck(d) PROVE Ended(Logged', c, r.query)
    <3>1. r \in item[c]
      BY <1>0, <1>2, <2>3 DEF LogAck, SenderTypes
    <3>2. Logged \subseteq Logged'
      BY <1>0, <2>3, LogAckKnows
    <3> QED BY <2>1, <3>1, <3>2
  <2>4. ASSUME NEW p \in pending, Resend(p) PROVE Ended(Logged', c, r.query)
    <3>1. r \in item[c] \/ (c = p.client /\ r.query = p.query)
      BY <1>0, <1>2, <2>4 DEF Resend, HandOver, SenderTypes, Result
    <3>2. Logged' = Logged
      BY <1>0, <2>4, AsideKeeps DEF Aside
    <3>3. Ended(Known, p.client, p.query)
      BY DEF EndIsLogged
    <3> QED BY <1>0, <2>1, <3>1, <3>2, <3>3, EndedStays
  <2>5. CASE SendResult
    <3>1. r \in item[c] \/ (c = Message.client /\ r.query = Message.query)
      BY <1>0, <1>2, <2>5 DEF SendResult, HandOver, SenderTypes, Result
    <3>2. Logged' = Logged
      BY <1>0, <2>5, AsideKeeps DEF Aside
    <3>3. Message \in MessagesOf(Logged) /\ ~ IsPart(Message)
      BY <1>0, <2>5, MessageIsInFeed DEF SendResult, Standing, ListenerTypes, MessagesOf
    <3>4. Ended(Logged, Message.client, Message.query)
      BY <3>3 DEF Ended
    <3> QED BY <2>1, <3>1, <3>2, <3>4
  <2>6. CASE Crash
    BY <1>2, <2>6 DEF Crash
  <2>7. \/ item' = item \/ SendResult \/ Crash \/ (\E p \in pending : Resend(p))
        \/ \E d \in Clients : LogAck(d)
    BY DEF Next, Listen, Sender, Client, RecoverRecord, Recovered, Resent, Take, LogMessage,
           AckMessage, Restart, WriteRecord, ReadAck, Connect, DialFails, ReadResult, vars, senders
  <2> QED BY <2>2, <2>3, <2>4, <2>5, <2>6, <2>7
<1> DEFINE After(f, j) ==
             f[j].kind = "ack" =>
               \E i \in 1..(j - 1), m \in Range(Feed) :
                 /\ f[i] = MsgRecord(m) /\ m.client = f[j].client /\ m.query = f[j].query
                 /\ ~ IsPart(m)
<1>3. \A j \in 1..Len(file) : After(file, j)
  BY <1>0 DEF EndIsLogged
<1>4. /\ \A j \in DOMAIN file' : After(file', j)
      /\ \A r \in hand' : r.kind = "ack" => Ended(Range(file'), r.client, r.query)
  <2>1. CASE file' = file /\ hand' \subseteq hand
    BY <1>0, <1>3, <2>1 DEF EndIsLogged
  <2>2. CASE LogMessage
    BY <1>0, <1>3, <2>2, LogMessageKnows, RecordMade
  <2>3. ASSUME NEW c \in Clients, LogAck(c)
        PROVE  /\ file' = file
               /\ \A r \in hand' : r.kind = "ack" => Ended(Range(file'), r.client, r.query)
    <3>1. PICK s \in item[c] : hand' = {AckRecord(c, s.query)} /\ file' = file /\ hand = {}
      BY <1>0, <2>3, LogAckKnows
    <3>2. Ended(Range(file), c, s.query)
      BY <3>1 DEF EndIsLogged, Logged
    <3> QED BY <3>1, <3>2, RecordMade
  <2>4. CASE WriteRecord
    <3>1. PICK r \in hand :
            /\ hand' = {} /\ Len(file') = Len(file) + 1 /\ file'[Len(file) + 1] = r
            /\ \A i \in 1..Len(file) : file'[i] = file[i]
      BY <1>0, <2>4, WriteRecordKnows
    <3>2. DOMAIN file' = 1..(Len(file) + 1)
      <4>1. LogTypes'
        BY <1>0, TypeParts, LogTypesStep
      <4> QED BY <3>1, <4>1 DEF LogTypes
    <3>3. ASSUME NEW j \in 1..Len(file) PROVE After(file', j)
      <4>1. /\ file'[j] = file[j] /\ After(file, j)
            /\ \A i \in 1..(j - 1) : file'[i] = file[i]
        BY <1>0, <1>3, <3>1
      <4> QED BY <4>1
    <3>4. After(file', Len(file) + 1)
      <4>1. SUFFICES ASSUME r.kind = "ack"
                     PROVE  \E i \in 1..Len(file), m \in Range(Feed) :
                              /\ file'[i] = MsgRecord(m) /\ m.client = r.client
                              /\ m.query = r.query /\ ~ IsPart(m)
        BY <1>0, <3>1
      <4>2. Ended(Range(file), r.client, r.query)
        BY <4>1 DEF EndIsLogged
      <4>3. PICK m \in Range(Feed) : /\ MsgRecord(m) \in Range(file) /\ m.client = r.client
                                     /\ m.query = r.query /\ ~ IsPart(m)
        BY <4>2 DEF Ended, MessagesOf
      <4>4. PICK i \in 1..Len(file) : file[i] = MsgRecord(m)
        BY <1>0, <4>3, FileRecords
      <4> QED BY <3>1, <4>3, <4>4
    <3> HIDE DEF After
    <3> QED BY <1>0, <3>1, <3>2, <3>3, <3>4
  <2>5. CASE Aside
    BY <1>0, <2>1, <2>5, AsideKeeps
  <2>6. CASE RecoverRecord
    BY <1>0, <2>1, <2>6, RecoverKnows
  <2>7. CASE Crash \/ Restart
    BY <1>0, <2>1, <2>7, CrashKnows
  <2>8. ASSUME NEW c \in Clients, LogAck(c) PROVE \A j \in DOMAIN file' : After(file', j)
    BY <1>0, <1>3, <2>3, <2>8
  <2> HIDE DEF After
  <2> QED BY <2>2, <2>3, <2>4, <2>5, <2>6, <2>7, <2>8, StepKinds
<1> QED BY <1>1, <1>2, <1>4 DEF EndIsLogged

-----------------------------------------------------------------------------
(* Parts in the order of their ids. *)

LEMMA HoldsNothing == Holds(<< >>, {})
BY FS_EmptySet DEF Holds

LEMMA HoldsOne ==
  ASSUME NEW m \in Range(Feed)
  PROVE  Holds(<<m.part>>, {m})
<1>1. m.id \in Nat
  BY MessageFields
<1>2. {n \in {m} : n.id <= m.id} = {m}
  BY <1>1
<1>3. Cardinality({m}) = 1
  BY FS_Singleton
<1> QED BY <1>2, <1>3 DEF Holds

(* The part of a message of a higher id follows the others.                *)
LEMMA HoldsMore ==
  ASSUME NEW s \in Seq(Nat), NEW M \in SUBSET Range(Feed), Holds(s, M), NEW m \in Range(Feed),
         \A n \in M : n.id < m.id
  PROVE  Holds(Append(s, m.part), M \union {m})
<1> DEFINE t == Append(s, m.part)
           N == M \union {m}
<1>1. m.id \in Nat /\ m.part \in Nat /\ \A n \in M : n.id \in Nat
  BY MessageFields
<1>2. IsFiniteSet(M) /\ m \notin M
  BY <1>1, FeedFinite, FS_Subset
<1>3. Cardinality(N) = Cardinality(M) + 1 /\ Cardinality(M) \in Nat
  BY <1>2, FS_AddElement, FS_CardinalityType
<1>4. Len(s) = Cardinality(M)
  BY DEF Holds
<1>5. /\ Len(t) = Len(s) + 1 /\ t[Len(s) + 1] = m.part
      /\ \A i \in 1..Len(s) : t[i] = s[i]
  BY <1>1, AppendProperties
<1>6. ASSUME NEW n \in N PROVE t[Cardinality({k \in N : k.id <= n.id})] = n.part
  <2>1. CASE n = m
    <3>1. {k \in N : k.id <= n.id} = N
      BY <1>1, <2>1
    <3> QED BY <1>3, <1>4, <1>5, <2>1, <3>1
  <2>2. CASE n \in M
    <3> DEFINE K == {k \in M : k.id <= n.id}
    <3>1. {k \in N : k.id <= n.id} = K
      BY <1>1, <2>2
    <3>2. IsFiniteSet(K) /\ Cardinality(K) <= Cardinality(M) /\ Cardinality(K) \in Nat
      BY <1>2, FS_Subset, FS_CardinalityType
    <3>3. Cardinality(K) # 0
      <4>1. n \in K
        BY <1>1, <2>2
      <4> QED BY <3>2, <4>1, FS_EmptySet
    <3>4. Cardinality(K) \in 1..Len(s)
      BY <1>3, <1>4, <3>2, <3>3
    <3>5. s[Cardinality(K)] = n.part
      BY <2>2 DEF Holds
    <3> HIDE DEF K, t
    <3> QED BY <1>5, <3>1, <3>4, <3>5
  <2> QED BY <2>1, <2>2
<1> QED BY <1>3, <1>4, <1>5, <1>6 DEF Holds

-----------------------------------------------------------------------------
(* A result is complete when its last message is known. *)

LEMMA PartsAreMessages ==
  ASSUME NEW R, NEW c, NEW q
  PROVE  /\ PartsIn(R, c, q) \in SUBSET Range(Feed)
         /\ \A m \in PartsIn(R, c, q) : m \in MessagesOf(R) /\ m.query = q /\ m.client = c /\ IsPart(m)
BY DEF PartsIn, MessagesOf

LEMMA SamePartsIn ==
  ASSUME NEW R, NEW S, MessagesOf(R) = MessagesOf(S), NEW c, NEW q
  PROVE  PartsIn(R, c, q) = PartsIn(S, c, q) /\ (Ended(R, c, q) <=> Ended(S, c, q))
BY DEF PartsIn, Ended

(* What one more message does to the parts of a result.                    *)
LEMMA PartsInMore ==
  ASSUME NEW R, NEW S, NEW m \in Range(Feed), MessagesOf(S) = MessagesOf(R) \union {m},
         NEW c, NEW q
  PROVE  IF m.client = c /\ m.query = q /\ IsPart(m)
           THEN PartsIn(S, c, q) = PartsIn(R, c, q) \union {m}
           ELSE PartsIn(S, c, q) = PartsIn(R, c, q)
BY DEF PartsIn

LEMMA SimpleParts ==
  ASSUME NEW m \in Range(Feed), m.query \in Simple
  PROVE  Parts(m.client, m.query) = {m}
<1>1. ASSUME NEW n \in Range(Feed), n.client = m.client, n.query = m.query PROVE n = m
  <2>1. PICK i \in 1..Len(Feed) : m = Feed[i]
    BY FeedPosition
  <2>2. PICK j \in 1..Len(Feed) : n = Feed[j]
    BY FeedPosition
  <2> QED BY <1>1, <2>1, <2>2, FeedPosition, ResultsAssumption
<1> QED BY <1>1 DEF Parts

LEMMA AccumulatingParts ==
  ASSUME NEW q \in Accumulating, NEW c
  PROVE  Parts(c, q) = {n \in Range(Feed) : n.client = c /\ n.query = q /\ IsPart(n)}
<1>1. q \notin Simple
  BY ResultsAssumption
<1> QED BY <1>1 DEF Parts

(* The parts of a result precede the message that ends it.                 *)
LEMMA PartsAreBelow ==
  ASSUME NEW m \in Range(Feed), ~ IsPart(m), NEW n \in Range(Feed), IsPart(n),
         n.query = m.query, n.client = m.client
  PROVE  n.id < m.id
<1>1. m.query \in Accumulating
  BY DEF IsPart
<1>2. n.id <= m.id
  BY <1>1, EndIsLast
<1>3. n.id # m.id
  BY SameId
<1> QED BY <1>2, <1>3, MessageFields

(* The body of the message that is next known and ends a result.           *)
LEMMA WholeBody ==
  ASSUME Accumulated, NEW m \in Range(Feed), ~ IsPart(m),
         \A n \in MessagesOf(Known) : n.query = m.query => n.id < m.id,
         \A n \in Range(Feed) :
           IsPart(n) /\ n.query = m.query /\ n.client = m.client => n \in MessagesOf(Known)
  PROVE  Holds(Body(m), Parts(m.client, m.query))
<1>1. CASE m.query \in Simple
  BY <1>1, SimpleParts, HoldsOne DEF Body
<1>2. CASE m.query \notin Simple
  <2>1. m.query \in Accumulating /\ m.client \in Clients
    BY <1>2, MessageFields
  <2>2. ~ Ended(Known, m.client, m.query)
    <3>1. SUFFICES ASSUME NEW n \in MessagesOf(Known), n.client = m.client, n.query = m.query,
                          ~ IsPart(n)
                   PROVE  FALSE
      BY DEF Ended
    <3>2. n \in Range(Feed) /\ n.id < m.id
      BY <3>1 DEF MessagesOf
    <3>3. m.id <= n.id
      BY <2>1, <3>1, <3>2, EndIsLast
    <3> QED BY <3>2, <3>3, MessageFields
  <2>3. PartsIn(Known, m.client, m.query) = Parts(m.client, m.query)
    <3>1. \A n \in MessagesOf(Known) : n \in Range(Feed)
      BY DEF MessagesOf
    <3> QED BY <2>1, <3>1, AccumulatingParts DEF PartsIn
  <2> QED BY <1>2, <2>1, <2>2, <2>3 DEF Accumulated, Body
<1> QED BY <1>1, <1>2

(* The next record of the file to be read is above those that were.        *)
LEMMA NextIsAbove ==
  ASSUME LogTypes, Standing, InOrder, RecoverRecord, file[replayed + 1].kind = "msg"
  PROVE  \A n \in MessagesOf(Known) :
           n.query = file[replayed + 1].msg.query => n.id < file[replayed + 1].msg.id
<1> DEFINE r == file[replayed + 1]
<1>1. replayed + 1 \in 1..Len(file) /\ Known = {file[i] : i \in 1..replayed}
  BY RecoverKnows
<1>2. SUFFICES ASSUME NEW n \in MessagesOf(Known), n.query = r.msg.query PROVE n.id < r.msg.id
  OBVIOUS
<1>3. PICK i \in 1..replayed : MsgRecord(n) = file[i]
  BY <1>1 DEF MessagesOf
<1>4. i \in DOMAIN file /\ replayed + 1 \in DOMAIN file /\ i < replayed + 1
  BY <1>1, <1>3, FileRecords DEF LogTypes
<1>5. Below(file[i], r)
  BY <1>4 DEF InOrder
<1> QED BY <1>2, <1>3, <1>5, RecordMade DEF Below

LEMMA AccumulatedStep ==
  ASSUME TypeOK, Standing, InOrder, DupIsAbove, LoggedIsPast, EndIsLogged, Accumulated, [Next]_vars
  PROVE  Accumulated'
<1>0. /\ LogTypes /\ SenderTypes /\ ListenerTypes /\ \A c \in Clients : OneByOne(c)
      /\ acked \in Nat /\ acc \in [Clients -> [Accumulating -> Seq(Nat)]]
  BY TypeParts, FeedPosition DEF ListenerTypes
<1> DEFINE Whole(c, q) == Ended(Known, c, q) \/ Holds(acc[c][q], PartsIn(Known, c, q))
<1>1. ASSUME NEW c \in Clients, NEW q \in Accumulating PROVE Whole(c, q)'
  <2>0. Whole(c, q)
    BY DEF Accumulated
  <2>1. CASE acc'[c][q] = acc[c][q] /\ MessagesOf(Known') = MessagesOf(Known)
    BY <2>0, <2>1, SamePartsIn
  <2>2. ASSUME NEW m \in Range(Feed), MessagesOf(Known') = MessagesOf(Known) \union {m},
               \A n \in MessagesOf(Known) : n.query = m.query => n.id < m.id,
               IF IsPart(m)
                 THEN acc' = [acc EXCEPT ![m.client][m.query] = Append(@, m.part)]
                 ELSE acc' = acc
        PROVE  Whole(c, q)'
    <3>1. CASE Ended(Known, c, q)
      BY <2>2, <3>1 DEF Ended
    <3>2. CASE Holds(acc[c][q], PartsIn(Known, c, q)) /\ m.client = c /\ m.query = q /\ IsPart(m)
      <4>0. acc[c][q] \in Seq(Nat)
        BY <1>0
      <4>1. acc'[c][q] = Append(acc[c][q], m.part)
        <5>1. acc' = [acc EXCEPT ![m.client][m.query] = Append(@, m.part)]
          BY <2>2, <3>2
        <5>2. acc'[m.client][m.query] = Append(acc[m.client][m.query], m.part)
          BY <1>0, <2>2, <3>2, <5>1, PartAdded
        <5> QED BY <3>2, <5>2
      <4>2. PartsIn(Known', c, q) = PartsIn(Known, c, q) \union {m}
        BY <2>2, <3>2, PartsInMore
      <4>3. PartsIn(Known, c, q) \in SUBSET Range(Feed) /\ \A n \in PartsIn(Known, c, q) : n.id < m.id
        BY <2>2, <3>2, PartsAreMessages
      <4> DEFINE s == acc[c][q]
                 M == PartsIn(Known, c, q)
      <4>4. s \in Seq(Nat) /\ M \in SUBSET Range(Feed) /\ Holds(s, M) /\ \A n \in M : n.id < m.id
        BY <3>2, <4>0, <4>3
      <4> HIDE DEF s, M
      <4>5. Holds(Append(s, m.part), M \union {m})
        BY <2>2, <4>4, HoldsMore
      <4>6. Holds(acc'[c][q], PartsIn(Known', c, q))
        BY <4>1, <4>2, <4>5 DEF s, M
      <4> QED BY <4>6
    <3>3. CASE /\ Holds(acc[c][q], PartsIn(Known, c, q))
               /\ ~ (m.client = c /\ m.query = q /\ IsPart(m))
      <4>1. acc'[c][q] = acc[c][q]
        BY <1>0, <2>2, <3>3, PartAdded
      <4>2. PartsIn(Known', c, q) = PartsIn(Known, c, q)
        BY <2>2, <3>3, PartsInMore
      <4> QED BY <3>3, <4>1, <4>2
    <3> QED BY <2>0, <3>1, <3>2, <3>3
  <2> HIDE DEF Whole
  <2>3. CASE Aside
    <3>1. acc' = acc
      BY <2>3 DEF Aside, Recovered, Resend, Resent, Take, SendResult, AckMessage, ReadAck, Client,
                  Connect, DialFails, ReadResult, vars, listener
    <3> QED BY <1>0, <2>1, <2>3, <3>1, AsideKeeps
  <2>4. CASE WriteRecord
    BY <1>0, <2>1, <2>4, WriteRecordKnows DEF WriteRecord, listener
  <2>5. ASSUME NEW d \in Clients, LogAck(d) PROVE Whole(c, q)'
    <3>1. MessagesOf(Known') = MessagesOf(Known)
      <4>1. \E r \in item[d] : Known' = Known \union {AckRecord(d, r.query)}
        BY <1>0, <2>5, LogAckKnows
      <4> QED BY <4>1, MoreMessages
    <3>2. acc' = acc
      BY <2>5 DEF LogAck, listener
    <3> QED BY <2>1, <3>1, <3>2
  <2>6. CASE LogMessage
    <3>1. Message \in Range(Feed)
      BY <1>0, <2>6, MessageIsInFeed DEF LogMessage, ListenerTypes, Standing
    <3>2. MessagesOf(Known') = MessagesOf(Known) \union {Message}
      BY <1>0, <2>6, <3>1, LogMessageKnows, MoreMessages
    <3>3. \A n \in MessagesOf(Known) : n.query = Message.query => n.id < Message.id
      BY <2>6 DEF LogMessage, DupIsAbove
    <3> QED BY <2>2, <2>6, <3>1, <3>2, <3>3 DEF LogMessage
  <2>7. CASE RecoverRecord
    <3> DEFINE r == file[replayed + 1]
    <3>1. /\ replayed + 1 \in 1..Len(file) /\ Known = {file[i] : i \in 1..replayed}
          /\ Known' = Known \union {r} /\ r \in Records
      BY <1>0, <2>7, RecoverKnows, FileRecords
    <3>2. CASE r.kind = "msg"
      <4>1. r.msg \in Range(Feed) /\ r = MsgRecord(r.msg) /\ ReplayMessage(r.msg)
        BY <2>7, <3>1, <3>2, RecordFields DEF RecoverRecord
      <4>2. MessagesOf(Known') = MessagesOf(Known) \union {r.msg}
        BY <3>1, <4>1, MoreMessages
      <4>3. \A n \in MessagesOf(Known) : n.query = r.msg.query => n.id < r.msg.id
        BY <1>0, <2>7, <3>2, NextIsAbove
      <4> QED BY <2>2, <4>1, <4>2, <4>3 DEF ReplayMessage
    <3>3. CASE r.kind = "ack"
      <4>1. /\ r.client \in Clients /\ r.query \in Queries /\ r = AckRecord(r.client, r.query)
            /\ ReplayAck(r.client, r.query)
        BY <2>7, <3>1, <3>3, RecordFields DEF RecoverRecord
      <4>2. MessagesOf(Known') = MessagesOf(Known)
        BY <3>1, <4>1, MoreMessages
      <4>3. CASE c = r.client /\ q = r.query
        <5> DEFINE j == replayed + 1
        <5>1. j \in DOMAIN file /\ file[j].kind = "ack" /\ c = file[j].client /\ q = file[j].query
          BY <1>0, <3>1, <3>3, <4>3, FileRecords
        <5> HIDE DEF j
        <5>2. PICK i \in 1..(j - 1), m \in Range(Feed) :
                file[i] = MsgRecord(m) /\ m.client = c /\ m.query = q /\ ~ IsPart(m)
          BY <5>1 DEF EndIsLogged
        <5>3. i \in 1..replayed
          BY <1>0 DEF LogTypes, j
        <5>4. m \in MessagesOf(Known)
          BY <3>1, <5>2, <5>3, RecordedMessage
        <5>5. Ended(Known', c, q)
          BY <4>2, <5>2, <5>4 DEF Ended
        <5> QED BY <5>5 DEF Whole
      <4>4. CASE ~ (c = r.client /\ q = r.query)
        <5> HIDE DEF r
        <5>1. acc'[c][q] = acc[c][q]
          BY <1>0, <4>1, <4>4, PartsCleared DEF ReplayAck
        <5> QED BY <2>1, <4>2, <5>1
      <4> QED BY <4>3, <4>4
    <3> QED BY <3>1, <3>2, <3>3, RecordFields
  <2>8. CASE Crash \/ Restart
    <3>1. Known' = {} /\ acc' = NoParts
      BY <1>0, <2>8, CrashKnows DEF Crash, Restart, Standing
    <3>2. acc'[c][q] = << >> /\ PartsIn(Known', c, q) = {}
      BY <3>1 DEF NoParts, PartsIn, MessagesOf
    <3> QED BY <3>2, HoldsNothing DEF Whole
  <2> QED BY <2>3, <2>4, <2>5, <2>6, <2>7, <2>8, StepKinds
<1>2. ASSUME ~ lost', pc' = "sending"
      PROVE  Holds(Body(Message), Parts(Message.client, Message.query))'
  <2>1. CASE LogMessage
    <3>1. /\ Message' = Message /\ ~ IsPart(Message) /\ acc' = acc /\ ~ lost /\ Live
          /\ acked < Len(Feed) /\ pc = "logging" /\ Message \in Range(Feed)
      BY <1>0, <1>2, <2>1, MessageIsInFeed
         DEF LogMessage, Message, history, Live, Standing, ListenerTypes
    <3>2. \A n \in MessagesOf(Known) : n.query = Message.query => n.id < Message.id
      BY <3>1 DEF DupIsAbove
    <3>3. ASSUME NEW n \in Range(Feed), IsPart(n), n.query = Message.query,
                 n.client = Message.client
          PROVE  n \in MessagesOf(Known)
      <4>1. n.id < Message.id /\ acked + 1 \in 1..Len(Feed)
        BY <1>0, <3>1, <3>3, PartsAreBelow, FeedPosition
      <4> DEFINE j == acked + 1
      <4>2. j \in 1..Len(Feed) /\ n.query = Feed[j].query /\ n.id < Feed[j].id
        BY <3>3, <4>1 DEF Message
      <4> HIDE DEF j
      <4>3. PICK k \in 1..(j - 1) : Feed[k] = n
        BY <4>2, LowerIsBefore
      <4>4. k \in 1..acked
        BY <1>0 DEF j
      <4>5. MsgRecord(n) \in Logged
        BY <3>1, <4>3, <4>4 DEF LoggedIsPast
      <4> QED BY <1>0, <3>1, <4>5, FileRecords, RecordedMessage
    <3>4. Holds(Body(Message), Parts(Message.client, Message.query))
      BY <3>1, <3>2, <3>3, WholeBody
    <3> QED BY <3>1, <3>4 DEF Body
  <2>2. CASE ~ LogMessage
    <3>1. pc = "sending" /\ acc' = acc /\ acked' = acked /\ ~ lost
      BY <1>2, <2>2 DEF Next, Listen, Sender, Client, RecoverRecord, Recovered, Resend, Resent, Take,
         SendResult, AckMessage, Restart, WriteRecord, ReadAck, LogAck, Connect, DialFails,
         ReadResult, Crash, vars, listener, history
    <3>2. Message' = Message
      BY <3>1 DEF Message
    <3> QED BY <3>1, <3>2 DEF Accumulated, Body
  <2> QED BY <2>1, <2>2
<1> QED BY <1>1, <1>2 DEF Accumulated

-----------------------------------------------------------------------------
(* Whole results are sent, read and recovered. *)

(* Recovery puts a result together from all its parts: they were in the    *)
(* queue before its end, so they are in the file, and before it.           *)
LEMMA RecoveredBody ==
  ASSUME TypeOK, Standing, InOrder, LoggedIsPast, Accumulated, ~ lost, RecoverRecord,
         NEW m \in Range(Feed), ~ IsPart(m), file[replayed + 1] = MsgRecord(m)
  PROVE  Holds(Body(m), Parts(m.client, m.query))
<1>0. LogTypes /\ ListenerTypes /\ acked \in Nat
  BY TypeParts, FeedPosition DEF ListenerTypes
<1> DEFINE j == replayed + 1
<1>1. /\ j \in 1..Len(file) /\ Known = {file[i] : i \in 1..replayed} /\ hand = {}
      /\ replayed \in Nat /\ file[j] = MsgRecord(m)
  BY <1>0, RecoverKnows DEF LogTypes
<1>2. \A n \in MessagesOf(Known) : n.query = m.query => n.id < m.id
  BY <1>0, NextIsAbove, RecordMade
<1>3. PICK k \in DOMAIN Feed : k <= acked + 1 /\ m = Feed[k]
  <2>1. m \in MessagesOf(Logged)
    <3>1. MsgRecord(m) \in Logged
      BY <1>0, <1>1, FileRecords DEF Logged
    <3> QED BY <3>1, RecordedMessage
  <2> QED BY <2>1 DEF LoggedIsPast
<1>4. ASSUME NEW n \in Range(Feed), IsPart(n), n.query = m.query, n.client = m.client
      PROVE  n \in MessagesOf(Known)
  <2>1. n.id < m.id /\ n.id \in Nat /\ m.id \in Nat
    BY <1>4, PartsAreBelow, MessageFields
  <2>2. PICK l \in 1..(k - 1) : Feed[l] = n
    BY <1>3, <1>4, <2>1, LowerIsBefore, FeedPosition
  <2>3. l \in 1..acked
    BY <1>0, <1>3, FeedPosition
  <2>4. MsgRecord(n) \in Range(file)
    BY <1>1, <2>2, <2>3 DEF LoggedIsPast, Logged
  <2>5. PICK i \in 1..Len(file) : file[i] = MsgRecord(n)
    BY <1>0, <2>4, FileRecords
  <2>6. ~ (j < i)
    <3>1. SUFFICES ASSUME j < i PROVE FALSE
      OBVIOUS
    <3> HIDE DEF j
    <3>2. Below(file[j], file[i])
      BY <1>0, <1>1, <2>5, <3>1, FileRecords DEF InOrder
    <3>3. m.id < n.id
      BY <1>1, <1>4, <2>5, <3>2, RecordMade DEF Below
    <3> QED BY <2>1, <3>3
  <2>7. j # i
    <3>1. SUFFICES ASSUME j = i PROVE FALSE
      OBVIOUS
    <3>2. m = n
      BY <1>1, <2>5, <3>1, RecordMade
    <3> QED BY <2>1, <3>2
  <2>8. i \in 1..replayed
    BY <1>0, <1>1, <2>5, <2>6, <2>7, FileRecords
  <2> QED BY <1>1, <2>5, <2>8, RecordedMessage
<1> QED BY <1>2, <1>4, WholeBody

LEMMA ResultsUnderWayStep ==
  ASSUME TypeOK, Standing, InOrder, LoggedIsPast, Accumulated, ResultsUnderWay, [Next]_vars
  PROVE  ResultsUnderWay'
<1>0. /\ LogTypes /\ SenderTypes /\ ListenerTypes /\ \A c \in Clients : OneByOne(c)
  BY TypeParts
<1>1. SUFFICES ASSUME ~ lost'
               PROVE  /\ \A p \in pending' : Holds(p.body, Parts(p.client, p.query))
                      /\ \A c \in Clients : \A r \in item'[c] \union socket'[c] \union got'[c] :
                           Holds(r.body, Parts(c, r.query))
  BY DEF ResultsUnderWay, Holds, Parts
<1>2. ~ lost
  BY <1>1 DEF Next, Listen, Sender, Client, RecoverRecord, Recovered, Resend, Resent, Take,
              LogMessage, SendResult, AckMessage, Restart, WriteRecord, ReadAck, LogAck, Connect,
              DialFails, ReadResult, Crash, vars, history
<1>3. /\ \A p \in pending : Holds(p.body, Parts(p.client, p.query))
      /\ \A c \in Clients : \A r \in item[c] \union socket[c] \union got[c] :
           Holds(r.body, Parts(c, r.query))
  BY <1>2 DEF ResultsUnderWay
<1>4. ASSUME NEW p \in pending' PROVE Holds(p.body, Parts(p.client, p.query))
  <2>1. CASE p \in pending
    BY <1>3, <2>1
  <2>2. CASE RecoverRecord
    <3> DEFINE r == file[replayed + 1]
    <3>1. r \in Records
      BY <1>0, <2>2, RecoverKnows, FileRecords
    <3>2. CASE r.kind = "ack"
      BY <1>3, <1>4, <2>2, <3>2 DEF RecoverRecord, ReplayAck
    <3>3. CASE r.kind = "msg"
      <4>1. r.msg \in Range(Feed) /\ r = MsgRecord(r.msg) /\ ReplayMessage(r.msg)
        BY <2>2, <3>1, <3>3, RecordFields DEF RecoverRecord
      <4>2. CASE p \notin pending
        <5>1. /\ ~ IsPart(r.msg)
              /\ p = [client |-> r.msg.client, query |-> r.msg.query, body |-> Body(r.msg)]
          BY <1>4, <4>1, <4>2 DEF ReplayMessage
        <5>2. Holds(Body(r.msg), Parts(r.msg.client, r.msg.query))
          BY <1>2, <2>2, <4>1, <5>1, RecoveredBody
        <5> QED BY <5>1, <5>2
      <4> QED BY <2>1, <4>2
    <3> QED BY <3>1, <3>2, <3>3, RecordFields
  <2>3. CASE ~ RecoverRecord
    <3>1. pending' \subseteq pending
      BY <2>3 DEF Next, Listen, Sender, Client, Recovered, Resend, Resent, Take, LogMessage,
                  SendResult, AckMessage, Restart, WriteRecord, ReadAck, LogAck, Connect, DialFails,
                  ReadResult, Crash, vars, listener
    <3> QED BY <1>4, <2>1, <3>1
  <2> QED BY <2>2, <2>3
<1>5. ASSUME NEW c \in Clients, NEW r \in item'[c] \union socket'[c] \union got'[c]
      PROVE  Holds(r.body, Parts(c, r.query))
  <2>1. CASE r \in item[c] \union socket[c] \union got[c]
    BY <1>3, <2>1
  <2>2. ASSUME NEW d, NEW s, HandOver(d, s), got' = got
        PROVE  r \in item[c] \union socket[c] \union got[c] \/ (c = d /\ r = s)
    BY <1>0, <1>5, <2>2 DEF HandOver, SenderTypes
  <2>3. ASSUME NEW p \in pending, Resend(p) PROVE Holds(r.body, Parts(c, r.query))
    <3>1. CASE c = p.client /\ r = Result(p.query, p.body)
      BY <1>3, <3>1 DEF Result
    <3> QED BY <2>1, <2>2, <2>3, <3>1 DEF Resend, clients
  <2>4. CASE SendResult
    <3>1. CASE c = Message.client /\ r = Result(Message.query, Body(Message))
      BY <1>2, <2>4, <3>1 DEF Accumulated, Result, SendResult
    <3> QED BY <2>1, <2>2, <2>4, <3>1 DEF SendResult, clients
  <2>5. ASSUME NEW d \in Clients, ReadResult(d) PROVE r \in item[c] \union socket[c] \union got[c]
    <3>1. PICK s \in socket[d] :
            got' = [got EXCEPT ![d] = IF Has(d, s.query) THEN @ ELSE @ \union {s}]
      BY <2>5 DEF ReadResult
    <3>2. item' = item /\ socket'[c] \subseteq socket[c]
      BY <1>0, <2>5 DEF ReadResult, senders, SenderTypes
    <3>3. got'[c] \subseteq got[c] \union socket[c]
      BY <1>0, <3>1 DEF SenderTypes
    <3> QED BY <1>5, <3>2, <3>3
  <2>6. ASSUME NEW d \in Clients, LogAck(d) \/ Connect(d)
        PROVE  r \in item[c] \union socket[c] \union got[c]
    BY <1>0, <1>5, <2>6 DEF LogAck, Connect, SenderTypes, links, clients
  <2>7. CASE Crash
    BY <1>5, <2>1, <2>7 DEF Crash
  <2>8. CASE UNCHANGED <<item, socket, got>>
    BY <1>5, <2>1, <2>8
  <2>9. \/ UNCHANGED <<item, socket, got>> \/ SendResult \/ Crash \/ (\E p \in pending : Resend(p))
        \/ \E d \in Clients : LogAck(d) \/ Connect(d) \/ ReadResult(d)
    BY DEF Next, Listen, Sender, Client, RecoverRecord, Recovered, Resent, Take, LogMessage,
           AckMessage, Restart, WriteRecord, ReadAck, DialFails, vars, senders, links, clients
  <2> QED BY <2>1, <2>3, <2>4, <2>5, <2>6, <2>7, <2>8, <2>9
<1> QED BY <1>4, <1>5

-----------------------------------------------------------------------------
(* The theorems. *)

LEMMA InitHolds == Init => ResultsInvariant
<1> SUFFICES ASSUME Init PROVE ResultsInvariant
  OBVIOUS
<1>1. TypeOK
  BY InitTypes
<1>2. /\ acked = 0 /\ pc = "recovering" /\ replayed = 0 /\ dup = [q \in Queries |-> 0]
      /\ acc = NoParts /\ pending = {} /\ hand = {} /\ file = << >>
      /\ \A c \in Clients : /\ sender[c] = "none" /\ item[c] = {} /\ socket[c] = {}
                            /\ ~ ackByte[c] /\ state[c] = "new" /\ got[c] = {}
  BY DEF Init
<1>3. Known = {} /\ Logged = {} /\ Range(file) = {} /\ DOMAIN file = {}
  BY <1>2 DEF Known, Logged, Live, Range
<1>4. MessagesOf(Known) = {} /\ MessagesOf(Logged) = {}
  BY <1>3 DEF MessagesOf
<1>5. Standing
  BY <1>2 DEF Standing, Live
<1>6. InOrder
  BY <1>2, <1>3 DEF InOrder
<1>7. DupIsAbove
  BY <1>2, <1>4 DEF DupIsAbove
<1>8. LoggedIsPast
  BY <1>2, <1>4 DEF LoggedIsPast
<1>9. \A c \in Clients : Delivery(c)
  BY <1>2 DEF Delivery
<1>10. AckRecordIsTrue
  BY <1>2, <1>3 DEF AckRecordIsTrue
<1>11. EndIsLogged
  BY <1>2, <1>3 DEF EndIsLogged
<1>12. Accumulated
  <2>1. ASSUME NEW c \in Clients, NEW q \in Accumulating
        PROVE  Holds(acc[c][q], PartsIn(Known, c, q))
    <3>1. acc[c][q] = << >> /\ PartsIn(Known, c, q) = {}
      BY <1>2, <1>4 DEF NoParts, PartsIn
    <3> QED BY <3>1, HoldsNothing
  <2> QED BY <1>2, <2>1 DEF Accumulated
<1>13. ResultsUnderWay
  BY <1>2 DEF ResultsUnderWay
<1> QED BY <1>1, <1>5, <1>6, <1>7, <1>8, <1>9, <1>10, <1>11, <1>12, <1>13 DEF ResultsInvariant

LEMMA InvariantStep == ResultsInvariant /\ [Next]_vars => ResultsInvariant'
<1> SUFFICES ASSUME ResultsInvariant, [Next]_vars PROVE ResultsInvariant'
  OBVIOUS
<1>1. /\ TypeOK /\ Standing /\ InOrder /\ DupIsAbove /\ LoggedIsPast
      /\ \A c \in Clients : Delivery(c)
      /\ AckRecordIsTrue /\ EndIsLogged /\ Accumulated /\ ResultsUnderWay
  BY DEF ResultsInvariant
<1>2. TypeOK' /\ Standing'
  BY <1>1, TypeStep, StandingStep
<1>3. InOrder' /\ DupIsAbove' /\ LoggedIsPast'
  BY <1>1, InOrderStep, DupIsAboveStep, LoggedIsPastStep
<1>4. \A c \in Clients : Delivery(c)'
  BY <1>1, DeliveryStep
<1>5. AckRecordIsTrue' /\ EndIsLogged'
  BY <1>1, AckRecordStep, EndIsLoggedStep
<1>6. Accumulated' /\ ResultsUnderWay'
  BY <1>1, AccumulatedStep, ResultsUnderWayStep
<1> QED BY <1>2, <1>3, <1>4, <1>5, <1>6 DEF ResultsInvariant

(* The gateway's log, duplicate handler, senders and clients keep          *)
(* ResultsInvariant, through any number of crashes and recoveries.         *)
THEOREM ResultsInvariantHolds == Spec => []ResultsInvariant
BY InitHolds, InvariantStep, PTL DEF Spec

(* Every variable keeps its type, and a sender has at most one result.     *)
THEOREM ResultsTypeCorrect == Spec => []TypeOK
<1>1. ResultsInvariant => TypeOK
  BY DEF ResultsInvariant
<1> QED BY <1>1, ResultsInvariantHolds, PTL

(* An ACK record in the recovery file, or on its way to it, is of a result *)
(* that its client has written down: no crash makes the gateway forget a   *)
(* result that is still owed.                                              *)
THEOREM AckRecordsAreTrue == Spec => []AckRecordIsTrue
<1>1. ResultsInvariant => AckRecordIsTrue
  BY DEF ResultsInvariant
<1> QED BY <1>1, ResultsInvariantHolds, PTL

(* The recovery file holds no message twice, whatever is redelivered or    *)
(* published again: recovery accumulates no part a second time.            *)
THEOREM MessagesRecordedOnce == Spec => []RecordedOnce
<1>1. ResultsInvariant => RecordedOnce
  <2> SUFFICES ASSUME ResultsInvariant PROVE RecordedOnce
    OBVIOUS
  <2>1. LogTypes /\ InOrder
    BY TypeParts DEF ResultsInvariant
  <2>2. ASSUME NEW i \in DOMAIN file, NEW j \in DOMAIN file, file[i].kind = "msg",
               file[i] = file[j], i < j
        PROVE  FALSE
    <3>1. file[i].msg.id < file[i].msg.id
      BY <2>1, <2>2 DEF InOrder, Below
    <3>2. file[i].msg.id \in Nat
      BY <2>1, <2>2, FileRecords, RecordFields, MessageFields
    <3> QED BY <3>1, <3>2
  <2>3. DOMAIN file \subseteq Nat
    BY <2>1, FileRecords
  <2> QED BY <2>2, <2>3 DEF RecordedOnce
<1> QED BY <1>1, ResultsInvariantHolds, PTL

(* A result that a client writes down holds every part of it once and in   *)
(* the order of the queue, however often the gateway died and sent it      *)
(* again, unless a crash took the record of an acknowledged message.       *)
THEOREM ResultsWhole == Spec => []ResultsAreWhole
<1>1. ResultsInvariant => ResultsAreWhole
  BY DEF ResultsInvariant, ResultsUnderWay, ResultsAreWhole
<1> QED BY <1>1, ResultsInvariantHolds, PTL
=============================================================================
