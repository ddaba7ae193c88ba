---------------------------- MODULE UploadProofs ----------------------------
(***************************************************************************)
(* Every batch the client has moved past is at every destination, and a    *)
(* file that is not rewound gets everywhere in order and once, whatever    *)
(* its length, the batch size, the number of destinations and how often    *)
(* the gateway dies.                                                       *)
(***************************************************************************)
EXTENDS UploadInv, SequenceTheorems, TLAPS

USE UploadAssumption DEF EndOfFile

(* The types in two parts, since the provers treat Booleans apart.         *)
Booleans == conn \in BOOLEAN /\ rewound \in BOOLEAN /\ eofCut \in BOOLEAN

Numbers ==
  /\ cpc \in {"sending", "waiting", "final", "done"}
  /\ read \in 0..Lines /\ start \in Nat /\ sent \in 0..BatchSize /\ batch \in Nat
  /\ up \in Seq(Messages) /\ acks \in Nat
  /\ gpc \in {"idle", "chunk", "ack", "eof", "down"}
  /\ chunk \in Seq(1..Lines) /\ Len(chunk) <= BatchSize
  /\ item \in Messages /\ at \in 0..(Dsts - 1)
  /\ expect \in [1..Dsts -> Nat]
  /\ lines \in [1..Dsts -> Seq(1..Lines)]
  /\ ended \in [1..Dsts -> Nat]
  /\ crashes \in 0..MaxCrashes

LEMMA TypeParts == TypeOK <=> Booleans /\ Numbers
BY DEF TypeOK, Booleans, Numbers

(* What the fields of a message are, and what makes one.                   *)
LEMMA MessageFields ==
  ASSUME NEW m \in Messages
  PROVE  m.batch \in Nat /\ m.line \in 0..Lines
BY DEF Messages

LEMMA MessageMade ==
  ASSUME NEW b \in Nat, NEW l \in 0..Lines
  PROVE  [batch |-> b, line |-> l] \in Messages
BY DEF Messages

(* A destination is set.                                                   *)
LEMMA SetOne ==
  ASSUME NEW S, NEW f \in [1..Dsts -> S], NEW d \in 1..Dsts, NEW v \in S
  PROVE  /\ [f EXCEPT ![d] = v] \in [1..Dsts -> S]
         /\ [f EXCEPT ![d] = v][d] = v
         /\ \A e \in (1..Dsts) \ {d} : [f EXCEPT ![d] = v][e] = f[e]
OBVIOUS

(* publish moves on to the next destination, or is through with them.      *)
LEMMA Advanced ==
  ASSUME at \in 0..(Dsts - 1), NEW then, Advance(then)
  PROVE  /\ at + 1 \in 1..Dsts /\ at' \in 0..(Dsts - 1)
         /\ \/ at + 1 = Dsts /\ at' = 0 /\ gpc' = then
            \/ at + 1 < Dsts /\ at' = at + 1 /\ gpc' = gpc
BY DEF Advance

(* The invariant holds in the initial state.                               *)
LEMMA InitHolds == Init => UploadInvariant
<1> SUFFICES ASSUME Init PROVE UploadInvariant
  OBVIOUS
<1>1. Booleans
  BY DEF Booleans, Init
<1>2. Numbers
  <2>1. item \in Messages
    BY MessageMade DEF Init
  <2> QED BY <2>1 DEF Init, Numbers
<1>3. TypeOK
  BY <1>1, <1>2, TypeParts
<1>4. Wire
  BY DEF Init, Wire, Acks, BatchFilled, Standing, NoConnection, OnItsWay, Underway, BeingPublished
<1>5. Published
  BY DEF Init, Published, MovedPastIsPublished
<1>6. InOrder
  BY DEF Init, InOrder, Reading, Given, FirstLines, Underway
<1> QED BY <1>3, <1>4, <1>5, <1>6 DEF UploadInvariant

LEMMA BooleanStep ==
  ASSUME Booleans, [Next]_vars
  PROVE  Booleans'
BY DEF Booleans, vars, Next, Client, Gateway, SendLine, SendEof, ReadAck, ReadFinalAck,
       RewindBatch, RewindFile, Reconnect, Take, PublishChunk, SendAck, PublishEof, Restart,
       Crash, link, history

(* The types; the chunk stays within the batch size since an idle gateway  *)
(* has room for one more record.                                           *)
LEMMA NumberStep ==
  ASSUME Numbers, Standing, [Next]_vars
  PROVE  Numbers'
<1> USE DEF Numbers
<1>1. CASE SendLine
  <2>1. up' \in Seq(Messages)
    <3>1. [batch |-> batch, line |-> read + 1] \in Messages
      BY <1>1, MessageMade DEF SendLine
    <3> QED BY <1>1, <3>1 DEF SendLine, Write
  <2>2. read' \in 0..Lines /\ sent' \in 0..BatchSize /\ cpc' \in {"sending", "waiting"}
    <3>1. Lines \in Nat /\ BatchSize \in Nat
      BY UploadAssumption
    <3> QED BY <1>1, <3>1 DEF SendLine
  <2>3. UNCHANGED <<start, batch, acks, gpc, chunk, item, at, expect, lines, ended, crashes>>
    BY <1>1 DEF SendLine, gateway, nodes, history
  <2> QED BY <2>1, <2>2, <2>3
<1>2. CASE SendEof
  <2>1. up' \in Seq(Messages)
    <3>1. [batch |-> batch, line |-> 0] \in Messages
      BY MessageMade
    <3> QED BY <1>2, <3>1 DEF SendEof, Write
  <2> QED BY <1>2, <2>1 DEF SendEof, gateway, nodes, history
<1>3. CASE ReadAck
  BY <1>3 DEF ReadAck, gateway, nodes, history
<1>4. CASE ReadFinalAck
  BY <1>4 DEF ReadFinalAck, gateway, nodes, history
<1>5. ASSUME NEW to \in Nat, Reconnect(to) PROVE Numbers'
  <2>1. read' \in 0..Lines
    <3>1. Lines \in Nat
      BY UploadAssumption
    <3> HIDE DEF Numbers
    <3> QED BY <1>5, <3>1 DEF Reconnect
  <2>2. up' \in Seq(Messages) /\ acks' \in Nat /\ sent' \in 0..BatchSize
    <3>1. BatchSize \in Nat
      BY UploadAssumption
    <3> HIDE DEF Numbers
    <3> QED BY <1>5, <3>1 DEF Reconnect
  <2>3. /\ cpc' = "sending"
        /\ UNCHANGED <<start, batch, gpc, chunk, item, at, expect, lines, ended, crashes>>
    BY <1>5 DEF Reconnect, gateway, nodes
  <2> QED BY <2>1, <2>2, <2>3
<1>6. CASE RewindBatch
  BY <1>5, <1>6 DEF RewindBatch
<1>7. CASE RewindFile
  BY <1>5, <1>7 DEF RewindFile
<1>8. CASE Take
  <2>1. Head(up) \in Messages /\ Tail(up) \in Seq(Messages)
    BY <1>8 DEF Take
  <2>2. Head(up).line \in 0..Lines
    BY <2>1, MessageFields
  <2>3. CASE Head(up).line = 0
    BY <1>8, <2>1, <2>3 DEF Take, client, nodes, history
  <2>4. CASE Head(up).line # 0
    <3>1. /\ Append(chunk, Head(up).line) \in Seq(1..Lines)
          /\ Len(Append(chunk, Head(up).line)) = Len(chunk) + 1
      BY <2>2, <2>4
    <3>2. chunk' \in Seq(1..Lines) /\ Len(chunk') <= BatchSize
      BY <1>8, <2>4, <3>1 DEF Take, Standing
    <3>3. item' \in Messages /\ up' \in Seq(Messages) /\ gpc' \in {"chunk", "idle"}
      BY <1>8, <2>1 DEF Take
    <3> QED BY <1>8, <3>2, <3>3 DEF Take, client, nodes, history
  <2> QED BY <2>3, <2>4
<1>9. CASE PublishChunk
  <2>1. /\ at + 1 \in 1..Dsts /\ at' \in 0..(Dsts - 1) /\ gpc' \in {"chunk", "ack"}
        /\ item.batch + 1 \in Nat
    <3>1. Advance("ack") /\ gpc = "chunk"
      BY <1>9 DEF PublishChunk
    <3>2. item.batch \in Nat
      BY MessageFields
    <3>3. at + 1 \in 1..Dsts /\ at' \in 0..(Dsts - 1) /\ (gpc' = "ack" \/ gpc' = gpc)
      BY <3>1, Advanced
    <3> QED BY <3>1, <3>2, <3>3
  <2>2. chunk' \in Seq(1..Lines) /\ Len(chunk') <= BatchSize
    <3>1. chunk' = <<>> \/ chunk' = chunk
      BY <1>9 DEF PublishChunk
    <3>2. CASE chunk' = <<>>
      BY <3>2
    <3>3. CASE chunk' = chunk
      BY <3>3
    <3> QED BY <3>1, <3>2, <3>3
  <2>3. CASE Seen(at + 1, item.batch)
    <3>1. UNCHANGED nodes
      BY <1>9, <2>3 DEF PublishChunk
    <3> QED BY <1>9, <2>1, <2>2, <3>1 DEF PublishChunk, nodes, client, link, history
  <2>4. CASE ~ Seen(at + 1, item.batch)
    <3>1. /\ expect' = [expect EXCEPT ![at + 1] = item.batch + 1]
          /\ lines' = [lines EXCEPT ![at + 1] = @ \o chunk] /\ ended' = ended
      BY <1>9, <2>4 DEF PublishChunk
    <3>2. lines[at + 1] \o chunk \in Seq(1..Lines)
      BY <2>1
    <3>3. expect' \in [1..Dsts -> Nat] /\ lines' \in [1..Dsts -> Seq(1..Lines)]
      BY <2>1, <3>1, <3>2, SetOne
    <3> QED BY <1>9, <2>1, <2>2, <3>1, <3>3 DEF PublishChunk, client, link, history
  <2> QED BY <2>3, <2>4
<1>10. CASE SendAck
  BY <1>10 DEF SendAck, client, nodes, history
<1>11. CASE PublishEof
  <2>1. /\ at + 1 \in 1..Dsts /\ at' \in 0..(Dsts - 1) /\ gpc' \in {"eof", "idle"}
        /\ item.batch + 2 \in Nat
    <3>1. Advance("idle") /\ gpc = "eof"
      BY <1>11 DEF PublishEof
    <3>2. item.batch \in Nat
      BY MessageFields
    <3>3. at \in 0..(Dsts - 1)
      OBVIOUS
    <3> HIDE DEF Numbers
    <3>4. item.batch + 2 \in Nat
      BY <3>2
    <3> QED BY <3>1, <3>3, <3>4, Advanced
  <2>2. expect' \in [1..Dsts -> Nat] /\ ended' \in [1..Dsts -> Nat] /\ lines' = lines
    <3>1. CASE Seen(at + 1, item.batch + 1)
      BY <1>11, <3>1 DEF PublishEof, nodes
    <3>2. CASE ~ Seen(at + 1, item.batch + 1)
      <4>1. /\ expect' = [expect EXCEPT ![at + 1] = item.batch + 2]
            /\ ended' = [ended EXCEPT ![at + 1] = @ + 1] /\ lines' = lines
        BY <1>11, <3>2 DEF PublishEof
      <4>2. ended[at + 1] + 1 \in Nat
        BY <2>1
      <4> QED BY <2>1, <4>1, <4>2, SetOne
    <3> QED BY <3>1, <3>2
  <2> QED BY <1>11, <2>1, <2>2 DEF PublishEof, client, link, history
<1>12. CASE Restart
  BY <1>12 DEF Restart, client, link, nodes, history
<1>13. CASE Crash
  <2>1. crashes' = crashes + 1 /\ crashes < MaxCrashes
    BY <1>13 DEF Crash
  <2>2. chunk' \in Seq(1..Lines) /\ Len(chunk') = 0 /\ up' \in Seq(Messages)
    BY <1>13 DEF Crash
  <2> QED BY <1>13, <2>1, <2>2 DEF Crash, client, nodes
<1>14. CASE UNCHANGED vars
  BY <1>14 DEF vars
<1> QED
  BY <1>1, <1>2, <1>3, <1>4, <1>6, <1>7, <1>8, <1>9, <1>10, <1>11, <1>12, <1>13, <1>14
  DEF Next, Client, Gateway

(* A sequence that a message joins, and one that its first leaves.         *)
LEMMA Appended ==
  ASSUME NEW S, NEW q \in Seq(S), NEW m \in S
  PROVE  /\ Append(q, m) # <<>> /\ Len(q) \in Nat
         /\ Len(Append(q, m)) = Len(q) + 1
         /\ \A i \in 1..Len(q) : Append(q, m)[i] = q[i]
         /\ Append(q, m)[Len(q) + 1] = m
BY AppendProperties

LEMMA TakenMessage ==
  ASSUME NEW S, NEW q \in Seq(S), q # <<>>
  PROVE  /\ Len(q) \in Nat \ {0} /\ Head(q) = q[1] /\ q[1] \in S
         /\ Len(Tail(q)) = Len(q) - 1
         /\ \A i \in 1..Len(Tail(q)) : i + 1 \in 1..Len(q) /\ Tail(q)[i] = q[i + 1]
<1>1. Len(q) \in Nat \ {0}
  OBVIOUS
<1>2. Head(q) = q[1] /\ q[1] \in S /\ Len(Tail(q)) = Len(q) - 1
  BY <1>1, HeadTailProperties
<1>3. ASSUME NEW i \in 1..Len(Tail(q)) PROVE i + 1 \in 1..Len(q) /\ Tail(q)[i] = q[i + 1]
  BY <1>1, <1>2, HeadTailProperties
<1> QED BY <1>1, <1>2, <1>3

(* Messages of batch b, with an end of file only as their last, when there *)
(* is one.                                                                 *)
OfBatch(q, b, last) ==
  /\ \A i \in 1..Len(q) : q[i].batch = b
  /\ \A i \in 1..Len(q) : q[i].line = EndOfFile <=> last /\ i = Len(q)

LEMMA OfBatchAppended ==
  ASSUME NEW q \in Seq(Messages), NEW m \in Messages, NEW b,
         OfBatch(q, b, FALSE), m.batch = b
  PROVE  OfBatch(Append(q, m), b, m.line = EndOfFile)
<1> DEFINE r == Append(q, m)
<1>1. /\ Len(r) = Len(q) + 1 /\ Len(q) \in Nat /\ r[Len(r)] = m
      /\ \A i \in 1..Len(q) : r[i] = q[i]
  BY Appended
<1> HIDE DEF r
<1>2. ASSUME NEW i \in 1..Len(r)
      PROVE  r[i].batch = b /\ (r[i].line = EndOfFile <=> m.line = EndOfFile /\ i = Len(r))
  <2>1. CASE i = Len(r)
    BY <1>1, <2>1
  <2>2. CASE i # Len(r)
    <3>1. i \in 1..Len(q)
      BY <1>1, <2>2
    <3> QED BY <1>1, <2>2, <3>1 DEF OfBatch
  <2> QED BY <2>1, <2>2
<1> QED BY <1>2 DEF OfBatch, r

LEMMA OfBatchTaken ==
  ASSUME NEW q \in Seq(Messages), q # <<>>, NEW b, NEW last \in BOOLEAN, OfBatch(q, b, last)
  PROVE  /\ Head(q).batch = b
         /\ Head(q).line = EndOfFile <=> last /\ Len(q) = 1
         /\ OfBatch(Tail(q), b, last)
<1> DEFINE r == Tail(q)
<1>1. /\ Len(q) \in Nat \ {0} /\ Head(q) = q[1] /\ Len(r) = Len(q) - 1
      /\ \A i \in 1..Len(r) : i + 1 \in 1..Len(q) /\ r[i] = q[i + 1]
  BY TakenMessage
<1> HIDE DEF r
<1>2. Head(q).batch = b /\ (Head(q).line = EndOfFile <=> last /\ Len(q) = 1)
  <2>1. 1 \in 1..Len(q)
    BY <1>1
  <2>2. Head(q).batch = b /\ (q[1].line = EndOfFile <=> last /\ 1 = Len(q))
    BY <1>1, <2>1 DEF OfBatch
  <2> QED BY <1>1, <2>2
<1>3. ASSUME NEW i \in 1..Len(r)
      PROVE  r[i].batch = b /\ (r[i].line = EndOfFile <=> last /\ i = Len(r))
  <2>1. i + 1 \in 1..Len(q) /\ r[i] = q[i + 1] /\ (i + 1 = Len(q) <=> i = Len(r))
    BY <1>1
  <2>2. q[i + 1].batch = b /\ (q[i + 1].line = EndOfFile <=> last /\ i + 1 = Len(q))
    BY <2>1 DEF OfBatch
  <2> QED BY <2>1, <2>2
<1> QED BY <1>2, <1>3 DEF OfBatch, r

(* Where the records of the current batch are.                             *)
LEMMA WireStep ==
  ASSUME Numbers, Numbers', Wire, [Next]_vars
  PROVE  Wire'
<1> USE DEF Numbers
<1>0. Acks /\ BatchFilled /\ Standing /\ NoConnection /\ OnItsWay /\ BeingPublished
  BY DEF Wire
<1>1. CASE SendLine
  <2>1. Acks'
    BY <1>0, <1>1 DEF SendLine, Write, gateway, Acks, BeingPublished, NoConnection, OnItsWay
  <2>2. BatchFilled'
    BY <1>0, <1>1 DEF SendLine, Write, gateway, BatchFilled
  <2>3. Standing'
    BY <1>0, <1>1 DEF SendLine, Write, gateway, Standing, BeingPublished
  <2>4. NoConnection'
    BY <1>0, <1>1 DEF SendLine, Write, gateway, NoConnection
  <2>5. OnItsWay'
    <3>1. conn' = conn /\ gpc' = gpc /\ chunk' = chunk /\ acks' = acks /\ batch' = batch
      BY <1>1 DEF SendLine, gateway
    <3>2. CASE ~ conn
      BY <3>1, <3>2 DEF OnItsWay, Underway
    <3>3. CASE conn
      <4>1. gpc = "idle" /\ acks = 0 /\ cpc = "sending"
        BY <1>0, <1>1, <3>3 DEF SendLine, OnItsWay, BeingPublished, Acks
      <4>2. Len(chunk) + Len(up) = sent /\ OfBatch(up, batch, FALSE)
        BY <1>0, <3>3, <4>1 DEF OnItsWay, Underway, OfBatch
      <4> DEFINE m == [batch |-> batch, line |-> read + 1]
      <4>3. up' = Append(up, m) /\ m \in Messages
        BY <1>1, <3>3, MessageMade DEF SendLine, Write
      <4>4. m.batch = batch /\ m.line = read + 1 /\ read + 1 \in Nat
        OBVIOUS
      <4> HIDE DEF m
      <4>5. OfBatch(up', batch, FALSE)
        <5>1. OfBatch(up', batch, m.line = EndOfFile)
          BY <4>2, <4>3, <4>4, OfBatchAppended
        <5>2. m.line = EndOfFile <=> FALSE
          BY <4>4
        <5> HIDE DEF Numbers
        <5> QED BY <5>1, <5>2 DEF OfBatch
      <4>6. Len(up') = Len(up) + 1 /\ up' # <<>>
        <5>1. up \in Seq(Messages)
          OBVIOUS
        <5> HIDE DEF Numbers
        <5> QED BY <4>3, <5>1, Appended
      <4>7. Len(chunk') + Len(up') = sent + 1
        <5>1. Len(chunk) \in Nat /\ Len(up) \in Nat /\ sent \in Nat
          BY LenProperties
        <5> HIDE DEF Numbers
        <5> QED BY <3>1, <4>2, <4>6, <5>1
      <4>8. cpc' # "final" /\ cpc' # "done" /\ sent' = sent + 1
        BY <1>1, <4>1 DEF SendLine
      <4> HIDE DEF Numbers
      <4>9. OnItsWay!1'
        BY <3>1, <4>1, <4>5 DEF OfBatch
      <4>10. OnItsWay!2'
        BY <3>1, <4>5, <4>6, <4>7, <4>8 DEF OfBatch
      <4> QED BY <3>1, <4>1, <4>8, <4>9, <4>10 DEF OnItsWay
    <3> QED BY <3>2, <3>3
  <2>6. BeingPublished'
    BY <1>0, <1>1 DEF SendLine, Write, gateway, BeingPublished, Acks, BatchFilled, Standing, NoConnection, OnItsWay, Underway
  <2> QED BY <2>1, <2>2, <2>3, <2>4, <2>5, <2>6 DEF Wire
<1>2. CASE SendEof
  <2>1. Acks'
    BY <1>0, <1>2 DEF SendEof, Write, gateway, Acks, BeingPublished, NoConnection, OnItsWay
  <2>2. BatchFilled'
    BY <1>0, <1>2 DEF SendEof, Write, gateway, BatchFilled
  <2>3. Standing'
    BY <1>0, <1>2 DEF SendEof, Write, gateway, Standing, BeingPublished
  <2>4. NoConnection'
    BY <1>0, <1>2 DEF SendEof, Write, gateway, NoConnection
  <2>5. OnItsWay'
    <3>1. conn' = conn /\ gpc' = gpc /\ chunk' = chunk /\ acks' = acks /\ batch' = batch
      BY <1>2 DEF SendEof, gateway
    <3>2. CASE ~ conn
      BY <3>1, <3>2 DEF OnItsWay, Underway
    <3>3. CASE conn
      <4>1. gpc = "idle" /\ acks = 0 /\ cpc = "sending"
        BY <1>0, <1>2, <3>3 DEF SendEof, OnItsWay, BeingPublished, Acks
      <4>2. Len(chunk) + Len(up) = sent /\ OfBatch(up, batch, FALSE)
        BY <1>0, <3>3, <4>1 DEF OnItsWay, Underway, OfBatch
      <4> DEFINE m == [batch |-> batch, line |-> 0]
      <4>3. up' = Append(up, m) /\ m \in Messages
        BY <1>2, <3>3, MessageMade DEF SendEof, Write
      <4>4. m.batch = batch /\ m.line = 0 /\ 0 \in Nat
        OBVIOUS
      <4> HIDE DEF m
      <4>5. OfBatch(up', batch, TRUE)
        <5>1. OfBatch(up', batch, m.line = EndOfFile)
          BY <4>2, <4>3, <4>4, OfBatchAppended
        <5>2. m.line = EndOfFile <=> TRUE
          BY <4>4
        <5> HIDE DEF Numbers
        <5> QED BY <5>1, <5>2 DEF OfBatch
      <4>6. Len(up') = Len(up) + 1 /\ up' # <<>>
        <5>1. up \in Seq(Messages)
          OBVIOUS
        <5> HIDE DEF Numbers
        <5> QED BY <4>3, <5>1, Appended
      <4>7. Len(chunk') + Len(up') = sent + 1
        <5>1. Len(chunk) \in Nat /\ Len(up) \in Nat /\ sent \in Nat
          BY LenProperties
        <5> HIDE DEF Numbers
        <5> QED BY <3>1, <4>2, <4>6, <5>1
      <4>8. cpc' = "final" /\ sent' = sent
        BY <1>2, <4>1 DEF SendEof
      <4> HIDE DEF Numbers
      <4>9. OnItsWay!1'
        BY <3>1, <4>1, <4>5 DEF OfBatch
      <4>10. OnItsWay!2'
        BY <3>1, <4>5, <4>6, <4>7, <4>8 DEF OfBatch
      <4> QED BY <3>1, <4>1, <4>8, <4>9, <4>10 DEF OnItsWay
    <3> QED BY <3>2, <3>3
  <2>6. BeingPublished'
    BY <1>0, <1>2 DEF SendEof, Write, gateway, BeingPublished, Acks, BatchFilled, Standing, NoConnection, OnItsWay, Underway
  <2> QED BY <2>1, <2>2, <2>3, <2>4, <2>5, <2>6 DEF Wire
<1>3. CASE ReadAck
  <2>1. Acks'
    BY <1>0, <1>3 DEF ReadAck, gateway, Acks, BeingPublished, NoConnection, OnItsWay
  <2>2. BatchFilled'
    BY <1>0, <1>3 DEF ReadAck, gateway, BatchFilled
  <2>3. Standing'
    BY <1>0, <1>3 DEF ReadAck, gateway, Standing, BeingPublished
  <2>4. NoConnection'
    BY <1>0, <1>3 DEF ReadAck, gateway, NoConnection
  <2>5. OnItsWay'
    <3>1. /\ conn' = conn /\ gpc' = gpc /\ chunk' = chunk /\ up' = up /\ acks' = 0
          /\ cpc' = "sending" /\ sent' = 0 /\ acks = 1 /\ cpc = "waiting"
      BY <1>0, <1>3 DEF ReadAck, gateway, Acks
    <3>2. conn => up = <<>> /\ chunk = <<>> /\ gpc # "down"
      BY <1>0, <3>1 DEF OnItsWay
    <3> HIDE DEF Numbers
    <3>3. CASE ~ conn
      BY <3>1, <3>3 DEF OnItsWay, Underway
    <3>4. CASE conn
      BY <3>1, <3>2, <3>4 DEF OnItsWay, Underway
    <3> QED BY <3>3, <3>4
  <2>6. BeingPublished'
    <3>1. conn' = conn /\ gpc' = gpc /\ acks = 1 /\ cpc = "waiting"
      BY <1>0, <1>3 DEF ReadAck, gateway, Acks
    <3>2. conn => gpc = "idle"
      BY <1>0, <3>1 DEF OnItsWay, BeingPublished
    <3> QED BY <3>1, <3>2 DEF BeingPublished
  <2> QED BY <2>1, <2>2, <2>3, <2>4, <2>5, <2>6 DEF Wire
<1>4. CASE ReadFinalAck
  <2>1. Acks'
    BY <1>0, <1>4 DEF ReadFinalAck, gateway, Acks, BeingPublished, NoConnection, OnItsWay
  <2>2. BatchFilled'
    BY <1>0, <1>4 DEF ReadFinalAck, gateway, BatchFilled
  <2>3. Standing'
    BY <1>0, <1>4 DEF ReadFinalAck, gateway, Standing, BeingPublished
  <2>4. NoConnection'
    BY <1>0, <1>4 DEF ReadFinalAck, gateway, NoConnection
  <2>5. OnItsWay'
    BY <1>0, <1>4 DEF ReadFinalAck, gateway, OnItsWay, Acks, BatchFilled, Standing, NoConnection, BeingPublished, Underway
  <2>6. BeingPublished'
    BY <1>0, <1>4 DEF ReadFinalAck, gateway, BeingPublished, Acks, BatchFilled, Standing, NoConnection, OnItsWay, Underway
  <2> QED BY <2>1, <2>2, <2>3, <2>4, <2>5, <2>6 DEF Wire
<1>5. CASE RewindBatch
  <2>1. Acks'
    BY <1>0, <1>5 DEF RewindBatch, Reconnect, gateway, Acks, BeingPublished, NoConnection, OnItsWay
  <2>2. BatchFilled'
    BY <1>0, <1>5 DEF RewindBatch, Reconnect, gateway, BatchFilled
  <2>3. Standing'
    BY <1>0, <1>5 DEF RewindBatch, Reconnect, gateway, Standing, BeingPublished
  <2>4. NoConnection'
    BY <1>0, <1>5 DEF RewindBatch, Reconnect, gateway, NoConnection
  <2>5. OnItsWay'
    BY <1>0, <1>5 DEF RewindBatch, Reconnect, gateway, OnItsWay, Acks, BatchFilled, Standing, NoConnection, BeingPublished, Underway
  <2>6. BeingPublished'
    BY <1>0, <1>5 DEF RewindBatch, Reconnect, gateway, BeingPublished, Acks, BatchFilled, Standing, NoConnection, OnItsWay, Underway
  <2> QED BY <2>1, <2>2, <2>3, <2>4, <2>5, <2>6 DEF Wire
<1>6. CASE RewindFile
  <2>1. Acks'
    BY <1>0, <1>6 DEF RewindFile, Reconnect, gateway, Acks, BeingPublished, NoConnection, OnItsWay
  <2>2. BatchFilled'
    BY <1>0, <1>6 DEF RewindFile, Reconnect, gateway, BatchFilled
  <2>3. Standing'
    BY <1>0, <1>6 DEF RewindFile, Reconnect, gateway, Standing, BeingPublished
  <2>4. NoConnection'
    BY <1>0, <1>6 DEF RewindFile, Reconnect, gateway, NoConnection
  <2>5. OnItsWay'
    BY <1>0, <1>6 DEF RewindFile, Reconnect, gateway, OnItsWay, Acks, BatchFilled, Standing, NoConnection, BeingPublished, Underway
  <2>6. BeingPublished'
    BY <1>0, <1>6 DEF RewindFile, Reconnect, gateway, BeingPublished, Acks, BatchFilled, Standing, NoConnection, OnItsWay, Underway
  <2> QED BY <2>1, <2>2, <2>3, <2>4, <2>5, <2>6 DEF Wire
<1>7. CASE Take
  <2>1. Acks'
    BY <1>0, <1>7 DEF Take, client, Acks, BeingPublished, NoConnection, OnItsWay
  <2>2. BatchFilled'
    BY <1>0, <1>7 DEF Take, client, BatchFilled
  <2>3. Standing'
    BY <1>0, <1>7 DEF Take, client, Standing, BeingPublished
  <2>4. NoConnection'
    BY <1>0, <1>7 DEF Take, client, NoConnection
  <2>5. OnItsWay'
    <3>1. /\ conn' = conn /\ acks' = acks /\ cpc' = cpc /\ sent' = sent /\ batch' = batch
          /\ up # <<>> /\ gpc = "idle" /\ up' = Tail(up) /\ gpc' \in {"idle", "chunk"}
      BY <1>7 DEF Take, client
    <3>2. conn /\ acks = 0 /\ cpc # "done"
      BY <1>0, <3>1 DEF NoConnection, OnItsWay, Acks
    <3>3. /\ OfBatch(up, batch, cpc = "final")
          /\ Len(chunk) + Len(up) = (IF cpc = "final" THEN sent + 1 ELSE sent)
      BY <1>0, <3>1, <3>2 DEF OnItsWay, Underway, OfBatch
    <3>4. /\ Head(up).line = EndOfFile <=> cpc = "final" /\ Len(up) = 1
          /\ OfBatch(up', batch, cpc = "final")
      BY <3>1, <3>3, OfBatchTaken
    <3>5. Len(up) \in Nat \ {0} /\ Len(up') = Len(up) - 1 /\ Head(up).line \in 0..Lines
      BY <3>1, TakenMessage, MessageFields
    <3>6. gpc' = "idle" => ~ (cpc = "final" /\ Len(up) = 1) /\ Len(chunk') = Len(chunk) + 1
      <4>1. gpc' = "idle" => Head(up).line # EndOfFile /\ chunk' = Append(chunk, Head(up).line)
        BY <1>7 DEF Take
      <4>2. ASSUME gpc' = "idle" PROVE Len(chunk') = Len(chunk) + 1
        BY <3>5, <4>1, <4>2, Appended
      <4> QED BY <3>4, <4>1, <4>2
    <3>7. gpc' = "idle" => /\ Len(chunk') + Len(up') = (IF cpc = "final" THEN sent + 1 ELSE sent)
                           /\ cpc = "final" => up' # <<>>
      <4>1. Len(chunk) \in Nat
        BY LenProperties
      <4>2. Len(<<>>) = 0
        OBVIOUS
      <4> HIDE DEF Numbers
      <4>3. cpc = "final" /\ gpc' = "idle" => Len(up') # 0
        BY <3>5, <3>6
      <4>4. gpc' = "idle" => Len(chunk') + Len(up') = Len(chunk) + Len(up)
        BY <3>5, <3>6, <4>1
      <4> QED BY <3>3, <4>2, <4>3, <4>4
    <3> HIDE DEF Numbers
    <3> QED BY <3>1, <3>2, <3>4, <3>7 DEF OnItsWay, Underway, OfBatch
  <2>6. BeingPublished'
    <3>1. /\ conn' = conn /\ acks' = acks /\ cpc' = cpc /\ sent' = sent /\ batch' = batch
          /\ up # <<>> /\ gpc = "idle" /\ up' = Tail(up) /\ gpc' \in {"idle", "chunk"}
          /\ item' = Head(up)
      BY <1>7 DEF Take, client
    <3>2. conn /\ acks = 0 /\ cpc # "done"
      BY <1>0, <3>1 DEF NoConnection, OnItsWay, Acks
    <3>3. /\ OfBatch(up, batch, cpc = "final")
          /\ Len(chunk) + Len(up) = (IF cpc = "final" THEN sent + 1 ELSE sent)
      BY <1>0, <3>1, <3>2 DEF OnItsWay, Underway, OfBatch
    <3>4. /\ item'.batch = batch
          /\ item'.line = EndOfFile <=> cpc = "final" /\ Len(up) = 1
      BY <3>1, <3>3, OfBatchTaken
    <3>5. /\ Len(up) \in Nat \ {0} /\ Len(up') = Len(up) - 1 /\ Head(up).line \in 0..Lines
          /\ Len(chunk) \in Nat
      BY <3>1, TakenMessage, MessageFields, LenProperties
    <3>6. /\ Len(chunk) < BatchSize
          /\ cpc = "waiting" => sent = BatchSize
          /\ cpc # "waiting" => sent < BatchSize
      BY <1>0, <3>1 DEF Standing, BatchFilled
    <3>7. SUFFICES ASSUME gpc' = "chunk"
                   PROVE  /\ Len(up') = 0 /\ cpc \in {"waiting", "final"}
                          /\ item'.line = EndOfFile <=> cpc # "waiting"
                          /\ Len(chunk') = sent
      <4>1. up' \in Seq(Messages)
        OBVIOUS
      <4> HIDE DEF Numbers
      <4>2. Len(up') = 0 => up' = <<>>
        BY <4>1, EmptySeq
      <4>3. CASE gpc' = "idle"
        BY <4>3 DEF BeingPublished
      <4>4. CASE gpc' = "chunk"
        <5>1. /\ up' = <<>> /\ item'.batch = batch' /\ cpc' \in {"waiting", "final"}
              /\ item'.line = EndOfFile <=> cpc' # "waiting"
              /\ Len(chunk') = sent' /\ acks' = 0
          BY <3>1, <3>2, <3>4, <4>2, <4>4
        <5> QED BY <4>4, <5>1 DEF BeingPublished
      <4> QED BY <3>1, <4>3, <4>4
    <3>8. CASE item'.line = EndOfFile
      <4>1. cpc = "final" /\ Len(up) = 1 /\ chunk' = chunk
        BY <1>7, <3>1, <3>4, <3>8 DEF Take
      <4> HIDE DEF Numbers
      <4>2. Len(up') = 0 /\ Len(chunk) + 1 = sent + 1
        BY <3>3, <3>5, <4>1
      <4>3. sent \in Nat
        <5>1. Numbers
          OBVIOUS
        <5> QED BY <5>1 DEF Numbers
      <4>4. Len(chunk') = sent
        BY <3>5, <4>1, <4>2, <4>3
      <4> QED BY <3>8, <4>1, <4>2, <4>4
    <3>9. CASE item'.line # EndOfFile
      <4>1. Len(chunk) + 1 >= BatchSize /\ chunk' = Append(chunk, Head(up).line)
        BY <1>7, <3>1, <3>7, <3>9 DEF Take
      <4>2. Len(chunk') = Len(chunk) + 1
        BY <3>1, <3>5, <3>9, <4>1, Appended
      <4>3. cpc \in {"sending", "waiting", "final"} /\ sent \in Nat
        BY <3>2
      <4> HIDE DEF Numbers
      <4>4. cpc # "final"
        BY <3>3, <3>4, <3>5, <3>6, <3>9, <4>1, <4>3
      <4>5. cpc = "waiting" /\ Len(up) = 1
        BY <3>3, <3>5, <3>6, <4>1, <4>3, <4>4
      <4>6. Len(chunk') = sent /\ Len(up') = 0
        BY <3>3, <3>5, <4>2, <4>5
      <4> QED BY <3>9, <4>5, <4>6
    <3> QED BY <3>8, <3>9
  <2> QED BY <2>1, <2>2, <2>3, <2>4, <2>5, <2>6 DEF Wire
<1>8. CASE PublishChunk
  <2>1. Acks'
    BY <1>0, <1>8 DEF PublishChunk, Advance, client, link, Acks, BeingPublished, NoConnection, OnItsWay
  <2>2. BatchFilled'
    BY <1>0, <1>8 DEF PublishChunk, Advance, client, link, BatchFilled
  <2>3. Standing'
    BY <1>0, <1>8 DEF PublishChunk, Advance, client, link, Standing, BeingPublished
  <2>4. NoConnection'
    BY <1>0, <1>8 DEF PublishChunk, Advance, client, link, NoConnection
  <2>5. OnItsWay'
    BY <1>0, <1>8 DEF PublishChunk, Advance, client, link, OnItsWay, Acks, BatchFilled, Standing, NoConnection, BeingPublished, Underway
  <2>6. BeingPublished'
    BY <1>0, <1>8 DEF PublishChunk, Advance, client, link, BeingPublished, Acks, BatchFilled, Standing, NoConnection, OnItsWay, Underway
  <2> QED BY <2>1, <2>2, <2>3, <2>4, <2>5, <2>6 DEF Wire
<1>9. CASE SendAck
  <2>1. Acks'
    BY <1>0, <1>9 DEF SendAck, client, Acks, BeingPublished, NoConnection, OnItsWay
  <2>2. BatchFilled'
    BY <1>0, <1>9 DEF SendAck, client, BatchFilled
  <2>3. Standing'
    BY <1>0, <1>9 DEF SendAck, client, Standing, BeingPublished
  <2>4. NoConnection'
    BY <1>0, <1>9 DEF SendAck, client, NoConnection
  <2>5. OnItsWay'
    BY <1>0, <1>9 DEF SendAck, client, OnItsWay, Acks, BatchFilled, Standing, NoConnection, BeingPublished, Underway
  <2>6. BeingPublished'
    <3>1. /\ conn' = conn /\ up' = up /\ item' = item /\ batch' = batch /\ cpc' = cpc
          /\ gpc = "ack" /\ acks' = acks + 1
          /\ gpc' = (IF item.line = 0 THEN "eof" ELSE "idle")
      BY <1>9 DEF SendAck, client
    <3>2. conn => /\ up = <<>> /\ item.batch = batch /\ acks = 0
                  /\ cpc \in {"waiting", "final", "done"}
                  /\ item.line = 0 <=> cpc # "waiting"
      BY <1>0, <3>1 DEF BeingPublished
    <3> QED BY <3>1, <3>2 DEF BeingPublished
  <2> QED BY <2>1, <2>2, <2>3, <2>4, <2>5, <2>6 DEF Wire
<1>10. CASE PublishEof
  <2>1. Acks'
    BY <1>0, <1>10 DEF PublishEof, Advance, client, link, Acks, BeingPublished, NoConnection, OnItsWay
  <2>2. BatchFilled'
    BY <1>0, <1>10 DEF PublishEof, Advance, client, link, BatchFilled
  <2>3. Standing'
    BY <1>0, <1>10 DEF PublishEof, Advance, client, link, Standing, BeingPublished
  <2>4. NoConnection'
    BY <1>0, <1>10 DEF PublishEof, Advance, client, link, NoConnection
  <2>5. OnItsWay'
    <3>1. /\ conn' = conn /\ up' = up /\ chunk' = chunk /\ acks' = acks /\ cpc' = cpc
          /\ sent' = sent /\ batch' = batch /\ gpc = "eof"
      BY <1>10 DEF PublishEof, client, link
    <3>2. gpc' \in {"eof", "idle"}
      BY <1>10, Advanced DEF PublishEof
    <3>3. conn => up = <<>> /\ chunk = <<>> /\ (acks = 1 \/ cpc = "done")
      BY <1>0, <3>1 DEF BeingPublished, Standing
    <3> HIDE DEF Numbers
    <3>4. CASE ~ conn
      BY <3>1, <3>4 DEF OnItsWay, Underway
    <3>5. CASE conn
      BY <3>1, <3>2, <3>3, <3>5 DEF OnItsWay, Underway
    <3> QED BY <3>4, <3>5
  <2>6. BeingPublished'
    BY <1>0, <1>10 DEF PublishEof, Advance, client, link, BeingPublished, Acks, BatchFilled, Standing, NoConnection, OnItsWay, Underway
  <2> QED BY <2>1, <2>2, <2>3, <2>4, <2>5, <2>6 DEF Wire
<1>11. CASE Restart
  <2>1. Acks'
    BY <1>0, <1>11 DEF Restart, client, link, Acks, BeingPublished, NoConnection, OnItsWay
  <2>2. BatchFilled'
    BY <1>0, <1>11 DEF Restart, client, link, BatchFilled
  <2>3. Standing'
    BY <1>0, <1>11 DEF Restart, client, link, Standing, BeingPublished
  <2>4. NoConnection'
    BY <1>0, <1>11 DEF Restart, client, link, NoConnection
  <2>5. OnItsWay'
    BY <1>0, <1>11 DEF Restart, client, link, OnItsWay, Acks, BatchFilled, Standing, NoConnection, BeingPublished, Underway
  <2>6. BeingPublished'
    BY <1>0, <1>11 DEF Restart, client, link, BeingPublished, Acks, BatchFilled, Standing, NoConnection, OnItsWay, Underway
  <2> QED BY <2>1, <2>2, <2>3, <2>4, <2>5, <2>6 DEF Wire
<1>12. CASE Crash
  <2>1. Acks'
    BY <1>0, <1>12 DEF Crash, client, Acks, BeingPublished, NoConnection, OnItsWay
  <2>2. BatchFilled'
    BY <1>0, <1>12 DEF Crash, client, BatchFilled
  <2>3. Standing'
    BY <1>0, <1>12 DEF Crash, client, Standing, BeingPublished
  <2>4. NoConnection'
    BY <1>0, <1>12 DEF Crash, client, NoConnection
  <2>5. OnItsWay'
    BY <1>0, <1>12 DEF Crash, client, OnItsWay, Acks, BatchFilled, Standing, NoConnection, BeingPublished, Underway
  <2>6. BeingPublished'
    BY <1>0, <1>12 DEF Crash, client, BeingPublished, Acks, BatchFilled, Standing, NoConnection, OnItsWay, Underway
  <2> QED BY <2>1, <2>2, <2>3, <2>4, <2>5, <2>6 DEF Wire
<1>13. CASE UNCHANGED vars
  BY <1>0, <1>13 DEF vars, Wire, Acks, BatchFilled, Standing, NoConnection, OnItsWay, Underway, BeingPublished
<1> QED
  BY <1>1, <1>2, <1>3, <1>4, <1>5, <1>6, <1>7, <1>8, <1>9, <1>10, <1>11, <1>12, <1>13
  DEF Next, Client, Gateway

(* What publishing a chunk does at each destination.                       *)
LEMMA ChunkPublished ==
  ASSUME Numbers, PublishChunk
  PROVE  /\ item.batch \in Nat /\ at + 1 \in 1..Dsts /\ ended' = ended
         /\ \A d \in 1..Dsts :
              /\ expect[d] \in Nat
              /\ \/ /\ expect'[d] = expect[d] /\ lines'[d] = lines[d]
                    /\ d = at + 1 => expect[d] >= item.batch + 1
                 \/ /\ d = at + 1 /\ expect[d] <= item.batch
                    /\ expect'[d] = item.batch + 1 /\ lines'[d] = lines[d] \o chunk
<1>1. item.batch \in Nat
  BY MessageFields DEF Numbers
<1>2. at + 1 \in 1..Dsts
  BY Advanced DEF PublishChunk, Numbers
<1>3. expect \in [1..Dsts -> Nat] /\ lines \in [1..Dsts -> Seq(1..Lines)] /\ chunk \in Seq(1..Lines)
  BY DEF Numbers
<1>4. CASE Seen(at + 1, item.batch)
  <2>1. UNCHANGED nodes
    BY <1>4 DEF PublishChunk
  <2>2. expect[at + 1] >= item.batch + 1
    BY <1>1, <1>2, <1>3, <1>4 DEF Seen
  <2> QED BY <1>1, <1>2, <1>3, <2>1, <2>2 DEF nodes
<1>5. CASE ~ Seen(at + 1, item.batch)
  <2>1. /\ expect' = [expect EXCEPT ![at + 1] = item.batch + 1]
        /\ lines' = [lines EXCEPT ![at + 1] = lines[at + 1] \o chunk] /\ ended' = ended
    BY <1>5 DEF PublishChunk
  <2>2. expect[at + 1] <= item.batch
    BY <1>1, <1>2, <1>3, <1>5 DEF Seen
  <2>3. lines[at + 1] \o chunk \in Seq(1..Lines)
    BY <1>2, <1>3
  <2>4. /\ expect'[at + 1] = item.batch + 1 /\ lines'[at + 1] = lines[at + 1] \o chunk
        /\ \A d \in (1..Dsts) \ {at + 1} : expect'[d] = expect[d] /\ lines'[d] = lines[d]
    BY <1>1, <1>2, <1>3, <2>1, <2>3, SetOne
  <2> QED BY <1>1, <1>2, <1>3, <2>1, <2>2, <2>4
<1> QED BY <1>4, <1>5

(* What publishing the end of the file does at each destination.           *)
LEMMA EofPublished ==
  ASSUME Numbers, PublishEof
  PROVE  /\ item.batch \in Nat /\ lines' = lines
         /\ \A d \in 1..Dsts :
              /\ expect[d] \in Nat /\ ended[d] \in Nat
              /\ \/ expect'[d] = expect[d] /\ ended'[d] = ended[d]
                 \/ /\ expect[d] <= item.batch + 1
                    /\ expect'[d] = item.batch + 2 /\ ended'[d] = ended[d] + 1
<1>1. item.batch \in Nat
  BY MessageFields DEF Numbers
<1>2. at + 1 \in 1..Dsts
  BY Advanced DEF PublishEof, Numbers
<1>3. expect \in [1..Dsts -> Nat] /\ ended \in [1..Dsts -> Nat]
  BY DEF Numbers
<1>4. CASE Seen(at + 1, item.batch + 1)
  BY <1>1, <1>3, <1>4 DEF PublishEof, nodes
<1>5. CASE ~ Seen(at + 1, item.batch + 1)
  <2>1. /\ expect' = [expect EXCEPT ![at + 1] = item.batch + 2]
        /\ ended' = [ended EXCEPT ![at + 1] = ended[at + 1] + 1] /\ lines' = lines
    BY <1>5 DEF PublishEof
  <2>2. expect[at + 1] <= item.batch + 1
    BY <1>1, <1>2, <1>3, <1>5 DEF Seen
  <2>3. ended[at + 1] + 1 \in Nat
    BY <1>2, <1>3
  <2>4. /\ expect'[at + 1] = item.batch + 2 /\ ended'[at + 1] = ended[at + 1] + 1
        /\ \A d \in (1..Dsts) \ {at + 1} : expect'[d] = expect[d] /\ ended'[d] = ended[d]
    BY <1>1, <1>2, <1>3, <2>1, <2>3, SetOne
  <2> QED BY <1>1, <1>2, <1>3, <2>1, <2>2, <2>4
<1> QED BY <1>4, <1>5

(* The gateway publishes for a client that is connected to it.             *)
LEMMA Connected ==
  ASSUME Booleans, Wire, gpc \in {"chunk", "ack", "eof"}
  PROVE  conn
BY DEF Booleans, Wire, NoConnection

(* Every destination that was published to has the batch.                  *)
LEMMA PublishedStep ==
  ASSUME Booleans, Numbers, Wire, Published, [Next]_vars
  PROVE  Published'
<1>0. /\ \A d \in 1..Dsts : expect[d] \in Nat
      /\ batch \in Nat /\ acks \in {0, 1} /\ item.batch \in Nat /\ at \in 0..(Dsts - 1)
      /\ acks = 1 => cpc \in {"waiting", "final"}
      /\ gpc \in {"idle", "ack", "down"} => at = 0
  BY MessageFields DEF Numbers, Wire, Acks, Standing
<1>1. CASE SendLine
  <2>1. cpc = "sending" /\ cpc' # "done" /\ acks = 0
    BY <1>0, <1>1 DEF SendLine
  <2> QED BY <1>0, <1>1, <2>1 DEF SendLine, Published, MovedPastIsPublished, gateway, nodes
<1>2. CASE SendEof
  BY <1>0, <1>2 DEF SendEof, Published, MovedPastIsPublished, gateway, nodes
<1>3. CASE ReadAck
  BY <1>0, <1>3 DEF ReadAck, Published, MovedPastIsPublished, gateway, nodes
<1>4. CASE ReadFinalAck
  BY <1>0, <1>4 DEF ReadFinalAck, Published, MovedPastIsPublished, gateway, nodes
<1>5. ASSUME NEW to, Reconnect(to), cpc # "done" PROVE Published'
  BY <1>0, <1>5 DEF Reconnect, Published, MovedPastIsPublished, gateway, nodes
<1>6. CASE RewindBatch
  BY <1>5, <1>6 DEF RewindBatch
<1>7. CASE RewindFile
  BY <1>5, <1>7 DEF RewindFile
<1>8. CASE Take
  <2>1. /\ gpc = "idle" /\ at' = 0 /\ gpc' \in {"idle", "chunk"}
        /\ batch' = batch /\ cpc' = cpc /\ acks' = acks /\ expect' = expect
    BY <1>0, <1>8 DEF Take, client, nodes
  <2> QED BY <2>1 DEF Published, MovedPastIsPublished
<1>9. CASE PublishChunk
  <2>1. /\ gpc = "chunk" /\ item' = item /\ batch' = batch /\ cpc' = cpc /\ acks' = acks
        /\ Advance("ack")
    BY <1>9 DEF PublishChunk, client, link
  <2>2. \/ at + 1 = Dsts /\ gpc' = "ack"
        \/ at + 1 < Dsts /\ at' = at + 1 /\ gpc' = "chunk"
    BY <1>0, <2>1, Advanced
  <2>3. ASSUME NEW d \in 1..Dsts
        PROVE  /\ expect'[d] \in Nat /\ expect'[d] >= expect[d]
               /\ d \in 1..(at + 1) => expect'[d] >= item.batch + 1
    <3>1. /\ expect[d] \in Nat
          /\ \/ expect'[d] = expect[d] /\ (d = at + 1 => expect[d] >= item.batch + 1)
             \/ d = at + 1 /\ expect[d] <= item.batch /\ expect'[d] = item.batch + 1
      BY <1>9, ChunkPublished
    <3>2. d \in 1..at => expect[d] >= item.batch + 1
      BY <2>1 DEF Published
    <3> QED BY <1>0, <3>1, <3>2
  <2>4. MovedPastIsPublished'
    BY <1>0, <2>1, <2>3 DEF Published, MovedPastIsPublished
  <2>5. gpc' = "chunk" => \A d \in 1..at' : expect'[d] >= item.batch + 1
    BY <1>0, <2>2, <2>3
  <2>6. gpc' = "ack" => \A d \in 1..Dsts : expect'[d] >= item.batch + 1
    BY <1>0, <2>2, <2>3
  <2> QED BY <2>1, <2>4, <2>5, <2>6 DEF Published
<1>10. CASE SendAck
  <2>1. /\ gpc = "ack" /\ gpc' \in {"eof", "idle"} /\ acks' = acks + 1
        /\ batch' = batch /\ cpc' = cpc /\ expect' = expect
    BY <1>10 DEF SendAck, client, nodes
  <2>2. item.batch = batch
    BY <2>1, Connected DEF Wire, BeingPublished
  <2>3. \A d \in 1..Dsts : expect[d] >= batch + 1
    BY <2>1, <2>2 DEF Published
  <2>4. MovedPastIsPublished'
    BY <1>0, <2>1, <2>3 DEF MovedPastIsPublished
  <2> QED BY <2>1, <2>4 DEF Published
<1>11. CASE PublishEof
  <2>1. gpc' \in {"eof", "idle"} /\ batch' = batch /\ cpc' = cpc /\ acks' = acks
    BY <1>11 DEF PublishEof, Advance, client, link
  <2>2. \A d \in 1..Dsts : expect'[d] \in Nat /\ expect'[d] >= expect[d]
    BY <1>11, EofPublished
  <2>3. MovedPastIsPublished'
    BY <1>0, <2>1, <2>2 DEF Published, MovedPastIsPublished
  <2> QED BY <2>1, <2>3 DEF Published
<1>12. CASE Restart
  BY <1>12 DEF Restart, Published, MovedPastIsPublished, client, link, nodes
<1>13. CASE Crash
  BY <1>13 DEF Crash, Published, MovedPastIsPublished, client, nodes
<1>14. CASE UNCHANGED vars
  BY <1>14 DEF vars, Published, MovedPastIsPublished
<1> QED
  BY <1>1, <1>2, <1>3, <1>4, <1>6, <1>7, <1>8, <1>9, <1>10, <1>11, <1>12, <1>13, <1>14
  DEF Next, Client, Gateway

(* The file from its first record on, and the records after those.         *)
LEMMA FirstLinesJoined ==
  ASSUME NEW n \in Nat, NEW p \in Seq(1..Lines), p = FirstLines(n), Len(p) = n,
         NEW q \in Seq(1..Lines), \A i \in 1..Len(q) : q[i] = n + i
  PROVE  Len(p \o q) = n + Len(q) /\ p \o q = FirstLines(n + Len(q))
<1> DEFINE r == p \o q
<1>1. /\ r \in Seq(1..Lines) /\ Len(r) = n + Len(q) /\ Len(q) \in Nat
      /\ \A i \in 1..(n + Len(q)) : r[i] = IF i <= n THEN p[i] ELSE q[i - n]
  <2>1. r \in Seq(1..Lines) /\ Len(q) \in Nat
    BY LenProperties
  <2>2. Len(r) = Len(p) + Len(q)
    BY ConcatProperties
  <2>3. \A i \in 1..(Len(p) + Len(q)) : r[i] = IF i <= Len(p) THEN p[i] ELSE q[i - Len(p)]
    BY ConcatProperties
  <2> HIDE DEF r
  <2> QED BY <2>1, <2>2, <2>3
<1> HIDE DEF r
<1>2. r = [i \in 1..Len(r) |-> r[i]]
  BY <1>1
<1>3. ASSUME NEW i \in 1..(n + Len(q)) PROVE r[i] = i
  <2>1. CASE i <= n
    BY <1>1, <2>1 DEF FirstLines
  <2>2. CASE i > n
    <3>1. i - n \in 1..Len(q) /\ r[i] = q[i - n]
      BY <1>1, <2>2
    <3> QED BY <3>1
  <2> QED BY <2>1, <2>2
<1> QED BY <1>1, <1>2, <1>3 DEF r, FirstLines

(* The destinations have been given the file in order.                     *)
LEMMA InOrderStep ==
  ASSUME Booleans, Numbers, Wire, Published, InOrder, [Next]_vars
  PROVE  InOrder'
<1> SUFFICES ASSUME ~ rewound' PROVE Reading' /\ \A d \in 1..Dsts : Given(d)'
  BY DEF InOrder
<1>0. ~ rewound /\ ~ RewindFile
  BY DEF Booleans, vars, Next, Client, Gateway, SendLine, SendEof, ReadAck, ReadFinalAck,
         RewindBatch, RewindFile, Reconnect, Take, PublishChunk, SendAck, PublishEof, Restart,
         Crash, link, history
<1>1. Reading /\ \A d \in 1..Dsts : Given(d)
  BY <1>0 DEF InOrder
<1>2. /\ read \in Nat /\ read <= Lines /\ start \in Nat /\ sent \in Nat /\ sent <= BatchSize
      /\ batch \in Nat /\ Len(chunk) \in Nat /\ Len(up) \in Nat /\ read = start + sent
      /\ up \in Seq(Messages) /\ chunk \in Seq(1..Lines)
  BY <1>1, LenProperties DEF Numbers, Reading
<1>3. ASSUME NEW d \in 1..Dsts
      PROVE  /\ expect[d] \in Nat /\ ended[d] \in Nat /\ lines[d] \in Seq(1..Lines)
             /\ Len(lines[d]) \in Nat /\ expect[d] >= batch
             /\ acks > 0 \/ cpc = "done" => expect[d] >= batch + 1
  BY <1>2, LenProperties DEF Numbers, Published, MovedPastIsPublished
<1>4. ASSUME UNCHANGED <<nodes, batch, start>>,
             cpc \in {"final", "done"} => cpc' \in {"final", "done"}
      PROVE  \A d \in 1..Dsts : Given(d)'
  <2>1. SUFFICES ASSUME NEW d \in 1..Dsts PROVE Given(d)'
    OBVIOUS
  <2>2. /\ lines' = lines /\ expect' = expect /\ ended' = ended
        /\ batch' = batch /\ start' = start /\ BatchEnd' = BatchEnd
    BY <1>4 DEF nodes, BatchEnd
  <2> QED BY <1>1, <1>4, <2>2 DEF Given
<1>5. ASSUME UNCHANGED <<read, start, sent, chunk, up>>, cpc' = cpc, Underway' => Underway
      PROVE  Reading'
  BY <1>1, <1>5 DEF Reading
<1>6. CASE SendLine
  <2>1. /\ conn' = conn /\ gpc' = gpc /\ chunk' = chunk /\ acks' = acks /\ start' = start
        /\ cpc = "sending" /\ cpc' \in {"waiting", "sending"} /\ read < Lines
        /\ read' = read + 1 /\ sent' = sent + 1 /\ UNCHANGED <<nodes, batch, start>>
    BY <1>6 DEF SendLine, gateway
  <2>2. \A d \in 1..Dsts : Given(d)'
    BY <1>4, <2>1
  <2>3. /\ read' = start' + sent' /\ (cpc' \in {"final", "done"} => read' = Lines)
        /\ \A i \in 1..Len(chunk') : chunk'[i] = start' + i
    BY <1>1, <1>2, <2>1 DEF Reading
  <2>4. ASSUME Underway'
        PROVE  \A i \in 1..Len(up') : up'[i].line = start' + Len(chunk') + i
    <3>1. Underway
      BY <2>1, <2>4 DEF Underway
    <3>2. /\ Len(chunk) + Len(up) = sent /\ \A i \in 1..Len(up) : up[i].line # 0
          /\ \A i \in 1..Len(up) : up[i].line # 0 => up[i].line = start + Len(chunk) + i
      BY <1>1, <2>1, <3>1 DEF Wire, OnItsWay, Reading
    <3> DEFINE m == [batch |-> batch, line |-> read + 1]
    <3>3. up' = Append(up, m) /\ m \in Messages
      BY <1>2, <1>6, <2>1, <3>1, MessageMade DEF SendLine, Write, Underway
    <3>4. m.line = read + 1
      OBVIOUS
    <3> HIDE DEF m
    <3>5. /\ Len(up') = Len(up) + 1 /\ up'[Len(up) + 1] = m
          /\ \A i \in 1..Len(up) : up'[i] = up[i]
      BY <1>2, <3>3, Appended
    <3>6. TAKE i \in 1..Len(up')
    <3>7. CASE i = Len(up) + 1
      <4>1. up'[i].line = read + 1
        BY <3>4, <3>5, <3>7
      <4>2. read + 1 = start + Len(chunk) + (Len(up) + 1)
        BY <1>2, <3>2
      <4> QED BY <2>1, <3>7, <4>1, <4>2
    <3>8. CASE i \in 1..Len(up)
      BY <2>1, <3>2, <3>5, <3>8
    <3> QED BY <1>2, <3>5, <3>7, <3>8
  <2> QED BY <2>2, <2>3, <2>4 DEF Reading
<1>7. CASE SendEof
  <2>1. /\ conn' = conn /\ gpc' = gpc /\ chunk' = chunk /\ acks' = acks /\ start' = start
        /\ cpc = "sending" /\ cpc' = "final" /\ read = Lines /\ read' = read /\ sent' = sent
        /\ UNCHANGED <<nodes, batch, start>>
    BY <1>7 DEF SendEof, gateway
  <2>2. \A d \in 1..Dsts : Given(d)'
    BY <1>4, <2>1
  <2>3. /\ read' = start' + sent' /\ (cpc' \in {"final", "done"} => read' = Lines)
        /\ \A i \in 1..Len(chunk') : chunk'[i] = start' + i
    BY <1>1, <1>2, <2>1 DEF Reading
  <2>4. ASSUME Underway'
        PROVE  \A i \in 1..Len(up') : up'[i].line # 0 => up'[i].line = start' + Len(chunk') + i
    <3>1. Underway
      BY <2>1, <2>4 DEF Underway
    <3>2. \A i \in 1..Len(up) : up[i].line # 0 => up[i].line = start + Len(chunk) + i
      BY <1>1, <3>1 DEF Reading
    <3> DEFINE m == [batch |-> batch, line |-> 0]
    <3>3. up' = Append(up, m) /\ m \in Messages
      BY <1>2, <1>7, <2>1, <3>1, MessageMade DEF SendEof, Write, Underway
    <3>4. m.line = 0
      OBVIOUS
    <3> HIDE DEF m
    <3>5. /\ Len(up') = Len(up) + 1 /\ up'[Len(up) + 1] = m
          /\ \A i \in 1..Len(up) : up'[i] = up[i]
      BY <1>2, <3>3, Appended
    <3>6. TAKE i \in 1..Len(up')
    <3>7. CASE i = Len(up) + 1
      BY <3>4, <3>5, <3>7
    <3>8. CASE i \in 1..Len(up)
      BY <2>1, <3>2, <3>5, <3>8
    <3> QED BY <1>2, <3>5, <3>7, <3>8
  <2> QED BY <2>2, <2>3, <2>4 DEF Reading
<1>8. CASE ReadAck
  <2>1. /\ cpc = "waiting" /\ cpc' = "sending" /\ acks > 0 /\ batch' = batch + 1
        /\ start' = start + sent /\ sent' = 0 /\ read' = read
        /\ conn' = conn /\ gpc' = gpc /\ chunk' = chunk /\ up' = up
        /\ lines' = lines /\ expect' = expect /\ ended' = ended
    BY <1>8 DEF ReadAck, gateway, nodes
  <2>2. sent = BatchSize /\ acks = 1
    BY <2>1 DEF Wire, BatchFilled, Acks
  <2>3. /\ chunk = <<>> /\ (conn => up = <<>>)
    BY <2>1, <2>2 DEF Booleans, Wire, OnItsWay, NoConnection
  <2>4. Reading'
    <3>1. read' = start' + sent'
      BY <1>2, <2>1
    <3>2. \A i \in 1..Len(<<>>) : FALSE
      OBVIOUS
    <3> QED BY <2>1, <2>3, <3>1, <3>2 DEF Reading, Underway
  <2>5. ASSUME NEW d \in 1..Dsts PROVE Given(d)'
    <3>1. /\ lines[d] = FirstLines(Len(lines[d])) /\ ended[d] = 0
          /\ expect[d] <= batch + 1 /\ (expect[d] # batch => Len(lines[d]) = BatchEnd)
      BY <1>1, <2>1 DEF Given
    <3>2. expect[d] = batch'
      BY <1>2, <1>3, <2>1, <3>1
    <3>3. Len(lines[d]) = start'
      BY <1>2, <2>1, <2>2, <3>1, <3>2 DEF BatchEnd
    <3>4. expect'[d] <= batch' + 1
      BY <1>2, <2>1, <3>2
    <3> QED BY <2>1, <3>1, <3>2, <3>3, <3>4 DEF Given
  <2> QED BY <2>4, <2>5
<1>9. CASE ReadFinalAck
  <2>1. /\ cpc = "final" /\ cpc' = "done" /\ UNCHANGED <<nodes, batch, start>>
        /\ UNCHANGED <<read, start, sent, chunk, up>>
    BY <1>9 DEF ReadFinalAck, gateway
  <2>2. Reading'
    BY <1>1, <2>1 DEF Reading, Underway
  <2> QED BY <1>4, <2>1, <2>2
<1>10. CASE RewindBatch
  <2>1. /\ Reconnect(start) /\ cpc \in {"waiting", "sending"}
    BY <1>10 DEF RewindBatch
  <2>2. /\ ~ conn /\ read' = (IF start < Lines THEN start ELSE Lines) /\ sent' = 0
        /\ cpc' = "sending" /\ up' = <<>> /\ chunk' = chunk /\ UNCHANGED <<nodes, batch, start>>
    BY <2>1 DEF Reconnect, gateway
  <2>3. chunk = <<>>
    BY <2>2 DEF Wire, NoConnection
  <2>4. Reading'
    <3>1. read' = start' + sent'
      BY <1>2, <2>2
    <3>2. \A i \in 1..Len(<<>>) : FALSE
      OBVIOUS
    <3> QED BY <2>2, <2>3, <3>1, <3>2 DEF Reading
  <2> QED BY <1>4, <2>1, <2>2, <2>4
<1>11. CASE Take
  <2>1. /\ conn' = conn /\ acks' = acks /\ cpc' = cpc /\ UNCHANGED <<nodes, batch, start>>
        /\ read' = read /\ sent' = sent /\ up # <<>> /\ gpc = "idle" /\ up' = Tail(up)
        /\ chunk' = IF Head(up).line = 0 THEN chunk ELSE Append(chunk, Head(up).line)
        /\ gpc' = IF Head(up).line = 0 \/ Len(chunk) + 1 >= BatchSize THEN "chunk" ELSE "idle"
    BY <1>11 DEF Take, client
  <2>2. Underway
    BY <2>1 DEF Booleans, Wire, NoConnection, OnItsWay, Acks, Underway
  <2>3. /\ Len(up) \in Nat \ {0} /\ Head(up) = up[1] /\ Len(up') = Len(up) - 1
        /\ \A i \in 1..Len(up') : i + 1 \in 1..Len(up) /\ up'[i] = up[i + 1]
        /\ Head(up).line \in 0..Lines
    BY <1>2, <2>1, TakenMessage, MessageFields
  <2>4. /\ \A i \in 1..Len(chunk) : chunk[i] = start + i
        /\ \A i \in 1..Len(up) : up[i].line # 0 => up[i].line = start + Len(chunk) + i
    BY <1>1, <2>2 DEF Reading
  <2>5. Head(up).line # 0 => Head(up).line = start + Len(chunk) + 1
    BY <2>3, <2>4
  <2>6. CASE Head(up).line = 0
    <3>1. chunk' = chunk /\ ~ Underway'
      BY <2>1, <2>6 DEF Underway
    <3>2. Reading'
      BY <1>1, <2>1, <3>1 DEF Reading
    <3> QED BY <1>4, <2>1, <3>2
  <2>7. CASE Head(up).line # 0
    <3>1. /\ chunk' = Append(chunk, Head(up).line) /\ Len(chunk') = Len(chunk) + 1
          /\ chunk'[Len(chunk) + 1] = Head(up).line
          /\ \A i \in 1..Len(chunk) : chunk'[i] = chunk[i]
      BY <1>2, <2>1, <2>3, <2>7, Appended
    <3>2. \A i \in 1..Len(chunk') : chunk'[i] = start' + i
      <4>1. TAKE i \in 1..Len(chunk')
      <4>2. CASE i = Len(chunk) + 1
        <5>1. chunk'[i] = start + Len(chunk) + 1
          BY <2>5, <2>7, <3>1, <4>2
        <5> QED BY <1>2, <2>1, <4>2, <5>1
      <4>3. CASE i \in 1..Len(chunk)
        BY <2>1, <2>4, <3>1, <4>3
      <4> QED BY <1>2, <3>1, <4>2, <4>3
    <3>3. ASSUME NEW i \in 1..Len(up'), up'[i].line # 0
          PROVE  up'[i].line = start' + Len(chunk') + i
      <4>1. i + 1 \in 1..Len(up) /\ up'[i] = up[i + 1]
        BY <2>3
      <4>2. up[i + 1].line = start + Len(chunk) + (i + 1)
        BY <2>4, <3>3, <4>1
      <4>3. i \in Nat
        BY <2>3
      <4> QED BY <1>2, <2>1, <3>1, <4>1, <4>2, <4>3
    <3>4. Reading'
      BY <1>1, <2>1, <3>2, <3>3 DEF Reading
    <3> QED BY <1>4, <2>1, <3>4
  <2> QED BY <2>6, <2>7
<1>12. CASE PublishChunk
  <2>1. /\ gpc = "chunk" /\ gpc' \in {"chunk", "ack"} /\ chunk' \in {chunk, <<>>}
        /\ UNCHANGED <<cpc, read, start, sent, batch, up>>
    <3>1. gpc' \in {"chunk", "ack"}
      BY <1>12, Advanced DEF PublishChunk, Numbers
    <3> QED BY <1>12, <3>1 DEF PublishChunk, client, link
  <2>2. /\ item.batch = batch /\ cpc \in {"waiting", "final"} /\ Len(chunk) = sent
        /\ cpc = "waiting" => sent = BatchSize
        /\ cpc # "waiting" => sent < BatchSize
    BY <2>1, Connected DEF Wire, BeingPublished, BatchFilled
  <2>3. Reading'
    <3>1. \A i \in 1..Len(chunk') : chunk'[i] = start + i
      <4>1. \A i \in 1..Len(chunk) : chunk[i] = start + i
        BY <1>1 DEF Reading
      <4>2. \A i \in 1..Len(<<>>) : FALSE
        OBVIOUS
      <4> QED BY <2>1, <4>1, <4>2
    <3>2. ~ Underway'
      BY <2>1 DEF Underway
    <3> QED BY <1>1, <2>1, <3>1, <3>2 DEF Reading
  <2>4. start + sent = BatchEnd /\ BatchEnd' = BatchEnd
    <3>1. cpc = "final" => read = Lines
      BY <1>1 DEF Reading
    <3> QED BY <1>2, <2>1, <2>2, <3>1 DEF BatchEnd
  <2>5. ASSUME NEW d \in 1..Dsts PROVE Given(d)'
    <3>1. /\ ended' = ended
          /\ \/ expect'[d] = expect[d] /\ lines'[d] = lines[d]
             \/ /\ expect[d] <= batch
                /\ expect'[d] = batch + 1 /\ lines'[d] = lines[d] \o chunk
      BY <1>12, <2>2, ChunkPublished
    <3>2. CASE expect'[d] = expect[d] /\ lines'[d] = lines[d]
      BY <1>1, <2>1, <2>4, <3>1, <3>2 DEF Given
    <3>3. CASE /\ expect[d] <= batch
               /\ expect'[d] = batch + 1 /\ lines'[d] = lines[d] \o chunk
      <4>1. expect[d] = batch
        BY <1>2, <1>3, <3>3
      <4>2. Len(lines[d]) = start /\ lines[d] = FirstLines(start) /\ ended[d] = 0
        BY <1>1, <1>2, <4>1 DEF Given
      <4>3. /\ Len(lines'[d]) = BatchEnd /\ lines'[d] = FirstLines(BatchEnd)
        <5>1. \A i \in 1..Len(chunk) : chunk[i] = start + i
          BY <1>1 DEF Reading
        <5>2. /\ Len(lines[d] \o chunk) = start + Len(chunk)
              /\ lines[d] \o chunk = FirstLines(start + Len(chunk))
          <6>1. start \in Nat /\ lines[d] \in Seq(1..Lines) /\ chunk \in Seq(1..Lines)
            BY <1>2, <1>3
          <6> QED BY <4>2, <5>1, <6>1, FirstLinesJoined
        <5>3. BatchEnd = start + Len(chunk)
          BY <2>2, <2>4
        <5>4. lines'[d] = lines[d] \o chunk
          BY <3>3
        <5> HIDE DEF BatchEnd
        <5> QED BY <5>2, <5>3, <5>4
      <4>4. expect'[d] # batch' /\ expect'[d] <= batch' + 1 /\ ended'[d] = 0
        BY <1>2, <2>1, <3>1, <3>3, <4>2
      <4> QED BY <2>4, <4>3, <4>4 DEF Given
    <3> QED BY <3>1, <3>2, <3>3
  <2> QED BY <2>3, <2>5
<1>13. CASE SendAck
  <2>1. /\ acks' = acks + 1 /\ UNCHANGED <<nodes, cpc, read, start, sent, batch, chunk, up>>
    BY <1>13 DEF SendAck, client
  <2>2. ~ Underway'
    BY <2>1 DEF Underway, Wire, Acks
  <2>3. Reading'
    BY <1>5, <2>1, <2>2
  <2> QED BY <1>4, <2>1, <2>3
<1>14. CASE PublishEof
  <2>1. /\ gpc = "eof" /\ UNCHANGED <<cpc, read, start, sent, batch, chunk, up, acks, conn>>
    BY <1>14 DEF PublishEof, client, link
  <2>2. /\ item.batch = batch /\ cpc \in {"final", "done"} /\ (acks = 1 \/ cpc = "done")
        /\ sent < BatchSize
    BY <2>1, Connected DEF Wire, BeingPublished, BatchFilled
  <2>3. Reading'
    <3>1. ~ Underway'
      BY <2>1, <2>2 DEF Underway
    <3> QED BY <1>5, <2>1, <3>1
  <2>4. start + BatchSize > Lines /\ BatchEnd' = BatchEnd
    <3>1. read = Lines
      BY <1>1, <2>2 DEF Reading
    <3> QED BY <1>2, <2>1, <2>2, <3>1 DEF BatchEnd
  <2>5. ASSUME NEW d \in 1..Dsts PROVE Given(d)'
    <3>1. /\ lines' = lines
          /\ \/ expect'[d] = expect[d] /\ ended'[d] = ended[d]
             \/ /\ expect[d] <= batch + 1
                /\ expect'[d] = batch + 2 /\ ended'[d] = ended[d] + 1
      BY <1>14, <2>2, EofPublished
    <3>2. CASE expect'[d] = expect[d] /\ ended'[d] = ended[d]
      BY <1>1, <2>1, <2>4, <3>1, <3>2 DEF Given
    <3>3. CASE /\ expect[d] <= batch + 1
               /\ expect'[d] = batch + 2 /\ ended'[d] = ended[d] + 1
      <4>1. expect[d] = batch + 1
        BY <1>2, <1>3, <2>2, <3>3
      <4>2. /\ lines[d] = FirstLines(Len(lines[d])) /\ Len(lines[d]) = BatchEnd /\ ended[d] = 0
        BY <1>1, <1>2, <4>1 DEF Given
      <4>3. expect'[d] # batch' /\ ended'[d] = 1 /\ expect'[d] = batch' + 2
        BY <1>2, <2>1, <3>3, <4>2
      <4> QED BY <2>1, <2>2, <2>4, <3>1, <4>2, <4>3 DEF Given
    <3> QED BY <3>1, <3>2, <3>3
  <2> QED BY <2>3, <2>5
<1>15. CASE Restart
  <2>1. /\ gpc = "down" /\ conn' = conn
        /\ UNCHANGED <<nodes, cpc, read, start, sent, batch, chunk, up>>
    BY <1>15 DEF Restart, client, link
  <2>2. ~ Underway'
    BY <2>1 DEF Underway, Wire, OnItsWay
  <2>3. Reading'
    BY <1>5, <2>1, <2>2
  <2> QED BY <1>4, <2>1, <2>3
<1>16. CASE Crash
  <2>1. /\ conn' = FALSE /\ chunk' = <<>> /\ UNCHANGED <<nodes, cpc, read, start, sent, batch>>
    BY <1>16 DEF Crash, client
  <2>2. Reading'
    <3>1. \A i \in 1..Len(<<>>) : FALSE
      OBVIOUS
    <3> QED BY <1>1, <2>1, <3>1 DEF Reading, Underway
  <2> QED BY <1>4, <2>1, <2>2
<1>17. CASE UNCHANGED vars
  <2>1. Reading'
    BY <1>5, <1>17 DEF vars, Underway
  <2> QED BY <1>4, <1>17, <2>1 DEF vars, nodes
<1> QED
  BY <1>0, <1>6, <1>7, <1>8, <1>9, <1>10, <1>11, <1>12, <1>13, <1>14, <1>15, <1>16, <1>17
  DEF Next, Client, Gateway

-----------------------------------------------------------------------------
(* The invariant holds in every reachable state of an upload.              *)
THEOREM UploadIsInvariant == Spec => []UploadInvariant
<1>1. UploadInvariant /\ [Next]_vars => UploadInvariant'
  <2> SUFFICES ASSUME UploadInvariant, [Next]_vars PROVE UploadInvariant'
    OBVIOUS
  <2>1. Booleans /\ Numbers /\ Wire /\ Published /\ InOrder
    BY TypeParts DEF UploadInvariant
  <2>2. Booleans' /\ Numbers'
    BY <2>1, BooleanStep, NumberStep DEF Wire
  <2>3. TypeOK'
    BY <2>2 DEF TypeOK, Booleans, Numbers
  <2>4. Wire'
    BY <2>1, <2>2, WireStep
  <2>5. Published' /\ InOrder'
    BY <2>1, PublishedStep, InOrderStep
  <2> QED BY <2>3, <2>4, <2>5 DEF UploadInvariant
<1> QED BY <1>1, InitHolds, PTL DEF Spec

(* An upload keeps its types.                                              *)
THEOREM UploadTypeCorrect == Spec => []TypeOK
<1>1. UploadInvariant => TypeOK
  BY DEF UploadInvariant
<1> QED BY <1>1, UploadIsInvariant, PTL

(* No acknowledged batch can be lost: it is at every destination.          *)
THEOREM MovedPastPublished == Spec => []MovedPastIsPublished
<1>1. UploadInvariant => MovedPastIsPublished
  BY DEF UploadInvariant, Published
<1> QED BY <1>1, UploadIsInvariant, PTL

(* A file that is not rewound reaches every destination once and in order, *)
(* and its end after all of it.                                            *)
THEOREM FileDeliveredInOrder == Spec => []FileOnceInOrder
<1>1. UploadInvariant => FileOnceInOrder
  <2> SUFFICES ASSUME UploadInvariant, ~ rewound, NEW d \in 1..Dsts
               PROVE  /\ lines[d] = FirstLines(Len(lines[d])) /\ ended[d] <= 1
                      /\ ended[d] = 1 => Len(lines[d]) = Lines
    BY DEF FileOnceInOrder
  <2>1. Given(d) /\ ended[d] \in Nat /\ batch \in Nat /\ start \in Nat
    BY DEF UploadInvariant, InOrder, TypeOK
  <2>2. ended[d] # 0 => Len(lines[d]) = BatchEnd /\ BatchEnd = Lines
    BY <2>1 DEF Given, BatchEnd
  <2> QED BY <2>1, <2>2 DEF Given
<1> QED BY <1>1, UploadIsInvariant, PTL
=============================================================================
