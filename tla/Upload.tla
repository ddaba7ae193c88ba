------------------------------- MODULE Upload -------------------------------
(***************************************************************************)
(* A client uploads one CSV file (internal/client/file_reader.go) to the   *)
(* gateway, whose chunk sender (internal/gateway/chunk/sender.go) turns    *)
(* each batch into one message per destination queue, under the sequence   *)
(* id the client's batch number gives it, and acknowledges it.  The first  *)
(* node behind each queue drops what its duplicate handler has seen.       *)
(*                                                                         *)
(* The gateway may die at any step and be restarted: its connections and   *)
(* the chunk it was filling are lost, the client reconnects and resends.   *)
(* Client and gateway use the same batch size (100 in both configurations) *)
(* and the client is one of those the gateway serves: chunks, numbers and  *)
(* connections of different clients are separate.                          *)
(***************************************************************************)
EXTENDS Naturals, Sequences

CONSTANTS
  Lines,      \* records of the file, after its header
  BatchSize,  \* client.chunk_size and gateway.chunk_size
  Dsts,       \* the sender's destination queues are 1..Dsts
  MaxCrashes  \* bound: times the gateway dies

ASSUME UploadAssumption ==
  /\ Lines \in Nat /\ BatchSize \in Nat \ {0} /\ Dsts \in Nat \ {0}
  /\ MaxCrashes \in Nat

VARIABLES
  cpc,      \* client: "sending", "waiting" (readAck), "final", "done"
  read,     \* records its CSV reader has read
  start,    \* batchStartLine
  sent,     \* records sent in the current batch
  batch,    \* currentBatch
  conn,     \* whether its connection is to a live gateway
  up,       \* messages on that connection not taken by the gateway yet
  acks,     \* acknowledgements the client has not read yet
  gpc,      \* gateway: "idle", "chunk", "ack", "eof", "down"
  chunk,    \* Sender.chunks of the client
  item,     \* the item that made the sender publish
  at,       \* destinations the message was published to
  expect,   \* [destination -> next batch number expected there]
  lines,    \* [destination -> records let through, in order]
  ended,    \* [destination -> end-of-file messages let through]
  rewound,  \* whether the client went back to the first record
  eofCut,   \* whether the gateway died publishing the end of file
  crashes

client  == <<cpc, read, start, sent, batch>>
link    == <<conn, up, acks>>
gateway == <<gpc, chunk, item, at>>
nodes   == <<expect, lines, ended>>
history == <<rewound, eofCut, crashes>>
vars    == <<cpc, read, start, sent, batch, conn, up, acks, gpc, chunk, item, at,
             expect, lines, ended, rewound, eofCut, crashes>>

EndOfFile == 0
Messages  == [batch : Nat, line : 0..Lines]

TypeOK ==
  /\ cpc \in {"sending", "waiting", "final", "done"}
  /\ read \in 0..Lines /\ start \in Nat /\ sent \in 0..BatchSize /\ batch \in Nat
  /\ conn \in BOOLEAN /\ up \in Seq(Messages) /\ acks \in Nat
  /\ gpc \in {"idle", "chunk", "ack", "eof", "down"}
  /\ chunk \in Seq(1..Lines) /\ Len(chunk) <= BatchSize
  /\ item \in Messages /\ at \in 0..(Dsts - 1)
  /\ expect \in [1..Dsts -> Nat]
  /\ lines \in [1..Dsts -> Seq(1..Lines)]
  /\ ended \in [1..Dsts -> Nat]
  /\ rewound \in BOOLEAN /\ eofCut \in BOOLEAN /\ crashes \in 0..MaxCrashes

Init ==
  /\ cpc = "sending" /\ read = 0 /\ start = 0 /\ sent = 0 /\ batch = 0
  /\ conn = TRUE /\ up = <<>> /\ acks = 0
  /\ gpc = "idle" /\ chunk = <<>> /\ at = 0
  /\ item = [batch |-> 0, line |-> EndOfFile]
  /\ expect = [d \in 1..Dsts |-> 0]
  /\ lines = [d \in 1..Dsts |-> <<>>]
  /\ ended = [d \in 1..Dsts |-> 0]
  /\ rewound = FALSE /\ eofCut = FALSE /\ crashes = 0

-----------------------------------------------------------------------------
(* The client.  A write to a connection whose gateway has died may still   *)
(* succeed: what it wrote is lost.                                         *)
Write(m) == up' = IF conn THEN Append(up, m) ELSE up

SendLine ==
  /\ cpc = "sending" /\ sent < BatchSize /\ read < Lines
  /\ Write([batch |-> batch, line |-> read + 1])
  /\ read' = read + 1 /\ sent' = sent + 1
  /\ cpc' = IF sent + 1 = BatchSize THEN "waiting" ELSE "sending"
  /\ UNCHANGED <<start, batch, conn, acks, gateway, nodes, history>>

(* Reader.Read returns io.EOF: the message without data.                   *)
SendEof ==
  /\ cpc = "sending" /\ sent < BatchSize /\ read = Lines
  /\ Write([batch |-> batch, line |-> EndOfFile])
  /\ cpc' = "final"
  /\ UNCHANGED <<read, start, sent, batch, conn, acks, gateway, nodes, history>>

ReadAck ==
  /\ cpc = "waiting" /\ acks > 0
  /\ acks' = acks - 1
  /\ batch' = batch + 1
  /\ start' = start + sent /\ sent' = 0
  /\ cpc' = "sending"
  /\ UNCHANGED <<read, conn, up, gateway, nodes, history>>

ReadFinalAck ==
  /\ cpc = "final" /\ acks > 0
  /\ acks' = acks - 1
  /\ cpc' = "done"
  /\ UNCHANGED <<read, start, sent, batch, conn, up, gateway, nodes, history>>

(* rewindAndReconnect, on a connection that failed to take a record or to  *)
(* give an acknowledgement, or the end of file (rewound to record 0).      *)
Reconnect(to) ==
  /\ ~ conn /\ gpc # "down"
  /\ read' = IF to < Lines THEN to ELSE Lines
  /\ sent' = 0
  /\ cpc' = "sending"
  /\ conn' = TRUE /\ up' = <<>> /\ acks' = 0
  /\ UNCHANGED <<start, batch, gateway, nodes, eofCut, crashes>>

(* Mutant of RewindBatch: reconnects without rewinding the reader.         *)
ReconnectOnly ==
  /\ cpc = "waiting" \/ (cpc = "sending" /\ read < Lines)
  /\ Reconnect(read)
  /\ UNCHANGED rewound

RewindBatch ==
  /\ cpc = "waiting" \/ (cpc = "sending" /\ read < Lines)
  /\ Reconnect(start)
  /\ UNCHANGED rewound

RewindFile ==
  /\ cpc = "final" \/ (cpc = "sending" /\ read = Lines)
  /\ Reconnect(0)
  /\ rewound' = TRUE

-----------------------------------------------------------------------------
(* The sender takes an item; a full chunk or the end of file is published. *)
Take ==
  /\ gpc = "idle" /\ up # <<>>
  /\ item' = Head(up) /\ up' = Tail(up)
  /\ chunk' = IF Head(up).line = EndOfFile THEN chunk ELSE Append(chunk, Head(up).line)
  /\ gpc' = IF Head(up).line = EndOfFile \/ Len(chunk) + 1 >= BatchSize
              THEN "chunk" ELSE "idle"
  /\ UNCHANGED <<client, conn, acks, at, nodes, history>>

(* Mutant of Advance: publish returns after the first destination.         *)
AdvanceAtOnce(then) == at' = 0 /\ gpc' = then

(* Sender.publish hands the message to one destination after the other;    *)
(* each first node's IsDuplicate drops a number below the expected one.    *)
Advance(then) ==
  IF at + 1 = Dsts THEN at' = 0 /\ gpc' = then
                   ELSE at' = at + 1 /\ gpc' = gpc

(* Mutant of Seen: the last number let through counts as new.              *)
SeenLate(d, id) == id + 1 < expect[d]

Seen(d, id) == id < expect[d]

(* Mutant of PublishChunk: the chunk is not cleared once published.        *)
PublishChunkKept ==
  /\ gpc = "chunk"
  /\ LET d == at + 1
     IN  IF Seen(d, item.batch)
           THEN UNCHANGED nodes
           ELSE /\ expect' = [expect EXCEPT ![d] = item.batch + 1]
                /\ lines' = [lines EXCEPT ![d] = @ \o chunk]
                /\ UNCHANGED ended
  /\ Advance("ack")
  /\ UNCHANGED <<client, link, chunk, item, history>>

PublishChunk ==
  /\ gpc = "chunk"
  /\ LET d == at + 1
     IN  IF Seen(d, item.batch)
           THEN UNCHANGED nodes
           ELSE /\ expect' = [expect EXCEPT ![d] = item.batch + 1]
                /\ lines' = [lines EXCEPT ![d] = @ \o chunk]
                /\ UNCHANGED ended
  /\ Advance("ack")
  /\ chunk' = IF gpc' = "ack" THEN <<>> ELSE chunk
  /\ UNCHANGED <<client, link, item, history>>

SendAck ==
  /\ gpc = "ack"
  /\ acks' = acks + 1
  /\ gpc' = IF item.line = EndOfFile THEN "eof" ELSE "idle"
  /\ UNCHANGED <<client, conn, up, chunk, item, at, nodes, history>>

(* The end of file goes out under the number after the last chunk's.       *)
PublishEof ==
  /\ gpc = "eof"
  /\ LET d == at + 1
     IN  IF Seen(d, item.batch + 1)
           THEN UNCHANGED nodes
           ELSE /\ expect' = [expect EXCEPT ![d] = item.batch + 2]
                /\ ended' = [ended EXCEPT ![d] = @ + 1]
                /\ UNCHANGED lines
  /\ Advance("idle")
  /\ UNCHANGED <<client, link, chunk, item, history>>

-----------------------------------------------------------------------------
(* The gateway dies; acknowledgements already on their way may be read.    *)
Crash ==
  /\ gpc # "down" /\ crashes < MaxCrashes
  /\ gpc' = "down" /\ chunk' = <<>> /\ at' = 0
  /\ conn' = FALSE /\ up' = <<>>
  /\ eofCut' = (eofCut \/ gpc = "eof")
  /\ crashes' = crashes + 1
  /\ UNCHANGED <<client, acks, item, nodes, rewound>>

Restart ==
  /\ gpc = "down"
  /\ gpc' = "idle"
  /\ UNCHANGED <<client, link, chunk, item, at, nodes, history>>

Client  == SendLine \/ SendEof \/ ReadAck \/ ReadFinalAck \/ RewindBatch \/ RewindFile
Gateway == Take \/ PublishChunk \/ SendAck \/ PublishEof \/ Restart
Next    == Client \/ Gateway \/ Crash

Spec     == Init /\ [][Next]_vars
(* Both processes run, and a dead gateway is started again.                *)
FairSpec == Spec /\ WF_vars(Client) /\ WF_vars(Gateway)

-----------------------------------------------------------------------------
FirstLines(n) == [i \in 1..n |-> i]

(* A batch the client has moved past is at every destination: an ack is    *)
(* never sent for something a dying gateway can still lose.                *)
MovedPastIsPublished ==
  \A d \in 1..Dsts :
    expect[d] >= batch + (IF cpc = "done" \/ acks > 0 THEN 1 ELSE 0)

(* Unless the client had to rewind the file, each destination gets it from *)
(* its first record on, every record once, in order, and the end of the    *)
(* file once and after all of them.                                        *)
FileOnceInOrder ==
  ~ rewound =>
    \A d \in 1..Dsts :
      /\ lines[d] = FirstLines(Len(lines[d]))
      /\ ended[d] <= 1
      /\ ended[d] = 1 => Len(lines[d]) = Lines

(* Unless the client had to rewind the file or the gateway died publishing *)
(* its end, the client finishes and the whole file gets everywhere.        *)
WholeFileArrives ==
  <>(\/ rewound \/ eofCut
     \/ /\ cpc = "done"
        /\ \A d \in 1..Dsts : ended[d] = 1 /\ Len(lines[d]) = Lines)

(* "Each batch must be identified uniquely by its sequence id": no record  *)
(* is let through under two batch numbers.                                 *)
RecordOnce ==
  \A d \in 1..Dsts : \A i, j \in 1..Len(lines[d]) : lines[d][i] = lines[d][j] => i = j
=============================================================================
