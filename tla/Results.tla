------------------------------ MODULE Results -------------------------------
(***************************************************************************)
(* The gateway hands the results of its reports queue to the clients       *)
(* (internal/gateway/results_listener.go, persistence/recovery.go) and a   *)
(* client reads them (internal/client/results_listener.go).                *)
(*                                                                         *)
(* In the gateway one goroutine listens to the queue, one writes the       *)
(* recovery file, and one per connected client sends it its results; the   *)
(* channels between them are unbuffered, so a send is one step of both     *)
(* ends.  The gateway may die at any step and is started again; queue and  *)
(* file survive.  A client that has all its results exits; one whose first *)
(* connection fails never listens.                                         *)
(***************************************************************************)
EXTENDS Naturals, Sequences, FiniteSets, Functions

CONSTANTS
  Clients,
  Simple,        \* queries with one message per client (1, 2 and 3)
  Accumulating,  \* queries with several messages and an end of file (4)
  Feed,          \* Seq of [query, id, client, part]: the reports queue
  MaxCrashes     \* bound: times the gateway dies

Queries == Simple \union Accumulating

EndOfFile == 0   \* the part of an end-of-file message

IsPart(m) == m.query \in Accumulating /\ m.part # EndOfFile

(* The last node of a query numbers its messages as it publishes them, and *)
(* repeats some after a crash; a client's end of file is its last message. *)
ASSUME ResultsAssumption ==
  /\ Simple \intersect Accumulating = {}
  /\ Feed \in Seq([query : Queries, id : Nat, client : Clients, part : Nat])
  /\ \A i, j \in DOMAIN Feed : Feed[i].query = Feed[j].query =>
       /\ Feed[i].id = Feed[j].id => Feed[i] = Feed[j]
       /\ i < j /\ Feed[j].id < Feed[i].id => \E k \in 1..(i - 1) : Feed[k] = Feed[j]
       /\ Feed[i].client = Feed[j].client =>
            /\ Feed[i].query \in Accumulating /\ ~ IsPart(Feed[i]) => Feed[j].id <= Feed[i].id
            /\ Feed[i].query \in Simple => Feed[i] = Feed[j]
  /\ MaxCrashes \in Nat

VARIABLES
  acked,     \* messages of Feed acknowledged
  pc,        \* listener: "down", "recovering", "resending", "idle", "logging",
             \* "sending", "acking"
  replayed,  \* records of the file that recoverResults has read
  dup,       \* [Queries -> Nat]: dupsByWorker of each query's last node
  acc,       \* [Clients -> [Accumulating -> Seq(Nat)]]: clientAccumulatedResults
  pending,   \* set of [client, query, body] recovered and not yet sent
  hand,      \* set: the record logResults has taken and not yet written
  file,      \* Seq: the recovery file
  sender,    \* [Clients -> "none", "waiting", "sent", "logging"]: SendResults
  item,      \* [Clients -> set of [query, body]]: what it has taken
  socket,    \* [Clients -> set of [query, body]]: sent and not yet read
  ackByte,   \* [Clients -> BOOLEAN]: the client's ack is on its way
  state,     \* [Clients -> ClientStates]
  got,       \* [Clients -> set of [query, body]]: what the client wrote down
  lost,      \* history: a crash took the record of an acknowledged message
  crashes

listener == <<pc, replayed, dup, acc, pending>>
senders  == <<sender, item>>
links    == <<socket, ackByte>>
clients  == <<state, got>>
history  == <<lost, crashes>>
vars     == <<acked, pc, replayed, dup, acc, pending, hand, file, sender, item, socket,
              ackByte, state, got, lost, crashes>>

Result(q, b)       == [query |-> q, body |-> b]
MsgRecord(m)       == [kind |-> "msg", msg |-> m]
AckRecord(c, q)    == [kind |-> "ack", client |-> c, query |-> q]

NoParts == [c \in Clients |-> [q \in Accumulating |-> << >>]]

(* "new": the first connection is still to be tried; "failed": it failed;  *)
(* "away": a later one was lost; "finished": all results were read.        *)
ClientStates == {"new", "connected", "away", "failed", "finished"}

(* What recoverResults, the senders and the clients keep of a result, and  *)
(* what is written to the recovery file.                                   *)
Reports == [query : Queries, body : Seq(Nat)]
Pending == [client : Clients, query : Queries, body : Seq(Nat)]
Records == {MsgRecord(m) : m \in Range(Feed)}
             \union {AckRecord(c, q) : c \in Clients, q \in Queries}

TypeOK ==
  /\ acked \in 0..Len(Feed)
  /\ pc \in {"down", "recovering", "resending", "idle", "logging", "sending", "acking"}
  /\ replayed \in 0..Len(file)
  /\ dup \in [Queries -> Nat]
  /\ acc \in [Clients -> [Accumulating -> Seq(Nat)]]
  /\ pending \subseteq Pending
  /\ hand \subseteq Records /\ \A r, s \in hand : r = s
  /\ file \in Seq(Records)
  /\ sender \in [Clients -> {"none", "waiting", "sent", "logging"}]
  /\ item \in [Clients -> SUBSET Reports] /\ socket \in [Clients -> SUBSET Reports]
  /\ got \in [Clients -> SUBSET Reports]
  /\ \A c \in Clients :
       /\ item[c] = {} <=> sender[c] \in {"none", "waiting"}
       /\ \A r, s \in item[c] : r = s
       /\ \A r, s \in socket[c] : r = s
       /\ \A r, s \in got[c] : r.query = s.query => r = s
  /\ ackByte \in [Clients -> BOOLEAN]
  /\ state \in [Clients -> ClientStates]
  /\ lost \in BOOLEAN /\ crashes \in 0..MaxCrashes

Init ==
  /\ acked = 0
  /\ pc = "recovering" /\ replayed = 0
  /\ dup = [q \in Queries |-> 0] /\ acc = NoParts /\ pending = {}
  /\ hand = {} /\ file = << >>
  /\ sender = [c \in Clients |-> "none"] /\ item = [c \in Clients |-> {}]
  /\ socket = [c \in Clients |-> {}] /\ ackByte = [c \in Clients |-> FALSE]
  /\ state = [c \in Clients |-> "new"] /\ got = [c \in Clients |-> {}]
  /\ lost = FALSE /\ crashes = 0

-----------------------------------------------------------------------------
(* What a client is sent for a message that ends a result.                 *)
Body(m) == IF m.query \in Simple THEN <<m.part>> ELSE acc[m.client][m.query]

(* recoverResults: the file rebuilds, record by record, the duplicate      *)
(* handler, the parts and the results that no ACK record follows.          *)
ReplayMessage(m) ==
  /\ dup' = [dup EXCEPT ![m.query] = m.id + 1]
  /\ IF IsPart(m)
       THEN /\ acc' = [acc EXCEPT ![m.client][m.query] = Append(@, m.part)]
            /\ UNCHANGED pending
       ELSE /\ pending' = pending \union
                            {[client |-> m.client, query |-> m.query, body |-> Body(m)]}
            /\ UNCHANGED acc

ReplayAck(c, q) ==
  /\ pending' = {p \in pending : p.client # c \/ p.query # q}
  /\ acc' = [acc EXCEPT ![c] = [a \in Accumulating |-> IF a = q THEN << >> ELSE @[a]]]
  /\ UNCHANGED dup

(* Mutant of RecoverRecord: the accumulated parts are not rebuilt.         *)
RecoverNoPart ==
  /\ pc = "recovering" /\ replayed < Len(file)
  /\ LET r == file[replayed + 1]
     IN  IF r.kind = "ack" THEN ReplayAck(r.client, r.query)
         ELSE IF IsPart(r.msg) THEN UNCHANGED <<dup, acc, pending>>
         ELSE ReplayMessage(r.msg)
  /\ replayed' = replayed + 1
  /\ UNCHANGED <<acked, pc, hand, file, senders, links, clients, history>>

RecoverRecord ==
  /\ pc = "recovering" /\ replayed < Len(file)
  /\ LET r == file[replayed + 1]
     IN  IF r.kind = "ack" THEN ReplayAck(r.client, r.query) ELSE ReplayMessage(r.msg)
  /\ replayed' = replayed + 1
  /\ UNCHANGED <<acked, pc, hand, file, senders, links, clients, history>>

Recovered ==
  /\ pc = "recovering" /\ replayed = Len(file)
  /\ pc' = "resending" /\ replayed' = 0
  /\ UNCHANGED <<acked, dup, acc, pending, hand, file, senders, links, clients, history>>

(* clientChan <- result: the client's sender takes it and writes it out.   *)
HandOver(c, r) ==
  /\ sender[c] = "waiting"
  /\ sender' = [sender EXCEPT ![c] = "sent"]
  /\ item' = [item EXCEPT ![c] = {r}]
  /\ socket' = [socket EXCEPT ![c] = {r}]

Resend(p) ==
  /\ pc = "resending" /\ p \in pending
  /\ HandOver(p.client, Result(p.query, p.body))
  /\ pending' = pending \ {p}
  /\ UNCHANGED <<acked, replayed, pc, dup, acc, hand, file, ackByte, clients, history>>

(* Mutant of Resent: the listener does not send what it recovered.         *)
ResentNothing ==
  /\ pc = "resending"
  /\ pc' = "idle"
  /\ UNCHANGED <<acked, replayed, dup, acc, pending, hand, file, senders, links, clients, history>>

Resent ==
  /\ pc = "resending" /\ pending = {}
  /\ pc' = "idle"
  /\ UNCHANGED <<acked, replayed, dup, acc, pending, hand, file, senders, links, clients, history>>

Message == Feed[acked + 1]

(* Mutant of IsDuplicate: the last id let through counts as new.           *)
IsDuplicateLate(m) == m.id + 1 < dup[m.query]

IsDuplicate(m) == m.id < dup[m.query]

Take ==
  /\ pc = "idle" /\ acked < Len(Feed)
  /\ \/ IsDuplicate(Message) /\ pc' = "acking" /\ dup' = dup
     \/ /\ ~ IsDuplicate(Message)
        /\ dup' = [dup EXCEPT ![Message.query] = Message.id + 1]
        /\ pc' = "logging"
  /\ UNCHANGED <<acked, replayed, acc, pending, hand, file, senders, links, clients, history>>

(* logChannel <- the message; a part of a result is then accumulated.      *)
LogMessage ==
  /\ pc = "logging" /\ hand = {}
  /\ hand' = {MsgRecord(Message)}
  /\ acc' = IF IsPart(Message)
              THEN [acc EXCEPT ![Message.client][Message.query] = Append(@, Message.part)]
              ELSE acc
  /\ pc' = IF IsPart(Message) THEN "acking" ELSE "sending"
  /\ UNCHANGED <<acked, replayed, dup, pending, file, senders, links, clients, history>>

SendResult ==
  /\ pc = "sending"
  /\ HandOver(Message.client, Result(Message.query, Body(Message)))
  /\ pc' = "acking"
  /\ UNCHANGED <<acked, replayed, dup, acc, pending, hand, file, ackByte, clients, history>>

AckMessage ==
  /\ pc = "acking"
  /\ acked' = acked + 1
  /\ pc' = "idle"
  /\ UNCHANGED <<replayed, dup, acc, pending, hand, file, senders, links, clients, history>>

(* logResults *)
WriteRecord ==
  /\ \E r \in hand : file' = Append(file, r)
  /\ hand' = {}
  /\ UNCHANGED <<acked, listener, senders, links, clients, history>>

-----------------------------------------------------------------------------
(* SendResults, for one client. *)
(* Mutant of ReadAck: the acknowledgement is not waited for.               *)
SkipAck(c) ==
  /\ sender[c] = "sent"
  /\ sender' = [sender EXCEPT ![c] = "logging"]
  /\ UNCHANGED <<acked, listener, hand, file, item, links, clients, history>>

ReadAck(c) ==
  /\ sender[c] = "sent" /\ ackByte[c]
  /\ ackByte' = [ackByte EXCEPT ![c] = FALSE]
  /\ sender' = [sender EXCEPT ![c] = "logging"]
  /\ UNCHANGED <<acked, listener, hand, file, item, socket, clients, history>>

(* Mutant of LogAck: the sender keeps the result it has delivered.         *)
LogAckKept(c) ==
  /\ sender[c] = "logging" /\ hand = {}
  /\ hand' = {AckRecord(c, r.query) : r \in item[c]}
  /\ sender' = [sender EXCEPT ![c] = "waiting"]
  /\ UNCHANGED <<acked, listener, file, item, links, clients, history>>

LogAck(c) ==
  /\ sender[c] = "logging" /\ hand = {}
  /\ hand' = {AckRecord(c, r.query) : r \in item[c]}
  /\ item' = [item EXCEPT ![c] = {}]
  /\ sender' = [sender EXCEPT ![c] = "waiting"]
  /\ UNCHANGED <<acked, listener, file, links, clients, history>>

-----------------------------------------------------------------------------
(* The client: startResultsListener, and reconnect, which waits for the    *)
(* gateway.                                                                *)
Connect(c) ==
  /\ state[c] \in {"new", "away"} /\ pc # "down"
  /\ state' = [state EXCEPT ![c] = "connected"]
  /\ sender' = [sender EXCEPT ![c] = "waiting"]
  /\ socket' = [socket EXCEPT ![c] = {}]
  /\ UNCHANGED <<acked, listener, hand, file, item, ackByte, got, history>>

(* The first connection is tried once: without it the client listens to    *)
(* nothing, and goes on with its upload.                                   *)
DialFails(c) ==
  /\ state[c] = "new" /\ pc = "down"
  /\ state' = [state EXCEPT ![c] = "failed"]
  /\ UNCHANGED <<acked, listener, hand, file, senders, links, got, history>>

Has(c, q) == \E r \in got[c] : r.query = q

(* A result is acknowledged, written down unless there is one of the same  *)
(* query, and the last one ends the client.  It may be read off a          *)
(* connection whose gateway has died.                                      *)
ReadResult(c) ==
  /\ state[c] \in {"connected", "away"}
  /\ \E r \in socket[c] :
       got' = [got EXCEPT ![c] = IF Has(c, r.query) THEN @ ELSE @ \union {r}]
  /\ socket' = [socket EXCEPT ![c] = {}]
  /\ ackByte' = [ackByte EXCEPT ![c] = state[c] = "connected"]
  /\ state' = [state EXCEPT ![c] =
                 IF Cardinality(got'[c]) = Cardinality(Queries) THEN "finished" ELSE @]
  /\ UNCHANGED <<acked, listener, hand, file, senders, history>>

-----------------------------------------------------------------------------
Crash ==
  /\ pc # "down" /\ crashes < MaxCrashes
  /\ pc' = "down" /\ replayed' = 0
  /\ dup' = [q \in Queries |-> 0] /\ acc' = NoParts /\ pending' = {}
  /\ hand' = {}
  /\ sender' = [c \in Clients |-> "none"] /\ item' = [c \in Clients |-> {}]
  /\ ackByte' = [c \in Clients |-> FALSE]
  /\ state' = [c \in Clients |-> IF state[c] = "connected" THEN "away" ELSE state[c]]
  /\ lost' = (lost \/ \E i \in 1..acked : MsgRecord(Feed[i]) \notin Range(file))
  /\ crashes' = crashes + 1
  /\ UNCHANGED <<acked, file, socket, got>>

Restart ==
  /\ pc = "down"
  /\ pc' = "recovering"
  /\ UNCHANGED <<acked, replayed, dup, acc, pending, hand, file, senders, links, clients, history>>

Listen ==
  \/ RecoverRecord \/ Recovered
  \/ \E p \in pending : Resend(p)
  \/ Resent \/ Take \/ LogMessage \/ SendResult \/ AckMessage \/ Restart

Sender(c) == ReadAck(c) \/ LogAck(c)

Client(c) == Connect(c) \/ DialFails(c) \/ ReadResult(c)

Next ==
  \/ Listen \/ WriteRecord
  \/ \E c \in Clients : Sender(c) \/ Client(c)
  \/ Crash

Spec == Init /\ [][Next]_vars

(* Goroutines and clients run, a dead gateway is started again; the        *)
(* channel of the log serves every goroutine that waits for it.            *)
Fairness ==
  /\ WF_vars(Listen) /\ SF_vars(LogMessage) /\ WF_vars(WriteRecord)
  /\ \A c \in Clients : WF_vars(ReadAck(c)) /\ SF_vars(LogAck(c)) /\ WF_vars(Client(c))

FairSpec == Spec /\ Fairness

-----------------------------------------------------------------------------
(* s holds the parts of the messages in M, in the order of their ids.      *)
Holds(s, M) ==
  /\ Len(s) = Cardinality(M)
  /\ \A m \in M : s[Cardinality({n \in M : n.id <= m.id})] = m.part

(* The messages whose parts make client c's result of query q.             *)
Parts(c, q) ==
  {m \in Range(Feed) : m.client = c /\ m.query = q /\ (q \in Simple \/ IsPart(m))}

(* Unless a record was lost, a result a client writes down holds every     *)
(* part of it, once and in order, however often the gateway died.          *)
ResultsAreWhole ==
  ~ lost => \A c \in Clients : \A r \in got[c] : Holds(r.body, Parts(c, r.query))

(* The file says a result was delivered only when its client has it.       *)
AckRecordIsTrue ==
  \A r \in Range(file) \union hand : r.kind = "ack" => Has(r.client, r.query)

(* A message is recorded once: recovery accumulates no part twice.         *)
RecordedOnce ==
  \A i, j \in DOMAIN file : file[i].kind = "msg" /\ file[i] = file[j] => i = j

Served(c) == \A q \in Queries : Has(c, q)

(* The listener has a result for a client that does not listen any more:   *)
(* it has left, or it never connected.                                     *)
Deaf(c) == state[c] \in {"finished", "failed"}

Stranded ==
  \/ \E p \in pending : pc = "resending" /\ Deaf(p.client)
  \/ pc = "sending" /\ Deaf(Message.client)

(* Every client whose first connection did not fail gets all its results,  *)
(* unless a record was lost or the listener waits for a client that does   *)
(* not listen any more.                                                    *)
ClientsAreServed ==
  <>(lost \/ Stranded \/ \A c \in Clients : Served(c) \/ state[c] = "failed")

(* "ListenResults listens for results from the reports queue and sends     *)
(* them to the results channel": what is in the queue gets handled, at     *)
(* least if no client's first connection failed.                           *)
QueueIsHandled == <>(acked = Len(Feed) \/ \E c \in Clients : state[c] = "failed")
=============================================================================
