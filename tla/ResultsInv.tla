----------------------------- MODULE ResultsInv -----------------------------
(***************************************************************************)
(* Why the results are whole: the inductive invariant of Results.  The     *)
(* recovery file holds each message once and in the order of its ids, the  *)
(* duplicate handler and the parts agree with what of it is known, and a   *)
(* result is assembled only when all its parts are.                        *)
(***************************************************************************)
EXTENDS Results

Live == pc \notin {"down", "recovering"}

(* What is in the file or about to be, and what of it the listener knows.  *)
Logged == Range(file) \union hand

Known == {file[i] : i \in 1..(IF Live THEN Len(file) ELSE replayed)} \union hand

MessagesOf(R) == {m \in Range(Feed) : MsgRecord(m) \in R}

Standing ==
  /\ pc \in {"logging", "sending", "acking"} => acked < Len(Feed)
  /\ pc # "recovering" => replayed = 0
  /\ ~ Live => hand = {} /\ \A c \in Clients : sender[c] \in {"none", "waiting"}
  /\ pc = "down" => dup = [q \in Queries |-> 0] /\ acc = NoParts /\ pending = {}
  /\ pc \in {"down", "idle", "logging", "sending", "acking"} => pending = {}
  /\ pc = "sending" => ~ IsPart(Message) /\ MsgRecord(Message) \in Logged

-----------------------------------------------------------------------------
(* The ids of a query ascend in the file, and the record to come is above. *)
Below(r, s) ==
  r.kind = "msg" /\ s.kind = "msg" /\ r.msg.query = s.msg.query => r.msg.id < s.msg.id

InOrder ==
  /\ \A i, j \in DOMAIN file : i < j => Below(file[i], file[j])
  /\ \A i \in DOMAIN file, r \in hand : Below(file[i], r)

(* The duplicate handler stands one above the last known id of a query, or *)
(* above the one that is about to be logged.                               *)
DupIsAbove ==
  /\ \A m \in MessagesOf(Known) : m.id < dup[m.query]
  /\ pc = "logging" =>
       /\ dup[Message.query] = Message.id + 1
       /\ \A m \in MessagesOf(Known) : m.query = Message.query => m.id < Message.id
  /\ \A q \in Queries :
       \/ dup[q] = 0
       \/ pc = "logging" /\ Message.query = q
       \/ \E m \in MessagesOf(Known) : m.query = q /\ dup[q] = m.id + 1

(* What was logged was in the queue before what is still to come, and a    *)
(* message is acknowledged when it is logged.                              *)
LoggedIsPast ==
  /\ \A m \in MessagesOf(Logged) : \E k \in DOMAIN Feed : k <= acked + 1 /\ m = Feed[k]
  /\ ~ lost => \A i \in 1..acked : MsgRecord(Feed[i]) \in Logged
  /\ ~ lost /\ pc = "acking" => MsgRecord(Message) \in Logged

-----------------------------------------------------------------------------
(* A sender, its connection and its client.                                *)
Delivery(c) ==
  /\ sender[c] \in {"none", "waiting"} => ~ ackByte[c]
  /\ sender[c] = "waiting" => socket[c] = {}
  /\ sender[c] = "none" => state[c] # "connected"
  /\ state[c] \in {"new", "away", "failed"} => sender[c] = "none"
  /\ sender[c] = "sent" => \/ socket[c] = item[c] /\ ~ ackByte[c]
                           \/ socket[c] = {} /\ \A r \in item[c] : Has(c, r.query)
  /\ sender[c] = "logging" => socket[c] = {} /\ ~ ackByte[c] /\ \A r \in item[c] : Has(c, r.query)

-----------------------------------------------------------------------------
(* The end of a client's result of a query is in the records R.            *)
Ended(R, c, q) ==
  \E m \in MessagesOf(R) : m.client = c /\ m.query = q /\ ~ IsPart(m)

(* A result is sent after its end was logged, and its ACK record follows.  *)
EndIsLogged ==
  /\ \A p \in pending : Ended(Known, p.client, p.query)
  /\ \A c \in Clients : \A r \in item[c] : Ended(Logged, c, r.query)
  /\ \A j \in DOMAIN file : file[j].kind = "ack" =>
       \E i \in 1..(j - 1), m \in Range(Feed) :
         /\ file[i] = MsgRecord(m) /\ m.client = file[j].client /\ m.query = file[j].query
         /\ ~ IsPart(m)
  /\ \A r \in hand : r.kind = "ack" => Ended(Range(file), r.client, r.query)

PartsIn(R, c, q) ==
  {m \in MessagesOf(R) : m.client = c /\ m.query = q /\ IsPart(m)}

(* Until the end of a result is known, what was accumulated is what is     *)
(* known; the result that is about to be sent is whole.                    *)
Accumulated ==
  /\ \A c \in Clients, q \in Accumulating :
       Ended(Known, c, q) \/ Holds(acc[c][q], PartsIn(Known, c, q))
  /\ ~ lost /\ pc = "sending" =>
       Holds(Body(Message), Parts(Message.client, Message.query))

(* Every result under way is whole.                                        *)
ResultsUnderWay ==
  ~ lost =>
    /\ \A p \in pending : Holds(p.body, Parts(p.client, p.query))
    /\ \A c \in Clients : \A r \in item[c] \union socket[c] \union got[c] :
         Holds(r.body, Parts(c, r.query))

ResultsInvariant ==
  /\ TypeOK
  /\ Standing
  /\ InOrder /\ DupIsAbove /\ LoggedIsPast
  /\ \A c \in Clients : Delivery(c)
  /\ AckRecordIsTrue
  /\ EndIsLogged /\ Accumulated /\ ResultsUnderWay
=============================================================================
