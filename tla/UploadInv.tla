----------------------------- MODULE UploadInv ------------------------------
(***************************************************************************)
(* Why an upload is published whole and in order: the inductive invariant  *)
(* of Upload.  Wire says where the records of the current batch are        *)
(* (client, connection, chunk), Published which destinations have them,    *)
(* InOrder what the destinations have been given so far.                   *)
(***************************************************************************)
EXTENDS Upload

(* The acknowledgement of a batch comes after all of it was published.     *)
Acks ==
  /\ acks \in {0, 1}
  /\ acks = 1 => cpc \in {"waiting", "final"}

BatchFilled ==
  /\ cpc = "waiting" => sent = BatchSize
  /\ cpc # "waiting" => sent < BatchSize

(* What the gateway keeps, by where it stands.                             *)
Standing ==
  /\ gpc = "idle" => Len(chunk) < BatchSize
  /\ gpc \in {"ack", "eof", "down"} => chunk = <<>>
  /\ gpc \in {"idle", "ack", "down"} => at = 0

NoConnection == ~ conn => up = <<>> /\ chunk = <<>> /\ gpc \in {"down", "idle"}

(* The current batch is on its way. *)
Underway == conn /\ gpc = "idle" /\ acks = 0 /\ cpc # "done"

OnItsWay ==
  /\ conn => gpc # "down" /\ \A i \in 1..Len(up) : up[i].batch = batch
  /\ Underway =>
       /\ Len(chunk) + Len(up) = (IF cpc = "final" THEN sent + 1 ELSE sent)
       /\ \A i \in 1..Len(up) : up[i].line = EndOfFile <=> cpc = "final" /\ i = Len(up)
       /\ cpc = "final" => up # <<>>
  /\ conn /\ (acks = 1 \/ cpc = "done") => up = <<>> /\ chunk = <<>> /\ gpc \in {"idle", "eof"}

(* The current batch is being published.                                   *)
BeingPublished ==
  /\ conn /\ gpc \in {"chunk", "ack", "eof"} =>
       /\ up = <<>> /\ item.batch = batch
       /\ cpc \in {"waiting", "final", "done"}
       /\ item.line = EndOfFile <=> cpc # "waiting"
  /\ conn /\ gpc \in {"chunk", "ack"} => acks = 0 /\ cpc # "done"
  /\ conn /\ gpc = "chunk" => Len(chunk) = sent
  /\ conn /\ gpc = "eof" => cpc # "waiting" /\ (acks = 1 \/ cpc = "done")

Wire == Acks /\ BatchFilled /\ Standing /\ NoConnection /\ OnItsWay /\ BeingPublished

Published ==
  /\ gpc = "chunk" => \A d \in 1..at : expect[d] >= item.batch + 1
  /\ gpc = "ack" => \A d \in 1..Dsts : expect[d] >= item.batch + 1
  /\ MovedPastIsPublished

-----------------------------------------------------------------------------
(* The records of the current batch are those after start. *)
Reading ==
  /\ read = start + sent
  /\ cpc \in {"final", "done"} => read = Lines
  /\ \A i \in 1..Len(chunk) : chunk[i] = start + i
  /\ Underway => \A i \in 1..Len(up) :
                   up[i].line # EndOfFile => up[i].line = start + Len(chunk) + i

BatchEnd == IF start + BatchSize <= Lines THEN start + BatchSize ELSE Lines

(* What a destination has been given. *)
Given(d) ==
  /\ lines[d] = FirstLines(Len(lines[d]))
  /\ expect[d] = batch => Len(lines[d]) = start
  /\ expect[d] # batch => Len(lines[d]) = BatchEnd
  /\ ended[d] = 0 => expect[d] <= batch + 1
  /\ ended[d] # 0 => /\ ended[d] = 1 /\ expect[d] = batch + 2
                     /\ start + BatchSize > Lines /\ cpc \in {"final", "done"}

InOrder == ~ rewound => Reading /\ \A d \in 1..Dsts : Given(d)

UploadInvariant == TypeOK /\ Wire /\ Published /\ InOrder
=============================================================================
