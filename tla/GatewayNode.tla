---------------------------- MODULE GatewayNode -----------------------------
(***************************************************************************)
(* One gateway process: a client uploads its file while others ask for     *)
(* their ids, and all of it dies and starts again at once.  What Upload    *)
(* takes for granted, that nobody else sends under the client's id (the    *)
(* first number, 0), is what ClientIds has to give.                        *)
(***************************************************************************)
EXTENDS UploadInv, ClientIds

all == <<vars, idVars>>

NodeInit == Init /\ IdsInit

Uploading ==
  /\ Client \/ Take \/ PublishChunk \/ SendAck \/ PublishEof
  /\ UNCHANGED idVars

GivingIds == GiveIds /\ UNCHANGED vars

Killed == Crash /\ IdsCrash

Started == Restart /\ IdsRestart

NodeNext == Uploading \/ GivingIds \/ Killed \/ Started

(* As in Upload: the client and the gateway run, the gateway comes back.   *)
NodeFairness ==
  /\ WF_all(Client /\ UNCHANGED idVars)
  /\ WF_all((Take \/ PublishChunk \/ SendAck \/ PublishEof) /\ UNCHANGED idVars)
  /\ WF_all(Started)

NodeSpec == NodeInit /\ [][NodeNext]_all /\ NodeFairness
=============================================================================
