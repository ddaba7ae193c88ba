---------------------------- MODULE GatewayProofs ----------------------------
(***************************************************************************)
(* No two clients are given the same number, whatever the number of        *)
(* clients, the width of the counter and the times the gateway dies; and   *)
(* what is proved of an upload and of the ids holds of the one process     *)
(* that does both and loses both at once.                                  *)
(***************************************************************************)
EXTENDS GatewayNode, UploadProofs

USE ClientIdsAssumption

(* The types hold in every state of the generator.                         *)
LEMMA IdsTypes == IdsSpec => []IdsTypeOK
<1>1. ASSUME IdsInit PROVE IdsTypeOK
  <2>1. 0 \in 0..(Width - 1)
    OBVIOUS
  <2>2. asker \in [Askers -> Steps] /\ number \in [Askers -> 0..(Width - 1)]
    BY <1>1, <2>1 DEF IdsInit, Steps
  <2>3. file \in 0..(Width - 1) \union {Empty}
    BY <1>1 DEF IdsInit
  <2> QED BY <1>1, <2>1, <2>2, <2>3 DEF IdsInit, IdsTypeOK
<1>2. IdsTypeOK /\ [IdsNext]_idVars => IdsTypeOK'
  <2> SUFFICES ASSUME IdsTypeOK, [IdsNext]_idVars PROVE IdsTypeOK'
    OBVIOUS
  <2> USE DEF IdsTypeOK, Steps
  <2>1. CASE UNCHANGED idVars
    BY <2>1 DEF idVars
  <2>2. ASSUME NEW c \in Askers, Ask(c) PROVE IdsTypeOK'
    BY <2>2 DEF Ask
  <2>3. ASSUME NEW c \in Askers, TakeId(c) PROVE IdsTypeOK'
    BY <2>3 DEF TakeId
  <2>4. ASSUME NEW c \in Askers, WriteNext(c) PROVE IdsTypeOK'
    BY <2>4 DEF WriteNext
  <2>5. ASSUME NEW c \in Askers, SendId(c) PROVE IdsTypeOK'
    BY <2>5 DEF SendId
  <2>6. CASE IdsCrash
    BY <2>6 DEF IdsCrash
  <2>7. CASE IdsRestart
    BY <2>7 DEF IdsRestart
  <2> QED BY <2>1, <2>2, <2>3, <2>4, <2>5, <2>6, <2>7 DEF IdsNext, GiveIds
<1> QED BY <1>1, <1>2, PTL DEF IdsSpec

(* The counter stays ahead of every number that is out, through every      *)
(* step of every goroutine, crash and restart.                             *)
LEMMA CounterStaysAhead ==
  ASSUME IdsTypeOK, IdsTypeOK', CounterAhead, [IdsNext]_idVars
  PROVE  CounterAhead'
<1> SUFFICES ASSUME ~ cut', ~ wrapped' PROVE CounterAhead'
  BY DEF CounterAhead
<1>1. CASE UNCHANGED idVars
  BY <1>1 DEF idVars, CounterAhead, Locked
<1>2. ASSUME NEW c \in Askers, Ask(c) PROVE CounterAhead'
  BY <1>2 DEF Ask, CounterAhead, Locked, Taken, IdsTypeOK
<1>3. ASSUME NEW c \in Askers, TakeId(c) PROVE CounterAhead'
  <2>1. nextId' = nextId + 1 /\ ~ cut /\ ~ wrapped
    BY <1>3 DEF TakeId, IdsTypeOK
  <2> QED BY <1>3, <2>1 DEF TakeId, CounterAhead, Locked, Taken, IdsTypeOK
<1>4. ASSUME NEW c \in Askers, WriteNext(c) PROVE CounterAhead'
  BY <1>4 DEF WriteNext, CounterAhead, Locked, Taken, IdsTypeOK
<1>5. ASSUME NEW c \in Askers, SendId(c) PROVE CounterAhead'
  BY <1>5 DEF SendId, CounterAhead, Locked, Taken, IdsTypeOK
<1>6. CASE IdsCrash
  <2>1. ~ Locked /\ ~ cut /\ ~ wrapped /\ serving /\ ~ serving'
    BY <1>6 DEF IdsCrash
  <2>2. \A c \in Askers : asker'[c] \in Taken => asker[c] = "served" /\ asker'[c] = "served"
    BY <1>6 DEF IdsCrash, Taken, IdsTypeOK
  <2>3. ~ Locked'
    BY <2>2 DEF Locked, Taken
  <2>4. file = nextId \/ (file = Empty /\ nextId = 0)
    BY <2>1 DEF CounterAhead
  <2>5. nextId >= First /\ nextId \in Nat /\ First \in Nat
    BY <2>1 DEF CounterAhead, IdsTypeOK
  <2>6. (file # Empty /\ file >= First) \/ (file = Empty /\ First = 0)
    BY <2>4, <2>5
  <2>7. ASSUME NEW c \in Askers, asker'[c] \in Taken
        PROVE  /\ number[c] >= First /\ file # Empty /\ number[c] < file
               /\ \A d \in Askers \ {c} : asker'[d] \in Taken => number[d] # number[c]
    <3>1. asker[c] \in Taken /\ number[c] \in Nat
      BY <2>2, <2>7 DEF Taken, IdsTypeOK
    <3>2. number[c] < nextId /\ number[c] >= First
      BY <2>1, <3>1 DEF CounterAhead
    <3>3. \A d \in Askers \ {c} : asker[d] \in Taken => number[d] # number[c]
      BY <2>1, <3>1 DEF CounterAhead
    <3>4. file = nextId
      BY <2>4, <3>1, <3>2
    <3> QED BY <2>2, <2>5, <3>2, <3>3, <3>4 DEF Taken
  <2>8. \A c, d \in Askers : asker'[c] = "writing" /\ asker'[d] = "writing" => c = d
    BY <2>3 DEF Locked
  <2> QED BY <1>6, <2>1, <2>3, <2>6, <2>7, <2>8 DEF IdsCrash, CounterAhead
<1>7. CASE IdsRestart
  BY <1>7 DEF IdsRestart, CounterAhead, Locked, Taken, IdsTypeOK
<1> QED BY <1>1, <1>2, <1>3, <1>4, <1>5, <1>6, <1>7 DEF IdsNext, GiveIds

(* The types and the counter's lead over every number that is out, which a *)
(* restart takes over from the file, hold in every state.                  *)
THEOREM CounterIsAhead == IdsSpec => []IdsInvariant
<1>1. IdsInit => CounterAhead
  BY DEF IdsInit, CounterAhead, Locked, Taken
<1>2. IdsTypeOK /\ IdsTypeOK' /\ CounterAhead /\ [IdsNext]_idVars => CounterAhead'
  BY CounterStaysAhead
<1> QED BY <1>1, <1>2, IdsTypes, PTL DEF IdsSpec, IdsInvariant

(* No client is given a number that another one has or had, unless the     *)
(* gateway died with its file truncated or the counter overflowed.         *)
THEOREM NumbersAlwaysDiffer == IdsSpec => []NumbersDiffer
<1>1. IdsInvariant => NumbersDiffer
  BY DEF IdsInvariant, CounterAhead, NumbersDiffer, Taken
<1> QED BY <1>1, CounterIsAhead, PTL

-----------------------------------------------------------------------------
(* Steps of the process are steps or stutters of each of its parts.        *)
LEMMA NodeSteps == [NodeNext]_all => [Next]_vars /\ [IdsNext]_idVars
<1> SUFFICES ASSUME [NodeNext]_all PROVE [Next]_vars /\ [IdsNext]_idVars
  OBVIOUS
<1>1. CASE Uploading
  BY <1>1 DEF Uploading, Next, Gateway
<1>2. CASE GivingIds
  BY <1>2 DEF GivingIds, IdsNext
<1>3. CASE Killed
  BY <1>3 DEF Killed, Next, IdsNext
<1>4. CASE Started
  BY <1>4 DEF Started, Next, Gateway, IdsNext
<1>5. CASE UNCHANGED all
  BY <1>5 DEF all
<1> QED BY <1>1, <1>2, <1>3, <1>4, <1>5 DEF NodeNext

LEMMA NodeImplements == NodeSpec => Spec /\ IdsSpec
<1>1. NodeInit => Init /\ IdsInit
  BY DEF NodeInit
<1> QED
  BY <1>1, NodeSteps, PTL DEF NodeSpec, Spec, IdsSpec

(* The gateway process, of which a death takes both the upload             *)
(* (chunk/sender.go) and the goroutines that give ids (id.go), wherever    *)
(* each stands, keeps the invariants of both.                              *)
THEOREM GatewayKeepsBoth == NodeSpec => [](UploadInvariant /\ IdsInvariant)
  BY NodeImplements, UploadIsInvariant, CounterIsAhead, PTL

(* So in the running gateway no acknowledged batch is lost, a file that is *)
(* not rewound arrives in order and once, and no two clients get one id.   *)
THEOREM GatewayIsCorrect ==
  NodeSpec => [](MovedPastIsPublished /\ FileOnceInOrder /\ NumbersDiffer)
  BY NodeImplements, MovedPastPublished, FileDeliveredInOrder, NumbersAlwaysDiffer, PTL
=============================================================================
