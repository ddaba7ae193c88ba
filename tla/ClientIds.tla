----------------------------- MODULE ClientIds ------------------------------
(***************************************************************************)
(* The ids the gateway gives its clients (pkg/utils/id,                    *)
(* internal/gateway/new_client_listener.go).  A connection's goroutine     *)
(* takes the next number, which the generator keeps in a file that it      *)
(* truncates and then writes, under a lock, and then sends it.  When the   *)
(* gateway dies the clients whose id was not sent give up, and the next    *)
(* generator starts from the file, or from 0 if it is empty.               *)
(***************************************************************************)
EXTENDS Naturals

CONSTANTS
  Askers,  \* clients that ask for an id
  Width,   \* numbers of a uint16
  First,   \* numbers below it were given before
  Empty    \* an empty file

ASSUME ClientIdsAssumption ==
  Width \in Nat \ {0} /\ First \in 0..(Width - 1) /\ Empty \notin Nat

VARIABLES
  asker,    \* [Askers -> "away", "connected", "writing", "written", "served", "gone"]
  number,   \* [Askers -> the number taken for the asker]
  nextId,   \* Generator.nextId
  file,     \* the number in its file, or Empty
  serving,  \* whether the gateway is up
  cut,      \* whether it died between truncating the file and writing it
  wrapped   \* whether nextId overflowed

idVars == <<asker, number, nextId, file, serving, cut, wrapped>>

Steps == {"away", "connected", "writing", "written", "served", "gone"}

IdsInit ==
  /\ asker = [c \in Askers |-> "away"]
  /\ number = [c \in Askers |-> 0]
  /\ nextId = First
  /\ file = IF First = 0 THEN Empty ELSE First
  /\ serving = TRUE /\ cut = FALSE /\ wrapped = FALSE

Ask(c) ==
  /\ serving /\ asker[c] = "away"
  /\ asker' = [asker EXCEPT ![c] = "connected"]
  /\ UNCHANGED <<number, nextId, file, serving, cut, wrapped>>

Locked == \E c \in Askers : asker[c] = "writing"

(* GetId and the first half of Overwrite.                                  *)
TakeId(c) ==
  /\ serving /\ asker[c] = "connected" /\ ~ Locked
  /\ number' = [number EXCEPT ![c] = nextId]
  /\ nextId' = IF nextId + 1 = Width THEN 0 ELSE nextId + 1
  /\ wrapped' = (wrapped \/ nextId + 1 = Width)
  /\ file' = Empty
  /\ asker' = [asker EXCEPT ![c] = "writing"]
  /\ UNCHANGED <<serving, cut>>

(* Mutant of WriteNext: the file gets the number given, not the next one.  *)
WriteGiven(c) ==
  /\ serving /\ asker[c] = "writing"
  /\ file' = number[c]
  /\ asker' = [asker EXCEPT ![c] = "written"]
  /\ UNCHANGED <<number, nextId, serving, cut, wrapped>>

(* The second half; the lock is free again.                                *)
WriteNext(c) ==
  /\ serving /\ asker[c] = "writing"
  /\ file' = nextId
  /\ asker' = [asker EXCEPT ![c] = "written"]
  /\ UNCHANGED <<number, nextId, serving, cut, wrapped>>

SendId(c) ==
  /\ serving /\ asker[c] = "written"
  /\ asker' = [asker EXCEPT ![c] = "served"]
  /\ UNCHANGED <<number, nextId, file, serving, cut, wrapped>>

IdsCrash ==
  /\ serving
  /\ serving' = FALSE
  /\ cut' = (cut \/ Locked)
  /\ asker' = [c \in Askers |-> IF asker[c] \in {"away", "served"} THEN asker[c] ELSE "gone"]
  /\ UNCHANGED <<number, nextId, file, wrapped>>

(* NewGenerator, loadFromDisk.                                             *)
IdsRestart ==
  /\ ~ serving
  /\ serving' = TRUE
  /\ nextId' = IF file = Empty THEN 0 ELSE file
  /\ UNCHANGED <<asker, number, file, cut, wrapped>>

GiveIds == \E c \in Askers : Ask(c) \/ TakeId(c) \/ WriteNext(c) \/ SendId(c)

IdsNext == GiveIds \/ IdsCrash \/ IdsRestart

IdsSpec == IdsInit /\ [][IdsNext]_idVars

-----------------------------------------------------------------------------
(* "Assigns them an unique client id": no client is given a number another *)
(* one has or had, unless the gateway died with its file truncated or the  *)
(* counter overflowed.                                                     *)
NumbersDiffer ==
  (~ cut /\ ~ wrapped) =>
    \A c \in Askers : asker[c] = "served" =>
      /\ number[c] >= First
      /\ \A d \in Askers \ {c} : asker[d] = "served" => number[d] # number[c]

-----------------------------------------------------------------------------
IdsTypeOK ==
  /\ asker \in [Askers -> Steps] /\ number \in [Askers -> 0..(Width - 1)]
  /\ nextId \in 0..(Width - 1) /\ file \in 0..(Width - 1) \union {Empty}
  /\ serving \in BOOLEAN /\ cut \in BOOLEAN /\ wrapped \in BOOLEAN

Taken == {"writing", "written", "served"}

(* A number that is out is below the counter, and, unless one is being     *)
(* written, below the number in the file: what a restart will start from.  *)
CounterAhead ==
  (~ cut /\ ~ wrapped) =>
    /\ serving => nextId >= First
    /\ serving /\ ~ Locked => file = nextId \/ (file = Empty /\ nextId = 0)
    /\ ~ serving => (file # Empty /\ file >= First) \/ (file = Empty /\ First = 0)
    /\ \A c \in Askers : asker[c] \in Taken =>
         /\ number[c] >= First
         /\ serving => number[c] < nextId
         /\ ~ serving => file # Empty /\ number[c] < file
         /\ \A d \in Askers \ {c} : asker[d] \in Taken => number[d] # number[c]
    /\ Locked => serving
    /\ \A c, d \in Askers : asker[c] = "writing" /\ asker[d] = "writing" => c = d

IdsInvariant == IdsTypeOK /\ CounterAhead
=============================================================================
