---------------------------- MODULE HealthCheck -----------------------------
(***************************************************************************)
(* The health checkers (internal/healthcheck): each has one goroutine per  *)
(* node of its list, which probes the node over UDP and has docker restart *)
(* it after MaxErrors failures, and the checkers watch each other in a     *)
(* ring.  Every process, checkers included, answers probes in a goroutine  *)
(* of its own (service.go).                                                *)
(*                                                                         *)
(* Processes are killed, lookups fail, probes and answers are lost or late,*)
(* and docker fails; these faults are bounded.  Shutdown by a signal is    *)
(* part of Stop.                                                           *)
(***************************************************************************)
EXTENDS Naturals, FiniteSets

CONSTANTS
  N,            \* number of checkers
  Nodes,        \* the other containers
  Owner,        \* [Nodes -> Checkers]: whose list a node is in
  MaxErrors,    \* hc.max-errors
  MaxErr,       \* service.max-err
  MaxKills,     \* bound: processes killed
  MaxFaults     \* bound: failures met while the process is up

Checkers == 1..N
Members  == Checkers \union Nodes

ASSUME HealthCheckAssumption ==
  /\ N \in Nat \ {0} /\ MaxErrors \in Nat \ {0} /\ MaxErr \in Nat \ {0}
  /\ Nodes \intersect Checkers = {} /\ Owner \in [Nodes -> Checkers]
  /\ MaxKills \in Nat /\ MaxFaults \in Nat

NextHc(c) == (c % N) + 1

(* Mutant: the list holds no checker.                                      *)
WatchedNodes(c) == { n \in Nodes : Owner[n] = c }

(* The nodes of checker c's list, and the next checker if it is another.   *)
Watched(c) ==
  { n \in Nodes : Owner[n] = c } \union { m \in Checkers : m = NextHc(c) /\ m # c }

(* A link is a checker's goroutine for one member.                         *)
Links == { l \in Checkers \X Members : l[2] \in Watched(l[1]) }

VARIABLES
  up,         \* [Members -> BOOLEAN]: the container runs
  readErrs,   \* [Members -> 0..MaxErr]: read errors of its service
  link,       \* [Links -> record]: the goroutine's step and counters, and
              \*   the probes and answers under way on its connection
  unpaid,     \* [Links -> record]: failures that the member's state does not
              \*   explain and no answer or restart has settled
  kills, faults

vars == <<up, readErrs, link, unpaid, kills, faults>>

Phases == {"off", "connect", "send", "read", "restart", "start"}

Goroutine(phase) ==
  [phase |-> phase, connErr |-> 0, errCount |-> 0, probes |-> 0, acks |-> 0]

Nothing == [probe |-> 0, lookup |-> 0]

(* The process runs and its service has not closed its socket.             *)
Answering(m) == up[m] /\ readErrs[m] < MaxErr

Init ==
  /\ up = [m \in Members |-> TRUE]
  /\ readErrs = [m \in Members |-> 0]
  /\ link = [l \in Links |-> Goroutine("connect")]
  /\ unpaid = [l \in Links |-> Nothing]
  /\ kills = 0 /\ faults = 0

At(l, phase) == link[l].phase = phase

Fault == faults < MaxFaults /\ faults' = faults + 1

(* A failure the state of the member explains, or a fault against it.      *)
Failure(l, kind, explained) ==
  IF explained THEN UNCHANGED <<unpaid, faults>>
  ELSE Fault /\ unpaid' = [unpaid EXCEPT ![l][kind] = @ + 1]

-----------------------------------------------------------------------------
(* Mutant: errCount outlives the connections too.                          *)
ConnectKept(l) ==
  /\ At(l, "connect") /\ up[l[2]]
  /\ link' = [link EXCEPT ![l].phase = "send", ![l].probes = 0, ![l].acks = 0]
  /\ unpaid' = [unpaid EXCEPT ![l].probe = 0]
  /\ UNCHANGED <<up, readErrs, kills, faults>>

(* check: the name resolves and the dial succeeds.                         *)
Connect(l) ==
  /\ At(l, "connect") /\ up[l[2]]
  /\ link' = [link EXCEPT ![l].phase = "send", ![l].errCount = 0,
                          ![l].probes = 0, ![l].acks = 0]
  /\ unpaid' = [unpaid EXCEPT ![l].probe = 0]
  /\ UNCHANGED <<up, readErrs, kills, faults>>

(* Mutant: connErr is not reset by the restart.                            *)
ConnectFailsKept(l) ==
  /\ At(l, "connect") /\ Failure(l, "lookup", ~ up[l[2]])
  /\ link' = [link EXCEPT ![l].connErr = @ + 1,
                          ![l].phase = IF link[l].connErr + 1 = MaxErrors
                                       THEN "restart" ELSE "connect"]
  /\ UNCHANGED <<up, readErrs, kills>>

(* connErr outlives the connections; only a restart it causes resets it.   *)
ConnectFails(l) ==
  /\ At(l, "connect") /\ Failure(l, "lookup", ~ up[l[2]])
  /\ link' = IF link[l].connErr + 1 = MaxErrors
             THEN [link EXCEPT ![l].phase = "restart", ![l].connErr = 0]
             ELSE [link EXCEPT ![l].connErr = @ + 1]
  /\ UNCHANGED <<up, readErrs, kills>>

Send(l) ==
  /\ At(l, "send")
  /\ link' = [link EXCEPT ![l].phase = "read",
                          ![l].probes = @ + IF Answering(l[2]) THEN 1 ELSE 0]
  /\ UNCHANGED <<up, readErrs, unpaid, kills, faults>>

(* An error of Write or Read: the connection is closed at MaxErrors.       *)
Missed(l, lost) ==
  /\ Failure(l, "probe", ~ Answering(l[2]))
  /\ link' = [link EXCEPT ![l].errCount = @ + 1, ![l].probes = @ - lost,
                          ![l].phase = IF link[l].errCount + 1 = MaxErrors
                                       THEN "restart" ELSE "send"]
  /\ UNCHANGED <<up, readErrs, kills>>

SendFails(l) == At(l, "send") /\ Missed(l, 0)

(* The deadline passes: the probe or its answer is lost, or late.          *)
ReadFails(l) ==
  /\ At(l, "read") /\ link[l].acks = 0
  /\ \E lost \in 0..link[l].probes : Missed(l, lost)

(* Mutant: an answer does not reset errCount.                              *)
ReadAckKept(l) ==
  /\ At(l, "read") /\ link[l].acks > 0
  /\ link' = [link EXCEPT ![l].phase = "send", ![l].acks = @ - 1]
  /\ unpaid' = [unpaid EXCEPT ![l].probe = 0]
  /\ UNCHANGED <<up, readErrs, kills, faults>>

(* Any answer on the connection counts, that of an earlier probe too.      *)
ReadAck(l) ==
  /\ At(l, "read") /\ link[l].acks > 0
  /\ link' = [link EXCEPT ![l].phase = "send", ![l].errCount = 0, ![l].acks = @ - 1]
  /\ unpaid' = [unpaid EXCEPT ![l].probe = 0]
  /\ UNCHANGED <<up, readErrs, kills, faults>>

-----------------------------------------------------------------------------
(* A process ends: its goroutines with it, and what was on its way to it.  *)
WithoutMember(m) ==
  [l \in Links |-> CASE l[1] = m -> Goroutine("off")
                     [] l[1] # m /\ l[2] = m -> [link[l] EXCEPT !.probes = 0]
                     [] OTHER -> link[l]]

(* docker restart stops the container, if it runs ...                      *)
Stop(l) ==
  LET m == l[2] IN
  /\ At(l, "restart")
  /\ up' = [up EXCEPT ![m] = FALSE]
  /\ readErrs' = [readErrs EXCEPT ![m] = 0]
  /\ link' = [WithoutMember(m) EXCEPT ![l].phase = "start"]
  /\ unpaid' = [k \in Links |->
       CASE k[1] = m -> Nothing
         [] k = l /\ Answering(m) /\ unpaid[l].probe >= MaxErrors ->
              [unpaid[l] EXCEPT !.probe = 0]
         [] k = l /\ Answering(m) /\ unpaid[l].probe < MaxErrors ->
              [unpaid[l] EXCEPT !.lookup = @ - MaxErrors]
         [] OTHER -> unpaid[k]]
  /\ UNCHANGED <<kills, faults>>

(* ... and starts it; the goroutine connects again.                        *)
Start(l) ==
  LET m == l[2] IN
  /\ At(l, "start")
  /\ up' = [up EXCEPT ![m] = TRUE]
  /\ link' = [k \in Links |-> CASE k = l -> [link[l] EXCEPT !.phase = "connect"]
                                [] k[1] = m -> Goroutine("connect")
                                [] OTHER -> link[k]]
  /\ UNCHANGED <<readErrs, unpaid, kills, faults>>

RestartFails(l) ==
  /\ At(l, "restart") /\ Fault
  /\ link' = [link EXCEPT ![l].phase = "connect"]
  /\ UNCHANGED <<up, readErrs, unpaid, kills>>

-----------------------------------------------------------------------------
(* Service.Listen of the member: one answer per probe.                     *)
Answer(l) ==
  /\ Answering(l[2]) /\ link[l].probes > 0
  /\ link' = [link EXCEPT ![l].probes = @ - 1, ![l].acks = @ + 1]
  /\ UNCHANGED <<up, readErrs, unpaid, kills, faults>>

(* The errors of a service's whole life add up to its end.                 *)
ServiceError(m) ==
  /\ Answering(m) /\ Fault
  /\ readErrs' = [readErrs EXCEPT ![m] = @ + 1]
  /\ link' = [l \in Links |-> IF l[2] = m /\ readErrs'[m] = MaxErr
                              THEN [link[l] EXCEPT !.probes = 0] ELSE link[l]]
  /\ UNCHANGED <<up, unpaid, kills>>

Kill(m) ==
  /\ up[m] /\ kills < MaxKills
  /\ kills' = kills + 1
  /\ up' = [up EXCEPT ![m] = FALSE]
  /\ readErrs' = [readErrs EXCEPT ![m] = 0]
  /\ link' = WithoutMember(m)
  /\ unpaid' = [l \in Links |-> IF l[1] = m THEN Nothing ELSE unpaid[l]]
  /\ UNCHANGED faults

Check(l) ==
  \/ Connect(l) \/ ConnectFails(l)
  \/ Send(l) \/ SendFails(l) \/ ReadAck(l) \/ ReadFails(l)
  \/ Stop(l) \/ Start(l) \/ RestartFails(l)

Next ==
  \/ \E l \in Links : Check(l) \/ Answer(l)
  \/ \E m \in Members : ServiceError(m) \/ Kill(m)

Spec == Init /\ [][Next]_vars

(* Goroutines run, and a probe under way is answered.                      *)
Fairness == \A l \in Links : WF_vars(Check(l)) /\ WF_vars(Answer(l))

FairSpec == Spec /\ Fairness

-----------------------------------------------------------------------------
TypeOK ==
  /\ up \in [Members -> BOOLEAN]
  /\ readErrs \in [Members -> 0..MaxErr]
  /\ link \in [Links -> [phase : Phases, connErr : 0..(MaxErrors - 1),
                         errCount : 0..MaxErrors,
                         probes : 0..(MaxFaults + 1), acks : 0..(MaxFaults + 1)]]
  /\ unpaid \in [Links -> [probe : 0..MaxFaults, lookup : 0..MaxFaults]]
  /\ kills \in 0..MaxKills /\ faults \in 0..MaxFaults
  /\ \A l \in Links : At(l, "off") <=> ~ up[l[1]]

(* A process that answers is restarted only after MaxErrors probes in a    *)
(* row went unanswered while it answered, or MaxErrors lookups of its name *)
(* failed while it ran: what it missed while it was dead, or what an       *)
(* earlier restart or answer settled, does not count against it.           *)
AlarmIsDeserved ==
  \A l \in Links :
    At(l, "restart") /\ Answering(l[2]) =>
      unpaid[l].probe >= MaxErrors \/ unpaid[l].lookup >= MaxErrors

(* All run and answer, and no goroutine but probes.                        *)
Settled ==
  /\ \A m \in Members : Answering(m)
  /\ \A l \in Links : At(l, "send") \/ At(l, "read")

(* As long as some checker runs, the ring brings back every checker and    *)
(* every node, whoever was killed, and then restarts nobody any more.      *)
AllComeBack == <>[](\E c \in Checkers : up[c]) => <>[]Settled

=============================================================================
