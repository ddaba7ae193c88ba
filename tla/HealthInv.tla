----------------------------- MODULE HealthInv ------------------------------
(***************************************************************************)
(* Why an alarm is deserved: the inductive invariant of HealthCheck.  The  *)
(* two error counters of a goroutine never run ahead of the failures that  *)
(* nothing has settled, except of those the member's death explains, and   *)
(* a member only comes back by a restart that leaves none of these behind. *)
(***************************************************************************)
EXTENDS HealthCheck

(* Failures are faults, and a fault leaves one datagram behind at most.    *)
FaultsBound(l) ==
  /\ unpaid[l].probe <= faults /\ unpaid[l].lookup <= faults
  /\ link[l].probes + link[l].acks <= faults + IF At(l, "read") THEN 1 ELSE 0
  /\ ~ Answering(l[2]) \/ At(l, "off") => link[l].probes = 0

ProbesCounted(l) ==
  At(l, "send") \/ At(l, "read") =>
    /\ link[l].errCount < MaxErrors
    /\ Answering(l[2]) => link[l].errCount <= unpaid[l].probe

(* Only while the goroutine looks up a member that is dead does connErr    *)
(* count lookups that its death explains.                                  *)
LookupsCounted(l) ==
  up[l[2]] \/ ~ At(l, "connect") => link[l].connErr <= unpaid[l].lookup

(* A restart follows from the probes of a connection, or from lookups; the *)
(* latter have been reset.                                                 *)
AlarmRaised(l) ==
  At(l, "restart") =>
    \/ Answering(l[2]) => unpaid[l].probe >= MaxErrors
    \/ link[l].connErr = 0 /\ (up[l[2]] => unpaid[l].lookup >= MaxErrors)

HealthInvariant ==
  /\ TypeOK
  /\ \A l \in Links : FaultsBound(l) /\ ProbesCounted(l) /\ LookupsCounted(l) /\ AlarmRaised(l)
=============================================================================
