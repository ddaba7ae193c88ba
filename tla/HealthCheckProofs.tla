------------------------- MODULE HealthCheckProofs --------------------------
(***************************************************************************)
(* Proof that HealthInvariant is inductive, for any ring of checkers, any  *)
(* nodes and owners, any error limits and any number of kills and faults:  *)
(* a process that answers is restarted only after it missed enough probes, *)
(* or its name enough lookups.                                             *)
(***************************************************************************)
EXTENDS HealthInv, Integers, TLAPS

-----------------------------------------------------------------------------
(* The ring. *)

LEMMA NextInRing ==
  ASSUME NEW c \in Checkers
  PROVE  NextHc(c) = IF c = N THEN 1 ELSE c + 1
<1>1. N \in Nat /\ N > 0 /\ c \in 1..N
  BY HealthCheckAssumption DEF Checkers
<1>2. CASE c = N
  <2>1. N % N = 0
    BY <1>1
  <2> QED BY <1>1, <1>2, <2>1 DEF NextHc
<1>3. CASE c < N
  <2>1. c % N = c
    BY <1>1, <1>3
  <2> QED BY <1>1, <1>3, <2>1 DEF NextHc
<1> QED BY <1>1, <1>2, <1>3

(* A checker is watched by the one before it, a node by its owner.         *)
LEMMA OneWatcher ==
  ASSUME NEW k \in Links, NEW l \in Links, k[2] = l[2]
  PROVE  k = l
<1>1. /\ k[1] \in Checkers /\ l[1] \in Checkers /\ k = <<k[1], k[2]>> /\ l = <<l[1], l[2]>>
      /\ k[2] \in Watched(k[1]) /\ l[2] \in Watched(l[1])
  BY DEF Links
<1>2. CASE l[2] \in Nodes
  BY <1>1, <1>2, HealthCheckAssumption DEF Watched
<1>3. CASE l[2] \notin Nodes
  <2>1. NextHc(k[1]) = NextHc(l[1])
    BY <1>1, <1>3 DEF Watched
  <2>2. k[1] \in 1..N /\ l[1] \in 1..N /\ N \in Nat
    BY <1>1, HealthCheckAssumption DEF Checkers
  <2>3. k[1] = l[1]
    BY <1>1, <2>1, <2>2, NextInRing
  <2> QED BY <1>1, <2>3
<1> QED BY <1>2, <1>3

LEMMA LinkEnds ==
  ASSUME NEW l \in Links
  PROVE  l[1] \in Checkers /\ l[1] \in Members /\ l[2] \in Members /\ l[1] # l[2]
<1>1. l[1] \in Checkers /\ l[2] \in Members /\ l[2] \in Watched(l[1])
  BY DEF Links
<1>2. l[1] # l[2]
  BY <1>1, HealthCheckAssumption DEF Watched
<1> QED BY <1>1, <1>2 DEF Members

-----------------------------------------------------------------------------
(* The types, with the bounds of the counters left to HealthInvariant. *)

Goroutines ==
  [phase : Phases, connErr : Nat, errCount : Nat, probes : Nat, acks : Nat]

Types ==
  /\ up \in [Members -> BOOLEAN]
  /\ readErrs \in [Members -> 0..MaxErr]
  /\ link \in [Links -> Goroutines]
  /\ unpaid \in [Links -> [probe : Nat, lookup : Nat]]
  /\ kills \in 0..MaxKills /\ faults \in 0..MaxFaults

Counters(l) ==
  /\ link[l].connErr < MaxErrors /\ link[l].errCount <= MaxErrors
  /\ At(l, "off") <=> ~ up[l[1]]

LinkInv(l) ==
  Counters(l) /\ FaultsBound(l) /\ ProbesCounted(l) /\ LookupsCounted(l) /\ AlarmRaised(l)

LEMMA Bounds ==
  /\ MaxErrors \in Nat /\ MaxErrors > 0 /\ MaxErr \in Nat /\ MaxErr > 0
  /\ MaxKills \in Nat /\ MaxFaults \in Nat
BY HealthCheckAssumption

LEMMA InvariantParts ==
  HealthInvariant <=> Types /\ \A l \in Links : LinkInv(l)
<1>1. ASSUME HealthInvariant PROVE Types /\ \A l \in Links : LinkInv(l)
  <2>1. TypeOK
    BY <1>1 DEF HealthInvariant
  <2>2. Types
    <3>1. \A l \in Links : link[l] \in Goroutines /\ unpaid[l] \in [probe : Nat, lookup : Nat]
      BY <2>1, Bounds DEF TypeOK, Goroutines
    <3> QED BY <2>1, <3>1 DEF TypeOK, Types
  <2>3. ASSUME NEW l \in Links PROVE Counters(l)
    <3>1. link[l].connErr \in 0..(MaxErrors - 1) /\ link[l].errCount \in 0..MaxErrors
      BY <2>1 DEF TypeOK
    <3>2. At(l, "off") <=> ~ up[l[1]]
      BY <2>1 DEF TypeOK
    <3> QED BY <3>1, <3>2, Bounds DEF Counters
  <2> QED BY <1>1, <2>2, <2>3 DEF HealthInvariant, LinkInv
<1>2. ASSUME Types, \A l \in Links : LinkInv(l) PROVE HealthInvariant
  <2>1. ASSUME NEW l \in Links
        PROVE  /\ link[l] \in [phase : Phases, connErr : 0..(MaxErrors - 1),
                               errCount : 0..MaxErrors, probes : 0..(MaxFaults + 1),
                               acks : 0..(MaxFaults + 1)]
               /\ unpaid[l] \in [probe : 0..MaxFaults, lookup : 0..MaxFaults]
    <3>1. link[l] \in Goroutines /\ unpaid[l] \in [probe : Nat, lookup : Nat] /\ faults \in 0..MaxFaults
      BY <1>2 DEF Types
    <3>2. /\ link[l].connErr \in 0..(MaxErrors - 1) /\ link[l].errCount \in 0..MaxErrors
      BY <1>2, <3>1, Bounds DEF LinkInv, Counters, Goroutines
    <3>3. /\ unpaid[l].probe <= faults /\ unpaid[l].lookup <= faults
          /\ link[l].probes + link[l].acks <= faults + 1
      <4>1. FaultsBound(l)
        BY <1>2 DEF LinkInv
      <4>2. link[l].probes \in Nat /\ link[l].acks \in Nat /\ faults \in Nat
        BY <3>1, Bounds DEF Goroutines
      <4> QED BY <4>1, <4>2 DEF FaultsBound
    <3>4. link[l].probes \in 0..(MaxFaults + 1) /\ link[l].acks \in 0..(MaxFaults + 1)
      BY <3>1, <3>3, Bounds DEF Goroutines
    <3>5. unpaid[l].probe \in 0..MaxFaults /\ unpaid[l].lookup \in 0..MaxFaults
      BY <3>1, <3>3, Bounds
    <3> QED BY <3>1, <3>2, <3>4, <3>5 DEF Goroutines
  <2>2. TypeOK
    <3>1. \A l \in Links : At(l, "off") <=> ~ up[l[1]]
      BY <1>2 DEF LinkInv, Counters
    <3> QED BY <1>2, <2>1, <3>1 DEF Types, TypeOK
  <2> QED BY <1>2, <2>2 DEF HealthInvariant, LinkInv
<1> QED BY <1>1, <1>2

(* A link whose member goes on answering, or not, as before.               *)
LEMMA LinkAnswered ==
  ASSUME Types, Types', NEW l \in Links, LinkInv(l), faults <= faults',
         link'[l] = link[l], unpaid'[l] = unpaid[l],
         up'[l[1]] = up[l[1]], up'[l[2]] = up[l[2]], Answering(l[2])' <=> Answering(l[2])
  PROVE  LinkInv(l)'
<1>1. /\ faults \in Nat /\ faults' \in Nat /\ link[l] \in Goroutines
      /\ unpaid[l] \in [probe : Nat, lookup : Nat]
  BY Bounds DEF Types
<1>2. \A p : At(l, p)' <=> At(l, p)
  BY DEF At
<1>3. FaultsBound(l)'
  BY <1>1, <1>2 DEF LinkInv, FaultsBound, Goroutines
<1>4. Counters(l)' /\ ProbesCounted(l)' /\ LookupsCounted(l)' /\ AlarmRaised(l)'
  BY <1>2 DEF LinkInv, Counters, ProbesCounted, LookupsCounted, AlarmRaised
<1> QED BY <1>3, <1>4 DEF LinkInv

LEMMA LinkKept ==
  ASSUME Types, Types', NEW l \in Links, LinkInv(l), faults <= faults',
         link'[l] = link[l], unpaid'[l] = unpaid[l],
         up'[l[1]] = up[l[1]], up'[l[2]] = up[l[2]], readErrs'[l[2]] = readErrs[l[2]]
  PROVE  LinkInv(l)'
BY LinkAnswered DEF Answering

-----------------------------------------------------------------------------
(* Steps of one goroutine that leave the members alone. *)

(* LinkInv of a goroutine that runs, in terms of its record g, its debts u *)
(* and the faults so far.                                                  *)
Fits(l, g, u, f) ==
  /\ g.connErr < MaxErrors /\ g.errCount <= MaxErrors
  /\ u.probe <= f /\ u.lookup <= f
  /\ g.probes + g.acks <= f + IF g.phase = "read" THEN 1 ELSE 0
  /\ ~ Answering(l[2]) => g.probes = 0
  /\ g.phase \in {"send", "read"} =>
       g.errCount < MaxErrors /\ (Answering(l[2]) => g.errCount <= u.probe)
  /\ up[l[2]] \/ g.phase # "connect" => g.connErr <= u.lookup
  /\ g.phase = "restart" =>
       \/ Answering(l[2]) => u.probe >= MaxErrors
       \/ g.connErr = 0 /\ (up[l[2]] => u.lookup >= MaxErrors)

Debts == [probe : Nat, lookup : Nat]

LEMMA LinkFits ==
  ASSUME Types, NEW l \in Links, LinkInv(l)
  PROVE  /\ Fits(l, link[l], unpaid[l], faults)
         /\ link[l] \in Goroutines /\ unpaid[l] \in Debts
         /\ link[l].connErr \in Nat /\ link[l].errCount \in Nat /\ link[l].probes \in Nat
         /\ link[l].acks \in Nat /\ unpaid[l].probe \in Nat /\ unpaid[l].lookup \in Nat
         /\ faults \in Nat /\ faults <= MaxFaults
<1>1. link[l] \in Goroutines /\ unpaid[l] \in Debts /\ faults \in Nat /\ faults <= MaxFaults
  BY Bounds DEF Types, Debts
<1>2. Fits(l, link[l], unpaid[l], faults)
  BY DEF LinkInv, Counters, FaultsBound, ProbesCounted, LookupsCounted, AlarmRaised, Fits, At
<1>3. link[l].connErr \in Nat /\ link[l].errCount \in Nat /\ link[l].probes \in Nat
      /\ link[l].acks \in Nat
  BY <1>1 DEF Goroutines
<1>4. unpaid[l].probe \in Nat /\ unpaid[l].lookup \in Nat
  BY <1>1 DEF Debts
<1> QED BY <1>1, <1>2, <1>3, <1>4

OwnStep(l, g, u) ==
  /\ link' = [link EXCEPT ![l] = g] /\ unpaid' = [unpaid EXCEPT ![l] = u]
  /\ UNCHANGED <<up, readErrs, kills>>
  /\ faults' \in {faults, faults + 1} /\ faults' <= MaxFaults

LEMMA OwnStepKeeps ==
  ASSUME Types, \A k \in Links : LinkInv(k), NEW l \in Links,
         NEW g \in Goroutines, NEW u \in Debts, OwnStep(l, g, u),
         ~ At(l, "off"), g.phase # "off", Fits(l, g, u, faults')
  PROVE  Types' /\ \A k \in Links : LinkInv(k)'
<1>1. link' \in [Links -> Goroutines] /\ unpaid' \in [Links -> Debts]
  BY DEF OwnStep, Types, Debts
<1>2. faults' \in 0..MaxFaults /\ faults <= faults'
  BY Bounds DEF OwnStep, Types
<1>3. Types'
  BY <1>1, <1>2 DEF OwnStep, Types, Debts
<1>4. ASSUME NEW k \in Links, k # l PROVE LinkInv(k)'
  <2>1. link'[k] = link[k] /\ unpaid'[k] = unpaid[k] /\ up' = up /\ readErrs' = readErrs
    BY <1>4 DEF OwnStep, Types
  <2> QED BY <1>2, <1>3, <2>1, LinkKept
<1>5. LinkInv(l)'
  <2>1. link'[l] = g /\ unpaid'[l] = u /\ up' = up /\ readErrs' = readErrs
    BY DEF OwnStep, Types
  <2>2. /\ \A p : At(l, p)' <=> g.phase = p
        /\ Answering(l[2])' <=> Answering(l[2])
    BY <2>1 DEF At, Answering
  <2>3. Counters(l)'
    BY <2>1, <2>2 DEF LinkInv, Counters, Fits
  <2>4. FaultsBound(l)'
    BY <2>1, <2>2 DEF FaultsBound, Fits
  <2>5. ProbesCounted(l)' /\ LookupsCounted(l)' /\ AlarmRaised(l)'
    BY <2>1, <2>2 DEF ProbesCounted, LookupsCounted, AlarmRaised, Fits
  <2> QED BY <2>3, <2>4, <2>5 DEF LinkInv
<1> QED BY <1>3, <1>4, <1>5

LEMMA ConnectStep ==
  ASSUME Types, \A k \in Links : LinkInv(k), NEW l \in Links, Connect(l)
  PROVE  Types' /\ \A k \in Links : LinkInv(k)'
<1> DEFINE g == [link[l] EXCEPT !.phase = "send", !.errCount = 0, !.probes = 0, !.acks = 0]
           u == [unpaid[l] EXCEPT !.probe = 0]
<1>1. /\ Fits(l, link[l], unpaid[l], faults) /\ link[l] \in Goroutines /\ unpaid[l] \in Debts
      /\ link[l].connErr \in Nat /\ unpaid[l].lookup \in Nat /\ faults \in Nat
      /\ faults <= MaxFaults
  BY LinkFits
<1>2. /\ g.phase = "send" /\ g.errCount = 0 /\ g.probes = 0 /\ g.acks = 0
      /\ g.connErr = link[l].connErr /\ u.probe = 0 /\ u.lookup = unpaid[l].lookup
      /\ g \in Goroutines /\ u \in Debts
  BY <1>1 DEF Goroutines, Debts, Phases
<1>3. OwnStep(l, g, u) /\ faults' = faults
  <2>1. link' = [link EXCEPT ![l] = g]
    BY DEF Connect, Types
  <2>2. unpaid' = [unpaid EXCEPT ![l] = u]
    BY DEF Connect, Types
  <2>3. UNCHANGED <<up, readErrs, kills, faults>>
    BY DEF Connect
  <2> QED BY <1>1, <2>1, <2>2, <2>3 DEF OwnStep
<1>4. up[l[2]] /\ ~ At(l, "off")
  BY DEF Connect, At
<1> HIDE DEF g, u
<1>5. Fits(l, g, u, faults')
  BY <1>1, <1>2, <1>3, <1>4, Bounds DEF Fits
<1> QED BY <1>2, <1>3, <1>4, <1>5, OwnStepKeeps

(* A fault is one more debt of its kind.                                   *)
LEMMA FaultDebt ==
  ASSUME Types, NEW l \in Links, NEW kind \in {"probe", "lookup"}, Failure(l, kind, FALSE)
  PROVE  \E u \in Debts :
           /\ unpaid' = [unpaid EXCEPT ![l] = u]
           /\ faults' = faults + 1 /\ faults' <= MaxFaults
           /\ kind = "probe" => u.probe = unpaid[l].probe + 1 /\ u.lookup = unpaid[l].lookup
           /\ kind = "lookup" => u.lookup = unpaid[l].lookup + 1 /\ u.probe = unpaid[l].probe
<1> DEFINE u == [unpaid[l] EXCEPT ![kind] = @ + 1]
<1>1. unpaid[l] \in Debts /\ faults \in Nat /\ unpaid \in [Links -> Debts]
  BY Bounds DEF Types, Debts
<1>2. /\ faults' = faults + 1 /\ faults < MaxFaults
      /\ unpaid' = [unpaid EXCEPT ![l][kind] = @ + 1]
  BY DEF Failure, Fault
<1>3. faults' <= MaxFaults
  BY <1>1, <1>2, Bounds
<1>4. unpaid' = [unpaid EXCEPT ![l] = u]
  BY <1>2
<1>5. CASE kind = "probe"
  <2>1. u \in Debts /\ u.probe = unpaid[l].probe + 1 /\ u.lookup = unpaid[l].lookup
    BY <1>1, <1>5 DEF Debts
  <2> HIDE DEF u
  <2> QED BY <1>2, <1>3, <1>4, <1>5, <2>1
<1>6. CASE kind = "lookup"
  <2>1. u \in Debts /\ u.lookup = unpaid[l].lookup + 1 /\ u.probe = unpaid[l].probe
    BY <1>1, <1>6 DEF Debts
  <2> HIDE DEF u
  <2> QED BY <1>2, <1>3, <1>4, <1>6, <2>1
<1> QED BY <1>5, <1>6

LEMMA ConnectFailsStep ==
  ASSUME Types, \A k \in Links : LinkInv(k), NEW l \in Links, ConnectFails(l)
  PROVE  Types' /\ \A k \in Links : LinkInv(k)'
<1> DEFINE n == link[l].connErr + 1
           g == IF n = MaxErrors THEN [link[l] EXCEPT !.phase = "restart", !.connErr = 0]
                ELSE [link[l] EXCEPT !.connErr = n]
<1>1. /\ Fits(l, link[l], unpaid[l], faults) /\ link[l] \in Goroutines
      /\ link[l].connErr \in Nat /\ link[l].errCount \in Nat /\ link[l].probes \in Nat
      /\ link[l].acks \in Nat /\ unpaid[l].probe \in Nat /\ unpaid[l].lookup \in Nat
      /\ faults \in Nat
  BY LinkFits
<1>2. link[l].phase = "connect" /\ ~ At(l, "off")
  BY DEF ConnectFails, At
<1>3. /\ g \in Goroutines /\ g.probes = link[l].probes /\ g.acks = link[l].acks
      /\ g.errCount = link[l].errCount
      /\ n = MaxErrors => g.phase = "restart" /\ g.connErr = 0
      /\ n # MaxErrors => g.phase = "connect" /\ g.connErr = n
  <2>1. CASE n = MaxErrors
    BY <1>1, <1>2, <2>1 DEF Goroutines, Phases
  <2>2. CASE n # MaxErrors
    BY <1>1, <1>2, <2>2 DEF Goroutines, Phases
  <2> QED BY <2>1, <2>2
<1>4. link' = [link EXCEPT ![l] = g]
  BY DEF ConnectFails, Types
<1>5. /\ UNCHANGED <<up, readErrs, kills>> /\ "lookup" \in {"probe", "lookup"}
      /\ \/ UNCHANGED <<unpaid, faults>> /\ ~ up[l[2]]
         \/ Failure(l, "lookup", FALSE)
  BY DEF ConnectFails, Failure
<1>6. PICK u \in Debts :
        /\ unpaid' = [unpaid EXCEPT ![l] = u]
        /\ faults' \in {faults, faults + 1} /\ faults' <= MaxFaults
        /\ \/ u = unpaid[l] /\ faults' = faults /\ ~ up[l[2]]
           \/ /\ faults' = faults + 1
              /\ u.lookup = unpaid[l].lookup + 1 /\ u.probe = unpaid[l].probe
  <2>1. CASE UNCHANGED <<unpaid, faults>> /\ ~ up[l[2]]
    BY <1>5, <2>1, LinkFits DEF Types, Debts
  <2>2. CASE Failure(l, "lookup", FALSE)
    BY <1>5, <2>2, FaultDebt
  <2> QED BY <1>5, <2>1, <2>2
<1>7. OwnStep(l, g, u)
  BY <1>4, <1>5, <1>6 DEF OwnStep
<1> HIDE DEF g
<1>8. g.phase # "off" /\ g.phase # "read" /\ g.phase # "send"
  BY <1>3
<1>9. /\ u.probe <= faults' /\ u.lookup <= faults' /\ g.probes + g.acks <= faults'
      /\ faults' \in Nat
  BY <1>1, <1>2, <1>3, <1>6 DEF Fits
<1>10. up[l[2]] => u.lookup = unpaid[l].lookup + 1 /\ n <= u.lookup
  BY <1>1, <1>6 DEF Fits
<1>11. g.connErr < MaxErrors /\ g.errCount <= MaxErrors
  BY <1>1, <1>3, Bounds DEF Fits
<1>12. up[l[2]] \/ g.phase # "connect" => g.connErr <= u.lookup
  <2>1. CASE n = MaxErrors
    <3>1. u.lookup \in Nat
      BY DEF Debts
    <3> QED BY <1>3, <2>1, <3>1
  <2>2. CASE n # MaxErrors
    BY <1>3, <1>10, <2>2
  <2> QED BY <2>1, <2>2
<1>13. g.phase = "restart" => g.connErr = 0 /\ (up[l[2]] => u.lookup >= MaxErrors)
  BY <1>3, <1>10
<1>14. ~ Answering(l[2]) => g.probes = 0
  BY <1>1, <1>3 DEF Fits
<1>15. Fits(l, g, u, faults')
  BY <1>8, <1>9, <1>11, <1>12, <1>13, <1>14 DEF Fits
<1> QED BY <1>2, <1>3, <1>7, <1>8, <1>15, OwnStepKeeps

(* Steps that cost no fault and change no debt.                            *)
LEMMA GoroutineStep ==
  ASSUME Types, \A k \in Links : LinkInv(k), NEW l \in Links, NEW g \in Goroutines,
         link' = [link EXCEPT ![l] = g], UNCHANGED <<up, readErrs, unpaid, kills, faults>>,
         ~ At(l, "off"), g.phase # "off", Fits(l, g, unpaid[l], faults)
  PROVE  Types' /\ \A k \in Links : LinkInv(k)'
<1>1. unpaid[l] \in Debts /\ faults <= MaxFaults /\ unpaid \in [Links -> Debts]
  BY Bounds DEF Types, Debts
<1>2. OwnStep(l, g, unpaid[l])
  BY <1>1 DEF OwnStep
<1> QED BY <1>1, <1>2, OwnStepKeeps

LEMMA SendStep ==
  ASSUME Types, \A k \in Links : LinkInv(k), NEW l \in Links, Send(l)
  PROVE  Types' /\ \A k \in Links : LinkInv(k)'
<1> DEFINE more == IF Answering(l[2]) THEN 1 ELSE 0
           a == link[l].probes + more
           g == [link[l] EXCEPT !.phase = "read", !.probes = a]
<1>1. /\ Fits(l, link[l], unpaid[l], faults) /\ link[l] \in Goroutines
      /\ link[l].connErr \in Nat /\ link[l].errCount \in Nat /\ link[l].probes \in Nat
      /\ link[l].acks \in Nat /\ faults \in Nat
  BY LinkFits
<1>2. link[l].phase = "send" /\ ~ At(l, "off")
  BY DEF Send, At
<1>3. link' = [link EXCEPT ![l] = g] /\ UNCHANGED <<up, readErrs, unpaid, kills, faults>>
  BY DEF Send, Types
<1>4. /\ a \in Nat /\ a + link[l].acks <= faults + 1 /\ (~ Answering(l[2]) => a = 0)
  BY <1>1, <1>2 DEF Fits
<1> HIDE DEF a
<1>5. /\ g \in Goroutines /\ g.phase = "read" /\ g.probes = a
      /\ g.acks = link[l].acks /\ g.errCount = link[l].errCount /\ g.connErr = link[l].connErr
  BY <1>1, <1>4 DEF Goroutines, Phases
<1> HIDE DEF g
<1>6. g.probes + g.acks <= faults + 1 /\ (~ Answering(l[2]) => g.probes = 0)
  BY <1>4, <1>5
<1>7. Fits(l, g, unpaid[l], faults)
  BY <1>1, <1>2, <1>5, <1>6 DEF Fits
<1> QED BY <1>2, <1>3, <1>5, <1>7, GoroutineStep

LEMMA ReadAckStep ==
  ASSUME Types, \A k \in Links : LinkInv(k), NEW l \in Links, ReadAck(l)
  PROVE  Types' /\ \A k \in Links : LinkInv(k)'
<1> DEFINE a == link[l].acks - 1
           g == [link[l] EXCEPT !.phase = "send", !.errCount = 0, !.acks = a]
           u == [unpaid[l] EXCEPT !.probe = 0]
<1>1. /\ Fits(l, link[l], unpaid[l], faults) /\ link[l] \in Goroutines /\ unpaid[l] \in Debts
      /\ link[l].connErr \in Nat /\ link[l].probes \in Nat /\ link[l].acks \in Nat
      /\ unpaid[l].lookup \in Nat /\ faults \in Nat /\ faults <= MaxFaults
  BY LinkFits
<1>2. link[l].phase = "read" /\ link[l].acks > 0 /\ ~ At(l, "off")
  BY DEF ReadAck, At
<1>3. OwnStep(l, g, u) /\ faults' = faults
  <2>1. link' = [link EXCEPT ![l] = g]
    BY DEF ReadAck, Types
  <2>2. unpaid' = [unpaid EXCEPT ![l] = u]
    BY DEF ReadAck, Types
  <2>3. UNCHANGED <<up, readErrs, kills, faults>>
    BY DEF ReadAck
  <2> QED BY <1>1, <2>1, <2>2, <2>3 DEF OwnStep
<1>4. a \in Nat /\ a + 1 = link[l].acks
  BY <1>1, <1>2
<1> HIDE DEF a
<1>5. /\ g \in Goroutines /\ g.phase = "send" /\ g.errCount = 0 /\ g.acks = a
      /\ g.probes = link[l].probes /\ g.connErr = link[l].connErr
  BY <1>1, <1>4 DEF Goroutines, Phases
<1>6. u \in Debts /\ u.probe = 0 /\ u.lookup = unpaid[l].lookup
  BY <1>1 DEF Debts
<1> HIDE DEF g, u
<1>7. g.probes + g.acks <= faults /\ u.lookup <= faults /\ (~ Answering(l[2]) => g.probes = 0)
  BY <1>1, <1>2, <1>4, <1>5, <1>6 DEF Fits
<1>8. g.connErr < MaxErrors /\ g.connErr <= u.lookup
  BY <1>1, <1>2, <1>5, <1>6 DEF Fits
<1>9. Fits(l, g, u, faults')
  BY <1>1, <1>3, <1>5, <1>6, <1>7, <1>8, Bounds DEF Fits
<1> QED BY <1>2, <1>3, <1>5, <1>6, <1>9, OwnStepKeeps

LEMMA RestartFailsStep ==
  ASSUME Types, \A k \in Links : LinkInv(k), NEW l \in Links, RestartFails(l)
  PROVE  Types' /\ \A k \in Links : LinkInv(k)'
<1> DEFINE g == [link[l] EXCEPT !.phase = "connect"]
<1>1. /\ Fits(l, link[l], unpaid[l], faults) /\ link[l] \in Goroutines /\ unpaid[l] \in Debts
      /\ link[l].probes \in Nat /\ link[l].acks \in Nat
      /\ unpaid[l].probe \in Nat /\ unpaid[l].lookup \in Nat /\ faults \in Nat
  BY LinkFits
<1>2. link[l].phase = "restart" /\ ~ At(l, "off")
  BY DEF RestartFails, At
<1>3. /\ g \in Goroutines /\ g.phase = "connect" /\ g.probes = link[l].probes
      /\ g.acks = link[l].acks /\ g.errCount = link[l].errCount /\ g.connErr = link[l].connErr
  BY <1>1 DEF Goroutines, Phases
<1>4. faults' = faults + 1 /\ faults' <= MaxFaults
  BY <1>1, Bounds DEF RestartFails, Fault
<1>5. OwnStep(l, g, unpaid[l])
  <2>1. link' = [link EXCEPT ![l] = g]
    BY DEF RestartFails, Types
  <2>2. unpaid' = [unpaid EXCEPT ![l] = unpaid[l]] /\ UNCHANGED <<up, readErrs, kills>>
    BY DEF RestartFails, Types
  <2> QED BY <1>4, <2>1, <2>2 DEF OwnStep
<1> HIDE DEF g
<1>6. /\ unpaid[l].probe <= faults' /\ unpaid[l].lookup <= faults'
      /\ g.probes + g.acks <= faults' /\ faults' \in Nat
  BY <1>1, <1>2, <1>3, <1>4 DEF Fits
<1>7. Fits(l, g, unpaid[l], faults')
  BY <1>1, <1>2, <1>3, <1>6 DEF Fits
<1> QED BY <1>1, <1>2, <1>3, <1>5, <1>7, OwnStepKeeps

(* A probe that cannot be sent or is not answered in time.                 *)
LEMMA MissedStep ==
  ASSUME Types, \A k \in Links : LinkInv(k), NEW l \in Links,
         NEW left \in 0..link[l].probes, Missed(l, left),
         \/ At(l, "send") /\ left = 0
         \/ At(l, "read") /\ link[l].acks = 0
  PROVE  Types' /\ \A k \in Links : LinkInv(k)'
<1> DEFINE n == link[l].errCount + 1
           p == IF n = MaxErrors THEN "restart" ELSE "send"
           a == link[l].probes - left
           g == [link[l] EXCEPT !.errCount = n, !.probes = a, !.phase = p]
<1>1. /\ Fits(l, link[l], unpaid[l], faults) /\ link[l] \in Goroutines /\ unpaid[l] \in Debts
      /\ link[l].connErr \in Nat /\ link[l].errCount \in Nat /\ link[l].probes \in Nat
      /\ link[l].acks \in Nat /\ unpaid[l].probe \in Nat /\ unpaid[l].lookup \in Nat
      /\ faults \in Nat /\ faults <= MaxFaults
  BY LinkFits
<1>2. link[l].phase \in {"send", "read"} /\ ~ At(l, "off")
  BY DEF At
<1>3. p \in {"restart", "send"} /\ (p = "restart" <=> n = MaxErrors)
  OBVIOUS
<1>4. link' = [link EXCEPT ![l] = g]
  BY DEF Missed, Types
<1>5. /\ g \in Goroutines /\ g.phase = p /\ g.errCount = n /\ g.probes = a
      /\ g.acks = link[l].acks /\ g.connErr = link[l].connErr /\ a \in Nat /\ n \in Nat
  <2>1. a \in Nat /\ n \in Nat
    BY <1>1
  <2> HIDE DEF a, n, p
  <2> QED BY <1>1, <1>3, <2>1 DEF Goroutines, Phases
<1> HIDE DEF p
<1>6. /\ UNCHANGED <<up, readErrs, kills>> /\ "probe" \in {"probe", "lookup"}
      /\ \/ UNCHANGED <<unpaid, faults>> /\ ~ Answering(l[2])
         \/ Failure(l, "probe", FALSE) /\ Answering(l[2])
  BY DEF Missed, Failure
<1>7. PICK u \in Debts :
        /\ unpaid' = [unpaid EXCEPT ![l] = u]
        /\ faults' \in {faults, faults + 1} /\ faults' <= MaxFaults
        /\ \/ u = unpaid[l] /\ faults' = faults /\ ~ Answering(l[2])
           \/ /\ faults' = faults + 1 /\ Answering(l[2])
              /\ u.probe = unpaid[l].probe + 1 /\ u.lookup = unpaid[l].lookup
  <2>1. CASE UNCHANGED <<unpaid, faults>> /\ ~ Answering(l[2])
    BY <1>1, <2>1 DEF Types, Debts
  <2>2. CASE Failure(l, "probe", FALSE) /\ Answering(l[2])
    BY <1>6, <2>2, FaultDebt
  <2> QED BY <1>6, <2>1, <2>2
<1>8. OwnStep(l, g, u)
  BY <1>4, <1>6, <1>7 DEF OwnStep
<1> HIDE DEF g
<1>9. u.probe <= faults' /\ u.lookup <= faults' /\ u.probe \in Nat /\ u.lookup \in Nat /\ faults' \in Nat
  BY <1>1, <1>7 DEF Fits
<1>10. g.probes + g.acks <= faults' /\ (~ Answering(l[2]) => g.probes = 0)
  <2>1. CASE Answering(l[2])
    <3>1. link[l].probes + link[l].acks <= faults + 1 /\ faults' = faults + 1
      BY <1>1, <1>2, <1>7, <2>1 DEF Fits
    <3> QED BY <1>1, <1>5, <2>1, <3>1
  <2>2. CASE ~ Answering(l[2])
    <3>1. link[l].probes = 0 /\ faults' = faults
      BY <1>1, <1>7, <2>2 DEF Fits
    <3>2. g.probes = 0
      <4>1. left = 0 /\ g.probes = link[l].probes - left
        BY <1>5, <3>1
      <4> HIDE DEF a, n
      <4> QED BY <3>1, <4>1
    <3>3. link[l].acks <= faults
      <4>1. CASE At(l, "send")
        BY <1>1, <3>1, <4>1 DEF Fits, At
      <4>2. CASE link[l].acks = 0
        BY <1>1, <4>2
      <4> QED BY <4>1, <4>2
    <3>4. g.acks \in Nat /\ g.acks <= faults'
      BY <1>1, <1>5, <3>1, <3>3
    <3> QED BY <3>2, <3>4
  <2> QED BY <2>1, <2>2
<1>11. /\ n <= MaxErrors /\ (Answering(l[2]) => n <= u.probe)
       /\ g.connErr < MaxErrors /\ g.connErr <= u.lookup
  BY <1>1, <1>2, <1>5, <1>7, Bounds DEF Fits
<1>12. p = "send" => n < MaxErrors
  BY <1>1, <1>3, <1>11, Bounds
<1>13. Fits(l, g, u, faults')
  <2>1. g.probes + g.acks <= faults' + IF g.phase = "read" THEN 1 ELSE 0
    BY <1>3, <1>5, <1>9, <1>10
  <2>2. g.phase = "restart" => (Answering(l[2]) => u.probe >= MaxErrors)
    BY <1>3, <1>5, <1>9, <1>11, Bounds
  <2>3. g.phase \in {"send", "read"} =>
          g.errCount < MaxErrors /\ (Answering(l[2]) => g.errCount <= u.probe)
    BY <1>3, <1>5, <1>11, <1>12
  <2> QED BY <1>5, <1>9, <1>10, <1>11, <2>1, <2>2, <2>3 DEF Fits
<1> QED BY <1>2, <1>3, <1>5, <1>8, <1>13, OwnStepKeeps

LEMMA AnswerStep ==
  ASSUME Types, \A k \in Links : LinkInv(k), NEW l \in Links, Answer(l)
  PROVE  Types' /\ \A k \in Links : LinkInv(k)'
<1> DEFINE a == link[l].probes - 1
           b == link[l].acks + 1
           g == [link[l] EXCEPT !.probes = a, !.acks = b]
<1>1. /\ Fits(l, link[l], unpaid[l], faults) /\ link[l] \in Goroutines
      /\ link[l].probes \in Nat /\ link[l].acks \in Nat /\ faults \in Nat
  BY LinkFits
<1>2. Answering(l[2]) /\ link[l].probes > 0 /\ ~ At(l, "off")
  BY DEF Answer, LinkInv, FaultsBound
<1>3. link' = [link EXCEPT ![l] = g] /\ UNCHANGED <<up, readErrs, unpaid, kills, faults>>
  BY DEF Answer, Types
<1>4. a \in Nat /\ b \in Nat /\ a + b = link[l].probes + link[l].acks
  BY <1>1, <1>2
<1> HIDE DEF a, b
<1>5. /\ g \in Goroutines /\ g.phase = link[l].phase /\ g.probes = a /\ g.acks = b
      /\ g.errCount = link[l].errCount /\ g.connErr = link[l].connErr
  BY <1>1, <1>4 DEF Goroutines
<1> HIDE DEF g
<1>6. Fits(l, g, unpaid[l], faults)
  BY <1>1, <1>2, <1>4, <1>5 DEF Fits
<1>7. g.phase # "off"
  BY <1>2, <1>5 DEF At
<1> QED BY <1>2, <1>3, <1>5, <1>6, <1>7, GoroutineStep

-----------------------------------------------------------------------------
(* Steps that stop, start or hurt a member. *)

LEMMA NewGoroutine ==
  ASSUME NEW p \in Phases
  PROVE  /\ Goroutine(p) \in Goroutines /\ Goroutine(p).phase = p
         /\ Goroutine(p).connErr = 0 /\ Goroutine(p).errCount = 0
         /\ Goroutine(p).probes = 0 /\ Goroutine(p).acks = 0
         /\ Nothing \in Debts /\ Nothing.probe = 0 /\ Nothing.lookup = 0
BY DEF Goroutine, Goroutines, Nothing, Debts

LEMMA NoProbes ==
  ASSUME NEW g \in Goroutines
  PROVE  LET h == [g EXCEPT !.probes = 0]
         IN  /\ h \in Goroutines /\ h.phase = g.phase /\ h.connErr = g.connErr
             /\ h.errCount = g.errCount /\ h.probes = 0 /\ h.acks = g.acks
BY DEF Goroutines

(* A goroutine that is new, or has ended with its process.                 *)
LEMMA LinkRenewed ==
  ASSUME Types, Types', NEW k \in Links, NEW p \in {"off", "connect"}, link'[k] = Goroutine(p),
         unpaid'[k].probe <= faults', unpaid'[k].lookup <= faults',
         p = "off" <=> ~ up'[k[1]]
  PROVE  LinkInv(k)'
<1>1. /\ link'[k].phase = p /\ link'[k].connErr = 0 /\ link'[k].errCount = 0
      /\ link'[k].probes = 0 /\ link'[k].acks = 0
  BY NewGoroutine DEF Phases
<1>2. unpaid'[k].lookup \in Nat /\ faults' \in Nat
  BY Bounds DEF Types
<1>3. \A q : At(k, q)' <=> p = q
  BY <1>1 DEF At
<1>4. Counters(k)'
  BY <1>1, <1>3, Bounds DEF Counters
<1>5. FaultsBound(k)'
  <2>1. ~ At(k, "read")'
    BY <1>3
  <2>2. link'[k].probes + link'[k].acks <= faults'
    BY <1>1, <1>2
  <2>3. unpaid'[k].probe <= faults' /\ unpaid'[k].lookup <= faults'
    OBVIOUS
  <2>4. link'[k].probes = 0
    BY <1>1
  <2> QED BY <1>2, <2>1, <2>2, <2>3, <2>4 DEF FaultsBound
<1>6. ProbesCounted(k)' /\ LookupsCounted(k)' /\ AlarmRaised(k)'
  BY <1>1, <1>2, <1>3 DEF ProbesCounted, LookupsCounted, AlarmRaised
<1> QED BY <1>4, <1>5, <1>6 DEF LinkInv

(* A goroutine whose member no longer answers.                             *)
LEMMA LinkSilenced ==
  ASSUME Types, Types', NEW k \in Links, LinkInv(k), faults <= faults',
         link'[k] = [link[k] EXCEPT !.probes = 0], unpaid'[k] = unpaid[k],
         ~ Answering(k[2])', up'[k[1]] = up[k[1]], up'[k[2]] => up[k[2]]
  PROVE  LinkInv(k)'
<1>1. /\ link[k] \in Goroutines /\ faults \in Nat /\ faults' \in Nat
      /\ unpaid[k].probe \in Nat /\ unpaid[k].lookup \in Nat
      /\ link[k].probes \in Nat /\ link[k].acks \in Nat
  BY LinkFits, Bounds DEF Types
<1>2. /\ link'[k].phase = link[k].phase /\ link'[k].connErr = link[k].connErr
      /\ link'[k].errCount = link[k].errCount /\ link'[k].probes = 0
      /\ link'[k].acks = link[k].acks
  BY <1>1, NoProbes
<1>3. \A q : At(k, q)' <=> At(k, q)
  BY <1>2 DEF At
<1>4. Counters(k)'
  BY <1>2, <1>3 DEF LinkInv, Counters
<1>5. FaultsBound(k)'
  <2>1. unpaid'[k].probe <= faults' /\ unpaid'[k].lookup <= faults'
    BY <1>1 DEF LinkInv, FaultsBound
  <2>2. link'[k].probes + link'[k].acks <= faults' + IF At(k, "read")' THEN 1 ELSE 0
    BY <1>1, <1>2, <1>3 DEF LinkInv, FaultsBound
  <2> QED BY <1>2, <2>1, <2>2 DEF FaultsBound
<1>6. ProbesCounted(k)' /\ LookupsCounted(k)' /\ AlarmRaised(k)'
  BY <1>2, <1>3 DEF LinkInv, ProbesCounted, LookupsCounted, AlarmRaised
<1> QED BY <1>4, <1>5, <1>6 DEF LinkInv

LEMMA MemberGone ==
  ASSUME Types, NEW m \in Members
  PROVE  /\ WithoutMember(m) \in [Links -> Goroutines]
         /\ \A k \in Links :
              /\ k[1] = m => WithoutMember(m)[k] = Goroutine("off")
              /\ k[1] # m /\ k[2] = m => WithoutMember(m)[k] = [link[k] EXCEPT !.probes = 0]
              /\ k[1] # m /\ k[2] # m => WithoutMember(m)[k] = link[k]
<1>1. ASSUME NEW k \in Links
      PROVE  /\ WithoutMember(m)[k] \in Goroutines
             /\ k[1] = m => WithoutMember(m)[k] = Goroutine("off")
             /\ k[1] # m /\ k[2] = m => WithoutMember(m)[k] = [link[k] EXCEPT !.probes = 0]
             /\ k[1] # m /\ k[2] # m => WithoutMember(m)[k] = link[k]
  <2>1. link[k] \in Goroutines
    BY DEF Types
  <2>2. Goroutine("off") \in Goroutines /\ [link[k] EXCEPT !.probes = 0] \in Goroutines
    BY <2>1, NewGoroutine, NoProbes DEF Phases
  <2> QED BY <2>1, <2>2 DEF WithoutMember
<1>2. WithoutMember(m) = [k \in Links |-> WithoutMember(m)[k]]
  BY DEF WithoutMember
<1> QED BY <1>1, <1>2

LEMMA KillStep ==
  ASSUME Types, \A k \in Links : LinkInv(k), NEW m \in Members, Kill(m)
  PROVE  Types' /\ \A k \in Links : LinkInv(k)'
<1>1. /\ up' = [up EXCEPT ![m] = FALSE] /\ readErrs' = [readErrs EXCEPT ![m] = 0]
      /\ link' = WithoutMember(m) /\ faults' = faults
      /\ unpaid' = [k \in Links |-> IF k[1] = m THEN Nothing ELSE unpaid[k]]
      /\ kills < MaxKills /\ kills' = kills + 1
  BY DEF Kill
<1>2. Types'
  <2>1. unpaid' \in [Links -> [probe : Nat, lookup : Nat]]
    BY <1>1 DEF Types, Nothing
  <2>2. readErrs' \in [Members -> 0..MaxErr] /\ up' \in [Members -> BOOLEAN]
    BY <1>1, Bounds DEF Types
  <2>3. kills' \in 0..MaxKills
    BY <1>1, Bounds DEF Types
  <2>4. link' \in [Links -> Goroutines]
    BY <1>1, MemberGone
  <2> QED BY <1>1, <2>1, <2>2, <2>3, <2>4 DEF Types
<1>3. ASSUME NEW k \in Links PROVE LinkInv(k)'
  <2>1. faults' \in Nat /\ k[1] \in Members /\ k[2] \in Members /\ k[1] # k[2] /\ faults <= faults'
    BY <1>1, Bounds, LinkEnds DEF Types
  <2>2. CASE k[1] = m
    <3>1. link'[k] = Goroutine("off") /\ unpaid'[k] = Nothing /\ ~ up'[k[1]]
      BY <1>1, <2>1, <2>2, MemberGone DEF Types
    <3> QED BY <1>2, <2>1, <3>1, LinkRenewed, NewGoroutine DEF Phases
  <2>3. CASE k[2] = m
    <3>1. link'[k] = [link[k] EXCEPT !.probes = 0]
      BY <1>1, <2>1, <2>3, MemberGone
    <3>2. unpaid'[k] = unpaid[k] /\ ~ up'[k[2]] /\ up'[k[1]] = up[k[1]]
      BY <1>1, <2>1, <2>3 DEF Types
    <3>3. ~ Answering(k[2])'
      BY <3>2 DEF Answering
    <3> QED BY <1>2, <2>1, <3>1, <3>2, <3>3, LinkSilenced
  <2>4. CASE k[1] # m /\ k[2] # m
    <3>1. link'[k] = link[k]
      BY <1>1, <2>4, MemberGone
    <3>2. /\ unpaid'[k] = unpaid[k] /\ up'[k[1]] = up[k[1]] /\ up'[k[2]] = up[k[2]]
          /\ readErrs'[k[2]] = readErrs[k[2]]
      BY <1>1, <2>1, <2>4 DEF Types
    <3> QED BY <1>2, <2>1, <3>1, <3>2, LinkKept
  <2> QED BY <2>2, <2>3, <2>4
<1> QED BY <1>2, <1>3

LEMMA ServiceErrorStep ==
  ASSUME Types, \A k \in Links : LinkInv(k), NEW m \in Members, ServiceError(m)
  PROVE  Types' /\ \A k \in Links : LinkInv(k)'
<1>1. /\ Answering(m) /\ faults < MaxFaults /\ faults' = faults + 1
      /\ readErrs' = [readErrs EXCEPT ![m] = @ + 1]
      /\ link' = [k \in Links |-> IF k[2] = m /\ readErrs'[m] = MaxErr
                                  THEN [link[k] EXCEPT !.probes = 0] ELSE link[k]]
      /\ UNCHANGED <<up, unpaid, kills>>
  BY DEF ServiceError, Fault
<1>2. /\ readErrs'[m] = readErrs[m] + 1 /\ readErrs[m] \in Nat /\ readErrs[m] < MaxErr
      /\ faults \in Nat
  BY <1>1, Bounds DEF Types, Answering
<1>3. Types'
  <2>1. readErrs' \in [Members -> 0..MaxErr]
    BY <1>1, <1>2, Bounds DEF Types
  <2>2. faults' \in 0..MaxFaults
    BY <1>1, <1>2, Bounds
  <2>3. link' \in [Links -> Goroutines]
    <3>1. \A k \in Links : link[k] \in Goroutines /\ [link[k] EXCEPT !.probes = 0] \in Goroutines
      BY NoProbes DEF Types
    <3> QED BY <1>1, <3>1
  <2> QED BY <1>1, <2>1, <2>2, <2>3 DEF Types
<1>4. ASSUME NEW k \in Links PROVE LinkInv(k)'
  <2>1. /\ faults <= faults' /\ unpaid'[k] = unpaid[k] /\ up'[k[1]] = up[k[1]]
        /\ up'[k[2]] = up[k[2]] /\ k[2] \in Members
    BY <1>1, <1>2, LinkEnds
  <2>2. CASE k[2] = m /\ readErrs'[m] = MaxErr
    <3>1. link'[k] = [link[k] EXCEPT !.probes = 0]
      BY <1>1, <2>2
    <3>2. ~ Answering(k[2])'
      BY <2>2, Bounds DEF Answering
    <3> QED BY <1>3, <2>1, <3>1, <3>2, LinkSilenced
  <2>3. CASE k[2] = m /\ readErrs'[m] # MaxErr
    <3>1. link'[k] = link[k]
      BY <1>1, <2>3
    <3>2. Answering(k[2])' /\ Answering(k[2])
      BY <1>1, <1>2, <2>1, <2>3, Bounds DEF Answering
    <3> QED BY <1>3, <2>1, <3>1, <3>2, LinkAnswered
  <2>4. CASE k[2] # m
    <3>1. link'[k] = link[k] /\ readErrs'[k[2]] = readErrs[k[2]]
      BY <1>1, <2>1, <2>4 DEF Types
    <3> QED BY <1>3, <2>1, <3>1, LinkKept
  <2> QED BY <2>2, <2>3, <2>4
<1> QED BY <1>3, <1>4

LEMMA StartStep ==
  ASSUME Types, \A k \in Links : LinkInv(k), NEW l \in Links, Start(l)
  PROVE  Types' /\ \A k \in Links : LinkInv(k)'
<1> DEFINE m == l[2]
           g == [link[l] EXCEPT !.phase = "connect"]
<1>1. /\ At(l, "start") /\ up' = [up EXCEPT ![m] = TRUE]
      /\ link' = [k \in Links |-> CASE k = l -> g
                                    [] k # l /\ k[1] = m -> Goroutine("connect")
                                    [] OTHER -> link[k]]
      /\ UNCHANGED <<readErrs, unpaid, kills, faults>>
  BY DEF Start
<1>2. m \in Members /\ l[1] # m /\ l[1] \in Members
  BY LinkEnds
<1>3. /\ Fits(l, link[l], unpaid[l], faults) /\ link[l] \in Goroutines /\ unpaid[l] \in Debts
      /\ link[l].probes \in Nat /\ link[l].acks \in Nat /\ faults \in Nat
  BY LinkFits
<1>4. /\ g \in Goroutines /\ g.phase = "connect" /\ g.probes = link[l].probes
      /\ g.acks = link[l].acks /\ g.errCount = link[l].errCount /\ g.connErr = link[l].connErr
  BY <1>3 DEF Goroutines, Phases
<1>5. link[l].phase = "start"
  BY <1>1 DEF At
<1> HIDE DEF g
<1>6. Types'
  <2>1. \A k \in Links : link[k] \in Goroutines /\ Goroutine("connect") \in Goroutines
    BY NewGoroutine DEF Types, Phases
  <2>2. link' \in [Links -> Goroutines]
    BY <1>1, <1>4, <2>1
  <2>3. up' \in [Members -> BOOLEAN]
    BY <1>1 DEF Types
  <2> QED BY <1>1, <2>2, <2>3 DEF Types
<1>7. LinkInv(l)'
  <2>1. /\ link'[l] = g /\ unpaid'[l] = unpaid[l] /\ faults' = faults
        /\ up'[l[1]] = up[l[1]] /\ up'[m] /\ readErrs'[m] = readErrs[m]
    BY <1>1, <1>2 DEF Types
  <2>2. \A q : At(l, q)' <=> q = "connect"
    BY <1>4, <2>1 DEF At
  <2>3. Counters(l)'
    BY <1>3, <1>4, <1>5, <2>1, <2>2 DEF LinkInv, Counters, Fits, At
  <2>4. FaultsBound(l)'
    <3>1. g.probes + g.acks <= faults
      BY <1>3, <1>4, <1>5 DEF Fits
    <3>2. ~ Answering(m)' => g.probes = 0
      BY <1>3, <1>4, <2>1 DEF Fits, Answering
    <3>3. ~ At(l, "read")' /\ ~ At(l, "off")'
      BY <2>2
    <3>4. unpaid[l].probe <= faults /\ unpaid[l].lookup <= faults
      BY <1>3 DEF Fits
    <3> QED BY <1>3, <2>1, <3>1, <3>2, <3>3, <3>4 DEF FaultsBound
  <2>5. LookupsCounted(l)'
    BY <1>3, <1>4, <1>5, <2>1 DEF LookupsCounted, Fits
  <2>6. ProbesCounted(l)' /\ AlarmRaised(l)'
    BY <2>2 DEF ProbesCounted, AlarmRaised
  <2> QED BY <2>3, <2>4, <2>5, <2>6 DEF LinkInv
<1>8. ASSUME NEW k \in Links, k # l PROVE LinkInv(k)'
  <2>1. unpaid'[k] = unpaid[k] /\ k[1] \in Members /\ k[2] \in Members
        /\ unpaid[k].probe <= faults' /\ unpaid[k].lookup <= faults' /\ faults' = faults
    BY <1>1, LinkEnds, LinkFits DEF Fits
  <2>2. CASE k[1] = m
    <3>1. link'[k] = Goroutine("connect") /\ up'[k[1]]
      BY <1>1, <1>2, <1>8, <2>2 DEF Types
    <3> QED BY <1>6, <2>1, <3>1, LinkRenewed
  <2>3. CASE k[1] # m
    <3>1. k[2] # m
      BY <1>8, OneWatcher
    <3>2. link'[k] = link[k] /\ up'[k[1]] = up[k[1]] /\ up'[k[2]] = up[k[2]] /\ readErrs' = readErrs
      BY <1>1, <1>8, <2>1, <2>3, <3>1 DEF Types
    <3> QED BY <1>3, <1>6, <2>1, <3>2, LinkKept
  <2> QED BY <2>2, <2>3
<1> QED BY <1>6, <1>7, <1>8

(* What a restart settles: MaxErrors probes, or as many lookups.           *)
LEMMA StopStep ==
  ASSUME Types, \A k \in Links : LinkInv(k), NEW l \in Links, Stop(l)
  PROVE  Types' /\ \A k \in Links : LinkInv(k)'
<1> DEFINE m == l[2]
           g == [link[l] EXCEPT !.probes = 0, !.phase = "start"]
<1>1. /\ At(l, "restart") /\ up' = [up EXCEPT ![m] = FALSE]
      /\ readErrs' = [readErrs EXCEPT ![m] = 0]
      /\ link' = [WithoutMember(m) EXCEPT ![l].phase = "start"]
      /\ UNCHANGED <<kills, faults>>
  BY DEF Stop
<1>2. m \in Members /\ l[1] # m /\ l[1] \in Members
  BY LinkEnds
<1>3. /\ Fits(l, link[l], unpaid[l], faults) /\ link[l] \in Goroutines /\ unpaid[l] \in Debts
      /\ link[l].probes \in Nat /\ link[l].acks \in Nat /\ link[l].connErr \in Nat
      /\ unpaid[l].probe \in Nat /\ unpaid[l].lookup \in Nat /\ faults \in Nat
  BY LinkFits
<1>4. /\ g \in Goroutines /\ g.phase = "start" /\ g.probes = 0 /\ g.acks = link[l].acks
      /\ g.errCount = link[l].errCount /\ g.connErr = link[l].connErr
  BY <1>3 DEF Goroutines, Phases
<1>5. link[l].phase = "restart"
  BY <1>1 DEF At
<1>6. link' = [WithoutMember(m) EXCEPT ![l] = g]
  <2>1. WithoutMember(m)[l] = [link[l] EXCEPT !.probes = 0]
    BY <1>2, MemberGone
  <2> QED BY <1>1, <2>1
<1> HIDE DEF g
<1>7. PICK u \in Debts :
        /\ g.connErr <= u.lookup /\ u.probe <= faults /\ u.lookup <= faults
        /\ \A k \in Links : unpaid'[k] = IF k[1] = m THEN Nothing
                                       ELSE IF k = l THEN u ELSE unpaid[k]
  <2>1. \A k \in Links : k[1] = m => unpaid'[k] = Nothing
    BY <1>2 DEF Stop
  <2>2. \A k \in Links : k[1] # m /\ k # l => unpaid'[k] = unpaid[k]
    BY DEF Stop
  <2>3. ASSUME NEW u \in Debts, unpaid'[l] = u
        PROVE  \A k \in Links : unpaid'[k] = IF k[1] = m THEN Nothing
                                           ELSE IF k = l THEN u ELSE unpaid[k]
    BY <2>1, <2>2, <2>3
  <2>4. CASE ~ Answering(m)
    <3>1. unpaid'[l] = unpaid[l]
      BY <1>2, <2>4 DEF Stop
    <3>2. g.connErr <= unpaid[l].lookup
      BY <1>3, <1>4, <1>5 DEF Fits
    <3>3. unpaid[l].probe <= faults /\ unpaid[l].lookup <= faults
      BY <1>3 DEF Fits
    <3> QED BY <1>3, <2>3, <3>1, <3>2, <3>3
  <2>5. CASE Answering(m) /\ unpaid[l].probe >= MaxErrors
    <3> DEFINE u == [unpaid[l] EXCEPT !.probe = 0]
    <3>1. u \in Debts /\ u.probe = 0 /\ u.lookup = unpaid[l].lookup
      BY <1>3 DEF Debts
    <3>2. unpaid'[l] = u
      <4>1. ~ (unpaid[l].probe < MaxErrors)
        BY <1>3, <2>5, Bounds
      <4> QED BY <1>2, <2>5, <4>1 DEF Stop
    <3> HIDE DEF u
    <3>3. g.connErr <= u.lookup /\ u.lookup <= faults
      BY <1>3, <1>4, <1>5, <3>1 DEF Fits
    <3> QED BY <1>3, <2>3, <3>1, <3>2, <3>3
  <2>6. CASE Answering(m) /\ ~ (unpaid[l].probe >= MaxErrors)
    <3> DEFINE n == unpaid[l].lookup - MaxErrors
               u == [unpaid[l] EXCEPT !.lookup = n]
    <3>1. g.connErr = 0 /\ unpaid[l].lookup >= MaxErrors
      <4>1. up[m]
        BY <2>6 DEF Answering
      <4> QED BY <1>3, <1>4, <1>5, <2>6, <4>1 DEF Fits
    <3>2. n \in Nat /\ n <= faults
      <4>1. unpaid[l].lookup <= faults
        BY <1>3 DEF Fits
      <4> QED BY <1>3, <3>1, <4>1, Bounds
    <3>3. unpaid'[l] = u
      <4>1. unpaid[l].probe < MaxErrors
        BY <1>3, <2>6, Bounds
      <4> QED BY <1>2, <2>6, <4>1 DEF Stop
    <3> HIDE DEF n
    <3>4. u \in Debts /\ u.probe = unpaid[l].probe /\ u.lookup = n
      BY <1>3, <3>2 DEF Debts
    <3> HIDE DEF u
    <3>5. u.probe <= faults
      BY <1>3, <3>4 DEF Fits
    <3>6. g.connErr <= u.lookup
      BY <3>1, <3>2, <3>4
    <3> QED BY <2>3, <3>2, <3>3, <3>4, <3>5, <3>6
  <2> QED BY <2>4, <2>5, <2>6
<1>8. Types'
  <2>1. unpaid' \in [Links -> Debts]
    <3>1. \A k \in Links : unpaid[k] \in Debts /\ Nothing \in Debts
      BY NewGoroutine DEF Types, Debts, Phases
    <3>2. \A k \in Links : unpaid'[k] \in Debts
      BY <1>7, <3>1
    <3>3. unpaid' = [k \in Links |-> unpaid'[k]]
      BY DEF Stop
    <3> QED BY <3>2, <3>3
  <2>2. readErrs' \in [Members -> 0..MaxErr]
    <3>1. 0 \in 0..MaxErr
      BY Bounds
    <3> QED BY <1>1, <3>1 DEF Types
  <2>4. up' \in [Members -> BOOLEAN]
    BY <1>1 DEF Types
  <2>3. link' \in [Links -> Goroutines]
    BY <1>2, <1>4, <1>6, MemberGone
  <2> QED BY <1>1, <2>1, <2>2, <2>3, <2>4 DEF Types, Debts
<1>9. LinkInv(l)'
  <2>1. /\ link'[l] = g /\ faults' = faults /\ unpaid'[l] = u
        /\ up'[l[1]] = up[l[1]] /\ ~ up'[m]
    BY <1>1, <1>2, <1>6, <1>7, MemberGone DEF Types
  <2>2. \A q : At(l, q)' <=> q = "start"
    BY <1>4, <2>1 DEF At
  <2>3. Counters(l)'
    BY <1>3, <1>4, <1>5, <2>1, <2>2 DEF LinkInv, Counters, Fits, At
  <2>4. FaultsBound(l)'
    <3>1. g.probes + g.acks <= faults
      BY <1>3, <1>4, <1>5 DEF Fits
    <3>2. ~ At(l, "read")'
      BY <2>2
    <3> QED BY <1>3, <1>4, <1>7, <2>1, <3>1, <3>2 DEF FaultsBound
  <2>5. LookupsCounted(l)'
    BY <1>7, <2>1 DEF LookupsCounted
  <2>6. ProbesCounted(l)' /\ AlarmRaised(l)'
    BY <2>2 DEF ProbesCounted, AlarmRaised
  <2> QED BY <2>3, <2>4, <2>5, <2>6 DEF LinkInv
<1>10. ASSUME NEW k \in Links, k # l PROVE LinkInv(k)'
  <2>1. /\ k[1] \in Members /\ k[2] \in Members /\ k[2] # m /\ faults' = faults
        /\ link'[k] = WithoutMember(m)[k]
    BY <1>1, <1>2, <1>6, <1>10, LinkEnds, OneWatcher, MemberGone
  <2>2. CASE k[1] = m
    <3>1. link'[k] = Goroutine("off") /\ ~ up'[k[1]] /\ unpaid'[k] = Nothing
      BY <1>1, <1>2, <1>7, <2>1, <2>2, MemberGone DEF Types
    <3> QED BY <1>3, <1>8, <2>1, <3>1, LinkRenewed, NewGoroutine DEF Phases
  <2>3. CASE k[1] # m
    <3>1. link'[k] = link[k]
      BY <1>2, <2>1, <2>3, MemberGone
    <3>2. /\ up'[k[1]] = up[k[1]] /\ up'[k[2]] = up[k[2]] /\ readErrs'[k[2]] = readErrs[k[2]]
          /\ unpaid'[k] = unpaid[k]
      BY <1>1, <1>7, <1>10, <2>1, <2>3 DEF Types
    <3> QED BY <1>3, <1>8, <2>1, <3>1, <3>2, LinkKept
  <2> QED BY <2>2, <2>3
<1> QED BY <1>8, <1>9, <1>10


-----------------------------------------------------------------------------
(* The theorems. *)

LEMMA InitHolds ==
  ASSUME Init
  PROVE  Types /\ \A l \in Links : LinkInv(l)
<1>1. Types
  <2>1. Goroutine("connect") \in Goroutines /\ Nothing \in Debts
    BY NewGoroutine DEF Phases
  <2> QED BY <2>1, Bounds DEF Init, Types, Debts
<1>2. ASSUME NEW l \in Links PROVE LinkInv(l)
  <2>1. /\ link[l] = Goroutine("connect") /\ unpaid[l] = Nothing
        /\ up[l[1]] /\ faults = 0
    BY LinkEnds DEF Init
  <2>2. /\ link[l].phase = "connect" /\ link[l].connErr = 0 /\ link[l].errCount = 0
        /\ link[l].probes = 0 /\ link[l].acks = 0 /\ unpaid[l].probe = 0 /\ unpaid[l].lookup = 0
    BY <2>1, NewGoroutine DEF Phases
  <2> QED BY <2>1, <2>2, Bounds
          DEF LinkInv, Counters, FaultsBound, ProbesCounted, LookupsCounted, AlarmRaised, At
<1> QED BY <1>1, <1>2

LEMMA InvariantStep ==
  ASSUME Types, \A k \in Links : LinkInv(k), [Next]_vars
  PROVE  Types' /\ \A k \in Links : LinkInv(k)'
<1>1. ASSUME NEW l \in Links, Check(l) PROVE Types' /\ \A k \in Links : LinkInv(k)'
  <2>1. CASE SendFails(l)
    <3>1. Missed(l, 0) /\ At(l, "send") /\ 0 \in 0..link[l].probes
      BY <2>1, LinkFits DEF SendFails
    <3> QED BY <3>1, MissedStep
  <2>2. CASE ReadFails(l)
    <3>1. PICK left \in 0..link[l].probes : Missed(l, left)
      BY <2>2 DEF ReadFails
    <3>2. At(l, "read") /\ link[l].acks = 0
      BY <2>2 DEF ReadFails
    <3> QED BY <3>1, <3>2, MissedStep
  <2> QED BY <1>1, <2>1, <2>2, ConnectStep, ConnectFailsStep, SendStep, ReadAckStep,
             StopStep, StartStep, RestartFailsStep DEF Check
<1>2. CASE UNCHANGED vars
  <2>1. Types'
    BY <1>2 DEF Types, vars
  <2>2. ASSUME NEW k \in Links PROVE LinkInv(k)'
    <3>1. faults <= faults'
      BY <1>2, Bounds DEF Types, vars
    <3> QED BY <1>2, <2>1, <3>1, LinkKept DEF vars
  <2> QED BY <2>1, <2>2
<1> QED BY <1>1, <1>2, AnswerStep, ServiceErrorStep, KillStep DEF Next

(* Through kills, faults, restarts and restarts of the restarters, the two *)
(* counters of every checking goroutine keep HealthInvariant.              *)
THEOREM HealthInvariantHolds == Spec => []HealthInvariant
<1> DEFINE Parts == Types /\ \A l \in Links : LinkInv(l)
<1>1. Init => Parts
  BY InitHolds
<1>2. Parts /\ [Next]_vars => Parts'
  BY InvariantStep
<1>3. Parts => HealthInvariant
  BY InvariantParts
<1> HIDE DEF Parts
<1> QED BY <1>1, <1>2, <1>3, PTL DEF Spec

(* Every variable keeps its type: no counter passes its limit, no datagram *)
(* outlives its fault, and a process has goroutines just while it runs.    *)
THEOREM HealthTypeCorrect == Spec => []TypeOK
<1>1. HealthInvariant => TypeOK
  BY DEF HealthInvariant
<1> QED BY <1>1, HealthInvariantHolds, PTL

(* A process that answers is restarted only after MaxErrors probes that it *)
(* was not dead for, or as many lookups of its name, have failed since the *)
(* last one that was answered or the last restart.                         *)
THEOREM AlarmsAreDeserved == Spec => []AlarmIsDeserved
<1>1. HealthInvariant => AlarmIsDeserved
  BY DEF HealthInvariant, AlarmRaised, AlarmIsDeserved, Answering
<1> QED BY <1>1, HealthInvariantHolds, PTL
=============================================================================
