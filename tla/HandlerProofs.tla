---------------------------- MODULE HandlerProofs ----------------------------
(***************************************************************************)
(* What each node of the queries makes of a message, for any upload, any   *)
(* number of joiners and text filters and any sizes: the ends of file and  *)
(* the result come last and only with the last end of file the node waits  *)
(* for, each publication is what its queue's reader expects, and what is   *)
(* kept counts the ends of file (NodesRespect).  Then two theorems about   *)
(* the top of query 3.                                                     *)
(***************************************************************************)
EXTENDS QueriesInv, WellFoundedInduction, FiniteSetTheorems, FunctionTheorems, TLAPS

(* An element of Seq is a sequence as the invariant has it.                *)
LEMMA SeqIsSeq ==
  ASSUME NEW S, NEW s \in Seq(S)
  PROVE  IsSeq(s)
BY DEF IsSeq

(* Sequences are concatenated element by element. *)
LEMMA Concatenated ==
  ASSUME NEW s, NEW t, IsSeq(s), IsSeq(t)
  PROVE  /\ IsSeq(s \o t)
         /\ Len(s \o t) = Len(s) + Len(t)
         /\ \A i \in 1..Len(s) : (s \o t)[i] = s[i]
         /\ \A i \in 1..Len(t) : (s \o t)[Len(s) + i] = t[i]
         /\ \A i \in 1..(Len(s) + Len(t)) :
              (s \o t)[i] = IF i <= Len(s) THEN s[i] ELSE t[i - Len(s)]
<1> DEFINE S == {s[i] : i \in 1..Len(s)} \union {t[i] : i \in 1..Len(t)}
<1>1. s \in Seq(S) /\ t \in Seq(S)
  <2>1. s \in [1..Len(s) -> S] /\ t \in [1..Len(t) -> S]
    BY DEF IsSeq
  <2> QED BY <2>1 DEF IsSeq
<1> HIDE DEF S
<1>2. s \o t \in Seq(S)
  BY <1>1
<1>3. Len(s) \in Nat /\ Len(t) \in Nat
  BY DEF IsSeq
<1>4. Len(s \o t) = Len(s) + Len(t)
  BY <1>1, <1>3
<1>5. \A i \in 1..(Len(s) + Len(t)) : (s \o t)[i] = IF i <= Len(s) THEN s[i] ELSE t[i - Len(s)]
  BY <1>1, <1>3
<1>6. IsSeq(s \o t)
  BY <1>2, SeqIsSeq
<1>7. ASSUME NEW i \in 1..Len(s) PROVE (s \o t)[i] = s[i]
  BY <1>3, <1>5
<1>8. ASSUME NEW i \in 1..Len(t) PROVE (s \o t)[Len(s) + i] = t[i]
  BY <1>3, <1>5
<1> QED BY <1>4, <1>5, <1>6, <1>7, <1>8

(* And so is a function on 1..n.                                           *)
LEMMA FunctionIsSeq ==
  ASSUME NEW n \in Nat, NEW s, s = [i \in 1..n |-> s[i]]
  PROVE  IsSeq(s) /\ Len(s) = n
<1> DEFINE S == {s[i] : i \in 1..n}
<1>1. s \in [1..n -> S]
  OBVIOUS
<1>2. s \in Seq(S) /\ Len(s) = n
  BY <1>1
<1> QED BY <1>2 DEF IsSeq

-----------------------------------------------------------------------------
Rank(I, i) == Cardinality({j \in I : j <= i})

Nth(I, n) == CHOOSE i \in I : Rank(I, i) = n

(* A finite set of places in their order. *)
LEMMA Ranked ==
  ASSUME NEW I \in SUBSET Nat, IsFiniteSet(I)
  PROVE  /\ Cardinality(I) \in Nat
         /\ \A n \in 1..Cardinality(I) :
              /\ Nth(I, n) \in I
              /\ n < Cardinality(I) => \E j \in I : Nth(I, n) < j
              /\ n = Cardinality(I) => \A j \in I : j <= Nth(I, n)
<1> DEFINE To(i) == {j \in I : j <= i}
           f == [i \in I |-> Rank(I, i)]
<1>0. Cardinality(I) \in Nat
  BY FS_CardinalityType
<1>1. ASSUME NEW i \in I PROVE IsFiniteSet(To(i)) /\ Rank(I, i) \in 1..Cardinality(I)
  <2>1. IsFiniteSet(To(i)) /\ Cardinality(To(i)) <= Cardinality(I)
    BY FS_Subset
  <2>2. Cardinality(To(i)) # 0 /\ Cardinality(To(i)) \in Nat
    BY <2>1, FS_EmptySet, FS_CardinalityType
  <2> QED BY <1>0, <2>1, <2>2 DEF Rank
<1>2. ASSUME NEW i \in I, NEW j \in I, i < j PROVE Rank(I, i) # Rank(I, j)
  <2>1. /\ \A k \in I : k <= i => k <= j
        /\ j <= j /\ ~ j <= i
    BY <1>2
  <2>2. To(i) \in SUBSET To(j) /\ j \in To(j) /\ j \notin To(i)
    BY <2>1
  <2>3. IsFiniteSet(To(j))
    BY <1>1
  <2> QED BY <2>2, <2>3, FS_Subset DEF Rank
<1>3. f \in Injection(I, 1..Cardinality(I))
  <2>1. f \in [I -> 1..Cardinality(I)]
    BY <1>1
  <2>2. ASSUME NEW i \in I, NEW j \in I, f[i] = f[j] PROVE i = j
    <3>1. ~ i < j /\ ~ j < i
      BY <1>2, <2>2
    <3> QED BY <3>1
  <2> QED BY <2>1, <2>2, Fun_IsInj
<1>4. f \in Surjection(I, 1..Cardinality(I))
  BY <1>0, <1>3, FS_Injection, FS_Interval
<1>5. ASSUME NEW n \in 1..Cardinality(I) PROVE Nth(I, n) \in I /\ Rank(I, Nth(I, n)) = n
  <2>1. \E i \in I : Rank(I, i) = n
    BY <1>4 DEF Surjection
  <2> QED BY <2>1 DEF Nth
<1>6. ASSUME NEW n \in 1..Cardinality(I), n < Cardinality(I) PROVE \E j \in I : Nth(I, n) < j
  <2> DEFINE i == Nth(I, n)
  <2>0. i \in I /\ Rank(I, i) = n
    BY <1>5
  <2> HIDE DEF i
  <2>1. SUFFICES ASSUME \A j \in I : ~ i < j PROVE FALSE
    BY DEF i
  <2>3. \A j \in I : j <= i
    BY <2>0, <2>1
  <2>2. To(i) = I
    BY <2>3
  <2> QED BY <1>0, <1>6, <2>0, <2>2 DEF Rank
<1>7. ASSUME NEW n \in 1..Cardinality(I), n = Cardinality(I), NEW j \in I PROVE j <= Nth(I, n)
  <2>1. To(Nth(I, n)) = I
    BY <1>1, <1>5, <1>7, FS_Subset DEF Rank
  <2> QED BY <2>1
<1> QED BY <1>0, <1>5, <1>6, <1>7

(* Pick keeps what it picks, in its order. *)
LEMMA Picked ==
  ASSUME NEW s, NEW I \in SUBSET Nat, IsFiniteSet(I)
  PROVE  /\ IsSeq(Pick(s, I))
         /\ Len(Pick(s, I)) = Cardinality(I) /\ Cardinality(I) \in Nat
         /\ \A n \in 1..Cardinality(I) : Pick(s, I)[n] = s[Nth(I, n)]
<1>1. Pick(s, I) = [n \in 1..Cardinality(I) |-> s[Nth(I, n)]]
  BY DEF Pick, Nth, Rank
<1>2. Cardinality(I) \in Nat
  BY FS_CardinalityType
<1> QED BY <1>1, <1>2, FunctionIsSeq

(* The places of a sequence where something holds. *)
LEMMA PlacesFinite ==
  ASSUME NEW n \in Nat, NEW I \in SUBSET (1..n)
  PROVE  I \in SUBSET Nat /\ IsFiniteSet(I) /\ Cardinality(I) \in Nat
<1>1. IsFiniteSet(1..n)
  BY FS_Interval
<1>2. IsFiniteSet(I)
  BY <1>1, FS_Subset
<1> QED BY <1>2, FS_CardinalityType

(* What a queue gets of the publications: those for it, and the last one   *)
(* for it last.                                                            *)
LEMMA PublishedInOrder ==
  ASSUME NEW out, IsSeq(out), NEW k
  PROVE  LET P == Published(out, k)
             I == {i \in 1..Len(out) : out[i].to = k}
         IN  /\ IsSeq(P)
             /\ \A n \in 1..Len(P) : \E i \in I :
                  P[n] = out[i].msg /\ (n < Len(P) => \E j \in I : i < j)
             /\ \A i \in I : (\A j \in I : j <= i) => Len(P) \in 1..Len(P) /\ P[Len(P)] = out[i].msg
<1> DEFINE I == {i \in 1..Len(out) : out[i].to = k}
           P == Published(out, k)
           mine == Pick(out, I)
<1>1. I \in SUBSET Nat /\ IsFiniteSet(I)
  BY PlacesFinite DEF IsSeq
<1>2. /\ IsSeq(mine) /\ Len(mine) = Cardinality(I) /\ Cardinality(I) \in Nat
      /\ \A n \in 1..Cardinality(I) : mine[n] = out[Nth(I, n)]
  BY <1>1, Picked
<1>3. P = [n \in 1..Cardinality(I) |-> out[Nth(I, n)].msg]
  <2>1. P = [n \in 1..Len(mine) |-> mine[n].msg]
    BY DEF Published
  <2> HIDE DEF P, mine, I
  <2> QED BY <1>2, <2>1
<1> HIDE DEF P, mine
<1>4. IsSeq(P) /\ Len(P) = Cardinality(I)
  BY <1>2, <1>3, FunctionIsSeq
<1>5. \A n \in 1..Cardinality(I) :
        /\ Nth(I, n) \in I
        /\ n < Cardinality(I) => \E j \in I : Nth(I, n) < j
        /\ n = Cardinality(I) => \A j \in I : j <= Nth(I, n)
  BY <1>1, Ranked
<1>6. ASSUME NEW i \in I, \A j \in I : j <= i
      PROVE  Len(P) \in 1..Len(P) /\ P[Len(P)] = out[i].msg
  <2> HIDE DEF I
  <2>1. Cardinality(I) # 0
    BY <1>1, FS_EmptySet
  <2>2. Cardinality(I) \in 1..Cardinality(I)
    BY <1>2, <2>1
  <2>3. Nth(I, Cardinality(I)) = i
    <3>1. Nth(I, Cardinality(I)) \in I /\ i <= Nth(I, Cardinality(I))
      BY <1>5, <2>2
    <3>2. Nth(I, Cardinality(I)) <= i
      BY <1>6, <3>1
    <3>3. i \in Nat /\ Nth(I, Cardinality(I)) \in Nat
      BY <1>1, <3>1
    <3> HIDE DEF Nth
    <3> QED BY <3>1, <3>2, <3>3
  <2> QED BY <1>3, <1>4, <2>2, <2>3
<1>7. ASSUME NEW n \in 1..Len(P)
      PROVE  \E i \in I : P[n] = out[i].msg /\ (n < Len(P) => \E j \in I : i < j)
  <2> HIDE DEF I
  <2> QED BY <1>3, <1>4, <1>5
<1> QED BY <1>4, <1>6, <1>7 DEF P

-----------------------------------------------------------------------------
(* A publication of node n for client c that is no end: it may go to what  *)
(* the queue's reader expects, from one of the queue's senders.            *)
Datum(n, c, p) ==
  /\ p.msg.client = c /\ ~ IsEof(p.msg)
  /\ \/ p.to = Reports /\ n[1] \in {"counter_agg", "percentile_agg"}
     \/ p.to # Reports /\ Carried(p.to, p.msg) /\ n \in Senders(p.to)

Reporters == {"platform_counter_agg", "topn_playtime_agg", "topn_agg", "counter_agg", "percentile_agg"}

(* One that is: an end of file, or the result of queries 1 to 3.           *)
Closing(n, c, p) ==
  /\ p.msg.client = c
  /\ \/ p.to = Reports /\ n[1] \in Reporters
     \/ p.to # Reports /\ IsEof(p.msg) /\ Carried(p.to, p.msg) /\ n \in EndSenders(p.to)

(* The node has all the ends of file it waits for. *)
Ending(n, r, m) ==
  /\ IsEof(m)
  /\ IsJoiner(n) => Complete(r, m)
  /\ IsFanIn(n) => r.recv + 1 >= Expected

AllQueues == UNION {Queues[q] : q \in 1..5}

(* What a node may publish while it waits for an end of file: data.        *)
Continues(n, c, out) == IsSeq(out) /\ \A i \in 1..Len(out) : Datum(n, c, out[i])

(* And with the last one: the end of each queue it ends, behind whatever   *)
(* it publishes there.                                                     *)
Finishes(n, c, out) ==
  /\ IsSeq(out)
  /\ \A i \in 1..Len(out) :
       \/ Datum(n, c, out[i])
       \/ /\ Closing(n, c, out[i])
          /\ \A j \in 1..Len(out) : out[j].to = out[i].to => j <= i
  /\ \A k \in AllQueues : n \in EndSenders(k) =>
       \E i \in 1..Len(out) : out[i].to = k /\ IsEof(out[i].msg)

(* What it keeps afterwards. *)
Settles(n, r, m, r2) ==
  /\ RecShape(n, r2)
  /\ Ending(n, r, m) => r2 = New(n)
  /\ ~ Ending(n, r, m) =>
       /\ IsJoiner(n) => r2.eofs = IF IsEof(m) THEN r.eofs \union {m.origin} ELSE r.eofs
       /\ IsFanIn(n) => r2.recv = IF IsEof(m) THEN r.recv + 1 ELSE r.recv

(* Nothing, and one or two publications. *)
LEMMA FewPublications ==
  /\ IsSeq(<< >>) /\ Len(<< >>) = 0
  /\ \A a : IsSeq(<<a>>) /\ Len(<<a>>) = 1 /\ <<a>>[1] = a
  /\ \A a, b : IsSeq(<<a, b>>) /\ Len(<<a, b>>) = 2 /\ <<a, b>>[1] = a /\ <<a, b>>[2] = b
BY DEF IsSeq

(* Data, then the ends of queues that differ. *)
LEMMA DataThenEnds ==
  ASSUME NEW n, NEW c, NEW data, NEW ends, Continues(n, c, data), IsSeq(ends),
         \A i \in 1..Len(ends) : Closing(n, c, ends[i]),
         \A i \in 1..Len(ends) : \A j \in 1..Len(ends) : ends[i].to = ends[j].to => i = j,
         \A k \in AllQueues : n \in EndSenders(k) =>
           \E i \in 1..Len(ends) : ends[i].to = k /\ IsEof(ends[i].msg)
  PROVE  Finishes(n, c, data \o ends)
<1> DEFINE out == data \o ends
<1>1. /\ IsSeq(out) /\ Len(out) = Len(data) + Len(ends)
      /\ Len(data) \in Nat /\ Len(ends) \in Nat
      /\ \A i \in 1..Len(data) : out[i] = data[i]
      /\ \A i \in 1..Len(ends) : out[Len(data) + i] = ends[i]
      /\ \A i \in 1..Len(out) : out[i] = IF i <= Len(data) THEN data[i] ELSE ends[i - Len(data)]
  BY Concatenated DEF IsSeq, Continues
<1> HIDE DEF out
<1>2. ASSUME NEW i \in 1..Len(out)
      PROVE  \/ Datum(n, c, out[i])
             \/ /\ Closing(n, c, out[i])
                /\ \A j \in 1..Len(out) : out[j].to = out[i].to => j <= i
  <2>1. CASE i <= Len(data)
    BY <1>1, <2>1 DEF Continues
  <2>2. CASE ~ i <= Len(data)
    <3>1. i - Len(data) \in 1..Len(ends) /\ out[i] = ends[i - Len(data)]
      BY <1>1, <2>2
    <3>2. ASSUME NEW j \in 1..Len(out), ~ j <= i PROVE out[j].to # out[i].to
      <4>1. j - Len(data) \in 1..Len(ends) /\ out[j] = ends[j - Len(data)] /\ j - Len(data) # i - Len(data)
        BY <1>1, <2>2, <3>2
      <4> QED BY <3>1, <4>1
    <3> QED BY <3>1, <3>2
  <2> QED BY <2>1, <2>2
<1>3. ASSUME NEW k \in AllQueues, n \in EndSenders(k)
      PROVE  \E i \in 1..Len(out) : out[i].to = k /\ IsEof(out[i].msg)
  <2>1. PICK i \in 1..Len(ends) : ends[i].to = k /\ IsEof(ends[i].msg)
    BY <1>3
  <2>2. Len(data) + i \in 1..Len(out) /\ out[Len(data) + i] = ends[i]
    BY <1>1
  <2> QED BY <2>1, <2>2
<1> QED BY <1>1, <1>2, <1>3 DEF Finishes, out

(* Nothing at all, one message, one end of file after data.                *)
LEMMA ContinuesWithFew ==
  ASSUME NEW n, NEW c
  PROVE  /\ Continues(n, c, << >>)
         /\ \A p : Datum(n, c, p) => Continues(n, c, <<p>>)
<1>1. ASSUME NEW p, Datum(n, c, p) PROVE Continues(n, c, <<p>>)
  <2> DEFINE out == <<p>>
  <2>1. IsSeq(out) /\ Len(out) = 1 /\ out[1] = p
    BY FewPublications
  <2> HIDE DEF out
  <2>2. Continues(n, c, out)
    BY <1>1, <2>1 DEF Continues
  <2> QED BY <2>2 DEF out
<1>2. Continues(n, c, << >>)
  BY FewPublications DEF Continues
<1> QED BY <1>1, <1>2

(* Data, then a single end.                                                *)
LEMMA OneEnd ==
  ASSUME NEW n, NEW c, NEW data, NEW p, Continues(n, c, data), Closing(n, c, p),
         \A k \in AllQueues : n \in EndSenders(k) => p.to = k /\ IsEof(p.msg)
  PROVE  Finishes(n, c, data \o <<p>>)
<1> DEFINE ends == <<p>>
<1>1. IsSeq(ends) /\ Len(ends) = 1 /\ ends[1] = p
  BY FewPublications
<1> HIDE DEF ends
<1>2. Finishes(n, c, data \o ends)
  BY <1>1, DataThenEnds
<1> QED BY <1>2 DEF ends

USE QueriesAssumption

(* The parts of the name of a queue.                                       *)
LEMMA AQueue ==
  ASSUME NEW k \in AllQueues
  PROVE  /\ k = <<k[1], k[2]>> /\ k[1] \in DOMAIN Reader
         /\ k[2] \in 0..(Width(k[1]) - 1)
<1>1. PICK q \in 1..5 : k \in Queues[q]
  BY DEF AllQueues
<1>2. PICK name \in QueuesOf(q) : k \in {<<name, i>> : i \in 0..(Width(name) - 1)}
  BY <1>1 DEF Queues
<1>3. name \in DOMAIN Reader
  BY <1>2 DEF QueuesOf, Reader
<1> HIDE DEF Reader
<1> QED BY <1>2, <1>3

(* What every node does for a message of a queue it reads.                 *)
Respects(n, r, m) ==
  \A o \in Process(n, r, m) :
    /\ IF Ending(n, r, m) THEN Finishes(n, m.client, o.out) ELSE Continues(n, m.client, o.out)
    /\ Settles(n, r, m, o.rec)

(* Ends of file, each to another of the queues T.                          *)
EndsTo(n, c, out, T) ==
  /\ IsSeq(out)
  /\ \A i \in 1..Len(out) : Closing(n, c, out[i]) /\ IsEof(out[i].msg) /\ out[i].to \in T
  /\ \A i \in 1..Len(out) : \A j \in 1..Len(out) : out[i].to = out[j].to => i = j
  /\ \A k \in T : \E i \in 1..Len(out) : out[i].to = k

(* One end of file to each of the readers 0 to w - 1.                      *)
LEMMA EndToEach ==
  ASSUME NEW n, NEW c, NEW name, NEW N0 \in Nat, NEW eof, IsEof(eof),
         \A i \in 0..(N0 - 1) : Closing(n, c, Out(name, i, eof))
  PROVE  EndsTo(n, c, Everywhere(name, N0, eof), {<<name, i>> : i \in 0..(N0 - 1)})
<1> DEFINE out == Everywhere(name, N0, eof)
<1>1. out = [i \in 1..N0 |-> Out(name, i - 1, eof)]
  BY DEF Everywhere
<1> HIDE DEF out
<1>2. IsSeq(out) /\ Len(out) = N0
  BY <1>1, FunctionIsSeq
<1>3. \A i \in 1..N0 : out[i].to = <<name, i - 1>> /\ out[i].msg = eof /\ Closing(n, c, out[i])
  BY <1>1 DEF Out
<1>4. ASSUME NEW k \in {<<name, i>> : i \in 0..(N0 - 1)} PROVE \E i \in 1..N0 : out[i].to = k
  <2>1. PICK i \in 0..(N0 - 1) : k = <<name, i>>
    OBVIOUS
  <2>2. i + 1 \in 1..N0 /\ out[i + 1].to = <<name, i>>
    BY <1>3
  <2> QED BY <2>1, <2>2
<1>5. \A i \in 1..N0 : out[i].to \in {<<name, j>> : j \in 0..(N0 - 1)}
  <2>1. ASSUME NEW i \in 1..N0 PROVE i - 1 \in 0..(N0 - 1)
    OBVIOUS
  <2> QED BY <1>3, <2>1
<1>6. \A i \in 1..N0 : \A j \in 1..N0 : out[i].to = out[j].to => i = j
  <2>1. ASSUME NEW i \in 1..N0, NEW j \in 1..N0, <<name, i - 1>> = <<name, j - 1>> PROVE i = j
    BY <2>1
  <2> QED BY <1>3, <2>1
<1>7. EndsTo(n, c, out, {<<name, i>> : i \in 0..(N0 - 1)})
  <2> DEFINE T == {<<name, i>> : i \in 0..(N0 - 1)}
  <2>1. (\A i \in 1..N0 : out[i].to \in T) /\ (\A k \in T : \E i \in 1..N0 : out[i].to = k)
    BY <1>4, <1>5
  <2> HIDE DEF T
  <2>2. EndsTo(n, c, out, T)
    BY <1>2, <1>3, <1>6, <2>1 DEF EndsTo
  <2> QED BY <2>2 DEF T
<1> QED BY <1>7 DEF out

(* One end of file to one queue.                                           *)
LEMMA EndToOne ==
  ASSUME NEW n, NEW c, NEW name, NEW i, NEW eof, IsEof(eof), Closing(n, c, Out(name, i, eof))
  PROVE  EndsTo(n, c, <<Out(name, i, eof)>>, {<<name, i>>})
<1> DEFINE p == Out(name, i, eof)
           out == <<p>>
<1>1. IsSeq(out) /\ Len(out) = 1 /\ out[1] = p
  BY FewPublications
<1>2. p.to = <<name, i>> /\ p.msg = eof /\ Closing(n, c, p)
  BY DEF Out
<1> HIDE DEF out, p
<1>3. EndsTo(n, c, out, {<<name, i>>})
  BY <1>1, <1>2 DEF EndsTo
<1> QED BY <1>3 DEF out, p

(* One end of file to a queue, and one to each of the joiners behind.      *)
LEMMA EndsToBoth ==
  ASSUME NEW n, NEW c, NEW a, NEW b, NEW T, NEW U,
         EndsTo(n, c, a, T), EndsTo(n, c, b, U), T \cap U = {}
  PROVE  EndsTo(n, c, a \o b, T \union U)
<1> DEFINE out == a \o b
<1>1. /\ IsSeq(out) /\ Len(out) = Len(a) + Len(b) /\ Len(a) \in Nat /\ Len(b) \in Nat
      /\ \A i \in 1..Len(a) : out[i] = a[i]
      /\ \A i \in 1..Len(b) : out[Len(a) + i] = b[i]
      /\ \A i \in 1..Len(out) : out[i] = IF i <= Len(a) THEN a[i] ELSE b[i - Len(a)]
  <2>1. IsSeq(a) /\ IsSeq(b)
    BY DEF EndsTo
  <2>2. Len(a) \in Nat /\ Len(b) \in Nat
    BY <2>1 DEF IsSeq
  <2> QED BY <2>1, <2>2, Concatenated
<1> HIDE DEF out
<1>2. \A i \in 1..Len(out) : \/ i \in 1..Len(a) /\ out[i] = a[i] /\ out[i].to \in T
                             \/ i - Len(a) \in 1..Len(b) /\ out[i] = b[i - Len(a)] /\ out[i].to \in U
  BY <1>1 DEF EndsTo
<1>3. ASSUME NEW i \in 1..Len(out), NEW j \in 1..Len(out), out[i].to = out[j].to PROVE i = j
  <2>1. CASE i \in 1..Len(a) /\ out[i] = a[i] /\ out[i].to \in T
    BY <1>1, <1>2, <1>3, <2>1 DEF EndsTo
  <2>2. CASE i - Len(a) \in 1..Len(b) /\ out[i] = b[i - Len(a)] /\ out[i].to \in U
    <3>1. j - Len(a) \in 1..Len(b) /\ out[j] = b[j - Len(a)]
      BY <1>2, <1>3, <2>2
    <3>2. i - Len(a) = j - Len(a)
      BY <1>3, <2>2, <3>1 DEF EndsTo
    <3> QED BY <1>1, <3>2
  <2> QED BY <1>2, <2>1, <2>2
<1>4. ASSUME NEW k \in T \union U PROVE \E i \in 1..Len(out) : out[i].to = k
  <2>1. CASE k \in T
    BY <1>1, <2>1 DEF EndsTo
  <2>2. CASE k \in U
    <3>1. PICK i \in 1..Len(b) : b[i].to = k
      BY <2>2 DEF EndsTo
    <3>2. Len(a) + i \in 1..Len(out)
      BY <1>1
    <3> QED BY <1>1, <3>1, <3>2
  <2> QED BY <2>1, <2>2
<1>5. \A i \in 1..Len(out) : Closing(n, c, out[i]) /\ IsEof(out[i].msg)
  BY <1>2 DEF EndsTo
<1>6. EndsTo(n, c, out, T \union U)
  BY <1>1, <1>2, <1>3, <1>4, <1>5 DEF EndsTo
<1> QED BY <1>6 DEF out

(* Ends to all the queues the node ends, behind the data.                  *)
LEMMA EndsFinish ==
  ASSUME NEW n, NEW c, NEW out, NEW T, EndsTo(n, c, out, T),
         \A k \in AllQueues : n \in EndSenders(k) => k \in T
  PROVE  Finishes(n, c, out)
<1>1. \A i \in 1..Len(out) : Closing(n, c, out[i]) /\ \A j \in 1..Len(out) : out[j].to = out[i].to => j <= i
  BY DEF EndsTo, IsSeq
<1>2. \A k \in AllQueues : n \in EndSenders(k) => \E i \in 1..Len(out) : out[i].to = k /\ IsEof(out[i].msg)
  BY DEF EndsTo
<1> QED BY <1>1, <1>2 DEF Finishes, EndsTo

(* Data behind data.                                                       *)
LEMMA DataAndData ==
  ASSUME NEW n, NEW c, NEW a, NEW b, Continues(n, c, a), Continues(n, c, b)
  PROVE  Continues(n, c, a \o b)
<1> DEFINE out == a \o b
<1>1. /\ IsSeq(out) /\ Len(out) = Len(a) + Len(b) /\ Len(a) \in Nat /\ Len(b) \in Nat
      /\ \A i \in 1..Len(out) : out[i] = IF i <= Len(a) THEN a[i] ELSE b[i - Len(a)]
  <2>1. IsSeq(a) /\ IsSeq(b)
    BY DEF Continues
  <2>2. Len(a) \in Nat /\ Len(b) \in Nat
    BY <2>1 DEF IsSeq
  <2> QED BY <2>1, <2>2, Concatenated
<1> HIDE DEF out
<1>2. ASSUME NEW i \in 1..Len(out) PROVE Datum(n, c, out[i])
  <2>1. CASE i <= Len(a)
    BY <1>1, <2>1 DEF Continues
  <2>2. CASE ~ i <= Len(a)
    <3>1. i - Len(a) \in 1..Len(b) /\ out[i] = b[i - Len(a)]
      BY <1>1, <2>2
    <3> QED BY <3>1 DEF Continues
  <2> QED BY <2>1, <2>2
<1>3. Continues(n, c, out)
  BY <1>1, <1>2 DEF Continues
<1> QED BY <1>3 DEF out

(* A node that keeps nothing. *)
LEMMA StatelessRespects ==
  ASSUME NEW n, ~ Keeps(n), ~ IsJoiner(n), ~ IsFanIn(n), NEW r, RecShape(n, r), NEW m,
         NEW outs, Process(n, r, m) = {Outcome(r, out) : out \in outs},
         \A out \in outs : IF IsEof(m) THEN Finishes(n, m.client, out)
                                       ELSE Continues(n, m.client, out)
  PROVE  Respects(n, r, m)
<1>1. ASSUME NEW o \in Process(n, r, m) PROVE o.rec = r /\ o.out \in outs
  BY DEF Outcome
<1>2. r = New(n)
  BY DEF RecShape, Keeps
<1>3. Settles(n, r, m, r)
  BY <1>2 DEF Settles
<1> QED BY <1>1, <1>3 DEF Respects, Ending

(* The platform filter.                                                    *)
LEMMA PlatformRespects ==
  ASSUME NEW n, n = <<"platform", 0>>, NEW r, RecShape(n, r),
         NEW m, m.client \in Clients, m.kind \in {"games", "eof"}
  PROVE  Respects(n, r, m)
<1> DEFINE c == m.client
<1>1. n[1] = "platform" /\ ~ Keeps(n) /\ ~ IsJoiner(n) /\ ~ IsFanIn(n)
  BY DEF Keeps, New, IsJoiner, IsFanIn
<1>2. Process(n, r, m) = {Outcome(r, out) : out \in PlatformFilter(m)}
  BY <1>1 DEF Process
<1>3. CASE m.kind = "games"
  <2> DEFINE p == Out("platforms", 0, PlatformMsg(c, Counts(m.games)))
  <2>1. \A out \in PlatformFilter(m) : out = <<p>>
    BY <1>3 DEF PlatformFilter
  <2>2. Datum(n, c, p)
    BY <1>1 DEF Datum, Out, PlatformMsg, IsEof, Carried, Data, JoinInputs, Senders, EndSenders, Writer, Gateways, FanIns, Reports
  <2> HIDE DEF p
  <2>3. Continues(n, c, <<p>>)
    BY <2>2, ContinuesWithFew
  <2> QED BY <1>1, <1>2, <1>3, <2>1, <2>3, StatelessRespects DEF IsEof
<1>4. CASE m.kind = "eof"
  <2> DEFINE eof == EofMsg(c, m.origin, {})
  <2>1. \A out \in PlatformFilter(m) : out = <<Out("platforms", 0, eof)>>
    BY <1>4 DEF PlatformFilter
  <2>2. Closing(n, c, Out("platforms", 0, eof)) /\ IsEof(eof)
    BY <1>1 DEF Closing, Out, EofMsg, IsEof, Carried, Data, JoinInputs, Senders, EndSenders, Writer, Gateways, FanIns, Reports
  <2> HIDE DEF eof
  <2>3. \A k \in AllQueues : n \in EndSenders(k) => k \in {<<"platforms", 0>>}
    BY AQueue DEF EndSenders, Reader, Width, Gateways, FanIns, Writer
  <2>4. Finishes(n, c, <<Out("platforms", 0, eof)>>)
    BY <2>2, <2>3, EndToOne, EndsFinish
  <2> QED BY <1>1, <1>2, <1>4, <2>1, <2>4, StatelessRespects DEF IsEof
<1> QED BY <1>3, <1>4

(* What is picked from a sequence are some of its elements. *)
LEMMA PickedSeq ==
  ASSUME NEW S, NEW s \in Seq(S), NEW I \in SUBSET (1..Len(s))
  PROVE  Pick(s, I) \in Seq(S)
<1> DEFINE t == Pick(s, I)
<1>1. Len(s) \in Nat /\ \A i \in I : s[i] \in S
  OBVIOUS
<1>2. I \in SUBSET Nat /\ IsFiniteSet(I)
  BY <1>1, PlacesFinite
<1>3. /\ IsSeq(t) /\ Len(t) = Cardinality(I) /\ Cardinality(I) \in Nat
      /\ \A n \in 1..Cardinality(I) : t[n] = s[Nth(I, n)]
  BY <1>2, Picked
<1>4. \A n \in 1..Cardinality(I) : Nth(I, n) \in I
  BY <1>2, Ranked
<1> HIDE DEF t
<1>5. Len(t) \in Nat /\ t \in [1..Len(t) -> S]
  BY <1>1, <1>3, <1>4 DEF IsSeq
<1>6. t \in Seq(S)
  BY <1>5
<1> QED BY <1>6 DEF t

(* The batches of names a game filter makes go to the joiners of the games.*)
LEMMA NamesContinue ==
  ASSUME NEW n, NEW c, NEW names, names \in {<<"indie_q3">>, <<"action_q4", "action_q5">>},
         NEW gs \in Seq(Games),
         \A i \in 1..Len(names) : \A g \in Games : Datum(n, c, Out(names[i], Shard[g], NameMsg(c, g)))
  PROVE  Continues(n, c, NamesTo(names, c, gs))
<1> DEFINE L == Len(names)
           out == NamesTo(names, c, gs)
<1>1. L \in {1, 2} /\ Len(gs) \in Nat /\ \A i \in 1..Len(gs) : gs[i] \in Games
  OBVIOUS
<1>2. out = [i \in 1..(L * Len(gs)) |->
                Out(names[((i - 1) % L) + 1], Shard[gs[((i - 1) \div L) + 1]],
                    NameMsg(c, gs[((i - 1) \div L) + 1]))]
  BY DEF NamesTo
<1> HIDE DEF L, out
<1>3. L * Len(gs) \in Nat
  BY <1>1
<1>4. IsSeq(out) /\ Len(out) = L * Len(gs)
  BY <1>2, <1>3, FunctionIsSeq
<1>5. ASSUME NEW i \in 1..(L * Len(gs))
      PROVE  ((i - 1) % L) + 1 \in 1..L /\ ((i - 1) \div L) + 1 \in 1..Len(gs)
  <2>1. CASE L = 1
    BY <1>1, <2>1
  <2>2. CASE L = 2
    BY <1>1, <2>2
  <2> QED BY <1>1, <2>1, <2>2
<1>6. \A i \in 1..Len(out) : Datum(n, c, out[i])
  BY <1>1, <1>2, <1>4, <1>5 DEF L
<1>7. Continues(n, c, out)
  BY <1>4, <1>6 DEF Continues
<1> QED BY <1>7 DEF out

(* The action filter.                                                      *)
LEMMA ActionRespects ==
  ASSUME NEW n, n = <<"action", 0>>, NEW r, RecShape(n, r),
         NEW m, m.client \in Clients, m.kind \in {"games", "eof"}, m.kind = "games" => GamesBatch(m)
  PROVE  Respects(n, r, m)
<1> DEFINE c == m.client
<1>1. n[1] = "action" /\ ~ Keeps(n) /\ ~ IsJoiner(n) /\ ~ IsFanIn(n)
  BY DEF Keeps, New, IsJoiner, IsFanIn
<1>2. Process(n, r, m) = {Outcome(r, out) : out \in ActionFilter(m)}
  BY <1>1 DEF Process
<1>3. CASE m.kind = "games"
  <2> DEFINE gs == OfGenre(m.games, "Action")
             names == <<"action_q4", "action_q5">>
  <2>1. \A out \in ActionFilter(m) : out = NamesTo(names, c, gs)
    BY <1>3 DEF ActionFilter
  <2>2. gs \in Seq(Games)
    BY <1>3, PickedSeq DEF OfGenre, GamesBatch
  <2>3. \A name \in {"action_q4", "action_q5"} : \A g \in Games : Datum(n, c, Out(name, Shard[g], NameMsg(c, g)))
    BY <1>1 DEF Datum, Out, NameMsg, IsEof, Carried, Data, JoinInputs, Senders, EndSenders, Writer, Gateways, FanIns, Reports
  <2> HIDE DEF gs, names
  <2>4. Continues(n, c, NamesTo(names, c, gs))
    BY <2>2, <2>3, NamesContinue DEF names
  <2> QED BY <1>1, <1>2, <1>3, <2>1, <2>4, StatelessRespects DEF IsEof
<1>4. CASE m.kind = "eof"
  <2> DEFINE eof == EofMsg(c, "game", {})
             a == Everywhere("action_q4", Joiners, eof)
             b == Everywhere("action_q5", Joiners, eof)
             T == {<<"action_q4", i>> : i \in 0..(Joiners - 1)}
             U == {<<"action_q5", i>> : i \in 0..(Joiners - 1)}
  <2>1. \A out \in ActionFilter(m) : out = a \o b
    BY <1>4 DEF ActionFilter
  <2>2. /\ IsEof(eof)
        /\ \A name \in {"action_q4", "action_q5"} : \A i \in 0..(Joiners - 1) : Closing(n, c, Out(name, i, eof))
    BY <1>1 DEF Closing, Out, EofMsg, IsEof, Carried, Data, Origin, JoinInputs, Senders, EndSenders, Writer, Gateways, FanIns, Reports
  <2>3. \A k \in AllQueues : n \in EndSenders(k) => k \in T \union U
    BY AQueue DEF EndSenders, Reader, Width, Gateways, FanIns, Writer
  <2>4. T \cap U = {}
    OBVIOUS
  <2> HIDE DEF eof
  <2>5. EndsTo(n, c, a, T) /\ EndsTo(n, c, b, U)
    <3>1. \A i \in 0..(Joiners - 1) : Closing(n, c, Out("action_q4", i, eof))
      BY <2>2
    <3>2. \A i \in 0..(Joiners - 1) : Closing(n, c, Out("action_q5", i, eof))
      BY <2>2
    <3> QED BY <2>2, <3>1, <3>2, EndToEach
  <2> HIDE DEF T, U, a, b
  <2>6. Finishes(n, c, a \o b)
    BY <2>3, <2>4, <2>5, EndsToBoth, EndsFinish
  <2> QED BY <1>1, <1>2, <1>4, <2>1, <2>6, StatelessRespects DEF IsEof
<1> QED BY <1>3, <1>4

(* An order of a finite set of games. *)
LEMMA OrderOf ==
  ASSUME NEW D, IsFiniteSet(D), NEW order \in SetToSeqs(D)
  PROVE  order \in Seq(D) /\ IsSeq(order)
<1>1. Cardinality(D) \in Nat /\ order \in [1..Cardinality(D) -> D]
  BY FS_CardinalityType DEF SetToSeqs
<1>2. order \in Seq(D)
  BY <1>1
<1> QED BY <1>2, SeqIsSeq

(* The reviews of a batch that pass a filter are about games of the catalog.*)
LEMMA GamesReviewed ==
  ASSUME NEW rs \in Seq(Review)
  PROVE  /\ IsFiniteSet({rs[i].game : i \in 1..Len(rs)})
         /\ {rs[i].game : i \in 1..Len(rs)} \subseteq Games
<1> DEFINE D == {rs[i].game : i \in 1..Len(rs)}
           f == [i \in 1..Len(rs) |-> rs[i].game]
<1>1. Len(rs) \in Nat /\ \A i \in 1..Len(rs) : rs[i].game \in Games
  <2>1. Len(rs) \in Nat /\ \A i \in 1..Len(rs) : rs[i] \in Review
    OBVIOUS
  <2>2. \A v \in Review : v.game \in Games
    BY DEF Review
  <2> QED BY <2>1, <2>2
<1>2. f \in Surjection(1..Len(rs), D)
  BY Fun_IsSurj
<1>3. IsFiniteSet(1..Len(rs))
  BY <1>1, FS_Interval
<1>4. IsFiniteSet(D)
  BY <1>2, <1>3, FS_Surjection
<1> QED BY <1>1, <1>4

(* The batches of scores go to the joiners of the games.                   *)
LEMMA ScoresContinue ==
  ASSUME NEW n, NEW c, NEW name, NEW rs \in Seq(Review), NEW scores \in Scores(rs),
         \A g \in Games : \A v : Datum(n, c, Out(name, Shard[g], ScoreMsg(c, Score(g, v))))
  PROVE  Continues(n, c, Sharded(name, c, scores))
<1> DEFINE D == {rs[i].game : i \in 1..Len(rs)}
           out == Sharded(name, c, scores)
<1>1. PICK order \in SetToSeqs(D) :
        scores = [i \in 1..Len(order) |-> Score(order[i], VotesOf(rs, order[i]))]
  BY DEF Scores
<1>2. IsFiniteSet(D) /\ D \subseteq Games
  BY GamesReviewed
<1> HIDE DEF D
<1>3. order \in Seq(D) /\ IsSeq(order)
  BY <1>2, OrderOf
<1>4. Len(order) \in Nat /\ \A i \in 1..Len(order) : order[i] \in Games
  BY <1>2, <1>3
<1>5. IsSeq(scores) /\ Len(scores) = Len(order)
  BY <1>1, <1>4, FunctionIsSeq
<1>6. out = [i \in 1..Len(order) |-> Out(name, Shard[scores[i].game], ScoreMsg(c, scores[i]))]
  BY <1>5 DEF Sharded
<1> HIDE DEF out
<1>7. IsSeq(out) /\ Len(out) = Len(order)
  BY <1>4, <1>6, FunctionIsSeq
<1>8. \A i \in 1..Len(order) : /\ scores[i] = Score(order[i], VotesOf(rs, order[i]))
                               /\ scores[i].game = order[i]
  BY <1>1 DEF Score
<1>9. \A i \in 1..Len(out) : Datum(n, c, out[i])
  BY <1>4, <1>6, <1>7, <1>8
<1>10. Continues(n, c, out)
  BY <1>7, <1>9 DEF Continues
<1> QED BY <1>10 DEF out

(* The indie filter.                                                       *)
LEMMA IndieRespects ==
  ASSUME NEW n, n = <<"indie", 0>>, NEW r, RecShape(n, r),
         NEW m, m.client \in Clients, m.kind \in {"games", "eof"}, m.kind = "games" => GamesBatch(m)
  PROVE  Respects(n, r, m)
<1> DEFINE c == m.client
<1>1. n[1] = "indie" /\ ~ Keeps(n) /\ ~ IsJoiner(n) /\ ~ IsFanIn(n)
  BY DEF Keeps, New, IsJoiner, IsFanIn
<1>2. Process(n, r, m) = {Outcome(r, out) : out \in IndieFilter(m)}
  BY <1>1 DEF Process
<1>3. CASE m.kind = "games"
  <2> DEFINE gs == OfGenre(m.games, "Indie")
             names == <<"indie_q3">>
             p == Out("indie_q2", 0, ReleasesMsg(c, gs))
  <2>1. \A out \in IndieFilter(m) : out = <<p>> \o NamesTo(names, c, gs)
    BY <1>3 DEF IndieFilter
  <2>2. gs \in Seq(Games)
    BY <1>3, PickedSeq DEF OfGenre, GamesBatch
  <2>3. \A g \in Games : Datum(n, c, Out("indie_q3", Shard[g], NameMsg(c, g)))
    BY <1>1 DEF Datum, Out, NameMsg, IsEof, Carried, Data, JoinInputs, Senders, EndSenders, Writer, Gateways, FanIns, Reports
  <2>4. Datum(n, c, p)
    BY <1>1 DEF Datum, Out, ReleasesMsg, IsEof, Carried, Data, JoinInputs, Senders, EndSenders, Writer, Gateways, FanIns, Reports
  <2> HIDE DEF gs, names, p
  <2>5. Continues(n, c, NamesTo(names, c, gs))
    BY <2>2, <2>3, NamesContinue DEF names
  <2>6. Continues(n, c, <<p>> \o NamesTo(names, c, gs))
    BY <2>4, <2>5, ContinuesWithFew, DataAndData
  <2> QED BY <1>1, <1>2, <1>3, <2>1, <2>6, StatelessRespects DEF IsEof
<1>4. CASE m.kind = "eof"
  <2> DEFINE eof == EofMsg(c, "game", {})
             a == <<Out("indie_q2", 0, eof)>>
             b == Everywhere("indie_q3", Joiners, eof)
             T == {<<"indie_q2", 0>>}
             U == {<<"indie_q3", i>> : i \in 0..(Joiners - 1)}
  <2>1. \A out \in IndieFilter(m) : out = a \o b
    BY <1>4 DEF IndieFilter
  <2>2. /\ IsEof(eof) /\ Closing(n, c, Out("indie_q2", 0, eof))
        /\ \A i \in 0..(Joiners - 1) : Closing(n, c, Out("indie_q3", i, eof))
    BY <1>1 DEF Closing, Out, EofMsg, IsEof, Carried, Data, Origin, JoinInputs, Senders, EndSenders, Writer, Gateways, FanIns, Reports
  <2>3. \A k \in AllQueues : n \in EndSenders(k) => k \in T \union U
    BY AQueue DEF EndSenders, Reader, Width, Gateways, FanIns, Writer
  <2>4. T \cap U = {}
    OBVIOUS
  <2> HIDE DEF eof
  <2>5. EndsTo(n, c, a, T) /\ EndsTo(n, c, b, U)
    BY <2>2, EndToOne, EndToEach
  <2> HIDE DEF T, U, a, b
  <2>6. Finishes(n, c, a \o b)
    BY <2>3, <2>4, <2>5, EndsToBoth, EndsFinish
  <2> QED BY <1>1, <1>2, <1>4, <2>1, <2>6, StatelessRespects DEF IsEof
<1> QED BY <1>3, <1>4

(* The release date filter.                                                *)
LEMMA ReleaseDateRespects ==
  ASSUME NEW n, n = <<"release_date", 0>>, NEW r, RecShape(n, r),
         NEW m, m.client \in Clients, m.kind \in {"releases", "eof"}
  PROVE  Respects(n, r, m)
<1> DEFINE c == m.client
<1>1. n[1] = "release_date" /\ ~ Keeps(n) /\ ~ IsJoiner(n) /\ ~ IsFanIn(n)
  BY DEF Keeps, New, IsJoiner, IsFanIn
<1>2. Process(n, r, m) = {Outcome(r, out) : out \in ReleaseDateFilter(m)}
  BY <1>1 DEF Process
<1>3. CASE m.kind = "releases"
  <2> DEFINE p == Out("release_date", 0, PlaytimesMsg(c, InYears(m.games)))
  <2>1. \A out \in ReleaseDateFilter(m) : out = <<p>>
    BY <1>3 DEF ReleaseDateFilter
  <2>2. Datum(n, c, p)
    BY <1>1 DEF Datum, Out, PlaytimesMsg, IsEof, Carried, Data, JoinInputs, Senders, EndSenders, Writer, Gateways, FanIns, Reports
  <2> HIDE DEF p
  <2>3. Continues(n, c, <<p>>)
    BY <2>2, ContinuesWithFew
  <2> QED BY <1>1, <1>2, <1>3, <2>1, <2>3, StatelessRespects DEF IsEof
<1>4. CASE m.kind = "eof"
  <2> DEFINE eof == EofMsg(c, m.origin, {})
  <2>1. \A out \in ReleaseDateFilter(m) : out = <<Out("release_date", 0, eof)>>
    BY <1>4 DEF ReleaseDateFilter
  <2>2. Closing(n, c, Out("release_date", 0, eof)) /\ IsEof(eof)
    BY <1>1 DEF Closing, Out, EofMsg, IsEof, Carried, Data, JoinInputs, Senders, EndSenders, Writer, Gateways, FanIns, Reports
  <2> HIDE DEF eof
  <2>3. \A k \in AllQueues : n \in EndSenders(k) => k \in {<<"release_date", 0>>}
    BY AQueue DEF EndSenders, Reader, Width, Gateways, FanIns, Writer
  <2>4. Finishes(n, c, <<Out("release_date", 0, eof)>>)
    BY <2>2, <2>3, EndToOne, EndsFinish
  <2> QED BY <1>1, <1>2, <1>4, <2>1, <2>4, StatelessRespects DEF IsEof
<1> QED BY <1>3, <1>4

(* The review filter.                                                      *)
LEMMA ReviewRespects ==
  ASSUME NEW n, n = <<"review", 0>>, NEW r, RecShape(n, r),
         NEW m, m.client \in Clients, m.kind \in {"reviews", "eof"},
         m.kind = "reviews" => m.reviews \in Seq(Review)
  PROVE  Respects(n, r, m)
<1> DEFINE c == m.client
<1>1. n[1] = "review" /\ ~ Keeps(n) /\ ~ IsJoiner(n) /\ ~ IsFanIn(n)
  BY DEF Keeps, New, IsJoiner, IsFanIn
<1>2. Process(n, r, m) = {Outcome(r, out) : out \in ReviewFilter(m)}
  BY <1>1 DEF Process
<1>3. CASE m.kind = "reviews"
  <2> DEFINE With(score) == WithScore(m.reviews, score)
             p(t) == Out("text_reviews_q4", t, TextMsg(c, With(Scored.text)))
  <2>1. \A score : With(score) \in Seq(Review)
    BY <1>3, PickedSeq DEF WithScore
  <2>2. ReviewFilter(m) = { <<p(t)>> \o Sharded("reviews_q3", c, pos) \o Sharded("reviews_q5", c, neg) :
                              t \in 0..(Texts - 1), pos \in Scores(With(Scored.positive)),
                              neg \in Scores(With(Scored.negative)) }
    BY <1>3 DEF ReviewFilter
  <2> HIDE DEF With
  <2>3. \A t \in 0..(Texts - 1) : Datum(n, c, p(t))
    BY <1>1, <2>1 DEF Datum, Out, TextMsg, IsEof, Carried, Data, JoinInputs, Senders, EndSenders, Writer, Gateways, FanIns, Reports
  <2>4. /\ \A g \in Games : \A v : Datum(n, c, Out("reviews_q3", Shard[g], ScoreMsg(c, Score(g, v))))
        /\ \A g \in Games : \A v : Datum(n, c, Out("reviews_q5", Shard[g], ScoreMsg(c, Score(g, v))))
    BY <1>1 DEF Datum, Out, ScoreMsg, Score, IsEof, Carried, Data, JoinInputs, Senders, EndSenders, Writer, Gateways, FanIns, Reports
  <2> HIDE DEF p
  <2>5. \A out \in ReviewFilter(m) : Continues(n, c, out)
    <3>1. ASSUME NEW t \in 0..(Texts - 1), NEW pos \in Scores(With(Scored.positive)), NEW neg \in Scores(With(Scored.negative))
          PROVE  Continues(n, c, <<p(t)>> \o Sharded("reviews_q3", c, pos) \o Sharded("reviews_q5", c, neg))
      <4>1. Continues(n, c, Sharded("reviews_q3", c, pos)) /\ Continues(n, c, Sharded("reviews_q5", c, neg))
        BY <2>1, <2>4, ScoresContinue
      <4>2. Continues(n, c, <<p(t)>>)
        BY <2>3, ContinuesWithFew
      <4> QED BY <4>1, <4>2, DataAndData
    <3> DEFINE F(t, pos, neg) == <<p(t)>> \o Sharded("reviews_q3", c, pos) \o Sharded("reviews_q5", c, neg)
               P == Scores(With(Scored.positive))
               M == Scores(With(Scored.negative))
    <3>2. ReviewFilter(m) = {F(t, pos, neg) : t \in 0..(Texts - 1), pos \in P, neg \in M}
      BY <2>2
    <3>3. \A t \in 0..(Texts - 1) : \A pos \in P : \A neg \in M : Continues(n, c, F(t, pos, neg))
      BY <3>1
    <3> HIDE DEF F, P, M
    <3> QED BY <3>2, <3>3
  <2> QED BY <1>1, <1>2, <1>3, <2>5, StatelessRespects DEF IsEof
<1>4. CASE m.kind = "eof"
  <2> DEFINE eof == EofMsg(c, "review", {})
             a == Everywhere("reviews_q3", Joiners, eof)
             b == <<Out("text_reviews_q4", 0, eof)>>
             d == Everywhere("reviews_q5", Joiners, eof)
             T == {<<"reviews_q3", i>> : i \in 0..(Joiners - 1)}
             U == {<<"text_reviews_q4", 0>>}
             V == {<<"reviews_q5", i>> : i \in 0..(Joiners - 1)}
  <2>1. \A out \in ReviewFilter(m) : out = a \o b \o d
    BY <1>4 DEF ReviewFilter, ReviewEofs
  <2>2. /\ IsEof(eof) /\ Closing(n, c, Out("text_reviews_q4", 0, eof))
        /\ \A i \in 0..(Joiners - 1) : Closing(n, c, Out("reviews_q3", i, eof))
        /\ \A i \in 0..(Joiners - 1) : Closing(n, c, Out("reviews_q5", i, eof))
    BY <1>1 DEF Closing, Out, EofMsg, IsEof, Carried, Data, Origin, JoinInputs, Senders, EndSenders, Writer, Gateways, FanIns, Reports
  <2>3. \A k \in AllQueues : n \in EndSenders(k) => k \in (T \union U) \union V
    BY AQueue DEF EndSenders, Reader, Width, Gateways, FanIns, Writer
  <2>4. T \cap U = {} /\ (T \union U) \cap V = {}
    OBVIOUS
  <2> HIDE DEF eof
  <2>5. EndsTo(n, c, a, T) /\ EndsTo(n, c, b, U) /\ EndsTo(n, c, d, V)
    BY <2>2, EndToOne, EndToEach
  <2> HIDE DEF T, U, V, a, b, d
  <2>6. EndsTo(n, c, a \o b \o d, (T \union U) \union V)
    BY <2>4, <2>5, EndsToBoth
  <2>7. Finishes(n, c, a \o b \o d)
    BY <2>3, <2>6, EndsFinish
  <2> QED BY <1>1, <1>2, <1>4, <2>1, <2>7, StatelessRespects DEF IsEof
<1> QED BY <1>3, <1>4

(* The text filters: the end of file goes to the first not yet visited.    *)
LEMMA TextRespects ==
  ASSUME NEW t \in 0..(Texts - 1), NEW n, n = <<"text", t>>, NEW r, RecShape(n, r),
         NEW m, m.client \in Clients, m.kind \in {"text", "eof"},
         m.kind = "text" => m.reviews \in Seq(Review),
         m.kind = "eof" => m.visited = 0..(t - 1)
  PROVE  Respects(n, r, m)
<1> DEFINE c == m.client
<1>1. n[1] = "text" /\ n[2] = t /\ ~ Keeps(n) /\ ~ IsJoiner(n) /\ ~ IsFanIn(n)
  BY DEF Keeps, New, IsJoiner, IsFanIn
<1>2. Process(n, r, m) = {Outcome(r, out) : out \in TextFilter(t, m)}
  BY <1>1 DEF Process
<1>3. CASE m.kind = "text"
  <2>1. InEnglish(m.reviews) \in Seq(Review)
    BY <1>3, PickedSeq DEF InEnglish
  <2>2. \A out \in TextFilter(t, m) : \E scores \in Scores(InEnglish(m.reviews)) :
          out = Sharded("reviews_q4", c, scores)
    BY <1>3 DEF TextFilter
  <2>3. \A g \in Games : \A v : Datum(n, c, Out("reviews_q4", Shard[g], ScoreMsg(c, Score(g, v))))
    BY <1>1 DEF Datum, Out, ScoreMsg, Score, IsEof, Carried, Data, JoinInputs, Senders, EndSenders, Writer, Gateways, FanIns, Reports
  <2>4. \A out \in TextFilter(t, m) : Continues(n, c, out)
    BY <2>1, <2>2, <2>3, ScoresContinue
  <2> QED BY <1>1, <1>2, <1>3, <2>4, StatelessRespects DEF IsEof
<1>4. CASE m.kind = "eof"
  <2>1. \A out \in TextFilter(t, m) : out = TextEofs(t, m)
    BY <1>4 DEF TextFilter
  <2>2. m.visited \union {t} = 0..t /\ Cardinality(0..t) = t + 1
    <3>1. m.visited \union {t} = 0..t
      BY <1>4
    <3>2. 0 \in Int /\ t \in Int /\ 0 <= t /\ t - 0 + 1 = t + 1
      OBVIOUS
    <3>3. Cardinality(0..t) = t - 0 + 1
      BY <3>2, FS_Interval
    <3> QED BY <3>1, <3>2, <3>3
  <2>3. CASE t + 1 < Texts
    <3> DEFINE eof == EofMsg(c, "review", 0..t)
    <3>1. TextEofs(t, m) = <<Out("text_reviews_q4", t + 1, eof)>>
      BY <2>2, <2>3 DEF TextEofs
    <3>2. Closing(n, c, Out("text_reviews_q4", t + 1, eof)) /\ IsEof(eof)
      BY <1>1, <2>3 DEF Closing, Out, EofMsg, IsEof, Carried, Data, JoinInputs, Senders, EndSenders, Writer, Gateways, FanIns, Reports
    <3>3. \A k \in AllQueues : n \in EndSenders(k) => k \in {<<"text_reviews_q4", t + 1>>}
      BY <2>3, AQueue DEF EndSenders, Reader, Width, Gateways, FanIns, Writer
    <3> HIDE DEF eof
    <3>4. Finishes(n, c, <<Out("text_reviews_q4", t + 1, eof)>>)
      BY <3>2, <3>3, EndToOne, EndsFinish
    <3> QED BY <1>1, <1>2, <1>4, <2>1, <3>1, <3>4, StatelessRespects DEF IsEof
  <2>4. CASE ~ t + 1 < Texts
    <3> DEFINE last == EofMsg(c, "review", {})
               T == {<<"reviews_q4", i>> : i \in 0..(Joiners - 1)}
    <3>1. TextEofs(t, m) = Everywhere("reviews_q4", Joiners, last)
      BY <2>2, <2>4 DEF TextEofs
    <3>2. IsEof(last) /\ \A i \in 0..(Joiners - 1) : Closing(n, c, Out("reviews_q4", i, last))
      <4>1. t = Texts - 1
        BY <2>4
      <4> QED BY <1>1, <4>1 DEF Closing, Out, EofMsg, IsEof, Carried, Data, Origin, JoinInputs, Senders, EndSenders, Writer, Gateways, FanIns, Reports
    <3>3. \A k \in AllQueues : n \in EndSenders(k) => k \in T
      BY <2>4, AQueue DEF EndSenders, Reader, Width, Gateways, FanIns, Writer
    <3> HIDE DEF last
    <3>4. EndsTo(n, c, Everywhere("reviews_q4", Joiners, last), T)
      <4>1. IsEof(last)
        BY <3>2
      <4>2. \A i \in 0..(Joiners - 1) : Closing(n, c, Out("reviews_q4", i, last))
        BY <3>2
      <4> HIDE DEF c
      <4>3. Joiners \in Nat
        OBVIOUS
      <4>4. EndsTo(n, c, Everywhere("reviews_q4", Joiners, last), {<<"reviews_q4", i>> : i \in 0..(Joiners - 1)})
        BY ONLY <4>1, <4>2, <4>3, EndToEach
      <4> QED BY <4>4
    <3> HIDE DEF T
    <3>5. Finishes(n, c, Everywhere("reviews_q4", Joiners, last))
      BY <3>3, <3>4, EndsFinish
    <3> QED BY <1>1, <1>2, <1>4, <2>1, <3>1, <3>5, StatelessRespects DEF IsEof
  <2> QED BY <2>3, <2>4
<1> QED BY <1>3, <1>4

(* The games of an aggregator or a joiner in pieces: each is a sequence.   *)
LEMMA PiecesAreSeqs ==
  ASSUME NEW s, IsSeq(s), NEW size \in Nat \ {0}
  PROVE  /\ IsSeq(Pieces(s, size))
         /\ \A i \in 1..Len(Pieces(s, size)) : IsSeq(Pieces(s, size)[i])
<1> DEFINE count == (Len(s) + size - 1) \div size
           EndOf(i) == IF i * size <= Len(s) THEN i * size ELSE Len(s)
           S == {s[i] : i \in 1..Len(s)}
           out == Pieces(s, size)
<1>1. Len(s) \in Nat /\ s \in [1..Len(s) -> S]
  BY DEF IsSeq
<1>2. s \in Seq(S)
  BY <1>1
<1>3. count \in Nat
  <2>1. Len(s) + size - 1 \in Nat
    BY <1>1
  <2> QED BY <2>1
<1>4. out = [i \in 1..count |-> SubSeq(s, (i - 1) * size + 1, EndOf(i))]
  BY DEF Pieces
<1> HIDE DEF out, S, count
<1>5. IsSeq(out) /\ Len(out) = count
  BY <1>3, <1>4, FunctionIsSeq
<1>6. ASSUME NEW i \in 1..count PROVE IsSeq(out[i])
  <2> DEFINE a == (i - 1) * size + 1
             b == EndOf(i)
  <2>1. i \in Int /\ i * size \in Int /\ (i - 1) * size \in Int
    BY <1>3
  <2>2. a \in Int /\ b \in Int
    BY <1>1, <2>1
  <2>3. out[i] = SubSeq(s, a, b)
    BY <1>4
  <2>4. a >= 1 /\ b <= Len(s)
    BY <1>1, <2>1, <1>3
  <2> HIDE DEF a, b
  <2>5. SubSeq(s, a, b) = [j \in 1..(b - a + 1) |-> s[a + j - 1]]
    BY <1>2, <2>2 DEF SubSeq
  <2>6. CASE b - a + 1 \in Nat
    BY <2>3, <2>5, <2>6, FunctionIsSeq
  <2>7. CASE b - a + 1 \notin Nat
    <3>1. 1..(b - a + 1) = 1..0
      BY <2>2, <2>7
    <3>2. out[i] = [j \in 1..0 |-> s[a + j - 1]]
      BY <2>3, <2>5, <3>1
    <3> QED BY <3>2, FunctionIsSeq
  <2> QED BY <2>6, <2>7
<1> QED BY <1>5, <1>6 DEF out

(* What a joiner keeps.                                                    *)
LEMMA JoinerSettles ==
  ASSUME NEW n, IsJoiner(n), NEW r, RecShape(n, r), NEW m, NEW r2,
         \/ IsEof(m) /\ r2 = AfterEof(r, m)
         \/ ~ IsEof(m) /\ \E g, e : r2 = Put(r, g, e)
  PROVE  Settles(n, r, m, r2)
<1>1. /\ New(n) = NewJoin /\ Keeps(n) /\ ~ IsFanIn(n)
      /\ n[1] \notin {"topn", "topn_agg", "counter_agg", "percentile_agg"}
  BY DEF IsJoiner, IsFanIn, New, Keeps, NewJoin
<1>2. r = [info |-> r.info, eofs |-> r.eofs] /\ IsFiniteSet(DOMAIN r.info)
  BY DEF RecShape
<1>3. CASE IsEof(m) /\ r2 = AfterEof(r, m) /\ Complete(r, m)
  <2>1. r2 = [info |-> << >>, eofs |-> {}]
    BY <1>3 DEF AfterEof, NewJoin
  <2>2. r2 = [info |-> r2.info, eofs |-> r2.eofs] /\ DOMAIN r2.info = {}
    BY <2>1
  <2>3. RecShape(n, r2)
    BY <1>1, <2>2, FS_EmptySet DEF RecShape
  <2> QED BY <1>1, <1>3, <2>1, <2>3 DEF Settles, Ending, NewJoin
<1>4. CASE IsEof(m) /\ r2 = AfterEof(r, m) /\ ~ Complete(r, m)
  <2>1. r2 = [r EXCEPT !.eofs = @ \union {m.origin}]
    BY <1>4 DEF AfterEof
  <2>2. r2 = [info |-> r.info, eofs |-> r.eofs \union {m.origin}]
    BY <1>2, <2>1
  <2>3. r2.eofs = r.eofs \union {m.origin} /\ r2.info = r.info
    BY <2>2
  <2>4. RecShape(n, r2)
    BY <1>1, <1>2, <2>2, <2>3 DEF RecShape
  <2> QED BY <1>1, <1>4, <2>3, <2>4 DEF Settles, Ending
<1>5. CASE ~ IsEof(m) /\ \E g, e : r2 = Put(r, g, e)
  <2>1. PICK g, e : r2 = Put(r, g, e)
    BY <1>5
  <2> DEFINE info == [h \in DOMAIN r.info \union {g} |-> IF h = g THEN e ELSE r.info[h]]
  <2>2. r2 = [info |-> info, eofs |-> r.eofs]
    BY <1>2, <2>1 DEF Put
  <2>3. IsFiniteSet(DOMAIN info)
    BY <1>2, FS_AddElement
  <2> HIDE DEF info
  <2>4. r2.eofs = r.eofs /\ r2.info = info
    BY <2>2
  <2>5. RecShape(n, r2)
    BY <1>1, <2>2, <2>3, <2>4 DEF RecShape
  <2> QED BY <1>1, <1>5, <2>4, <2>5 DEF Settles, Ending
<1> QED BY <1>3, <1>4, <1>5

(* A joiner's end of file. *)
LEMMA JoinerEnd ==
  ASSUME NEW n, IsJoiner(n), NEW c, NEW r, NEW m, m.kind = "eof",
         NEW last, \A data \in last : Continues(n, c, data),
         NEW p, Closing(n, c, p), \A k \in AllQueues : n \in EndSenders(k) => p.to = k /\ IsEof(p.msg),
         NEW out \in AtEof(r, m, last, p)
  PROVE  IF Ending(n, r, m) THEN Finishes(n, c, out) ELSE Continues(n, c, out)
<1>1. Ending(n, r, m) <=> Complete(r, m)
  BY DEF Ending, IsEof, IsJoiner, IsFanIn
<1>2. CASE Complete(r, m)
  <2>1. PICK data \in last : out = data \o <<p>>
    BY <1>2 DEF AtEof
  <2>2. Finishes(n, c, data \o <<p>>)
    BY <2>1, OneEnd
  <2> QED BY <1>1, <1>2, <2>1, <2>2
<1>3. CASE ~ Complete(r, m)
  <2>1. out = << >>
    BY <1>3 DEF AtEof
  <2> QED BY <1>1, <1>3, <2>1, ContinuesWithFew
<1> QED BY <1>2, <1>3

(* The top joiner.                                                         *)
LEMMA TopJoinerRespects ==
  ASSUME NEW j \in 0..(Joiners - 1), NEW n, n = <<"joiner_top", j>>, NEW r, RecShape(n, r),
         NEW m, m.client \in Clients, m.kind \in {"score", "name", "eof"}
  PROVE  Respects(n, r, m)
<1> DEFINE c == m.client
           totals == TopTotals(r, m)
           data == [i \in 1..Len(totals) |-> Out("joined_top", j, ScoresMsg(c, totals))]
           p == Out("joined_top", j, Eof(c))
<1>1. n[1] = "joiner_top" /\ n[2] = j /\ IsJoiner(n)
  BY DEF IsJoiner
<1>2. Process(n, r, m) = TopJoiner(j, r, m)
  BY <1>1 DEF Process
<1>3. ASSUME NEW o \in Process(n, r, m)
      PROVE  /\ o.rec = Joined(r, m)
             /\ m.kind = "eof" => o.out \in AtEof(r, m, { << >> }, p)
             /\ m.kind # "eof" => o.out = data
  <2> DEFINE outs == IF m.kind = "eof" THEN AtEof(r, m, { << >> }, p) ELSE { data }
  <2>1. Process(n, r, m) = { Outcome(Joined(r, m), out) : out \in outs }
    BY <1>2 DEF TopJoiner
  <2> HIDE DEF outs
  <2>2. o.rec = Joined(r, m) /\ o.out \in outs
    BY <1>3, <2>1 DEF Outcome
  <2> QED BY <2>2 DEF outs
<1>4. ASSUME NEW o \in Process(n, r, m) PROVE Settles(n, r, m, o.rec)
  BY <1>1, <1>3, <1>4, JoinerSettles DEF Joined, IsEof
<1>5. CASE m.kind = "eof"
  <2>1. Closing(n, c, p)
    BY <1>1 DEF Closing, Out, Eof, EofMsg, IsEof, Carried, Data, JoinInputs, Senders, EndSenders, Writer, Gateways, FanIns, Reports
  <2>2. \A k \in AllQueues : n \in EndSenders(k) => p.to = k /\ IsEof(p.msg)
    BY AQueue DEF EndSenders, Reader, Width, Gateways, FanIns, Writer, Out, IsEof, Eof, EofMsg
  <2> HIDE DEF p
  <2>3. \A d \in { << >> } : Continues(n, c, d)
    BY ContinuesWithFew
  <2>4. ASSUME NEW o \in Process(n, r, m)
        PROVE  IF Ending(n, r, m) THEN Finishes(n, c, o.out) ELSE Continues(n, c, o.out)
    BY <1>1, <1>3, <1>5, <2>1, <2>2, <2>3, JoinerEnd
  <2> QED BY <1>4, <2>4 DEF Respects
<1>6. CASE m.kind # "eof"
  <2>1. Datum(n, c, Out("joined_top", j, ScoresMsg(c, totals)))
    BY <1>1 DEF Datum, Out, ScoresMsg, IsEof, Carried, Data, JoinInputs, Senders, EndSenders, Writer, Gateways, FanIns, Reports
  <2>2. Len(totals) \in Nat
    <3>1. totals = << >> \/ \E x : totals = <<x>>
      BY DEF TopTotals
    <3> QED BY <3>1, FewPublications
  <2> HIDE DEF totals
  <2>3. IsSeq(data) /\ Len(data) = Len(totals)
    BY <2>2, FunctionIsSeq
  <2>4. Continues(n, c, data)
    BY <2>1, <2>3 DEF Continues
  <2> QED BY <1>3, <1>4, <1>6, <2>4 DEF Respects, Ending, IsEof
<1> QED BY <1>5, <1>6

(* The counter joiner.                                                     *)
LEMMA CounterJoinerRespects ==
  ASSUME NEW j \in 0..(Joiners - 1), NEW n, n = <<"joiner_counter", j>>, NEW r, RecShape(n, r),
         NEW m, m.client \in Clients, m.kind \in {"score", "name", "eof"}
  PROVE  Respects(n, r, m)
<1> DEFINE c == m.client
           p == Out("joined_counted", 0, Eof(c))
           game(g) == Out("joined_counted", 0, NameMsg(c, g))
<1>1. n[1] = "joiner_counter" /\ n[2] = j /\ IsJoiner(n)
  BY DEF IsJoiner
<1>2. Process(n, r, m) = { Outcome(CounterStep(r, m), out) : out \in CounterOut(r, m) }
  BY <1>1 DEF Process, CounterJoiner
<1>3. ASSUME NEW o \in Process(n, r, m) PROVE o.rec = CounterStep(r, m) /\ o.out \in CounterOut(r, m)
  BY <1>2, <1>3 DEF Outcome
<1>4. ASSUME NEW o \in Process(n, r, m) PROVE Settles(n, r, m, o.rec)
  BY <1>1, <1>3, <1>4, JoinerSettles DEF CounterStep, IsEof
<1>5. CASE m.kind = "eof"
  <2>1. Closing(n, c, p)
    BY <1>1 DEF Closing, Out, Eof, EofMsg, IsEof, Carried, Data, JoinInputs, Senders, EndSenders, Writer, Gateways, FanIns, Reports
  <2>2. \A k \in AllQueues : n \in EndSenders(k) => p.to = k /\ IsEof(p.msg)
    BY AQueue DEF EndSenders, Reader, Width, Gateways, FanIns, Writer, Out, IsEof, Eof, EofMsg
  <2>3. CounterOut(r, m) = AtEof(r, m, { << >> }, p)
    BY <1>5 DEF CounterOut
  <2> HIDE DEF p
  <2>4. \A d \in { << >> } : Continues(n, c, d)
    BY ContinuesWithFew
  <2>5. ASSUME NEW o \in Process(n, r, m)
        PROVE  IF Ending(n, r, m) THEN Finishes(n, c, o.out) ELSE Continues(n, c, o.out)
    <3>1. o.out \in AtEof(r, m, { << >> }, p)
      BY <1>3, <2>3, <2>5
    <3> QED BY <1>1, <1>5, <2>1, <2>2, <2>4, <3>1, JoinerEnd
  <2> QED BY <1>4, <2>5 DEF Respects
<1>6. CASE m.kind # "eof"
  <2>1. \A g : Datum(n, c, game(g))
    BY <1>1 DEF Datum, Out, NameMsg, IsEof, Carried, Data, JoinInputs, Senders, EndSenders, Writer, Gateways, FanIns, Reports
  <2>2. \A out \in CounterOut(r, m) : out = << >> \/ \E g : out = <<game(g)>>
    BY <1>6 DEF CounterOut
  <2> HIDE DEF game
  <2>3. ASSUME NEW out \in CounterOut(r, m) PROVE Continues(n, c, out)
    <3>1. CASE out = << >>
      BY <3>1, ContinuesWithFew
    <3>2. CASE \E g : out = <<game(g)>>
      <4>1. PICK g : out = <<game(g)>>
        BY <3>2
      <4> QED BY <2>1, <4>1, ContinuesWithFew
    <3> QED BY <2>2, <3>1, <3>2
  <2> QED BY <1>3, <1>4, <1>6, <2>3 DEF Respects, Ending, IsEof
<1> QED BY <1>5, <1>6

(* What the percentile joiner publishes of a client at its end. *)
LEMMA BatchesContinue ==
  ASSUME NEW n, NEW c, NEW r, IsFiniteSet(DOMAIN r.info),
         \A s : IsSeq(s) => Datum(n, c, Out("joined_percentile", 0, ScoresMsg(c, s))),
         NEW out \in Batches(c, r)
  PROVE  Continues(n, c, out)
<1> DEFINE Scored0(order) == [i \in 1..Len(order) |-> Score(order[i], r.info[order[i]].votes)]
           S == ToSend(r)
<1>1. IsFiniteSet(S)
  <2>1. S \in SUBSET (DOMAIN r.info)
    BY DEF ToSend
  <2> QED BY <2>1, FS_Subset
<1>2. PICK order \in SetToSeqs(S) :
        out = [i \in 1..Len(Pieces(Scored0(order), JoinBatch)) |->
                 Out("joined_percentile", 0, ScoresMsg(c, Pieces(Scored0(order), JoinBatch)[i]))]
  BY DEF Batches
<1> DEFINE pieces == Pieces(Scored0(order), JoinBatch)
<1>3. IsSeq(Scored0(order))
  <2>1. Len(order) \in Nat
    BY <1>1, OrderOf DEF IsSeq
  <2> QED BY <2>1, FunctionIsSeq
<1>4. IsSeq(pieces) /\ \A i \in 1..Len(pieces) : IsSeq(pieces[i])
  <2> HIDE DEF Scored0
  <2> QED BY <1>3, PiecesAreSeqs
<1> HIDE DEF pieces
<1>5. out = [i \in 1..Len(pieces) |-> Out("joined_percentile", 0, ScoresMsg(c, pieces[i]))]
  BY <1>2 DEF pieces
<1>6. IsSeq(out) /\ Len(out) = Len(pieces)
  <2>1. Len(pieces) \in Nat
    BY <1>4 DEF IsSeq
  <2> QED BY <1>5, <2>1, FunctionIsSeq
<1> QED BY <1>4, <1>5, <1>6 DEF Continues

(* The percentile joiner.                                                  *)
LEMMA PercentileJoinerRespects ==
  ASSUME NEW j \in 0..(Joiners - 1), NEW n, n = <<"joiner_percentile", j>>, NEW r, RecShape(n, r),
         NEW m, m.client \in Clients, m.kind \in {"score", "name", "eof"}
  PROVE  Respects(n, r, m)
<1> DEFINE c == m.client
           p == Out("joined_percentile", 0, Eof(c))
<1>1. n[1] = "joiner_percentile" /\ n[2] = j /\ IsJoiner(n)
  BY DEF IsJoiner
<1>2. Process(n, r, m) = PercentileJoiner(r, m)
  BY <1>1 DEF Process
<1>3. ASSUME NEW o \in Process(n, r, m)
      PROVE  /\ o.rec = Joined(r, m)
             /\ m.kind = "eof" => o.out \in AtEof(r, m, Batches(c, r), p)
             /\ m.kind # "eof" => o.out = << >>
  <2> DEFINE outs == IF m.kind = "eof" THEN AtEof(r, m, Batches(c, r), p) ELSE { << >> }
  <2>1. Process(n, r, m) = { Outcome(Joined(r, m), out) : out \in outs }
    BY <1>2 DEF PercentileJoiner
  <2> HIDE DEF outs
  <2>2. o.rec = Joined(r, m) /\ o.out \in outs
    BY <1>3, <2>1 DEF Outcome
  <2> QED BY <2>2 DEF outs
<1>4. ASSUME NEW o \in Process(n, r, m) PROVE Settles(n, r, m, o.rec)
  BY <1>1, <1>3, <1>4, JoinerSettles DEF Joined, IsEof
<1>5. CASE m.kind = "eof"
  <2>1. Closing(n, c, p)
    BY <1>1 DEF Closing, Out, Eof, EofMsg, IsEof, Carried, Data, JoinInputs, Senders, EndSenders, Writer, Gateways, FanIns, Reports
  <2>2. \A k \in AllQueues : n \in EndSenders(k) => p.to = k /\ IsEof(p.msg)
    BY AQueue DEF EndSenders, Reader, Width, Gateways, FanIns, Writer, Out, IsEof, Eof, EofMsg
  <2> HIDE DEF p
  <2>3. \A s : IsSeq(s) => Datum(n, c, Out("joined_percentile", 0, ScoresMsg(c, s)))
    BY <1>1 DEF Datum, Out, ScoresMsg, IsEof, Carried, Data, JoinInputs, Senders, EndSenders, Writer, Gateways, FanIns, Reports
  <2>4. \A d \in Batches(c, r) : Continues(n, c, d)
    BY <1>1, <2>3, BatchesContinue DEF RecShape
  <2>5. ASSUME NEW o \in Process(n, r, m)
        PROVE  IF Ending(n, r, m) THEN Finishes(n, c, o.out) ELSE Continues(n, c, o.out)
    BY <1>1, <1>3, <1>5, <2>1, <2>2, <2>4, JoinerEnd
  <2> QED BY <1>4, <2>5 DEF Respects
<1>6. CASE m.kind # "eof"
  BY <1>3, <1>4, <1>6, ContinuesWithFew DEF Respects, Ending, IsEof
<1> QED BY <1>5, <1>6

(* Sequences with the same elements are the same. *)
LEMMA SameSeq ==
  ASSUME NEW s, NEW t, IsSeq(s), IsSeq(t), Len(s) = Len(t), \A i \in 1..Len(s) : s[i] = t[i]
  PROVE  s = t
<1>1. s = [i \in 1..Len(s) |-> s[i]] /\ t = [i \in 1..Len(s) |-> t[i]]
  BY DEF IsSeq
<1>2. [i \in 1..Len(s) |-> s[i]] = [i \in 1..Len(s) |-> t[i]]
  OBVIOUS
<1> QED BY <1>1, <1>2

(* Two publications are one behind the other.                              *)
LEMMA TwoAreOneAndOne ==
  \A a, b : <<a, b>> = <<a>> \o <<b>> /\ <<b>> = << >> \o <<b>>
<1> SUFFICES ASSUME NEW a, NEW b PROVE <<a, b>> = <<a>> \o <<b>> /\ <<b>> = << >> \o <<b>>
  OBVIOUS
<1> DEFINE s == <<a>>
           t == <<b>>
           u == <<a, b>>
           e == << >>
<1>1. /\ IsSeq(s) /\ Len(s) = 1 /\ s[1] = a
      /\ IsSeq(t) /\ Len(t) = 1 /\ t[1] = b
      /\ IsSeq(u) /\ Len(u) = 2 /\ u[1] = a /\ u[2] = b
      /\ IsSeq(e) /\ Len(e) = 0
  BY FewPublications
<1> HIDE DEF s, t, u, e
<1>2. /\ IsSeq(s \o t) /\ Len(s \o t) = Len(s) + Len(t)
      /\ \A i \in 1..(Len(s) + Len(t)) : (s \o t)[i] = IF i <= Len(s) THEN s[i] ELSE t[i - Len(s)]
  <2>1. IsSeq(s) /\ IsSeq(t)
    BY <1>1
  <2> QED BY <2>1, Concatenated
<1>3. /\ IsSeq(e \o t) /\ Len(e \o t) = Len(e) + Len(t)
      /\ \A i \in 1..(Len(e) + Len(t)) : (e \o t)[i] = IF i <= Len(e) THEN e[i] ELSE t[i - Len(e)]
  <2>1. IsSeq(e) /\ IsSeq(t)
    BY <1>1
  <2> QED BY <2>1, Concatenated
<1>4. u = s \o t
  <2>1. Len(s \o t) = 2 /\ \A i \in 1..2 : (s \o t)[i] = u[i]
    BY <1>1, <1>2
  <2> QED BY <1>1, <1>2, <2>1, SameSeq
<1>5. t = e \o t
  <2>1. Len(e \o t) = 1 /\ \A i \in 1..1 : (e \o t)[i] = t[i]
    BY <1>1, <1>3
  <2> QED BY <1>1, <1>3, <2>1, SameSeq
<1> QED BY <1>4, <1>5 DEF s, t, u, e

(* The platform counter, the playtime and the top filter end like this:    *)
(* with a result and an end of file.                                       *)
LEMMA ResultThenEnd ==
  ASSUME NEW n, NEW c, NEW a, NEW b, Datum(n, c, a), Closing(n, c, b),
         \A k \in AllQueues : n \in EndSenders(k) => b.to = k /\ IsEof(b.msg)
  PROVE  Finishes(n, c, <<a, b>>) /\ Finishes(n, c, <<b>>)
<1>1. Continues(n, c, <<a>>) /\ Continues(n, c, << >>)
  BY ContinuesWithFew
<1>2. Finishes(n, c, <<a>> \o <<b>>) /\ Finishes(n, c, << >> \o <<b>>)
  BY <1>1, OneEnd
<1> QED BY <1>2, TwoAreOneAndOne

(* The aggregators end no queue but the reports. *)
LEMMA ReporterEndsNone ==
  ASSUME NEW n, n[1] \in Reporters
  PROVE  \A k \in AllQueues : n \notin EndSenders(k)
BY AQueue DEF Reporters, EndSenders, Reader, Width, Gateways, FanIns, Writer

(* A result, or the end of the results, closes.                            *)
LEMMA ReportCloses ==
  ASSUME NEW n, n[1] \in Reporters, NEW c, NEW m, m.client = c
  PROVE  Closing(n, c, Out("reports", 0, m))
BY DEF Closing, Out, Reports

(* And it may be the last of what is reported.                             *)
LEMMA ReportLast ==
  ASSUME NEW n, n[1] \in Reporters, NEW c, NEW data, NEW p, Continues(n, c, data), Closing(n, c, p)
  PROVE  Finishes(n, c, data \o <<p>>)
BY ReporterEndsNone, OneEnd

(* Or all of it.                                                           *)
LEMMA ReportOnly ==
  ASSUME NEW n, n[1] \in Reporters, NEW c, NEW p, Closing(n, c, p)
  PROVE  Finishes(n, c, <<p>>)
<1>1. Finishes(n, c, << >> \o <<p>>)
  BY ContinuesWithFew, ReportLast
<1> QED BY <1>1, TwoAreOneAndOne

(* Or nothing is reported at all.                                          *)
LEMMA ReportNothing ==
  ASSUME NEW n, n[1] \in Reporters, NEW c
  PROVE  Finishes(n, c, << >>)
<1>1. Continues(n, c, << >>) /\ Len(<< >>) = 0
  BY ContinuesWithFew, FewPublications
<1> QED BY <1>1, ReporterEndsNone DEF Finishes, Continues

(* The platform counter.                                                   *)
LEMMA PlatformCounterRespects ==
  ASSUME NEW n, n = <<"platform_counter", 0>>, NEW r, RecShape(n, r),
         NEW m, m.client \in Clients, m.kind \in {"platforms", "eof"}
  PROVE  Respects(n, r, m)
<1> DEFINE c == m.client
           a == Out("platform_counts", 0, PlatformMsg(c, r))
           b == Out("platform_counts", 0, Eof(c))
<1>1. n[1] = "platform_counter" /\ Keeps(n) /\ New(n) = NoCounts /\ ~ IsJoiner(n) /\ ~ IsFanIn(n)
  BY DEF Keeps, New, NoCounts, Platforms, IsJoiner, IsFanIn
<1>2. \A r2 : RecShape(n, r2)
  BY <1>1 DEF RecShape
<1>3. \A o \in Process(n, r, m) :
        /\ m.kind = "platforms" => o.out = << >>
        /\ m.kind = "eof" => o.rec = NoCounts /\ o.out = <<a, b>>
  BY <1>1 DEF Process, PlatformCounter, Outcome
<1>4. Datum(n, c, a)
  BY <1>1 DEF Datum, Out, PlatformMsg, IsEof, Carried, Data, JoinInputs, Senders, EndSenders, Writer, Gateways, FanIns, Reports
<1>5. Closing(n, c, b)
  BY <1>1 DEF Closing, Out, Eof, EofMsg, IsEof, Carried, Data, JoinInputs, Senders, EndSenders, Writer, Gateways, FanIns, Reports
<1>6. \A k \in AllQueues : n \in EndSenders(k) => b.to = k /\ IsEof(b.msg)
  BY AQueue DEF EndSenders, Reader, Width, Gateways, FanIns, Writer, Out, IsEof, Eof, EofMsg
<1> HIDE DEF a, b
<1>7. Finishes(n, c, <<a, b>>) /\ Continues(n, c, << >>)
  BY <1>4, <1>5, <1>6, ResultThenEnd, ContinuesWithFew
<1> QED BY <1>1, <1>2, <1>3, <1>7 DEF Respects, Settles, Ending, IsEof

(* The aggregator of its counts.                                           *)
LEMMA PlatformCounterAggRespects ==
  ASSUME NEW n, n = <<"platform_counter_agg", 0>>, NEW r, RecShape(n, r),
         NEW m, m.client \in Clients, m.kind \in {"platforms", "eof"}
  PROVE  Respects(n, r, m)
<1> DEFINE c == m.client
           a == PlatformMsg(c, r)
<1>1. n[1] = "platform_counter_agg" /\ n[1] \in Reporters /\ Keeps(n) /\ New(n) = NoCounts /\ ~ IsJoiner(n) /\ ~ IsFanIn(n)
  BY DEF Reporters, Keeps, New, NoCounts, Platforms, IsJoiner, IsFanIn
<1>2. \A r2 : RecShape(n, r2)
  BY <1>1 DEF RecShape
<1>3. \A o \in Process(n, r, m) :
        /\ m.kind = "platforms" => o.out = << >>
        /\ m.kind = "eof" => o.rec = NoCounts /\ o.out = <<Out("reports", 0, a)>>
  BY <1>1 DEF Process, PlatformCounter, Outcome
<1> DEFINE p == Out("reports", 0, a)
<1>4. Closing(n, c, p)
  BY <1>1, ReportCloses DEF PlatformMsg
<1> HIDE DEF p
<1>5. Finishes(n, c, <<p>>) /\ Continues(n, c, << >>)
  BY <1>1, <1>4, ReportOnly, ContinuesWithFew
<1> QED BY <1>1, <1>2, <1>3, <1>5 DEF Respects, Settles, Ending, IsEof, p

(* The playtime top.                                                       *)
LEMMA PlaytimeRespects ==
  ASSUME NEW n, n = <<"topn_playtime", 0>>, NEW r, RecShape(n, r),
         NEW m, m.client \in Clients, m.kind \in {"playtimes", "eof"}
  PROVE  Respects(n, r, m)
<1> DEFINE c == m.client
           a(top) == Out("topn_playtime_q2", 0, PlaytimesMsg(c, top))
           b == Out("topn_playtime_q2", 0, Eof(c))
<1>1. n[1] = "topn_playtime" /\ Keeps(n) /\ New(n) = NoHeap /\ ~ IsJoiner(n) /\ ~ IsFanIn(n)
  BY DEF Keeps, New, NoHeap, IsJoiner, IsFanIn
<1>2. \A r2 : RecShape(n, r2)
  BY <1>1 DEF RecShape
<1>3. Process(n, r, m) = TopNPlaytime(FALSE, r, m)
  BY <1>1 DEF Process
<1>4. ASSUME NEW o \in Process(n, r, m)
      PROVE  /\ m.kind = "playtimes" => o.out = << >>
             /\ m.kind = "eof" => o.rec = NoHeap /\ o.out \in PlaytimeFilterEof(r, c)
  BY <1>3, <1>4 DEF TopNPlaytime, Outcome
<1>5. ASSUME NEW out \in PlaytimeFilterEof(r, c)
      PROVE  out = << >> \o <<b>> \/ \E top : out = <<a(top)>> \o <<b>>
  BY <1>5 DEF PlaytimeFilterEof, PlaytimeOut
<1>6. \A top : Datum(n, c, a(top))
  BY <1>1 DEF Datum, Out, PlaytimesMsg, IsEof, Carried, Data, JoinInputs, Senders, EndSenders, Writer, Gateways, FanIns, Reports
<1>7. Closing(n, c, b)
  BY <1>1 DEF Closing, Out, Eof, EofMsg, IsEof, Carried, Data, JoinInputs, Senders, EndSenders, Writer, Gateways, FanIns, Reports
<1>8. \A k \in AllQueues : n \in EndSenders(k) => b.to = k /\ IsEof(b.msg)
  BY AQueue DEF EndSenders, Reader, Width, Gateways, FanIns, Writer, Out, IsEof, Eof, EofMsg
<1> HIDE DEF a, b
<1>9. ASSUME NEW out \in PlaytimeFilterEof(r, c) PROVE Finishes(n, c, out)
  <2>1. CASE out = << >> \o <<b>>
    BY <1>7, <1>8, <2>1, ContinuesWithFew, OneEnd
  <2>2. CASE \E top : out = <<a(top)>> \o <<b>>
    <3>1. PICK top : out = <<a(top)>> \o <<b>>
      BY <2>2
    <3>2. Continues(n, c, <<a(top)>>)
      BY <1>6, ContinuesWithFew
    <3> QED BY <1>7, <1>8, <3>1, <3>2, OneEnd
  <2> QED BY <1>5, <2>1, <2>2
<1>10. Continues(n, c, << >>)
  BY ContinuesWithFew
<1> QED BY <1>1, <1>2, <1>4, <1>9, <1>10 DEF Respects, Settles, Ending, IsEof

(* The aggregator of the playtime top.                                     *)
LEMMA PlaytimeAggRespects ==
  ASSUME NEW n, n = <<"topn_playtime_agg", 0>>, NEW r, RecShape(n, r),
         NEW m, m.client \in Clients, m.kind \in {"playtimes", "eof"}
  PROVE  Respects(n, r, m)
<1> DEFINE c == m.client
           a(top) == PlaytimesMsg(c, top)
<1>1. n[1] = "topn_playtime_agg" /\ n[1] \in Reporters /\ Keeps(n) /\ New(n) = NoHeap /\ ~ IsJoiner(n) /\ ~ IsFanIn(n)
  BY DEF Reporters, Keeps, New, NoHeap, IsJoiner, IsFanIn
<1>2. \A r2 : RecShape(n, r2)
  BY <1>1 DEF RecShape
<1>3. Process(n, r, m) = TopNPlaytime(TRUE, r, m)
  BY <1>1 DEF Process
<1>4. ASSUME NEW o \in Process(n, r, m)
      PROVE  /\ m.kind = "playtimes" => o.out = << >>
             /\ m.kind = "eof" => /\ o.rec = NoHeap
                                  /\ o.out = << >> \/ \E top : o.out = <<Out("reports", 0, a(top))>>
  BY <1>3, <1>4 DEF TopNPlaytime, PlaytimeOut, Outcome
<1> DEFINE p(top) == Out("reports", 0, a(top))
<1>5. \A top : Closing(n, c, p(top))
  BY <1>1, ReportCloses DEF PlaytimesMsg
<1> HIDE DEF p
<1>6. Continues(n, c, << >>) /\ Finishes(n, c, << >>) /\ \A top : Finishes(n, c, <<p(top)>>)
  BY <1>1, <1>5, ReportNothing, ReportOnly, ContinuesWithFew
<1> QED BY <1>1, <1>2, <1>4, <1>6 DEF Respects, Settles, Ending, IsEof, p

(* The tops of the votes.                                                  *)
LEMMA TopRespects ==
  ASSUME NEW j \in 0..(Joiners - 1), NEW n, n = <<"topn", j>>, NEW r, RecShape(n, r),
         NEW m, m.client \in Clients, m.kind \in {"scores", "eof"}
  PROVE  Respects(n, r, m)
<1> DEFINE c == m.client
           a == Out("top_queue", 0, ScoresMsg(c, TopScores(r.top)))
           b == Out("top_queue", 0, Eof(c))
<1>1. n[1] = "topn" /\ n[2] = j /\ Keeps(n) /\ New(n) = NoTop /\ ~ IsJoiner(n) /\ ~ IsFanIn(n)
  BY DEF Keeps, New, NoTop, IsJoiner, IsFanIn
<1>2. r = [top |-> r.top, recv |-> r.recv] /\ r.recv = 0
  BY <1>1 DEF RecShape
<1>3. r.recv + 1 >= 0
  BY <1>2
<1>4. Process(n, r, m) = TopVotes(FALSE, r, m)
  BY <1>1 DEF Process
<1>5. ASSUME NEW o \in Process(n, r, m)
      PROVE  /\ m.kind = "scores" => o.rec = [r EXCEPT !.top = UpdateTop(@, m.scores)] /\ o.out = << >>
             /\ m.kind = "eof" => o.rec = NoTop /\ o.out = <<a, b>>
  BY <1>3, <1>4, <1>5 DEF TopVotes, EofsIn, Outcome
<1>6. Datum(n, c, a)
  BY <1>1 DEF Datum, Out, ScoresMsg, IsEof, Carried, Data, JoinInputs, Senders, EndSenders, Writer, Gateways, FanIns, Reports
<1>7. Closing(n, c, b)
  BY <1>1 DEF Closing, Out, Eof, EofMsg, IsEof, Carried, Data, JoinInputs, Senders, EndSenders, Writer, Gateways, FanIns, Reports
<1>8. \A k \in AllQueues : n \in EndSenders(k) => b.to = k /\ IsEof(b.msg)
  BY AQueue DEF EndSenders, Reader, Width, Gateways, FanIns, Writer, Out, IsEof, Eof, EofMsg
<1> HIDE DEF a, b
<1>9. Finishes(n, c, <<a, b>>) /\ Continues(n, c, << >>)
  BY <1>6, <1>7, <1>8, ResultThenEnd, ContinuesWithFew
<1>10. RecShape(n, NoTop)
  BY <1>1 DEF RecShape, NoTop
<1>11. ASSUME NEW top PROVE RecShape(n, [r EXCEPT !.top = top])
  <2>1. [r EXCEPT !.top = top] = [top |-> top, recv |-> 0]
    BY <1>2
  <2> QED BY <1>1, <2>1 DEF RecShape
<1>12. ASSUME NEW o \in Process(n, r, m) PROVE Settles(n, r, m, o.rec)
  <2>1. CASE m.kind = "scores"
    <3>1. o.rec = [r EXCEPT !.top = UpdateTop(r.top, m.scores)]
      BY <1>5, <2>1
    <3>2. RecShape(n, o.rec)
      BY <1>11, <3>1
    <3> QED BY <1>1, <2>1, <3>2 DEF Settles, Ending, IsEof
  <2>2. CASE m.kind = "eof"
    BY <1>1, <1>5, <1>10, <2>2 DEF Settles
  <2> QED BY <2>1, <2>2
<1> QED BY <1>1, <1>5, <1>9, <1>12 DEF Respects, Ending, IsEof

(* The aggregator of the tops.                                             *)
LEMMA TopAggRespects ==
  ASSUME NEW n, n = <<"topn_agg", 0>>, NEW r, RecShape(n, r),
         NEW m, m.client \in Clients, m.kind \in {"scores", "eof"}
  PROVE  Respects(n, r, m)
<1> DEFINE c == m.client
           p == Out("reports", 0, ScoresMsg(c, TopScores(r.top)))
<1>1. n[1] = "topn_agg" /\ n[1] \in Reporters /\ Keeps(n) /\ New(n) = NoTop /\ ~ IsJoiner(n) /\ IsFanIn(n)
  BY DEF Reporters, Keeps, New, NoTop, IsJoiner, IsFanIn
<1>2. r = [top |-> r.top, recv |-> r.recv]
  BY <1>1 DEF RecShape
<1>3. Ending(n, r, m) <=> m.kind = "eof" /\ LastEof(r)
  BY <1>1 DEF Ending, LastEof, IsEof
<1>4. Process(n, r, m) = TopVotes(TRUE, r, m)
  BY <1>1 DEF Process
<1>5. ASSUME NEW o \in Process(n, r, m)
      PROVE  /\ m.kind = "scores" => o.rec = [r EXCEPT !.top = UpdateTop(@, m.scores)] /\ o.out = << >>
             /\ m.kind = "eof" /\ ~ LastEof(r) => o.rec = [r EXCEPT !.recv = @ + 1] /\ o.out = << >>
             /\ m.kind = "eof" /\ LastEof(r) => o.rec = NoTop /\ o.out = <<p>>
  BY <1>4, <1>5 DEF TopVotes, EofsIn, LastEof, Outcome
<1>6. Closing(n, c, p)
  BY <1>1, ReportCloses DEF ScoresMsg
<1> HIDE DEF p
<1>7. Finishes(n, c, <<p>>) /\ Continues(n, c, << >>)
  BY <1>1, <1>6, ReportOnly, ContinuesWithFew
<1>8. RecShape(n, NoTop)
  BY <1>1 DEF RecShape, NoTop
<1>9. ASSUME NEW top
      PROVE  RecShape(n, [r EXCEPT !.top = top]) /\ [r EXCEPT !.top = top].recv = r.recv
  <2>1. [r EXCEPT !.top = top] = [top |-> top, recv |-> r.recv]
    BY <1>2
  <2> QED BY <1>1, <2>1 DEF RecShape
<1>10. RecShape(n, [r EXCEPT !.recv = @ + 1]) /\ [r EXCEPT !.recv = @ + 1].recv = r.recv + 1
  <2>1. [r EXCEPT !.recv = @ + 1] = [top |-> r.top, recv |-> r.recv + 1]
    BY <1>2
  <2> QED BY <1>1, <2>1 DEF RecShape
<1> HIDE DEF c
<1>11. ASSUME NEW o \in Process(n, r, m) PROVE Settles(n, r, m, o.rec)
  <2>1. CASE m.kind = "scores"
    <3>1. o.rec = [r EXCEPT !.top = UpdateTop(r.top, m.scores)]
      BY <1>5, <2>1
    <3>2. RecShape(n, o.rec) /\ o.rec.recv = r.recv
      BY <1>9, <3>1
    <3> QED BY <1>1, <2>1, <3>2 DEF Settles, Ending, IsEof
  <2>2. CASE m.kind = "eof" /\ LastEof(r)
    BY <1>1, <1>3, <1>5, <1>8, <2>2 DEF Settles
  <2>3. CASE m.kind = "eof" /\ ~ LastEof(r)
    BY <1>1, <1>3, <1>5, <1>10, <2>3 DEF Settles, IsEof
  <2> QED BY <2>1, <2>2, <2>3
<1>12. ASSUME NEW o \in Process(n, r, m)
       PROVE  IF Ending(n, r, m) THEN Finishes(n, c, o.out) ELSE Continues(n, c, o.out)
  BY <1>3, <1>5, <1>7
<1> QED BY <1>11, <1>12 DEF Respects, c

(* The end of file of an aggregator of queries 4 and 5, replayed or not.   *)
LEMMA AggregatorSettles ==
  ASSUME NEW n, n[1] \in {"counter_agg", "percentile_agg"}, NEW r, RecShape(n, r),
         NEW m, IsEof(m)
  PROVE  Settles(n, r, m, AggEof(r)) /\ (Ending(n, r, m) <=> LastEof(r))
<1>1. Keeps(n) /\ New(n) = NewAgg /\ ~ IsJoiner(n) /\ IsFanIn(n) /\ n[1] \notin {"topn", "topn_agg"}
  BY DEF Keeps, New, NewAgg, IsJoiner, IsFanIn
<1>2. r = [games |-> r.games, recv |-> r.recv] /\ (n[1] = "percentile_agg" => IsSeq(r.games))
  BY DEF RecShape
<1>3. Ending(n, r, m) <=> LastEof(r)
  BY <1>1 DEF Ending, LastEof
<1>4. CASE LastEof(r)
  <2>1. AggEof(r) = [games |-> << >>, recv |-> 0]
    BY <1>4 DEF AggEof, NewAgg
  <2>2. RecShape(n, AggEof(r))
    BY <1>1, <2>1, FewPublications DEF RecShape
  <2> QED BY <1>1, <1>3, <1>4, <2>1, <2>2 DEF Settles, NewAgg
<1>5. CASE ~ LastEof(r)
  <2>1. AggEof(r) = [games |-> r.games, recv |-> r.recv + 1]
    BY <1>2, <1>5 DEF AggEof
  <2>2. RecShape(n, AggEof(r))
    BY <1>1, <1>2, <2>1 DEF RecShape
  <2> QED BY <1>1, <1>3, <1>5, <2>1, <2>2 DEF Settles
<1> QED BY <1>3, <1>4, <1>5

(* Their data. *)
LEMMA AggregatorSaves ==
  ASSUME NEW n, n[1] \in {"counter_agg", "percentile_agg"}, NEW r, RecShape(n, r),
         NEW m, ~ IsEof(m), NEW games, n[1] = "percentile_agg" => IsSeq(games)
  PROVE  Settles(n, r, m, [r EXCEPT !.games = games])
<1>1. Keeps(n) /\ New(n) = NewAgg /\ ~ IsJoiner(n) /\ IsFanIn(n) /\ n[1] \notin {"topn", "topn_agg"}
  BY DEF Keeps, New, NewAgg, IsJoiner, IsFanIn
<1>2. r = [games |-> r.games, recv |-> r.recv]
  BY DEF RecShape
<1>3. [r EXCEPT !.games = games] = [games |-> games, recv |-> r.recv]
  BY <1>2
<1>4. RecShape(n, [r EXCEPT !.games = games])
  BY <1>1, <1>3 DEF RecShape
<1> QED BY <1>1, <1>3, <1>4 DEF Settles, Ending

(* The counter aggregator, and what it keeps of a message it replays.      *)
LEMMA CounterAggRespects ==
  ASSUME NEW n, n = <<"counter_agg", 0>>, NEW r, RecShape(n, r),
         NEW m, m.client \in Clients, m.kind \in {"name", "eof"}
  PROVE  Respects(n, r, m) /\ Settles(n, r, m, CounterAggReplay(r, m))
<1> DEFINE c == m.client
           saved == SaveName(r, m)
<1>1. n[1] = "counter_agg" /\ n[1] \in {"counter_agg", "percentile_agg"}
  OBVIOUS
<1>2. Process(n, r, m) = CounterAgg(r, m)
  BY <1>1 DEF Process
<1>3. r = [games |-> r.games, recv |-> r.recv]
  BY <1>1 DEF RecShape
<1>4. ASSUME NEW s PROVE Continues(n, c, CounterAggOut(s, c))
  <2> DEFINE p == Report(NamesMsg(c, s.games))
  <2>1. Datum(n, c, p)
    BY <1>1 DEF Datum, Report, Out, NamesMsg, IsEof, Reports
  <2>2. CounterAggOut(s, c) \in {<< >>, <<p>>}
    BY DEF CounterAggOut
  <2> HIDE DEF p
  <2> QED BY <2>1, <2>2, ContinuesWithFew
<1>5. CASE m.kind = "eof"
  <2>1. IsEof(m)
    BY <1>5 DEF IsEof
  <2>2. Settles(n, r, m, AggEof(r)) /\ (Ending(n, r, m) <=> LastEof(r))
    BY <1>1, <2>1, AggregatorSettles
  <2>3. Finishes(n, c, CounterAggOut(r, c) \o <<ReportEof(c)>>)
    <3>1. Closing(n, c, ReportEof(c))
      BY <1>1, ReportCloses DEF Reporters, ReportEof, Report, Eof, EofMsg
    <3> QED BY <1>1, <1>4, <3>1, ReportLast DEF Reporters
  <2>4. \A o \in Process(n, r, m) :
          /\ o.rec = AggEof(r)
          /\ LastEof(r) => o.out = CounterAggOut(r, c) \o <<ReportEof(c)>>
          /\ ~ LastEof(r) => o.out = << >>
    BY <1>2, <1>5 DEF CounterAgg, Outcome
  <2>5. CounterAggReplay(r, m) = AggEof(r)
    BY <1>5 DEF CounterAggReplay
  <2> QED BY <2>2, <2>3, <2>4, <2>5, ContinuesWithFew DEF Respects
<1>6. CASE m.kind = "name"
  <2>1. ~ IsEof(m) /\ ~ Ending(n, r, m)
    BY <1>6 DEF IsEof, Ending
  <2>2. saved = [r EXCEPT !.games = Append(@, m.game)] /\ [saved EXCEPT !.games = << >>] = [r EXCEPT !.games = << >>]
    BY <1>3 DEF SaveName
  <2>3. saved = [r EXCEPT !.games = Append(r.games, m.game)]
    BY <1>3, <2>2
  <2>4. Settles(n, r, m, saved) /\ Settles(n, r, m, [saved EXCEPT !.games = << >>])
    <3>1. \A games : Settles(n, r, m, [r EXCEPT !.games = games])
      BY <1>1, <2>1, AggregatorSaves
    <3> QED BY <2>2, <2>3, <3>1
  <2>5. \A o \in Process(n, r, m) :
          /\ o.rec \in {saved, [saved EXCEPT !.games = << >>]}
          /\ o.out \in {<< >>, CounterAggOut(saved, c)}
    BY <1>2, <1>6 DEF CounterAgg, Outcome
  <2>6. CounterAggReplay(r, m) = saved
    BY <1>6 DEF CounterAggReplay
  <2> HIDE DEF saved
  <2> QED BY <1>4, <2>1, <2>4, <2>5, <2>6, ContinuesWithFew DEF Respects
<1> QED BY <1>5, <1>6

(* The percentile aggregator.                                              *)
LEMMA PercentileAggRespects ==
  ASSUME NEW n, n = <<"percentile_agg", 0>>, NEW r, RecShape(n, r),
         NEW m, m.client \in Clients, m.kind \in {"scores", "eof"}, m.kind = "scores" => IsSeq(m.scores)
  PROVE  Respects(n, r, m)
<1> DEFINE c == m.client
<1>1. n[1] = "percentile_agg" /\ n[1] \in {"counter_agg", "percentile_agg"}
  OBVIOUS
<1>2. Process(n, r, m) = PercentileAgg(r, m)
  BY <1>1 DEF Process
<1>3. r = [games |-> r.games, recv |-> r.recv] /\ IsSeq(r.games)
  BY <1>1 DEF RecShape
<1>4. Continues(n, c, PercentileOut(r, c))
  <2>1. CASE r.games = << >>
    BY <2>1, ContinuesWithFew DEF PercentileOut
  <2>2. CASE r.games # << >>
    <3> DEFINE above == InPercentile(r.games)
               batches == Pieces(above, PercentBatch)
               out == PercentileOut(r, c)
    <3>1. out = [i \in 1..Len(batches) |-> Report(ScoresMsg(c, batches[i]))]
      BY <2>2 DEF PercentileOut
    <3>2. IsSeq(above)
      <4> DEFINE idx == PercentileIdx(Len(r.games))
                 f(i) == SortSeq(r.games, Ascending)[idx + i]
      <4>1. above = [i \in 1..(Len(r.games) - idx) |-> f(i)]
        BY DEF InPercentile
      <4>2. Len(r.games) \in Nat \ {0}
        <5>1. Len(r.games) # 0
          BY <1>3, <2>2, FewPublications, SameSeq
        <5> QED BY <1>3, <5>1 DEF IsSeq
      <4>3. Len(r.games) - idx \in Nat
        <5>1. \A l \in Nat \ {0} : PercentileIdx(l) \in Int /\ PercentileIdx(l) <= l - 1
          BY DEF PercentileIdx
        <5> QED BY <4>2, <5>1
      <4> HIDE DEF idx, f, above
      <4> QED BY <4>1, <4>3, FunctionIsSeq
    <3> HIDE DEF above
    <3>3. IsSeq(batches)
      BY <3>2, PiecesAreSeqs
    <3> HIDE DEF batches, out
    <3>4. IsSeq(out) /\ Len(out) = Len(batches)
      <4>1. Len(batches) \in Nat
        BY <3>3 DEF IsSeq
      <4> QED BY <3>1, <4>1, FunctionIsSeq
    <3>5. \A s : Datum(n, c, Report(ScoresMsg(c, s)))
      BY <1>1 DEF Datum, Report, Out, ScoresMsg, IsEof, Reports
    <3>6. Continues(n, c, out)
      BY <3>1, <3>4, <3>5 DEF Continues
    <3> QED BY <3>6 DEF out
  <2> QED BY <2>1, <2>2
<1>5. CASE m.kind = "eof"
  <2>1. IsEof(m)
    BY <1>5 DEF IsEof
  <2>2. Settles(n, r, m, AggEof(r)) /\ (Ending(n, r, m) <=> LastEof(r))
    BY <1>1, <2>1, AggregatorSettles
  <2>3. Finishes(n, c, PercentileOut(r, c) \o <<ReportEof(c)>>)
    <3>1. Closing(n, c, ReportEof(c))
      BY <1>1, ReportCloses DEF Reporters, ReportEof, Report, Eof, EofMsg
    <3> QED BY <1>1, <1>4, <3>1, ReportLast DEF Reporters
  <2>4. \A o \in Process(n, r, m) :
          /\ o.rec = AggEof(r)
          /\ LastEof(r) => o.out = PercentileOut(r, c) \o <<ReportEof(c)>>
          /\ ~ LastEof(r) => o.out = << >>
    BY <1>2, <1>5 DEF PercentileAgg, Outcome
  <2> QED BY <2>2, <2>3, <2>4, ContinuesWithFew DEF Respects
<1>6. CASE m.kind = "scores"
  <2>1. ~ IsEof(m) /\ ~ Ending(n, r, m)
    BY <1>6 DEF IsEof, Ending
  <2>2. SaveScores(r, m) = [r EXCEPT !.games = r.games \o m.scores]
    BY <1>3 DEF SaveScores
  <2>3. IsSeq(r.games \o m.scores)
    BY <1>3, <1>6, Concatenated
  <2>4. Settles(n, r, m, SaveScores(r, m))
    <3>1. \A games : IsSeq(games) => Settles(n, r, m, [r EXCEPT !.games = games])
      BY <1>1, <2>1, AggregatorSaves
    <3> QED BY <2>2, <2>3, <3>1
  <2>5. \A o \in Process(n, r, m) : o.rec = SaveScores(r, m) /\ o.out = << >>
    BY <1>2, <1>6 DEF PercentileAgg, Outcome
  <2> QED BY <2>1, <2>4, <2>5, ContinuesWithFew DEF Respects
<1> QED BY <1>5, <1>6

(* Every Node.Process respects its part (Respects), for the messages of    *)
(* the queues it reads: data makes data, and an end of file is passed on,  *)
(* behind what is left to publish, exactly when it is the last one the     *)
(* node waits for (processEof of joiners and aggregators,                  *)
(* HandleEofMessage of the text filters); the client is then forgotten.    *)
THEOREM NodesRespect ==
  ASSUME NEW k \in AllQueues, NEW m, Carried(k, m), NEW n, n = NodeOf(k), NEW r, RecShape(n, r)
  PROVE  /\ Respects(n, r, m)
         /\ n[1] = "counter_agg" => Settles(n, r, m, CounterAggReplay(r, m))
<1>1. k = <<k[1], k[2]>> /\ k[1] \in DOMAIN Reader /\ k[2] \in 0..(Width(k[1]) - 1)
  BY AQueue
<1>2. n = <<Reader[k[1]], k[2]>> /\ n[1] = Reader[k[1]]
  BY DEF NodeOf
<1>3. m.client \in Clients /\ m.kind \in {Data[k[1]], "eof"}
  BY DEF Carried
<1>4. CASE k[1] = "games_platform"
  <2>1. n[1] = "platform" /\ k[2] = 0 /\ n = <<"platform", 0>> /\ m.kind \in {"games", "eof"}
    BY <1>1, <1>2, <1>3, <1>4 DEF Reader, Width, Data
  <2> QED BY <1>3, <2>1, PlatformRespects
<1>5. CASE k[1] = "platforms"
  <2>1. n[1] = "platform_counter" /\ k[2] = 0 /\ n = <<"platform_counter", 0>> /\ m.kind \in {"platforms", "eof"}
    BY <1>1, <1>2, <1>3, <1>5 DEF Reader, Width, Data
  <2> QED BY <1>3, <2>1, PlatformCounterRespects
<1>6. CASE k[1] = "platform_counts"
  <2>1. n[1] = "platform_counter_agg" /\ k[2] = 0 /\ n = <<"platform_counter_agg", 0>> /\ m.kind \in {"platforms", "eof"}
    BY <1>1, <1>2, <1>3, <1>6 DEF Reader, Width, Data
  <2> QED BY <1>3, <2>1, PlatformCounterAggRespects
<1>7. CASE k[1] = "games_indie"
  <2>1. n[1] = "indie" /\ k[2] = 0 /\ n = <<"indie", 0>> /\ m.kind \in {"games", "eof"}
    BY <1>1, <1>2, <1>3, <1>7 DEF Reader, Width, Data
  <2>2. (m.kind = "games" => GamesBatch(m))
    BY <1>7 DEF Carried, IsEof
  <2> QED BY <1>3, <2>1, <2>2, IndieRespects
<1>8. CASE k[1] = "indie_q2"
  <2>1. n[1] = "release_date" /\ k[2] = 0 /\ n = <<"release_date", 0>> /\ m.kind \in {"releases", "eof"}
    BY <1>1, <1>2, <1>3, <1>8 DEF Reader, Width, Data
  <2> QED BY <1>3, <2>1, ReleaseDateRespects
<1>9. CASE k[1] = "release_date"
  <2>1. n[1] = "topn_playtime" /\ k[2] = 0 /\ n = <<"topn_playtime", 0>> /\ m.kind \in {"playtimes", "eof"}
    BY <1>1, <1>2, <1>3, <1>9 DEF Reader, Width, Data
  <2> QED BY <1>3, <2>1, PlaytimeRespects
<1>10. CASE k[1] = "topn_playtime_q2"
  <2>1. n[1] = "topn_playtime_agg" /\ k[2] = 0 /\ n = <<"topn_playtime_agg", 0>> /\ m.kind \in {"playtimes", "eof"}
    BY <1>1, <1>2, <1>3, <1>10 DEF Reader, Width, Data
  <2> QED BY <1>3, <2>1, PlaytimeAggRespects
<1>11. CASE k[1] = "reviews"
  <2>1. n[1] = "review" /\ k[2] = 0 /\ n = <<"review", 0>> /\ m.kind \in {"reviews", "eof"}
    BY <1>1, <1>2, <1>3, <1>11 DEF Reader, Width, Data
  <2>2. (m.kind = "reviews" => m.reviews \in Seq(Review))
    BY <1>11 DEF Carried, IsEof
  <2> QED BY <1>3, <2>1, <2>2, ReviewRespects
<1>12. CASE k[1] \in {"reviews_q3", "indie_q3"}
  <2>1. n[1] = "joiner_top" /\ k[2] \in 0..(Joiners - 1) /\ n = <<"joiner_top", k[2]>> /\ m.kind \in {"score", "name", "eof"}
    BY <1>1, <1>2, <1>3, <1>12 DEF Reader, Width, Data
  <2> QED BY <1>3, <2>1, TopJoinerRespects
<1>13. CASE k[1] = "joined_top"
  <2>1. n[1] = "topn" /\ k[2] \in 0..(Joiners - 1) /\ n = <<"topn", k[2]>> /\ m.kind \in {"scores", "eof"}
    BY <1>1, <1>2, <1>3, <1>13 DEF Reader, Width, Data
  <2> QED BY <1>3, <2>1, TopRespects
<1>14. CASE k[1] = "top_queue"
  <2>1. n[1] = "topn_agg" /\ k[2] = 0 /\ n = <<"topn_agg", 0>> /\ m.kind \in {"scores", "eof"}
    BY <1>1, <1>2, <1>3, <1>14 DEF Reader, Width, Data
  <2> QED BY <1>3, <2>1, TopAggRespects
<1>15. CASE k[1] = "games_action"
  <2>1. n[1] = "action" /\ k[2] = 0 /\ n = <<"action", 0>> /\ m.kind \in {"games", "eof"}
    BY <1>1, <1>2, <1>3, <1>15 DEF Reader, Width, Data
  <2>2. (m.kind = "games" => GamesBatch(m))
    BY <1>15 DEF Carried, IsEof
  <2> QED BY <1>3, <2>1, <2>2, ActionRespects
<1>16. CASE k[1] = "text_reviews_q4"
  <2>1. n[1] = "text" /\ k[2] \in 0..(Texts - 1) /\ n = <<"text", k[2]>> /\ m.kind \in {"text", "eof"}
    BY <1>1, <1>2, <1>3, <1>16 DEF Reader, Width, Data
  <2>2. (m.kind = "text" => m.reviews \in Seq(Review)) /\ (m.kind = "eof" => m.visited = 0..(k[2] - 1))
    BY <1>16 DEF Carried, IsEof
  <2> QED BY <1>3, <2>1, <2>2, TextRespects
<1>17. CASE k[1] \in {"reviews_q4", "action_q4"}
  <2>1. n[1] = "joiner_counter" /\ k[2] \in 0..(Joiners - 1) /\ n = <<"joiner_counter", k[2]>> /\ m.kind \in {"score", "name", "eof"}
    BY <1>1, <1>2, <1>3, <1>17 DEF Reader, Width, Data
  <2> QED BY <1>3, <2>1, CounterJoinerRespects
<1>18. CASE k[1] = "joined_counted"
  <2>1. n[1] = "counter_agg" /\ k[2] = 0 /\ n = <<"counter_agg", 0>> /\ m.kind \in {"name", "eof"}
    BY <1>1, <1>2, <1>3, <1>18 DEF Reader, Width, Data
  <2> QED BY <1>3, <2>1, CounterAggRespects
<1>19. CASE k[1] \in {"reviews_q5", "action_q5"}
  <2>1. n[1] = "joiner_percentile" /\ k[2] \in 0..(Joiners - 1) /\ n = <<"joiner_percentile", k[2]>> /\ m.kind \in {"score", "name", "eof"}
    BY <1>1, <1>2, <1>3, <1>19 DEF Reader, Width, Data
  <2> QED BY <1>3, <2>1, PercentileJoinerRespects
<1>20. CASE k[1] = "joined_percentile"
  <2>1. n[1] = "percentile_agg" /\ k[2] = 0 /\ n = <<"percentile_agg", 0>> /\ m.kind \in {"scores", "eof"}
    BY <1>1, <1>2, <1>3, <1>20 DEF Reader, Width, Data
  <2>2. (m.kind = "scores" => IsSeq(m.scores))
    BY <1>20 DEF Carried, IsEof
  <2> QED BY <1>3, <2>1, <2>2, PercentileAggRespects
<1> QED BY <1>1, <1>4, <1>5, <1>6, <1>7, <1>8, <1>9, <1>10, <1>11, <1>12, <1>13, <1>14, <1>15, <1>16, <1>17, <1>18, <1>19, <1>20 DEF Reader

(* What node n may put in a queue for client c, and in the reports.        *)
Arrives(n, c, k, P) ==
  /\ IsSeq(P)
  /\ \A i \in 1..Len(P) :
       /\ P[i].client = c /\ Carried(k, P[i]) /\ n \in Senders(k)
       /\ IsEof(P[i]) => i = Len(P) /\ n \in EndSenders(k)

Answers(n, c, P) ==
  /\ IsSeq(P)
  /\ \A i \in 1..Len(P) : P[i].client = c /\ n[1] \in Reporters

(* What ends a queue is one of those that publish to it.                   *)
LEMMA EndSendersSend == \A k : EndSenders(k) \subseteq Senders(k)
BY DEF Senders, EndSenders, FanIns, Gateways

(* A queue gets data from its senders, and an end behind it with the last  *)
(* end of file the node waits for.                                         *)
LEMMA Arrival ==
  ASSUME NEW k \in AllQueues, NEW n, NEW r, NEW m, NEW out,
         IF Ending(n, r, m) THEN Finishes(n, m.client, out) ELSE Continues(n, m.client, out)
  PROVE  LET P == Published(out, k)
         IN  /\ Arrives(n, m.client, k, P)
             /\ ~ Ending(n, r, m) => \A i \in 1..Len(P) : ~ IsEof(P[i])
             /\ Ending(n, r, m) /\ n \in EndSenders(k) =>
                  Len(P) \in 1..Len(P) /\ IsEof(P[Len(P)])
<1> DEFINE P == Published(out, k)
           I == {i \in 1..Len(out) : out[i].to = k}
           c == m.client
<1>1. k # Reports
  BY AQueue DEF Reports, Reader
<1>2. IsSeq(out)
  BY DEF Finishes, Continues
<1>3. /\ IsSeq(P)
      /\ \A x \in 1..Len(P) : \E i \in I :
           P[x] = out[i].msg /\ (x < Len(P) => \E j \in I : i < j)
      /\ \A i \in I : (\A j \in I : j <= i) => Len(P) \in 1..Len(P) /\ P[Len(P)] = out[i].msg
  BY <1>2, PublishedInOrder
<1> HIDE DEF P
<1>4. Len(P) \in Nat /\ Len(out) \in Nat
  BY <1>2, <1>3 DEF IsSeq
<1>5. \A i \in I : \/ /\ out[i].msg.client = c /\ ~ IsEof(out[i].msg)
                      /\ Carried(k, out[i].msg) /\ n \in Senders(k)
                   \/ /\ out[i].msg.client = c /\ Carried(k, out[i].msg) /\ n \in EndSenders(k)
                      /\ Ending(n, r, m) /\ IsEof(out[i].msg) /\ \A j \in I : j <= i
  <2>1. CASE Ending(n, r, m)
    BY <1>1, <2>1 DEF Finishes, Datum, Closing
  <2>2. CASE ~ Ending(n, r, m)
    BY <1>1, <2>2 DEF Continues, Datum
  <2> QED BY <2>1, <2>2
<1>6. ASSUME NEW x \in 1..Len(P)
      PROVE  /\ P[x].client = c /\ Carried(k, P[x]) /\ n \in Senders(k)
             /\ IsEof(P[x]) => x = Len(P) /\ n \in EndSenders(k) /\ Ending(n, r, m)
  <2>1. PICK i \in I : P[x] = out[i].msg /\ (x < Len(P) => \E j \in I : i < j)
    BY <1>3
  <2>2. x < Len(P) => ~ \A j \in I : j <= i
    BY <2>1
  <2>3. x < Len(P) \/ x = Len(P)
    BY <1>4
  <2> HIDE DEF I
  <2> QED BY <1>5, <2>1, <2>2, <2>3, EndSendersSend
<1>7. ASSUME Ending(n, r, m), n \in EndSenders(k) PROVE Len(P) \in 1..Len(P) /\ IsEof(P[Len(P)])
  <2>1. PICK i \in I : IsEof(out[i].msg)
    BY <1>7 DEF Finishes
  <2>2. \A j \in I : j <= i
    BY <1>5, <2>1
  <2> HIDE DEF I
  <2> QED BY <1>3, <2>1, <2>2
<1>8. Arrives(n, c, k, P)
  BY <1>3, <1>6 DEF Arrives
<1> QED BY <1>6, <1>7, <1>8 DEF P

(* An end, or the result, is the last of what a node reports.              *)
LEMMA Answer ==
  ASSUME NEW n, NEW r, NEW m, NEW out,
         IF Ending(n, r, m) THEN Finishes(n, m.client, out) ELSE Continues(n, m.client, out)
  PROVE  LET P == Published(out, Reports)
         IN  /\ Answers(n, m.client, P)
             /\ \A i \in 1..Len(P) :
                  \/ ~ IsEof(P[i]) /\ n[1] \in {"counter_agg", "percentile_agg"}
                  \/ i = Len(P) /\ Ending(n, r, m)
<1> DEFINE P == Published(out, Reports)
           I == {i \in 1..Len(out) : out[i].to = Reports}
           c == m.client
<1>1. IsSeq(out)
  BY DEF Finishes, Continues
<1>2. /\ IsSeq(P)
      /\ \A x \in 1..Len(P) : \E i \in I :
           P[x] = out[i].msg /\ (x < Len(P) => \E j \in I : i < j)
  BY <1>1, PublishedInOrder
<1> HIDE DEF P
<1>3. Len(P) \in Nat /\ Len(out) \in Nat
  BY <1>1, <1>2 DEF IsSeq
<1>4. \A i \in I : /\ out[i].msg.client = c /\ n[1] \in Reporters
                   /\ \/ ~ IsEof(out[i].msg) /\ n[1] \in {"counter_agg", "percentile_agg"}
                      \/ Ending(n, r, m) /\ \A j \in I : j <= i
  <2>1. CASE Ending(n, r, m)
    BY <2>1 DEF Finishes, Datum, Closing, Reporters
  <2>2. CASE ~ Ending(n, r, m)
    BY <2>2 DEF Continues, Datum, Reporters
  <2> QED BY <2>1, <2>2
<1>5. ASSUME NEW x \in 1..Len(P)
      PROVE  /\ P[x].client = c /\ n[1] \in Reporters
             /\ \/ ~ IsEof(P[x]) /\ n[1] \in {"counter_agg", "percentile_agg"}
                \/ x = Len(P) /\ Ending(n, r, m)
  <2>1. PICK i \in I : P[x] = out[i].msg /\ (x < Len(P) => \E j \in I : i < j)
    BY <1>2
  <2>2. x < Len(P) => ~ \A j \in I : j <= i
    BY <2>1
  <2>3. x < Len(P) \/ x = Len(P)
    BY <1>3
  <2> HIDE DEF I
  <2> QED BY <1>4, <2>1, <2>2, <2>3
<1>6. Answers(n, c, P)
  BY <1>2, <1>5 DEF Answers
<1> QED BY <1>5, <1>6 DEF P

-----------------------------------------------------------------------------
USE TopNAssumption

(* A set of numbers that is not empty has a least one.                     *)
LEMMA LeastNatural ==
  ASSUME NEW S \in SUBSET Nat, S # {}
  PROVE  \E m \in S : \A n \in S : m <= n
<1>1. PICK m \in S : \A n \in S : <<n, m>> \notin OpToRel(<, Nat)
  BY WFMin, NatLessThanWellFounded
<1>2. ASSUME NEW n \in S PROVE m <= n
  <2>1. <<n, m>> \in Nat \X Nat /\ <<n, m>>[1] = n /\ <<n, m>>[2] = m
    OBVIOUS
  <2>2. ~ n < m
    BY <1>1, <2>1 DEF OpToRel
  <2> QED BY <2>2
<1> QED BY <1>1, <1>2

(* A heap that is not empty has one lowest game: of the lowest votes, the  *)
(* lowest id.                                                              *)
LEMMA LowestIsLowest ==
  ASSUME NEW D \in SUBSET Nat, D # {}, NEW top \in [D -> Nat]
  PROVE  /\ Lowest(top) \in D
         /\ \A h \in D : top[Lowest(top)] <= top[h]
<1> DEFINE Values == {top[h] : h \in D}
<1>1. PICK v \in Values : \A w \in Values : v <= w
  <2>1. Values \in SUBSET Nat /\ Values # {}
    OBVIOUS
  <2> QED BY <2>1, LeastNatural
<1> DEFINE Least == {h \in D : top[h] = v}
<1>2. PICK g \in Least : \A h \in Least : g <= h
  <2>1. Least \in SUBSET Nat /\ Least # {}
    BY <1>1
  <2> QED BY <2>1, LeastNatural
<1>3. g \in DOMAIN top /\ \A h \in DOMAIN top \ {g} : Less(top, g, h)
  BY <1>1, <1>2 DEF Less
<1>4. Lowest(top) \in DOMAIN top /\ \A h \in DOMAIN top \ {Lowest(top)} : Less(top, Lowest(top), h)
  BY <1>3 DEF Lowest
<1>5. top[Lowest(top)] \in Nat /\ \A h \in D : top[h] \in Nat
  BY <1>4
<1> QED BY <1>4, <1>5 DEF Less

(* topN.updateTop keeps a top of the running totals a top of them, with    *)
(* the new total of one game: totals only grow, so what was evicted or did *)
(* not get in need not be remembered.                                      *)
THEOREM UpdateKeepsTop ==
  ASSUME NEW D \in SUBSET Nat, NEW total \in [D -> Nat],
         NEW T \in SUBSET D, IsFiniteSet(T), NEW top \in [T -> Nat], IsTop(top, total),
         NEW g \in Nat, NEW v \in Nat, g \in D => v >= total[g]
  PROVE  IsTop(Update(top, g, v), Set(total, g, v))
<1> DEFINE total2 == Set(total, g, v)
           low == Lowest(top)
<1>1. DOMAIN total2 = D \union {g} /\ DOMAIN top = T /\ DOMAIN total = D
  BY DEF Set
<1>2. /\ \A h \in D : h # g => total2[h] = total[h]
      /\ total2[g] = v
  BY DEF Set
<1>3. /\ \A h \in T : top[h] = total[h]
      /\ Cardinality(T) <= N /\ Cardinality(T) \in Nat
      /\ \A h \in D \ T : Cardinality(T) = N /\ \A k \in T : total[h] <= top[k]
  BY FS_CardinalityType DEF IsTop
<1>4. CASE g \in T
  <2>1. Update(top, g, v) = Set(top, g, v)
    BY <1>4 DEF Update
  <2> DEFINE top2 == Set(top, g, v)
  <2>2. DOMAIN top2 = T /\ top2[g] = v /\ \A h \in T : h # g => top2[h] = top[h]
    BY <1>4 DEF Set
  <2>3. \A h \in (D \union {g}) \ T : \A k \in T : total2[h] <= top2[k]
    BY <1>2, <1>3, <1>4, <2>2
  <2> HIDE DEF top2, total2
  <2> QED BY <1>1, <1>2, <1>3, <1>4, <2>1, <2>2, <2>3 DEF IsTop, top2, total2
<1>5. CASE g \notin T /\ Room(top)
  <2>1. Update(top, g, v) = Set(top, g, v)
    BY <1>5 DEF Update
  <2> DEFINE top2 == Set(top, g, v)
  <2>2. D = T
    <3>1. DOMAIN top = T /\ Cardinality(T) # N
      BY <1>3, <1>5 DEF Room
    <3> QED BY <1>3, <3>1
  <2>3. DOMAIN top2 = T \union {g} /\ top2[g] = v /\ \A h \in T : top2[h] = top[h]
    BY <1>5 DEF Set
  <2>4. Cardinality(T \union {g}) <= N
    <3>1. Cardinality(T \union {g}) = Cardinality(T) + 1
      BY <1>5, FS_AddElement
    <3>2. Cardinality(T) < N
      BY <1>1, <1>5 DEF Room
    <3> QED BY <1>3, <3>1, <3>2
  <2> HIDE DEF top2, total2
  <2> QED BY <1>1, <1>2, <1>3, <1>5, <2>1, <2>2, <2>3, <2>4 DEF IsTop, top2, total2
<1>6. CASE g \notin T /\ ~ Room(top)
  <2>1. Cardinality(T) = N /\ T # {}
    BY <1>3, <1>6, FS_EmptySet DEF Room
  <2>2. low \in T /\ \A h \in T : top[low] <= top[h]
    BY <2>1, LowestIsLowest
  <2>3. CASE v > top[low]
    <3> DEFINE top2 == Set(Drop(top, low), g, v)
               T2 == (T \ {low}) \union {g}
    <3>1. Update(top, g, v) = top2
      BY <1>6, <2>3 DEF Update
    <3>2. DOMAIN top2 = T2 /\ top2[g] = v /\ \A h \in T \ {low} : top2[h] = top[h]
      BY <1>6 DEF Set, Drop
    <3>3. Cardinality(T2) = N
      <4>1. IsFiniteSet(T \ {low}) /\ Cardinality(T \ {low}) = N - 1
        BY <2>1, <2>2, FS_RemoveElement
      <4>2. Cardinality((T \ {low}) \union {g}) = Cardinality(T \ {low}) + 1
        BY <1>6, <4>1, FS_AddElement
      <4> QED BY <4>1, <4>2
    <3> HIDE DEF top2, total2, low
    <3>4. ASSUME NEW h \in (D \union {g}) \ T2, NEW k \in T2
          PROVE  total2[h] <= top2[k]
      <4>1. h \in D /\ h # g /\ total2[h] = total[h] /\ total[h] \in Nat
        BY <1>2, <3>4
      <4>2. top[low] \in Nat /\ total[h] <= top[low]
        BY <1>3, <2>2, <3>4, <4>1
      <4>3. CASE k = g
        BY <2>3, <3>2, <4>1, <4>2, <4>3
      <4>4. CASE k # g
        <5>1. k \in T /\ top2[k] = top[k] /\ top[low] <= top[k] /\ top[k] \in Nat
          BY <2>2, <3>2, <3>4, <4>4
        <5> QED BY <4>1, <4>2, <5>1
      <4> QED BY <4>3, <4>4
    <3>5. ASSUME NEW h \in T2 PROVE top2[h] = total2[h]
      BY <1>2, <1>3, <3>2, <3>5
    <3>6. T2 \subseteq D \union {g}
      OBVIOUS
    <3>7. IsTop(top2, total2)
      <4> HIDE DEF T2
      <4>1. DOMAIN top2 = T2 /\ DOMAIN total2 = D \union {g}
        BY <1>1, <3>2
      <4>2. \A h \in T2 : top2[h] = total2[h]
        BY <3>5
      <4>3. \A h \in (D \union {g}) \ T2 : \A k \in T2 : total2[h] <= top2[k]
        BY <3>4
      <4>4. Cardinality(T2) = N /\ Cardinality(T2) <= N
        BY <3>3
      <4> QED BY <3>6, <4>1, <4>2, <4>3, <4>4 DEF IsTop
    <3> QED BY <3>1, <3>7 DEF total2
  <2>4. CASE ~ v > top[low]
    <3>1. Update(top, g, v) = top
      BY <1>6, <2>4 DEF Update
    <3> HIDE DEF total2, low
    <3>2. ASSUME NEW h \in (D \union {g}) \ T, NEW k \in T
          PROVE  total2[h] <= top[k]
      <4>1. top[low] \in Nat /\ top[k] \in Nat /\ top[low] <= top[k]
        BY <2>2
      <4>2. CASE h = g
        BY <1>2, <2>4, <4>1, <4>2
      <4>3. CASE h # g
        BY <1>2, <1>3, <3>2, <4>3
      <4> QED BY <4>2, <4>3
    <3> QED BY <1>1, <1>2, <1>3, <1>6, <2>1, <3>1, <3>2 DEF IsTop, total2
  <2> QED BY <2>3, <2>4
<1> QED BY <1>4, <1>5, <1>6

(* The aggregator's top of the filters' tops is a top of all the games,    *)
(* however shard.Int64 spread them: a game a filter left out has N games   *)
(* above it, and they are in the result or have N above them.              *)
THEOREM MergedTop ==
  ASSUME NEW D \in SUBSET Nat, NEW total \in [D -> Nat],
         NEW J, NEW shard \in [D -> J], NEW tops \in [J -> SUBSET D],
         \A j \in J : /\ IsFiniteSet(tops[j])
                      /\ IsTop(Part(total, tops[j]), Part(total, {g \in D : shard[g] = j})),
         NEW T, IsFiniteSet(T),
         IsTop(Part(total, T), Part(total, UNION {tops[j] : j \in J}))
  PROVE  IsTop(Part(total, T), total)
<1> DEFINE U == UNION {tops[j] : j \in J}
           top == Part(total, T)
<1>1. T \subseteq U /\ U \subseteq D
  BY DEF IsTop, Part
<1>2. DOMAIN top = T /\ \A g \in T : top[g] = total[g]
  BY DEF Part
<1>3. Cardinality(T) <= N
  BY DEF IsTop, Part
<1>4. ASSUME NEW g \in U \ T
      PROVE  Cardinality(T) = N /\ \A h \in T : total[g] <= total[h]
  BY <1>2 DEF IsTop, Part
<1>5. ASSUME NEW g \in D \ U
      PROVE  Cardinality(T) = N /\ \A h \in T : total[g] <= total[h]
  <2> DEFINE j == shard[g]
             S == tops[j]
  <2>1. j \in J /\ S \subseteq U /\ S \subseteq D /\ IsFiniteSet(S) /\ g \notin S
    BY <1>5
  <2>2. Cardinality(S) = N /\ \A h \in S : total[g] <= total[h]
    <3>1. IsTop(Part(total, S), Part(total, {k \in D : shard[k] = j}))
      BY <2>1
    <3>2. g \in DOMAIN Part(total, {k \in D : shard[k] = j}) \ DOMAIN Part(total, S)
      BY <1>5, <2>1 DEF Part
    <3>3. /\ Cardinality(DOMAIN Part(total, S)) = N
          /\ \A h \in DOMAIN Part(total, S) :
               Part(total, {k \in D : shard[k] = j})[g] <= Part(total, S)[h]
      BY <3>1, <3>2 DEF IsTop
    <3> QED BY <3>2, <3>3 DEF Part
  <2>3. CASE S \subseteq T
    <3>1. S = T
      BY <1>3, <2>1, <2>2, <2>3, FS_Subset, FS_CardinalityType
    <3> QED BY <2>2, <3>1
  <2>4. CASE ~ S \subseteq T
    <3>1. PICK k \in S : k \in U \ T
      BY <2>1, <2>4
    <3>2. total[g] <= total[k] /\ Cardinality(T) = N /\ \A h \in T : total[k] <= total[h]
      BY <1>4, <2>2, <3>1
    <3>3. total[g] \in Nat /\ total[k] \in Nat /\ \A h \in T : total[h] \in Nat
      BY <1>1, <1>5, <3>1
    <3> QED BY <3>2, <3>3
  <2> QED BY <2>3, <2>4
<1>6. \A g \in D \ T : Cardinality(T) = N /\ \A h \in T : total[g] <= total[h]
  BY <1>4, <1>5
<1> QED BY <1>1, <1>2, <1>3, <1>6 DEF IsTop
=============================================================================
