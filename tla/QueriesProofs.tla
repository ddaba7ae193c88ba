---------------------------- MODULE QueriesProofs ----------------------------
(***************************************************************************)
(* Proofs that no end of file overtakes the data it ends, that nothing of  *)
(* a client is reported after its result, and that an answered client is   *)
(* forgotten by every node: for every query, upload and set of clients,    *)
(* any number of nodes, and whatever restarts between two messages.  And   *)
(* that query 1 answers with the totals of the client's upload.            *)
(***************************************************************************)
EXTENDS HandlerProofs

USE QueriesAssumption

(* The queues of a query, by name and number.                              *)
LEMMA QueueOf ==
  ASSUME NEW q \in 1..5
  PROVE  /\ \A k \in Queues[q] : /\ k \in AllQueues /\ k = <<k[1], k[2]>>
                                 /\ k[1] \in QueuesOf(q) /\ k[2] \in 0..(Width(k[1]) - 1)
         /\ \A name \in QueuesOf(q) : \A i \in 0..(Width(name) - 1) : <<name, i>> \in Queues[q]
<1>1. Queues[q] = UNION { {<<name, i>> : i \in 0..(Width(name) - 1)} : name \in QueuesOf(q) }
  BY DEF Queues
<1> HIDE DEF Queues
<1>2. ASSUME NEW k \in Queues[q]
      PROVE  k \in AllQueues /\ k = <<k[1], k[2]>> /\ k[1] \in QueuesOf(q) /\ k[2] \in 0..(Width(k[1]) - 1)
  <2>1. PICK name \in QueuesOf(q) : k \in {<<name, i>> : i \in 0..(Width(name) - 1)}
    BY <1>1, <1>2
  <2>2. PICK i \in 0..(Width(name) - 1) : k = <<name, i>>
    BY <2>1
  <2>3. k \in AllQueues
    BY DEF AllQueues
  <2> QED BY <2>2, <2>3
<1>3. ASSUME NEW name \in QueuesOf(q), NEW i \in 0..(Width(name) - 1) PROVE <<name, i>> \in Queues[q]
  BY <1>1
<1> QED BY <1>2, <1>3

(* The joiners read two queues, of one end of file each, all others one.   *)
LEMMA OneInput ==
  ASSUME NEW q \in 1..5, NEW k \in Queues[q], NEW k2 \in Queues[q], NodeOf(k2) = NodeOf(k),
         IsJoiner(NodeOf(k)) => Origin(k2) = Origin(k)
  PROVE  k2 = k
<1>1. /\ k = <<k[1], k[2]>> /\ k[1] \in QueuesOf(q)
      /\ k2 = <<k2[1], k2[2]>> /\ k2[1] \in QueuesOf(q)
  BY QueueOf
<1>2. Reader[k[1]] = Reader[k2[1]] /\ k[2] = k2[2]
  BY DEF NodeOf
<1>3. k[1] = k2[1]
  <2>1. IsJoiner(NodeOf(k)) <=> Reader[k[1]] \in {"joiner_top", "joiner_counter", "joiner_percentile"}
    BY DEF NodeOf, IsJoiner
  <2>2. \A a \in QueuesOf(q), b \in QueuesOf(q) :
          /\ Reader[a] = Reader[b]
          /\ Reader[a] \in {"joiner_top", "joiner_counter", "joiner_percentile"} => (Data[a] = "score" <=> Data[b] = "score")
          => a = b
    BY DEF QueuesOf, Reader, Data
  <2>3. IsJoiner(NodeOf(k)) => (Data[k[1]] = "score" <=> Data[k2[1]] = "score")
    BY DEF Origin
  <2> HIDE DEF Reader, Data
  <2> QED BY <1>1, <1>2, <2>1, <2>2, <2>3
<1> QED BY <1>1, <1>2, <1>3

(* How many ends of file the queues of a node get, and whose they are.     *)
LEMMA InputsOf ==
  ASSUME NEW q \in 1..5, NEW k \in Queues[q]
  PROVE  LET n == NodeOf(k)
         IN  /\ EndsIn(k) = IF IsFanIn(n) THEN Expected ELSE 1
             /\ IsJoiner(n) => /\ k[1] \in JoinInputs /\ ~ IsFanIn(n)
                               /\ \E k2 \in Queues[q] : NodeOf(k2) = n /\ Origin(k2) # Origin(k)
             /\ Origin(k) \in {"review", "game"}
<1> DEFINE n == NodeOf(k)
<1>1. k = <<k[1], k[2]>> /\ k[1] \in QueuesOf(q) /\ k[2] \in 0..(Width(k[1]) - 1)
  BY QueueOf
<1>2. n[1] = Reader[k[1]]
  BY DEF NodeOf
<1>3. k[1] \in DOMAIN Reader
  BY <1>1 DEF QueuesOf, Reader
<1>4. EndsIn(k) = IF IsFanIn(n) THEN Expected ELSE 1
  BY <1>2, <1>3 DEF EndsIn, IsFanIn, Reader
<1>5. ASSUME IsJoiner(n)
      PROVE  /\ k[1] \in JoinInputs /\ ~ IsFanIn(n)
             /\ \E k2 \in Queues[q] : NodeOf(k2) = n /\ Origin(k2) # Origin(k)
  <2>1. k[1] \in JoinInputs /\ ~ IsFanIn(n) /\ Width(k[1]) = Joiners
    BY <1>2, <1>3, <1>5 DEF IsJoiner, IsFanIn, Reader, JoinInputs, Width
  <2>2. \E name \in QueuesOf(q) : /\ Reader[name] = Reader[k[1]] /\ Width(name) = Joiners
                                  /\ ~ (Data[name] = "score" <=> Data[k[1]] = "score")
    BY <1>1, <2>1 DEF QueuesOf, JoinInputs, Reader, Width, Data
  <2>3. PICK name \in QueuesOf(q) : /\ Reader[name] = Reader[k[1]] /\ Width(name) = Joiners
                                    /\ ~ (Data[name] = "score" <=> Data[k[1]] = "score")
    BY <2>2
  <2> DEFINE k2 == <<name, k[2]>>
  <2>4. k2 \in Queues[q]
    BY <1>1, <2>1, <2>3, QueueOf
  <2>5. NodeOf(k2) = n /\ Origin(k2) # Origin(k)
    BY <2>3 DEF NodeOf, Origin
  <2> QED BY <2>1, <2>4, <2>5
<1> QED BY <1>4, <1>5 DEF Origin

(* A queue gets one end of file of each node that ends it.                 *)
LEMMA SendersOf ==
  ASSUME NEW q \in 1..5, NEW k \in Queues[q]
  PROVE  /\ k[1] \in Gateways => Senders(k) = {}
         /\ k[1] \notin Gateways => /\ Senders(k) \subseteq Nodes[q]
                                    /\ IsFiniteSet(EndSenders(k)) /\ Cardinality(EndSenders(k)) = EndsIn(k)
<1>1. k = <<k[1], k[2]>> /\ k[1] \in QueuesOf(q) /\ k[2] \in 0..(Width(k[1]) - 1)
  BY QueueOf
<1>2. k[1] \in Gateways => Senders(k) = {}
  <2>1. k[1] \in Gateways => k[1] # "reviews_q4" /\ k[1] # "text_reviews_q4"
    BY DEF Gateways
  <2>2. k[1] \in Gateways => EndSenders(k) = {}
    BY DEF EndSenders, Gateways, FanIns
  <2> QED BY <2>1, <2>2 DEF Senders
<1>3. ASSUME k[1] \in FanIns PROVE IsFiniteSet(EndSenders(k)) /\ Cardinality(EndSenders(k)) = EndsIn(k)
  <2> DEFINE w == Writer[k[1]]
             T == {<<w, j>> : j \in 0..(Joiners - 1)}
             f == [j \in 0..(Joiners - 1) |-> <<w, j>>]
  <2>1. EndSenders(k) = T /\ EndsIn(k) = Joiners
    BY <1>3 DEF EndSenders, FanIns, Gateways, EndsIn
  <2>2. f \in Bijection(0..(Joiners - 1), T)
    <3>1. f \in [0..(Joiners - 1) -> T]
      OBVIOUS
    <3>2. \A i \in 0..(Joiners - 1) : \A j \in 0..(Joiners - 1) : f[i] = f[j] => i = j
      OBVIOUS
    <3>3. \A t \in T : \E j \in 0..(Joiners - 1) : f[j] = t
      OBVIOUS
    <3> QED BY <3>1, <3>2, <3>3, Fun_IsBij
  <2>3. IsFiniteSet(0..(Joiners - 1)) /\ Cardinality(0..(Joiners - 1)) = Joiners
    BY FS_Interval
  <2>4. IsFiniteSet(T) /\ Cardinality(T) = Joiners
    BY <2>2, <2>3, FS_Bijection DEF ExistsBijection
  <2> QED BY <2>1, <2>4
<1>4. ASSUME k[1] \notin FanIns, k[1] \notin Gateways
      PROVE  IsFiniteSet(EndSenders(k)) /\ Cardinality(EndSenders(k)) = EndsIn(k)
  <2>1. \E x : EndSenders(k) = {x}
    <3>1. \/ EndSenders(k) = {<<"text", k[2] - 1>>}
          \/ EndSenders(k) = {<<"text", Texts - 1>>}
          \/ EndSenders(k) = {<<"joiner_top", k[2]>>}
          \/ EndSenders(k) = {<<Writer[k[1]], 0>>}
      BY <1>4 DEF EndSenders
    <3> QED BY <3>1
  <2>2. EndsIn(k) = 1
    BY <1>4 DEF EndsIn, FanIns
  <2>3. PICK x : EndSenders(k) = {x}
    BY <2>1
  <2>4. IsFiniteSet({x}) /\ Cardinality({x}) = 1
    BY FS_Singleton
  <2> QED BY <2>2, <2>3, <2>4
<1>5. ASSUME k[1] \notin Gateways, NEW n \in Senders(k) PROVE n \in Nodes[q]
  <2>1. \E name \in QueuesOf(q) : \E i \in 0..(Width(name) - 1) : n = <<Reader[name], i>>
    BY <1>1, <1>5 DEF Senders, EndSenders, Gateways, FanIns, Writer, QueuesOf, Reader, Width
  <2>2. PICK name \in QueuesOf(q) : \E i \in 0..(Width(name) - 1) : n = <<Reader[name], i>>
    BY <2>1
  <2>5. PICK i \in 0..(Width(name) - 1) : n = <<Reader[name], i>>
    BY <2>2
  <2>3. <<name, i>> \in Queues[q] /\ NodeOf(<<name, i>>) = n
    BY <2>5, QueueOf DEF NodeOf
  <2>4. Nodes[q] = {NodeOf(k2) : k2 \in Queues[q]}
    BY DEF Nodes
  <2> QED BY <2>3, <2>4
<1> QED BY <1>2, <1>3, <1>4, <1>5

(* The ends of file in a queue, and those among some messages, are finite. *)
LEMMA EndsAreFinite ==
  ASSUME Shapes, NEW k \in Queues[query], NEW c, NEW E
  PROVE  /\ IsFiniteSet(Ends(k, c)) /\ Cardinality(Ends(k, c)) \in Nat
         /\ EndsAmong(E, k, c) \subseteq Ends(k, c)
         /\ IsFiniteSet(EndsAmong(E, k, c)) /\ Cardinality(EndsAmong(E, k, c)) \in Nat
         /\ Cardinality(EndsAmong(E, k, c)) <= Cardinality(Ends(k, c))
         /\ Cardinality(EndsAmong(E, k, c)) = Cardinality(Ends(k, c)) => EndsAmong(E, k, c) = Ends(k, c)
<1>1. Len(sent[k]) \in Nat
  BY DEF Shapes, IsSeq
<1>2. IsFiniteSet(1..Len(sent[k]))
  BY <1>1, FS_Interval
<1>3. Ends(k, c) \subseteq 1..Len(sent[k])
  BY DEF Ends, PlacesOf
<1>4. IsFiniteSet(Ends(k, c))
  BY <1>2, <1>3, FS_Subset
<1>5. EndsAmong(E, k, c) \subseteq Ends(k, c)
  BY DEF EndsAmong
<1> QED BY <1>4, <1>5, FS_Subset, FS_CardinalityType

(* Every queue waits for at least one end of file.                         *)
LEMMA EndsInIsNat == \A k : EndsIn(k) \in Nat \ {0}
BY DEF EndsIn

(* No queue gets more ends of file than its reader waits for.              *)
LEMMA NoEndTooMuch ==
  ASSUME Shapes, EofBehindData, NEW k \in Queues[query], NEW c \in Clients, NEW E
  PROVE  /\ Cardinality(Ends(k, c)) <= EndsIn(k)
         /\ Cardinality(EndsAmong(E, k, c)) <= EndsIn(k)
<1>1. k \in DOMAIN sent
  BY DEF Shapes
<1>2. Cardinality(Ends(k, c)) >= EndsIn(k) => Cardinality(Ends(k, c)) = EndsIn(k)
  BY <1>1 DEF EofBehindData
<1> QED BY <1>2, EndsAreFinite, EndsInIsNat

(* The messages F are those of E and the one at place i of queue k.         *)
Adds(F, E, k, i) == F = E \union {[from |-> k, at |-> i]}

(* It is an end of file more if it is one.                                 *)
LEMMA EndsWithOneMore ==
  ASSUME NEW k, NEW i \in 1..Len(sent[k]), NEW m, m = sent[k][i], NEW E,
         NEW F, Adds(F, E, k, i), NEW k2, NEW d, NEW j
  PROVE  j \in EndsAmong(F, k2, d) <=>
           j \in EndsAmong(E, k2, d) \/ (j = i /\ k2 = k /\ d = m.client /\ IsEof(m))
<1> DEFINE e == [from |-> k, at |-> i]
           f == [from |-> k2, at |-> j]
<1>1. f = e <=> k2 = k /\ j = i
  <2>1. f.from = k2 /\ f.at = j
    OBVIOUS
  <2>2. e.from = k /\ e.at = i
    OBVIOUS
  <2> QED BY <2>1, <2>2
<1>2. f \in F <=> f \in E \/ (k2 = k /\ j = i)
  BY <1>1 DEF Adds
<1>3. k2 = k => (i \in Ends(k2, d) <=> d = m.client /\ IsEof(m))
  BY DEF Ends, PlacesOf
<1> HIDE DEF e
<1> QED BY <1>2, <1>3 DEF EndsAmong

(* Handling a message keeps a record right about the ends of file.         *)
LEMMA RecordStep ==
  ASSUME Shapes, Carries, EofBehindData,
         NEW k \in Queues[query], NEW i \in 1..Len(sent[k]), NEW E, NEW n, n = NodeOf(k),
         \A f \in E : f.from = k => f.at < i,
         NEW m, m = sent[k][i], NEW c, c = m.client, NEW r, RecFits(E, n, c, r),
         NEW F, Adds(F, E, k, i)
  PROVE  /\ ~ DoneAmong(E, n, c)
         /\ Ending(n, r, m) <=> DoneAmong(F, n, c)
         /\ \A r2 : Settles(n, r, m, r2) => RecFits(F, n, c, r2)
<1>1. Carried(k, m) /\ c \in Clients /\ query \in 1..5
  BY DEF Carries, Carried, Shapes
<1>2. k \in Inputs(n) /\ \A k2 \in Inputs(n) : k2 \in Queues[query] /\ NodeOf(k2) = NodeOf(k)
  BY DEF Inputs
<1>3. i \notin EndsAmong(E, k, c)
  <2>1. [from |-> k, at |-> i].from = k /\ [from |-> k, at |-> i].at = i
    OBVIOUS
  <2>2. [from |-> k, at |-> i] \notin E
    BY <2>1
  <2> QED BY <2>2 DEF EndsAmong
<1>4. \A k2 \in Inputs(n) : /\ IsFiniteSet(EndsAmong(E, k2, c)) /\ Cardinality(EndsAmong(E, k2, c)) \in Nat
                            /\ IsFiniteSet(EndsAmong(F, k2, c)) /\ Cardinality(EndsAmong(F, k2, c)) \in Nat
                            /\ Cardinality(EndsAmong(E, k2, c)) <= EndsIn(k2)
                            /\ Cardinality(EndsAmong(F, k2, c)) <= EndsIn(k2)
  BY <1>1, <1>2, EndsAreFinite, NoEndTooMuch
<1>5. Cardinality(EndsAmong(E, k, c)) # EndsIn(k)
  <2> SUFFICES ASSUME Cardinality(EndsAmong(E, k, c)) = EndsIn(k) PROVE FALSE
    OBVIOUS
  <2>1. Cardinality(Ends(k, c)) = EndsIn(k) /\ EndsAmong(E, k, c) = Ends(k, c)
    BY <1>1, EndsAreFinite, NoEndTooMuch, EndsInIsNat
  <2>2. i \in PlacesOf(k, c)
    BY DEF PlacesOf
  <2>3. k \in DOMAIN sent
    BY DEF Shapes
  <2>4. PICK x \in Ends(k, c) : i <= x
    BY <1>1, <2>1, <2>2, <2>3, EndsInIsNat DEF EofBehindData
  <2>5. [from |-> k, at |-> x] \in E /\ x \in Nat
    BY <2>1, <2>4 DEF EndsAmong, Ends, PlacesOf
  <2>6. [from |-> k, at |-> x].from = k /\ [from |-> k, at |-> x].at = x
    OBVIOUS
  <2> QED BY <2>4, <2>5, <2>6
<1>6. ~ DoneAmong(E, n, c) /\ RecShape(n, r) /\ RecCounts(E, n, c, r)
  BY <1>2, <1>5 DEF DoneAmong, RecFits
<1>7. ASSUME ~ IsEof(m) PROVE \A k2 : EndsAmong(F, k2, c) = EndsAmong(E, k2, c)
  <2> SUFFICES ASSUME NEW k2 PROVE EndsAmong(F, k2, c) = EndsAmong(E, k2, c)
    OBVIOUS
  <2>1. \A j : j \in EndsAmong(F, k2, c) <=> j \in EndsAmong(E, k2, c)
    BY <1>7, EndsWithOneMore
  <2> QED BY ONLY <2>1
<1>8. ASSUME IsEof(m)
      PROVE  /\ EndsAmong(F, k, c) = EndsAmong(E, k, c) \union {i}
             /\ Cardinality(EndsAmong(F, k, c)) = Cardinality(EndsAmong(E, k, c)) + 1
             /\ \A k2 : k2 # k => EndsAmong(F, k2, c) = EndsAmong(E, k2, c)
  <2>1. EndsAmong(F, k, c) = EndsAmong(E, k, c) \union {i}
    <3>1. \A j : j \in EndsAmong(F, k, c) <=> j \in EndsAmong(E, k, c) \/ j = i
      BY <1>8, EndsWithOneMore
    <3> QED BY ONLY <3>1
  <2>2. ASSUME NEW k2, k2 # k PROVE EndsAmong(F, k2, c) = EndsAmong(E, k2, c)
    <3>1. \A j : j \in EndsAmong(F, k2, c) <=> j \in EndsAmong(E, k2, c)
      BY <2>2, EndsWithOneMore
    <3> QED BY ONLY <3>1
  <2>3. IsFiniteSet(EndsAmong(E, k, c))
    BY <1>2, <1>4
  <2>4. Cardinality(EndsAmong(E, k, c) \union {i}) = Cardinality(EndsAmong(E, k, c)) + 1
    BY <1>3, <2>3, FS_AddElement
  <2> QED BY <2>1, <2>2, <2>4
<1> DEFINE Origins(G) == {Origin(k2) : k2 \in {k2 \in Inputs(n) : EndsAmong(G, k2, c) # {}}}
<1>9. ASSUME IsJoiner(n)
      PROVE  /\ IsEof(m) => Origins(F) = Origins(E) \union {m.origin}
             /\ DoneAmong(F, n, c) <=> Origins(F) = {"review", "game"}
  <2>1. \A k2 \in Inputs(n) : EndsIn(k2) = 1 /\ Origin(k2) \in {"review", "game"}
    BY <1>1, <1>2, <1>9, InputsOf
  <2>2. IsEof(m) => m.origin = Origin(k)
    BY <1>1, <1>9, InputsOf DEF Carried
  <2>3. \A k2 \in Inputs(n) : (Cardinality(EndsAmong(F, k2, c)) = EndsIn(k2) <=> EndsAmong(F, k2, c) # {})
    <3> SUFFICES ASSUME NEW k2 \in Inputs(n)
                 PROVE  Cardinality(EndsAmong(F, k2, c)) = EndsIn(k2) <=> EndsAmong(F, k2, c) # {}
      OBVIOUS
    <3>1. EndsIn(k2) = 1 /\ Cardinality(EndsAmong(F, k2, c)) \in Nat
          /\ Cardinality(EndsAmong(F, k2, c)) <= EndsIn(k2) /\ IsFiniteSet(EndsAmong(F, k2, c))
      BY <1>4, <2>1
    <3>2. Cardinality(EndsAmong(F, k2, c)) = 0 <=> EndsAmong(F, k2, c) = {}
      BY ONLY <3>1, FS_EmptySet
    <3> QED BY ONLY <3>1, <3>2
  <2>4. \A k2 \in Inputs(n), k3 \in Inputs(n) : Origin(k2) = Origin(k3) => k2 = k3
    BY <1>1, <1>2, <1>9, OneInput
  <2>5. PICK k3 \in Inputs(n) : Origin(k3) # Origin(k)
    BY <1>1, <1>9, InputsOf DEF Inputs
  <2>6. \A k2 \in Inputs(n) : k2 = k \/ k2 = k3
    BY <1>2, <2>1, <2>4, <2>5
  <2>7. {Origin(k), Origin(k3)} = {"review", "game"}
    BY <1>2, <2>1, <2>5
  <2> HIDE DEF Origin, Inputs
  <2>8. IsEof(m) => Origins(F) = Origins(E) \union {m.origin}
    <3> SUFFICES ASSUME IsEof(m) PROVE Origins(F) = Origins(E) \union {Origin(k)}
      BY <2>2
    <3>1. EndsAmong(F, k, c) # {} /\ EndsAmong(F, k3, c) = EndsAmong(E, k3, c)
      BY <1>8, <2>5
    <3> QED BY <1>2, <2>6, <3>1
  <2>9. Origin(k) \in Origins(F) <=> EndsAmong(F, k, c) # {}
    BY <1>2, <2>4
  <2>10. Origin(k3) \in Origins(F) <=> EndsAmong(F, k3, c) # {}
    BY <1>2, <2>4
  <2>11. DoneAmong(F, n, c) <=> EndsAmong(F, k, c) # {} /\ EndsAmong(F, k3, c) # {}
    BY <1>2, <2>3, <2>6 DEF DoneAmong
  <2>13. Origins(F) \subseteq {"review", "game"}
    BY <2>1
  <2> HIDE DEF Origins
  <2>12. Origins(F) = {"review", "game"} <=> Origin(k) \in Origins(F) /\ Origin(k3) \in Origins(F)
    BY <2>7, <2>13
  <2> QED BY <2>8, <2>9, <2>10, <2>11, <2>12
<1>10. ASSUME ~ IsJoiner(n)
       PROVE  DoneAmong(F, n, c) <=> Cardinality(EndsAmong(F, k, c)) = EndsIn(k)
  <2>1. \A k2 \in Inputs(n) : k2 = k
    BY <1>1, <1>2, <1>10, OneInput
  <2> QED BY <1>2, <2>1 DEF DoneAmong
<1> HIDE DEF Origins
<1>11. Ending(n, r, m) <=> DoneAmong(F, n, c)
  <2>1. CASE ~ IsEof(m)
    BY <1>6, <1>7, <2>1 DEF Ending, DoneAmong
  <2>2. CASE IsEof(m) /\ IsJoiner(n)
    <3>1. r.eofs = Origins(E) /\ ~ IsFanIn(n)
      BY <1>1, <1>6, <2>2, InputsOf DEF RecCounts, Origins
    <3>2. Origins(F) = r.eofs \union {m.origin} /\ (DoneAmong(F, n, c) <=> Origins(F) = {"review", "game"})
      BY <1>9, <2>2, <3>1
    <3> QED BY <2>2, <3>1, <3>2 DEF Ending, Complete
  <2>3. CASE IsEof(m) /\ IsFanIn(n)
    <3>1. ~ IsJoiner(n) /\ EndsIn(k) = Expected
      BY <1>1, <2>3, InputsOf
    <3>2. r.recv = Cardinality(EndsAmong(E, k, c))
      BY <1>2, <1>6, <2>3 DEF RecCounts
    <3>3. /\ Cardinality(EndsAmong(F, k, c)) = r.recv + 1 /\ r.recv \in Nat /\ r.recv + 1 <= Expected
          /\ (DoneAmong(F, n, c) <=> Cardinality(EndsAmong(F, k, c)) = Expected)
      BY <1>2, <1>4, <1>8, <1>10, <2>3, <3>1, <3>2
    <3> QED BY <2>3, <3>1, <3>3 DEF Ending
  <2>4. CASE IsEof(m) /\ ~ IsJoiner(n) /\ ~ IsFanIn(n)
    <3>1. EndsIn(k) = 1
      BY <1>1, <2>4, InputsOf
    <3>2. Cardinality(EndsAmong(F, k, c)) = 1
      <4>1. /\ Cardinality(EndsAmong(F, k, c)) <= EndsIn(k) /\ Cardinality(EndsAmong(E, k, c)) \in Nat
            /\ Cardinality(EndsAmong(F, k, c)) = Cardinality(EndsAmong(E, k, c)) + 1
        BY <1>2, <1>4, <1>8, <2>4
      <4> QED BY ONLY <4>1, <3>1
    <3>3. DoneAmong(F, n, c)
      BY <1>10, <2>4, <3>1, <3>2
    <3>4. Ending(n, r, m)
      BY <2>4 DEF Ending
    <3> QED BY <3>3, <3>4
  <2> QED BY <2>1, <2>2, <2>3, <2>4
<1>12. ASSUME NEW r2, Settles(n, r, m, r2) PROVE RecFits(F, n, c, r2)
  <2>1. RecShape(n, r2)
    BY <1>12 DEF Settles
  <2>2. CASE DoneAmong(F, n, c)
    BY <1>11, <1>12, <2>1, <2>2 DEF Settles, RecFits
  <2>3. CASE ~ DoneAmong(F, n, c)
    <3>1. ASSUME IsJoiner(n) PROVE r2.eofs = Origins(F)
      <4>1. r.eofs = Origins(E) /\ r2.eofs = IF IsEof(m) THEN r.eofs \union {m.origin} ELSE r.eofs
        BY <1>6, <1>11, <1>12, <2>3, <3>1 DEF RecCounts, Origins, Settles
      <4>2. ~ IsEof(m) => Origins(F) = Origins(E)
        BY <1>7 DEF Origins
      <4> QED BY <1>9, <3>1, <4>1, <4>2
    <3>2. ASSUME IsFanIn(n), NEW k2 \in Inputs(n) PROVE r2.recv = Cardinality(EndsAmong(F, k2, c))
      <4>1. k2 = k
        BY <1>1, <1>2, <3>2, OneInput, InputsOf
      <4>2. r.recv = Cardinality(EndsAmong(E, k, c)) /\ r2.recv = IF IsEof(m) THEN r.recv + 1 ELSE r.recv
        BY <1>2, <1>6, <1>11, <1>12, <2>3, <3>2 DEF RecCounts, Settles
      <4> QED BY <1>7, <1>8, <4>1, <4>2
    <3>3. RecCounts(F, n, c, r2)
      BY <3>1, <3>2 DEF RecCounts, Origins
    <3> QED BY <2>1, <2>3, <3>3 DEF RecFits
  <2> QED BY <2>2, <2>3
<1> QED BY <1>6, <1>11, <1>12

-----------------------------------------------------------------------------
(* A node is done with a client only after all that end its queues are.    *)
LEMMA DoneBefore ==
  ASSUME Shapes, EndsCounted, NEW k \in Queues[query], k[1] \notin Gateways, NEW c \in Clients,
         Cardinality(Ends(k, c)) >= EndsIn(k), NEW s \in EndSenders(k)
  PROVE  Done(s, c)
<1> DEFINE D == {n \in EndSenders(k) : Done(n, c)}
<1>1. IsFiniteSet(EndSenders(k)) /\ Cardinality(EndSenders(k)) = EndsIn(k)
  BY SendersOf DEF Shapes
<1>2. Cardinality(Ends(k, c)) = Cardinality(D)
  BY DEF EndsCounted
<1>3. D \in SUBSET EndSenders(k)
  OBVIOUS
<1> HIDE DEF D
<1>4. Cardinality(D) <= Cardinality(EndSenders(k)) /\ Cardinality(D) \in Nat
  BY <1>1, <1>3, FS_Subset, FS_CardinalityType
<1>5. Cardinality(D) = Cardinality(EndSenders(k))
  BY <1>1, <1>2, <1>4, EndsInIsNat
<1>6. D = EndSenders(k)
  BY <1>1, <1>3, <1>5, FS_Subset
<1> QED BY <1>6 DEF D

(* The same from a node to what ends its queues.                           *)
LEMMA DoneBehind ==
  ASSUME Shapes, EndsCounted, NEW k \in Queues[query], k[1] \notin Gateways, NEW c \in Clients,
         Done(NodeOf(k), c), NEW s \in EndSenders(k)
  PROVE  Done(s, c)
<1>1. k \in Inputs(NodeOf(k))
  BY DEF Inputs
<1>2. Cardinality(EndsAmong(Handled(NodeOf(k)), k, c)) = EndsIn(k)
  BY <1>1 DEF Done, DoneAmong
<1>3. Cardinality(Ends(k, c)) >= EndsIn(k)
  BY <1>2, EndsAreFinite, EndsInIsNat
<1> QED BY <1>3, DoneBefore

(* The round of the text filters: the end of file passes them all.         *)
LEMMA TextsDone ==
  ASSUME Shapes, EndsCounted, query = 4, NEW c \in Clients, NEW t \in 0..(Texts - 1), Done(<<"text", t>>, c)
  PROVE  /\ Done(<<"review", 0>>, c)
         /\ \A u \in 0..t : Done(<<"text", u>>, c)
<1> DEFINE k(u) == <<"text_reviews_q4", u>>
<1>1. \A u \in 0..(Texts - 1) : k(u) \in Queues[query] /\ NodeOf(k(u)) = <<"text", u>> /\ k(u)[1] \notin Gateways
  <2> SUFFICES ASSUME NEW u \in 0..(Texts - 1)
               PROVE  k(u) \in Queues[query] /\ NodeOf(k(u)) = <<"text", u>> /\ k(u)[1] \notin Gateways
    OBVIOUS
  <2>1. "text_reviews_q4" \in QueuesOf(4) /\ Width("text_reviews_q4") = Texts
    BY DEF QueuesOf, Width
  <2>2. k(u) \in Queues[query]
    BY <2>1, QueueOf
  <2> QED BY <2>2 DEF NodeOf, Reader, Gateways
<1>2. \A u \in 1..(Texts - 1) : <<"text", u - 1>> \in EndSenders(k(u))
  BY DEF EndSenders, Gateways, FanIns
<1>3. <<"review", 0>> \in EndSenders(k(0))
  BY DEF EndSenders, Gateways, FanIns, Writer
<1> HIDE DEF k
<1>4. ASSUME NEW u \in 1..(Texts - 1), Done(<<"text", u>>, c) PROVE Done(<<"text", u - 1>>, c)
  <2>1. k(u) \in Queues[query] /\ k(u)[1] \notin Gateways /\ Done(NodeOf(k(u)), c)
    BY <1>1, <1>4
  <2> QED BY <1>2, <2>1, DoneBehind
<1> DEFINE S == {j \in 0..t : ~ Done(<<"text", t - j>>, c)}
<1>5. S = {}
  <2> SUFFICES ASSUME S # {} PROVE FALSE
    OBVIOUS
  <2>1. S \in SUBSET Nat
    OBVIOUS
  <2> HIDE DEF S
  <2>2. PICK x \in S : \A y \in S : x <= y
    BY <2>1, LeastNatural
  <2>3. x \in 0..t /\ ~ Done(<<"text", t - x>>, c)
    BY DEF S
  <2>4. x # 0
    <3> SUFFICES ASSUME x = 0 PROVE FALSE
      OBVIOUS
    <3>1. t - x = t
      OBVIOUS
    <3> QED BY <2>3, <3>1
  <2>5. x - 1 \in 0..t /\ x - 1 \notin S
    BY <2>2, <2>3, <2>4
  <2>6. Done(<<"text", t - (x - 1)>>, c)
    BY <2>5 DEF S
  <2> DEFINE u == t - (x - 1)
  <2>7. u \in 1..(Texts - 1) /\ u - 1 = t - x
    BY <2>3, <2>4
  <2> HIDE DEF u
  <2>8. Done(<<"text", u>>, c)
    BY <2>6 DEF u
  <2> QED BY <1>4, <2>3, <2>7, <2>8
<1>6. \A u \in 0..t : Done(<<"text", u>>, c)
  <2> SUFFICES ASSUME NEW u \in 0..t PROVE Done(<<"text", u>>, c)
    OBVIOUS
  <2>1. t - u \in 0..t /\ t - (t - u) = u
    OBVIOUS
  <2> QED BY <1>5, <2>1
<1> HIDE DEF S
<1>7. k(0) \in Queues[query] /\ k(0)[1] \notin Gateways /\ Done(NodeOf(k(0)), c)
  BY <1>1, <1>6
<1> QED BY <1>3, <1>6, <1>7, DoneBehind

(* So whatever publishes to a queue has nothing left to publish when the   *)
(* queue has its ends of file.                                             *)
LEMMA SendersDone ==
  ASSUME Shapes, EndsCounted, NEW k \in Queues[query], k[1] \notin Gateways, NEW c \in Clients,
         Cardinality(Ends(k, c)) >= EndsIn(k), NEW s \in Senders(k)
  PROVE  Done(s, c)
<1>1. query \in 1..5
  BY DEF Shapes
<1>2. k = <<k[1], k[2]>> /\ k[1] \in QueuesOf(query) /\ k[2] \in 0..(Width(k[1]) - 1)
  BY <1>1, QueueOf
<1>3. \A n \in EndSenders(k) : Done(n, c)
  BY DoneBefore
<1>4. CASE k[1] = "reviews_q4"
  <2>1. query = 4
    BY <1>1, <1>2, <1>4 DEF QueuesOf
  <2>2. EndSenders(k) = {<<"text", Texts - 1>>}
    BY <1>4 DEF EndSenders, Gateways, FanIns
  <2>3. PICK t \in 0..(Texts - 1) : s = <<"text", t>>
    BY <1>4 DEF Senders
  <2>4. Done(<<"text", Texts - 1>>, c) /\ Texts - 1 \in 0..(Texts - 1)
    BY <1>3, <2>2
  <2> QED BY <2>1, <2>3, <2>4, TextsDone
<1>5. CASE k[1] = "text_reviews_q4"
  <2>1. query = 4 /\ Width(k[1]) = Texts
    BY <1>1, <1>2, <1>5 DEF QueuesOf, Width
  <2>2. s \in EndSenders(k) \/ s = <<"review", 0>>
    BY <1>5 DEF Senders
  <2>3. CASE k[2] = 0
    BY <1>3, <1>5, <2>2, <2>3 DEF EndSenders, Gateways, FanIns, Writer
  <2>4. CASE k[2] # 0
    <3>1. <<"text", k[2] - 1>> \in EndSenders(k) /\ k[2] - 1 \in 0..(Texts - 1)
      BY <1>2, <1>5, <2>1, <2>4 DEF EndSenders, Gateways, FanIns
    <3> QED BY <1>3, <2>1, <2>2, <3>1, TextsDone
  <2> QED BY <2>3, <2>4
<1>6. CASE k[1] # "reviews_q4" /\ k[1] # "text_reviews_q4"
  BY <1>3, <1>6 DEF Senders
<1> QED BY <1>4, <1>5, <1>6

(* The same by names.                                                      *)
LEMMA Behind ==
  ASSUME Shapes, EndsCounted, NEW c \in Clients, NEW name \in QueuesOf(query), name \notin Gateways,
         NEW i \in 0..(Width(name) - 1), Done(<<Reader[name], i>>, c), NEW s \in EndSenders(<<name, i>>)
  PROVE  Done(s, c)
<1> DEFINE k == <<name, i>>
<1>1. k \in Queues[query] /\ k[1] \notin Gateways /\ NodeOf(k) = <<Reader[name], i>>
  BY QueueOf DEF Shapes, NodeOf
<1> HIDE DEF k
<1>2. s \in EndSenders(k) /\ Done(NodeOf(k), c)
  BY <1>1 DEF k
<1> QED BY <1>1, <1>2, DoneBehind

(* When the node that answers is done with a client, so are all others.    *)
LEMMA AllDone ==
  ASSUME Shapes, EndsCounted, NEW c \in Clients, Done(Answerer, c), NEW n \in Nodes[query]
  PROVE  Done(n, c)
<1>1. query \in 1..5
  BY DEF Shapes
<1>2. PICK k \in Queues[query] : n = NodeOf(k)
  BY <1>1 DEF Nodes
<1>3. /\ k[1] \in QueuesOf(query) /\ k[2] \in 0..(Width(k[1]) - 1)
      /\ n = <<Reader[k[1]], k[2]>>
  BY <1>1, <1>2, QueueOf DEF NodeOf
<1>4. CASE query = 1
  <2>1. Done(<<"platform_counter_agg", 0>>, c)
    BY <1>4 DEF Answerer
  <2>2. Done(<<"platform_counter", 0>>, c)
    <3>1. /\ "platform_counts" \in QueuesOf(query) /\ "platform_counts" \notin Gateways /\ 0 \in 0..(Width("platform_counts") - 1)
          /\ Done(<<Reader["platform_counts"], 0>>, c)
      BY <1>4, <2>1 DEF QueuesOf, Gateways, Width, Reader
    <3>2. <<"platform_counter", 0>> \in EndSenders(<<"platform_counts", 0>>)
      BY DEF EndSenders, Gateways, FanIns, Writer
    <3> QED BY <3>1, <3>2, Behind
  <2>3. Done(<<"platform", 0>>, c)
    <3>1. /\ "platforms" \in QueuesOf(query) /\ "platforms" \notin Gateways /\ 0 \in 0..(Width("platforms") - 1)
          /\ Done(<<Reader["platforms"], 0>>, c)
      BY <1>4, <2>2 DEF QueuesOf, Gateways, Width, Reader
    <3>2. <<"platform", 0>> \in EndSenders(<<"platforms", 0>>)
      BY DEF EndSenders, Gateways, FanIns, Writer
    <3> QED BY <3>1, <3>2, Behind
  <2> QED BY <1>3, <1>4, <2>1, <2>2, <2>3 DEF QueuesOf, Reader, Width
<1>5. CASE query = 2
  <2>1. Done(<<"topn_playtime_agg", 0>>, c)
    BY <1>5 DEF Answerer
  <2>2. Done(<<"topn_playtime", 0>>, c)
    <3>1. /\ "topn_playtime_q2" \in QueuesOf(query) /\ "topn_playtime_q2" \notin Gateways /\ 0 \in 0..(Width("topn_playtime_q2") - 1)
          /\ Done(<<Reader["topn_playtime_q2"], 0>>, c)
      BY <1>5, <2>1 DEF QueuesOf, Gateways, Width, Reader
    <3>2. <<"topn_playtime", 0>> \in EndSenders(<<"topn_playtime_q2", 0>>)
      BY DEF EndSenders, Gateways, FanIns, Writer
    <3> QED BY <3>1, <3>2, Behind
  <2>3. Done(<<"release_date", 0>>, c)
    <3>1. /\ "release_date" \in QueuesOf(query) /\ "release_date" \notin Gateways /\ 0 \in 0..(Width("release_date") - 1)
          /\ Done(<<Reader["release_date"], 0>>, c)
      BY <1>5, <2>2 DEF QueuesOf, Gateways, Width, Reader
    <3>2. <<"release_date", 0>> \in EndSenders(<<"release_date", 0>>)
      BY DEF EndSenders, Gateways, FanIns, Writer
    <3> QED BY <3>1, <3>2, Behind
  <2>4. Done(<<"indie", 0>>, c)
    <3>1. /\ "indie_q2" \in QueuesOf(query) /\ "indie_q2" \notin Gateways /\ 0 \in 0..(Width("indie_q2") - 1)
          /\ Done(<<Reader["indie_q2"], 0>>, c)
      BY <1>5, <2>3 DEF QueuesOf, Gateways, Width, Reader
    <3>2. <<"indie", 0>> \in EndSenders(<<"indie_q2", 0>>)
      BY DEF EndSenders, Gateways, FanIns, Writer
    <3> QED BY <3>1, <3>2, Behind
  <2> QED BY <1>3, <1>5, <2>1, <2>2, <2>3, <2>4 DEF QueuesOf, Reader, Width
<1>6. CASE query = 3
  <2>1. Done(<<"topn_agg", 0>>, c)
    BY <1>6 DEF Answerer
  <2>2. ASSUME NEW j \in 0..(Joiners - 1) PROVE Done(<<"topn", j>>, c)
    <3>1. /\ "top_queue" \in QueuesOf(query) /\ "top_queue" \notin Gateways /\ 0 \in 0..(Width("top_queue") - 1)
          /\ Done(<<Reader["top_queue"], 0>>, c)
      BY <1>6, <2>1 DEF QueuesOf, Gateways, Width, Reader
    <3>2. <<"topn", j>> \in EndSenders(<<"top_queue", 0>>)
      BY DEF EndSenders, Gateways, FanIns, Writer
    <3> QED BY <3>1, <3>2, Behind
  <2>3. ASSUME NEW j \in 0..(Joiners - 1) PROVE Done(<<"joiner_top", j>>, c)
    <3>1. /\ "joined_top" \in QueuesOf(query) /\ "joined_top" \notin Gateways /\ j \in 0..(Width("joined_top") - 1)
          /\ Done(<<Reader["joined_top"], j>>, c)
      BY <1>6, <2>2 DEF QueuesOf, Gateways, Width, Reader
    <3>2. <<"joiner_top", j>> \in EndSenders(<<"joined_top", j>>)
      BY DEF EndSenders, Gateways, FanIns, Writer
    <3> QED BY <3>1, <3>2, Behind
  <2>4. Done(<<"indie", 0>>, c)
    <3>1. /\ "indie_q3" \in QueuesOf(query) /\ "indie_q3" \notin Gateways /\ 0 \in 0..(Width("indie_q3") - 1)
          /\ Done(<<Reader["indie_q3"], 0>>, c)
      BY <1>6, <2>3 DEF QueuesOf, Gateways, Width, Reader
    <3>2. <<"indie", 0>> \in EndSenders(<<"indie_q3", 0>>)
      BY DEF EndSenders, Gateways, FanIns, Writer
    <3> QED BY <3>1, <3>2, Behind
  <2>5. Done(<<"review", 0>>, c)
    <3>1. /\ "reviews_q3" \in QueuesOf(query) /\ "reviews_q3" \notin Gateways /\ 0 \in 0..(Width("reviews_q3") - 1)
          /\ Done(<<Reader["reviews_q3"], 0>>, c)
      BY <1>6, <2>3 DEF QueuesOf, Gateways, Width, Reader
    <3>2. <<"review", 0>> \in EndSenders(<<"reviews_q3", 0>>)
      BY DEF EndSenders, Gateways, FanIns, Writer
    <3> QED BY <3>1, <3>2, Behind
  <2> QED BY <1>3, <1>6, <2>1, <2>2, <2>3, <2>4, <2>5 DEF QueuesOf, Reader, Width
<1>7. CASE query = 4
  <2>1. Done(<<"counter_agg", 0>>, c)
    BY <1>7 DEF Answerer
  <2>2. ASSUME NEW j \in 0..(Joiners - 1) PROVE Done(<<"joiner_counter", j>>, c)
    <3>1. /\ "joined_counted" \in QueuesOf(query) /\ "joined_counted" \notin Gateways /\ 0 \in 0..(Width("joined_counted") - 1)
          /\ Done(<<Reader["joined_counted"], 0>>, c)
      BY <1>7, <2>1 DEF QueuesOf, Gateways, Width, Reader
    <3>2. <<"joiner_counter", j>> \in EndSenders(<<"joined_counted", 0>>)
      BY DEF EndSenders, Gateways, FanIns, Writer
    <3> QED BY <3>1, <3>2, Behind
  <2>3. Done(<<"action", 0>>, c)
    <3>1. /\ "action_q4" \in QueuesOf(query) /\ "action_q4" \notin Gateways /\ 0 \in 0..(Width("action_q4") - 1)
          /\ Done(<<Reader["action_q4"], 0>>, c)
      BY <1>7, <2>2 DEF QueuesOf, Gateways, Width, Reader
    <3>2. <<"action", 0>> \in EndSenders(<<"action_q4", 0>>)
      BY DEF EndSenders, Gateways, FanIns, Writer
    <3> QED BY <3>1, <3>2, Behind
  <2>4. Done(<<"text", Texts - 1>>, c)
    <3>1. /\ "reviews_q4" \in QueuesOf(query) /\ "reviews_q4" \notin Gateways /\ 0 \in 0..(Width("reviews_q4") - 1)
          /\ Done(<<Reader["reviews_q4"], 0>>, c)
      BY <1>7, <2>2 DEF QueuesOf, Gateways, Width, Reader
    <3>2. <<"text", Texts - 1>> \in EndSenders(<<"reviews_q4", 0>>)
      BY DEF EndSenders, Gateways, FanIns, Writer
    <3> QED BY <3>1, <3>2, Behind
  <2>5. Done(<<"review", 0>>, c) /\ \A t \in 0..(Texts - 1) : Done(<<"text", t>>, c)
    <3>1. Texts - 1 \in 0..(Texts - 1)
      OBVIOUS
    <3> QED BY <1>7, <2>4, <3>1, TextsDone
  <2> QED BY <1>3, <1>7, <2>1, <2>2, <2>3, <2>4, <2>5 DEF QueuesOf, Reader, Width
<1>8. CASE query = 5
  <2>1. Done(<<"percentile_agg", 0>>, c)
    BY <1>8 DEF Answerer
  <2>2. ASSUME NEW j \in 0..(Joiners - 1) PROVE Done(<<"joiner_percentile", j>>, c)
    <3>1. /\ "joined_percentile" \in QueuesOf(query) /\ "joined_percentile" \notin Gateways /\ 0 \in 0..(Width("joined_percentile") - 1)
          /\ Done(<<Reader["joined_percentile"], 0>>, c)
      BY <1>8, <2>1 DEF QueuesOf, Gateways, Width, Reader
    <3>2. <<"joiner_percentile", j>> \in EndSenders(<<"joined_percentile", 0>>)
      BY DEF EndSenders, Gateways, FanIns, Writer
    <3> QED BY <3>1, <3>2, Behind
  <2>3. Done(<<"action", 0>>, c)
    <3>1. /\ "action_q5" \in QueuesOf(query) /\ "action_q5" \notin Gateways /\ 0 \in 0..(Width("action_q5") - 1)
          /\ Done(<<Reader["action_q5"], 0>>, c)
      BY <1>8, <2>2 DEF QueuesOf, Gateways, Width, Reader
    <3>2. <<"action", 0>> \in EndSenders(<<"action_q5", 0>>)
      BY DEF EndSenders, Gateways, FanIns, Writer
    <3> QED BY <3>1, <3>2, Behind
  <2>4. Done(<<"review", 0>>, c)
    <3>1. /\ "reviews_q5" \in QueuesOf(query) /\ "reviews_q5" \notin Gateways /\ 0 \in 0..(Width("reviews_q5") - 1)
          /\ Done(<<Reader["reviews_q5"], 0>>, c)
      BY <1>8, <2>2 DEF QueuesOf, Gateways, Width, Reader
    <3>2. <<"review", 0>> \in EndSenders(<<"reviews_q5", 0>>)
      BY DEF EndSenders, Gateways, FanIns, Writer
    <3> QED BY <3>1, <3>2, Behind
  <2> QED BY <1>3, <1>8, <2>1, <2>2, <2>3, <2>4 DEF QueuesOf, Reader, Width
<1> QED BY <1>1, <1>4, <1>5, <1>6, <1>7, <1>8

(* What is done with a client has taken all there is of it.                *)
LEMMA DoneIsAll ==
  ASSUME Shapes, LogIsTaken, EofBehindData, NEW k \in Queues[query], NEW c \in Clients,
         Done(NodeOf(k), c), NEW i \in PlacesOf(k, c)
  PROVE  i <= taken[k]
<1>1. k \in Inputs(NodeOf(k)) /\ k \in DOMAIN sent /\ NodeOf(k) \in Nodes[query] /\ query \in 1..5
  BY DEF Inputs, Shapes, Nodes
<1>2. Cardinality(EndsAmong(Handled(NodeOf(k)), k, c)) = EndsIn(k)
  BY <1>1 DEF Done, DoneAmong
<1>3. /\ Cardinality(Ends(k, c)) = EndsIn(k)
      /\ EndsAmong(Handled(NodeOf(k)), k, c) = Ends(k, c)
  BY <1>2, EndsAreFinite, NoEndTooMuch, EndsInIsNat
<1>4. PICK e \in Ends(k, c) : i <= e
  BY <1>1, <1>3, EndsInIsNat DEF EofBehindData
<1>5. [from |-> k, at |-> e] \in Handled(NodeOf(k))
  BY <1>3 DEF EndsAmong
<1>6. \A f \in Handled(NodeOf(k)) : f.at \in 1..taken[f.from]
  BY <1>1 DEF LogIsTaken
<1>7. e \in 1..taken[k]
  BY <1>5, <1>6
<1>8. taken[k] \in Nat /\ i \in Nat
  BY DEF Shapes, PlacesOf
<1> QED BY <1>4, <1>7, <1>8

(* So an answered client is forgotten.                                     *)
LEMMA DoneIsForgotten ==
  ASSUME NetworkInvariant
  PROVE  ClientForgotten
<1> SUFFICES ASSUME NEW c \in Clients, Answered(c)
             PROVE  /\ \A n \in DOMAIN rec : rec[n][c] = New(n)
                    /\ \A k \in DOMAIN sent : \A i \in PlacesOf(k, c) : i <= taken[k]
  BY DEF ClientForgotten
<1>1. DOMAIN rec = Nodes[query] /\ DOMAIN sent = Queues[query] /\ IsSeq(reports) /\ query \in 1..5
  BY DEF NetworkInvariant, Shapes
<1>2. PICK i \in 1..Len(reports) : reports[i].client = c /\ IsLast(reports[i])
  <2>1. Range(reports) = {reports[i] : i \in 1..Len(reports)}
    BY <1>1 DEF Range, IsSeq
  <2> QED BY <2>1 DEF Answered
<1>3. Done(Answerer, c)
  BY <1>2 DEF NetworkInvariant, AnswerIsLast
<1>4. \A n \in Nodes[query] : Done(n, c)
  BY <1>3, AllDone DEF NetworkInvariant
<1>5. \A n \in Nodes[query] : rec[n][c] = New(n)
  BY <1>4 DEF NetworkInvariant, RecsFit, RecFits, Done
<1>6. ASSUME NEW k \in Queues[query], NEW j \in PlacesOf(k, c) PROVE j <= taken[k]
  <2>1. NodeOf(k) \in Nodes[query]
    BY <1>1 DEF Nodes
  <2> QED BY <1>4, <2>1, DoneIsAll DEF NetworkInvariant
<1> QED BY <1>1, <1>5, <1>6

(* Node n takes message m, at place i of queue k, and makes o of it.       *)
Takes(k, n, i, m, o) ==
  /\ n = NodeOf(k) /\ i = taken[k] + 1 /\ i \in 1..Len(sent[k]) /\ m = sent[k][i]
  /\ o \in Process(n, rec[n][m.client], m)
  /\ rec' = [rec EXCEPT ![n][m.client] = o.rec]
  /\ sent' = [q \in DOMAIN sent |-> sent[q] \o Published(o.out, q)]
  /\ reports' = reports \o Published(o.out, Reports)
  /\ log' = [log EXCEPT ![n] = Append(@, [from |-> k, at |-> i])]
  /\ taken' = [taken EXCEPT ![k] = @ + 1]
  /\ query' = query /\ upload' = upload

(* A step of a node takes the next message.                                *)
LEMMA HandleTakes ==
  ASSUME NetworkInvariant, NEW k \in Queues[query], Handle(k)
  PROVE  \E o : Takes(k, NodeOf(k), taken[k] + 1, sent[k][taken[k] + 1], o)
<1> DEFINE n == NodeOf(k)
           i == taken[k] + 1
           m == sent[k][i]
<1>1. taken[k] \in Nat /\ Len(sent[k]) \in Nat
  BY DEF NetworkInvariant, Shapes, IsSeq
<1>2. i \in 1..Len(sent[k])
  BY <1>1 DEF Handle
<1>3. Message([from |-> k, at |-> taken[k] + 1]) = m
  BY DEF Message
<1>4. PICK o \in Process(n, rec[n][m.client], m) :
           /\ rec' = [rec EXCEPT ![n][m.client] = o.rec]
           /\ sent' = [q \in DOMAIN sent |-> sent[q] \o Published(o.out, q)]
           /\ reports' = reports \o Published(o.out, Reports)
           /\ log' = [log EXCEPT ![n] = Append(@, [from |-> k, at |-> taken[k] + 1])]
  BY <1>3 DEF Handle
<1>5. taken' = [taken EXCEPT ![k] = @ + 1] /\ query' = query /\ upload' = upload
  BY DEF Handle
<1>6. Takes(k, n, i, m, o)
  BY <1>2, <1>4, <1>5 DEF Takes
<1> QED BY <1>6

(* What a node has handled is older than what it takes.                    *)
LEMMA HandledBefore ==
  ASSUME Shapes, LogIsTaken, NEW n \in Nodes[query], NEW f \in Handled(n)
  PROVE  /\ f = [from |-> f.from, at |-> f.at] /\ f.from \in Queues[query] /\ NodeOf(f.from) = n
         /\ f.at \in 1..taken[f.from] /\ f.at \in 1..Len(sent[f.from])
<1>1. PICK j \in DOMAIN log[n] : f = log[n][j]
  BY DEF Handled, Range
<1>2. log[n] \in Seq([from : Queues[query], at : Nat])
  BY DEF Shapes
<1>3. f \in [from : Queues[query], at : Nat]
  <2> DEFINE S == [from : Queues[query], at : Nat]
             t == log[n]
  <2>1. t \in Seq(S) /\ j \in DOMAIN t /\ f = t[j]
    BY <1>1, <1>2
  <2> HIDE DEF S, t
  <2>2. f \in S
    BY <2>1
  <2> QED BY <2>2 DEF S
<1>4. f.at \in 1..taken[f.from] /\ NodeOf(f.from) = n
  BY DEF LogIsTaken
<1>5. taken[f.from] \in Nat /\ Len(sent[f.from]) \in Nat /\ taken[f.from] <= Len(sent[f.from])
  BY <1>3 DEF Shapes, IsSeq
<1> QED BY <1>3, <1>4, <1>5

(* What a node makes of the message it takes, by its part (NodesRespect) and*)
(* what it knows of the ends of file (RecordStep).                         *)
LEMMA TakesFacts ==
  ASSUME NetworkInvariant, NEW k \in Queues[query], NEW n, NEW i, NEW m, NEW o, Takes(k, n, i, m, o),
         NEW c, c = m.client, NEW F, Adds(F, Handled(n), k, i)
  PROVE  /\ query \in 1..5 /\ n \in Nodes[query] /\ c \in Clients
         /\ ~ Done(n, c)
         /\ RecFits(F, n, c, o.rec)
         /\ \A q \in Queues[query] :
              LET P == Published(o.out, q)
              IN  /\ Arrives(n, c, q, P)
                  /\ \A x \in 1..Len(P) : IsEof(P[x]) => DoneAmong(F, n, c)
                  /\ DoneAmong(F, n, c) /\ n \in EndSenders(q) => Len(P) \in 1..Len(P) /\ IsEof(P[Len(P)])
         /\ LET P == Published(o.out, Reports)
            IN  /\ Answers(n, c, P)
                /\ \A x \in 1..Len(P) :
                     \/ ~ IsEof(P[x]) /\ n[1] \in {"counter_agg", "percentile_agg"}
                     \/ x = Len(P) /\ DoneAmong(F, n, c)
<1> DEFINE r == rec[n][c]
<1>1. /\ query \in 1..5 /\ n = NodeOf(k) /\ i = taken[k] + 1 /\ i \in 1..Len(sent[k]) /\ m = sent[k][i]
      /\ o \in Process(n, r, m) /\ taken[k] \in Nat
      /\ Shapes /\ Carries /\ LogIsTaken /\ EofBehindData
  BY DEF NetworkInvariant, Shapes, Takes
<1>2. n \in Nodes[query] /\ \A q \in Queues[query] : q \in AllQueues
  BY <1>1, QueueOf DEF Nodes
<1>3. Carried(k, m) /\ c \in Clients
  BY <1>1 DEF Carries, Carried
<1>4. RecFits(Handled(n), n, c, r)
  BY <1>2, <1>3 DEF NetworkInvariant, RecsFit
<1>5. \A f \in Handled(n) : f.from = k => f.at < i
  <2> SUFFICES ASSUME NEW f \in Handled(n), f.from = k PROVE f.at < i
    OBVIOUS
  <2>1. f.at \in 1..taken[k]
    BY <1>1, <1>2, HandledBefore
  <2> QED BY <1>1, <2>1
<1> HIDE DEF r
<1>6. /\ ~ DoneAmong(Handled(n), n, c)
      /\ Ending(n, r, m) <=> DoneAmong(F, n, c)
      /\ Settles(n, r, m, o.rec) => RecFits(F, n, c, o.rec)
  <2>1. /\ Shapes /\ Carries /\ EofBehindData
        /\ i \in 1..Len(sent[k]) /\ n = NodeOf(k) /\ m = sent[k][i] /\ k \in Queues[query]
    BY <1>1
  <2> QED BY ONLY <1>4, <1>5, <2>1, c = m.client, Adds(F, Handled(n), k, i), RecordStep
<1>7. Respects(n, r, m)
  BY <1>1, <1>2, <1>3, <1>4, NodesRespect DEF RecFits
<1>8. /\ IF Ending(n, r, m) THEN Finishes(n, c, o.out) ELSE Continues(n, c, o.out)
      /\ Settles(n, r, m, o.rec)
  BY <1>1, <1>7 DEF Respects
<1>9. ASSUME NEW q \in Queues[query]
      PROVE  LET P == Published(o.out, q)
             IN  /\ Arrives(n, c, q, P)
                 /\ \A x \in 1..Len(P) : IsEof(P[x]) => DoneAmong(F, n, c)
                 /\ DoneAmong(F, n, c) /\ n \in EndSenders(q) => Len(P) \in 1..Len(P) /\ IsEof(P[Len(P)])
  BY <1>2, <1>6, <1>8, Arrival
<1>10. LET P == Published(o.out, Reports)
       IN  /\ Answers(n, c, P)
           /\ \A x \in 1..Len(P) :
                \/ ~ IsEof(P[x]) /\ n[1] \in {"counter_agg", "percentile_agg"}
                \/ x = Len(P) /\ DoneAmong(F, n, c)
  BY <1>6, <1>8, Answer
<1>11. ~ Done(n, c)
  BY <1>6 DEF Done
<1> QED BY <1>1, <1>2, <1>3, <1>6, <1>8, <1>9, <1>10, <1>11

(* Sequence t is s with P behind it.                                       *)
Grows(s, P, t) ==
  /\ IsSeq(t)
  /\ Len(s) \in Nat /\ Len(P) \in Nat /\ Len(t) = Len(s) + Len(P)
  /\ \A x \in 1..Len(s) : t[x] = s[x]
  /\ \A x \in 1..Len(P) : t[Len(s) + x] = P[x]
  /\ \A x \in 1..Len(t) : ~ x <= Len(s) => x - Len(s) \in 1..Len(P) /\ t[x] = P[x - Len(s)]
  /\ Len(P) = 0 => t = s

(* Concatenation grows.                                                    *)
LEMMA Growth ==
  ASSUME NEW s, NEW P, IsSeq(s), IsSeq(P)
  PROVE  Grows(s, P, s \o P)
<1> DEFINE t == s \o P
<1>5. IsSeq(s) /\ IsSeq(P) /\ Len(s) \in Nat /\ Len(P) \in Nat
  BY DEF IsSeq
<1>1. /\ IsSeq(t) /\ Len(t) = Len(s) + Len(P)
      /\ Len(s) \in Nat /\ Len(P) \in Nat
      /\ \A x \in 1..Len(s) : t[x] = s[x]
      /\ \A x \in 1..Len(P) : t[Len(s) + x] = P[x]
      /\ \A x \in 1..Len(t) : t[x] = IF x <= Len(s) THEN s[x] ELSE P[x - Len(s)]
  BY <1>5, Concatenated
<1> HIDE DEF t
<1>2. ASSUME Len(P) = 0 PROVE t = s
  <2>1. Len(t) = Len(s) /\ \A x \in 1..Len(t) : t[x] = s[x]
    BY <1>1, <1>2
  <2> QED BY <1>1, <2>1, SameSeq
<1>3. ASSUME NEW x \in 1..Len(t), ~ x <= Len(s)
      PROVE  x - Len(s) \in 1..Len(P) /\ t[x] = P[x - Len(s)]
  BY <1>1, <1>3
<1>4. Grows(s, P, t)
  BY <1>1, <1>2, <1>3 DEF Grows
<1> QED BY <1>4 DEF t

(* A queue has what it had, and what was published to it behind.           *)
LEMMA QueueGrows ==
  ASSUME NetworkInvariant, NEW k \in Queues[query], NEW n, NEW i, NEW m, NEW o, Takes(k, n, i, m, o),
         NEW q \in Queues[query]
  PROVE  Grows(sent[q], Published(o.out, q), sent'[q])
<1> DEFINE P == Published(o.out, q)
<1>1. q \in DOMAIN sent /\ IsSeq(sent[q])
  BY DEF NetworkInvariant, Shapes
<1>2. sent'[q] = sent[q] \o P
  BY <1>1 DEF Takes
<1>3. PICK F : Adds(F, Handled(n), k, i)
  BY DEF Adds
<1>4. IsSeq(P)
  BY <1>3, TakesFacts DEF Arrives
<1> HIDE DEF P
<1>5. Grows(sent[q], P, sent[q] \o P)
  BY <1>1, <1>4, Growth
<1>6. Grows(sent[q], P, sent'[q])
  BY <1>2, <1>5
<1> QED BY <1>6 DEF P

(* The places of a client in a queue, and its ends of file, a step later.  *)
LEMMA PlacesAfter ==
  ASSUME NetworkInvariant, NEW k \in Queues[query], NEW n, NEW i, NEW m, NEW o, Takes(k, n, i, m, o),
         NEW c, c = m.client, NEW q \in Queues[query], NEW P, P = Published(o.out, q), NEW d, NEW x
  PROVE  /\ x \in PlacesOf(q, d)' <=>
              \/ x \in PlacesOf(q, d)
              \/ d = c /\ x \in 1..Len(sent'[q]) /\ ~ x <= Len(sent[q])
         /\ x \in Ends(q, d)' <=>
              \/ x \in Ends(q, d)
              \/ d = c /\ x = Len(sent'[q]) /\ Len(P) \in 1..Len(P) /\ IsEof(P[Len(P)])
<1>1. PICK F : Adds(F, Handled(n), k, i)
  BY DEF Adds
<1>2. Arrives(n, c, q, P)
  BY <1>1, TakesFacts
<1>3. \A y \in 1..Len(P) : P[y].client = c /\ (IsEof(P[y]) => y = Len(P))
  BY <1>2 DEF Arrives
<1> DEFINE l == Len(sent[q])
           t == sent'[q]
<1>4. /\ l \in Nat /\ Len(P) \in Nat /\ Len(t) = l + Len(P)
      /\ \A y \in 1..l : t[y] = sent[q][y]
      /\ \A y \in 1..Len(P) : t[l + y] = P[y]
      /\ \A y \in 1..Len(t) : ~ y <= l => y - l \in 1..Len(P) /\ t[y] = P[y - l]
  <2>1. Grows(sent[q], P, sent'[q])
    BY QueueGrows
  <2> QED BY ONLY <2>1 DEF Grows
<1>5. x \in PlacesOf(q, d)' <=> x \in 1..Len(t) /\ t[x].client = d
  BY DEF PlacesOf
<1>6. x \in PlacesOf(q, d) <=> x \in 1..l /\ sent[q][x].client = d
  BY DEF PlacesOf
<1>7. x \in Ends(q, d)' <=> x \in PlacesOf(q, d)' /\ IsEof(t[x])
  BY DEF Ends
<1>8. x \in Ends(q, d) <=> x \in PlacesOf(q, d) /\ IsEof(sent[q][x])
  BY DEF Ends
<1> HIDE DEF l, t
<1>9. CASE x \in 1..l
  <2>1. x \in 1..Len(t) /\ t[x] = sent[q][x] /\ x <= l
    BY <1>4, <1>9
  <2>2. ~ (x = Len(t) /\ Len(P) \in 1..Len(P))
    BY <1>4, <1>9
  <2> QED BY <1>5, <1>6, <1>7, <1>8, <1>9, <2>1, <2>2 DEF l, t
<1>10. CASE x \in 1..Len(t) /\ x \notin 1..l
  <2>1. ~ x <= l /\ x - l \in 1..Len(P) /\ t[x] = P[x - l]
    BY <1>4, <1>10
  <2>2. x - l = Len(P) <=> x = Len(t)
    BY <1>4, <1>10
  <2>3. x = Len(t) => Len(P) \in 1..Len(P) /\ t[x] = P[Len(P)]
    BY <2>1, <2>2
  <2>4. IsEof(t[x]) <=> x = Len(t) /\ IsEof(P[Len(P)])
    BY <1>3, <2>1, <2>2
  <2> QED BY <1>3, <1>5, <1>6, <1>7, <1>8, <1>10, <2>1, <2>3, <2>4 DEF l, t
<1>11. CASE x \notin 1..Len(t)
  <2>1. x \notin 1..l
    BY <1>4, <1>11
  <2>2. x = Len(t) => Len(P) \notin 1..Len(P)
    BY <1>4, <1>11
  <2> QED BY <1>5, <1>6, <1>7, <1>8, <1>11, <2>1, <2>2 DEF l, t
<1> QED BY <1>9, <1>10, <1>11

(* The log has the message taken, and no other log changes.                *)
LEMMA HandledAfter ==
  ASSUME NetworkInvariant, NEW k \in Queues[query], NEW n, NEW i, NEW m, NEW o, Takes(k, n, i, m, o)
  PROVE  /\ Adds(Handled(n)', Handled(n), k, i)
         /\ \A n2 \in Nodes[query] : n2 # n => Handled(n2)' = Handled(n2)
<1>1. PICK F : Adds(F, Handled(n), k, i)
  BY DEF Adds
<1>2. n \in Nodes[query]
  BY <1>1, TakesFacts
<1> DEFINE S == [from : Queues[query], at : Nat]
           e == [from |-> k, at |-> i]
<1>3. log \in [Nodes[query] -> Seq(S)]
  BY DEF NetworkInvariant, Shapes
<1>4. log' = [log EXCEPT ![n] = Append(log[n], e)]
  BY DEF Takes
<1> HIDE DEF S, e
<1>5. log'[n] = Append(log[n], e) /\ log[n] \in Seq(S)
  BY <1>2, <1>3, <1>4
<1>6. \A n2 \in Nodes[query] : n2 # n => log'[n2] = log[n2]
  BY <1>3, <1>4
<1>7. Range(Append(log[n], e)) = Range(log[n]) \union {e}
  <2> DEFINE s == log[n]
             t == Append(s, e)
  <2>1. Len(s) \in Nat /\ DOMAIN s = 1..Len(s)
    BY <1>5
  <2>2. /\ DOMAIN t = 1..(Len(s) + 1) /\ t[Len(s) + 1] = e
        /\ \A j \in 1..Len(s) : t[j] = s[j]
    BY <1>5
  <2> HIDE DEF s, t
  <2>3. \A x : x \in Range(t) <=> \E j \in DOMAIN t : t[j] = x
    BY DEF Range
  <2>4. \A x : x \in Range(s) <=> \E j \in DOMAIN s : s[j] = x
    BY DEF Range
  <2>5. \A j \in DOMAIN t : j \in DOMAIN s \/ j = Len(s) + 1
    BY <2>1, <2>2
  <2>6. DOMAIN s \subseteq DOMAIN t /\ Len(s) + 1 \in DOMAIN t
    BY <2>1, <2>2
  <2>7. \A x : x \in Range(t) <=> x \in Range(s) \/ x = e
    BY <2>1, <2>2, <2>3, <2>4, <2>5, <2>6
  <2>8. Range(t) = Range(s) \union {e}
    BY ONLY <2>7
  <2> QED BY <2>8 DEF s, t
<1>8. Handled(n)' = Handled(n) \union {e}
  BY <1>5, <1>7 DEF Handled
<1>9. \A n2 \in Nodes[query] : n2 # n => Handled(n2)' = Handled(n2)
  BY <1>6 DEF Handled
<1> QED BY <1>8, <1>9 DEF Adds, e

(* What was handled before the step is not an end of file that came in it. *)
LEMMA EndsAmongAfter ==
  ASSUME NetworkInvariant, NEW k \in Queues[query], NEW n, NEW i, NEW m, NEW o, Takes(k, n, i, m, o),
         NEW q \in Queues[query], NEW d, NEW E, \A f \in E : f.from = q => f.at \in 1..Len(sent[q])
  PROVE  EndsAmong(E, q, d)' = EndsAmong(E, q, d)
<1> SUFFICES ASSUME NEW x PROVE x \in EndsAmong(E, q, d)' <=> x \in EndsAmong(E, q, d)
  OBVIOUS
<1>1. x \in EndsAmong(E, q, d)' <=> x \in Ends(q, d)' /\ [from |-> q, at |-> x] \in E
  BY DEF EndsAmong
<1>2. x \in EndsAmong(E, q, d) <=> x \in Ends(q, d) /\ [from |-> q, at |-> x] \in E
  BY DEF EndsAmong
<1>3. [from |-> q, at |-> x] \in E => x \in 1..Len(sent[q])
  <2>1. [from |-> q, at |-> x].from = q /\ [from |-> q, at |-> x].at = x
    OBVIOUS
  <2> QED BY <2>1
<1> DEFINE P == Published(o.out, q)
<1>8. P = Published(o.out, q)
  OBVIOUS
<1> HIDE DEF P
<1>4. /\ Len(sent[q]) \in Nat /\ Len(P) \in Nat /\ Len(sent'[q]) = Len(sent[q]) + Len(P)
  <2>1. Grows(sent[q], P, sent'[q])
    BY QueueGrows DEF P
  <2> QED BY <2>1 DEF Grows
<1>5. x \in Ends(q, d)' => x \in Ends(q, d) \/ (x = Len(sent'[q]) /\ Len(P) \in 1..Len(P))
  BY <1>8, PlacesAfter
<1>6. x \in Ends(q, d) => x \in Ends(q, d)'
  BY <1>8, PlacesAfter
<1>7. x \in 1..Len(sent[q]) => ~ (x = Len(sent'[q]) /\ Len(P) \in 1..Len(P))
  BY <1>4
<1> QED BY <1>1, <1>2, <1>3, <1>5, <1>6, <1>7

(* A step changes for one node and one client whether it is done.          *)
LEMMA DoneAfter ==
  ASSUME NetworkInvariant, NEW k \in Queues[query], NEW n, NEW i, NEW m, NEW o, Takes(k, n, i, m, o),
         NEW c, c = m.client, NEW F, Adds(F, Handled(n), k, i), NEW n2 \in Nodes[query], NEW d \in Clients
  PROVE  /\ n2 = n /\ d = c => (Done(n2, d)' <=> DoneAmong(F, n, c))
         /\ ~ (n2 = n /\ d = c) => (Done(n2, d)' <=> Done(n2, d))
         /\ \A q \in Inputs(n2) : EndsAmong(Handled(n2), q, d)' = EndsAmong(Handled(n2)', q, d)
<1>1. Inputs(n2)' = Inputs(n2) /\ \A q \in Inputs(n2) : q \in Queues[query]
  BY DEF Inputs, Takes
<1>2. F = Handled(n)'
  BY HandledAfter DEF Adds
<1>3. i \in 1..Len(sent[k]) /\ m = sent[k][i] /\ n = NodeOf(k)
  BY DEF Takes
<1>4. ASSUME NEW f \in Handled(n2)' PROVE f.from \in Queues[query] /\ f.at \in 1..Len(sent[f.from])
  <2>1. f \in Handled(n2) \/ (n2 = n /\ f = [from |-> k, at |-> i])
    BY <1>4, HandledAfter DEF Adds
  <2>2. CASE f \in Handled(n2)
    BY <2>2, HandledBefore DEF NetworkInvariant
  <2>3. CASE f = [from |-> k, at |-> i]
    <3>1. f.from = k /\ f.at = i
      BY <2>3
    <3> QED BY <1>3, <3>1
  <2> QED BY <2>1, <2>2, <2>3
<1>5. ASSUME NEW q \in Inputs(n2) PROVE EndsAmong(Handled(n2), q, d)' = EndsAmong(Handled(n2)', q, d)
  <2>1. q \in Queues[query]
    BY <1>1
  <2>2. \A f \in Handled(n2)' : f.from = q => f.at \in 1..Len(sent[q])
    BY <1>4
  <2> QED BY <2>1, <2>2, EndsAmongAfter
<1>6. Done(n2, d)' <=> \A q \in Inputs(n2) : Cardinality(EndsAmong(Handled(n2)', q, d)) = EndsIn(q)
  <2>1. Done(n2, d)' <=> \A q \in Inputs(n2)' : Cardinality(EndsAmong(Handled(n2), q, d)') = EndsIn(q)
    BY DEF Done, DoneAmong
  <2> QED BY <1>1, <1>5, <2>1
<1>7. CASE n2 = n /\ d = c
  BY <1>2, <1>5, <1>6, <1>7 DEF DoneAmong
<1>8. CASE ~ (n2 = n /\ d = c)
  <2>1. \A q \in Inputs(n2) : EndsAmong(Handled(n2)', q, d) = EndsAmong(Handled(n2), q, d)
    <3>1. CASE n2 # n
      BY <3>1, HandledAfter
    <3>2. CASE n2 = n /\ d # c
      <4> SUFFICES ASSUME NEW q \in Inputs(n2)
                   PROVE  EndsAmong(F, q, d) = EndsAmong(Handled(n), q, d)
        BY <1>2, <3>2
      <4>1. \A j : j \in EndsAmong(F, q, d) <=> j \in EndsAmong(Handled(n), q, d)
        BY <1>3, <3>2, EndsWithOneMore
      <4> QED BY ONLY <4>1
    <3> QED BY <1>8, <3>1, <3>2
  <2> QED BY <1>5, <1>6, <1>8, <2>1 DEF Done, DoneAmong
<1> QED BY <1>5, <1>7, <1>8

(* What a step leaves, part by part of the invariant: the shapes,          *)
LEMMA ShapesAfter ==
  ASSUME NetworkInvariant, NEW k \in Queues[query], NEW n, NEW i, NEW m, NEW o, Takes(k, n, i, m, o)
  PROVE  Shapes'
<1> DEFINE c == m.client
           e == [from |-> k, at |-> i]
           r == rec[n]
           S == [from : Queues[query], at : Nat]
<1>1. Shapes /\ query' = query /\ upload' = upload
  BY DEF NetworkInvariant, Takes
<1>2. PICK F : Adds(F, Handled(n), k, i)
  BY DEF Adds
<1>3. n \in Nodes[query] /\ c \in Clients /\ Answers(n, c, Published(o.out, Reports))
  BY <1>2, TakesFacts
<1>4. sent' = [q \in Queues[query] |-> sent[q] \o Published(o.out, q)]
  BY <1>1 DEF Takes, Shapes
<1>5. sent' = [q \in Queues[query] |-> sent'[q]]
  <2>1. \A q \in Queues[query] : sent'[q] = sent[q] \o Published(o.out, q)
    BY <1>4
  <2> QED BY <1>4, <2>1
<1>6. \A q \in Queues[query] : IsSeq(sent'[q]) /\ Len(sent[q]) <= Len(sent'[q]) /\ Len(sent[q]) \in Nat
                               /\ Len(sent'[q]) \in Nat
  <2> SUFFICES ASSUME NEW q \in Queues[query]
               PROVE  /\ IsSeq(sent'[q]) /\ Len(sent[q]) <= Len(sent'[q]) /\ Len(sent[q]) \in Nat
                      /\ Len(sent'[q]) \in Nat
    OBVIOUS
  <2>1. Grows(sent[q], Published(o.out, q), sent'[q])
    BY QueueGrows
  <2>2. /\ IsSeq(sent'[q]) /\ Len(sent[q]) \in Nat /\ Len(Published(o.out, q)) \in Nat
        /\ Len(sent'[q]) = Len(sent[q]) + Len(Published(o.out, q))
    BY <2>1 DEF Grows
  <2> DEFINE l == Len(sent[q])
             l2 == Len(sent'[q])
             lp == Len(Published(o.out, q))
  <2>3. IsSeq(sent'[q]) /\ l \in Nat /\ lp \in Nat /\ l2 = l + lp
    BY <2>2
  <2> HIDE DEF l, l2, lp
  <2>4. IsSeq(sent'[q]) /\ l <= l2 /\ l \in Nat /\ l2 \in Nat
    BY <2>3
  <2> QED BY <2>4 DEF l, l2
<1>7. taken' = [taken EXCEPT ![k] = taken[k] + 1] /\ taken \in [Queues[query] -> Nat] /\ taken[k] + 1 \in 1..Len(sent[k])
  BY <1>1 DEF Takes, Shapes
<1>8. taken' \in [Queues[query] -> Nat]
  BY <1>7
<1>9. ASSUME NEW q \in Queues[query] PROVE taken'[q] <= Len(sent'[q])
  <2>1. taken[q] <= Len(sent[q]) /\ taken[q] \in Nat
    BY <1>1 DEF Shapes
  <2>2. taken'[q] = IF q = k THEN taken[q] + 1 ELSE taken[q]
    BY <1>7
  <2> QED BY <1>6, <1>7, <2>1, <2>2
<1>10. rec' = [rec EXCEPT ![n][c] = o.rec] /\ rec = [n2 \in Nodes[query] |-> [d \in Clients |-> rec[n2][d]]]
  BY <1>1 DEF Takes, Shapes
<1>11. rec' = [n2 \in Nodes[query] |-> [d \in Clients |-> rec'[n2][d]]]
  <2> HIDE DEF c
  <2> DEFINE R(n2, d) == IF n2 = n /\ d = c THEN o.rec ELSE rec[n2][d]
  <2>1. rec' = [n2 \in Nodes[query] |-> [d \in Clients |-> R(n2, d)]]
    BY <1>3, <1>10
  <2> HIDE DEF R
  <2>2. \A n2 \in Nodes[query] : \A d \in Clients : rec'[n2][d] = R(n2, d)
    BY <2>1
  <2> QED BY <2>1, <2>2
<1>12. log' = [log EXCEPT ![n] = Append(log[n], e)] /\ log \in [Nodes[query] -> Seq(S)]
  BY <1>1 DEF Takes, Shapes
<1>13. log' \in [Nodes[query] -> Seq(S)]
  <2>1. e \in S
    BY <1>7 DEF Takes
  <2> HIDE DEF e, S
  <2>2. Append(log[n], e) \in Seq(S)
    BY <1>3, <1>12, <2>1
  <2> QED BY <1>3, <1>12, <2>2
<1>14. IsSeq(reports')
  <2>1. reports' = reports \o Published(o.out, Reports) /\ IsSeq(reports) /\ IsSeq(Published(o.out, Reports))
    BY <1>1, <1>3 DEF Takes, Shapes, Answers
  <2>2. IsSeq(reports \o Published(o.out, Reports))
    BY <2>1, Concatenated
  <2> QED BY <2>1, <2>2
<1> HIDE DEF c, e, r
<1> QED BY <1>1, <1>5, <1>6, <1>8, <1>9, <1>11, <1>13, <1>14 DEF Shapes

(* the queues of the gateway,                                              *)
LEMMA UploadedAfter ==
  ASSUME NetworkInvariant, NEW k \in Queues[query], NEW n, NEW i, NEW m, NEW o, Takes(k, n, i, m, o)
  PROVE  Uploaded'
<1>1. PICK F : Adds(F, Handled(n), k, i)
  BY DEF Adds
<1>2. query' = query /\ upload' = upload /\ query \in 1..5
  BY DEF NetworkInvariant, Shapes, Takes
<1>3. ASSUME NEW q \in Queues[query], q[1] \in Gateways PROVE sent'[q] = sent[q]
  <2> DEFINE P == Published(o.out, q)
  <2>1. Arrives(n, m.client, q, P)
    BY <1>1, TakesFacts
  <2>2. Senders(q) = {}
    BY <1>2, <1>3, SendersOf
  <2>3. \A x \in 1..Len(P) : FALSE
    BY <2>1, <2>2 DEF Arrives
  <2>4. Grows(sent[q], P, sent'[q])
    BY QueueGrows
  <2> HIDE DEF P
  <2>5. Len(P) = 0
    BY <2>3, <2>4 DEF Grows
  <2> QED BY <2>4, <2>5 DEF Grows
<1>4. Uploaded
  BY DEF NetworkInvariant
<1> QED BY <1>2, <1>3, <1>4 DEF Uploaded

(* what the queues carry,                                                  *)
LEMMA CarriesAfter ==
  ASSUME NetworkInvariant, NEW k \in Queues[query], NEW n, NEW i, NEW m, NEW o, Takes(k, n, i, m, o)
  PROVE  Carries'
<1>1. PICK F : Adds(F, Handled(n), k, i)
  BY DEF Adds
<1>2. query' = query
  BY DEF Takes
<1>3. ASSUME NEW q \in Queues[query], NEW x \in 1..Len(sent'[q]) PROVE Carried(q, sent'[q][x])
  <2> DEFINE P == Published(o.out, q)
  <2>1. Arrives(n, m.client, q, P)
    BY <1>1, TakesFacts
  <2>2. Grows(sent[q], P, sent'[q])
    BY QueueGrows
  <2>3. \A y \in 1..Len(sent[q]) : Carried(q, sent[q][y])
    BY DEF NetworkInvariant, Carries
  <2>4. \A y \in 1..Len(P) : Carried(q, P[y])
    BY <2>1 DEF Arrives
  <2> HIDE DEF P
  <2>5. CASE x <= Len(sent[q])
    <3>1. x \in 1..Len(sent[q]) /\ sent'[q][x] = sent[q][x]
      BY <2>2, <2>5 DEF Grows
    <3> QED BY <2>3, <3>1
  <2>6. CASE ~ x <= Len(sent[q])
    <3>1. x - Len(sent[q]) \in 1..Len(P) /\ sent'[q][x] = P[x - Len(sent[q])]
      BY <2>2, <2>6 DEF Grows
    <3> QED BY <2>4, <3>1
  <2> QED BY <2>5, <2>6
<1> QED BY <1>2, <1>3 DEF Carries

(* the logs,                                                               *)
LEMMA LogAfter ==
  ASSUME NetworkInvariant, NEW k \in Queues[query], NEW n, NEW i, NEW m, NEW o, Takes(k, n, i, m, o)
  PROVE  LogIsTaken'
<1> DEFINE e == [from |-> k, at |-> i]
           S == [from : Queues[query], at : Nat]
<1>1. PICK F : Adds(F, Handled(n), k, i)
  BY DEF Adds
<1>2. n \in Nodes[query] /\ n = NodeOf(k) /\ query' = query /\ LogIsTaken /\ Shapes /\ query \in 1..5
  BY <1>1, TakesFacts DEF Takes, NetworkInvariant
<1>3. /\ taken' = [taken EXCEPT ![k] = taken[k] + 1] /\ taken \in [Queues[query] -> Nat]
      /\ i = taken[k] + 1 /\ i \in Nat /\ taken[k] \in Nat
  <2>1. taken \in [Queues[query] -> Nat]
    BY <1>2 DEF Shapes
  <2>2. taken[k] \in Nat
    BY <2>1
  <2> QED BY <2>1, <2>2 DEF Takes
<1>4. \A q \in Queues[query] : taken[q] \in Nat /\ taken'[q] = IF q = k THEN i ELSE taken[q]
  BY <1>3
<1>5. e.from = k /\ e.at = i
  OBVIOUS
<1>6. Handled(n)' = Handled(n) \union {e} /\ \A n2 \in Nodes[query] : n2 # n => Handled(n2)' = Handled(n2)
  BY HandledAfter DEF Adds
<1>7. ASSUME NEW n2 \in Nodes[query], NEW f \in Handled(n2)'
      PROVE  NodeOf(f.from) = n2 /\ f.at \in 1..taken'[f.from]
  <2>1. CASE f \in Handled(n2)
    <3>1. NodeOf(f.from) = n2 /\ f.at \in 1..taken[f.from] /\ f.from \in Queues[query]
      BY <1>2, <2>1, HandledBefore
    <3> QED BY <1>3, <1>4, <3>1
  <2>2. CASE f = e /\ n2 = n
    <3>1. NodeOf(f.from) = n2 /\ f.at = i /\ taken'[f.from] = i
      BY <1>2, <1>4, <1>5, <2>2
    <3> QED BY <1>3, <3>1
  <2> QED BY <1>6, <1>7, <2>1, <2>2
<1>8. ASSUME NEW q \in Queues[query], NEW x \in 1..taken'[q]
      PROVE  [from |-> q, at |-> x] \in Handled(NodeOf(q))'
  <2>0. NodeOf(q) \in Nodes[query]
    BY <1>2 DEF Nodes
  <2>1. CASE x \in 1..taken[q]
    <3>1. [from |-> q, at |-> x] \in Handled(NodeOf(q))
      BY <1>2, <2>1 DEF LogIsTaken
    <3> QED BY <1>6, <2>0, <3>1
  <2>2. CASE x \notin 1..taken[q]
    <3>1. q = k /\ x = i
      BY <1>3, <1>4, <2>2
    <3> QED BY <1>2, <1>6, <3>1
  <2> QED BY <2>1, <2>2
<1>9. ASSUME NEW n2 \in Nodes[query], NEW x \in 1..Len(log'[n2]), NEW y \in 1..Len(log'[n2]),
             x < y, log'[n2][x].from = log'[n2][y].from
      PROVE  log'[n2][x].at < log'[n2][y].at
  <2>1. log' = [log EXCEPT ![n] = Append(log[n], e)] /\ log \in [Nodes[query] -> Seq(S)]
    BY <1>2 DEF Takes, Shapes
  <2> HIDE DEF e, S
  <2>2. \A a \in 1..Len(log[n2]) : \A b \in 1..Len(log[n2]) :
          a < b /\ log[n2][a].from = log[n2][b].from => log[n2][a].at < log[n2][b].at
    BY <1>2 DEF LogIsTaken
  <2>3. CASE n2 # n
    <3>1. log'[n2] = log[n2]
      BY <2>1, <2>3
    <3> QED BY <1>9, <2>2, <3>1
  <2>4. CASE n2 = n
    <3> DEFINE s == log[n]
               t == log'[n]
    <3>1. t = Append(s, e) /\ s \in Seq(S)
      BY <1>2, <2>1
    <3> HIDE DEF s, t
    <3>2. Len(s) \in Nat /\ Len(t) = Len(s) + 1 /\ t[Len(s) + 1] = e /\ \A a \in 1..Len(s) : t[a] = s[a]
      BY <3>1
    <3>3. \A a \in 1..Len(s) : \A b \in 1..Len(s) : a < b /\ s[a].from = s[b].from => s[a].at < s[b].at
      BY <2>2, <2>4 DEF s
    <3>4. x \in 1..Len(t) /\ y \in 1..Len(t) /\ x < y /\ t[x].from = t[y].from
      BY <1>9, <2>4 DEF t
    <3>5. x \in 1..Len(s) /\ t[x] = s[x]
      BY <3>2, <3>4
    <3>6. CASE y \in 1..Len(s)
      <4>1. t[x].at < t[y].at
        BY <3>2, <3>3, <3>4, <3>5, <3>6
      <4> QED BY <2>4, <4>1 DEF t
    <3>7. CASE y \notin 1..Len(s)
      <4>1. y = Len(s) + 1 /\ t[y] = e /\ t[x].from = k
        BY <1>5, <3>2, <3>4, <3>7
      <4>2. t[x] \in Handled(n)
        BY <3>1, <3>2, <3>5 DEF Handled, Range, s
      <4>3. t[x].at \in 1..taken[k]
        BY <1>2, <4>1, <4>2, HandledBefore
      <4>4. t[x].at < t[y].at
        BY <1>3, <1>5, <4>1, <4>3
      <4> QED BY <2>4, <4>4 DEF t
    <3> QED BY <3>6, <3>7
  <2> QED BY <2>3, <2>4
<1> HIDE DEF e, S
<1> QED BY <1>2, <1>7, <1>8, <1>9 DEF LogIsTaken

(* and the ends of file.                                                   *)
LEMMA EndsCountedAfter ==
  ASSUME NetworkInvariant, NEW k \in Queues[query], NEW n, NEW i, NEW m, NEW o, Takes(k, n, i, m, o)
  PROVE  EndsCounted'
<1> DEFINE c == m.client
<1>1. PICK F : Adds(F, Handled(n), k, i)
  BY DEF Adds
<1>2. /\ query' = query /\ query \in 1..5 /\ n \in Nodes[query] /\ c \in Clients
      /\ ~ Done(n, c) /\ EndsCounted /\ Shapes
  BY <1>1, TakesFacts DEF Takes, NetworkInvariant
<1> SUFFICES ASSUME NEW q \in Queues[query], q[1] \notin Gateways, NEW d \in Clients
             PROVE  Cardinality(Ends(q, d)') = Cardinality({n2 \in EndSenders(q) : Done(n2, d)'})
  BY <1>2 DEF EndsCounted
<1> DEFINE P == Published(o.out, q)
           D == {n2 \in EndSenders(q) : Done(n2, d)}
           D2 == {n2 \in EndSenders(q) : Done(n2, d)'}
<1>3. Cardinality(Ends(q, d)) = Cardinality(D)
  BY <1>2 DEF EndsCounted
<1>4. IsFiniteSet(EndSenders(q)) /\ EndSenders(q) \subseteq Nodes[query]
  BY <1>2, SendersOf, EndSendersSend
<1>5. IsFiniteSet(D) /\ IsFiniteSet(Ends(q, d))
  <2>1. D \in SUBSET EndSenders(q)
    OBVIOUS
  <2> QED BY <1>2, <1>4, <2>1, FS_Subset, EndsAreFinite
<1>6. /\ \A n2 \in EndSenders(q) : ~ (n2 = n /\ d = c) => (Done(n2, d)' <=> Done(n2, d))
      /\ n \in EndSenders(q) /\ d = c => (Done(n, c)' <=> DoneAmong(F, n, c))
  BY <1>1, <1>2, <1>4, DoneAfter
<1>7. \A x : x \in Ends(q, d)' <=>
          \/ x \in Ends(q, d)
          \/ d = c /\ x = Len(sent'[q]) /\ Len(P) \in 1..Len(P) /\ IsEof(P[Len(P)])
  BY PlacesAfter
<1>8. /\ Arrives(n, c, q, P)
      /\ \A x \in 1..Len(P) : IsEof(P[x]) => DoneAmong(F, n, c)
      /\ DoneAmong(F, n, c) /\ n \in EndSenders(q) => Len(P) \in 1..Len(P) /\ IsEof(P[Len(P)])
  BY <1>1, TakesFacts
<1>9. Grows(sent[q], P, sent'[q])
  BY QueueGrows
<1> HIDE DEF P, c
<1>10. Len(P) \in 1..Len(P) /\ IsEof(P[Len(P)]) <=> DoneAmong(F, n, c) /\ n \in EndSenders(q)
  BY <1>8 DEF Arrives
<1>11. CASE d = c /\ DoneAmong(F, n, c) /\ n \in EndSenders(q)
  <2>1. D2 = D \union {n} /\ n \notin D
    BY <1>2, <1>6, <1>11
  <2> DEFINE l == Len(sent'[q])
  <2>2. \A x : x \in Ends(q, d)' <=> x \in Ends(q, d) \/ x = l
    BY <1>7, <1>10, <1>11
  <2>3. l \notin Ends(q, d)
    BY <1>9, <1>10, <1>11 DEF Ends, PlacesOf, Grows
  <2> HIDE DEF l, D, D2
  <2>4. Ends(q, d)' = Ends(q, d) \union {l}
    BY ONLY <2>2
  <2>5. Cardinality(D2) = Cardinality(D) + 1
    BY <1>5, <2>1, FS_AddElement
  <2>6. Cardinality(Ends(q, d) \union {l}) = Cardinality(Ends(q, d)) + 1
    BY <1>5, <2>3, FS_AddElement
  <2>7. Cardinality(Ends(q, d)') = Cardinality(D2)
    BY <1>3, <2>4, <2>5, <2>6
  <2> QED BY <2>7 DEF D2
<1>12. CASE ~ (d = c /\ DoneAmong(F, n, c) /\ n \in EndSenders(q))
  <2>1. D2 = D
    BY <1>2, <1>6, <1>12
  <2>2. \A x : x \in Ends(q, d)' <=> x \in Ends(q, d)
    BY <1>7, <1>10, <1>12
  <2> HIDE DEF D, D2
  <2>3. Ends(q, d)' = Ends(q, d)
    BY ONLY <2>2
  <2>4. Cardinality(Ends(q, d)') = Cardinality(D2)
    BY <1>3, <2>1, <2>3
  <2> QED BY <2>4 DEF D2
<1> QED BY <1>11, <1>12

(* A queue that has all its ends of file gets nothing more.                *)
LEMMA EofBehindDataAfter ==
  ASSUME NetworkInvariant, NEW k \in Queues[query], NEW n, NEW i, NEW m, NEW o, Takes(k, n, i, m, o)
  PROVE  EofBehindData'
<1> DEFINE c == m.client
<1>1. PICK F : Adds(F, Handled(n), k, i)
  BY DEF Adds
<1>2. /\ query' = query /\ query \in 1..5 /\ n \in Nodes[query] /\ c \in Clients
      /\ ~ Done(n, c) /\ EndsCounted /\ Shapes /\ EofBehindData
  BY <1>1, TakesFacts DEF Takes, NetworkInvariant
<1>3. DOMAIN sent = Queues[query] /\ DOMAIN sent' = Queues[query]
  BY <1>2, ShapesAfter DEF Shapes
<1> SUFFICES ASSUME NEW q \in Queues[query], NEW d \in Clients, Cardinality(Ends(q, d)') >= EndsIn(q)
             PROVE  /\ Cardinality(Ends(q, d)') = EndsIn(q)
                    /\ \A x \in PlacesOf(q, d)' : \E e \in Ends(q, d)' : x <= e
  BY <1>2, <1>3 DEF EofBehindData
<1> DEFINE P == Published(o.out, q)
           l == Len(sent'[q])
<1>4. \A x : x \in Ends(q, d)' <=>
          \/ x \in Ends(q, d)
          \/ d = c /\ x = l /\ Len(P) \in 1..Len(P) /\ IsEof(P[Len(P)])
  BY PlacesAfter
<1>12. \A x : x \in PlacesOf(q, d)' <=>
           \/ x \in PlacesOf(q, d)
           \/ d = c /\ x \in 1..l /\ ~ x <= Len(sent[q])
  <2> HIDE DEF P
  <2> SUFFICES ASSUME NEW x
               PROVE  x \in PlacesOf(q, d)' <=>
                        \/ x \in PlacesOf(q, d)
                        \/ d = c /\ x \in 1..l /\ ~ x <= Len(sent[q])
    OBVIOUS
  <2> QED BY PlacesAfter
<1>5. Arrives(n, c, q, P)
  BY <1>1, TakesFacts
<1>6. Grows(sent[q], P, sent'[q])
  BY QueueGrows
<1>7. Cardinality(Ends(q, d)) >= EndsIn(q) =>
        /\ Cardinality(Ends(q, d)) = EndsIn(q)
        /\ \A x \in PlacesOf(q, d) : \E e \in Ends(q, d) : x <= e
  BY <1>2, <1>3 DEF EofBehindData
<1>8. IsFiniteSet(Ends(q, d)) /\ Cardinality(Ends(q, d)) \in Nat /\ EndsIn(q) \in Nat
  BY <1>2, EndsAreFinite, EndsInIsNat
<1>9. IsSeq(P) /\ Len(P) \in Nat
  BY <1>5 DEF Arrives, IsSeq
<1> HIDE DEF P, c
<1>10. CASE d # c \/ Len(P) = 0
  <2>1. Len(P) = 0 => l = Len(sent[q]) /\ l \in Nat
    BY <1>6 DEF Grows
  <2> HIDE DEF l
  <2>2. \A x : x \in Ends(q, d)' <=> x \in Ends(q, d)
    BY <1>4, <1>10
  <2>5. \A x : x \in PlacesOf(q, d)' <=> x \in PlacesOf(q, d)
    BY <1>10, <1>12, <2>1
  <2>3. Ends(q, d)' = Ends(q, d) /\ PlacesOf(q, d)' = PlacesOf(q, d)
    BY ONLY <2>2, <2>5
  <2>4. Cardinality(Ends(q, d)) >= EndsIn(q)
    BY <2>3
  <2> QED BY <1>7, <2>3, <2>4
<1>11. CASE d = c /\ Len(P) # 0
  <2>1. Len(P) \in 1..Len(P)
    BY <1>9, <1>11
  <2>2. n \in Senders(q)
    BY <1>5, <2>1 DEF Arrives
  <2>3. q[1] \notin Gateways
    BY <1>2, <2>2, SendersOf
  <2>4. ~ Cardinality(Ends(q, c)) >= EndsIn(q)
    BY <1>2, <2>2, <2>3, SendersDone
  <2>5. l \in Nat /\ l \notin Ends(q, d)
    BY <1>6, <2>1 DEF Ends, PlacesOf, Grows
  <2> HIDE DEF l
  <2>6. ASSUME ~ IsEof(P[Len(P)]) PROVE FALSE
    <3>1. \A x : x \in Ends(q, d)' <=> x \in Ends(q, d)
      BY <1>4, <2>6
    <3>2. Ends(q, d)' = Ends(q, d)
      BY ONLY <3>1
    <3>3. Cardinality(Ends(q, c)) >= EndsIn(q)
      BY <1>11, <3>2
    <3> QED BY <2>4, <3>3
  <2>7. \A x : x \in Ends(q, d)' <=> x \in Ends(q, d) \/ x = l
    BY <1>4, <1>11, <2>1, <2>6
  <2>8. Ends(q, d)' = Ends(q, d) \union {l}
    BY ONLY <2>7
  <2>9. Cardinality(Ends(q, d) \union {l}) = Cardinality(Ends(q, d)) + 1
    BY <1>8, <2>5, FS_AddElement
  <2>10. Cardinality(Ends(q, d)') = Cardinality(Ends(q, d)) + 1
    BY <2>8, <2>9
  <2>11. ~ Cardinality(Ends(q, d)) >= EndsIn(q)
    BY <1>11, <2>4
  <2>12. Cardinality(Ends(q, d)') = EndsIn(q)
    BY <1>8, <2>10, <2>11
  <2>13. \A x \in PlacesOf(q, d)' : x <= l
    <3> SUFFICES ASSUME NEW x \in PlacesOf(q, d)' PROVE x <= l
      OBVIOUS
    <3>1. x \in PlacesOf(q, d) => x \in 1..Len(sent[q])
      BY DEF PlacesOf
    <3>2. Len(sent[q]) \in Nat /\ l = Len(sent[q]) + Len(P)
      BY <1>6 DEF Grows, l
    <3>3. x \in 1..Len(sent[q]) \/ x \in 1..l
      BY <1>12, <3>1
    <3> QED BY <1>9, <2>5, <3>2, <3>3
  <2> QED BY <2>7, <2>12, <2>13
<1> QED BY <1>9, <1>10, <1>11

(* A record fits whatever messages have the same ends of file of a client. *)
LEMMA RecFitsSame ==
  ASSUME NEW E, NEW F, NEW n, NEW d, NEW r, RecFits(E, n, d, r),
         \A q \in Inputs(n) : EndsAmong(F, q, d) = EndsAmong(E, q, d)
  PROVE  RecFits(F, n, d, r)
<1>1. DoneAmong(F, n, d) <=> DoneAmong(E, n, d)
  BY DEF DoneAmong
<1>2. RecCounts(E, n, d, r) => RecCounts(F, n, d, r)
  <2>1. {q \in Inputs(n) : EndsAmong(F, q, d) # {}} = {q \in Inputs(n) : EndsAmong(E, q, d) # {}}
    OBVIOUS
  <2> DEFINE I == {q \in Inputs(n) : EndsAmong(F, q, d) # {}}
             J == {q \in Inputs(n) : EndsAmong(E, q, d) # {}}
  <2>2. I = J
    BY <2>1
  <2> HIDE DEF I, J
  <2>3. {Origin(q) : q \in I} = {Origin(q) : q \in J}
    BY <2>2
  <2> QED BY <2>3 DEF RecCounts, I, J
<1> QED BY <1>1, <1>2 DEF RecFits

(* And it still fits a step later if they are the same then.               *)
LEMMA RecFitsLater ==
  ASSUME NEW E, NEW n, NEW d, NEW r, RecFits(E, n, d, r), query' = query,
         \A q \in Inputs(n) : EndsAmong(E, q, d)' = EndsAmong(E, q, d)
  PROVE  RecFits(E, n, d, r)'
<1>1. Inputs(n)' = Inputs(n)
  BY DEF Inputs
<1>2. DoneAmong(E, n, d)' <=> DoneAmong(E, n, d)
  <2>1. DoneAmong(E, n, d)' <=> \A q \in Inputs(n)' : Cardinality(EndsAmong(E, q, d)') = EndsIn(q)
    BY DEF DoneAmong
  <2> QED BY <1>1, <2>1 DEF DoneAmong
<1>3. RecCounts(E, n, d, r) => RecCounts(E, n, d, r)'
  <2> DEFINE I == {q \in Inputs(n) : EndsAmong(E, q, d) # {}}
             J == {q \in Inputs(n)' : EndsAmong(E, q, d)' # {}}
  <2>1. RecCounts(E, n, d, r)' <=>
          /\ IsJoiner(n) => r.eofs = {Origin(q) : q \in J}
          /\ IsFanIn(n) => \A q \in Inputs(n)' : r.recv = Cardinality(EndsAmong(E, q, d)')
    BY DEF RecCounts
  <2>2. RecCounts(E, n, d, r) <=>
          /\ IsJoiner(n) => r.eofs = {Origin(q) : q \in I}
          /\ IsFanIn(n) => \A q \in Inputs(n) : r.recv = Cardinality(EndsAmong(E, q, d))
    BY DEF RecCounts
  <2>3. I = J
    BY <1>1
  <2> HIDE DEF I, J
  <2>4. {Origin(q) : q \in I} = {Origin(q) : q \in J}
    BY <2>3
  <2> QED BY <1>1, <2>1, <2>2, <2>4
<1> QED BY <1>2, <1>3 DEF RecFits

(* What the nodes know of the ends of file after the step.                 *)
LEMMA RecsFitAfter ==
  ASSUME NetworkInvariant, NEW k \in Queues[query], NEW n, NEW i, NEW m, NEW o, Takes(k, n, i, m, o)
  PROVE  RecsFit'
<1> DEFINE c == m.client
<1>1. PICK F : Adds(F, Handled(n), k, i)
  BY DEF Adds
<1>2. /\ query' = query /\ query \in 1..5 /\ n \in Nodes[query] /\ c \in Clients
      /\ RecFits(F, n, c, o.rec) /\ Shapes /\ RecsFit
      /\ i \in 1..Len(sent[k]) /\ m = sent[k][i]
  BY <1>1, TakesFacts DEF Takes, NetworkInvariant
<1> SUFFICES ASSUME NEW n2 \in Nodes[query], NEW d \in Clients
             PROVE  RecFits(Handled(n2), n2, d, rec[n2][d])'
  BY <1>2 DEF RecsFit
<1>3. PICK G : G = Handled(n2)'
  OBVIOUS
<1>4. PICK r : r = rec'[n2][d]
  OBVIOUS
<1>5. rec = [x \in Nodes[query] |-> [y \in Clients |-> rec[x][y]]] /\ rec' = [rec EXCEPT ![n][c] = o.rec]
  BY <1>2 DEF Shapes, Takes
<1>6. rec'[n2][d] = IF n2 = n /\ d = c THEN o.rec ELSE rec[n2][d]
  <2> HIDE DEF c
  <2> QED BY <1>2, <1>5
<1>7. RecFits(Handled(n2), n2, d, rec[n2][d])
  BY <1>2 DEF RecsFit
<1>8. n2 = n => G = F
  BY <1>1, <1>3, HandledAfter DEF Adds
<1>9. n2 # n => G = Handled(n2)
  BY <1>3, HandledAfter
<1> HIDE DEF c
<1>10. RecFits(G, n2, d, r)
  <2>1. CASE n2 = n /\ d = c
    BY <1>2, <1>4, <1>6, <1>8, <2>1
  <2>2. CASE n2 # n
    BY <1>4, <1>6, <1>7, <1>9, <2>2
  <2>3. CASE n2 = n /\ d # c
    <3>1. ASSUME NEW q \in Inputs(n2) PROVE EndsAmong(F, q, d) = EndsAmong(Handled(n2), q, d)
      <4>1. \A j : j \in EndsAmong(F, q, d) <=> j \in EndsAmong(Handled(n), q, d)
        BY <1>1, <1>2, <2>3, EndsWithOneMore DEF c
      <4>2. EndsAmong(F, q, d) = EndsAmong(Handled(n), q, d)
        BY ONLY <4>1
      <4> QED BY <2>3, <4>2
    <3>2. RecFits(F, n2, d, rec[n2][d])
      BY <1>7, <3>1, RecFitsSame
    <3> QED BY <1>4, <1>6, <1>8, <2>3, <3>2
  <2> QED BY <2>1, <2>2, <2>3
<1>11. \A q \in Inputs(n2) : EndsAmong(G, q, d)' = EndsAmong(G, q, d)
  BY <1>1, <1>3, DoneAfter DEF c
<1>12. RecFits(G, n2, d, r)'
  BY <1>2, <1>10, <1>11, RecFitsLater
<1> QED BY <1>3, <1>4, <1>12

(* The node that answers is not done with the client it answers.           *)
LEMMA ReportsAfter ==
  ASSUME NetworkInvariant, NEW k \in Queues[query], NEW n, NEW i, NEW m, NEW o, Takes(k, n, i, m, o)
  PROVE  AnswerIsLast' /\ NothingAfterResult'
<1> DEFINE c == m.client
           P == Published(o.out, Reports)
           l == Len(reports)
<1>19. PICK t : t = reports'
  OBVIOUS
<1>20. PICK a : a = Answerer
  OBVIOUS
<1>1. PICK F : Adds(F, Handled(n), k, i)
  BY DEF Adds
<1>2. /\ query' = query /\ query \in 1..5 /\ n \in Nodes[query] /\ c \in Clients
      /\ ~ Done(n, c) /\ AnswerIsLast /\ NothingAfterResult /\ Shapes
  BY <1>1, TakesFacts DEF Takes, NetworkInvariant
<1>3. /\ Answers(n, c, P)
      /\ \A x \in 1..Len(P) :
           \/ ~ IsEof(P[x]) /\ n[1] \in {"counter_agg", "percentile_agg"}
           \/ x = Len(P) /\ DoneAmong(F, n, c)
  BY <1>1, TakesFacts
<1>4. Grows(reports, P, t)
  <2>1. IsSeq(reports) /\ IsSeq(P) /\ t = reports \o P
    BY <1>2, <1>3, <1>19 DEF Shapes, Answers, Takes
  <2> QED BY <2>1, Growth
<1>5. Answerer' = a /\ \A p : IsLast(p)' <=> IsLast(p)
  BY <1>2, <1>20 DEF Answerer, IsLast
<1>6. a \in Nodes[query] /\ (n[1] \in Reporters => n = a)
  <2>1. PICK q \in Queues[query] : n = NodeOf(q)
    BY <1>2 DEF Nodes
  <2>2. n = <<Reader[q[1]], q[2]>> /\ q[1] \in QueuesOf(query) /\ q[2] \in 0..(Width(q[1]) - 1)
    BY <1>2, <2>1, QueueOf DEF NodeOf
  <2>3. n[1] \in Reporters => n = Answerer
    BY <1>2, <2>2 DEF Reporters, Answerer, QueuesOf, Reader, Width
  <2>4. \E name \in QueuesOf(query) : 0 \in 0..(Width(name) - 1) /\ Answerer = <<Reader[name], 0>>
    BY <1>2 DEF Answerer, QueuesOf, Reader, Width
  <2>5. PICK name \in QueuesOf(query) : 0 \in 0..(Width(name) - 1) /\ Answerer = <<Reader[name], 0>>
    BY <2>4
  <2>6. <<name, 0>> \in Queues[query] /\ NodeOf(<<name, 0>>) = Answerer
    BY <1>2, <2>5, QueueOf DEF NodeOf
  <2>7. Nodes[query] = {NodeOf(q2) : q2 \in Queues[query]}
    BY <1>2 DEF Nodes
  <2> QED BY <1>20, <2>3, <2>6, <2>7
<1>7. ASSUME NEW d \in Clients, Done(a, d) PROVE Done(a, d)'
  BY <1>1, <1>2, <1>6, <1>7, DoneAfter
<1>8. n = a => (Done(a, c)' <=> DoneAmong(F, n, c))
  BY <1>1, <1>2, DoneAfter
<1>9. \A x \in 1..Len(P) : P[x].client = c /\ n = a
  BY <1>3, <1>6 DEF Answers
<1>10. n[1] \in {"counter_agg", "percentile_agg"} /\ n = a => query \notin 1..3
  BY <1>2, <1>20 DEF Answerer
<1>11. \A x \in 1..Len(P) : IsLast(P[x]) => x = Len(P) /\ DoneAmong(F, n, c)
  BY <1>3, <1>9, <1>10 DEF IsLast
<1>12. \A x \in 1..l : reports[x].client \in Clients /\ (IsLast(reports[x]) => Done(a, reports[x].client))
  BY <1>2, <1>20 DEF AnswerIsLast
<1>13. \A x \in 1..Len(P) : Done(a, c) => FALSE
  BY <1>2, <1>9
<1> HIDE DEF c, P, l
<1>14. /\ l \in Nat /\ Len(P) \in Nat /\ Len(t) = l + Len(P)
       /\ \A x \in 1..l : t[x] = reports[x]
       /\ \A x \in 1..Len(t) : ~ x <= l => x - l \in 1..Len(P) /\ t[x] = P[x - l]
  BY <1>4 DEF Grows, l
<1>15. ASSUME NEW x \in 1..Len(t)
       PROVE  t[x].client \in Clients /\ (IsLast(t[x]) => Done(a, t[x].client)')
  <2>1. CASE x <= l
    <3>1. x \in 1..l /\ t[x] = reports[x]
      BY <1>14, <2>1
    <3> QED BY <1>7, <1>12, <3>1
  <2>2. CASE ~ x <= l
    <3>1. x - l \in 1..Len(P) /\ t[x] = P[x - l]
      BY <1>14, <2>2
    <3>2. t[x].client = c /\ n = a /\ (IsLast(t[x]) => DoneAmong(F, n, c))
      BY <1>9, <1>11, <3>1
    <3> QED BY <1>2, <1>8, <3>2 DEF c
  <2> QED BY <2>1, <2>2
<1>16. ASSUME NEW x \in 1..Len(t), NEW y \in 1..Len(t), t[x].client = t[y].client, IsLast(t[x])
       PROVE  y <= x
  <2>1. CASE x <= l /\ y <= l
    <3>1. x \in 1..l /\ y \in 1..l /\ t[x] = reports[x] /\ t[y] = reports[y]
      BY <1>14, <2>1
    <3> QED BY <1>2, <1>16, <3>1 DEF NothingAfterResult, l
  <2>2. CASE x <= l /\ ~ y <= l
    <3>1. x \in 1..l /\ t[x] = reports[x] /\ y - l \in 1..Len(P) /\ t[y] = P[y - l]
      BY <1>14, <2>2
    <3>2. t[x].client = c
      BY <1>9, <1>16, <3>1
    <3> QED BY <1>12, <1>13, <1>16, <3>1, <3>2
  <2>3. CASE ~ x <= l /\ y <= l
    BY <1>14, <2>3
  <2>4. CASE ~ x <= l /\ ~ y <= l
    <3>1. x - l \in 1..Len(P) /\ t[x] = P[x - l] /\ y - l \in 1..Len(P)
      BY <1>14, <2>4
    <3>2. x - l = Len(P)
      BY <1>11, <1>16, <3>1
    <3> QED BY <1>14, <3>1, <3>2
  <2> QED BY <2>1, <2>2, <2>3, <2>4
<1>17. AnswerIsLast'
  BY <1>5, <1>15, <1>19 DEF AnswerIsLast
<1>18. NothingAfterResult'
  BY <1>5, <1>16, <1>19 DEF NothingAfterResult
<1> QED BY <1>17, <1>18

(* So a step of a node keeps the invariant. *)
LEMMA HandleKeeps ==
  ASSUME NetworkInvariant, NEW k \in Queues[query], Handle(k)
  PROVE  NetworkInvariant'
<1>1. PICK o : Takes(k, NodeOf(k), taken[k] + 1, sent[k][taken[k] + 1], o)
  BY HandleTakes
<1>2. PICK n, i, m : Takes(k, n, i, m, o)
  BY <1>1
<1> QED BY <1>2, ShapesAfter, UploadedAfter, CarriesAfter, LogAfter, EndsCountedAfter,
           EofBehindDataAfter, RecsFitAfter, ReportsAfter DEF NetworkInvariant

-----------------------------------------------------------------------------
USE UploadsAssumption

(* A node that has handled nothing keeps nothing. *)
LEMMA NewFits ==
  ASSUME NEW n, NEW c, Inputs(n) # {}
  PROVE  RecFits({}, n, c, New(n))
<1>1. \A k : EndsAmong({}, k, c) = {}
  BY DEF EndsAmong
<1>2. \A k : Cardinality(EndsAmong({}, k, c)) = 0
  BY <1>1, FS_EmptySet
<1>3. ~ DoneAmong({}, n, c)
  <2>1. PICK k \in Inputs(n) : TRUE
    OBVIOUS
  <2>2. Cardinality(EndsAmong({}, k, c)) # EndsIn(k)
    BY <1>2, EndsInIsNat
  <2> QED BY <2>1, <2>2 DEF DoneAmong
<1>4. IsJoiner(n) => New(n) = [info |-> << >>, eofs |-> {}] /\ Keeps(n) /\ ~ IsFanIn(n)
  BY DEF IsJoiner, IsFanIn, New, Keeps, NewJoin
<1>5. n[1] \in {"topn", "topn_agg"} => New(n) = [top |-> << >>, recv |-> 0] /\ Keeps(n) /\ ~ IsJoiner(n)
  BY DEF IsJoiner, New, Keeps, NoTop
<1>6. n[1] \in {"counter_agg", "percentile_agg"} => New(n) = [games |-> << >>, recv |-> 0] /\ Keeps(n) /\ ~ IsJoiner(n)
  BY DEF IsJoiner, New, Keeps, NewAgg
<1>7. IsFiniteSet({}) /\ DOMAIN << >> = {} /\ IsSeq(<< >>)
  BY FS_EmptySet, FewPublications
<1>8. ~ Keeps(n) => New(n) = << >>
  BY DEF Keeps
<1>9. /\ IsJoiner(n) => n[1] \notin {"topn", "topn_agg", "counter_agg", "percentile_agg"}
      /\ IsFanIn(n) => n[1] \in {"topn", "topn_agg", "counter_agg", "percentile_agg"}
  BY DEF IsJoiner, IsFanIn
<1> DEFINE r == New(n)
<1>10. IsJoiner(n) => r.info = << >> /\ r.eofs = {}
  BY <1>4
<1>11. n[1] \in {"topn", "topn_agg"} => r.recv = 0 /\ r.top = << >>
  BY <1>5
<1>12. n[1] \in {"counter_agg", "percentile_agg"} => r.recv = 0 /\ r.games = << >>
  BY <1>6
<1>13. RecShape(n, r)
  <2> HIDE DEF r
  <2>1. /\ ~ Keeps(n) => r = << >>
        /\ IsJoiner(n) => r = [info |-> r.info, eofs |-> r.eofs] /\ IsFiniteSet(DOMAIN r.info)
        /\ n[1] \in {"topn", "topn_agg"} => r = [top |-> r.top, recv |-> r.recv]
        /\ n[1] = "topn" => r.recv = 0
        /\ n[1] \in {"counter_agg", "percentile_agg"} => r = [games |-> r.games, recv |-> r.recv]
        /\ n[1] = "percentile_agg" => IsSeq(r.games)
    BY <1>4, <1>5, <1>6, <1>7, <1>8, <1>10, <1>11, <1>12 DEF r
  <2> QED BY <2>1 DEF RecShape
<1>14. RecCounts({}, n, c, r)
  <2>1. {k \in Inputs(n) : EndsAmong({}, k, c) # {}} = {}
    BY <1>1
  <2>2. IsJoiner(n) => r.eofs = {Origin(k) : k \in {k \in Inputs(n) : EndsAmong({}, k, c) # {}}}
    BY <1>10, <2>1
  <2>3. IsFanIn(n) => \A k \in Inputs(n) : r.recv = Cardinality(EndsAmong({}, k, c))
    BY <1>2, <1>9, <1>11, <1>12
  <2> QED BY <2>2, <2>3 DEF RecCounts
<1> QED BY <1>3, <1>13, <1>14 DEF RecFits

(* Every node reads a queue.                                               *)
LEMMA InputsExist ==
  ASSUME query \in 1..5, NEW n \in Nodes[query]
  PROVE  Inputs(n) # {}
BY DEF Nodes, Inputs

(* What the gateway publishes is what its readers expect, in order.        *)
LEMMA UploadsCarry ==
  ASSUME NEW q \in Asked, NEW u \in Uploads[q], NEW k \in Queues[q], k[1] \in Gateways,
         NEW s, s = IF k[1] = "reviews" THEN u.reviews ELSE u.games
  PROVE  IsSeq(s) /\ Ordered(s) /\ \A i \in 1..Len(s) : Carried(k, s[i])
<1>1. /\ u.games \in Seq(Range(u.games)) /\ u.reviews \in Seq(Range(u.reviews))
      /\ Ordered(u.games) /\ Ordered(u.reviews)
      /\ \A m \in Range(u.games) : m.client \in Clients /\ (IsEof(m) \/ GamesBatch(m))
      /\ \A m \in Range(u.reviews) : m.client \in Clients /\ (IsEof(m) \/ ReviewsBatch(m))
  OBVIOUS
<1>2. IsSeq(s) /\ Ordered(s)
  <2>1. IsSeq(u.games) /\ IsSeq(u.reviews)
    BY <1>1, SeqIsSeq
  <2> QED BY <1>1, <2>1
<1>3. \A i \in 1..Len(s) : s[i] \in Range(s)
  BY <1>2 DEF Range, IsSeq
<1>4. /\ k[1] \notin JoinInputs /\ k[1] # "text_reviews_q4" /\ k[1] # "joined_percentile"
      /\ Data[k[1]] = IF k[1] = "reviews" THEN "reviews" ELSE "games"
  BY DEF Gateways, JoinInputs, Data
<1>5. ASSUME NEW i \in 1..Len(s) PROVE Carried(k, s[i])
  <2> DEFINE m == s[i]
  <2>1. CASE k[1] = "reviews"
    <3>1. m.client \in Clients /\ (IsEof(m) \/ ReviewsBatch(m))
      BY <1>1, <1>3, <2>1
    <3>2. m.kind = "reviews" => m.reviews \in Seq(Review)
      BY <3>1 DEF ReviewsBatch, IsEof
    <3> QED BY <1>4, <2>1, <3>1, <3>2 DEF Carried, ReviewsBatch, IsEof
  <2>2. CASE k[1] # "reviews"
    <3>1. m.client \in Clients /\ (IsEof(m) \/ GamesBatch(m))
      BY <1>1, <1>3, <2>2
    <3> QED BY <1>4, <2>2, <3>1 DEF Carried, GamesBatch, IsEof
  <2> QED BY <2>1, <2>2
<1> QED BY <1>2, <1>5

(* The invariant holds at the start.                                       *)
LEMMA InitInvariant ==
  ASSUME Init
  PROVE  NetworkInvariant
<1>1. query \in Asked /\ query \in 1..5 /\ upload \in Uploads[query]
  BY DEF Init
<1>2. /\ sent = [k \in Queues[query] |-> sent[k]]
      /\ \A k \in Queues[query] :
           sent[k] = CASE k[1] = GamesQueue[query] -> upload.games
                       [] k[1] = "reviews"         -> upload.reviews
                       [] OTHER                    -> << >>
  <2> DEFINE S(k) == CASE k[1] = GamesQueue[query] -> upload.games
                       [] k[1] = "reviews"         -> upload.reviews
                       [] OTHER                    -> << >>
  <2>1. sent = [k \in Queues[query] |-> S(k)]
    BY DEF Init
  <2> HIDE DEF S
  <2>2. sent = [k \in Queues[query] |-> sent[k]] /\ \A k \in Queues[query] : sent[k] = S(k)
    BY <2>1
  <2> QED BY <2>2 DEF S
<1>3. /\ taken = [k \in Queues[query] |-> 0]
      /\ rec = [n \in Nodes[query] |-> [c \in Clients |-> New(n)]]
      /\ log = [n \in Nodes[query] |-> << >>]
      /\ reports = << >>
  BY DEF Init
<1>4. ASSUME NEW k \in Queues[query]
      PROVE  /\ k[1] \in Gateways => sent[k] = IF k[1] = "reviews" THEN upload.reviews ELSE upload.games
             /\ k[1] \notin Gateways => sent[k] = << >>
  <2>1. k[1] \in QueuesOf(query)
    BY <1>1, QueueOf
  <2>2. /\ k[1] \in Gateways /\ k[1] # "reviews" => k[1] = GamesQueue[query]
        /\ k[1] \notin Gateways => k[1] # GamesQueue[query] /\ k[1] # "reviews"
        /\ GamesQueue[query] # "reviews"
    <3>1. \/ query = 1 /\ GamesQueue[query] = "games_platform"
          \/ query \in {2, 3} /\ GamesQueue[query] = "games_indie"
          \/ query \in {4, 5} /\ GamesQueue[query] = "games_action"
      BY <1>1 DEF GamesQueue
    <3>2. CASE query = 1
      BY <2>1, <3>1, <3>2 DEF QueuesOf, Gateways
    <3>3. CASE query = 2
      BY <2>1, <3>1, <3>3 DEF QueuesOf, Gateways
    <3>4. CASE query = 3
      BY <2>1, <3>1, <3>4 DEF QueuesOf, Gateways
    <3>5. CASE query = 4
      BY <2>1, <3>1, <3>5 DEF QueuesOf, Gateways
    <3>6. CASE query = 5
      BY <2>1, <3>1, <3>6 DEF QueuesOf, Gateways
    <3> QED BY <1>1, <3>2, <3>3, <3>4, <3>5, <3>6
  <2> QED BY <1>2, <2>2
<1>5. ASSUME NEW k \in Queues[query]
      PROVE  IsSeq(sent[k]) /\ Ordered(sent[k]) /\ \A i \in 1..Len(sent[k]) : Carried(k, sent[k][i])
  <2>1. CASE k[1] \in Gateways
    BY <1>1, <1>4, <2>1, UploadsCarry
  <2>2. CASE k[1] \notin Gateways
    <3>1. sent[k] = << >> /\ IsSeq(<< >>) /\ Len(<< >>) = 0 /\ DOMAIN << >> = {}
      BY <1>4, <2>2, FewPublications
    <3> QED BY <3>1 DEF Ordered
  <2> QED BY <2>1, <2>2
<1>6. \A n \in Nodes[query] : Handled(n) = {}
  BY <1>3 DEF Handled, Range
<1>7. \A n \in Nodes[query] : \A c \in Clients : rec[n][c] = New(n)
  BY <1>3
<1>8. Shapes
  <2>1. taken \in [Queues[query] -> Nat] /\ \A k \in Queues[query] : taken[k] = 0
    BY <1>3
  <2>2. \A k \in Queues[query] : taken[k] <= Len(sent[k])
    BY <1>5, <2>1 DEF IsSeq
  <2>3. rec = [n \in Nodes[query] |-> [c \in Clients |-> rec[n][c]]]
    BY <1>3, <1>7
  <2>4. log \in [Nodes[query] -> Seq([from : Queues[query], at : Nat])]
    BY <1>3
  <2>5. IsSeq(reports)
    BY <1>3, FewPublications
  <2> QED BY <1>1, <1>2, <1>5, <2>1, <2>2, <2>3, <2>4, <2>5 DEF Shapes
<1>9. Uploaded
  BY <1>4 DEF Uploaded
<1>10. Carries
  BY <1>5 DEF Carries
<1>11. LogIsTaken
  <2>1. \A n \in Nodes[query] : Len(log[n]) = 0
    BY <1>3
  <2>2. \A k \in Queues[query] : taken[k] = 0
    BY <1>3
  <2> QED BY <1>6, <2>1, <2>2 DEF LogIsTaken
<1>12. \A n \in Nodes[query] : \A c : RecFits({}, n, c, New(n)) /\ ~ DoneAmong({}, n, c)
  <2> SUFFICES ASSUME NEW n \in Nodes[query], NEW c PROVE RecFits({}, n, c, New(n)) /\ ~ DoneAmong({}, n, c)
    OBVIOUS
  <2>1. Inputs(n) # {}
    BY <1>1, InputsExist
  <2>2. PICK k \in Inputs(n) : TRUE
    BY <2>1
  <2>3. EndsAmong({}, k, c) = {}
    BY DEF EndsAmong
  <2>4. Cardinality(EndsAmong({}, k, c)) # EndsIn(k)
    BY <2>3, FS_EmptySet, EndsInIsNat
  <2> QED BY <2>1, <2>4, NewFits DEF DoneAmong
<1>13. RecsFit
  BY <1>6, <1>7, <1>12 DEF RecsFit
<1>14. EndsCounted
  <2> SUFFICES ASSUME NEW k \in Queues[query], k[1] \notin Gateways, NEW c \in Clients
               PROVE  Cardinality(Ends(k, c)) = Cardinality({n \in EndSenders(k) : Done(n, c)})
    BY DEF EndsCounted
  <2>1. Len(sent[k]) = 0
    BY <1>4, FewPublications
  <2>2. Ends(k, c) = {}
    BY <2>1 DEF Ends, PlacesOf
  <2>3. EndSenders(k) \subseteq Nodes[query]
    BY <1>1, SendersOf, EndSendersSend
  <2>4. {n \in EndSenders(k) : Done(n, c)} = {}
    BY <1>6, <1>12, <2>3 DEF Done
  <2> QED BY <2>2, <2>4
<1>15. EofBehindData
  <2> SUFFICES ASSUME NEW k \in Queues[query], NEW c \in Clients, Cardinality(Ends(k, c)) >= EndsIn(k)
               PROVE  /\ Cardinality(Ends(k, c)) = EndsIn(k)
                      /\ \A i \in PlacesOf(k, c) : \E e \in Ends(k, c) : i <= e
    BY <1>8 DEF EofBehindData, Shapes
  <2>1. Ends(k, c) # {} /\ IsFiniteSet(Ends(k, c)) /\ Ends(k, c) \subseteq PlacesOf(k, c) /\ PlacesOf(k, c) \subseteq Nat
    <3>1. IsFiniteSet(Ends(k, c)) /\ Cardinality(Ends(k, c)) # 0
      <4>1. IsFiniteSet(Ends(k, c)) /\ Cardinality(Ends(k, c)) \in Nat
        BY <1>8, EndsAreFinite
      <4>2. Cardinality(Ends(k, c)) >= EndsIn(k) /\ EndsIn(k) \in Nat \ {0}
        BY EndsInIsNat
      <4> QED BY <4>1, <4>2
    <3>2. Ends(k, c) # {}
      BY <3>1, FS_EmptySet
    <3>3. Ends(k, c) \subseteq PlacesOf(k, c) /\ PlacesOf(k, c) \subseteq Nat
      BY DEF Ends, PlacesOf
    <3> QED BY <3>1, <3>2, <3>3
  <2>2. PICK e \in Ends(k, c) : TRUE
    BY <2>1
  <2>3. DOMAIN sent[k] = 1..Len(sent[k])
    BY <1>5 DEF IsSeq
  <2>4. \A i \in PlacesOf(k, c) : i <= e
    BY <1>5, <2>3 DEF Ordered, Ends, PlacesOf
  <2>5. \A x \in Ends(k, c) : e <= x
    BY <1>5, <2>3 DEF Ordered, Ends, PlacesOf
  <2>6. Ends(k, c) = {e}
    BY <2>1, <2>4, <2>5
  <2>7. Cardinality(Ends(k, c)) = 1
    BY <2>6, FS_Singleton
  <2>8. EndsIn(k) = 1
    BY <2>7, EndsInIsNat
  <2> QED BY <2>2, <2>4, <2>7, <2>8
<1>16. AnswerIsLast /\ NothingAfterResult
  <2>1. Len(reports) = 0
    BY <1>3, FewPublications
  <2> QED BY <2>1 DEF AnswerIsLast, NothingAfterResult
<1> QED BY <1>8, <1>9, <1>10, <1>11, <1>13, <1>14, <1>15, <1>16 DEF NetworkInvariant

-----------------------------------------------------------------------------
HIDE UploadsAssumption

(* The first messages of a log. *)
Logged(n, j) == {log[n][x] : x \in 1..j}

(* Its message j is the one at place i of queue k, behind all before it.   *)
LogsNext(n, j, k, i) ==
  /\ k \in Queues[query] /\ NodeOf(k) = n /\ i \in 1..Len(sent[k])
  /\ log[n][j] = [from |-> k, at |-> i]
  /\ Adds(Logged(n, j), Logged(n, j - 1), k, i)
  /\ \A f \in Logged(n, j - 1) : f \in Handled(n) /\ (f.from = k => f.at < i)

(* A log is of messages of the node's queues, each queue's in their order. *)
LEMMA LogByMessage ==
  ASSUME NetworkInvariant, NEW n \in Nodes[query], NEW L, L = Len(log[n])
  PROVE  /\ L \in Nat /\ Logged(n, 0) = {} /\ Logged(n, L) = Handled(n)
         /\ \A j \in 1..L : \E k, i : LogsNext(n, j, k, i)
<1> DEFINE T == [from : Queues[query], at : Nat]
<1>1. Shapes /\ LogIsTaken
  BY DEF NetworkInvariant
<1>2. log[n] \in Seq(T)
  BY <1>1 DEF Shapes
<1> HIDE DEF T
<1>3. L \in Nat /\ DOMAIN log[n] = 1..L
  BY <1>2
<1>4. Logged(n, 0) = {} /\ Logged(n, L) = Handled(n)
  BY <1>3 DEF Logged, Handled, Range
<1>5. ASSUME NEW j \in 1..L
      PROVE  \E k, i : LogsNext(n, j, k, i)
  <2> DEFINE e == log[n][j]
             k == e.from
             i == e.at
  <2>1. e \in Handled(n)
    BY <1>3 DEF Handled, Range
  <2> HIDE DEF e
  <2>2. e = [from |-> k, at |-> i] /\ k \in Queues[query] /\ NodeOf(k) = n /\ i \in 1..Len(sent[k])
    BY <1>1, <2>1, HandledBefore
  <2> HIDE DEF k, i
  <2>3. Logged(n, j) = Logged(n, j - 1) \union {e}
    <3>1. \A x : x \in 1..j <=> x \in 1..(j - 1) \/ x = j
      BY <1>3
    <3> QED BY <3>1 DEF e, Logged
  <2>4. ASSUME NEW f \in Logged(n, j - 1) PROVE f \in Handled(n) /\ (f.from = k => f.at < i)
    <3>1. PICK x \in 1..(j - 1) : f = log[n][x]
      BY DEF Logged
    <3>2. x \in 1..L /\ x < j
      BY <1>3
    <3>3. f \in Handled(n)
      BY <1>3, <3>1, <3>2 DEF Handled, Range
    <3>4. f.from = k => f.at < i
      BY <1>1, <3>1, <3>2 DEF LogIsTaken, e, k, i
    <3> QED BY <3>3, <3>4
  <2>5. Adds(Logged(n, j), Logged(n, j - 1), k, i)
    BY <2>2, <2>3 DEF Adds
  <2>6. LogsNext(n, j, k, i)
    BY <2>2, <2>4, <2>5 DEF e, LogsNext
  <2> QED BY <2>6
<1> QED BY <1>3, <1>4, <1>5

(* From nothing, one by one, to L. *)
LEMMA OneByOne ==
  ASSUME NEW L \in Nat, NEW S, 0 \in S, \A j \in 1..L : j - 1 \in S => j \in S
  PROVE  L \in S
<1> SUFFICES ASSUME L \notin S PROVE FALSE
  OBVIOUS
<1> DEFINE B == {j \in 0..L : j \notin S}
<1>1. B \in SUBSET Nat /\ L \in B
  OBVIOUS
<1> HIDE DEF B
<1>2. PICK j \in B : \A x \in B : j <= x
  BY <1>1, LeastNatural
<1>3. j \in 1..L /\ j \notin S
  BY DEF B
<1>4. j - 1 \in 0..L /\ j - 1 \notin B
  BY <1>1, <1>2, <1>3
<1> QED BY <1>3, <1>4 DEF B

(* What a node knows of the clients before it reads its log. *)
Unknown(n) == {[c \in Clients |-> New(n)]}

(* It is well defined, being rebuilt message by message.                   *)
LEMMA RecoveredIs ==
  ASSUME NEW n, NEW L, L = Len(log[n]), L \in Nat
  PROVE  \E g : /\ Recovered(n) = g[L]
                /\ g[0] = Unknown(n)
                /\ \A i \in 1..L : g[i] = Replay(n, g[i - 1], log[n][i])
<1> DEFINE A == {[c \in Clients |-> New(n)]}
           R(p, i) == Replay(n, p, log[n][i])
           kept == CHOOSE g : g = [i \in 0..L |-> IF i = 0 THEN A ELSE R(g[i - 1], i)]
<1>1. Recovered(n) = kept[L]
  BY DEF Recovered
<1> HIDE DEF A, R
<1>2. \E g : g = [i \in 0..L |-> IF i = 0 THEN A ELSE R(g[i - 1], i)]
  <2> DEFINE Is(g, l) == g = [i \in 0..l |-> IF i = 0 THEN A ELSE R(g[i - 1], i)]
             S == {l \in 0..L : ~ \E g : Is(g, l)}
  <2>1. S = {}
    <3> SUFFICES ASSUME S # {} PROVE FALSE
      OBVIOUS
    <3>1. S \in SUBSET Nat
      OBVIOUS
    <3> HIDE DEF S
    <3>2. PICK l \in S : \A x \in S : l <= x
      BY <3>1, LeastNatural
    <3>3. l \in 0..L /\ ~ \E g : Is(g, l)
      BY DEF S
    <3>4. CASE l = 0
      <4> DEFINE g == [i \in 0..0 |-> A]
      <4>1. g = [i \in 0..l |-> IF i = 0 THEN A ELSE R(g[i - 1], i)]
        BY <3>4
      <4> QED BY <3>3, <4>1
    <3>5. CASE l # 0
      <4>1. l - 1 \in 0..L /\ l - 1 \notin S
        BY <3>2, <3>3, <3>5
      <4>2. PICK g : Is(g, l - 1)
        BY <4>1 DEF S
      <4> DEFINE h == [i \in 0..l |-> IF i = l THEN R(g[l - 1], l) ELSE g[i]]
      <4>3. \A i \in 0..(l - 1) : h[i] = g[i]
        BY <3>3
      <4>4. \A i \in 0..(l - 1) : g[i] = IF i = 0 THEN A ELSE R(g[i - 1], i)
        BY <4>2
      <4>5. h[l] = R(h[l - 1], l)
        BY <3>3, <3>5, <4>3
      <4>6. \A i \in 0..l : h[i] = IF i = 0 THEN A ELSE R(h[i - 1], i)
        <5> SUFFICES ASSUME NEW i \in 0..l PROVE h[i] = IF i = 0 THEN A ELSE R(h[i - 1], i)
          OBVIOUS
        <5>1. CASE i = l
          BY <3>5, <4>5, <5>1
        <5>2. CASE i # l
          <6>1. i \in 0..(l - 1) /\ (i # 0 => i - 1 \in 0..(l - 1))
            BY <3>3, <5>2
          <6>2. h[i] = g[i] /\ (i # 0 => h[i - 1] = g[i - 1])
            BY <4>3, <6>1
          <6> HIDE DEF h
          <6> QED BY <4>4, <6>1, <6>2
        <5> QED BY <5>1, <5>2
      <4>7. h = [i \in 0..l |-> h[i]]
        OBVIOUS
      <4> HIDE DEF h
      <4>8. [i \in 0..l |-> h[i]] = [i \in 0..l |-> IF i = 0 THEN A ELSE R(h[i - 1], i)]
        BY <4>6
      <4>9. Is(h, l)
        BY <4>7, <4>8
      <4> QED BY <3>3, <4>9
    <3> QED BY <3>4, <3>5
  <2>2. L \in 0..L
    OBVIOUS
  <2>3. \E g : Is(g, L)
    BY <2>1, <2>2
  <2> QED BY <2>3
<1>3. kept = [i \in 0..L |-> IF i = 0 THEN A ELSE R(kept[i - 1], i)]
  BY <1>2
<1> HIDE DEF kept
<1>4. \A i \in 0..L : kept[i] = IF i = 0 THEN A ELSE R(kept[i - 1], i)
  BY <1>3
<1>5. kept[0] = A
  BY <1>4
<1>6. \A i \in 1..L : kept[i] = R(kept[i - 1], i)
  BY <1>4
<1> QED BY <1>1, <1>5, <1>6 DEF A, R, Unknown

(* What a restarted node may have of its clients after a part E of its log.*)
Fits(E, n, s) ==
  s = [d \in Clients |-> s[d]] /\ \A d \in Clients : RecFits(E, n, d, s[d])

(* Handling one more message of the log again. *)
LEMMA ReplayFits ==
  ASSUME Shapes, Carries, EofBehindData,
         NEW k \in Queues[query], NEW i \in 1..Len(sent[k]), NEW E, NEW n, n = NodeOf(k),
         \A f \in E : f.from = k => f.at < i, NEW F, Adds(F, E, k, i),
         NEW e, e = [from |-> k, at |-> i], NEW kept, \A s \in kept : Fits(E, n, s),
         NEW t \in Replay(n, kept, e)
  PROVE  Fits(F, n, t)
<1> DEFINE m == Message(e)
           c == m.client
           After(s) == IF n[1] = "counter_agg"
                         THEN {CounterAggReplay(s[c], m)}
                         ELSE {o.rec : o \in Process(n, s[c], m)}
<1>1. m = sent[k][i]
  <2>1. e.from = k /\ e.at = i
    OBVIOUS
  <2> QED BY <2>1 DEF Message
<1>2. PICK s \in kept : t \in {[s EXCEPT ![c] = r] : r \in After(s)}
  BY DEF Replay
<1>3. PICK r2 \in After(s) : t = [s EXCEPT ![c] = r2]
  BY <1>2
<1>4. Fits(E, n, s)
  BY <1>2
<1>5. k \in AllQueues /\ Carried(k, m) /\ c \in Clients
  <2>1. query \in 1..5
    BY DEF Shapes
  <2>2. Carried(k, m)
    BY <1>1 DEF Carries
  <2> QED BY <2>1, <2>2, QueueOf DEF Carried
<1> HIDE DEF m
<1>6. RecFits(E, n, c, s[c])
  BY <1>4, <1>5 DEF Fits
<1> HIDE DEF c
<1>7. RecShape(n, s[c])
  BY <1>6 DEF RecFits
<1>8. Respects(n, s[c], m) /\ (n[1] = "counter_agg" => Settles(n, s[c], m, CounterAggReplay(s[c], m)))
  BY <1>5, <1>7, NodesRespect
<1>9. Settles(n, s[c], m, r2)
  BY <1>3, <1>8 DEF Respects
<1>10. RecFits(F, n, c, r2)
  <2>1. c = m.client
    BY DEF c
  <2>2. /\ Shapes /\ Carries /\ EofBehindData /\ k \in Queues[query] /\ i \in 1..Len(sent[k])
        /\ n = NodeOf(k) /\ \A f \in E : f.from = k => f.at < i
    OBVIOUS
  <2>3. PICK r : r = s[c]
    OBVIOUS
  <2>4. RecFits(E, n, c, r) /\ Settles(n, r, m, r2)
    BY <1>6, <1>9, <2>3
  <2>5. Settles(n, r, m, r2) => RecFits(F, n, c, r2)
    BY ONLY <1>1, <2>1, <2>2, <2>4, Adds(F, E, k, i), RecordStep
  <2> QED BY <2>4, <2>5
<1>11. ASSUME NEW d \in Clients, d # c PROVE RecFits(F, n, d, s[d])
  <2>1. RecFits(E, n, d, s[d])
    BY <1>4 DEF Fits
  <2>2. ASSUME NEW q \in Inputs(n) PROVE EndsAmong(F, q, d) = EndsAmong(E, q, d)
    <3>1. \A j : j \in EndsAmong(F, q, d) <=> j \in EndsAmong(E, q, d)
      BY <1>1, <1>11, EndsWithOneMore DEF c
    <3> QED BY ONLY <3>1
  <2> QED BY <2>1, <2>2, RecFitsSame
<1>12. s = [d \in Clients |-> s[d]] /\ t = [s EXCEPT ![c] = r2]
  BY <1>3, <1>4 DEF Fits
<1>13. \A d \in Clients : t[d] = IF d = c THEN r2 ELSE s[d]
  BY <1>12
<1>14. t = [d \in Clients |-> t[d]]
  BY <1>12, <1>13
<1>15. \A d \in Clients : RecFits(F, n, d, t[d])
  BY <1>10, <1>11, <1>13
<1> QED BY <1>14, <1>15 DEF Fits

(* A restarted node is as right about the ends of file as it was.          *)
LEMMA RecoveredFits ==
  ASSUME NetworkInvariant, NEW n \in Nodes[query], NEW s \in Recovered(n)
  PROVE  Fits(Handled(n), n, s)
<1> DEFINE L == Len(log[n])
<1>1. Shapes /\ Carries /\ EofBehindData /\ query \in 1..5
  BY DEF NetworkInvariant, Shapes
<1>2. L = Len(log[n])
  OBVIOUS
<1>3. /\ L \in Nat /\ Logged(n, 0) = {} /\ Logged(n, L) = Handled(n)
      /\ \A j \in 1..L : \E k, i : LogsNext(n, j, k, i)
  BY LogByMessage
<1> HIDE DEF L
<1>4. PICK g : /\ Recovered(n) = g[L]
               /\ g[0] = Unknown(n)
               /\ \A i \in 1..L : g[i] = Replay(n, g[i - 1], log[n][i])
  BY <1>2, <1>3, RecoveredIs
<1> DEFINE S == {j \in 0..L : \A t \in g[j] : Fits(Logged(n, j), n, t)}
<1>5. 0 \in S
  <2>1. Inputs(n) # {}
    BY <1>1, InputsExist
  <2>2. \A d : RecFits({}, n, d, New(n))
    BY <2>1, NewFits
  <2> DEFINE t == [c \in Clients |-> New(n)]
  <2>3. t = [d \in Clients |-> t[d]] /\ \A d \in Clients : t[d] = New(n)
    OBVIOUS
  <2> HIDE DEF t
  <2>4. Fits({}, n, t)
    BY <2>2, <2>3 DEF Fits
  <2>5. Unknown(n) = {t}
    BY DEF t, Unknown
  <2>6. g[0] = {t} /\ Logged(n, 0) = {} /\ 0 \in 0..L
    BY <1>3, <1>4, <2>5
  <2>7. \A u \in g[0] : Fits(Logged(n, 0), n, u)
    BY ONLY <2>4, <2>6
  <2> QED BY ONLY <2>6, <2>7
<1>6. ASSUME NEW j \in 1..L, j - 1 \in S PROVE j \in S
  <2>1. j \in 0..L /\ \A t \in g[j - 1] : Fits(Logged(n, j - 1), n, t)
    BY <1>3, <1>6
  <2>2. PICK k, i : LogsNext(n, j, k, i)
    BY <1>3
  <2>3. g[j] = Replay(n, g[j - 1], log[n][j])
    BY <1>4
  <2> HIDE DEF S
  <2>4. \A t \in g[j] : Fits(Logged(n, j), n, t)
    BY <1>1, <2>1, <2>2, <2>3, ReplayFits DEF LogsNext
  <2> QED BY <2>1, <2>4 DEF S
<1> HIDE DEF S
<1>7. L \in S
  BY <1>3, <1>5, <1>6, OneByOne
<1> QED BY <1>3, <1>4, <1>7 DEF S

-----------------------------------------------------------------------------
USE UploadsAssumption

(* What puts no message anywhere and takes none keeps the invariant, if    *)
(* the records still fit.                                                  *)
LEMMA QuietKeeps ==
  ASSUME NetworkInvariant, UNCHANGED <<query, upload, sent, taken, log, reports>>,
         rec' = [n \in Nodes[query] |-> [c \in Clients |-> rec'[n][c]]],
         \A n \in Nodes[query] : \A c \in Clients : RecFits(Handled(n), n, c, rec'[n][c])
  PROVE  NetworkInvariant'
<1>1. /\ query' = query /\ upload' = upload /\ sent' = sent
      /\ taken' = taken /\ log' = log /\ reports' = reports
  OBVIOUS
<1>2. Shapes' /\ Uploaded' /\ Carries'
  BY <1>1 DEF NetworkInvariant, Shapes, Uploaded, Carries
<1>3. \A n : Handled(n)' = Handled(n)
  BY <1>1 DEF Handled
<1>4. LogIsTaken'
  BY <1>1, <1>3 DEF NetworkInvariant, LogIsTaken
<1>5. \A k, c : PlacesOf(k, c)' = PlacesOf(k, c) /\ Ends(k, c)' = Ends(k, c)
  BY <1>1 DEF PlacesOf, Ends
<1>6. \A E, k, c : EndsAmong(E, k, c)' = EndsAmong(E, k, c)
  BY <1>5 DEF EndsAmong
<1>7. \A n : Inputs(n)' = Inputs(n)
  BY <1>1 DEF Inputs
<1>8. \A n, c : Done(n, c)' <=> Done(n, c)
  <2> SUFFICES ASSUME NEW n, NEW c PROVE Done(n, c)' <=> Done(n, c)
    OBVIOUS
  <2>1. Done(n, c)' <=> \A k \in Inputs(n)' : Cardinality(EndsAmong(Handled(n), k, c)') = EndsIn(k)
    BY DEF Done, DoneAmong
  <2>2. \A k : EndsAmong(Handled(n), k, c)' = EndsAmong(Handled(n), k, c)
    BY <1>3, <1>6
  <2> QED BY <1>7, <2>1, <2>2 DEF Done, DoneAmong
<1>9. EndsCounted'
  <2> SUFFICES ASSUME NEW k \in Queues[query], k[1] \notin Gateways, NEW c \in Clients
               PROVE  Cardinality(Ends(k, c)') = Cardinality({n \in EndSenders(k) : Done(n, c)'})
    BY <1>1 DEF EndsCounted
  <2>1. {n \in EndSenders(k) : Done(n, c)'} = {n \in EndSenders(k) : Done(n, c)}
    BY <1>8
  <2> QED BY <1>5, <2>1 DEF NetworkInvariant, EndsCounted
<1>10. EofBehindData'
  BY <1>1, <1>5 DEF NetworkInvariant, EofBehindData
<1>11. RecsFit'
  <2> SUFFICES ASSUME NEW n \in Nodes[query], NEW c \in Clients
               PROVE  RecFits(Handled(n), n, c, rec[n][c])'
    BY <1>1 DEF RecsFit
  <2>1. PICK E, r : E = Handled(n) /\ r = rec'[n][c]
    OBVIOUS
  <2>2. RecFits(E, n, c, r)
    BY <2>1
  <2>3. RecFits(E, n, c, r)'
    BY <1>1, <1>6, <2>2, RecFitsLater
  <2> QED BY <1>3, <2>1, <2>3
<1>12. Answerer' = Answerer /\ \A p : IsLast(p)' <=> IsLast(p)
  BY <1>1 DEF Answerer, IsLast
<1>13. AnswerIsLast' /\ NothingAfterResult'
  <2>1. PICK a : a = Answerer
    OBVIOUS
  <2>2. Answerer' = a
    BY <1>12, <2>1
  <2>3. \A i \in 1..Len(reports) :
          reports[i].client \in Clients /\ (IsLast(reports[i]) => Done(a, reports[i].client)')
    BY <1>8, <2>1 DEF NetworkInvariant, AnswerIsLast
  <2>4. AnswerIsLast'
    BY <1>1, <1>12, <2>2, <2>3 DEF AnswerIsLast
  <2>5. NothingAfterResult'
    BY <1>1, <1>12 DEF NetworkInvariant, NothingAfterResult
  <2> QED BY <2>4, <2>5
<1> QED BY <1>2, <1>4, <1>9, <1>10, <1>11, <1>13 DEF NetworkInvariant

(* A restart keeps the invariant.                                          *)
LEMMA RestartKeeps ==
  ASSUME NetworkInvariant, NEW n \in Nodes[query], Restart(n)
  PROVE  NetworkInvariant'
<1>1. PICK kept \in Recovered(n) : rec' = [rec EXCEPT ![n] = kept]
  BY DEF Restart
<1>2. UNCHANGED <<query, upload, sent, taken, log, reports>>
  BY DEF Restart
<1>3. Fits(Handled(n), n, kept)
  BY RecoveredFits
<1>4. rec = [x \in Nodes[query] |-> [c \in Clients |-> rec[x][c]]]
  BY DEF NetworkInvariant, Shapes
<1>5. \A x \in Nodes[query] : rec'[x] = IF x = n THEN kept ELSE rec[x]
  BY <1>1, <1>4
<1>6. \A x \in Nodes[query] : rec'[x] = [c \in Clients |-> rec'[x][c]]
  BY <1>3, <1>4, <1>5 DEF Fits
<1>7. rec' = [x \in Nodes[query] |-> [c \in Clients |-> rec'[x][c]]]
  <2>1. rec' = [x \in Nodes[query] |-> rec'[x]]
    BY <1>1, <1>4
  <2> QED BY <1>6, <2>1
<1>8. \A x \in Nodes[query] : \A c \in Clients : RecFits(Handled(x), x, c, rec'[x][c])
  BY <1>3, <1>5 DEF Fits, NetworkInvariant, RecsFit
<1> QED BY <1>2, <1>7, <1>8, QuietKeeps

(* However reflect.Select serves the queues (worker.go:312) and nodes      *)
(* restart from their logs (Worker.Recover), the ends of file that are in  *)
(* a queue, that a node has handled and that it knows of agree.            *)
THEOREM NetworkIsInvariant == Spec => []NetworkInvariant
<1>1. NetworkInvariant /\ [Next]_vars => NetworkInvariant'
  <2> SUFFICES ASSUME NetworkInvariant, [Next]_vars PROVE NetworkInvariant'
    OBVIOUS
  <2>1. /\ DOMAIN sent = Queues[query] /\ DOMAIN rec = Nodes[query]
        /\ rec = [n \in Nodes[query] |-> [c \in Clients |-> rec[n][c]]]
    BY DEF NetworkInvariant, Shapes
  <2>2. ASSUME NEW k \in DOMAIN sent, Handle(k) PROVE NetworkInvariant'
    BY <2>1, <2>2, HandleKeeps
  <2>3. ASSUME NEW n \in DOMAIN rec, Restart(n) PROVE NetworkInvariant'
    BY <2>1, <2>3, RestartKeeps
  <2>4. CASE UNCHANGED vars
    <3>1. UNCHANGED <<query, upload, sent, taken, log, reports>> /\ rec' = rec
      BY <2>4 DEF vars
    <3>2. \A n \in Nodes[query] : \A c \in Clients : RecFits(Handled(n), n, c, rec'[n][c])
      BY <3>1 DEF NetworkInvariant, RecsFit
    <3> QED BY <2>1, <3>1, <3>2, QuietKeeps
  <2> QED BY <2>2, <2>3, <2>4 DEF Next, Work
<1> QED BY <1>1, InitInvariant, PTL DEF Spec

(* No end of file overtakes the data it ends, in any queue of any query:   *)
(* not in the round of the text filters (worker.go:208), nor at the two    *)
(* inputs of a joiner (joiner.go:52) or the fan-in of an aggregator        *)
(* (aggregator.go:45).                                                     *)
THEOREM EofIsBehindData == Spec => []EofBehindData
BY NetworkIsInvariant, PTL DEF NetworkInvariant

(* No node publishes anything of a client to the reports queue after its   *)
(* result, or its end: the gateway may close the client's result then.     *)
THEOREM ResultIsLast == Spec => []NothingAfterResult
BY NetworkIsInvariant, PTL DEF NetworkInvariant

(* When a client is answered every node has deleted its entry (joiners:    *)
(* joiner.go:66, aggregators: reset), and no message is left that would    *)
(* make a new one.                                                         *)
THEOREM AnsweredIsForgotten == Spec => []ClientForgotten
<1>1. NetworkInvariant => ClientForgotten
  BY DoneIsForgotten
<1> QED BY <1>1, NetworkIsInvariant, PTL

-----------------------------------------------------------------------------
HIDE UploadsAssumption

Filtered == <<"games_platform", 0>>

(* Query 1 has three queues, with a node behind each.                      *)
LEMMA QueuesOfOne ==
  /\ Queues[1] = {Filtered, Counted, Summed}
  /\ NodeOf(Filtered) = <<"platform", 0>>
  /\ NodeOf(Counted) = <<"platform_counter", 0>>
  /\ NodeOf(Summed) = <<"platform_counter_agg", 0>>
  /\ Filtered # Counted /\ Filtered # Summed /\ Counted # Summed
  /\ NodeOf(Filtered) # NodeOf(Counted) /\ NodeOf(Filtered) # NodeOf(Summed) /\ NodeOf(Counted) # NodeOf(Summed)
  /\ \A k \in Queues[1] : k # Reports
<1>1. Queues[1] = UNION { {<<name, i>> : i \in 0..(Width(name) - 1)} : name \in {"games_platform", "platforms", "platform_counts"} }
  BY DEF Queues, QueuesOf
<1>2. \A name \in {"games_platform", "platforms", "platform_counts"} : 0..(Width(name) - 1) = {0}
  BY DEF Width
<1>3. Queues[1] = {Filtered, Counted, Summed}
  <2> SUFFICES ASSUME NEW k PROVE k \in Queues[1] <=> k \in {Filtered, Counted, Summed}
    OBVIOUS
  <2>1. k \in Queues[1] <=> \E name \in {"games_platform", "platforms", "platform_counts"} :
                              \E i \in 0..(Width(name) - 1) : k = <<name, i>>
    BY <1>1
  <2>2. k \in Queues[1] <=> \E name \in {"games_platform", "platforms", "platform_counts"} : k = <<name, 0>>
    BY <1>2, <2>1
  <2> QED BY <2>2 DEF Filtered, Counted, Summed
<1>4. /\ NodeOf(Filtered) = <<"platform", 0>>
      /\ NodeOf(Counted) = <<"platform_counter", 0>>
      /\ NodeOf(Summed) = <<"platform_counter_agg", 0>>
  BY DEF NodeOf, Reader, Filtered, Counted, Summed
<1>5. Filtered[1] = "games_platform" /\ Counted[1] = "platforms" /\ Summed[1] = "platform_counts" /\ Reports[1] = "reports"
  BY DEF Filtered, Counted, Summed, Reports
<1>6. <<"platform", 0>>[1] = "platform" /\ <<"platform_counter", 0>>[1] = "platform_counter" /\ <<"platform_counter_agg", 0>>[1] = "platform_counter_agg"
  OBVIOUS
<1> QED BY <1>3, <1>4, <1>5, <1>6

(* The games of query 1, each client's end of file behind its batches.     *)
LEMMA UploadOfOne ==
  ASSUME NetworkInvariant, query = 1
  PROVE  /\ sent[Filtered] = upload.games
         /\ IsSeq(upload.games) /\ Len(upload.games) \in Nat /\ DOMAIN upload.games = 1..Len(upload.games)
         /\ Ordered(upload.games)
         /\ \A i \in 1..Len(upload.games) :
              LET u == upload.games[i]
              IN  /\ u.client \in Clients /\ u.kind \in {"games", "eof"}
                  /\ ~ IsEof(u) => u.games \in Seq(Games)
<1> USE UploadsAssumption
<1>1. query \in Asked /\ upload \in Uploads[query] /\ Filtered \in Queues[query] /\ query \in 1..5
  BY QueuesOfOne DEF NetworkInvariant, Shapes
<1>2. Filtered[1] \in Gateways /\ Filtered[1] # "reviews" /\ Filtered[1] = "games_platform"
  BY DEF Filtered, Gateways
<1>3. sent[Filtered] = upload.games
  BY <1>1, <1>2 DEF NetworkInvariant, Uploaded
<1> DEFINE s == upload.games
<1>4. IsSeq(s) /\ Ordered(s) /\ \A i \in 1..Len(s) : Carried(Filtered, s[i])
  BY <1>1, <1>2, UploadsCarry
<1>5. DOMAIN s = 1..Len(s) /\ Len(s) \in Nat
  BY <1>4 DEF IsSeq
<1>6. ASSUME NEW i \in 1..Len(s)
      PROVE  s[i].client \in Clients /\ s[i].kind \in {"games", "eof"} /\ (~ IsEof(s[i]) => s[i].games \in Seq(Games))
  BY <1>2, <1>4 DEF Carried, Data, IsEof, GamesBatch
<1> QED BY <1>3, <1>4, <1>5, <1>6

(* The games of batch i that support a platform.                           *)
InBatch(i, p) ==
  {<<i, j>> : j \in {j \in 1..Len(upload.games[i].games) :
                       p \in Catalog[upload.games[i].games[j]].platforms}}

BatchesOf(c) == {i \in 1..Len(upload.games) : upload.games[i].client = c /\ ~ IsEof(upload.games[i])}

(* They are as many as the platform filter counts.                         *)
LEMMA BatchIsCounted ==
  ASSUME NetworkInvariant, query = 1, NEW c, NEW i \in BatchesOf(c), NEW p \in Platforms
  PROVE  /\ IsFiniteSet(InBatch(i, p))
         /\ Cardinality(InBatch(i, p)) = Counts(upload.games[i].games)[p]
         /\ Cardinality(InBatch(i, p)) \in Nat
<1> DEFINE gs == upload.games[i].games
           J == {j \in 1..Len(gs) : p \in Catalog[gs[j]].platforms}
           f == [j \in J |-> <<i, j>>]
<1>1. Len(gs) \in Nat
  <2>1. gs \in Seq(Games)
    BY UploadOfOne DEF BatchesOf
  <2> QED BY <2>1
<1>2. IsFiniteSet(J) /\ Cardinality(J) \in Nat
  BY <1>1, PlacesFinite
<1>3. InBatch(i, p) = {<<i, j>> : j \in J}
  BY DEF InBatch
<1>4. Counts(gs)[p] = Cardinality(J)
  BY DEF Counts
<1> HIDE DEF J
<1>5. f \in Bijection(J, InBatch(i, p))
  <2>1. f \in [J -> InBatch(i, p)]
    BY <1>3
  <2>2. \A a \in J : \A b \in J : f[a] = f[b] => a = b
    OBVIOUS
  <2>3. \A t \in InBatch(i, p) : \E j \in J : f[j] = t
    BY <1>3
  <2> QED BY <2>1, <2>2, <2>3, Fun_IsBij
<1> HIDE DEF f
<1>6. IsFiniteSet(InBatch(i, p)) /\ Cardinality(InBatch(i, p)) = Cardinality(J)
  <2>1. ExistsBijection(J, InBatch(i, p))
    BY <1>5 DEF ExistsBijection
  <2> QED BY <1>2, <2>1, FS_Bijection
<1> QED BY <1>2, <1>4, <1>6

(* All of them are the games of the client's batches.                      *)
LEMMA SupportingIsFinite ==
  ASSUME NetworkInvariant, query = 1, NEW c, NEW p \in Platforms
  PROVE  /\ Supporting(c, p) = UNION {InBatch(i, p) : i \in BatchesOf(c)}
         /\ IsFiniteSet(Supporting(c, p))
         /\ \A x \in Supporting(c, p) : x[1] \in BatchesOf(c) /\ x \in InBatch(x[1], p)
<1>1. Supporting(c, p) = UNION {InBatch(i, p) : i \in BatchesOf(c)}
  BY DEF Supporting, InBatch, BatchesOf
<1> DEFINE B == BatchesOf(c)
           S == {InBatch(i, p) : i \in B}
           f == [i \in B |-> InBatch(i, p)]
<1>2. IsFiniteSet(B)
  BY UploadOfOne, PlacesFinite DEF BatchesOf
<1>3. \A T \in S : IsFiniteSet(T)
  BY BatchIsCounted
<1> HIDE DEF B
<1>4. IsFiniteSet(S)
  <2>1. f \in Surjection(B, S)
    <3>1. f \in [B -> S] /\ \A T \in S : \E i \in B : f[i] = T
      OBVIOUS
    <3> QED BY <3>1, Fun_IsSurj
  <2> QED BY <1>2, <2>1, FS_Surjection
<1>5. IsFiniteSet(UNION S)
  BY <1>3, <1>4, FS_UNION
<1>6. ASSUME NEW x \in UNION S PROVE x[1] \in B /\ x \in InBatch(x[1], p)
  <2>1. PICK i \in B : x \in InBatch(i, p)
    OBVIOUS
  <2>2. x[1] = i
    BY <2>1 DEF InBatch
  <2> QED BY <2>1, <2>2
<1> QED BY <1>1, <1>5, <1>6 DEF B

Entry(i) == [from |-> Counted, at |-> i]

(* Nothing is counted in no messages.                                      *)
LEMMA NothingCounted == \A c : TotalAmong({}, c) = NoCounts
<1>1. ASSUME NEW c, NEW p \in Platforms
      PROVE  Cardinality({x \in Supporting(c, p) : [from |-> Counted, at |-> x[1]] \in {}}) = 0
  <2>1. {x \in Supporting(c, p) : [from |-> Counted, at |-> x[1]] \in {}} = {}
    OBVIOUS
  <2> QED BY <2>1, FS_EmptySet
<1> QED BY <1>1 DEF TotalAmong, NoCounts

(* A batch more in the messages counted adds its counts, to its client's.  *)
LEMMA TotalGrows ==
  ASSUME NetworkInvariant, query = 1, NEW i \in 1..Len(upload.games),
         NEW E, \A f \in E : f.at < i, NEW F, Adds(F, E, Counted, i), NEW d
  PROVE  TotalAmong(F, d) = IF i \in BatchesOf(d) THEN Increment(TotalAmong(E, d), Counts(upload.games[i].games))
                                                ELSE TotalAmong(E, d)
<1> DEFINE Among(G, p) == {x \in Supporting(d, p) : Entry(x[1]) \in G}
<1>1. \A G : TotalAmong(G, d) = [p \in Platforms |-> Cardinality(Among(G, p))]
  BY DEF TotalAmong, Entry
<1>2. \A j : Entry(j) \in F <=> Entry(j) \in E \/ j = i
  BY DEF Adds, Entry
<1>3. Entry(i) \notin E
  <2>1. Entry(i).at = i /\ ~ i < i
    BY DEF Entry
  <2> QED BY <2>1
<1>4. ASSUME NEW p \in Platforms
      PROVE  Cardinality(Among(F, p)) = IF i \in BatchesOf(d) THEN Cardinality(Among(E, p)) + Counts(upload.games[i].games)[p]
                                                            ELSE Cardinality(Among(E, p))
  <2>1. /\ Supporting(d, p) = UNION {InBatch(j, p) : j \in BatchesOf(d)}
        /\ IsFiniteSet(Supporting(d, p))
        /\ \A x \in Supporting(d, p) : x[1] \in BatchesOf(d) /\ x \in InBatch(x[1], p)
    BY SupportingIsFinite
  <2>2. CASE i \notin BatchesOf(d)
    <3>1. Among(F, p) = Among(E, p)
      BY <1>2, <2>1, <2>2
    <3> QED BY <2>2, <3>1
  <2>3. CASE i \in BatchesOf(d)
    <3>1. \A x \in InBatch(i, p) : x[1] = i /\ x \in Supporting(d, p)
      BY <2>1, <2>3 DEF InBatch
    <3>2. Among(F, p) = Among(E, p) \union InBatch(i, p) /\ Among(E, p) \intersect InBatch(i, p) = {}
      BY <1>2, <1>3, <2>1, <3>1
    <3>3. IsFiniteSet(Among(E, p)) /\ Cardinality(Among(E, p)) \in Nat
      <4>1. Among(E, p) \in SUBSET Supporting(d, p)
        OBVIOUS
      <4> QED BY <2>1, <4>1, FS_Subset, FS_CardinalityType
    <3>4. /\ IsFiniteSet(InBatch(i, p))
          /\ Cardinality(InBatch(i, p)) = Counts(upload.games[i].games)[p]
          /\ Cardinality(InBatch(i, p)) \in Nat
      BY <2>3, BatchIsCounted
    <3> HIDE DEF Among
    <3>5. Cardinality(Among(F, p)) = Cardinality(Among(E, p)) + Cardinality(InBatch(i, p)) - Cardinality({})
      BY <3>2, <3>3, <3>4, FS_Union
    <3>6. Cardinality({}) = 0
      BY FS_EmptySet
    <3> QED BY <2>3, <3>3, <3>4, <3>5, <3>6
  <2> QED BY <2>2, <2>3
<1> HIDE DEF Among
<1>5. ASSUME i \in BatchesOf(d)
      PROVE  TotalAmong(F, d) = Increment(TotalAmong(E, d), Counts(upload.games[i].games))
  <2>1. \A p \in Platforms : TotalAmong(E, d)[p] = Cardinality(Among(E, p))
    BY <1>1
  <2>2. Increment(TotalAmong(E, d), Counts(upload.games[i].games))
          = [p \in Platforms |-> Cardinality(Among(E, p)) + Counts(upload.games[i].games)[p]]
    BY <2>1 DEF Increment
  <2> QED BY <1>1, <1>4, <1>5, <2>2
<1>6. ASSUME i \notin BatchesOf(d)
      PROVE  TotalAmong(F, d) = TotalAmong(E, d)
  BY <1>1, <1>4, <1>6
<1> QED BY <1>5, <1>6

(* All batches counted, the counts are the total.                          *)
LEMMA TotalIsAll ==
  ASSUME NetworkInvariant, query = 1, NEW c, NEW E, \A i \in BatchesOf(c) : Entry(i) \in E
  PROVE  TotalAmong(E, c) = Total(c)
<1>1. ASSUME NEW p \in Platforms
      PROVE  {x \in Supporting(c, p) : Entry(x[1]) \in E} = Supporting(c, p)
  BY SupportingIsFinite
<1> QED BY <1>1 DEF TotalAmong, Total, Entry

(* An aggregator that adds the total to nothing has the total.             *)
LEMMA TotalFromNothing ==
  ASSUME NetworkInvariant, query = 1, NEW c
  PROVE  Increment(NoCounts, Total(c)) = Total(c)
<1>1. \A p \in Platforms : Cardinality(Supporting(c, p)) \in Nat
  BY SupportingIsFinite, FS_CardinalityType
<1>2. \A p \in Platforms : 0 + Cardinality(Supporting(c, p)) = Cardinality(Supporting(c, p))
  BY <1>1
<1>3. \A p \in Platforms : NoCounts[p] = 0 /\ Total(c)[p] = Cardinality(Supporting(c, p))
  BY DEF NoCounts, Total
<1>4. Increment(NoCounts, Total(c)) = [p \in Platforms |-> Cardinality(Supporting(c, p))]
  BY <1>2, <1>3 DEF Increment
<1> QED BY <1>4 DEF Total

(* What is told and ended among the messages E, and one more.              *)
LEMMA ToldWithOneMore ==
  ASSUME NEW k, NEW i, NEW m, m = sent[k][i], NEW E, NEW F, Adds(F, E, k, i), NEW d
  PROVE  /\ Told(F, d) <=> Told(E, d) \/ (m.client = d /\ ~ IsEof(m))
         /\ Ended(F, d) <=> Ended(E, d) \/ (m.client = d /\ IsEof(m))
<1> DEFINE e == [from |-> k, at |-> i]
<1>1. Message(e) = m
  BY DEF Message
<1>2. \A f : f \in F <=> f \in E \/ f = e
  BY DEF Adds
<1> HIDE DEF e
<1> QED BY <1>1, <1>2 DEF Told, Ended

-----------------------------------------------------------------------------
(* The messages E come from queue k, before place i. *)
Earlier(E, k, i) == \A f \in E : f = [from |-> k, at |-> f.at] /\ f.at \in 1..(i - 1)

(* Behind a client's end of file nothing of it is in the counter's queue.  *)
LEMMA NotEndedYet ==
  ASSUME NetworkInvariant, query = 1, BatchesCounted, NEW i \in 1..Len(sent[Counted]),
         NEW E, Earlier(E, Counted, i)
  PROVE  /\ ~ Ended(E, sent[Counted][i].client)
         /\ i \in 1..Len(upload.games) /\ i <= taken[Filtered]
<1> DEFINE s == sent[Counted]
           u == upload.games
           c == s[i].client
<1>1. /\ Len(s) = taken[Filtered]
      /\ \A x \in 1..Len(s) : s[x].client = u[x].client /\ (IsEof(s[x]) <=> IsEof(u[x]))
  BY DEF BatchesCounted, CountsOf, Filtered
<1>2. taken[Filtered] \in Nat /\ taken[Filtered] <= Len(u) /\ Len(u) \in Nat /\ DOMAIN u = 1..Len(u) /\ Ordered(u)
  BY UploadOfOne, QueuesOfOne DEF NetworkInvariant, Shapes
<1>3. \A f \in E : f.at \in 1..(i - 1) /\ Message(f) = s[f.at]
  <2> SUFFICES ASSUME NEW f \in E PROVE f.at \in 1..(i - 1) /\ Message(f) = s[f.at]
    OBVIOUS
  <2>1. f = [from |-> Counted, at |-> f.at] /\ f.at \in 1..(i - 1)
    BY DEF Earlier
  <2> QED BY <2>1 DEF Message
<1>4. i \in 1..Len(s)
  OBVIOUS
<1> HIDE DEF s, u
<1>5. ASSUME Ended(E, c) PROVE FALSE
  <2>1. PICK f \in E : Message(f).client = c /\ IsEof(Message(f))
    BY <1>5 DEF Ended
  <2>2. PICK y : y = f.at
    OBVIOUS
  <2>3. y \in 1..Len(s) /\ y < i /\ s[y].client = c /\ IsEof(s[y])
    BY <1>1, <1>2, <1>3, <1>4, <2>1, <2>2
  <2>4. u[y].client = u[i].client /\ IsEof(u[y])
    BY <1>1, <1>4, <2>3
  <2>5. i <= y
    BY <1>1, <1>2, <1>4, <2>3, <2>4 DEF Ordered
  <2> QED BY <1>1, <1>2, <1>4, <2>3, <2>5
<1> QED BY <1>1, <1>2, <1>4, <1>5 DEF s, u

(* Before a client's total nothing of it is in the aggregator's queue, and *)
(* before its end of file only the total.                                  *)
LEMMA OneTotal ==
  ASSUME TotalsOnce, NEW i \in 1..Len(sent[Summed]), Len(sent[Summed]) \in Nat,
         NEW E, Earlier(E, Summed, i), NEW c, c = sent[Summed][i].client
  PROVE  /\ ~ Ended(E, c)
         /\ ~ IsEof(sent[Summed][i]) => ~ Told(E, c)
<1> DEFINE s == sent[Summed]
<1>1. \A j \in 1..Len(s) :
        /\ IsEof(s[j]) => \E x \in 1..(j - 1) : s[x].client = s[j].client /\ ~ IsEof(s[x])
        /\ \A x \in 1..(j - 1) : s[x].client = s[j].client => (IsEof(s[j]) <=> ~ IsEof(s[x]))
  BY DEF TotalsOnce, TotalThenEnd
<1>2. ASSUME NEW f \in E, Message(f).client = c
      PROVE  f.at \in 1..(i - 1) /\ f.at \in 1..Len(s) /\ s[f.at] = Message(f)
  <2>1. f = [from |-> Summed, at |-> f.at] /\ f.at \in 1..(i - 1)
    BY DEF Earlier
  <2> QED BY <2>1 DEF Message
<1> HIDE DEF s
<1>3. ASSUME Ended(E, c) PROVE FALSE
  <2>1. PICK f \in E : Message(f).client = c /\ IsEof(Message(f))
    BY <1>3 DEF Ended
  <2>2. PICK j : j \in 1..(i - 1) /\ j \in 1..Len(s) /\ s[j].client = c /\ IsEof(s[j])
    BY <1>2, <2>1
  <2>3. PICK x \in 1..(j - 1) : s[x].client = c /\ ~ IsEof(s[x])
    BY <1>1, <2>2
  <2>4. x \in 1..(i - 1)
    BY <2>2
  <2>5. i \in 1..Len(s) /\ s[i].client = c
    BY DEF s
  <2> QED BY <1>1, <2>2, <2>3, <2>4, <2>5
<1>4. ASSUME ~ IsEof(sent[Summed][i]), Told(E, c) PROVE FALSE
  <2>1. PICK f \in E : Message(f).client = c /\ ~ IsEof(Message(f))
    BY <1>4 DEF Told
  <2>2. PICK j : j \in 1..(i - 1) /\ j \in 1..Len(s) /\ s[j].client = c /\ ~ IsEof(s[j])
    BY <1>2, <2>1
  <2>5. i \in 1..Len(s) /\ s[i].client = c /\ ~ IsEof(s[i])
    BY <1>4 DEF s
  <2> QED BY <1>1, <2>2, <2>5
<1> QED BY <1>3, <1>4

(* What a counter keeps stays right as it handles the next message, for    *)
(* its client and for the others.                                          *)
LEMMA CountStep ==
  ASSUME NetworkInvariant, query = 1, BatchesCounted, TotalsOnce,
         NEW k \in Queues[1], NEW i \in 1..Len(sent[k]), NEW n, n = NodeOf(k),
         NEW E, Earlier(E, k, i), NEW F, Adds(F, E, k, i),
         NEW m, m = sent[k][i], NEW c, c = m.client, NEW r, CountsRight(E, n, c, r),
         NEW o \in Process(n, r, m)
  PROVE  CountsRight(F, n, c, o.rec)
<1>1. \/ k = Filtered /\ n # NodeOf(Counted) /\ n # NodeOf(Summed)
      \/ k = Counted /\ n # NodeOf(Summed) /\ n = <<"platform_counter", 0>>
      \/ k = Summed /\ n # NodeOf(Counted) /\ n = <<"platform_counter_agg", 0>>
  BY QueuesOfOne
<1>2. /\ Told(F, c) <=> Told(E, c) \/ ~ IsEof(m)
      /\ Ended(F, c) <=> Ended(E, c) \/ IsEof(m)
  BY ToldWithOneMore
<1>3. m.kind \in {Data[k[1]], "eof"} /\ Len(sent[k]) \in Nat
  BY DEF NetworkInvariant, Carries, Carried, Shapes, IsSeq
<1>4. CASE k = Filtered
  BY <1>1, <1>4, QueuesOfOne DEF CountsRight
<1>5. CASE k = Counted
  <2>1. m.kind \in {"platforms", "eof"} /\ n[1] = "platform_counter" /\ n = NodeOf(Counted) /\ n # NodeOf(Summed)
    BY <1>1, <1>3, <1>5, QueuesOfOne DEF Counted, Data
  <2>2. ~ Ended(E, c) /\ i \in 1..Len(upload.games)
    BY <1>5, NotEndedYet
  <2>3. r = TotalAmong(E, c)
    BY <2>1, <2>2 DEF CountsRight
  <2>4. o \in PlatformCounter(FALSE, r, m)
    BY <2>1 DEF Process
  <2>5. CASE IsEof(m)
    <3>1. o.rec = NoCounts
      BY <2>4, <2>5 DEF PlatformCounter, Outcome, IsEof
    <3> QED BY <1>2, <2>1, <2>5, <3>1 DEF CountsRight
  <2>6. CASE ~ IsEof(m)
    <3>1. o.rec = Increment(r, m.counts)
      BY <2>1, <2>4, <2>6 DEF PlatformCounter, Outcome, IsEof
    <3>2. m.counts = Counts(upload.games[i].games) /\ i \in BatchesOf(c)
      BY <1>5, <2>2, <2>6 DEF BatchesCounted, CountsOf, BatchesOf
    <3>3. \A f \in E : f.at < i
      BY DEF Earlier
    <3>4. TotalAmong(F, c) = Increment(r, m.counts)
      BY <1>5, <2>2, <2>3, <3>2, <3>3, TotalGrows
    <3> QED BY <1>2, <2>1, <2>2, <2>6, <3>1, <3>4 DEF CountsRight
  <2> QED BY <2>5, <2>6
<1>6. CASE k = Summed
  <2>1. m.kind \in {"platforms", "eof"} /\ n[1] = "platform_counter_agg" /\ n = NodeOf(Summed) /\ n # NodeOf(Counted)
    BY <1>1, <1>3, <1>6, QueuesOfOne DEF Summed, Data
  <2>2. ~ Ended(E, c) /\ (~ IsEof(m) => ~ Told(E, c))
    BY <1>3, <1>6, OneTotal
  <2>4. o \in PlatformCounter(TRUE, r, m)
    BY <2>1 DEF Process
  <2>5. CASE IsEof(m)
    <3>1. o.rec = NoCounts
      BY <2>4, <2>5 DEF PlatformCounter, Outcome, IsEof
    <3> QED BY <1>2, <2>1, <2>5, <3>1 DEF CountsRight
  <2>6. CASE ~ IsEof(m)
    <3>1. o.rec = Increment(r, m.counts)
      BY <2>1, <2>4, <2>6 DEF PlatformCounter, Outcome, IsEof
    <3>2. m.counts = Total(c)
      BY <1>6, <2>6 DEF TotalsOnce
    <3>3. r = NoCounts
      BY <2>1, <2>2, <2>6 DEF CountsRight
    <3>4. o.rec = Total(c)
      BY <3>1, <3>2, <3>3, TotalFromNothing
    <3> QED BY <1>2, <2>1, <2>2, <2>6, <3>4 DEF CountsRight
  <2> QED BY <2>5, <2>6
<1> QED BY <1>1, <1>4, <1>5, <1>6

(* For the other clients nothing changes.                                  *)
LEMMA CountStepOthers ==
  ASSUME NetworkInvariant, query = 1, BatchesCounted,
         NEW k \in Queues[1], NEW i \in 1..Len(sent[k]), NEW n, n = NodeOf(k),
         NEW E, Earlier(E, k, i), NEW F, Adds(F, E, k, i),
         NEW d, d # sent[k][i].client, NEW r, CountsRight(E, n, d, r)
  PROVE  CountsRight(F, n, d, r)
<1>1. (Told(F, d) <=> Told(E, d)) /\ (Ended(F, d) <=> Ended(E, d))
  BY ToldWithOneMore
<1>2. ASSUME n = NodeOf(Counted) PROVE TotalAmong(F, d) = TotalAmong(E, d)
  <2>1. k = Counted
    BY <1>2, QueuesOfOne
  <2>2. i \in 1..Len(upload.games)
    BY <2>1, NotEndedYet
  <2>3. i \notin BatchesOf(d)
    BY <2>1 DEF BatchesOf, BatchesCounted, CountsOf
  <2>4. \A f \in E : f.at < i
    BY DEF Earlier
  <2> QED BY <2>1, <2>2, <2>3, <2>4, TotalGrows
<1> QED BY <1>1, <1>2 DEF CountsRight

-----------------------------------------------------------------------------
(* The totals are of the upload, which does not change.                    *)
LEMMA TotalLater ==
  ASSUME query' = query, upload' = upload
  PROVE  \A d : Total(d)' = Total(d)
<1>1. \A d, p : Supporting(d, p)' = Supporting(d, p)
  BY DEF Supporting
<1> QED BY <1>1 DEF Total

(* What a step finds in the messages handled is what they were.            *)
LEMMA CountsLater ==
  ASSUME query' = query, upload' = upload, NEW E, \A e \in E : Message(e)' = Message(e), NEW d
  PROVE  /\ Told(E, d)' <=> Told(E, d)
         /\ Ended(E, d)' <=> Ended(E, d)
         /\ Total(d)' = Total(d)
         /\ TotalAmong(E, d)' = TotalAmong(E, d)
         /\ \A n, r : CountsRight(E, n, d, r)' <=> CountsRight(E, n, d, r)
<1>1. (Told(E, d)' <=> Told(E, d)) /\ (Ended(E, d)' <=> Ended(E, d))
  BY DEF Told, Ended
<1>2. \A p : Supporting(d, p)' = Supporting(d, p)
  BY DEF Supporting
<1>3. Total(d)' = Total(d) /\ TotalAmong(E, d)' = TotalAmong(E, d)
  BY <1>2 DEF Total, TotalAmong
<1>4. \A n, r : CountsRight(E, n, d, r)' <=> CountsRight(E, n, d, r)
  <2> SUFFICES ASSUME NEW n, NEW r PROVE CountsRight(E, n, d, r)' <=> CountsRight(E, n, d, r)
    OBVIOUS
  <2>1. CountsRight(E, n, d, r)' <=>
          /\ n = NodeOf(Counted) => r = IF Ended(E, d)' THEN NoCounts ELSE TotalAmong(E, d)'
          /\ n = NodeOf(Summed)  => r = IF Told(E, d)' /\ ~ Ended(E, d)' THEN Total(d)' ELSE NoCounts
    BY DEF CountsRight
  <2> QED BY <1>1, <1>3, <2>1 DEF CountsRight
<1> QED BY <1>1, <1>3, <1>4

(* What was handled, what is taken and what is put in a queue: query 1.    *)
LEMMA HandledOfOne ==
  ASSUME NetworkInvariant, query = 1, NEW k \in Queues[1]
  PROVE  /\ NodeOf(k) \in Nodes[query]
         /\ Earlier(Handled(NodeOf(k)), k, taken[k] + 1)
         /\ \A i \in 1..taken[k] : [from |-> k, at |-> i] \in Handled(NodeOf(k))
<1>1. NodeOf(k) \in Nodes[query] /\ taken[k] \in Nat /\ Shapes /\ LogIsTaken
  <2>1. Shapes /\ LogIsTaken /\ taken[k] \in Nat
    BY DEF NetworkInvariant, Shapes
  <2>2. Nodes[query] = {NodeOf(q) : q \in Queues[query]}
    BY DEF Nodes
  <2> QED BY <2>1, <2>2
<1>2. ASSUME NEW f \in Handled(NodeOf(k)) PROVE f = [from |-> k, at |-> f.at] /\ f.at \in 1..taken[k]
  <2>1. f = [from |-> f.from, at |-> f.at] /\ f.from \in Queues[query] /\ NodeOf(f.from) = NodeOf(k) /\ f.at \in 1..taken[f.from]
    BY <1>1, HandledBefore
  <2>2. f.from = k
    BY <2>1, QueuesOfOne
  <2> QED BY <2>1, <2>2
<1>3. Earlier(Handled(NodeOf(k)), k, taken[k] + 1)
  BY <1>1, <1>2 DEF Earlier
<1>4. \A i \in 1..taken[k] : [from |-> k, at |-> i] \in Handled(NodeOf(k))
  BY <1>1 DEF LogIsTaken
<1> QED BY <1>1, <1>3, <1>4

(* What is published to a queue is what is meant for it, in its order.     *)
LEMMA PublishedPlaces ==
  ASSUME NEW out, IsSeq(out), NEW k, NEW L \in Nat, {i \in 1..Len(out) : out[i].to = k} = 1..L
  PROVE  /\ IsSeq(Published(out, k)) /\ Len(Published(out, k)) = L
         /\ L = 1 => Published(out, k)[1] = out[1].msg
         /\ L = 2 => Published(out, k)[1] = out[1].msg /\ Published(out, k)[2] = out[2].msg
<1> DEFINE I == 1..L
           mine == Pick(out, I)
<1>1. I \in SUBSET Nat /\ IsFiniteSet(I) /\ Cardinality(I) = L
  BY FS_Interval
<1>2. mine = Pick(out, {i \in 1..Len(out) : out[i].to = k})
  OBVIOUS
<1>3. Published(out, k) = [j \in 1..Len(mine) |-> mine[j].msg]
  BY <1>2 DEF Published
<1> HIDE DEF mine
<1>4. Len(mine) = L /\ \A j \in 1..L : mine[j] = out[Nth(I, j)]
  <2>1. /\ Len(mine) = Cardinality(I)
        /\ \A j \in 1..Cardinality(I) : mine[j] = out[Nth(I, j)]
    BY <1>1, Picked DEF mine
  <2> QED BY <1>1, <2>1
<1>5. Published(out, k) = [j \in 1..L |-> out[Nth(I, j)].msg]
  BY <1>3, <1>4
<1> DEFINE P == Published(out, k)
<1>6. IsSeq(P) /\ Len(P) = L /\ \A j \in 1..L : P[j] = out[Nth(I, j)].msg
  BY <1>5, FunctionIsSeq
<1>7. \A j \in 1..L : /\ Nth(I, j) \in I
                      /\ j < L => \E x \in I : Nth(I, j) < x
                      /\ j = L => \A x \in I : x <= Nth(I, j)
  <2> HIDE DEF I
  <2> QED BY <1>1, Ranked
<1>8. L = 1 => Nth(I, 1) = 1
  <2>1. 1 \in 1..1
    OBVIOUS
  <2> HIDE DEF Nth
  <2> QED BY <1>7, <2>1
<1>9. L = 2 => Nth(I, 1) = 1 /\ Nth(I, 2) = 2
  <2> HIDE DEF Nth
  <2> SUFFICES ASSUME L = 2 PROVE Nth(I, 1) = 1 /\ Nth(I, 2) = 2
    OBVIOUS
  <2>1. 1 \in I /\ 2 \in I /\ \A x \in I : x = 1 \/ x = 2
    OBVIOUS
  <2>2. Nth(I, 1) \in I /\ \E x \in I : Nth(I, 1) < x
    BY <1>7, <2>1
  <2>3. Nth(I, 2) \in I /\ \A x \in I : x <= Nth(I, 2)
    BY <1>7, <2>1
  <2> QED BY <2>1, <2>2, <2>3
<1> HIDE DEF P, I
<1>10. L = 1 => P[1] = out[1].msg
  <2>1. 1 \in 1..1
    OBVIOUS
  <2> QED BY <1>6, <1>8, <2>1
<1>11. L = 2 => P[1] = out[1].msg /\ P[2] = out[2].msg
  <2>1. 1 \in 1..2 /\ 2 \in 1..2
    OBVIOUS
  <2> QED BY <1>6, <1>9, <2>1
<1> QED BY <1>6, <1>10, <1>11 DEF P

(* Nothing, one message or two of a node that publishes to one queue.      *)
LEMMA PublishedIs ==
  ASSUME NEW name, NEW x, NEW y, NEW out, IsSeq(out), NEW P, P = Published(out, <<name, 0>>)
  PROVE  /\ Len(out) = 0 => IsSeq(P) /\ Len(P) = 0
         /\ Len(out) = 1 /\ out[1] = Out(name, 0, x) => IsSeq(P) /\ Len(P) = 1 /\ P[1] = x
         /\ Len(out) = 2 /\ out[1] = Out(name, 0, x) /\ out[2] = Out(name, 0, y)
              => IsSeq(P) /\ Len(P) = 2 /\ P[1] = x /\ P[2] = y
<1> DEFINE k == <<name, 0>>
           I == {i \in 1..Len(out) : out[i].to = k}
<1>1. \A m : Out(name, 0, m).to = k /\ Out(name, 0, m).msg = m
  BY DEF Out
<1> HIDE DEF k
<1>2. Len(out) = 0 => I = 1..0
  OBVIOUS
<1>3. Len(out) = 1 /\ out[1] = Out(name, 0, x) => I = 1..1
  BY <1>1
<1>4. Len(out) = 2 /\ out[1] = Out(name, 0, x) /\ out[2] = Out(name, 0, y) => I = 1..2
  <2>1. \A i \in 1..2 : i = 1 \/ i = 2
    OBVIOUS
  <2> QED BY <1>1, <2>1
<1>5. P = Published(out, k)
  BY DEF k
<1>6. \A L \in Nat : I = 1..L =>
        /\ IsSeq(P) /\ Len(P) = L
        /\ L = 1 => P[1] = out[1].msg
        /\ L = 2 => P[1] = out[1].msg /\ P[2] = out[2].msg
  BY <1>5, PublishedPlaces
<1> HIDE DEF I
<1> QED BY <1>1, <1>2, <1>3, <1>4, <1>6

-----------------------------------------------------------------------------
(* A message that was in a queue before a step is there after it.          *)
LEMMA MessageAfter ==
  ASSUME NetworkInvariant, NEW k \in Queues[query], NEW n, NEW i, NEW m, NEW o, Takes(k, n, i, m, o),
         NEW f, f.from \in Queues[query], f.at \in 1..Len(sent[f.from])
  PROVE  Message(f)' = Message(f)
<1>1. PICK q, x : f.from = q /\ f.at = x /\ q \in Queues[query] /\ x \in 1..Len(sent[q])
  OBVIOUS
<1>2. PICK P : P = Published(o.out, q)
  OBVIOUS
<1>3. Grows(sent[q], P, sent'[q])
  BY <1>1, <1>2, QueueGrows
<1>4. sent'[q][x] = sent[q][x]
  BY <1>1, <1>3 DEF Grows
<1> QED BY <1>1, <1>4 DEF Message

(* What the nodes have handled then is what it was.                        *)
LEMMA HandledThen ==
  ASSUME NetworkInvariant, NEW k \in Queues[query], NEW n, NEW i, NEW m, NEW o, Takes(k, n, i, m, o),
         NEW n2 \in Nodes[query]
  PROVE  \A f \in Handled(n2)' : Message(f)' = Message(f)
<1> SUFFICES ASSUME NEW f \in Handled(n2)' PROVE Message(f)' = Message(f)
  OBVIOUS
<1>1. Shapes /\ LogIsTaken /\ i \in 1..Len(sent[k])
  BY DEF NetworkInvariant, Takes
<1>2. f \in Handled(n2) \/ f = [from |-> k, at |-> i]
  <2>1. n2 # n => f \in Handled(n2)
    BY HandledAfter
  <2>2. n2 = n => f \in Handled(n2) \/ f = [from |-> k, at |-> i]
    BY HandledAfter DEF Adds
  <2> QED BY <2>1, <2>2
<1>3. f.from \in Queues[query] /\ f.at \in 1..Len(sent[f.from])
  <2>1. CASE f \in Handled(n2)
    BY <1>1, <2>1, HandledBefore
  <2>2. CASE f = [from |-> k, at |-> i]
    BY <1>1, <2>2
  <2> QED BY <1>2, <2>1, <2>2
<1> QED BY <1>3, MessageAfter

(* The counters are right after a step. *)
LEMMA CountersRightAfter ==
  ASSUME NetworkInvariant, query = 1, BatchesCounted, TotalsOnce, CountersRight,
         NEW k \in Queues[1], NEW n, NEW i, NEW m, NEW o, Takes(k, n, i, m, o)
  PROVE  CountersRight'
<1>1. PICK F : Adds(F, Handled(n), k, i)
  BY DEF Adds
<1>2. PICK c : c = m.client
  OBVIOUS
<1>3. /\ query' = query /\ upload' = upload /\ n \in Nodes[query] /\ c \in Clients
      /\ n = NodeOf(k) /\ i = taken[k] + 1 /\ i \in 1..Len(sent[k]) /\ m = sent[k][i]
      /\ o \in Process(n, rec[n][c], m) /\ rec' = [rec EXCEPT ![n][c] = o.rec]
  BY <1>1, <1>2, TakesFacts DEF Takes
<1> SUFFICES ASSUME NEW n2 \in Nodes[query], NEW d \in Clients
             PROVE  CountsRight(Handled(n2), n2, d, rec[n2][d])'
  BY <1>3 DEF CountersRight
<1>4. PICK G : G = Handled(n2)'
  OBVIOUS
<1>5. PICK r : r = rec'[n2][d]
  OBVIOUS
<1>6. rec = [x \in Nodes[query] |-> [y \in Clients |-> rec[x][y]]]
  BY DEF NetworkInvariant, Shapes
<1>7. rec'[n2][d] = IF n2 = n /\ d = c THEN o.rec ELSE rec[n2][d]
  BY <1>3, <1>6
<1>8. CountsRight(Handled(n2), n2, d, rec[n2][d])
  BY DEF CountersRight
<1>9. (n2 = n => G = F) /\ (n2 # n => G = Handled(n2))
  BY <1>1, <1>4, HandledAfter DEF Adds
<1>10. Earlier(Handled(n), k, i)
  BY <1>3, HandledOfOne
<1>11. CountsRight(G, n2, d, r)
  <2>1. CASE n2 # n
    BY <1>5, <1>7, <1>8, <1>9, <2>1
  <2>2. CASE n2 = n /\ d = c
    <3>1. CountsRight(F, n, c, o.rec)
      BY <1>1, <1>2, <1>3, <1>8, <1>10, <2>2, CountStep
    <3> QED BY <1>5, <1>7, <1>9, <2>2, <3>1
  <2>3. CASE n2 = n /\ d # c
    <3>1. CountsRight(F, n, d, rec[n2][d])
      BY <1>1, <1>2, <1>3, <1>8, <1>10, <2>3, CountStepOthers
    <3> QED BY <1>5, <1>7, <1>9, <2>3, <3>1
  <2> QED BY <2>1, <2>2, <2>3
<1>12. \A e \in G : Message(e)' = Message(e)
  BY <1>4, HandledThen
<1>13. CountsRight(G, n2, d, r)'
  BY <1>3, <1>11, <1>12, CountsLater
<1> QED BY <1>4, <1>5, <1>13

(* Only the platform filter publishes to the counter, only the counter to  *)
(* the aggregator, and only the aggregator reports.                        *)
LEMMA OtherwiseNothing ==
  ASSUME NetworkInvariant, query = 1, NEW k \in Queues[1], NEW n, NEW i, NEW m, NEW o, Takes(k, n, i, m, o)
  PROVE  /\ k # Filtered => sent'[Counted] = sent[Counted]
         /\ k # Counted => sent'[Summed] = sent[Summed]
         /\ k # Summed => reports' = reports
<1>1. PICK F : Adds(F, Handled(n), k, i)
  BY DEF Adds
<1>2. n = NodeOf(k) /\ reports' = reports \o Published(o.out, Reports) /\ IsSeq(reports)
  BY DEF Takes, NetworkInvariant, Shapes
<1>3. /\ Senders(Counted) = {NodeOf(Filtered)} /\ Senders(Summed) = {NodeOf(Counted)}
      /\ NodeOf(Filtered)[1] \notin Reporters /\ NodeOf(Counted)[1] \notin Reporters
  BY QueuesOfOne DEF Senders, EndSenders, Counted, Summed, Gateways, FanIns, Writer, Reporters
<1>4. ASSUME NEW q \in Queues[1], n \notin Senders(q)
      PROVE  sent'[q] = sent[q]
  <2>1. PICK P : P = Published(o.out, q)
    OBVIOUS
  <2>2. Arrives(n, m.client, q, P) /\ Grows(sent[q], P, sent'[q])
    BY <1>1, <2>1, TakesFacts, QueueGrows
  <2>3. 1 \notin 1..Len(P) /\ Len(P) \in Nat
    BY <1>4, <2>2 DEF Arrives, IsSeq
  <2>4. Len(P) = 0
    BY <2>3
  <2> QED BY <2>2, <2>4 DEF Grows
<1>5. ASSUME n[1] \notin Reporters PROVE reports' = reports
  <2>1. PICK P : P = Published(o.out, Reports)
    OBVIOUS
  <2>2. Answers(n, m.client, P)
    BY <1>1, <2>1, TakesFacts
  <2>3. 1 \notin 1..Len(P) /\ IsSeq(P) /\ Len(P) \in Nat
    BY <1>5, <2>2 DEF Answers, IsSeq
  <2>4. Len(P) = 0
    BY <2>3
  <2>5. Grows(reports, P, reports \o P)
    BY <1>2, <2>3, Growth
  <2> QED BY <1>2, <2>1, <2>4, <2>5 DEF Grows
<1> QED BY <1>2, <1>3, <1>4, <1>5, QueuesOfOne

(* The counter's queue gets the counts of the batch that the filter took.  *)
LEMMA BatchesCountedAfter ==
  ASSUME NetworkInvariant, query = 1, BatchesCounted,
         NEW k \in Queues[1], NEW n, NEW i, NEW m, NEW o, Takes(k, n, i, m, o)
  PROVE  BatchesCounted'
<1>1. PICK s, t, u : s = sent[Counted] /\ t = sent'[Counted] /\ u = upload.games
  OBVIOUS
<1>2. upload' = upload /\ n = NodeOf(k) /\ i = taken[k] + 1 /\ i \in 1..Len(sent[k]) /\ m = sent[k][i] /\ taken' = [taken EXCEPT ![k] = @ + 1]
  BY DEF Takes
<1>3. taken \in [Queues[1] -> Nat]
  BY DEF NetworkInvariant, Shapes
<1>4. /\ Len(s) = taken[Filtered]
      /\ \A j \in 1..Len(s) : CountsOf(u[j], s[j])
  BY <1>1 DEF BatchesCounted, Filtered
<1> SUFFICES /\ Len(t) = taken'[Filtered]
             /\ \A j \in 1..Len(t) : CountsOf(u[j], t[j])
  BY <1>1, <1>2 DEF BatchesCounted, Filtered
<1>5. CASE k # Filtered
  <2>1. t = s
    BY <1>1, <1>5, OtherwiseNothing
  <2>2. taken'[Filtered] = taken[Filtered]
    BY <1>2, <1>3, <1>5, QueuesOfOne
  <2> QED BY <1>4, <2>1, <2>2
<1>6. CASE k = Filtered
  <2>1. m = u[i] /\ i = Len(s) + 1 /\ taken'[Filtered] = Len(s) + 1
    BY <1>1, <1>2, <1>3, <1>4, <1>6, UploadOfOne
  <2>2. m.kind \in {"games", "eof"}
    BY <1>1, <1>2, <1>6, <2>1, UploadOfOne
  <2>3. PICK P : P = Published(o.out, Counted)
    OBVIOUS
  <2>4. Len(P) = 1 /\ CountsOf(m, P[1])
    <3>1. n[1] = "platform" /\ o \in Process(n, rec[n][m.client], m)
      BY <1>2, <1>6, QueuesOfOne DEF Takes
    <3>2. PICK out \in PlatformFilter(m) : o.out = out
      BY <3>1 DEF Process, Outcome
    <3>3. PICK x : /\ out = <<Out("platforms", 0, x)>>
                   /\ CountsOf(m, x)
      BY <2>2, <3>2 DEF PlatformFilter, PlatformMsg, EofMsg, IsEof, CountsOf
    <3>4. IsSeq(out) /\ Len(out) = 1 /\ out[1] = Out("platforms", 0, x)
      BY <3>3, FewPublications
    <3>5. P = Published(out, <<"platforms", 0>>)
      BY <2>3, <3>2 DEF Counted
    <3>6. Len(P) = 1 /\ P[1] = x
      BY <3>4, <3>5, PublishedIs
    <3> QED BY <3>3, <3>6
  <2>5. Grows(s, P, t)
    BY <1>1, <2>3, QueueGrows, QueuesOfOne
  <2>6. Len(t) = Len(s) + 1 /\ Len(s) \in Nat
    BY <2>4, <2>5 DEF Grows
  <2>7. ASSUME NEW j \in 1..Len(t)
        PROVE  CountsOf(u[j], t[j])
    <3>1. CASE j \in 1..Len(s)
      BY <1>4, <2>5, <3>1 DEF Grows
    <3>2. CASE j \notin 1..Len(s)
      <4>1. j = i /\ 1 \in 1..1
        BY <2>1, <2>6, <3>2
      <4>2. t[j] = P[1]
        BY <2>1, <2>4, <2>5, <4>1 DEF Grows
      <4> QED BY <2>1, <2>4, <4>1, <4>2
    <3> QED BY <3>1, <3>2
  <2> QED BY <2>1, <2>6, <2>7
<1> QED BY <1>5, <1>6

(* The aggregator's queue gets the total of a client with its last batch.  *)
LEMMA TotalsOnceAfter ==
  ASSUME NetworkInvariant, query = 1, BatchesCounted, TotalsOnce, CountersRight,
         NEW k \in Queues[1], NEW n, NEW i, NEW m, NEW o, Takes(k, n, i, m, o)
  PROVE  TotalsOnce'
<1>1. PICK s, t : s = sent[Summed] /\ t = sent'[Summed]
  OBVIOUS
<1>2. PICK c : c = m.client
  OBVIOUS
<1>3. PICK a : a = NodeOf(Counted)
  OBVIOUS
<1>4. PICK F : Adds(F, Handled(n), k, i)
  BY DEF Adds
<1>5. /\ query' = query /\ upload' = upload /\ n = NodeOf(k) /\ i = taken[k] + 1 /\ i \in 1..Len(sent[k]) /\ m = sent[k][i]
      /\ o \in Process(n, rec[n][c], m) /\ n \in Nodes[query] /\ c \in Clients /\ taken[k] \in Nat
  BY <1>2, <1>4, TakesFacts DEF Takes, NetworkInvariant, Shapes
<1>6. a \in Nodes[query]
  BY <1>3, QueuesOfOne, HandledOfOne
<1>7. PICK E, G : E = Handled(a) /\ G = Handled(a)'
  OBVIOUS
<1>8. \A d : Total(d)' = Total(d)
  BY <1>5, TotalLater
<1>9. \A d : Ended(G, d)' <=> Ended(G, d)
  <2>1. \A f \in G : Message(f)' = Message(f)
    BY <1>6, <1>7, HandledThen
  <2> QED BY <1>5, <2>1, CountsLater
<1>10. /\ a # n => G = E
       /\ a = n => Adds(G, E, k, i)
  BY <1>6, <1>7, HandledAfter
<1>11. ASSUME NEW d, Ended(E, d) PROVE Ended(G, d)'
  <2>1. E \subseteq G
    BY <1>10 DEF Adds
  <2>2. Ended(G, d)
    BY <1>11, <2>1 DEF Ended
  <2> QED BY <1>9, <2>2
<1>12. \A j \in 1..Len(s) : /\ Ended(E, s[j].client)
                            /\ ~ IsEof(s[j]) => s[j].counts = Total(s[j].client)
                            /\ TotalThenEnd(s, j)
  BY <1>1, <1>3, <1>7 DEF TotalsOnce
<1> SUFFICES \A j \in 1..Len(t) : /\ Ended(G, t[j].client)'
                                  /\ ~ IsEof(t[j]) => t[j].counts = Total(t[j].client)
                                  /\ TotalThenEnd(t, j)
  <2> SUFFICES ASSUME NEW j \in 1..Len(t)
               PROVE  /\ Ended(Handled(a), t[j].client)'
                      /\ ~ IsEof(t[j]) => t[j].counts = Total(t[j].client)'
                      /\ TotalThenEnd(t, j)
    BY <1>1, <1>3 DEF TotalsOnce
  <2> QED BY <1>7, <1>8
<1>13. CASE t = s
  BY <1>11, <1>12, <1>13
<1>14. CASE t # s
  <2>1. k = Counted /\ n = a /\ a = <<"platform_counter", 0>> /\ a[1] = "platform_counter"
    BY <1>1, <1>3, <1>5, <1>14, OtherwiseNothing, QueuesOfOne
  <2>2. PICK P : P = Published(o.out, Summed)
    OBVIOUS
  <2>3. Grows(s, P, t)
    BY <1>1, <2>2, QueueGrows, QueuesOfOne
  <2>4. o \in PlatformCounter(FALSE, rec[n][c], m)
    BY <1>5, <2>1 DEF Process
  <2>5. m.kind \in {"platforms", "eof"}
    <3>1. Carried(k, m)
      BY <1>5 DEF NetworkInvariant, Carries
    <3> QED BY <2>1, <3>1 DEF Carried, Counted, Data
  <2>6. IsEof(m)
    <3> SUFFICES ASSUME ~ IsEof(m) PROVE FALSE
      OBVIOUS
    <3>1. o.out = << >>
      BY <2>4, <2>5 DEF PlatformCounter, Outcome, IsEof
    <3>2. P = Published(<< >>, <<"platform_counts", 0>>)
      BY <2>2, <3>1 DEF Summed
    <3>3. Len(P) = 0
      BY <3>2, FewPublications, PublishedIs
    <3> QED BY <1>14, <2>3, <3>3 DEF Grows
  <2> DEFINE x == PlatformMsg(c, rec[n][c])
             y == Eof(c)
  <2>7. x.client = c /\ ~ IsEof(x) /\ x.counts = rec[n][c] /\ y.client = c /\ IsEof(y)
    BY DEF PlatformMsg, Eof, EofMsg, IsEof
  <2>8. Len(P) = 2 /\ P[1] = x /\ P[2] = y
    <3>1. o.out = <<Out("platform_counts", 0, x), Out("platform_counts", 0, y)>>
      BY <1>2, <2>4, <2>6 DEF PlatformCounter, Outcome, IsEof
    <3> HIDE DEF x, y
    <3>2. IsSeq(o.out) /\ Len(o.out) = 2 /\ o.out[1] = Out("platform_counts", 0, x) /\ o.out[2] = Out("platform_counts", 0, y)
      BY <3>1, FewPublications
    <3>3. P = Published(o.out, <<"platform_counts", 0>>)
      BY <2>2 DEF Summed
    <3> QED BY <3>2, <3>3, PublishedIs
  <2> HIDE DEF x, y
  <2>9. Earlier(E, k, i) /\ \A j \in 1..taken[k] : [from |-> k, at |-> j] \in E
    BY <1>5, <1>7, <2>1, HandledOfOne
  <2>10. ~ Ended(E, c) /\ i \in 1..Len(upload.games) /\ i <= taken[Filtered]
    BY <1>2, <1>5, <2>1, <2>9, NotEndedYet
  <2>11. rec[n][c] = Total(c)
    <3>1. CountsRight(E, n, c, rec[n][c])
      BY <1>5, <1>7, <2>1 DEF CountersRight
    <3>2. rec[n][c] = TotalAmong(E, c)
      BY <1>3, <2>1, <2>10, <3>1 DEF CountsRight
    <3>3. CountsOf(upload.games[i], m)
      BY <1>5, <2>1 DEF BatchesCounted
    <3>4. ASSUME NEW b \in BatchesOf(c) PROVE Entry(b) \in E
      <4>1. b \in 1..Len(upload.games) /\ upload.games[b].client = c /\ ~ IsEof(upload.games[b])
        BY DEF BatchesOf
      <4>2. b <= i
        BY <1>2, <2>6, <2>10, <3>3, <4>1, UploadOfOne DEF Ordered, CountsOf
      <4>3. b # i
        BY <2>6, <3>3, <4>1 DEF CountsOf
      <4>4. b \in 1..taken[k]
        BY <1>5, <4>1, <4>2, <4>3
      <4> QED BY <2>1, <2>9, <4>4 DEF Entry
    <3> QED BY <3>2, <3>4, TotalIsAll
  <2>12. Ended(G, c)'
    <3>1. Ended(G, c)
      <4>1. m = sent[k][i] /\ Adds(G, E, k, i) /\ m.client = c
        BY <1>2, <1>5, <1>10, <2>1
      <4>2. Ended(G, c) <=> Ended(E, c) \/ (m.client = c /\ IsEof(m))
        BY ONLY <4>1, ToldWithOneMore
      <4> QED BY <2>6, <4>1, <4>2
    <3> QED BY <1>9, <3>1
  <2>13. \A j \in 1..Len(s) : s[j].client # c
    BY <1>12, <2>10
  <2> DEFINE l == Len(s)
  <2>14. l \in Nat /\ Len(t) = l + 2 /\ (\A j \in 1..l : t[j] = s[j]) /\ t[l + 1] = x /\ t[l + 2] = y
    <3>1. 1 \in 1..2 /\ 2 \in 1..2
      OBVIOUS
    <3> QED BY <2>3, <2>8, <3>1 DEF Grows
  <2>16. \A j \in 1..l : s[j].client # c
    BY <2>13
  <2>17. \A j \in 1..l : TotalThenEnd(s, j) /\ Ended(E, s[j].client) /\ (~ IsEof(s[j]) => s[j].counts = Total(s[j].client))
    BY <1>12
  <2> HIDE DEF l
  <2> SUFFICES ASSUME NEW j \in 1..Len(t)
               PROVE  /\ Ended(G, t[j].client)'
                      /\ ~ IsEof(t[j]) => t[j].counts = Total(t[j].client)
                      /\ TotalThenEnd(t, j)
    OBVIOUS
  <2>18. CASE j \in 1..l
    <3>1. t[j] = s[j] /\ \A z \in 1..(j - 1) : t[z] = s[z]
      BY <2>14, <2>18
    <3>2. TotalThenEnd(t, j)
      BY <2>17, <2>18, <3>1 DEF TotalThenEnd
    <3> QED BY <1>11, <2>17, <2>18, <3>1, <3>2
  <2>19. CASE j = l + 1
    <3>1. \A z \in 1..(j - 1) : t[z].client # c
      BY <2>14, <2>16, <2>19
    <3>2. TotalThenEnd(t, j)
      BY <2>7, <2>14, <2>19, <3>1 DEF TotalThenEnd
    <3> QED BY <2>7, <2>11, <2>12, <2>14, <2>19, <3>2
  <2>20. CASE j = l + 2
    <3>1. \A z \in 1..(j - 1) : z = l + 1 \/ t[z].client # c
      BY <2>14, <2>16, <2>20
    <3>2. l + 1 \in 1..(j - 1)
      BY <2>14, <2>20
    <3>3. TotalThenEnd(t, j)
      BY <2>7, <2>14, <2>20, <3>1, <3>2 DEF TotalThenEnd
    <3> QED BY <2>7, <2>12, <2>14, <2>20, <3>3
  <2> QED BY <2>14, <2>18, <2>19, <2>20
<1> QED BY <1>13, <1>14

(* The reports get the total of a client.                                  *)
LEMMA PlatformsCountedAfter ==
  ASSUME NetworkInvariant, query = 1, TotalsOnce, CountersRight, PlatformsCounted,
         NEW k \in Queues[1], NEW n, NEW i, NEW m, NEW o, Takes(k, n, i, m, o)
  PROVE  PlatformsCounted'
<1>1. PICK s, t : s = reports /\ t = reports'
  OBVIOUS
<1>2. PICK c : c = m.client
  OBVIOUS
<1>4. PICK F : Adds(F, Handled(n), k, i)
  BY DEF Adds
<1>5. /\ query' = query /\ upload' = upload /\ n = NodeOf(k) /\ i = taken[k] + 1 /\ i \in 1..Len(sent[k]) /\ m = sent[k][i]
      /\ o \in Process(n, rec[n][c], m) /\ n \in Nodes[query] /\ c \in Clients /\ taken[k] \in Nat /\ Len(sent[k]) \in Nat
      /\ reports' = reports \o Published(o.out, Reports)
  BY <1>2, <1>4, TakesFacts DEF Takes, NetworkInvariant, Shapes, IsSeq
<1>6. \A d : Total(d)' = Total(d)
  BY <1>5, TotalLater
<1>7. IsSeq(s) /\ \A j \in 1..Len(s) : s[j].counts = Total(s[j].client)
  <2>1. IsSeq(s) /\ \A p \in Range(s) : p.counts = Total(p.client)
    BY <1>1 DEF PlatformsCounted, NetworkInvariant, Shapes
  <2> QED BY <2>1 DEF Range, IsSeq
<1> SUFFICES IsSeq(t) /\ \A j \in 1..Len(t) : t[j].counts = Total(t[j].client)
  <2>1. \A p \in Range(t) : p.counts = Total(p.client)
    BY DEF Range, IsSeq
  <2> QED BY <1>1, <1>5, <1>6, <2>1 DEF PlatformsCounted
<1>8. CASE t = s
  BY <1>7, <1>8
<1>9. CASE t # s
  <2>1. k = Summed /\ n = NodeOf(Summed) /\ n[1] = "platform_counter_agg"
    BY <1>1, <1>5, <1>9, OtherwiseNothing, QueuesOfOne
  <2>2. PICK P : P = Published(o.out, Reports) /\ IsSeq(P)
    BY <1>4, TakesFacts DEF Answers
  <2>3. Grows(s, P, t)
    BY <1>1, <1>5, <1>7, <2>2, Growth
  <2>4. o \in PlatformCounter(TRUE, rec[n][c], m)
    BY <1>5, <2>1 DEF Process
  <2>5. m.kind \in {"platforms", "eof"}
    <3>1. Carried(k, m)
      BY <1>5 DEF NetworkInvariant, Carries
    <3> QED BY <2>1, <3>1 DEF Carried, Summed, Data
  <2>6. IsEof(m)
    <3> SUFFICES ASSUME ~ IsEof(m) PROVE FALSE
      OBVIOUS
    <3>1. o.out = << >>
      BY <2>4, <2>5 DEF PlatformCounter, Outcome, IsEof
    <3>2. P = Published(<< >>, <<"reports", 0>>)
      BY <2>2, <3>1 DEF Reports
    <3>3. Len(P) = 0
      BY <3>2, FewPublications, PublishedIs
    <3> QED BY <1>9, <2>3, <3>3 DEF Grows
  <2> DEFINE x == PlatformMsg(c, rec[n][c])
  <2>7. x.client = c /\ x.counts = rec[n][c]
    BY DEF PlatformMsg
  <2>8. Len(P) = 1 /\ P[1] = x
    <3>1. o.out = <<Out("reports", 0, x)>>
      BY <1>2, <2>4, <2>6 DEF PlatformCounter, Outcome, IsEof
    <3> HIDE DEF x
    <3>2. IsSeq(o.out) /\ Len(o.out) = 1 /\ o.out[1] = Out("reports", 0, x)
      BY <3>1, FewPublications
    <3>3. P = Published(o.out, <<"reports", 0>>)
      BY <2>2 DEF Reports
    <3> QED BY <3>2, <3>3, PublishedIs
  <2> HIDE DEF x
  <2>9. PICK E : E = Handled(n)
    OBVIOUS
  <2>10. Earlier(E, k, i) /\ \A j \in 1..taken[k] : [from |-> k, at |-> j] \in E
    BY <1>5, <2>1, <2>9, HandledOfOne
  <2>11. ~ Ended(E, c)
    BY <1>2, <1>5, <2>1, <2>10, OneTotal
  <2>12. Told(E, c)
    <3>1. TotalThenEnd(sent[Summed], i)
      BY <1>5, <2>1 DEF TotalsOnce
    <3>2. PICK j \in 1..(i - 1) : sent[Summed][j].client = c /\ ~ IsEof(sent[Summed][j])
      BY <1>2, <1>5, <2>1, <2>6, <3>1 DEF TotalThenEnd
    <3>3. [from |-> Summed, at |-> j] \in E
      BY <1>5, <2>1, <2>10
    <3>4. Message([from |-> Summed, at |-> j]) = sent[Summed][j]
      BY DEF Message
    <3> QED BY <3>2, <3>3, <3>4 DEF Told
  <2>13. rec[n][c] = Total(c)
    <3>1. CountsRight(E, n, c, rec[n][c])
      BY <1>5, <2>9 DEF CountersRight
    <3> QED BY <2>1, <2>11, <2>12, <3>1 DEF CountsRight
  <2>14. ASSUME NEW j \in 1..Len(t) PROVE t[j].counts = Total(t[j].client)
    <3>1. CASE j \in 1..Len(s)
      BY <1>7, <2>3, <3>1 DEF Grows
    <3>2. CASE j \notin 1..Len(s)
      <4>1. ~ j <= Len(s)
        BY <2>3, <3>2 DEF Grows
      <4>2. j - Len(s) \in 1..1 /\ t[j] = P[j - Len(s)]
        BY <2>3, <2>8, <4>1 DEF Grows
      <4>3. t[j] = x
        BY <2>8, <4>2
      <4> QED BY <2>7, <2>13, <4>3
    <3> QED BY <3>1, <3>2
  <2> QED BY <2>3, <2>14 DEF Grows
<1> QED BY <1>8, <1>9

-----------------------------------------------------------------------------
(* What a restarted counter has of its clients after a part E of its log.  *)
CountsFit(E, n, s) ==
  s = [d \in Clients |-> s[d]] /\ \A d \in Clients : CountsRight(E, n, d, s[d])

(* Counting one more message of the log again. *)
LEMMA ReplayCounts ==
  ASSUME NetworkInvariant, query = 1, BatchesCounted, TotalsOnce,
         NEW k \in Queues[1], NEW i \in 1..Len(sent[k]), NEW n, n = NodeOf(k),
         NEW E, Earlier(E, k, i), NEW F, Adds(F, E, k, i),
         NEW e, e = [from |-> k, at |-> i], NEW kept, \A s \in kept : CountsFit(E, n, s),
         NEW t \in Replay(n, kept, e)
  PROVE  CountsFit(F, n, t)
<1>1. PICK m, c : m = Message(e) /\ c = m.client
  OBVIOUS
<1>2. m = sent[k][i]
  BY <1>1 DEF Message
<1>3. n[1] # "counter_agg"
  BY QueuesOfOne
<1>4. PICK s \in kept : \E o \in Process(n, s[c], m) : t = [s EXCEPT ![c] = o.rec]
  BY <1>1, <1>3 DEF Replay
<1> PICK o \in Process(n, s[c], m) : t = [s EXCEPT ![c] = o.rec]
  BY <1>4
<1>5. s = [d \in Clients |-> s[d]] /\ \A d \in Clients : CountsRight(E, n, d, s[d])
  BY DEF CountsFit
<1>6. c \in Clients
  BY <1>1, <1>2 DEF NetworkInvariant, Carries, Carried
<1>7. CountsRight(F, n, c, o.rec)
  <2>1. CountsRight(E, n, c, s[c])
    BY <1>5, <1>6
  <2> QED BY <1>1, <1>2, <2>1, CountStep
<1>8. \A d \in Clients : d # c => CountsRight(F, n, d, s[d])
  BY <1>1, <1>2, <1>5, CountStepOthers
<1>9. \A d \in Clients : t[d] = IF d = c THEN o.rec ELSE s[d]
  BY <1>5
<1>10. t = [d \in Clients |-> t[d]]
  BY <1>5, <1>9
<1> QED BY <1>7, <1>8, <1>9, <1>10 DEF CountsFit

(* A counter that has handled nothing has counted nothing.                 *)
LEMMA NewCounts ==
  ASSUME query = 1, NEW n \in Nodes[query], NEW d
  PROVE  CountsRight({}, n, d, New(n))
<1>1. ~ Told({}, d) /\ ~ Ended({}, d)
  BY DEF Told, Ended
<1>2. n = NodeOf(Counted) \/ n = NodeOf(Summed) => New(n) = NoCounts
  BY QueuesOfOne DEF New
<1> QED BY <1>1, <1>2, NothingCounted DEF CountsRight

(* A restarted counter is as right as it was. *)
LEMMA RecoveredCounts ==
  ASSUME NetworkInvariant, query = 1, BatchesCounted, TotalsOnce,
         NEW n \in Nodes[query], NEW t \in Recovered(n)
  PROVE  CountsFit(Handled(n), n, t)
<1> DEFINE L == Len(log[n])
<1>1. L = Len(log[n])
  OBVIOUS
<1>2. /\ L \in Nat /\ Logged(n, 0) = {} /\ Logged(n, L) = Handled(n)
      /\ \A j \in 1..L : \E k, i : LogsNext(n, j, k, i)
  BY LogByMessage
<1> HIDE DEF L
<1>3. PICK g : /\ Recovered(n) = g[L]
               /\ g[0] = Unknown(n)
               /\ \A i \in 1..L : g[i] = Replay(n, g[i - 1], log[n][i])
  BY <1>1, <1>2, RecoveredIs
<1> DEFINE S == {j \in 0..L : \A s \in g[j] : CountsFit(Logged(n, j), n, s)}
<1>4. 0 \in S
  <2> SUFFICES ASSUME NEW s \in Unknown(n) PROVE CountsFit({}, n, s)
    <3>1. g[0] = Unknown(n) /\ Logged(n, 0) = {} /\ 0 \in 0..L
      BY <1>2, <1>3
    <3>2. \A u \in g[0] : CountsFit(Logged(n, 0), n, u)
      BY <3>1
    <3> QED BY ONLY <3>1, <3>2
  <2>1. s = [d \in Clients |-> New(n)]
    BY DEF Unknown
  <2>2. \A d \in Clients : s[d] = New(n)
    BY <2>1
  <2>3. s = [d \in Clients |-> s[d]]
    BY <2>1
  <2> QED BY <2>2, <2>3, NewCounts DEF CountsFit
<1>5. ASSUME NEW j \in 1..L, j - 1 \in S PROVE j \in S
  <2>1. j \in 0..L /\ \A s \in g[j - 1] : CountsFit(Logged(n, j - 1), n, s)
    BY <1>2, <1>5
  <2>2. PICK k, i : LogsNext(n, j, k, i)
    BY <1>2
  <2>3. Earlier(Logged(n, j - 1), k, i)
    <3> SUFFICES ASSUME NEW f \in Logged(n, j - 1) PROVE f = [from |-> k, at |-> f.at] /\ f.at \in 1..(i - 1)
      BY DEF Earlier
    <3>1. f \in Handled(n) /\ (f.from = k => f.at < i) /\ k \in Queues[1] /\ NodeOf(k) = n /\ i \in 1..Len(sent[k])
      BY <2>2 DEF LogsNext
    <3>4. Earlier(Handled(n), k, taken[k] + 1)
      BY <3>1, HandledOfOne
    <3>5. PICK y : y = taken[k] + 1
      OBVIOUS
    <3>2. f = [from |-> k, at |-> f.at] /\ f.at \in 1..(y - 1)
      BY <3>1, <3>4, <3>5 DEF Earlier
    <3>3. f.from = k /\ y \in Nat /\ Len(sent[k]) \in Nat
      BY <3>1, <3>2, <3>5 DEF NetworkInvariant, Shapes, IsSeq
    <3> QED BY <3>1, <3>2, <3>3
  <2>4. g[j] = Replay(n, g[j - 1], log[n][j])
    BY <1>3
  <2> HIDE DEF S
  <2>5. \A s \in g[j] : CountsFit(Logged(n, j), n, s)
    BY <2>1, <2>2, <2>3, <2>4, ReplayCounts DEF LogsNext
  <2> QED BY <2>1, <2>5 DEF S
<1> HIDE DEF S
<1>6. L \in S
  BY <1>2, <1>4, <1>5, OneByOne
<1> QED BY <1>2, <1>3, <1>6 DEF S

(* What puts no message anywhere and takes none keeps the counts right, if *)
(* the records still are.                                                  *)
LEMMA QuietCounts ==
  ASSUME NetworkInvariant, CountsInvariant, UNCHANGED <<query, upload, sent, taken, log, reports>>,
         query = 1 => \A n \in Nodes[query] : \A c \in Clients : CountsRight(Handled(n), n, c, rec'[n][c])
  PROVE  CountsInvariant'
<1> SUFFICES ASSUME query = 1 PROVE BatchesCounted' /\ TotalsOnce' /\ CountersRight' /\ PlatformsCounted'
  BY DEF CountsInvariant
<1>1. /\ query' = query /\ upload' = upload /\ sent' = sent
      /\ taken' = taken /\ log' = log /\ reports' = reports
  OBVIOUS
<1>2. BatchesCounted /\ TotalsOnce /\ PlatformsCounted
  BY DEF CountsInvariant
<1>3. \A d : Total(d)' = Total(d)
  BY <1>1, TotalLater
<1>4. \A f : Message(f)' = Message(f)
  BY <1>1 DEF Message
<1>5. \A n : Handled(n)' = Handled(n)
  BY <1>1 DEF Handled
<1>6. \A E, d : /\ Ended(E, d)' <=> Ended(E, d)
                /\ \A n, r : CountsRight(E, n, d, r)' <=> CountsRight(E, n, d, r)
  BY <1>1, <1>4, CountsLater
<1>7. BatchesCounted'
  BY <1>1, <1>2 DEF BatchesCounted
<1>8. TotalsOnce'
  <2>1. PICK E, a : a = NodeOf(Counted) /\ E = Handled(a) /\ Handled(a)' = E
    BY <1>5
  <2>2. \A d : Ended(E, d)' <=> Ended(E, d)
    BY <1>6
  <2>3. \A i \in 1..Len(sent[Summed]) :
          /\ Ended(E, sent[Summed][i].client)
          /\ ~ IsEof(sent[Summed][i]) => sent[Summed][i].counts = Total(sent[Summed][i].client)
          /\ TotalThenEnd(sent[Summed], i)
    BY <1>2, <2>1 DEF TotalsOnce
  <2> SUFFICES ASSUME NEW i \in 1..Len(sent[Summed])
               PROVE  /\ Ended(Handled(a), sent[Summed][i].client)'
                      /\ ~ IsEof(sent[Summed][i]) => sent[Summed][i].counts = Total(sent[Summed][i].client)'
                      /\ TotalThenEnd(sent[Summed], i)
    BY <1>1, <2>1 DEF TotalsOnce
  <2>4. Ended(E, sent[Summed][i].client)'
    BY <1>1, <2>2, <2>3
  <2>5. Ended(Handled(a), sent[Summed][i].client)'
    BY <2>1, <2>4
  <2> QED BY <1>1, <1>3, <2>3, <2>5
<1>9. CountersRight'
  <2> SUFFICES ASSUME NEW n \in Nodes[query], NEW c \in Clients
               PROVE  CountsRight(Handled(n), n, c, rec[n][c])'
    BY <1>1 DEF CountersRight
  <2>1. PICK E, r : E = Handled(n) /\ r = rec'[n][c]
    OBVIOUS
  <2>2. CountsRight(E, n, c, r)
    BY <2>1
  <2>3. CountsRight(E, n, c, r)'
    BY <1>6, <2>2
  <2> QED BY <1>5, <2>1, <2>3
<1>10. PlatformsCounted'
  BY <1>1, <1>2, <1>3 DEF PlatformsCounted
<1> QED BY <1>7, <1>8, <1>9, <1>10

(* Nothing is counted at the start. *)
LEMMA InitCounts ==
  ASSUME Init, NetworkInvariant
  PROVE  CountsInvariant
<1> SUFFICES ASSUME query = 1 PROVE BatchesCounted /\ TotalsOnce /\ CountersRight /\ PlatformsCounted
  BY DEF CountsInvariant
<1>1. /\ taken = [k \in Queues[query] |-> 0]
      /\ rec = [n \in Nodes[query] |-> [c \in Clients |-> New(n)]]
      /\ log = [n \in Nodes[query] |-> << >>]
      /\ reports = << >>
  BY DEF Init
<1>2. sent[Counted] = << >> /\ sent[Summed] = << >>
  <2>1. sent = [k \in Queues[query] |->
                 CASE k[1] = GamesQueue[query] -> upload.games
                   [] k[1] = "reviews"         -> upload.reviews
                   [] OTHER                    -> << >>]
    BY DEF Init
  <2>2. /\ GamesQueue[query] = "games_platform" /\ Counted[1] = "platforms" /\ Summed[1] = "platform_counts"
        /\ Counted \in Queues[query] /\ Summed \in Queues[query]
    BY QueuesOfOne DEF GamesQueue, Counted, Summed
  <2> QED BY <2>1, <2>2
<1>3. Len(<< >>) = 0 /\ IsSeq(<< >>)
  BY FewPublications
<1>4. BatchesCounted /\ TotalsOnce
  <2>1. taken[Filtered] = 0
    BY <1>1, QueuesOfOne
  <2> QED BY <1>2, <1>3, <2>1 DEF BatchesCounted, TotalsOnce, Filtered
<1>5. CountersRight
  <2> SUFFICES ASSUME NEW n \in Nodes[query], NEW c \in Clients
               PROVE  CountsRight(Handled(n), n, c, rec[n][c])
    BY DEF CountersRight
  <2>1. log[n] = << >> /\ rec[n][c] = New(n)
    BY <1>1
  <2>2. Handled(n) = {}
    BY <2>1 DEF Handled, Range
  <2> QED BY <2>1, <2>2, NewCounts
<1>6. PlatformsCounted
  BY <1>1 DEF PlatformsCounted, Range
<1> QED BY <1>4, <1>5, <1>6

(* However the two queues and the restarts interleave, a client's games    *)
(* are counted by platform once each, and nobody else's with them          *)
(* (platform_counter.go): query 1 answers with the totals of its upload.   *)
THEOREM CountsAreTotals == Spec => []PlatformsCounted
<1>1. ASSUME NetworkInvariant, CountsInvariant, [Next]_vars
      PROVE  CountsInvariant'
  <2>1. /\ DOMAIN sent = Queues[query] /\ DOMAIN rec = Nodes[query]
        /\ rec = [n \in Nodes[query] |-> [c \in Clients |-> rec[n][c]]]
    BY <1>1 DEF NetworkInvariant, Shapes
  <2>2. ASSUME NEW k \in DOMAIN sent, Handle(k) PROVE CountsInvariant'
    <3>1. query' = query
      BY <2>2 DEF Handle
    <3> SUFFICES ASSUME query = 1 PROVE BatchesCounted' /\ TotalsOnce' /\ CountersRight' /\ PlatformsCounted'
      BY <3>1 DEF CountsInvariant
    <3>2. PICK o : Takes(k, NodeOf(k), taken[k] + 1, sent[k][taken[k] + 1], o)
      BY <1>1, <2>1, <2>2, HandleTakes
    <3>3. PICK n, i, m : Takes(k, n, i, m, o)
      BY <3>2
    <3>4. BatchesCounted /\ TotalsOnce /\ CountersRight /\ PlatformsCounted /\ k \in Queues[1]
      BY <1>1, <2>1 DEF CountsInvariant
    <3> QED BY <1>1, <3>3, <3>4, BatchesCountedAfter, TotalsOnceAfter, CountersRightAfter, PlatformsCountedAfter
  <2>3. ASSUME NEW n \in DOMAIN rec, Restart(n) PROVE CountsInvariant'
    <3>1. PICK kept \in Recovered(n) : rec' = [rec EXCEPT ![n] = kept]
      BY <2>3 DEF Restart
    <3>2. UNCHANGED <<query, upload, sent, taken, log, reports>>
      BY <2>3 DEF Restart
    <3>3. \A x \in Nodes[query] : rec'[x] = IF x = n THEN kept ELSE rec[x]
      BY <2>1, <3>1
    <3>4. ASSUME query = 1, NEW x \in Nodes[query], NEW c \in Clients
          PROVE  CountsRight(Handled(x), x, c, rec'[x][c])
      <4>1. BatchesCounted /\ TotalsOnce /\ CountersRight
        BY <1>1, <3>4 DEF CountsInvariant
      <4>2. CASE x = n
        <5>1. CountsFit(Handled(n), n, kept)
          BY <1>1, <2>1, <3>4, <4>1, RecoveredCounts
        <5> QED BY <3>3, <4>2, <5>1 DEF CountsFit
      <4>3. CASE x # n
        BY <3>3, <4>1, <4>3 DEF CountersRight
      <4> QED BY <4>2, <4>3
    <3> QED BY <1>1, <3>2, <3>4, QuietCounts
  <2>4. CASE UNCHANGED vars
    <3>1. UNCHANGED <<query, upload, sent, taken, log, reports>> /\ rec' = rec
      BY <2>4 DEF vars
    <3>2. query = 1 => \A n \in Nodes[query] : \A c \in Clients : CountsRight(Handled(n), n, c, rec'[n][c])
      BY <1>1, <3>1 DEF CountsInvariant, CountersRight
    <3> QED BY <1>1, <3>1, <3>2, QuietCounts
  <2> QED BY <1>1, <2>2, <2>3, <2>4 DEF Next, Work
<1>2. Init /\ NetworkInvariant => CountsInvariant
  BY InitCounts
<1>3. CountsInvariant => PlatformsCounted
  BY DEF CountsInvariant, PlatformsCounted
<1> QED BY <1>1, <1>2, <1>3, NetworkIsInvariant, PTL DEF Spec
=============================================================================
