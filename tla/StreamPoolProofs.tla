-------------------------- MODULE StreamPoolProofs --------------------------
(* Theorems about StreamPool, for every number of actors, threads and       *)
(* streams.  IInv is inductive.                                             *)
EXTENDS StreamPool, FiniteSetTheorems, TLAPS

\* The pool is constructed with its first streams free and no actor assigned.
LEMMA InitInv == Init => IInv
<1> SUFFICES ASSUME Init PROVE IInv
  OBVIOUS
<1>1. /\ Created \in 0..MaxSize
      /\ \A i \in 1..Created : available_streams[i] = i
      /\ DOMAIN available_streams = 1..Created
      /\ Len(available_streams) = Created
  BY SizesAssumption DEF Init, Created
<1>2. TypeOK
  BY <1>1, SizesAssumption DEF TypeOK, Init
<1>3. Assigned = {}
  BY DEF Assigned, Init
<1>4. Cardinality(Assigned) = 0
  BY <1>3, FS_EmptySet
<1>5. InUseExact
  BY <1>4 DEF InUseExact, Init
<1>6. NoStreamLost
  BY <1>1 DEF NoStreamLost, Queued, Init
<1>7. ExclusiveWhileRoom
  BY <1>1, <1>3 DEF ExclusiveWhileRoom
<1>8. EntriesExact /\ QueueBounded
  BY <1>1, <1>4 DEF EntriesExact, QueueBounded, Init
<1> QED
  BY <1>2, <1>5, <1>6, <1>7, <1>8 DEF IInv

\* The actors with a stream are finitely many.
LEMMA AssignedFinite ==
    /\ IsFiniteSet(Assigned)
    /\ Cardinality(Assigned) \in Nat
    /\ Cardinality(Assigned) <= Cardinality(Actor)
    /\ Cardinality(Actor) \in Nat
<1>1. Assigned \subseteq Actor
  BY DEF Assigned
<1> QED
  BY <1>1, ActorsAssumption, FS_Subset, FS_CardinalityType

\* An actor without a stream gets one: one more actor is counted.
LEMMA AssignCounts ==
    ASSUME TypeOK, NEW a \in Actor, table[a] = NoStream,
           NEW s, s # NoStream, table' = [table EXCEPT ![a] = s]
    PROVE  /\ Assigned' = Assigned \cup {a}
           /\ Cardinality(Assigned') = Cardinality(Assigned) + 1
           /\ Cardinality(Assigned) + 1 <= Cardinality(Actor)
<1>1. Assigned' = Assigned \cup {a} /\ a \notin Assigned
  BY DEF TypeOK, Assigned
<1>2. Cardinality(Assigned \cup {a}) = Cardinality(Assigned) + 1
  BY <1>1, AssignedFinite, FS_AddElement
<1>3. Assigned \cup {a} \subseteq Actor
  BY DEF Assigned
<1>4. Cardinality(Assigned \cup {a}) <= Cardinality(Actor)
  BY <1>3, ActorsAssumption, FS_Subset
<1> QED
  BY <1>1, <1>2, <1>4

\* An actor gives its stream back: one less is counted.
LEMMA ReleaseCounts ==
    ASSUME TypeOK, NEW a \in Actor, table[a] # NoStream,
           table' = [table EXCEPT ![a] = NoStream]
    PROVE  /\ Assigned' = Assigned \ {a}
           /\ Cardinality(Assigned') = Cardinality(Assigned) - 1
<1>1. Assigned' = Assigned \ {a} /\ a \in Assigned
  BY DEF TypeOK, Assigned
<1>2. Cardinality(Assigned \ {a}) = Cardinality(Assigned) - 1
  BY <1>1, AssignedFinite, FS_RemoveElement
<1> QED
  BY <1>1, <1>2

\* acquire, when a stream is in the queue.
LEMMA AvailableStep ==
    ASSUME IInv, NEW a \in Actor, table[a] = NoStream,
           AcquireAvailable(a), in_use' = in_use + 1,
           waiting' \in [Thread -> Actor \cup {NoActor}]
    PROVE  IInv'
<1> DEFINE s == available_streams[1]
<1>1. /\ available_streams \in Seq(1..total_streams) /\ available_streams # <<>>
      /\ total_streams \in 0..MaxSize /\ rr_index \in 0..(MaxSize - 1)
      /\ table \in [Actor -> {NoStream} \cup 1..total_streams] /\ in_use \in Nat
  BY DEF IInv, TypeOK, AcquireAvailable
<1>2. /\ s \in 1..total_streams
      /\ Head(available_streams) = s
      /\ Len(available_streams) \in Nat \ {0}
      /\ DOMAIN available_streams = 1..Len(available_streams)
  BY <1>1
<1>3. /\ available_streams' = Tail(available_streams)
      /\ table' = [table EXCEPT ![a] = s]
      /\ total_streams' = total_streams /\ rr_index' = rr_index
  BY <1>2 DEF AcquireAvailable
<1>4. /\ available_streams' \in Seq(1..total_streams)
      /\ Len(available_streams') = Len(available_streams) - 1
      /\ DOMAIN available_streams' = 1..(Len(available_streams) - 1)
      /\ \A i \in DOMAIN available_streams' :
             available_streams'[i] = available_streams[i + 1]
  BY <1>1, <1>2, <1>3
<1>5. s # NoStream
  BY <1>1, <1>2 DEF NoStream
<1> HIDE DEF s
<1>6. /\ Assigned' = Assigned \cup {a}
      /\ Cardinality(Assigned') = Cardinality(Assigned) + 1
      /\ Cardinality(Assigned) \in Nat
  BY <1>3, <1>5, AssignCounts, AssignedFinite DEF IInv
<1>7. TypeOK'
  BY <1>1, <1>2, <1>3, <1>4 DEF TypeOK
<1>8. InUseExact'
  BY <1>6 DEF InUseExact, IInv
<1>9. table'[a] = s /\ \A b \in Actor \ {a} : table'[b] = table[b]
  BY <1>1, <1>3
<1>10. Queued = Queued' \cup {s}
  <2>1. \A i \in 2..Len(available_streams) :
            i - 1 \in DOMAIN available_streams' /\ available_streams'[i - 1] = available_streams[i]
    BY <1>2, <1>4
  <2>2. \A i \in DOMAIN available_streams : i = 1 \/ i \in 2..Len(available_streams)
    BY <1>2
  <2>3. Queued \subseteq Queued' \cup {s}
    BY <2>1, <2>2 DEF Queued, s
  <2>4. 1 \in DOMAIN available_streams
        /\ \A i \in DOMAIN available_streams' : i + 1 \in DOMAIN available_streams
    BY <1>2, <1>4
  <2>5. Queued' \cup {s} \subseteq Queued
    BY <1>4, <2>4 DEF Queued, s
  <2> QED
    BY <2>3, <2>5
<1>11. NoStreamLost'
  <2> SUFFICES ASSUME NEW x \in 1..total_streams, x \notin Queued'
               PROVE  \E b \in Actor : table'[b] = x
    BY <1>3 DEF NoStreamLost
  <2>1. CASE x = s
    BY <2>1, <1>9
  <2>2. CASE x # s
    <3>1. x \notin Queued
      BY <2>2, <1>10
    <3>2. PICK b \in Actor : table[b] = x
      BY <3>1 DEF IInv, NoStreamLost
    <3>3. b # a
      BY <3>2, <1>1 DEF NoStream
    <3> QED
      BY <3>2, <3>3, <1>9
  <2> QED
    BY <2>1, <2>2
<1>12. ExclusiveWhileRoom'
  <2> SUFFICES ASSUME total_streams < MaxSize PROVE
        /\ \A b, c \in Assigned' : table'[b] = table'[c] => b = c
        /\ \A b \in Assigned' : table'[b] \notin Queued'
        /\ \A i, j \in DOMAIN available_streams' :
               available_streams'[i] = available_streams'[j] => i = j
    BY <1>3 DEF ExclusiveWhileRoom
  <2>1. /\ \A b, c \in Assigned : table[b] = table[c] => b = c
        /\ \A b \in Assigned : table[b] \notin Queued
        /\ \A i, j \in DOMAIN available_streams :
               available_streams[i] = available_streams[j] => i = j
    BY DEF IInv, ExclusiveWhileRoom
  <2>2. Assigned \subseteq Actor /\ a \notin Assigned /\ s \in Queued
    BY <1>10 DEF Assigned
  <2>3. \A b, c \in Assigned' : table'[b] = table'[c] => b = c
    BY <2>1, <2>2, <1>6, <1>9
  <2>4. \A i, j \in DOMAIN available_streams' :
            available_streams'[i] = available_streams'[j] => i = j
    <3> SUFFICES ASSUME NEW i \in DOMAIN available_streams',
                        NEW j \in DOMAIN available_streams',
                        available_streams'[i] = available_streams'[j]
                 PROVE  i = j
      OBVIOUS
    <3>1. i + 1 \in DOMAIN available_streams /\ j + 1 \in DOMAIN available_streams
      BY <1>2, <1>4
    <3>2. available_streams[i + 1] = available_streams[j + 1]
      BY <1>4
    <3>3. i + 1 = j + 1
      BY <3>1, <3>2, <2>1
    <3> QED
      BY <3>3, <1>4, <1>2
  <2>5. s \notin Queued'
    <3> SUFFICES ASSUME NEW i \in DOMAIN available_streams', available_streams'[i] = s
                 PROVE  FALSE
      BY DEF Queued
    <3>1. i + 1 \in DOMAIN available_streams /\ 1 \in DOMAIN available_streams
      BY <1>2, <1>4
    <3>2. available_streams[i + 1] = available_streams[1]
      BY <1>4 DEF s
    <3>3. i + 1 = 1
      BY <3>1, <3>2, <2>1
    <3> QED
      BY <3>3, <1>4, <1>2
  <2>6. \A b \in Assigned' : table'[b] \notin Queued'
    BY <2>1, <2>2, <2>5, <1>6, <1>9, <1>10
  <2> QED
    BY <2>3, <2>4, <2>6
<1>13. EntriesExact' /\ QueueBounded'
  BY <1>1, <1>2, <1>3, <1>4, <1>6, SizesAssumption, AssignedFinite
  DEF IInv, EntriesExact, QueueBounded
<1> QED
  BY <1>7, <1>8, <1>11, <1>12, <1>13 DEF IInv

\* acquire, when the pool grows by a stream.
LEMMA NewStep ==
    ASSUME IInv, NEW a \in Actor, table[a] = NoStream,
           AcquireNew(a), in_use' = in_use + 1,
           waiting' \in [Thread -> Actor \cup {NoActor}]
    PROVE  IInv'
<1> DEFINE s == total_streams + 1
<1>1. /\ available_streams = <<>> /\ available_streams' = <<>>
      /\ total_streams \in 0..MaxSize /\ total_streams < MaxSize
      /\ rr_index \in 0..(MaxSize - 1) /\ in_use \in Nat
      /\ table \in [Actor -> {NoStream} \cup 1..total_streams]
      /\ table' = [table EXCEPT ![a] = s]
      /\ total_streams' = s /\ rr_index' = rr_index
  BY DEF IInv, TypeOK, AcquireNew
<1>2. s \in 1..MaxSize /\ s # NoStream /\ 1..s = 1..total_streams \cup {s}
      /\ s \notin 1..total_streams
  BY <1>1, SizesAssumption DEF NoStream
<1> HIDE DEF s
<1>3. /\ Assigned' = Assigned \cup {a}
      /\ Cardinality(Assigned') = Cardinality(Assigned) + 1
      /\ Cardinality(Assigned) \in Nat
  BY <1>1, <1>2, AssignCounts, AssignedFinite DEF IInv
<1>4. table'[a] = s /\ \A b \in Actor \ {a} : table'[b] = table[b]
  BY <1>1
<1>5. TypeOK'
  <2>1. table' \in [Actor -> {NoStream} \cup 1..s]
    BY <1>1, <1>2
  <2> QED
    BY <2>1, <1>1, <1>2 DEF TypeOK
<1>6. InUseExact'
  BY <1>3 DEF InUseExact, IInv
<1>7. Queued' = {} /\ Queued = {}
  BY <1>1 DEF Queued
<1>8. NoStreamLost'
  <2> SUFFICES ASSUME NEW x \in 1..total_streams PROVE \E b \in Actor : table'[b] = x
    BY <1>1, <1>2, <1>4 DEF NoStreamLost
  <2>1. PICK b \in Actor : table[b] = x
    BY <1>7 DEF IInv, NoStreamLost
  <2>2. b # a
    BY <2>1, <1>1 DEF NoStream
  <2> QED
    BY <2>1, <2>2, <1>4
<1>9. ExclusiveWhileRoom'
  <2>1. \A b, c \in Assigned : table[b] = table[c] => b = c
    BY <1>1 DEF IInv, ExclusiveWhileRoom
  <2>2. \A b \in Assigned : b \in Actor /\ b # a /\ table[b] \in 1..total_streams
    BY <1>1 DEF Assigned
  <2>3. \A b, c \in Assigned' : table'[b] = table'[c] => b = c
    BY <2>1, <2>2, <1>2, <1>3, <1>4
  <2> QED
    BY <2>3, <1>1, <1>7 DEF ExclusiveWhileRoom
<1>10. EntriesExact' /\ QueueBounded'
  <2>1. Cardinality(Assigned) = total_streams
    BY <1>1, <1>3 DEF IInv, EntriesExact
  <2>2. Cardinality(Assigned') = s
    BY <2>1, <1>1, <1>3 DEF s
  <2> QED
    BY <2>2, <1>1, <1>2, SizesAssumption DEF EntriesExact, QueueBounded
<1> QED
  BY <1>5, <1>6, <1>8, <1>9, <1>10 DEF IInv

\* acquire, when the pool is exhausted.
LEMMA ReusedStep ==
    ASSUME IInv, NEW a \in Actor, table[a] = NoStream,
           AcquireReused(a), in_use' = in_use + 1,
           waiting' \in [Thread -> Actor \cup {NoActor}]
    PROVE  IInv'
<1> DEFINE s == rr_index + 1
<1>1. /\ available_streams = <<>> /\ available_streams' = <<>>
      /\ total_streams = MaxSize /\ total_streams' = MaxSize
      /\ rr_index \in 0..(MaxSize - 1) /\ in_use \in Nat
      /\ table \in [Actor -> {NoStream} \cup 1..total_streams]
      /\ table' = [table EXCEPT ![a] = s]
      /\ rr_index' = s % MaxSize
  BY DEF IInv, TypeOK, AcquireReused
<1>2. s \in 1..MaxSize /\ s # NoStream /\ rr_index' \in 0..(MaxSize - 1)
  BY <1>1, SizesAssumption DEF NoStream
<1> HIDE DEF s
<1>3. /\ Assigned' = Assigned \cup {a}
      /\ Cardinality(Assigned') = Cardinality(Assigned) + 1
      /\ Cardinality(Assigned) + 1 <= Cardinality(Actor)
  BY <1>1, <1>2, AssignCounts DEF IInv
<1>4. table'[a] = s /\ \A b \in Actor \ {a} : table'[b] = table[b]
  BY <1>1
<1>5. TypeOK'
  <2>1. table' \in [Actor -> {NoStream} \cup 1..MaxSize]
    BY <1>1, <1>2
  <2> QED
    BY <2>1, <1>1, <1>2, SizesAssumption DEF TypeOK
<1>6. InUseExact'
  BY <1>3 DEF InUseExact, IInv
<1>7. NoStreamLost'
  <2> SUFFICES ASSUME NEW x \in 1..total_streams PROVE \E b \in Actor : table'[b] = x
    BY <1>1 DEF NoStreamLost
  <2>1. PICK b \in Actor : table[b] = x
    BY <1>1 DEF IInv, NoStreamLost, Queued
  <2>2. b # a
    BY <2>1, <1>1 DEF NoStream
  <2> QED
    BY <2>1, <2>2, <1>4
<1>8. ExclusiveWhileRoom' /\ EntriesExact'
  BY <1>1, SizesAssumption DEF ExclusiveWhileRoom, EntriesExact
<1>9. QueueBounded'
  BY <1>1, <1>3, AssignedFinite DEF QueueBounded
<1> QED
  BY <1>5, <1>6, <1>7, <1>8, <1>9 DEF IInv

\* release_stream puts the stream of an actor into the queue.
LEMMA ReleaseStep ==
    ASSUME IInv, NEW t \in Thread, NEW a \in Actor, ReleaseStream(t, a)
    PROVE  IInv'
<1> DEFINE s == table[a]
           n == Len(available_streams)
<1>1. /\ available_streams \in Seq(1..total_streams)
      /\ total_streams \in 0..MaxSize /\ rr_index \in 0..(MaxSize - 1)
      /\ table \in [Actor -> {NoStream} \cup 1..total_streams]
      /\ waiting \in [Thread -> Actor \cup {NoActor}]
  BY DEF IInv, TypeOK
<1>2. /\ available_streams' = Append(available_streams, s)
      /\ table' = [table EXCEPT ![a] = NoStream]
      /\ total_streams' = total_streams /\ rr_index' = rr_index
      /\ waiting' = waiting /\ s # NoStream
      /\ in_use' = IF in_use > 0 THEN in_use - 1 ELSE in_use
  BY DEF ReleaseStream, Release
<1>3. s \in 1..total_streams
  BY <1>1, <1>2
<1>4. /\ n \in Nat /\ available_streams' \in Seq(1..total_streams)
      /\ DOMAIN available_streams = 1..n /\ DOMAIN available_streams' = 1..(n + 1)
      /\ Len(available_streams') = n + 1 /\ available_streams'[n + 1] = s
      /\ \A i \in 1..n : available_streams'[i] = available_streams[i]
  BY <1>1, <1>2, <1>3
<1>5. table'[a] = NoStream /\ \A b \in Actor \ {a} : table'[b] = table[b]
  BY <1>1, <1>2
<1>6. /\ Assigned' = Assigned \ {a} /\ a \in Assigned
      /\ Cardinality(Assigned') = Cardinality(Assigned) - 1
      /\ Cardinality(Assigned) \in Nat
  BY <1>2, ReleaseCounts, AssignedFinite DEF IInv, Assigned
<1>7. Cardinality(Assigned') \in Nat
  <2>1. Assigned' \subseteq Assigned
    BY <1>6
  <2> QED
    BY <2>1, AssignedFinite, FS_Subset, FS_CardinalityType
<1>8. 1..(n + 1) = 1..n \cup {n + 1}
  BY <1>4
<1> HIDE DEF s, n
<1>9. Queued' = Queued \cup {s}
  BY <1>4, <1>8 DEF Queued
<1>10. InUseExact'
  BY <1>2, <1>6, <1>7 DEF InUseExact, IInv
<1>11. TypeOK'
  <2>1. table' \in [Actor -> {NoStream} \cup 1..total_streams]
    BY <1>1, <1>2
  <2>2. in_use' \in Nat
    BY <1>10, <1>7 DEF InUseExact
  <2> QED
    BY <2>1, <2>2, <1>1, <1>2, <1>4 DEF TypeOK
<1>12. NoStreamLost'
  <2> SUFFICES ASSUME NEW x \in 1..total_streams, x \notin Queued'
               PROVE  \E b \in Actor : table'[b] = x
    BY <1>2 DEF NoStreamLost
  <2>1. PICK b \in Actor : table[b] = x
    BY <1>9 DEF IInv, NoStreamLost
  <2>2. b # a
    BY <2>1, <1>9 DEF s
  <2> QED
    BY <2>1, <2>2, <1>5
<1>13. ExclusiveWhileRoom'
  <2> SUFFICES ASSUME total_streams < MaxSize PROVE
        /\ \A b, c \in Assigned' : table'[b] = table'[c] => b = c
        /\ \A b \in Assigned' : table'[b] \notin Queued'
        /\ \A i, j \in DOMAIN available_streams' :
               available_streams'[i] = available_streams'[j] => i = j
    BY <1>2 DEF ExclusiveWhileRoom
  <2>1. /\ \A b, c \in Assigned : table[b] = table[c] => b = c
        /\ \A b \in Assigned : table[b] \notin Queued
        /\ \A i, j \in DOMAIN available_streams :
               available_streams[i] = available_streams[j] => i = j
    BY DEF IInv, ExclusiveWhileRoom
  <2>2. \A b \in Assigned' : b \in Assigned /\ b \in Actor \ {a} /\ table'[b] = table[b]
    BY <1>5, <1>6 DEF Assigned
  <2>3. \A b, c \in Assigned' : table'[b] = table'[c] => b = c
    BY <2>1, <2>2
  <2>4. \A b \in Assigned' : table'[b] \notin Queued'
    BY <2>1, <2>2, <1>6, <1>9 DEF s
  <2>5. s \notin Queued
    BY <2>1, <1>6 DEF s
  <2>6. \A i \in 1..n : available_streams[i] # s
    BY <2>5, <1>4 DEF Queued
  <2>7. \A i, j \in 1..n : available_streams[i] = available_streams[j] => i = j
    BY <2>1, <1>4
  <2>8. \A i, j \in 1..n \cup {n + 1} :
            available_streams'[i] = available_streams'[j] => i = j
    BY <2>6, <2>7, <1>4
  <2> QED
    BY <2>3, <2>4, <2>8, <1>4, <1>8
<1>14. EntriesExact' /\ QueueBounded'
  BY <1>1, <1>2, <1>4, <1>6, SizesAssumption, AssignedFinite
  DEF IInv, EntriesExact, QueueBounded, n
<1> QED
  BY <1>10, <1>11, <1>12, <1>13, <1>14 DEF IInv

\* Every step of every thread preserves the invariant.
LEMMA NextInv == IInv /\ [Next]_vars => IInv'
<1> SUFFICES ASSUME IInv, [Next]_vars PROVE IInv'
  OBVIOUS
<1>1. waiting \in [Thread -> Actor \cup {NoActor}]
  BY DEF IInv, TypeOK
<1>2. ASSUME UNCHANGED <<poolVars, table>>, waiting' \in [Thread -> Actor \cup {NoActor}]
      PROVE  IInv'
  <2>1. /\ available_streams' = available_streams /\ total_streams' = total_streams
        /\ in_use' = in_use /\ rr_index' = rr_index /\ table' = table
    BY <1>2 DEF poolVars
  <2>2. Assigned' = Assigned /\ Queued' = Queued
    BY <2>1 DEF Assigned, Queued
  <2> QED
    BY <2>1, <2>2, <1>2 DEF IInv, TypeOK, InUseExact, NoStreamLost,
       ExclusiveWhileRoom, EntriesExact, QueueBounded
<1>3. CASE UNCHANGED vars
  BY <1>1, <1>2, <1>3 DEF vars
<1>4. ASSUME NEW t \in Thread, CreateFails(t) PROVE IInv'
  <2>1. waiting' \in [Thread -> Actor \cup {NoActor}]
    BY <1>1, <1>4 DEF CreateFails
  <2> QED
    BY <2>1, <1>2, <1>4 DEF CreateFails
<1>5. ASSUME NEW t \in Thread, NEW a \in Actor, Lookup(t, a) PROVE IInv'
  <2>1. waiting' \in [Thread -> Actor \cup {NoActor}]
    BY <1>1, <1>5 DEF Lookup
  <2> QED
    BY <2>1, <1>2, <1>5 DEF Lookup
<1>6. ASSUME NEW t \in Thread, Assign(t) PROVE IInv'
  <2>1. waiting' \in [Thread -> Actor \cup {NoActor}] /\ waiting[t] \in Actor
    BY <1>1, <1>6 DEF Assign
  <2>2. CASE table[waiting[t]] = NoStream
    BY <2>1, <2>2, <1>6, AvailableStep, NewStep, ReusedStep DEF Assign, Acquire
  <2>3. CASE table[waiting[t]] # NoStream
    BY <2>1, <2>3, <1>2, <1>6 DEF Assign
  <2> QED
    BY <2>2, <2>3
<1>7. ASSUME NEW t \in Thread, NEW a \in Actor, ReleaseStream(t, a) PROVE IInv'
  BY <1>7, ReleaseStep
<1> QED
  BY <1>3, <1>4, <1>5, <1>6, <1>7 DEF Next

\* For every number of threads, actors and streams, the reachable states of
\* StreamPool and DeviceStreamTable satisfy the inductive invariant.
THEOREM Inductive == Spec => []IInv
  BY InitInv, NextInv, PTL DEF Spec

\* The pool and the table stay within their types: in particular rr_index_ is
\* always an index of all_streams_ when it is used.
THEOREM TypeCorrect == Spec => []TypeOK
  BY Inductive, PTL DEF IInv

\* num_in_use() is exact: acquire and release are paired in every interleaving.
THEOREM UsageExact == Spec => []InUseExact
  BY Inductive, PTL DEF IInv

\* acquire hands out exclusive streams until max_size_ streams exist.
THEOREM Exclusive == Spec => []ExclusiveWhileRoom
  BY Inductive, PTL DEF IInv

\* No interleaving of get_stream and release_stream loses a stream.
THEOREM NothingLost == Spec => []NoStreamLost
  BY Inductive, PTL DEF IInv

\* available_streams_ stays bounded although reused streams are queued again.
THEOREM Bounded == Spec => []QueueBounded
  BY Inductive, PTL DEF IInv

\* get_stream never replaces the stream of an actor, whichever threads race.
THEOREM Stable == Spec => StableMapping
<1>1. IInv /\ [Next]_vars =>
          [\A a \in Assigned : table'[a] = table[a] \/ table'[a] = NoStream]_vars
  <2> SUFFICES ASSUME IInv, Next, NEW a \in Assigned
               PROVE  table'[a] = table[a] \/ table'[a] = NoStream
    BY DEF vars
  <2>1. table \in [Actor -> {NoStream} \cup 1..total_streams] /\ a \in Actor
        /\ table[a] # NoStream
    BY DEF IInv, TypeOK, Assigned
  <2>2. PICK t \in Thread : \/ Assign(t) \/ CreateFails(t)
                            \/ \E b \in Actor : Lookup(t, b) \/ ReleaseStream(t, b)
    BY DEF Next
  <2>3. CASE Assign(t)
    BY <2>1, <2>3 DEF Assign, Acquire, AcquireAvailable, AcquireNew, AcquireReused
  <2>4. CASE CreateFails(t)
    BY <2>4 DEF CreateFails
  <2>5. ASSUME NEW b \in Actor, Lookup(t, b) \/ ReleaseStream(t, b)
        PROVE  table'[a] = table[a] \/ table'[a] = NoStream
    BY <2>1, <2>5 DEF Lookup, ReleaseStream
  <2> QED
    BY <2>2, <2>3, <2>4, <2>5
<1> QED
  BY <1>1, Inductive, PTL DEF Spec, StableMapping
=============================================================================
