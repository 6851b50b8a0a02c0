----------------------------- MODULE StreamPool -----------------------------
(* The CUDA streams of one device: StreamPool and DeviceStreamTable of     *)
(* libcaf_cuda, used by threads that run actors.                           *)
(*                                                                         *)
(* A stream is its position in all_streams_, counted from one.  Every      *)
(* critical section is one step; get_stream has two, and other threads can *)
(* assign and release in between.                                          *)
EXTENDS Integers, Sequences, FiniteSets

CONSTANTS
    Actor,        \* the actor ids
    Thread,       \* the threads that call into the table
    InitialSize,  \* streams that the constructor creates
    MaxSize,      \* max_size_
    NoActor       \* a thread that is not in get_stream

ASSUME SizesAssumption == InitialSize \in Nat /\ MaxSize \in Nat \ {0}
ASSUME ActorsAssumption == IsFiniteSet(Actor) /\ NoActor \notin Actor

Stream == 1..MaxSize
NoStream == 0

VARIABLES
    available_streams,  \* streams that were created ahead or released
    total_streams,      \* how many streams there are
    in_use,             \* a metric
    rr_index,           \* the next stream to reuse, counted from zero
    table,              \* the stream of each actor
    waiting             \* the actor for which a thread waits to write the table

poolVars == <<available_streams, total_streams, in_use, rr_index>>
vars == <<poolVars, table, waiting>>

TypeOK ==
    /\ available_streams \in Seq(1..total_streams)
    /\ total_streams \in 0..MaxSize
    /\ in_use \in Nat
    /\ rr_index \in 0..(MaxSize - 1)
    /\ table \in [Actor -> {NoStream} \cup 1..total_streams]
    /\ waiting \in [Thread -> Actor \cup {NoActor}]

Created == IF InitialSize < MaxSize THEN InitialSize ELSE MaxSize

Init ==
    /\ total_streams = Created
    /\ available_streams = [i \in 1..Created |-> i]
    /\ in_use = 0
    /\ rr_index = 0
    /\ table = [a \in Actor |-> NoStream]
    /\ waiting = [t \in Thread |-> NoActor]
-----------------------------------------------------------------------------
(* StreamPool.                                                              *)

\* Seeded fault: a stream stays in the queue when it is handed out.
AcquireAvailableCopy(a) ==
    /\ available_streams # <<>>
    /\ table' = [table EXCEPT ![a] = Head(available_streams)]
    /\ UNCHANGED <<available_streams, total_streams, rr_index>>

\* acquire, fast path.
AcquireAvailable(a) ==
    /\ available_streams # <<>>
    /\ table' = [table EXCEPT ![a] = Head(available_streams)]
    /\ available_streams' = Tail(available_streams)
    /\ UNCHANGED <<total_streams, rr_index>>

\* Seeded fault: a new stream is also put into the queue.
AcquireNewAvailable(a) ==
    /\ available_streams = <<>>
    /\ total_streams < MaxSize
    /\ table' = [table EXCEPT ![a] = total_streams + 1]
    /\ total_streams' = total_streams + 1
    /\ available_streams' = <<total_streams + 1>>
    /\ UNCHANGED rr_index

\* acquire, when the pool may still grow.
AcquireNew(a) ==
    /\ available_streams = <<>>
    /\ total_streams < MaxSize
    /\ table' = [table EXCEPT ![a] = total_streams + 1]
    /\ total_streams' = total_streams + 1
    /\ UNCHANGED <<available_streams, rr_index>>

\* acquire, when the pool is exhausted: the next stream, round robin, although
\* another actor uses it.
AcquireReused(a) ==
    /\ available_streams = <<>>
    /\ total_streams = MaxSize
    /\ table' = [table EXCEPT ![a] = rr_index + 1]
    /\ rr_index' = (rr_index + 1) % total_streams
    /\ UNCHANGED <<available_streams, total_streams>>

Acquire(a) ==
    /\ AcquireAvailable(a) \/ AcquireNew(a) \/ AcquireReused(a)
    /\ in_use' = in_use + 1

\* release, for the stream of an actor.
Release(a) ==
    /\ available_streams' = Append(available_streams, table[a])
    /\ in_use' = IF in_use > 0 THEN in_use - 1 ELSE in_use
    /\ UNCHANGED <<total_streams, rr_index>>
-----------------------------------------------------------------------------
(* DeviceStreamTable.                                                       *)

\* get_stream finds no stream under the shared lock.  (When it finds one, it
\* returns it and changes nothing.)
Lookup(t, a) ==
    /\ waiting[t] = NoActor
    /\ table[a] = NoStream
    /\ waiting' = [waiting EXCEPT ![t] = a]
    /\ UNCHANGED <<poolVars, table>>

\* Seeded fault: no second look at the table.
AssignUnchecked(t) ==
    /\ waiting[t] # NoActor
    /\ Acquire(waiting[t])
    /\ waiting' = [waiting EXCEPT ![t] = NoActor]

\* get_stream, under the exclusive lock: another thread may have assigned a
\* stream meanwhile.
Assign(t) ==
    /\ waiting[t] # NoActor
    /\ IF table[waiting[t]] = NoStream THEN Acquire(waiting[t])
                                       ELSE UNCHANGED <<poolVars, table>>
    /\ waiting' = [waiting EXCEPT ![t] = NoActor]

\* create_stream throws: neither the pool nor the table has changed.
CreateFails(t) ==
    /\ waiting[t] # NoActor
    /\ table[waiting[t]] = NoStream
    /\ available_streams = <<>>
    /\ total_streams < MaxSize
    /\ waiting' = [waiting EXCEPT ![t] = NoActor]
    /\ UNCHANGED <<poolVars, table>>

\* release_stream, by a thread that is not in get_stream.
ReleaseStream(t, a) ==
    /\ waiting[t] = NoActor
    /\ table[a] # NoStream
    /\ Release(a)
    /\ table' = [table EXCEPT ![a] = NoStream]
    /\ UNCHANGED waiting

Next ==
    \E t \in Thread :
        \/ Assign(t) \/ CreateFails(t)
        \/ \E a \in Actor : Lookup(t, a) \/ ReleaseStream(t, a)

Spec == Init /\ [][Next]_vars
-----------------------------------------------------------------------------
Assigned == {a \in Actor : table[a] # NoStream}
Queued == {available_streams[i] : i \in DOMAIN available_streams}

\* in_use_ counts the actors with a stream: its guard against underflow never
\* hides an acquire or a release that was not paired with the other.
InUseExact == in_use = Cardinality(Assigned)

\* Whatever the threads assign, release and share, no stream is lost: each one
\* is free or has an actor.
NoStreamLost == \A s \in 1..total_streams : s \in Queued \/ \E a \in Actor : table[a] = s

\* As long as the pool has room to grow, no two actors share a stream and no
\* stream in the queue is in use or there twice.
ExclusiveWhileRoom ==
    total_streams < MaxSize =>
        /\ \A a, b \in Assigned : table[a] = table[b] => a = b
        /\ \A a \in Assigned : table[a] \notin Queued
        /\ \A i, j \in DOMAIN available_streams :
               available_streams[i] = available_streams[j] => i = j

\* Every reuse of a stream adds an entry that release() will queue, yet only
\* when the queue is empty: the entries never outnumber the streams, or the
\* actors if there are more of them, however long the program runs.
QueueBounded ==
    \/ Len(available_streams) + Cardinality(Assigned) <= MaxSize
    \/ Len(available_streams) + Cardinality(Assigned) <= Cardinality(Actor)

\* While the pool has room to grow, every stream is one entry: QueueBounded
\* rests on this.
EntriesExact ==
    total_streams < MaxSize =>
        Len(available_streams) + Cardinality(Assigned) = total_streams

IInv == TypeOK /\ InUseExact /\ NoStreamLost /\ ExclusiveWhileRoom
          /\ EntriesExact /\ QueueBounded

\* Racing calls of get_stream agree: a stream, once returned for an actor, stays
\* the stream of that actor until release_stream.
StableMapping ==
    [][\A a \in Assigned : table'[a] = table[a] \/ table'[a] = NoStream]_vars
=============================================================================
