---------------------------- MODULE FifoMailbox ----------------------------
(* What a mailbox promises: one FIFO queue per priority, a reader that     *)
(* skips messages without losing their order, a blocked state that is      *)
(* entered only when nothing is left to read and left by the next message, *)
(* and a closed state that accepts nothing.  (abstract_mailbox.hpp)        *)
EXTENDS Naturals, Sequences, SequencesExt

CONSTANT Element

Priority == {"urgent", "normal"}

VARIABLES
    queue,    \* the elements of each priority, oldest first
    cursor,   \* how many of them the reader has skipped
    state     \* "open", "blocked", "closing" or "closed"

vars == <<queue, cursor, state>>

Init ==
    /\ queue = [p \in Priority |-> <<>>]
    /\ cursor = [p \in Priority |-> 0]
    /\ state = "open"

AtEnd(p) == cursor[p] = Len(queue[p])

Unskip == cursor' = [p \in Priority |-> 0]

\* push_back: returns unblocked_reader iff the state was "blocked".
PushBack(p, e) ==
    /\ state # "closed"
    /\ queue' = [queue EXCEPT ![p] = Append(@, e)]
    /\ state' = IF state = "blocked" THEN "open" ELSE state
    /\ UNCHANGED cursor

\* pop_front of an element that the reader then consumes, drops or skips.
PopFront(p) ==
    /\ state = "open"
    /\ ~AtEnd(p)
    /\ queue' = [queue EXCEPT ![p] = RemoveAt(@, cursor[p] + 1)]
    /\ UNCHANGED state

Consume(p) == PopFront(p) /\ Unskip

Drop(p) == PopFront(p) /\ UNCHANGED cursor

Skip(p) ==
    /\ state = "open"
    /\ ~AtEnd(p)
    /\ cursor' = [cursor EXCEPT ![p] = @ + 1]
    /\ UNCHANGED <<queue, state>>

TryBlock ==
    /\ state = "open"
    /\ \A p \in Priority : AtEnd(p)
    /\ state' = "blocked"
    /\ UNCHANGED <<queue, cursor>>

TryUnblock ==
    /\ state = "blocked"
    /\ state' = "open"
    /\ UNCHANGED <<queue, cursor>>

\* The reader starts to close: it discards the elements it already has.
StartClose ==
    /\ state = "open"
    /\ \A p \in Priority : queue'[p] \in Suffixes(queue[p])
    /\ DOMAIN queue' = Priority
    /\ Unskip
    /\ state' = "closing"

\* From here on nothing is accepted.
FinishClose ==
    /\ \/ state = "closing" /\ UNCHANGED <<queue, cursor>>
       \/ state = "blocked" /\ queue' = [p \in Priority |-> <<>>] /\ Unskip
    /\ state' = "closed"

\* The elements that were in the queue when it was closed are discarded.
Discard(p) ==
    /\ state = "closed"
    /\ queue[p] # <<>>
    /\ queue' = [queue EXCEPT ![p] = Front(@)]
    /\ UNCHANGED <<cursor, state>>

Next ==
    \/ \E p \in Priority :
         \/ \E e \in Element : PushBack(p, e)
         \/ Consume(p) \/ Drop(p) \/ Skip(p) \/ Discard(p)
    \/ TryBlock \/ TryUnblock \/ StartClose \/ FinishClose

Spec == Init /\ [][Next]_vars
=============================================================================
