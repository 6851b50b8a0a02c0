------------------------------ MODULE Mailbox ------------------------------
(* The mailbox of an actor: detail::default_mailbox on top of              *)
(* intrusive::lifo_inbox, with the stash of scheduled_actor and            *)
(* blocking_actor.                                                         *)
(*                                                                         *)
(* The inbox is modelled at the level of its one atomic pointer: writers   *)
(* load it, link their node and compare-exchange, and a node that the      *)
(* owner deletes can be allocated again at the same address.  The FIFO     *)
(* caches and the stash belong to the owner alone and are sequences.       *)
EXTENDS Naturals, Sequences, FiniteSets

CONSTANTS
    Node,      \* addresses a mailbox_element can be allocated at
    Writer,    \* threads that call push_back
    MaxPush    \* bound: number of calls to push_back

Priority == {"urgent", "normal"}

Null    == "stack_empty_tag"       \* nullptr
Blocked == "reader_blocked_tag"
Closed  == "stack_closed_tag"

ASSUME NodeAssumption == Node \cap {Null, Blocked, Closed} = {}
ASSUME MaxPushAssumption == MaxPush \in Nat

VARIABLES
    stack_,         \* lifo_inbox::stack_
    next,           \* mailbox_element::next, while the node is in the inbox
    prio,           \* urgent iff mid.is_urgent_message(), per address
    allocated,      \* addresses that hold a live element
    wpc, wnode, wexp,   \* a writer's progress, its element and its local `e`
    opc,            \* what the owner does
    head, pos,      \* locals of fetch_more: list and insertion points
    queue_,         \* urgent_queue_ and normal_queue_
    stash_,         \* the stash, kept per priority: only that order matters
    wakeups,        \* unblocked_reader results not yet turned into a resume
    ticket          \* history: calls of push_back that returned

inboxVars == <<stack_, next>>
writerVars == <<wpc, wnode, wexp>>
fetchVars == <<head, pos>>
cacheVars == <<queue_, stash_>>
vars == <<inboxVars, prio, allocated, writerVars, opc, fetchVars, cacheVars,
          wakeups, ticket>>

Empty == [p \in Priority |-> <<>>]

TypeOK ==
    /\ stack_ \in Node \cup {Null, Blocked, Closed}
    /\ next \in [Node -> Node \cup {Null}]
    /\ prio \in [Node -> Priority]
    /\ allocated \in SUBSET Node
    /\ wpc \in [Writer -> {"idle", "cas"}]
    /\ wnode \in [Writer -> Node \cup {Null}]
    /\ wexp \in [Writer -> Node \cup {Null, Blocked}]
    /\ opc \in {"run", "fetch", "blocked", "close", "drain", "closed"}
    /\ head \in Node \cup {Null}
    /\ pos \in [Priority -> Nat]
    /\ queue_ \in [Priority -> Seq(Node)]
    /\ stash_ \in [Priority -> Seq(Node)]
    /\ wakeups \in Nat
    /\ ticket \in Nat

Init ==
    /\ stack_ = Null
    /\ next = [n \in Node |-> Null]
    /\ prio = [n \in Node |-> "normal"]
    /\ allocated = {}
    /\ wpc = [w \in Writer |-> "idle"]
    /\ wnode = [w \in Writer |-> Null]
    /\ wexp = [w \in Writer |-> Null]
    /\ opc = "run"
    /\ head = Null
    /\ pos = [p \in Priority |-> 0]
    /\ queue_ = Empty
    /\ stash_ = Empty
    /\ wakeups = 0
    /\ ticket = 0
-----------------------------------------------------------------------------
(* Writers: lifo_inbox::push_front.                                         *)

Active == {w \in Writer : wpc[w] = "cas"}

\* new_element->next = e != blk ? e : nullptr
LinkTo(e) == IF e = Blocked THEN Null ELSE e

\* The initial load of stack_ and, unless the queue is closed, the first
\* assignment to new_element->next.  On a closed queue the element is deleted.
PushLoad(w) ==
    /\ wpc[w] = "idle"
    /\ ticket + Cardinality(Active) < MaxPush
    /\ \/ /\ stack_ = Closed
          /\ ticket' = ticket + 1
          /\ UNCHANGED <<next, prio, allocated, writerVars>>
       \/ /\ stack_ # Closed
          /\ \E n \in Node \ allocated, p \in Priority :
                /\ allocated' = allocated \cup {n}
                /\ prio' = [prio EXCEPT ![n] = p]
                /\ next' = [next EXCEPT ![n] = LinkTo(stack_)]
                /\ wnode' = [wnode EXCEPT ![w] = n]
          /\ wexp' = [wexp EXCEPT ![w] = stack_]
          /\ wpc' = [wpc EXCEPT ![w] = "cas"]
          /\ UNCHANGED ticket
    /\ UNCHANGED <<stack_, opc, fetchVars, cacheVars, wakeups>>

\* push_front returns and its locals go out of scope.
Return(w) ==
    /\ wpc' = [wpc EXCEPT ![w] = "idle"]
    /\ wnode' = [wnode EXCEPT ![w] = Null]
    /\ wexp' = [wexp EXCEPT ![w] = Null]

\* Seeded fault: success instead of unblocked_reader for a blocked reader.
PushCommitNoWakeup(w) ==
    /\ wpc[w] = "cas"
    /\ stack_ = wexp[w]
    /\ stack_' = wnode[w]
    /\ ticket' = ticket + 1
    /\ Return(w)
    /\ UNCHANGED <<next, prio, allocated, opc, fetchVars, cacheVars, wakeups>>

\* The compare-exchange finds its expected value: the element is in the inbox.
PushCommit(w) ==
    /\ wpc[w] = "cas"
    /\ stack_ = wexp[w]
    /\ stack_' = wnode[w]
    /\ wakeups' = IF wexp[w] = Blocked THEN wakeups + 1 ELSE wakeups
    /\ ticket' = ticket + 1
    /\ Return(w)
    /\ UNCHANGED <<next, prio, allocated, opc, fetchVars, cacheVars>>

\* Seeded fault: the loop does not link the element again.
PushRetryStaleLink(w) ==
    /\ wpc[w] = "cas"
    /\ stack_ \notin {wexp[w], Closed}
    /\ wexp' = [wexp EXCEPT ![w] = stack_]
    /\ UNCHANGED <<inboxVars, prio, allocated, wpc, wnode, opc, fetchVars,
                   cacheVars, wakeups, ticket>>

\* The compare-exchange fails and reloads `e`: link again, or give up and
\* delete the element because the queue has been closed.
PushRetry(w) ==
    /\ wpc[w] = "cas"
    /\ stack_ # wexp[w]
    /\ \/ /\ stack_ = Closed
          /\ allocated' = allocated \ {wnode[w]}
          /\ ticket' = ticket + 1
          /\ Return(w)
          /\ UNCHANGED next
       \/ /\ stack_ # Closed
          /\ next' = [next EXCEPT ![wnode[w]] = LinkTo(stack_)]
          /\ wexp' = [wexp EXCEPT ![w] = stack_]
          /\ UNCHANGED <<allocated, wpc, wnode, ticket>>
    /\ UNCHANGED <<stack_, prio, opc, fetchVars, cacheVars, wakeups>>
-----------------------------------------------------------------------------
(* The owner.                                                               *)

\* linked_list::insert_after, with the position given as an index.
InsertAfter(q, i, n) == SubSeq(q, 1, i) \o <<n>> \o SubSeq(q, i + 1, Len(q))

\* fetch_more up to its loop: take_head swaps the whole list for the empty tag,
\* and the insertion points are the current ends of the two caches.  Called by
\* pop_front on empty caches, and by size() and peek() on any.
FetchMore ==
    /\ opc = "run"
    /\ stack_ \in Node
    /\ head' = stack_
    /\ stack_' = Null
    /\ pos' = [p \in Priority |-> Len(queue_[p])]
    /\ opc' = "fetch"
    /\ UNCHANGED <<next, prio, allocated, writerVars, cacheVars, wakeups,
                   ticket>>

\* One iteration of the loop of fetch_more.
FetchStep ==
    /\ opc = "fetch"
    /\ LET p == prio[head]
       IN  queue_' = [queue_ EXCEPT ![p] = InsertAfter(@, pos[p], head)]
    /\ head' = next[head]
    /\ \/ /\ next[head] = Null
          /\ opc' = "run"
          /\ pos' = [p \in Priority |-> 0]
       \/ /\ next[head] # Null
          /\ UNCHANGED <<opc, pos>>
    /\ UNCHANGED <<inboxVars, prio, allocated, writerVars, stash_, wakeups,
                   ticket>>

CacheEmpty == \A p \in Priority : queue_[p] = <<>>

\* pop_front serves the urgent cache first.
PopPriority == IF queue_["urgent"] # <<>> THEN "urgent" ELSE "normal"

\* The element that pop_front returns, and the caches without it.
Popped == Head(queue_[PopPriority])
Rest == [queue_ EXCEPT ![PopPriority] = Tail(@)]

\* The behavior consumes the element: unstash() moves the stash, last element
\* first, back to the front of the two caches.
Consume ==
    /\ opc = "run"
    /\ ~CacheEmpty
    /\ allocated' = allocated \ {Popped}
    /\ queue_' = [p \in Priority |-> stash_[p] \o Rest[p]]
    /\ stash_' = Empty
    /\ UNCHANGED <<inboxVars, prio, writerVars, opc, fetchVars, wakeups,
                   ticket>>

\* The behavior skips the element, which goes to the stash.
Skip ==
    /\ opc = "run"
    /\ ~CacheEmpty
    /\ stash_' = [stash_ EXCEPT ![PopPriority] = Append(@, Popped)]
    /\ queue_' = Rest
    /\ UNCHANGED <<inboxVars, prio, allocated, writerVars, opc, fetchVars,
                   wakeups, ticket>>

\* The element is a response nobody waits for anymore: deleted, no unstash().
Drop ==
    /\ opc = "run"
    /\ ~CacheEmpty
    /\ allocated' = allocated \ {Popped}
    /\ queue_' = Rest
    /\ UNCHANGED <<inboxVars, prio, writerVars, opc, fetchVars, stash_,
                   wakeups, ticket>>

\* Seeded fault: try_block only looks at the inbox.
TryBlockWithCached ==
    /\ opc = "run"
    /\ stack_ = Null
    /\ stack_' = Blocked
    /\ opc' = "blocked"
    /\ UNCHANGED <<next, prio, allocated, writerVars, fetchVars, cacheVars,
                   wakeups, ticket>>

\* try_block: only with empty caches, from the empty to the blocked tag.
TryBlock ==
    /\ opc = "run"
    /\ CacheEmpty
    /\ stack_ = Null
    /\ stack_' = Blocked
    /\ opc' = "blocked"
    /\ UNCHANGED <<next, prio, allocated, writerVars, fetchVars, cacheVars,
                   wakeups, ticket>>

\* The writer that received unblocked_reader makes the owner run again: it
\* schedules a scheduled_actor and notifies a blocking_actor.
Resume ==
    /\ opc = "blocked"
    /\ wakeups > 0
    /\ wakeups' = wakeups - 1
    /\ opc' = "run"
    /\ UNCHANGED <<inboxVars, prio, allocated, writerVars, fetchVars,
                   cacheVars, ticket>>

\* try_unblock, when the timeout of blocking_actor::await_data elapses first.
TryUnblock ==
    /\ opc = "blocked"
    /\ stack_ = Blocked
    /\ stack_' = Null
    /\ opc' = "run"
    /\ UNCHANGED <<next, prio, allocated, writerVars, fetchVars, cacheVars,
                   wakeups, ticket>>

Elements(q) == UNION {{q[p][i] : i \in DOMAIN q[p]} : p \in Priority}

\* close_mailbox and default_mailbox::close delete what the stash and the two
\* caches hold; writers can still push until the inbox itself is closed.
CloseCaches ==
    /\ opc = "run"
    /\ allocated' = allocated \ (Elements(queue_) \cup Elements(stash_))
    /\ queue_' = Empty
    /\ stash_' = Empty
    /\ opc' = "close"
    /\ UNCHANGED <<inboxVars, prio, writerVars, fetchVars, wakeups, ticket>>

\* lifo_inbox::close: take_head(stack_closed_tag()).
CloseInbox ==
    /\ opc = "close"
    /\ head' = IF stack_ \in Node THEN stack_ ELSE Null
    /\ opc' = IF stack_ \in Node THEN "drain" ELSE "closed"
    /\ stack_' = Closed
    /\ UNCHANGED <<next, prio, allocated, writerVars, pos, cacheVars,
                   wakeups, ticket>>

\* One iteration of the loop of lifo_inbox::close.
DrainStep ==
    /\ opc = "drain"
    /\ allocated' = allocated \ {head}
    /\ head' = next[head]
    /\ opc' = IF next[head] = Null THEN "closed" ELSE "drain"
    /\ UNCHANGED <<inboxVars, prio, writerVars, pos, cacheVars,
                   wakeups, ticket>>

\* force_close_mailbox: the last reference to the actor goes away while it
\* waits.  No writer can be active, since a writer holds a reference.
ForceClose ==
    /\ opc = "blocked"
    /\ wakeups = 0
    /\ Active = {}
    /\ allocated' = allocated \ Elements(stash_)
    /\ stash_' = Empty
    /\ stack_' = Closed
    /\ opc' = "closed"
    /\ UNCHANGED <<next, prio, writerVars, fetchVars, queue_, wakeups, ticket>>

Write == \E w \in Writer : PushLoad(w) \/ PushCommit(w) \/ PushRetry(w)
Own == FetchMore \/ FetchStep \/ Consume \/ Skip \/ Drop \/ TryBlock \/ Resume
       \/ TryUnblock \/ CloseCaches \/ CloseInbox \/ DrainStep \/ ForceClose

Next == Write \/ Own

Spec == Init /\ [][Next]_vars

\* An owner that runs keeps calling pop_front and try_block until it can block,
\* and a woken owner is resumed by its scheduler.  Nothing is assumed of the
\* writers, nor that the owner ever skips, times out or closes.
Fairness ==
    /\ WF_vars(FetchMore) /\ WF_vars(FetchStep) /\ WF_vars(Resume)
    /\ WF_vars(Consume) /\ WF_vars(TryBlock)
    /\ WF_vars(CloseInbox) /\ WF_vars(DrainStep)

FairSpec == Spec /\ Fairness
-----------------------------------------------------------------------------
(* The hand-over protocol.                                                  *)

\* unblocked_reader and try_block hand the ownership of the mailbox over
\* without loss and without duplication: a blocked owner has either the
\* blocked tag in place, so that the next push wakes it, or exactly one
\* wake-up under way; nobody wakes an owner that runs.
OwnershipHandover ==
    /\ stack_ = Blocked <=> opc = "blocked" /\ wakeups = 0
    /\ wakeups > 0 => opc = "blocked" /\ wakeups = 1
    /\ opc = "blocked" => CacheEmpty
=============================================================================
