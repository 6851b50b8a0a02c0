------------------------- MODULE MailboxProperties -------------------------
(* What the mailbox promises to its writers and to its owner, stated over  *)
(* the whole of its contents: inbox, list under way, caches and stash.     *)
EXTENDS Mailbox, SequencesExt

\* The nodes that are linked from p on, newest first.
Chain(p) ==
    LET chain[q \in Node \cup {Null}, k \in 0..Cardinality(Node)] ==
          IF q = Null \/ k = 0 THEN <<>>
                               ELSE <<q>> \o chain[next[q], k - 1]
    IN  chain[p, Cardinality(Node)]

Inbox == IF stack_ \in Node THEN Chain(stack_) ELSE <<>>

Of(p, q) == SelectSeq(q, LAMBDA n : prio[n] = p)

\* All elements of one priority in the order the owner will see them: the
\* stash, the cache up to the insertion point, what fetch_more still has to
\* insert there, the rest of the cache, and the inbox.
Pending(p) ==
    stash_[p] \o SubSeq(queue_[p], 1, pos[p]) \o Reverse(Of(p, Chain(head)))
      \o SubSeq(queue_[p], pos[p] + 1, Len(queue_[p])) \o Reverse(Of(p, Inbox))

\* No element is lost, duplicated, linked into a cycle or used after it was
\* deleted: every allocated address is in exactly one place of the mailbox or
\* in the hands of one writer, also when addresses are reused (the ABA case of
\* the compare-exchange).
EveryElementOnce ==
    LET pending == Pending("urgent") \o Pending("normal")
        held    == {wnode[w] : w \in Active}
    IN  /\ ToSet(pending) \cup held = allocated
        /\ ToSet(pending) \cap held = {}
        /\ Len(pending) = Cardinality(ToSet(pending))
        /\ Cardinality(held) = Cardinality(Active)

\* An element that was pushed while the mailbox was open is eventually handed
\* to the behavior, or deleted because the owner closes: no wake-up is lost,
\* also when the owner blocks and times out any number of times.
EveryElementHandled ==
    \A n \in Node :
        n \in ToSet(Inbox) ~> n \notin allocated \/ n \in Elements(stash_)

\* An element may be in the inbox, on its way to a cache, in a cache or in the
\* stash: all of these together are the abstract queue.
Fifo == INSTANCE FifoMailbox WITH
    Element <- Node,
    queue   <- [p \in Priority |-> Pending(p)],
    cursor  <- [p \in Priority |-> Len(stash_[p])],
    state   <- CASE stack_ = Closed  -> "closed"
                 [] stack_ = Blocked -> "blocked"
                 [] opc = "close"    -> "closing"
                 [] OTHER            -> "open"

\* lifo_inbox, default_mailbox and the stash of scheduled_actor implement one
\* FIFO queue per priority with skipping, blocking and closing.
ImplementsFifoMailbox == Fifo!Spec
=============================================================================
