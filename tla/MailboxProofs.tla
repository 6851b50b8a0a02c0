--------------------------- MODULE MailboxProofs ---------------------------
(* The hand-over of the mailbox between its owner and its writers, for any *)
(* number of writers, addresses and calls of push_back.                    *)
EXTENDS Mailbox, TLAPS

\* OwnershipHandover is not inductive: that a compare-exchange installs a node
\* needs the writer's local to be one, that fetch_more inserts inside the cache
\* needs its insertion points to be, and that a closed inbox stays closed needs
\* the owner to be done with it.
Locals ==
    /\ \A w \in Writer : wpc[w] = "cas" => wnode[w] \in Node
    /\ opc \in {"fetch", "drain"} => head \in Node
    /\ stack_ = Closed <=> opc \in {"drain", "closed"}
    /\ \A p \in Priority : pos[p] <= Len(queue_[p])
    /\ opc # "fetch" => pos = [p \in Priority |-> 0]

Inv == TypeOK /\ OwnershipHandover /\ Locals

\* linked_list::insert_after at a valid position yields a list of elements that
\* is one longer.
LEMMA InsertAfterType ==
    ASSUME NEW q \in Seq(Node), NEW i \in Nat, i <= Len(q), NEW n \in Node
    PROVE  /\ InsertAfter(q, i, n) \in Seq(Node)
           /\ Len(InsertAfter(q, i, n)) = Len(q) + 1
<1> DEFINE a == SubSeq(q, 1, i)
           b == SubSeq(q, i + 1, Len(q))
<1>1. a \in Seq(Node) /\ Len(a) = i
  OBVIOUS
<1>2. b \in Seq(Node) /\ Len(b) = Len(q) - i
  OBVIOUS
<1>3. InsertAfter(q, i, n) = a \o <<n>> \o b
  BY DEF InsertAfter
<1> HIDE DEF a, b
<1> QED
  BY <1>1, <1>2, <1>3

\* What pop_front leaves behind are two lists of elements, and what it returns
\* is an element.
LEMMA PopType ==
    ASSUME TypeOK, ~CacheEmpty
    PROVE  /\ PopPriority \in Priority
           /\ Popped \in Node
           /\ Rest \in [Priority -> Seq(Node)]
<1>1. PopPriority \in Priority /\ queue_[PopPriority] # <<>>
  BY DEF CacheEmpty, PopPriority, Priority
<1>2. queue_[PopPriority] \in Seq(Node)
  BY <1>1 DEF TypeOK
<1>3. Popped \in Node /\ Tail(queue_[PopPriority]) \in Seq(Node)
  BY <1>1, <1>2 DEF Popped
<1> QED
  BY <1>1, <1>3 DEF TypeOK, Rest

\* A new mailbox, whose actor has just been launched, satisfies the invariant.
LEMMA InitInv == Init => Inv
BY NodeAssumption DEF Init, Inv, Locals, TypeOK, OwnershipHandover, Empty,
   CacheEmpty, Null, Blocked, Closed, Priority

\* Every step of a writer and of the owner preserves the invariant; one case per
\* action.
LEMMA NextInv == Inv /\ [Next]_vars => Inv'
<1> SUFFICES ASSUME Inv, [Next]_vars PROVE Inv'
  OBVIOUS
<1> USE NodeAssumption DEF Null, Blocked, Closed
<1> USE DEF inboxVars, writerVars, fetchVars, cacheVars
<1>1. ASSUME NEW w \in Writer, PushLoad(w) PROVE Inv'
  <2>1. TypeOK'
    <3>1. CASE stack_ = Closed
      <4>1. /\ ticket' = ticket + 1
            /\ UNCHANGED <<stack_, next, prio, allocated, wpc, wnode, wexp, opc,
                           head, pos, queue_, stash_, wakeups>>
        BY <3>1, <1>1 DEF PushLoad
      <4> QED
        BY <4>1 DEF Inv, TypeOK
    <3>2. CASE stack_ # Closed
      <4>1. PICK n \in Node, p \in Priority :
              /\ allocated' = allocated \cup {n}
              /\ prio' = [prio EXCEPT ![n] = p]
              /\ next' = [next EXCEPT ![n] = LinkTo(stack_)]
              /\ wnode' = [wnode EXCEPT ![w] = n]
        BY <3>2, <1>1 DEF PushLoad
      <4>2. LinkTo(stack_) \in Node \cup {Null}
        BY <3>2 DEF Inv, TypeOK, LinkTo
      <4>3. /\ allocated' \in SUBSET Node
            /\ prio' \in [Node -> Priority]
            /\ next' \in [Node -> Node \cup {Null}]
            /\ wnode' \in [Writer -> Node \cup {Null}]
        BY <4>1, <4>2 DEF Inv, TypeOK
      <4>4. /\ wexp' = [wexp EXCEPT ![w] = stack_]
            /\ wpc' = [wpc EXCEPT ![w] = "cas"]
            /\ UNCHANGED <<stack_, opc, head, pos, queue_, stash_, wakeups,
                           ticket>>
        BY <3>2, <1>1 DEF PushLoad
      <4>5. /\ wexp' \in [Writer -> Node \cup {Null, Blocked}]
            /\ wpc' \in [Writer -> {"idle", "cas"}]
        BY <3>2, <4>4 DEF Inv, TypeOK
      <4> QED
        BY <4>3, <4>4, <4>5 DEF Inv, TypeOK
    <3> QED
      BY <3>1, <3>2
  <2>2. OwnershipHandover'
    BY <1>1 DEF Inv, TypeOK, OwnershipHandover, Locals, CacheEmpty,
       PushLoad, LinkTo
  <2>3. Locals'
    BY <1>1, <2>1 DEF Inv, TypeOK, OwnershipHandover, Locals, PushLoad, LinkTo
  <2> QED
    BY <2>1, <2>2, <2>3 DEF Inv
<1>2. ASSUME NEW w \in Writer, PushCommit(w) PROVE Inv'
  <2>1. TypeOK'
    <3>1. wnode[w] \in Node
      BY <1>2 DEF Inv, Locals, PushCommit
    <3>2. wpc' \in [Writer -> {"idle", "cas"}]
          /\ wnode' \in [Writer -> Node \cup {Null}]
          /\ wexp' \in [Writer -> Node \cup {Null, Blocked}]
      BY <1>2 DEF Inv, TypeOK, PushCommit, Return
    <3>3. ticket' \in Nat /\ wakeups' \in Nat
      <4>1. ticket \in Nat /\ wakeups \in Nat
        BY DEF Inv, TypeOK
      <4>2. /\ ticket' = ticket + 1
            /\ wakeups' \in {wakeups, wakeups + 1}
        BY <1>2 DEF PushCommit
      <4>3. ticket + 1 \in Nat /\ wakeups + 1 \in Nat
        BY <4>1
      <4> QED
        BY <4>1, <4>2, <4>3
    <3> QED
      BY <3>1, <3>2, <3>3, <1>2 DEF Inv, TypeOK, PushCommit
  <2>2. OwnershipHandover'
    BY <1>2 DEF Inv, TypeOK, OwnershipHandover, Locals, CacheEmpty,
       PushCommit, Return
  <2>3. Locals'
    BY <1>2, <2>1, ZenonT(40) DEF Inv, TypeOK, OwnershipHandover, Locals, PushCommit, Return
  <2> QED
    BY <2>1, <2>2, <2>3 DEF Inv
<1>3. ASSUME NEW w \in Writer, PushRetry(w) PROVE Inv'
  <2>1. TypeOK'
    <3>1. CASE stack_ = Closed
      <4>1. /\ allocated' = allocated \ {wnode[w]}
            /\ ticket' = ticket + 1
            /\ Return(w)
            /\ UNCHANGED <<stack_, next, prio, opc, head, pos, queue_, stash_,
                           wakeups>>
        BY <3>1, <1>3 DEF PushRetry
      <4>2. /\ wpc' \in [Writer -> {"idle", "cas"}]
            /\ wnode' \in [Writer -> Node \cup {Null}]
            /\ wexp' \in [Writer -> Node \cup {Null, Blocked}]
        BY <4>1 DEF Inv, TypeOK, Return
      <4> QED
        BY <4>1, <4>2 DEF Inv, TypeOK
    <3>2. CASE stack_ # Closed
      <4>1. LinkTo(stack_) \in Node \cup {Null}
        BY <3>2 DEF Inv, TypeOK, LinkTo
      <4>2. next' \in [Node -> Node \cup {Null}]
            /\ wexp' \in [Writer -> Node \cup {Null, Blocked}]
        <5>1. /\ next' = [next EXCEPT ![wnode[w]] = LinkTo(stack_)]
              /\ wexp' = [wexp EXCEPT ![w] = stack_]
          BY <3>2, <1>3 DEF PushRetry
        <5> QED
          BY <4>1, <5>1, <3>2 DEF Inv, TypeOK
      <4> QED
        BY <4>2, <3>2, <1>3 DEF Inv, TypeOK, PushRetry
    <3> QED
      BY <3>1, <3>2
  <2>2. OwnershipHandover'
    BY <1>3 DEF Inv, TypeOK, OwnershipHandover, Locals, CacheEmpty,
       PushRetry, Return, LinkTo
  <2>3. Locals'
    BY <1>3, <2>1 DEF Inv, TypeOK, OwnershipHandover, Locals, PushRetry, Return, LinkTo
  <2> QED
    BY <2>1, <2>2, <2>3 DEF Inv
<1>4. CASE FetchMore
  <2>1. TypeOK'
    BY <1>4 DEF Inv, TypeOK, Locals, FetchMore
  <2>2. OwnershipHandover'
    BY <1>4 DEF Inv, TypeOK, OwnershipHandover, Locals, CacheEmpty,
       FetchMore
  <2>3. Locals'
    BY <1>4, <2>1 DEF Inv, TypeOK, OwnershipHandover, Locals, FetchMore
  <2> QED
    BY <2>1, <2>2, <2>3 DEF Inv
<1>5. CASE FetchStep
  <2> DEFINE p == prio[head]
             q == InsertAfter(queue_[p], pos[p], head)
  <2>1. head \in Node /\ p \in Priority /\ next[head] \in Node \cup {Null}
    BY <1>5 DEF Inv, TypeOK, Locals, FetchStep
  <2>2. q \in Seq(Node) /\ Len(q) = Len(queue_[p]) + 1
    <3>1. queue_[p] \in Seq(Node) /\ pos[p] \in Nat /\ pos[p] <= Len(queue_[p])
      BY <2>1 DEF Inv, TypeOK, Locals
    <3> QED
      BY <2>1, <3>1, InsertAfterType
  <2>3. queue_' = [queue_ EXCEPT ![p] = q]
    BY <1>5 DEF FetchStep
  <2> HIDE DEF p, q
  <2>4. /\ queue_' \in [Priority -> Seq(Node)]
        /\ \A r \in Priority : Len(queue_'[r]) >= Len(queue_[r])
    <3>1. \A r \in Priority : queue_[r] \in Seq(Node) /\ Len(queue_[r]) \in Nat
      BY DEF Inv, TypeOK
    <3> QED
      <4>1. queue_ \in [Priority -> Seq(Node)]
        BY DEF Inv, TypeOK
      <4>2. queue_' \in [Priority -> Seq(Node)]
        BY <2>1, <2>2, <2>3, <4>1
      <4>3. ASSUME NEW r \in Priority PROVE Len(queue_'[r]) >= Len(queue_[r])
        <5>1. CASE r = p
          BY <5>1, <2>1, <2>2, <2>3, <3>1, <4>1
        <5>2. CASE r # p
          BY <5>2, <2>1, <2>3, <3>1, <4>1
        <5> QED
          BY <5>1, <5>2
      <4> QED
        BY <4>2, <4>3
  <2>5. \A r \in Priority :
          Len(queue_[r]) \in Nat /\ Len(queue_'[r]) \in Nat /\ pos[r] \in Nat
    BY <2>4 DEF Inv, TypeOK
  <2>6. TypeOK'
    <3>1. /\ head' = next[head]
          /\ opc' \in {opc, "run"}
          /\ UNCHANGED <<stack_, next, prio, allocated, wpc, wnode, wexp, stash_,
                         wakeups, ticket>>
      BY <1>5 DEF FetchStep
    <3>2. pos' \in [Priority -> Nat]
      <4>1. pos' = pos \/ pos' = [r \in Priority |-> 0]
        BY <1>5 DEF FetchStep
      <4> QED
        BY <4>1 DEF Inv, TypeOK
    <3> QED
      BY <2>1, <2>4, <3>1, <3>2 DEF Inv, TypeOK
  <2>7. OwnershipHandover'
    BY <1>5 DEF Inv, TypeOK, OwnershipHandover, CacheEmpty, FetchStep
  <2>8. Locals'
    <3>1. \A r \in Priority : pos'[r] <= Len(queue_'[r])
      <4>1. CASE next[head] = Null
        BY <4>1, <2>5, <1>5 DEF FetchStep
      <4>2. CASE next[head] # Null
        BY <4>2, <2>4, <2>5, <1>5 DEF Inv, Locals, FetchStep
      <4> QED
        BY <4>1, <4>2
    <3> QED
      BY <1>5, <2>1, <3>1 DEF Inv, TypeOK, Locals, FetchStep
  <2> QED
    BY <2>6, <2>7, <2>8 DEF Inv
<1>6. CASE Consume
  <2>1. TypeOK'
    <3>1. queue_' \in [Priority -> Seq(Node)]
      <4>1. ASSUME NEW p \in Priority PROVE stash_[p] \o Rest[p] \in Seq(Node)
        BY <1>6, PopType DEF Inv, TypeOK, Consume
      <4> QED
        BY <4>1, <1>6 DEF Consume
    <3> QED
      BY <3>1, <1>6 DEF Inv, TypeOK, Consume, Empty
  <2>2. OwnershipHandover'
    BY <1>6 DEF Inv, TypeOK, OwnershipHandover, Locals, CacheEmpty,
       Consume, Empty
  <2>3. Locals'
    BY <1>6, <2>1 DEF Inv, TypeOK, OwnershipHandover, Locals, Consume, Empty
  <2> QED
    BY <2>1, <2>2, <2>3 DEF Inv
<1>7. CASE Skip
  <2>1. TypeOK'
    <3>1. stash_' \in [Priority -> Seq(Node)]
      <4>1. Append(stash_[PopPriority], Popped) \in Seq(Node)
        BY <1>7, PopType DEF Inv, TypeOK, Skip
      <4> QED
        BY <4>1, <1>7 DEF Inv, TypeOK, Skip
    <3> QED
      BY <3>1, <1>7, PopType DEF Inv, TypeOK, Skip
  <2>2. OwnershipHandover'
    BY <1>7 DEF Inv, TypeOK, OwnershipHandover, Locals, CacheEmpty,
       Skip
  <2>3. Locals'
    BY <1>7, <2>1 DEF Inv, TypeOK, OwnershipHandover, Locals, Skip
  <2> QED
    BY <2>1, <2>2, <2>3 DEF Inv
<1>8. CASE Drop
  <2>1. TypeOK'
    BY <1>8, PopType DEF Inv, TypeOK, Locals, Drop
  <2>2. OwnershipHandover'
    BY <1>8 DEF Inv, TypeOK, OwnershipHandover, Locals, CacheEmpty,
       Drop
  <2>3. Locals'
    BY <1>8, <2>1 DEF Inv, TypeOK, OwnershipHandover, Locals, Drop
  <2> QED
    BY <2>1, <2>2, <2>3 DEF Inv
<1>9. CASE TryBlock
  <2>1. TypeOK'
    BY <1>9 DEF Inv, TypeOK, Locals, TryBlock
  <2>2. OwnershipHandover'
    BY <1>9 DEF Inv, TypeOK, OwnershipHandover, Locals, CacheEmpty,
       TryBlock
  <2>3. Locals'
    BY <1>9, <2>1 DEF Inv, TypeOK, OwnershipHandover, Locals, TryBlock
  <2> QED
    BY <2>1, <2>2, <2>3 DEF Inv
<1>10. CASE Resume
  <2>1. TypeOK'
    BY <1>10 DEF Inv, TypeOK, Locals, Resume
  <2>2. OwnershipHandover'
    BY <1>10 DEF Inv, TypeOK, OwnershipHandover, Locals, CacheEmpty,
       Resume
  <2>3. Locals'
    BY <1>10, <2>1 DEF Inv, TypeOK, OwnershipHandover, Locals, Resume
  <2> QED
    BY <2>1, <2>2, <2>3 DEF Inv
<1>11. CASE TryUnblock
  <2>1. TypeOK'
    BY <1>11 DEF Inv, TypeOK, Locals, TryUnblock
  <2>2. OwnershipHandover'
    BY <1>11 DEF Inv, TypeOK, OwnershipHandover, Locals, CacheEmpty,
       TryUnblock
  <2>3. Locals'
    BY <1>11, <2>1 DEF Inv, TypeOK, OwnershipHandover, Locals, TryUnblock
  <2> QED
    BY <2>1, <2>2, <2>3 DEF Inv
<1>12. CASE CloseCaches
  <2>1. TypeOK'
    BY <1>12 DEF Inv, TypeOK, Locals, CloseCaches, Empty
  <2>2. OwnershipHandover'
    BY <1>12 DEF Inv, TypeOK, OwnershipHandover, Locals, CacheEmpty,
       CloseCaches, Empty
  <2>3. Locals'
    BY <1>12, <2>1 DEF Inv, TypeOK, OwnershipHandover, Locals, CloseCaches, Empty
  <2> QED
    BY <2>1, <2>2, <2>3 DEF Inv
<1>13. CASE CloseInbox
  <2>1. TypeOK'
    BY <1>13 DEF Inv, TypeOK, Locals, CloseInbox
  <2>2. OwnershipHandover'
    BY <1>13 DEF Inv, TypeOK, OwnershipHandover, Locals, CacheEmpty,
       CloseInbox
  <2>3. Locals'
    BY <1>13, <2>1 DEF Inv, TypeOK, OwnershipHandover, Locals, CloseInbox
  <2> QED
    BY <2>1, <2>2, <2>3 DEF Inv
<1>14. CASE DrainStep
  <2>1. TypeOK'
    BY <1>14 DEF Inv, TypeOK, Locals, DrainStep
  <2>2. OwnershipHandover'
    BY <1>14 DEF Inv, TypeOK, OwnershipHandover, Locals, CacheEmpty,
       DrainStep
  <2>3. Locals'
    BY <1>14, <2>1 DEF Inv, TypeOK, OwnershipHandover, Locals, DrainStep
  <2> QED
    BY <2>1, <2>2, <2>3 DEF Inv
<1>15. CASE ForceClose
  <2>1. TypeOK'
    BY <1>15 DEF Inv, TypeOK, Locals, ForceClose, Empty
  <2>2. OwnershipHandover'
    BY <1>15 DEF Inv, TypeOK, OwnershipHandover, Locals, CacheEmpty,
       ForceClose, Empty
  <2>3. Locals'
    BY <1>15, <2>1 DEF Inv, TypeOK, OwnershipHandover, Locals, ForceClose, Empty
  <2> QED
    BY <2>1, <2>2, <2>3 DEF Inv
<1>16. CASE UNCHANGED vars
  BY <1>16 DEF Inv, TypeOK, OwnershipHandover, Locals, CacheEmpty, vars
<1> QED
  BY <1>1, <1>2, <1>3, <1>4, <1>5, <1>6, <1>7, <1>8, <1>9, <1>10, <1>11,
     <1>12, <1>13, <1>14, <1>15, <1>16 DEF Next, Write, Own

\* Every variable of the mailbox keeps its type: no tag ever becomes part of a
\* list, and the caches hold elements only.
THEOREM TypeCorrect == Spec => []TypeOK
<1>1. Inv => TypeOK
  BY DEF Inv
<1> QED
  BY <1>1, InitInv, NextInv, PTL DEF Spec

\* push_front, try_block, try_unblock and close hand the mailbox over without
\* losing or duplicating a wake-up.
THEOREM Handover == Spec => []OwnershipHandover
<1>1. Inv => OwnershipHandover
  BY DEF Inv
<1> QED
  BY <1>1, InitInv, NextInv, PTL DEF Spec
=============================================================================
