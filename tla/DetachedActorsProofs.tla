------------------------ MODULE DetachedActorsProofs ------------------------
(* Proofs about module DetachedActors, for any number of actors and         *)
(* messages: a blocking actor never pops an empty mailbox, and nobody       *)
(* resumes a private thread whose job slot is taken or that was told to     *)
(* stop.                                                                    *)
EXTENDS DetachedActors, TLAPS

BlockingLabels == {"receive", "wait", "asleep", "pop", "others", "cleanup",
                   "release", "dec_running"}
EventedLabels == {"none", "await", "run", "unregister", "give_back", "close",
                  "on_exit", "done"}

PoolType == [running : Int, head : Seq(Actor \cup {Helper}),
             at : {"dequeue", "stop", "join", "returned"},
             node : Actor \cup {Helper}, remaining : Int,
             shutting_down : BOOLEAN]

TypeOK ==
    /\ queue \in [Actor -> Nat]
    /\ stash \in [Actor -> Nat]
    /\ inbox \in [Actor -> {"open", "blocked", "closed"}]
    /\ waking \subseteq Actor
    /\ leaving \subseteq Actor
    /\ pc \in [Actor -> BlockingLabels \cup EventedLabels]
    /\ job \in [Actor -> BOOLEAN]
    /\ shutdown \in [Actor -> BOOLEAN]
    /\ pool \in PoolType

\* A blocking actor waits for its mailbox: it is blocked or holds a message.
WaitsRightly(a) ==
    /\ pc[a] = "pop" => queue[a] > 0
    /\ pc[a] \in {"wait", "asleep"} =>
          inbox[a] = "blocked" \/ (inbox[a] = "open" /\ queue[a] > 0)

Elements(s) == {s[i] : i \in DOMAIN s}

\* The pool has the thread of a, to stop and join it.
Released(a) ==
    \/ a \in Elements(pool.head)
    \/ pool.at = "stop" /\ pool.node = a
    \/ shutdown[a]

\* Nobody has given up the actor or its thread yet.
Owned(a) == a \notin leaving /\ ~Released(a)

\* The right to run an event-based actor is in one place: nowhere before its
\* launch, in its blocked mailbox, with the sender that unblocked it, in the
\* job slot of its thread, or with the thread.
OneRight(a) ==
    /\ pc[a] \in EventedLabels
    /\ pc[a] = "none" =>
          inbox[a] = "open" /\ ~job[a] /\ a \notin waking /\ Owned(a)
    /\ inbox[a] = "blocked" =>
          pc[a] = "await" /\ ~job[a] /\ a \notin waking /\ Owned(a)
    /\ a \in waking =>
          pc[a] = "await" /\ inbox[a] = "open" /\ ~job[a] /\ Owned(a)
    /\ job[a] => pc[a] = "await" /\ inbox[a] = "open" /\ Owned(a)
    /\ pc[a] \in {"run", "unregister", "give_back"} =>
          inbox[a] = "open" /\ Owned(a)
    /\ pc[a] = "close" => inbox[a] = "open" /\ a \notin leaving
    /\ a \in leaving => pc[a] = "await" /\ inbox[a] = "closed" /\ ~Released(a)

IInv ==
    /\ TypeOK
    /\ \A a \in Blocking : WaitsRightly(a)
    /\ \A a \in Evented : OneRight(a)
-----------------------------------------------------------------------------
\* Putting x in front of the list of the pool adds x to its elements.
LEMMA ElementsCons ==
    ASSUME NEW S, NEW s \in Seq(S), NEW x \in S
    PROVE  /\ <<x>> \o s \in Seq(S)
           /\ Elements(<<x>> \o s) = Elements(s) \cup {x}
<1> DEFINE t == <<x>> \o s
<1>1. /\ <<x>> \in Seq(S) /\ Len(<<x>>) = 1 /\ <<x>>[1] = x
  OBVIOUS
<1>2. /\ t \in Seq(S) /\ Len(t) = Len(s) + 1
      /\ DOMAIN t = 1 .. Len(s) + 1 /\ DOMAIN s = 1 .. Len(s)
      /\ t[1] = x /\ \A i \in 1 .. Len(s) : t[i + 1] = s[i]
  BY <1>1
<1>3. Len(s) \in Nat
  OBVIOUS
<1> HIDE DEF t
<1>4. ASSUME NEW y \in Elements(t) PROVE y \in Elements(s) \cup {x}
  <2>1. PICK i \in 1 .. Len(s) + 1 : y = t[i]
    BY <1>2, <1>4 DEF Elements
  <2>2. CASE i = 1
    BY <2>1, <2>2, <1>2
  <2>3. CASE i # 1
    <3>1. i - 1 \in 1 .. Len(s) /\ (i - 1) + 1 = i
      BY <2>3, <1>3
    <3>2. t[(i - 1) + 1] = s[i - 1]
      BY <3>1, <1>2
    <3>3. y = s[i - 1] /\ i - 1 \in DOMAIN s
      BY <3>1, <3>2, <2>1, <1>2
    <3> QED
      BY <3>3 DEF Elements
  <2> QED
    BY <2>2, <2>3
<1>5. x \in Elements(t)
  BY <1>2, <1>3 DEF Elements
<1>6. ASSUME NEW y \in Elements(s) PROVE y \in Elements(t)
  <2>1. PICK i \in 1 .. Len(s) : y = s[i]
    BY <1>2, <1>6 DEF Elements
  <2>2. i + 1 \in DOMAIN t /\ t[i + 1] = y
    BY <2>1, <1>2, <1>3
  <2> QED
    BY <2>2 DEF Elements
<1> QED
  BY <1>2, <1>4, <1>5, <1>6 DEF t

\* Taking the first entry of the list of the pool adds no element.
LEMMA ElementsTail ==
    ASSUME NEW S, NEW s \in Seq(S), s # <<>>
    PROVE  /\ Head(s) \in S /\ Tail(s) \in Seq(S)
           /\ Head(s) \in Elements(s)
           /\ Elements(Tail(s)) \subseteq Elements(s)
<1>1. /\ Head(s) \in S /\ Tail(s) \in Seq(S)
      /\ Len(s) \in Nat \ {0} /\ Len(Tail(s)) = Len(s) - 1
      /\ Head(s) = s[1] /\ \A i \in 1 .. Len(Tail(s)) : Tail(s)[i] = s[i + 1]
      /\ DOMAIN s = 1 .. Len(s) /\ DOMAIN Tail(s) = 1 .. Len(Tail(s))
  OBVIOUS
<1>2. ASSUME NEW y \in Elements(Tail(s)) PROVE y \in Elements(s)
  <2>1. PICK i \in 1 .. Len(Tail(s)) : y = Tail(s)[i]
    BY <1>1, <1>2 DEF Elements
  <2>2. i + 1 \in 1 .. Len(s) /\ s[i + 1] = y
    BY <2>1, <1>1
  <2> QED
    BY <2>2, <1>1 DEF Elements
<1> QED
  BY <1>1, <1>2 DEF Elements

\* A step that leaves the pool alone releases no thread.
LEMMA SamePool ==
    ASSUME UNCHANGED <<pool, shutdown>>
    PROVE  \A b : Released(b)' <=> Released(b)
BY DEF Released, Elements

\* private_thread_pool::release adds one thread to those the pool has.
LEMMA ReleaseAdds ==
    ASSUME TypeOK, NEW a \in Actor, Release(a), UNCHANGED shutdown
    PROVE  /\ pool' \in PoolType
           /\ \A b : Released(b)' => Released(b) \/ b = a
<1>1. pool.head \in Seq(Actor \cup {Helper})
  BY DEF TypeOK, PoolType
<1>2. /\ pool'.head = <<a>> \o pool.head
      /\ pool'.at = pool.at /\ pool'.node = pool.node
  BY DEF Release, TypeOK, PoolType
<1>3. /\ <<a>> \o pool.head \in Seq(Actor \cup {Helper})
      /\ Elements(<<a>> \o pool.head) = Elements(pool.head) \cup {a}
  BY <1>1, ElementsCons
<1>4. pool' \in PoolType
  <2> DEFINE h == <<a>> \o pool.head
  <2>1. h \in Seq(Actor \cup {Helper}) /\ pool' = [pool EXCEPT !.head = h]
    BY <1>3 DEF Release
  <2> HIDE DEF h
  <2> QED
    BY <2>1 DEF TypeOK, PoolType
<1>5. Elements(pool.head)' = Elements(pool.head) \cup {a}
  BY <1>2, <1>3 DEF Elements
<1> QED
  BY <1>2, <1>4, <1>5 DEF Released

\* A step of the pool alone keeps the invariant, if it releases no thread.
LEMMA PoolStep ==
    ASSUME IInv, UNCHANGED <<actors, threads>>, pool' \in PoolType,
           \A b : Released(b)' => Released(b) \/ b = Helper
    PROVE  IInv'
<1>1. TypeOK'
  BY DEF IInv, TypeOK, actors, threads
<1>2. \A b \in Blocking : WaitsRightly(b)'
  BY DEF IInv, WaitsRightly, actors, threads
<1>3. \A b \in Evented : b # Helper
  BY HelperAssumption DEF Actor
<1>4. \A b \in Evented : OneRight(b)'
  BY <1>3 DEF IInv, OneRight, Owned, actors, threads
<1> QED
  BY <1>1, <1>2, <1>4 DEF IInv

\* Initially no actor was launched.
LEMMA InitIInv == Init => IInv
<1> SUFFICES ASSUME Init PROVE IInv
  OBVIOUS
<1>1. TypeOK
  <2>1. pool.head = <<>> /\ <<>> \in Seq(Actor \cup {Helper})
    BY DEF Init
  <2> QED
    BY <2>1 DEF Init, TypeOK, PoolType, EventedLabels
<1>2. \A a \in Actor : ~Released(a)
  BY DEF Init, Released, Elements, Actor
<1>3. \A a \in Blocking : WaitsRightly(a)
  BY DEF Init, WaitsRightly, Actor
<1>4. \A a \in Evented : OneRight(a)
  BY <1>2 DEF Init, OneRight, Owned, EventedLabels, Actor
<1> QED
  BY <1>1, <1>3, <1>4 DEF IInv

\* Every step keeps the invariant.
LEMMA NextIInv == IInv /\ [Next]_vars => IInv'
<1> SUFFICES ASSUME IInv, [Next]_vars PROVE IInv'
  OBVIOUS
<1> USE DEF Actor
<1>0. TypeOK /\ (\A b \in Blocking : WaitsRightly(b)) /\ (\A b \in Evented : OneRight(b))
  BY DEF IInv
<1>1. ASSUME NEW a \in Actor, Send(a) PROVE IInv'
  <2>1. TypeOK'
    BY <1>0, <1>1
    DEF TypeOK, Send, actors, threads, BlockingLabels, EventedLabels
  <2>2. \A b \in Blocking : WaitsRightly(b)'
    BY <1>0, <1>1 DEF TypeOK, WaitsRightly, Send, actors, threads
  <2>3. \A b : Released(b)' <=> Released(b)
    BY <1>0, <1>1, SamePool DEF Send, actors, threads
  <2>4. \A b \in Evented : OneRight(b)'
    BY <1>0, <1>1, <2>3
    DEF TypeOK, OneRight, Owned, Send, actors, threads, EventedLabels
  <2> QED
    BY <2>1, <2>2, <2>4 DEF IInv
<1>2. ASSUME NEW a \in Actor, Wake(a) PROVE IInv'
  <2>1. TypeOK'
    BY <1>0, <1>2 DEF TypeOK, Wake, Goto, threads, BlockingLabels, EventedLabels
  <2>2. \A b \in Blocking : WaitsRightly(b)'
    BY <1>0, <1>2 DEF TypeOK, WaitsRightly, Wake, Goto, threads
  <2>3. \A b : Released(b)' <=> Released(b)
    BY <1>0, <1>2, SamePool DEF Wake, Goto, threads
  <2>4. \A b \in Evented : OneRight(b)'
    BY <1>0, <1>2, <2>3
    DEF TypeOK, OneRight, Owned, Wake, Goto, threads, EventedLabels
  <2> QED
    BY <2>1, <2>2, <2>4 DEF IInv
<1>3. ASSUME NEW a \in Actor, Await(a) PROVE IInv'
  <2>1. TypeOK'
    BY <1>0, <1>3 DEF TypeOK, Await, Goto, actors, BlockingLabels, EventedLabels
  <2>2. \A b \in Blocking : WaitsRightly(b)'
    BY <1>0, <1>3 DEF TypeOK, WaitsRightly, Await, Goto, actors
  <2>3. \A b : Released(b)' <=> Released(b)
    BY <1>0, <1>3, SamePool DEF Await, Goto, actors
  <2>4. \A b \in Evented : OneRight(b)'
    <3>1. /\ pc[a] = "await" /\ ~job'[a]
          /\ pc'[a] = IF ~job[a] THEN "done"
                      ELSE IF a \in Blocking THEN "receive" ELSE "run"
          /\ \A b \in Actor \ {a} : pc'[b] = pc[b] /\ job'[b] = job[b]
          /\ UNCHANGED <<inbox, waking, leaving>>
          /\ job[a] \/ shutdown[a]
      BY <1>0, <1>3 DEF TypeOK, Await, Goto, actors
    <3>2. shutdown[a] => Released(a)
      BY DEF Released
    <3>3. ASSUME a \in Evented PROVE OneRight(a)'
      <4>1. a \notin Blocking
        BY <3>3, ActorsAssumption
      <4>2. CASE job[a]
        BY <1>0, <2>3, <3>1, <3>3, <4>1, <4>2 DEF OneRight, Owned, EventedLabels
      <4>3. CASE ~job[a]
        BY <1>0, <2>3, <3>1, <3>2, <3>3, <4>3 DEF OneRight, Owned, EventedLabels
      <4> QED
        BY <4>2, <4>3
    <3>4. ASSUME NEW b \in Evented, b # a PROVE OneRight(b)'
      BY <1>0, <2>3, <3>1, <3>4 DEF OneRight, Owned
    <3> QED
      BY <3>3, <3>4
  <2> QED
    BY <2>1, <2>2, <2>4 DEF IInv
<1>4. ASSUME NEW a \in Actor, Consume(a) PROVE IInv'
  <2>1. TypeOK'
    BY <1>0, <1>4 DEF TypeOK, Consume, Goto, BlockingLabels, EventedLabels
  <2>2. \A b \in Blocking : WaitsRightly(b)'
    BY <1>0, <1>4 DEF TypeOK, WaitsRightly, Consume, Goto
  <2>3. \A b : Released(b)' <=> Released(b)
    BY <1>0, <1>4, SamePool DEF Consume, Goto
  <2>4. \A b \in Evented : OneRight(b)'
    BY <1>0, <1>4, <2>3
    DEF TypeOK, OneRight, Owned, Consume, Goto, EventedLabels
  <2> QED
    BY <2>1, <2>2, <2>4 DEF IInv
<1>5. ASSUME NEW a \in Actor, Block(a) PROVE IInv'
  <2>1. TypeOK'
    BY <1>0, <1>5 DEF TypeOK, Block, Goto, BlockingLabels, EventedLabels
  <2>2. \A b \in Blocking : WaitsRightly(b)'
    BY <1>0, <1>5 DEF TypeOK, WaitsRightly, Block, Goto
  <2>3. \A b : Released(b)' <=> Released(b)
    BY <1>0, <1>5, SamePool DEF Block, Goto
  <2>4. \A b \in Evented : OneRight(b)'
    BY <1>0, <1>5, <2>3 DEF TypeOK, OneRight, Owned, Block, Goto, EventedLabels
  <2> QED
    BY <2>1, <2>2, <2>4 DEF IInv
<1>6. ASSUME NEW a \in Actor, Unregister(a) PROVE IInv'
  <2>1. TypeOK'
    BY <1>0, <1>6
    DEF TypeOK, Unregister, Goto, actors, BlockingLabels, EventedLabels
  <2>2. \A b \in Blocking : WaitsRightly(b)'
    BY <1>0, <1>6 DEF TypeOK, WaitsRightly, Unregister, Goto, actors
  <2>3. \A b : Released(b)' <=> Released(b)
    BY <1>0, <1>6, SamePool DEF Unregister, Goto, actors
  <2>4. \A b \in Evented : OneRight(b)'
    BY <1>0, <1>6, <2>3
    DEF TypeOK, OneRight, Owned, Unregister, Goto, actors, EventedLabels
  <2> QED
    BY <2>1, <2>2, <2>4 DEF IInv
<1>7. ASSUME NEW a \in Actor, CloseEvented(a) PROVE IInv'
  <2>1. TypeOK'
    BY <1>0, <1>7
    DEF TypeOK, CloseEvented, Close, Goto, BlockingLabels, EventedLabels
  <2>2. \A b \in Blocking : WaitsRightly(b)'
    BY <1>0, <1>7 DEF TypeOK, WaitsRightly, CloseEvented, Close, Goto
  <2>3. \A b : Released(b)' <=> Released(b)
    BY <1>0, <1>7, SamePool DEF CloseEvented, Close, Goto
  <2>4. \A b \in Evented : OneRight(b)'
    BY <1>0, <1>7, <2>3
    DEF TypeOK, OneRight, Owned, CloseEvented, Close, Goto, EventedLabels
  <2> QED
    BY <2>1, <2>2, <2>4 DEF IInv
<1>8. ASSUME NEW a \in Actor, TryBlock(a) PROVE IInv'
  <2>1. TypeOK'
    BY <1>0, <1>8 DEF TypeOK, TryBlock, Goto, BlockingLabels, EventedLabels
  <2>2. \A b \in Blocking : WaitsRightly(b)'
    BY <1>0, <1>8 DEF TypeOK, WaitsRightly, TryBlock, Goto
  <2>3. \A b : Released(b)' <=> Released(b)
    BY <1>0, <1>8, SamePool DEF TryBlock, Goto
  <2>4. \A b \in Evented : OneRight(b)'
    BY <1>0, <1>8, <2>3
    DEF TypeOK, OneRight, Owned, TryBlock, Goto, EventedLabels
  <2> QED
    BY <2>1, <2>2, <2>4 DEF IInv
<1>9. ASSUME NEW a \in Actor, CheckBlocked(a) PROVE IInv'
  <2>1. TypeOK'
    BY <1>0, <1>9
    DEF TypeOK, CheckBlocked, Goto, actors, BlockingLabels, EventedLabels
  <2>2. \A b \in Blocking : WaitsRightly(b)'
    BY <1>0, <1>9 DEF TypeOK, WaitsRightly, CheckBlocked, Goto, actors
  <2>3. \A b : Released(b)' <=> Released(b)
    BY <1>0, <1>9, SamePool DEF CheckBlocked, Goto, actors
  <2>4. \A b \in Evented : OneRight(b)'
    BY <1>0, <1>9, <2>3
    DEF TypeOK, OneRight, Owned, CheckBlocked, Goto, actors, EventedLabels
  <2> QED
    BY <2>1, <2>2, <2>4 DEF IInv
<1>10. ASSUME NEW a \in Actor, Spurious(a) PROVE IInv'
  <2>1. TypeOK'
    BY <1>0, <1>10
    DEF TypeOK, Spurious, Goto, actors, BlockingLabels, EventedLabels
  <2>2. \A b \in Blocking : WaitsRightly(b)'
    BY <1>0, <1>10 DEF TypeOK, WaitsRightly, Spurious, Goto, actors
  <2>3. \A b : Released(b)' <=> Released(b)
    BY <1>0, <1>10, SamePool DEF Spurious, Goto, actors
  <2>4. \A b \in Evented : OneRight(b)'
    BY <1>0, <1>10, <2>3
    DEF TypeOK, OneRight, Owned, Spurious, Goto, actors, EventedLabels
  <2> QED
    BY <2>1, <2>2, <2>4 DEF IInv
<1>11. ASSUME NEW a \in Actor, TimeOut(a) PROVE IInv'
  <2>1. TypeOK'
    BY <1>0, <1>11 DEF TypeOK, TimeOut, Unstash, Act, Goto, BlockingLabels, EventedLabels
  <2>2. \A b \in Blocking : WaitsRightly(b)'
    BY <1>0, <1>11 DEF TypeOK, WaitsRightly, TimeOut, Unstash, Act, Goto
  <2>3. \A b : Released(b)' <=> Released(b)
    BY <1>0, <1>11, SamePool DEF TimeOut, Unstash, Act, Goto
  <2>4. \A b \in Evented : OneRight(b)'
    BY <1>0, <1>11, <2>3
    DEF TypeOK, OneRight, Owned, TimeOut, Unstash, Act, Goto, EventedLabels
  <2> QED
    BY <2>1, <2>2, <2>4 DEF IInv
<1>12. ASSUME NEW a \in Actor, Pop(a) PROVE IInv'
  <2>1. TypeOK'
    <3>1. queue[a] \in Nat /\ stash[a] \in Nat /\ queue[a] > 0
      BY <1>0, <1>12 DEF TypeOK, Pop
    <3>2. /\ queue[a] - 1 + stash[a] \in Nat /\ queue[a] - 1 \in Nat
          /\ stash[a] + 1 \in Nat
      BY <3>1
    <3>3. queue' \in [Actor -> Nat] /\ stash' \in [Actor -> Nat]
      BY <1>0, <1>12, <3>2 DEF TypeOK, Pop
    <3>4. pc' \in [Actor -> BlockingLabels \cup EventedLabels]
      BY <1>0, <1>12 DEF TypeOK, Pop, Act, Goto, BlockingLabels
    <3> QED
      BY <1>0, <1>12, <3>3, <3>4 DEF TypeOK, Pop
  <2>2. \A b \in Blocking : WaitsRightly(b)'
    BY <1>0, <1>12 DEF TypeOK, WaitsRightly, Pop, Act, Goto
  <2>3. \A b : Released(b)' <=> Released(b)
    BY <1>0, <1>12, SamePool DEF Pop, Act, Goto
  <2>4. \A b \in Evented : OneRight(b)'
    BY <1>0, <1>12, <2>3
    DEF TypeOK, OneRight, Owned, Pop, Act, Goto, EventedLabels
  <2> QED
    BY <2>1, <2>2, <2>4 DEF IInv
<1>13. ASSUME NEW a \in Actor, AwaitOthers(a) PROVE IInv'
  <2>1. TypeOK'
    BY <1>0, <1>13
    DEF TypeOK, AwaitOthers, Act, Goto, actors, BlockingLabels, EventedLabels
  <2>2. \A b \in Blocking : WaitsRightly(b)'
    BY <1>0, <1>13 DEF TypeOK, WaitsRightly, AwaitOthers, Act, Goto, actors
  <2>3. \A b : Released(b)' <=> Released(b)
    BY <1>0, <1>13, SamePool DEF AwaitOthers, Act, Goto, actors
  <2>4. \A b \in Evented : OneRight(b)'
    BY <1>0, <1>13, <2>3
    DEF TypeOK, OneRight, Owned, AwaitOthers, Act, Goto, actors, EventedLabels
  <2> QED
    BY <2>1, <2>2, <2>4 DEF IInv
<1>14. ASSUME NEW a \in Actor, Cleanup(a) PROVE IInv'
  <2>1. TypeOK'
    BY <1>0, <1>14
    DEF TypeOK, Cleanup, Close, Goto, BlockingLabels, EventedLabels
  <2>2. \A b \in Blocking : WaitsRightly(b)'
    BY <1>0, <1>14 DEF TypeOK, WaitsRightly, Cleanup, Close, Goto
  <2>3. \A b : Released(b)' <=> Released(b)
    BY <1>0, <1>14, SamePool DEF Cleanup, Close, Goto
  <2>4. \A b \in Evented : OneRight(b)'
    BY <1>0, <1>14, <2>3
    DEF TypeOK, OneRight, Owned, Cleanup, Close, Goto, EventedLabels
  <2> QED
    BY <2>1, <2>2, <2>4 DEF IInv
<1>15. ASSUME NEW a \in Actor, DecRunning(a) PROVE IInv'
  <2>1. TypeOK'
    BY <1>0, <1>15
    DEF TypeOK, DecRunning, Goto, actors, BlockingLabels, EventedLabels
  <2>2. \A b \in Blocking : WaitsRightly(b)'
    BY <1>0, <1>15 DEF TypeOK, WaitsRightly, DecRunning, Goto, actors
  <2>3. \A b : Released(b)' <=> Released(b)
    BY <1>0, <1>15, SamePool DEF DecRunning, Goto, actors
  <2>4. \A b \in Evented : OneRight(b)'
    BY <1>0, <1>15, <2>3
    DEF TypeOK, OneRight, Owned, DecRunning, Goto, actors, EventedLabels
  <2> QED
    BY <2>1, <2>2, <2>4 DEF IInv
<1>16. ASSUME NEW a \in Actor, Unreachable(a) PROVE IInv'
  <2>1. TypeOK'
    BY <1>0, <1>16
    DEF TypeOK, Unreachable, Close, threads, BlockingLabels, EventedLabels
  <2>2. \A b \in Blocking : WaitsRightly(b)'
    BY <1>0, <1>16, ActorsAssumption
    DEF TypeOK, WaitsRightly, Unreachable, Close, threads
  <2>3. \A b : Released(b)' <=> Released(b)
    BY <1>0, <1>16, SamePool DEF Unreachable, Close, threads
  <2>4. \A b \in Evented : OneRight(b)'
    BY <1>0, <1>16, <2>3
    DEF TypeOK, OneRight, Owned, Unreachable, Close, threads, EventedLabels
  <2> QED
    BY <2>1, <2>2, <2>4 DEF IInv
<1>17. ASSUME NEW a \in Actor, GiveBack(a) PROVE IInv'
  <2>1. Release(a) /\ UNCHANGED shutdown
    BY <1>17 DEF GiveBack
  <2>2. /\ pool' \in PoolType
        /\ \A b : Released(b)' => Released(b) \/ b = a
    BY <1>0, <2>1, ReleaseAdds
  <2>3. TypeOK'
    BY <1>0, <1>17, <2>2
    DEF TypeOK, GiveBack, Goto, actors, BlockingLabels, EventedLabels
  <2>4. \A b \in Blocking : WaitsRightly(b)'
    BY <1>0, <1>17 DEF TypeOK, WaitsRightly, GiveBack, Goto, actors
  <2>5. \A b \in Evented : OneRight(b)'
    BY <1>0, <1>17, <2>2
    DEF TypeOK, OneRight, Owned, GiveBack, Goto, actors, EventedLabels
  <2> QED
    BY <2>3, <2>4, <2>5 DEF IInv
<1>18. ASSUME NEW a \in Actor, GiveBackUnreachable(a) PROVE IInv'
  <2>1. Release(a) /\ UNCHANGED shutdown
    BY <1>18 DEF GiveBackUnreachable, threads
  <2>2. /\ pool' \in PoolType
        /\ \A b : Released(b)' => Released(b) \/ b = a
    BY <1>0, <2>1, ReleaseAdds
  <2>3. TypeOK'
    BY <1>0, <1>18, <2>2
    DEF TypeOK, GiveBackUnreachable, threads, BlockingLabels, EventedLabels
  <2>4. \A b \in Blocking : WaitsRightly(b)'
    BY <1>0, <1>18 DEF TypeOK, WaitsRightly, GiveBackUnreachable, threads
  <2>5. \A b \in Evented : OneRight(b)'
    BY <1>0, <1>18, <2>2
    DEF TypeOK, OneRight, Owned, GiveBackUnreachable, threads, EventedLabels
  <2> QED
    BY <2>3, <2>4, <2>5 DEF IInv
<1>19. ASSUME NEW a \in Actor, ReleaseThread(a) PROVE IInv'
  <2>1. Release(a) /\ UNCHANGED shutdown
    BY <1>19 DEF ReleaseThread
  <2>2. /\ pool' \in PoolType
        /\ \A b : Released(b)' => Released(b) \/ b = a
    BY <1>0, <2>1, ReleaseAdds
  <2>3. TypeOK'
    BY <1>0, <1>19, <2>2
    DEF TypeOK, ReleaseThread, Goto, actors, BlockingLabels, EventedLabels
  <2>4. \A b \in Blocking : WaitsRightly(b)'
    BY <1>0, <1>19 DEF TypeOK, WaitsRightly, ReleaseThread, Goto, actors
  <2>5. \A b \in Evented : OneRight(b)'
    BY <1>0, <1>19, <2>2
    DEF TypeOK, OneRight, Owned, ReleaseThread, Goto, actors, EventedLabels
  <2> QED
    BY <2>3, <2>4, <2>5 DEF IInv
<1>20. ASSUME NEW a \in Actor, Launch(a) PROVE IInv'
  <2>1. /\ pool' \in PoolType
        /\ pool'.head = pool.head /\ pool'.at = pool.at /\ pool'.node = pool.node
    <3> DEFINE r == pool.running + 1
    <3>1. r \in Int /\ pool' = [pool EXCEPT !.running = r]
      BY <1>0, <1>20 DEF TypeOK, PoolType, Launch, Acquire
    <3> HIDE DEF r
    <3> QED
      BY <1>0, <3>1 DEF TypeOK, PoolType
  <2>2. \A b : Released(b)' <=> Released(b)
    BY <1>20, <2>1 DEF Released, Elements, Launch
  <2>3. TypeOK'
    BY <1>0, <1>20, <2>1
    DEF TypeOK, Launch, LaunchBlocking, LaunchEvented, Goto, EventedLabels
  <2>4. \A b \in Blocking : WaitsRightly(b)'
    BY <1>0, <1>20, ActorsAssumption
    DEF TypeOK, WaitsRightly, Launch, LaunchBlocking, LaunchEvented, Goto
  <2>5. \A b \in Evented : OneRight(b)'
    <3> SUFFICES ASSUME NEW b \in Evented PROVE OneRight(b)'
      OBVIOUS
    <3>1. /\ waking' = waking /\ leaving' = leaving /\ pc[a] = "none"
          /\ pc' = [pc EXCEPT ![a] = "await"]
          /\ \A x \in Actor \ {a} : job'[x] = job[x] /\ inbox'[x] = inbox[x]
      BY <1>0, <1>20 DEF TypeOK, Launch, LaunchBlocking, LaunchEvented, Goto
    <3>2. CASE b # a
      <4>1. pc'[b] = pc[b] /\ job'[b] = job[b] /\ inbox'[b] = inbox[b]
        BY <1>0, <3>1, <3>2 DEF TypeOK, Actor
      <4> QED
        BY <1>0, <2>2, <3>1, <4>1 DEF OneRight, Owned
    <3>3. CASE b = a
      <4>1. /\ pc'[b] = "await" /\ inbox[b] = "open" /\ ~job[b]
            /\ b \notin waking' /\ Owned(b)'
        BY <1>0, <2>2, <3>1, <3>3 DEF TypeOK, OneRight, Owned, Actor
      <4>2. \/ job'[b] /\ inbox'[b] = "open"
            \/ ~job'[b] /\ inbox'[b] = "blocked"
        BY <1>0, <1>20, <3>3, <4>1, ActorsAssumption
        DEF TypeOK, Launch, LaunchBlocking, LaunchEvented, Actor
      <4> QED
        BY <4>1, <4>2 DEF OneRight, Owned, EventedLabels
    <3> QED
      BY <3>2, <3>3
  <2> QED
    BY <2>3, <2>4, <2>5 DEF IInv
<1>21. ASSUME Dequeue PROVE IInv'
  <2>1. pool.head \in Seq(Actor \cup {Helper}) /\ pool.head # <<>>
    BY <1>0, <1>21 DEF TypeOK, PoolType, Dequeue
  <2>2. /\ Head(pool.head) \in Actor \cup {Helper}
        /\ Tail(pool.head) \in Seq(Actor \cup {Helper})
        /\ Head(pool.head) \in Elements(pool.head)
        /\ Elements(Tail(pool.head)) \subseteq Elements(pool.head)
    BY <2>1, ElementsTail
  <2>3. /\ pool' \in PoolType
        /\ pool'.head = Tail(pool.head) /\ pool'.node = Head(pool.head)
    <3> DEFINE r == pool.running - 1
               h == Head(pool.head)
               t == Tail(pool.head)
    <3>1. /\ r \in Int /\ h \in Actor \cup {Helper}
          /\ t \in Seq(Actor \cup {Helper})
          /\ pool' = [pool EXCEPT !.at = "stop", !.node = h, !.head = t,
                                  !.running = r, !.remaining = r]
      BY <1>0, <1>21, <2>2 DEF TypeOK, PoolType, Dequeue
    <3> HIDE DEF r, h, t
    <3>2. pool' \in PoolType /\ pool'.head = t /\ pool'.node = h
      BY <1>0, <3>1 DEF TypeOK, PoolType
    <3> QED
      BY <3>2 DEF h, t
  <2>4. Elements(pool.head)' = Elements(Tail(pool.head))
    BY <2>3 DEF Elements
  <2>5. \A b : Released(b)' => Released(b)
    BY <1>21, <2>2, <2>3, <2>4 DEF Released, Dequeue, threads
  <2>6. UNCHANGED <<actors, threads>>
    BY <1>21 DEF Dequeue
  <2> QED
    BY <2>3, <2>5, <2>6, PoolStep
<1>22. ASSUME StopThread PROVE IInv'
  <2>1. /\ pool' \in PoolType
        /\ pool'.head = pool.head /\ pool'.at = "join"
    BY <1>0, <1>22 DEF TypeOK, PoolType, StopThread
  <2>2. /\ pool.node \in Actor /\ pool.at = "stop"
        /\ shutdown' = [shutdown EXCEPT ![pool.node] = TRUE]
    BY <1>0, <1>22 DEF TypeOK, PoolType, StopThread
  <2>3. \A b \in Actor : Released(b)' => Released(b)
    BY <1>0, <2>1, <2>2 DEF TypeOK, Released, Elements
  <2>4. TypeOK'
    BY <1>0, <1>22, <2>1, <2>2 DEF TypeOK, StopThread, actors
  <2>5. UNCHANGED <<actors, pc, job>>
    BY <1>22 DEF StopThread
  <2>6. \A b \in Blocking : WaitsRightly(b)'
    BY <1>0, <2>5 DEF WaitsRightly, actors
  <2>7. \A b \in Evented : OneRight(b)'
    BY <1>0, <2>3, <2>5 DEF OneRight, Owned, actors
  <2> QED
    BY <2>4, <2>6, <2>7 DEF IInv
<1>23. ASSUME Join PROVE IInv'
  <2>1. /\ pool' \in PoolType
        /\ pool'.head = pool.head /\ pool'.node = pool.node
        /\ pool'.at = "stop" => pool.at = "stop"
    BY <1>0, <1>23 DEF TypeOK, PoolType, Join, EndLoop
  <2>2. UNCHANGED <<actors, threads>>
    BY <1>23 DEF Join, EndLoop
  <2>3. \A b : Released(b)' => Released(b)
    BY <2>1, <2>2 DEF Released, Elements, threads
  <2> QED
    BY <2>1, <2>2, <2>3, PoolStep
<1>24. ASSUME StopHelper PROVE IInv'
  <2>1. /\ pool' \in PoolType
        /\ pool'.head = pool.head /\ pool'.node = pool.node
        /\ pool'.at = "stop" => pool.at = "stop"
    BY <1>0, <1>24 DEF TypeOK, PoolType, StopHelper, EndLoop
  <2>2. UNCHANGED <<actors, threads>>
    BY <1>24 DEF StopHelper, EndLoop
  <2>3. \A b : Released(b)' => Released(b)
    BY <2>1, <2>2 DEF Released, Elements, threads
  <2> QED
    BY <2>1, <2>2, <2>3, PoolStep
<1>25. ASSUME StopPool PROVE IInv'
  <2>1. pool.head \in Seq(Actor \cup {Helper})
    BY <1>0 DEF TypeOK, PoolType
  <2>2. /\ <<Helper>> \o pool.head \in Seq(Actor \cup {Helper})
        /\ Elements(<<Helper>> \o pool.head) = Elements(pool.head) \cup {Helper}
    BY <2>1, ElementsCons
  <2>3. /\ pool' \in PoolType
        /\ pool'.head = <<Helper>> \o pool.head
        /\ pool'.at = pool.at /\ pool'.node = pool.node
    <3> DEFINE h == <<Helper>> \o pool.head
               r == pool.running + 1
    <3>1. /\ h \in Seq(Actor \cup {Helper}) /\ r \in Int
          /\ pool' = [pool EXCEPT !.running = r, !.head = h]
      BY <1>0, <1>25, <2>2 DEF TypeOK, PoolType, StopPool
    <3> HIDE DEF h, r
    <3>2. pool' \in PoolType /\ pool'.head = h /\ pool'.at = pool.at
          /\ pool'.node = pool.node
      BY <1>0, <3>1 DEF TypeOK, PoolType
    <3> QED
      BY <3>2 DEF h
  <2>4. Elements(pool.head)' = Elements(pool.head) \cup {Helper}
    BY <2>2, <2>3 DEF Elements
  <2>5. UNCHANGED <<actors, threads>>
    BY <1>25 DEF StopPool
  <2>6. \A b : Released(b)' => Released(b) \/ b = Helper
    BY <2>3, <2>4, <2>5 DEF Released, threads
  <2> QED
    BY <2>3, <2>5, <2>6, PoolStep
<1>26. ASSUME UNCHANGED <<actors, threads, pool>> PROVE IInv'
  <2>1. \A b : Released(b)' => Released(b)
    BY <1>26, SamePool DEF threads
  <2> QED
    BY <1>0, <1>26, <2>1, PoolStep DEF TypeOK
<1>28. ASSUME NEW a \in Actor, OnExit(a) PROVE IInv'
  <2>1. TypeOK'
    BY <1>0, <1>28 DEF TypeOK, OnExit, Goto, BlockingLabels, EventedLabels
  <2>2. \A b \in Blocking : WaitsRightly(b)'
    BY <1>0, <1>28 DEF TypeOK, WaitsRightly, OnExit, Goto
  <2>3. \A b : Released(b)' <=> Released(b)
    BY <1>0, <1>28, SamePool DEF OnExit, Goto
  <2>4. \A b \in Evented : OneRight(b)'
    BY <1>0, <1>28, <2>3 DEF TypeOK, OneRight, Owned, OnExit, Goto, EventedLabels
  <2> QED
    BY <2>1, <2>2, <2>4 DEF IInv
<1>27. CASE Next
  <2>1. CASE Destruct \/ JoinPool
    BY <2>1, <1>26 DEF Destruct, JoinPool
  <2>2. CASE StopPool \/ Loop
    BY <2>2, <1>21, <1>22, <1>23, <1>24, <1>25 DEF Loop
  <2>3. ASSUME NEW a \in Actor, Step(a) PROVE IInv'
    BY <2>3, <1>3, <1>4, <1>5, <1>6, <1>7, <1>8, <1>9, <1>12, <1>13, <1>14,
       <1>15, <1>17, <1>18, <1>19, <1>28
    DEF Step
  <2>4. ASSUME NEW a \in Actor,
               Launch(a) \/ Send(a) \/ Wake(a) \/ Spurious(a) \/ TimeOut(a) \/ Unreachable(a)
        PROVE  IInv'
    BY <2>4, <1>20, <1>1, <1>2, <1>10, <1>11, <1>16
  <2> QED
    BY <1>27, <2>1, <2>2, <2>3, <2>4 DEF Next
<1> QED
  BY <1>26, <1>27 DEF vars

\* The inductive invariant holds in every reachable state.
LEMMA Invariant == Spec => []IInv
<1>1. Init => IInv
  BY InitIInv
<1>2. IInv /\ [Next]_vars => IInv'
  BY NextIInv
<1> QED
  BY <1>1, <1>2, PTL DEF Spec

\* receive_impl pops only when there is a message, for any number of actors
\* and senders: await_data returns, on a notification, a spurious wakeup or a
\* timeout that lost its race, with a mailbox that is not empty.
THEOREM PopIsSafe == Spec => []PopFindsMessage
<1>1. IInv => PopFindsMessage
  BY DEF IInv, PopFindsMessage, WaitsRightly, OneRight, EventedLabels, Actor
<1> QED
  BY <1>1, Invariant, PTL

\* private_thread::resume finds the job slot empty and the thread not stopped,
\* for any number of detached actors and senders.
THEOREM ResumeIsSafe == Spec => []JobSlotFree
<1>1. IInv => JobSlotFree
  BY DEF IInv, JobSlotFree, OneRight, Owned, Released
<1> QED
  BY <1>1, Invariant, PTL
=============================================================================
