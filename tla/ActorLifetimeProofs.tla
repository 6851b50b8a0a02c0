------------------------ MODULE ActorLifetimeProofs -------------------------
(* Proofs about module ActorLifetime, for any number of actors, threads and *)
(* operations: threads that link and unlink actors take mutexes in the      *)
(* order of the addresses and never wait for each other.                    *)
EXTENDS ActorLifetime, SequenceTheorems, TLAPS

LockOps == {"lock", "link", "unlink"}

\* A stack of calls outside of joined_exclusive_critical_section.
Plain(s) ==
    /\ Len(s) \in Nat
    /\ s = [i \in 1 .. Len(s) |-> s[i]]
    /\ \A i \in 1 .. Len(s) : s[i].op \notin LockOps

\* The thread is inside of it, which is no part of another call.
Joining(t) ==
    /\ stack[t] # <<>> /\ stack[t] = <<Top(t)>>
    /\ Top(t) = Call(Top(t).op, Top(t).a, Top(t).b, Top(t).list)
    /\ Top(t).op \in LockOps
    /\ Top(t).a \in Actor /\ Top(t).b \in Actor /\ Top(t).a # Top(t).b
    /\ Top(t).op = "lock" => Top(t).list \in {"link", "unlink"}

\* It has locked the first mutex and waits for the second.
HasFirst(t) == Joining(t) /\ Top(t).op \in {"link", "unlink"}

IInv ==
    /\ stack = [t \in Thread |-> stack[t]]
    /\ mtx \in [Actor -> Thread \cup {Free}]
    /\ \A t \in Thread : Plain(stack[t]) \/ Joining(t)
    /\ \A t \in Thread, a \in Actor : mtx[a] = t =>
          HasFirst(t) /\ a = FirstLock(Top(t).a, Top(t).b)
-----------------------------------------------------------------------------
\* A plain stack is a sequence over any set that has its calls.
LEMMA PlainIsSeq ==
    ASSUME NEW s, Plain(s), NEW S, \A i \in 1 .. Len(s) : s[i] \in S
    PROVE  s \in Seq(S)
<1>1. s \in [1 .. Len(s) -> S] /\ Len(s) \in Nat
  BY DEF Plain
<1> QED
  BY <1>1, SeqDef

\* A sequence without locking calls is a plain stack.
LEMMA SeqIsPlain ==
    ASSUME NEW S, NEW s \in Seq(S), \A i \in 1 .. Len(s) : s[i].op \notin LockOps
    PROVE  Plain(s)
<1>1. Len(s) \in Nat /\ s \in [1 .. Len(s) -> S]
  BY LenProperties
<1> QED
  BY <1>1 DEF Plain

\* Calls in front of a plain stack, the innermost call of which returns.
LEMMA PlainContinue ==
    ASSUME NEW calls, Plain(calls), NEW s, Plain(s), s # <<>>
    PROVE  Plain(calls \o Tail(s))
<1> DEFINE S == {calls[i] : i \in 1 .. Len(calls)} \cup {s[i] : i \in 1 .. Len(s)}
           u == Tail(s)
<1>1. calls \in Seq(S) /\ s \in Seq(S)
  BY PlainIsSeq
<1>2. \A c \in S : c.op \notin LockOps
  BY DEF Plain
<1> HIDE DEF S
<1>3. u \in Seq(S)
  BY <1>1, HeadTailProperties
<1> HIDE DEF u
<1>4. calls \o u \in Seq(S)
  BY <1>1, <1>3, ConcatProperties
<1>5. \A i \in 1 .. Len(calls \o u) : (calls \o u)[i] \in S
  BY <1>4, ElementOfSeq
<1>6. Plain(calls \o u)
  BY <1>2, <1>4, <1>5, SeqIsPlain
<1> QED
  BY <1>6 DEF u

\* No call, one call and two calls that do not lock.
LEMMA PlainShort ==
    ASSUME NEW c, NEW d, c.op \notin LockOps, d.op \notin LockOps
    PROVE  Plain(<<>>) /\ Plain(<<c>>) /\ Plain(<<c, d>>)
<1>1. Plain(<<>>)
  <2>1. <<>> \in Seq({c}) /\ Len(<<>>) = 0
    OBVIOUS
  <2>2. \A i \in 1 .. Len(<<>>) : <<>>[i].op \notin LockOps
    BY <2>1
  <2> QED
    BY <2>1, <2>2, SeqIsPlain
<1>2. Plain(<<c>>)
  <2>1. <<c>> \in Seq({c}) /\ Len(<<c>>) = 1 /\ <<c>>[1] = c
    OBVIOUS
  <2>2. \A i \in 1 .. Len(<<c>>) : <<c>>[i].op \notin LockOps
    BY <2>1
  <2> QED
    BY <2>1, <2>2, SeqIsPlain
<1>3. Plain(<<c, d>>)
  <2>1. /\ <<c, d>> \in Seq({c, d}) /\ Len(<<c, d>>) = 2
        /\ <<c, d>>[1] = c /\ <<c, d>>[2] = d
    OBVIOUS
  <2>2. \A i \in 1 .. Len(<<c, d>>) : <<c, d>>[i].op \notin LockOps
    BY <2>1
  <2> QED
    BY <2>1, <2>2, SeqIsPlain
<1> QED
  BY <1>1, <1>2, <1>3

\* A thread that holds no first mutex may replace its stack by a plain one.
LEMMA StackStep ==
    ASSUME IInv, NEW t \in Thread, NEW s, Plain(s), ~HasFirst(t),
           stack' = [stack EXCEPT ![t] = s], UNCHANGED mtx
    PROVE  IInv'
<1>1. /\ stack'[t] = s
      /\ \A u \in Thread \ {t} : stack'[u] = stack[u]
      /\ stack' = [u \in Thread |-> stack'[u]]
  BY DEF IInv
<1>2. \A u \in Thread \ {t} : Joining(u)' <=> Joining(u)
  BY <1>1 DEF Joining, Top
<1>3. \A u \in Thread \ {t} : Top(u)' = Top(u) /\ (HasFirst(u)' <=> HasFirst(u))
  BY <1>1, <1>2 DEF HasFirst, Top
<1>4. \A u \in Thread : Plain(stack'[u]) \/ Joining(u)'
  BY <1>1, <1>2 DEF IInv
<1>5. ASSUME NEW u \in Thread, NEW a \in Actor, mtx'[a] = u
      PROVE  HasFirst(u)' /\ a = FirstLock(Top(u)'.a, Top(u)'.b)
  <2>1. HasFirst(u) /\ a = FirstLock(Top(u).a, Top(u).b)
    BY <1>5 DEF IInv
  <2>2. u # t
    BY <2>1
  <2> QED
    BY <1>3, <2>1, <2>2
<1>6. mtx' \in [Actor -> Thread \cup {Free}]
  BY DEF IInv
<1> QED
  BY <1>1, <1>4, <1>5, <1>6 DEF IInv, FirstLock

\* A call that does not lock goes on with calls that do not either.
LEMMA ContinueStep ==
    ASSUME IInv, NEW t \in Thread, stack[t] # <<>>, Top(t).op \notin LockOps,
           NEW calls, Plain(calls), Continue(t, calls), UNCHANGED mtx
    PROVE  IInv'
<1>1. ~Joining(t) /\ ~HasFirst(t)
  BY DEF Joining, HasFirst
<1>2. Plain(stack[t])
  BY <1>1 DEF IInv
<1>3. Plain(calls \o Tail(stack[t]))
  BY <1>2, PlainContinue
<1>4. stack' = [stack EXCEPT ![t] = calls \o Tail(stack[t])]
  BY DEF Continue
<1> QED
  BY <1>1, <1>3, <1>4, StackStep

\* Nothing is locked at first.
LEMMA InitIInv == Init => IInv
<1> SUFFICES ASSUME Init PROVE IInv
  OBVIOUS
<1>1. Plain(<<>>)
  BY PlainShort, Call("resume", 0, 0, <<>>).op \notin LockOps DEF Call, LockOps
<1> QED
  BY <1>1, ThreadAssumption DEF Init, IInv

\* A thread whose innermost call locks is in no other call.
LEMMA TopLocks ==
    ASSUME IInv, NEW t \in Thread, stack[t] # <<>>, Top(t).op \in LockOps
    PROVE  Joining(t)
<1>1. ASSUME Plain(stack[t]) PROVE FALSE
  <2>1. stack[t] \in Seq({stack[t][i] : i \in 1 .. Len(stack[t])})
    BY <1>1, PlainIsSeq
  <2>2. 1 \in 1 .. Len(stack[t]) /\ Top(t) = stack[t][1]
    BY <2>1 DEF Top
  <2> QED
    BY <1>1, <2>2 DEF Plain
<1> QED
  BY <1>1 DEF IInv

\* Locking the first mutex keeps the invariant.
LEMMA LockFirstStep ==
    ASSUME IInv, NEW t \in Thread, LockFirst(t)
    PROVE  IInv'
<1> DEFINE c == Top(t)
           d == Call(c.list, c.a, c.b, c.list)
           x == FirstLock(c.a, c.b)
<1>1. stack[t] # <<>> /\ c.op = "lock" /\ mtx[x] = Free
      /\ mtx' = [mtx EXCEPT ![x] = t]
      /\ stack' = [stack EXCEPT ![t] = <<[c EXCEPT !.op = c.list]>> \o Tail(stack[t])]
  BY DEF LockFirst, In, Continue
<1>2. Joining(t)
  BY <1>1, TopLocks DEF LockOps
<1>3. /\ c = Call("lock", c.a, c.b, c.list) /\ c.list \in {"link", "unlink"}
      /\ c.a \in Actor /\ c.b \in Actor /\ c.a # c.b /\ stack[t] = <<c>>
      /\ x \in Actor
  BY <1>1, <1>2 DEF Joining, FirstLock
<1>4. [c EXCEPT !.op = c.list] = d
  <2>1. \A a, b, l : [Call("lock", a, b, l) EXCEPT !.op = l] = Call(l, a, b, l)
    BY DEF Call
  <2> QED
    BY <1>3, <2>1
<1>5. stack' = [stack EXCEPT ![t] = <<d>>]
  <2>1. <<d>> \o Tail(<<c>>) = <<d>>
    OBVIOUS
  <2> QED
    BY <1>1, <1>3, <1>4, <2>1
<1>6. /\ stack'[t] = <<d>> /\ \A u \in Thread \ {t} : stack'[u] = stack[u]
      /\ stack' = [u \in Thread |-> stack'[u]]
  BY <1>5 DEF IInv
<1>7. /\ d.op \in {"link", "unlink"} /\ d.a = c.a /\ d.b = c.b
      /\ d = Call(d.op, d.a, d.b, d.list)
  BY <1>3 DEF Call
<1>8. Top(t)' = d
  BY <1>6 DEF Top
<1> HIDE DEF c, d, x
<1>9. HasFirst(t)' /\ x = FirstLock(d.a, d.b)
  BY <1>3, <1>6, <1>7, <1>8 DEF HasFirst, Joining, LockOps, x
<1>10. \A u \in Thread \ {t} : /\ Joining(u)' <=> Joining(u)
                               /\ HasFirst(u)' <=> HasFirst(u)
                               /\ Top(u)' = Top(u)
  BY <1>6 DEF HasFirst, Joining, Top
<1>11. \A u \in Thread : Plain(stack'[u]) \/ Joining(u)'
  BY <1>6, <1>9, <1>10 DEF IInv, HasFirst
<1>12. ~HasFirst(t)
  BY <1>1 DEF HasFirst, c
<1>13. ASSUME NEW u \in Thread, NEW a \in Actor, mtx'[a] = u
       PROVE  HasFirst(u)' /\ a = FirstLock(Top(u)'.a, Top(u)'.b)
  <2>1. CASE a = x
    <3>1. u = t
      BY <1>1, <1>3, <1>13, <2>1 DEF IInv
    <3> QED
      BY <1>8, <1>9, <2>1, <3>1
  <2>2. CASE a # x
    <3>1. mtx[a] = u
      BY <1>1, <1>3, <1>13, <2>2 DEF IInv
    <3>2. HasFirst(u) /\ a = FirstLock(Top(u).a, Top(u).b)
      BY <3>1 DEF IInv
    <3>3. u # t
      BY <1>12, <3>2
    <3> QED
      BY <1>10, <3>2, <3>3
  <2> QED
    BY <2>1, <2>2
<1>14. mtx' \in [Actor -> Thread \cup {Free}]
  BY <1>1 DEF IInv
<1> QED
  BY <1>6, <1>11, <1>13, <1>14 DEF IInv, FirstLock

\* The section runs and releases both mutexes.
LEMMA LockedStep ==
    ASSUME IInv, NEW t \in Thread, NEW op \in {"link", "unlink"}, Locked(t, op)
    PROVE  IInv'
<1> DEFINE c == Top(t)
           x == FirstLock(c.a, c.b)
<1>1. stack[t] # <<>> /\ c.op = op
      /\ mtx' = [mtx EXCEPT ![x] = Free]
      /\ stack' = [stack EXCEPT ![t] = <<>> \o Tail(stack[t])]
  BY DEF Locked, In, Return, Continue
<1>2. Joining(t)
  BY <1>1, TopLocks DEF LockOps
<1>3. stack[t] = <<c>>
  BY <1>2 DEF Joining
<1>4. stack' = [stack EXCEPT ![t] = <<>>]
  <2>1. <<>> \o Tail(<<c>>) = <<>>
    OBVIOUS
  <2> QED
    BY <1>1, <1>3, <2>1
<1>5. /\ stack'[t] = <<>> /\ \A u \in Thread \ {t} : stack'[u] = stack[u]
      /\ stack' = [u \in Thread |-> stack'[u]]
  BY <1>4 DEF IInv
<1>6. \A u \in Thread \ {t} : /\ Joining(u)' <=> Joining(u)
                              /\ HasFirst(u)' <=> HasFirst(u)
                              /\ Top(u)' = Top(u)
  BY <1>5 DEF HasFirst, Joining, Top
<1>7. Plain(<<>>)
  BY PlainShort, Call("resume", 0, 0, <<>>).op \notin LockOps DEF Call, LockOps
<1>8. \A u \in Thread : Plain(stack'[u]) \/ Joining(u)'
  BY <1>5, <1>6, <1>7 DEF IInv
<1> HIDE DEF c, x
<1>9. ASSUME NEW u \in Thread, NEW a \in Actor, mtx'[a] = u
      PROVE  HasFirst(u)' /\ a = FirstLock(Top(u)'.a, Top(u)'.b)
  <2>1. a # x /\ mtx[a] = u
    BY <1>1, <1>9, ThreadAssumption DEF IInv
  <2>2. HasFirst(u) /\ a = FirstLock(Top(u).a, Top(u).b)
    BY <2>1 DEF IInv
  <2>3. u # t
    BY <2>1, <2>2 DEF x, c
  <2> QED
    BY <1>6, <2>2, <2>3
<1>10. mtx' \in [Actor -> Thread \cup {Free}]
  BY <1>1 DEF IInv
<1> QED
  BY <1>5, <1>8, <1>9, <1>10 DEF IInv, FirstLock

\* Every step keeps the invariant.
LEMMA NextIInv == IInv /\ [Next]_vars => IInv'
<1> SUFFICES ASSUME IInv, [Next]_vars PROVE IInv'
  OBVIOUS
<1>1. \A o, a, b, l : Call(o, a, b, l).op = o
  BY DEF Call
<1>2. \A a, ms : Release(a).op \notin LockOps /\ Delete(ms).op \notin LockOps
  BY <1>1 DEF Release, Delete, LockOps
<1>3. Plain(<<>>)
  BY <1>2, PlainShort
<1>4. ASSUME NEW t \in Thread, NEW op, op \notin LockOps, In(t, op)
      PROVE  stack[t] # <<>> /\ Top(t).op \notin LockOps
  BY <1>4 DEF In
<1>5. ASSUME NEW t \in Thread, AddLink(t) \/ RemoveLink(t) PROVE IInv'
  BY <1>5, LockedStep DEF AddLink, RemoveLink
<1>6. ASSUME NEW t \in Thread, Attach(t) PROVE IInv'
  <2>1. In(t, "attach") /\ UNCHANGED mtx
    BY <1>6 DEF Attach
  <2>2. PICK calls : Continue(t, calls) /\ Plain(calls)
    <3> DEFINE n == Call("notify", Top(t).b, Top(t).b,
                         <<Attachable("monitor", Top(t).a)>>)
    <3>1. n.op \notin LockOps
      BY <1>1 DEF LockOps
    <3>2. Plain(<<n>>)
      BY <3>1, PlainShort
    <3>3. Continue(t, <<n>>) \/ Continue(t, <<>>)
      BY <1>6 DEF Attach, Return
    <3> QED
      BY <1>3, <3>2, <3>3
  <2> QED
    BY <1>4, <2>1, <2>2, ContinueStep DEF LockOps
<1>7. ASSUME NEW t \in Thread, Detach(t) \/ EndResume(t) \/ UnbumpRef(t)
      PROVE  IInv'
  <2>1. /\ In(t, "detach") \/ In(t, "resume") \/ In(t, "unbump")
        /\ Continue(t, <<>>) /\ UNCHANGED mtx
    BY <1>7 DEF Detach, EndResume, UnbumpRef, Return, state
  <2> QED
    BY <1>3, <1>4, <2>1, ContinueStep DEF LockOps
<1>8. ASSUME NEW t \in Thread, Notify(t) PROVE IInv'
  <2> DEFINE c == Top(t)
             rest == [c EXCEPT !.list = Tail(@)]
             tell == Call("tell", c.a, Head(c.list).observer, Head(c.list).type)
  <2>1. c.op = "notify" /\ stack[t] # <<>> /\ UNCHANGED mtx
    BY <1>8 DEF Notify, In, state
  <2>2. rest.op \notin LockOps /\ tell.op \notin LockOps
    BY <1>1, <2>1 DEF LockOps
  <2>3. Plain(<<rest>>) /\ Plain(<<tell, rest>>)
    BY <2>2, PlainShort
  <2>4. Continue(t, <<>>) \/ Continue(t, <<rest>>) \/ Continue(t, <<tell, rest>>)
    BY <1>8 DEF Notify, Return
  <2>5. PICK calls : Continue(t, calls) /\ Plain(calls)
    BY <1>3, <2>3, <2>4
  <2> QED
    BY <2>1, <2>5, ContinueStep DEF LockOps
<1>9. ASSUME NEW t \in Thread, Tell(t) PROVE IInv'
  <2>1. In(t, "tell") /\ Continue(t, <<Release(Top(t).b)>>) /\ UNCHANGED mtx
    BY <1>9 DEF Tell
  <2>2. Plain(<<Release(Top(t).b)>>)
    BY <1>2, PlainShort
  <2> QED
    BY <1>4, <2>1, <2>2, ContinueStep DEF LockOps
<1>10. ASSUME NEW t \in Thread, DeleteNext(t) PROVE IInv'
  <2> DEFINE ms == Top(t).list
             r == Release(Head(ms).from)
             d == Delete(Tail(ms))
  <2>1. In(t, "delete") /\ UNCHANGED mtx
    BY <1>10 DEF DeleteNext, state
  <2>2. Plain(<<r, d>>) /\ Plain(<<d>>)
    BY <1>2, PlainShort
  <2>3. Continue(t, <<>>) \/ Continue(t, <<r, d>>) \/ Continue(t, <<d>>)
    BY <1>10 DEF DeleteNext, Return
  <2>4. PICK calls : Continue(t, calls) /\ Plain(calls)
    BY <1>3, <2>2, <2>3
  <2> QED
    BY <1>4, <2>1, <2>4, ContinueStep DEF LockOps
<1>11. ASSUME NEW t \in Thread, OnCleanup(t) \/ ForceClose(t) PROVE IInv'
  <2> DEFINE d == Delete(mailbox[Top(t).a])
             b == Call("bump", Top(t).a, Top(t).a, <<>>)
  <2>1. /\ In(t, "on_cleanup") \/ In(t, "force_close")
        /\ Continue(t, <<d>> \o <<>>) \/ Continue(t, <<d>> \o <<b>>)
        /\ UNCHANGED mtx
    BY <1>11 DEF OnCleanup, ForceClose, CloseMailbox
  <2>2. d.op \notin LockOps /\ b.op \notin LockOps
    BY <1>1, <1>2 DEF LockOps
  <2>3. Plain(<<d>>) /\ Plain(<<b>>) /\ Plain(<<b, b>>)
    BY <2>2, PlainShort
  <2> HIDE DEF d, b
  <2>4. Plain(<<d>> \o <<>>) /\ Plain(<<d>> \o <<b>>)
    <3>1. /\ <<b>> # <<>> /\ Tail(<<b>>) = <<>>
          /\ <<b, b>> # <<>> /\ Tail(<<b, b>>) = <<b>>
      OBVIOUS
    <3>2. Plain(<<d>> \o Tail(<<b>>)) /\ Plain(<<d>> \o Tail(<<b, b>>))
      BY <2>3, <3>1, PlainContinue
    <3> QED
      BY <3>1, <3>2
  <2>5. PICK calls : Continue(t, calls) /\ Plain(calls)
    BY <2>1, <2>4
  <2> QED
    BY <1>4, <2>1, <2>5, ContinueStep DEF LockOps
<1>12. ASSUME NEW t \in Thread, ReleaseRef(t) PROVE IInv'
  <2> DEFINE f == Call("force_close", Top(t).a, Top(t).a, <<>>)
  <2>1. /\ In(t, "release") /\ UNCHANGED mtx
        /\ Continue(t, <<f>>) \/ Continue(t, <<>>)
    BY <1>12 DEF ReleaseRef, Return, state
  <2>2. Plain(<<f>>)
    <3>1. f.op \notin LockOps
      BY <1>1 DEF LockOps
    <3> QED
      BY <3>1, PlainShort
  <2>3. PICK calls : Continue(t, calls) /\ Plain(calls)
    BY <1>3, <2>1, <2>2
  <2> QED
    BY <1>4, <2>1, <2>3, ContinueStep DEF LockOps
<1>13. ASSUME NEW t \in Thread, BumpRef(t) PROVE IInv'
  <2> DEFINE c == Call("cleanup", Top(t).a, Top(t).a, <<>>)
             u == Call("unbump", Top(t).a, Top(t).a, <<>>)
  <2>1. In(t, "bump") /\ UNCHANGED mtx /\ Continue(t, <<c, u>>)
    BY <1>13 DEF BumpRef, state
  <2>2. Plain(<<c, u>>)
    <3>1. c.op \notin LockOps /\ u.op \notin LockOps
      BY <1>1 DEF LockOps
    <3> QED
      BY <3>1, PlainShort
  <2> QED
    BY <1>4, <2>1, <2>2, ContinueStep DEF LockOps
<1>14. ASSUME NEW t \in Thread, OnUnreachable(t) PROVE IInv'
  <2> DEFINE a == Top(t).a
             n == Call("notify", a, a, attachables[a])
             o == Call("on_cleanup", a, a, <<>>)
  <2>1. In(t, "cleanup") /\ UNCHANGED mtx /\ Continue(t, <<n, o>>)
    BY <1>14 DEF OnUnreachable, Terminate, Below, Continue
  <2>2. Plain(<<n, o>>)
    <3>1. n.op \notin LockOps /\ o.op \notin LockOps
      BY <1>1 DEF LockOps
    <3> QED
      BY <3>1, PlainShort
  <2> QED
    BY <1>4, <2>1, <2>2, ContinueStep DEF LockOps
<1>15. ASSUME NEW t \in Thread, stack[t] = <<>> PROVE ~HasFirst(t)
  BY <1>15 DEF HasFirst, Joining
<1>16. ASSUME NEW t \in Thread, NEW a \in Actor, Drop(t, a) PROVE IInv'
  <2>1. /\ stack[t] = <<>> /\ UNCHANGED mtx
        /\ stack' = [stack EXCEPT ![t] = <<Release(a)>>]
    BY <1>16 DEF Drop, Use, Enter, state
  <2>2. Plain(<<Release(a)>>)
    BY <1>2, PlainShort
  <2> QED
    BY <1>15, <2>1, <2>2, StackStep
<1>17. ASSUME NEW t \in Thread, NEW a \in Actor, Receive(t, a) PROVE IInv'
  <2> DEFINE d == Delete(<<Head(mailbox[a])>>)
             r == Call("resume", a, a, <<>>)
  <2>1. /\ stack[t] = <<>> /\ UNCHANGED mtx
        /\ stack' = [stack EXCEPT ![t] = <<d, r>>]
    BY <1>17 DEF Receive
  <2>2. Plain(<<d, r>>)
    <3>1. d.op \notin LockOps /\ r.op \notin LockOps
      BY <1>1, <1>2 DEF LockOps
    <3> QED
      BY <3>1, PlainShort
  <2> QED
    BY <1>15, <2>1, <2>2, StackStep
<1>18. ASSUME NEW t \in Thread, NEW a \in Actor, Finalize(t, a) PROVE IInv'
  <2> DEFINE n == Call("notify", a, a, attachables[a])
             o == Call("on_cleanup", a, a, <<>>)
             r == Call("resume", a, a, <<>>)
  <2>1. /\ stack[t] = <<>> /\ UNCHANGED mtx
        /\ stack' = [stack EXCEPT ![t] = <<n, o>> \o <<r>>]
    BY <1>18 DEF Finalize, Terminate, Use
  <2>2. n.op \notin LockOps /\ o.op \notin LockOps /\ r.op \notin LockOps
    BY <1>1 DEF LockOps
  <2>3. Plain(<<n, o>>) /\ Plain(<<r, r>>)
    BY <2>2, PlainShort
  <2> HIDE DEF n, o, r
  <2>4. Plain(<<n, o>> \o <<r>>)
    <3>1. <<r, r>> # <<>> /\ Tail(<<r, r>>) = <<r>>
      OBVIOUS
    <3>2. Plain(<<n, o>> \o Tail(<<r, r>>))
      BY <2>3, <3>1, PlainContinue
    <3> QED
      BY <3>1, <3>2
  <2> QED
    BY <1>15, <2>1, <2>4, StackStep
<1>19. ASSUME NEW t \in Thread, NEW a \in Actor, NEW b \in Actor, Connect(t, a, b)
       PROVE  IInv'
  <2>1. /\ stack[t] = <<>> /\ UNCHANGED mtx /\ a # b
    BY <1>19 DEF Connect, Use, state
  <2>2. PICK c \in {Call("lock", a, b, "link"), Call("lock", a, b, "unlink"),
                    Call("attach", a, b, <<>>), Call("detach", a, b, <<>>)} :
           stack' = [stack EXCEPT ![t] = <<c>>]
    BY <1>19 DEF Connect, Enter
  <2>3. CASE c.op \notin LockOps
    <3>1. Plain(<<c>>)
      BY <2>3, PlainShort
    <3> QED
      BY <1>15, <2>1, <2>2, <3>1, StackStep
  <2>4. CASE c.op \in LockOps
    <3>1. /\ c.op = "lock" /\ c.a = a /\ c.b = b /\ c.list \in {"link", "unlink"}
          /\ c = Call(c.op, c.a, c.b, c.list)
      BY <2>2, <2>4 DEF Call, LockOps
    <3>2. /\ stack'[t] = <<c>> /\ \A u \in Thread \ {t} : stack'[u] = stack[u]
          /\ stack' = [u \in Thread |-> stack'[u]]
      BY <2>2 DEF IInv
    <3>3. Top(t)' = c
      BY <3>2 DEF Top
    <3>4. Joining(t)'
      BY <2>1, <3>1, <3>2, <3>3 DEF Joining, LockOps
    <3>5. \A u \in Thread \ {t} : /\ Joining(u)' <=> Joining(u)
                                  /\ HasFirst(u)' <=> HasFirst(u)
                                  /\ Top(u)' = Top(u)
      BY <3>2 DEF HasFirst, Joining, Top
    <3>6. \A u \in Thread : Plain(stack'[u]) \/ Joining(u)'
      BY <3>2, <3>4, <3>5 DEF IInv
    <3>7. ASSUME NEW u \in Thread, NEW x \in Actor, mtx'[x] = u
          PROVE  HasFirst(u)' /\ x = FirstLock(Top(u)'.a, Top(u)'.b)
      <4>1. HasFirst(u) /\ x = FirstLock(Top(u).a, Top(u).b)
        BY <2>1, <3>7 DEF IInv
      <4>2. u # t
        BY <1>15, <2>1, <4>1
      <4> QED
        BY <3>5, <4>1, <4>2
    <3>8. mtx' \in [Actor -> Thread \cup {Free}]
      BY <2>1 DEF IInv
    <3> QED
      BY <3>2, <3>6, <3>7, <3>8 DEF IInv, FirstLock
  <2> QED
    BY <2>3, <2>4
<1>20. ASSUME UNCHANGED <<stack, mtx>> PROVE IInv'
  BY <1>20 DEF IInv, Joining, HasFirst, Top
<1>21. CASE UNCHANGED vars
  BY <1>20, <1>21 DEF vars
<1>22. ASSUME NEW t \in Thread, NEW a \in Actor, Upgrade(t, a) PROVE IInv'
  BY <1>20, <1>22 DEF Upgrade, state
<1>23. ASSUME NEW t \in Thread, Runtime(t) PROVE IInv'
  BY <1>5, <1>6, <1>7, <1>8, <1>9, <1>10, <1>11, <1>12, <1>13, <1>14, <1>23,
     LockFirstStep DEF Runtime
<1> QED
  BY <1>16, <1>17, <1>18, <1>19, <1>21, <1>22, <1>23 DEF Next

\* Threads that link and unlink actors never wait for each other, for any
\* number of actors and threads: joined_exclusive_critical_section locks the
\* lower address first.
THEOREM LinkingIsFree == Spec => []NoStandoff
<1>1. IInv => NoStandoff
  <2> SUFFICES ASSUME IInv, NEW t \in Thread, NEW u \in Thread,
                      NEW a \in Actor, NEW b \in Actor, a # b,
                      mtx[a] = t, mtx[b] = u,
                      SecondLock(Top(t).a, Top(t).b) = b,
                      SecondLock(Top(u).a, Top(u).b) = a
               PROVE  FALSE
    BY DEF NoStandoff
  <2>1. /\ HasFirst(t) /\ a = FirstLock(Top(t).a, Top(t).b)
        /\ HasFirst(u) /\ b = FirstLock(Top(u).a, Top(u).b)
    BY DEF IInv
  <2>2. /\ Top(t).a \in Nat /\ Top(t).b \in Nat /\ Top(t).a # Top(t).b
        /\ Top(u).a \in Nat /\ Top(u).b \in Nat /\ Top(u).a # Top(u).b
    BY <2>1, ActorAssumption DEF HasFirst, Joining
  <2>3. a < b /\ b < a
    BY <2>1, <2>2 DEF FirstLock, SecondLock
  <2> QED
    BY <2>3, ActorAssumption
<1>2. Init => IInv
  BY InitIInv
<1>3. IInv /\ [Next]_vars => IInv'
  BY NextIInv
<1> QED
  BY <1>1, <1>2, <1>3, PTL DEF Spec
=============================================================================
