--------------------------- MODULE ActorLifetime ----------------------------
(* The life of actors: the strong references that keep them, the links and  *)
(* monitors between them, and their end. Threads hold handles, upgrade      *)
(* addresses, link and monitor, and drop handles; the last reference to go  *)
(* terminates an actor that still lives.                                    *)
(*                                                                          *)
(* A thread inside the runtime has a stack of calls. The weak references,   *)
(* which keep the control block, are not modelled: an address is always     *)
(* there to be upgraded.                                                    *)
EXTENDS Integers, Sequences, FiniteSets

CONSTANTS
    Actor,     \* addresses of actors
    Thread,    \* threads that use them
    MaxUse     \* bound: operations the threads start

ASSUME ActorAssumption == Actor \subseteq Nat /\ MaxUse \in Nat

VARIABLES
    strong,       \* strong_refs
    terminated,   \* is_terminated_flag
    destroyed,    \* how often the destructor of the actor ran
    attachables,  \* attachables_head_
    mailbox,      \* the messages in it, with a reference to the sender or not
    closed,       \* is it closed?
    mtx,          \* mtx_: the thread that holds it, or Free
    stack,        \* the calls each thread is in, the innermost first
    handles,      \* the actors each thread has a strong handle to
    uses,         \* the number of operations that were started
    linked,       \* history: the pairs that are linked
    watched,      \* history: <<observer, observed>>, a monitor is in force
    told          \* history: <<receiver, kind, source>> of messages received

vars == <<strong, terminated, destroyed, attachables, mailbox, closed, mtx,
          stack, handles, uses, linked, watched, told>>

Free == "free"

ASSUME ThreadAssumption == Free \notin Thread

Attachable(type, observer) == [type |-> type, observer |-> observer]
Call(op, a, b, list) == [op |-> op, a |-> a, b |-> b, list |-> list]

Init ==
    /\ strong = [a \in Actor |-> Cardinality(Thread)]
    /\ handles = [t \in Thread |-> Actor]
    /\ terminated = [a \in Actor |-> FALSE]
    /\ destroyed = [a \in Actor |-> 0]
    /\ attachables = [a \in Actor |-> <<>>]
    /\ mailbox = [a \in Actor |-> <<>>]
    /\ closed = [a \in Actor |-> FALSE]
    /\ mtx = [a \in Actor |-> Free]
    /\ stack = [t \in Thread |-> <<>>]
    /\ uses = 0
    /\ linked = {} /\ watched = {} /\ told = {}

user == <<handles, uses>>
refs == <<strong, destroyed>>
state == <<terminated, attachables, mailbox, closed, mtx>>
history == <<linked, watched, told>>
-----------------------------------------------------------------------------
(* The stack of calls.                                                      *)

Top(t) == Head(stack[t])
Below(t) == Tail(stack[t])
In(t, op) == stack[t] # <<>> /\ Top(t).op = op

\* Replace the innermost call of t by these.
Continue(t, calls) == stack' = [stack EXCEPT ![t] = calls \o Tail(@)]
Return(t) == Continue(t, <<>>)

\* The user's code of t starts an operation.
Use(t) ==
    /\ stack[t] = <<>>
    /\ uses < MaxUse
    /\ uses' = uses + 1

Enter(t, call) == stack' = [stack EXCEPT ![t] = <<call>>]
-----------------------------------------------------------------------------
(* Messages between actors.                                                 *)

Message(kind, from, ref) == [kind |-> kind, from |-> from, ref |-> ref]

\* enqueue: a closed mailbox drops the message.
Enqueue(b, m) ==
    /\ mailbox' = IF closed[b] THEN mailbox
                  ELSE [mailbox EXCEPT ![b] = Append(@, m)]
    /\ told' = IF closed[b] THEN told
               ELSE told \cup {<<b, m.kind, m.from>>}

\* The call that gives up a reference to a.
Release(a) == Call("release", a, a, <<>>)

\* The call that deletes messages, which releases their senders.
Delete(ms) == Call("delete", 0, 0, ms)

DeleteNext(t) ==
    /\ In(t, "delete")
    /\ LET ms == Top(t).list
       IN  IF ms = <<>> THEN Return(t)
           ELSE Continue(t, IF Head(ms).ref
                            THEN <<Release(Head(ms).from), Delete(Tail(ms))>>
                            ELSE <<Delete(Tail(ms))>>)
    /\ UNCHANGED <<refs, state, user, history>>
-----------------------------------------------------------------------------
(* The critical sections of abstract_actor.                                 *)

\* attach_impl: the newest is the first.
AttachImpl(list, x) == <<x>> \o list

\* detach_impl as a dry run.
Contains(list, x) == \E i \in DOMAIN list : list[i] = x

\* detach_impl with stop_on_hit.
DetachFirst(list, x) ==
    IF Contains(list, x)
    THEN LET i == CHOOSE i \in DOMAIN list :
                    list[i] = x /\ \A j \in 1 .. i - 1 : list[j] # x
         IN  SubSeq(list, 1, i - 1) \o SubSeq(list, i + 1, Len(list))
    ELSE list

\* Seeded fault: the mutex of the actor itself first.
FirstLockSelf(a, b) == a

\* joined_exclusive_critical_section: the lowest address first.
FirstLock(a, b) == IF a < b THEN a ELSE b
SecondLock(a, b) == IF FirstLock(a, b) = a THEN b ELSE a

LockFirst(t) ==
    /\ In(t, "lock")
    /\ LET c == Top(t)
           x == FirstLock(c.a, c.b)
       IN  /\ mtx[x] = Free
           /\ mtx' = [mtx EXCEPT ![x] = t]
           /\ Continue(t, <<[c EXCEPT !.op = c.list]>>)
    /\ UNCHANGED <<refs, terminated, attachables, mailbox, closed, user,
                   history>>

\* The second mutex is free: run the section and release both.
Locked(t, op) ==
    /\ In(t, op)
    /\ LET c == Top(t)
       IN  /\ mtx[SecondLock(c.a, c.b)] = Free
           /\ mtx' = [mtx EXCEPT ![FirstLock(c.a, c.b)] = Free]
    /\ Return(t)
    /\ UNCHANGED <<refs, terminated, closed, user>>

\* add_link on a, which calls add_backlink on b.
AddLink(t) ==
    /\ Locked(t, "link")
    /\ LET a == Top(t).a
           b == Top(t).b
       IN  /\ linked' = linked \cup {{a, b}}
           /\ \/ /\ terminated[a]
                 /\ Enqueue(b, Message("exit", a, FALSE))
                 /\ UNCHANGED attachables
              \/ /\ ~terminated[a] /\ terminated[b]
                 /\ Enqueue(a, Message("exit", b, FALSE))
                 /\ UNCHANGED attachables
              \/ /\ ~terminated[a] /\ ~terminated[b]
                 /\ attachables' =
                      IF Contains(attachables[b], Attachable("link", a))
                      THEN attachables
                      ELSE [attachables EXCEPT
                              ![a] = AttachImpl(@, Attachable("link", b)),
                              ![b] = AttachImpl(@, Attachable("link", a))]
                 /\ UNCHANGED <<mailbox, told>>
    /\ UNCHANGED watched

\* Seeded fault: remove_link leaves the end at b.
RemoveLinkHere(t) ==
    /\ Locked(t, "unlink")
    /\ LET a == Top(t).a
           b == Top(t).b
       IN  /\ linked' = linked \ {{a, b}}
           /\ attachables' = [attachables EXCEPT
                                ![a] = DetachFirst(@, Attachable("link", b))]
    /\ UNCHANGED <<mailbox, watched, told>>

\* remove_link on a, which calls remove_backlink on b.
RemoveLink(t) ==
    /\ Locked(t, "unlink")
    /\ LET a == Top(t).a
           b == Top(t).b
       IN  /\ linked' = linked \ {{a, b}}
           /\ attachables' = [attachables EXCEPT
                                ![a] = DetachFirst(@, Attachable("link", b)),
                                ![b] = DetachFirst(@, Attachable("link", a))]
    /\ UNCHANGED <<mailbox, watched, told>>

\* Seeded fault: attach does not look at is_terminated_flag.
AttachBlindly(t) ==
    /\ In(t, "attach")
    /\ LET a == Top(t).a
           b == Top(t).b
       IN  /\ mtx[b] = Free
           /\ watched' = watched \cup {<<a, b>>}
           /\ attachables' = [attachables EXCEPT
                  ![b] = AttachImpl(@, Attachable("monitor", a))]
    /\ Return(t)
    /\ UNCHANGED <<refs, terminated, mailbox, closed, mtx, user, linked, told>>

\* attach: at a terminated actor, the attachable runs at once.
Attach(t) ==
    /\ In(t, "attach")
    /\ LET a == Top(t).a
           b == Top(t).b
       IN  /\ mtx[b] = Free
           /\ watched' = watched \cup {<<a, b>>}
           /\ IF terminated[b]
              THEN /\ Continue(t, <<Call("notify", b, b,
                                         <<Attachable("monitor", a)>>)>>)
                   /\ UNCHANGED attachables
              ELSE /\ attachables' = [attachables EXCEPT
                          ![b] = AttachImpl(@, Attachable("monitor", a))]
                   /\ Return(t)
    /\ UNCHANGED <<refs, terminated, mailbox, closed, mtx, user, linked, told>>

\* detach removes all that match.
Detach(t) ==
    /\ In(t, "detach")
    /\ LET a == Top(t).a
           b == Top(t).b
       IN  /\ mtx[b] = Free
           /\ watched' = watched \ {<<a, b>>}
           /\ attachables' = [attachables EXCEPT ![b] =
                  SelectSeq(@, LAMBDA x : x # Attachable("monitor", a))]
    /\ Return(t)
    /\ UNCHANGED <<refs, terminated, mailbox, closed, mtx, user, linked, told>>
-----------------------------------------------------------------------------
(* cleanup.                                                                 *)

\* The critical section of cleanup, and the calls that follow it.
Terminate(t, a, after) ==
    /\ mtx[a] = Free
    /\ terminated' = [terminated EXCEPT ![a] = TRUE]
    /\ attachables' = [attachables EXCEPT ![a] = <<>>]
    /\ stack' = [stack EXCEPT ![t] =
                   <<Call("notify", a, a, attachables[a]),
                     Call("on_cleanup", a, a, <<>>)>> \o after]
    /\ UNCHANGED <<mailbox, closed, mtx, history>>

\* actor_exited of the next attachable: get hold of the observer.
Notify(t) ==
    /\ In(t, "notify")
    /\ LET c == Top(t)
       IN  IF c.list = <<>> THEN Return(t) /\ UNCHANGED strong
           ELSE LET o == Head(c.list).observer
                    rest == [c EXCEPT !.list = Tail(@)]
                IN  IF strong[o] = 0
                    THEN Continue(t, <<rest>>) /\ UNCHANGED strong
                    ELSE /\ strong' = [strong EXCEPT ![o] = @ + 1]
                         /\ Continue(t,
                              <<Call("tell", c.a, o, Head(c.list).type), rest>>)
    /\ UNCHANGED <<destroyed, state, user, history>>

\* Then send it a message that references the observed actor.
Tell(t) ==
    /\ In(t, "tell")
    /\ LET c == Top(t)
           kind == IF c.list = "monitor" THEN "down" ELSE "exit"
           ref == strong[c.a] # 0
       IN  /\ Enqueue(c.b, Message(kind, c.a, ref))
           /\ strong' = IF ref /\ ~closed[c.b]
                        THEN [strong EXCEPT ![c.a] = @ + 1]
                        ELSE strong
           /\ Continue(t, <<Release(c.b)>>)
    /\ UNCHANGED <<destroyed, terminated, attachables, closed, mtx, user,
                   linked, watched>>

\* close_mailbox, then the calls after.
CloseMailbox(t, a, after) ==
    /\ closed' = [closed EXCEPT ![a] = TRUE]
    /\ mailbox' = [mailbox EXCEPT ![a] = <<>>]
    /\ Continue(t, <<Delete(mailbox[a])>> \o after)
    /\ UNCHANGED <<refs, terminated, attachables, mtx, user, history>>

OnCleanup(t) == In(t, "on_cleanup") /\ CloseMailbox(t, Top(t).a, <<>>)
-----------------------------------------------------------------------------
(* intrusive_ptr_release.                                                   *)

\* The counter drops. At 0 a terminated actor is destroyed; another one is
\* cleaned up first.
ReleaseRef(t) ==
    /\ In(t, "release")
    /\ LET a == Top(t).a
           last == strong[a] = 1
       IN  /\ strong' = [strong EXCEPT ![a] = @ - 1]
           /\ IF last /\ ~terminated[a]
              THEN Continue(t, <<Call("force_close", a, a, <<>>)>>)
              ELSE Return(t)
           /\ destroyed' = [destroyed EXCEPT ![a] =
                              IF last /\ terminated[a] THEN @ + 1 ELSE @]
    /\ UNCHANGED <<state, user, history>>

ForceClose(t) ==
    /\ In(t, "force_close")
    /\ LET a == Top(t).a
       IN  CloseMailbox(t, a, <<Call("bump", a, a, <<>>)>>)

\* The counter becomes 1 again, for the time of on_unreachable.
BumpRef(t) ==
    /\ In(t, "bump")
    /\ LET a == Top(t).a
       IN  /\ strong' = [strong EXCEPT ![a] = @ + 1]
           /\ Continue(t, <<Call("cleanup", a, a, <<>>),
                            Call("unbump", a, a, <<>>)>>)
    /\ UNCHANGED <<destroyed, state, user, history>>

OnUnreachable(t) ==
    /\ In(t, "cleanup")
    /\ Terminate(t, Top(t).a, Below(t))
    /\ UNCHANGED <<refs, user>>

\* Seeded fault: nobody asks for references that cleanup added.
UnbumpRefAlways(t) ==
    /\ In(t, "unbump")
    /\ LET a == Top(t).a
       IN  /\ strong' = [strong EXCEPT ![a] = @ - 1]
           /\ destroyed' = [destroyed EXCEPT ![a] = @ + 1]
    /\ Return(t)
    /\ UNCHANGED <<state, user, history>>

\* Seeded fault: return after the cleanup, references or not.
UnbumpRefNever(t) ==
    /\ In(t, "unbump")
    /\ LET a == Top(t).a
       IN  strong' = [strong EXCEPT ![a] = @ - 1]
    /\ Return(t)
    /\ UNCHANGED <<destroyed, state, user, history>>

\* The actor is destroyed, unless cleanup added references.
UnbumpRef(t) ==
    /\ In(t, "unbump")
    /\ LET a == Top(t).a
       IN  /\ strong' = [strong EXCEPT ![a] = @ - 1]
           /\ destroyed' = [destroyed EXCEPT ![a] =
                              IF strong[a] = 1 THEN @ + 1 ELSE @]
    /\ Return(t)
    /\ UNCHANGED <<state, user, history>>
-----------------------------------------------------------------------------
(* What threads do: with handles, and when they run an actor.               *)

\* intrusive_ptr_upgrade_weak, for the address of an actor.
Upgrade(t, a) ==
    /\ Use(t)
    /\ a \notin handles[t] /\ strong[a] # 0
    /\ strong' = [strong EXCEPT ![a] = @ + 1]
    /\ handles' = [handles EXCEPT ![t] = @ \cup {a}]
    /\ UNCHANGED <<destroyed, state, stack, history>>

Drop(t, a) ==
    /\ Use(t)
    /\ a \in handles[t]
    /\ handles' = [handles EXCEPT ![t] = @ \ {a}]
    /\ Enter(t, Release(a))
    /\ UNCHANGED <<refs, state, history>>

\* link_to, unlink_from, monitor and demonitor.
Connect(t, a, b) ==
    /\ Use(t)
    /\ a # b /\ {a, b} \subseteq handles[t]
    /\ \E c \in {Call("lock", a, b, "link"), Call("lock", a, b, "unlink"),
                 Call("attach", a, b, <<>>), Call("detach", a, b, <<>>)} :
         Enter(t, c)
    /\ UNCHANGED <<refs, state, handles, history>>

\* An actor with an open mailbox is run by one thread at a time.
Runs(t, a) ==
    /\ a \in handles[t] /\ ~terminated[a] /\ ~closed[a]
    /\ \A u \in Thread : \A i \in DOMAIN stack[u] :
           stack[u][i] # Call("resume", a, a, <<>>)

\* The actor consumes its next message.
Receive(t, a) ==
    /\ Runs(t, a)
    /\ mailbox[a] # <<>>
    /\ mailbox' = [mailbox EXCEPT ![a] = Tail(@)]
    /\ stack[t] = <<>>
    /\ stack' = [stack EXCEPT ![t] = <<Delete(<<Head(mailbox[a])>>),
                                       Call("resume", a, a, <<>>)>>]
    /\ UNCHANGED <<refs, terminated, attachables, closed, mtx, user, history>>

\* The actor terminates: finalize calls cleanup.
Finalize(t, a) ==
    /\ Runs(t, a)
    /\ Use(t)
    /\ Terminate(t, a, <<Call("resume", a, a, <<>>)>>)
    /\ UNCHANGED <<refs, handles>>

EndResume(t) ==
    /\ In(t, "resume")
    /\ Return(t)
    /\ UNCHANGED <<refs, state, user, history>>

Runtime(t) ==
    \/ LockFirst(t) \/ AddLink(t) \/ RemoveLink(t) \/ Attach(t) \/ Detach(t)
    \/ Notify(t) \/ Tell(t) \/ OnCleanup(t) \/ DeleteNext(t)
    \/ ReleaseRef(t) \/ ForceClose(t) \/ BumpRef(t) \/ OnUnreachable(t)
    \/ UnbumpRef(t) \/ EndResume(t)

Next ==
    \E t \in Thread :
        \/ Runtime(t)
        \/ \E a \in Actor : \/ Upgrade(t, a) \/ Drop(t, a) \/ Receive(t, a)
                            \/ Finalize(t, a)
                            \/ \E b \in Actor : Connect(t, a, b)

Spec == Init /\ [][Next]_vars
-----------------------------------------------------------------------------
(* Properties.                                                              *)

Quiet == \A t \in Thread : stack[t] = <<>>

\* The destructor of an actor runs at most once, after its cleanup and when
\* no reference is left, although cleanup sends messages that reference the
\* actor again (intrusive_ptr_release).
DestroyedLast ==
    \A a \in Actor :
        /\ destroyed[a] <= 1
        /\ destroyed[a] = 1 =>
             /\ terminated[a] /\ strong[a] = 0
             /\ \A t \in Thread : a \notin handles[t]
             /\ \A b \in Actor : \A i \in DOMAIN mailbox[b] :
                    ~(mailbox[b][i].ref /\ mailbox[b][i].from = a)

\* No actor leaks: without references, and with no thread inside the
\* runtime, it is destroyed.
NoLeak == Quiet => \A a \in Actor : strong[a] = 0 => destroyed[a] = 1

\* A link has two ends or none: while both actors live, each has an
\* attachable for the other exactly when the other has, and never two
\* (add_link, add_backlink, remove_link).
LinksMutual ==
    \A a, b \in Actor :
        LET ends(x, y) == {i \in DOMAIN attachables[x] :
                             attachables[x][i] = Attachable("link", y)}
        IN  (a # b /\ ~terminated[a] /\ ~terminated[b])
                => /\ ends(a, b) # {} <=> {a, b} \in linked
                   /\ \A i, j \in ends(a, b) : i = j

\* "This will cause the runtime to send an exit_msg if either this or other
\* dies" (the manual, core/MessagePassing.rst): once one of two linked actors
\* terminated and the runtime is done, the other was told or terminated too,
\* and so was every actor that monitors it.
ObserversTold ==
    Quiet => \A a, b \in Actor :
        (a # b /\ terminated[a] /\ ~terminated[b])
            => /\ {a, b} \in linked => <<b, "exit", a>> \in told
               /\ <<b, a>> \in watched => <<b, "down", a>> \in told

\* Threads that link actors to each other do not wait for each other: nobody
\* holds a mutex another one needs while waiting for one the other holds.
NoStandoff ==
    \A t, u \in Thread :
        ~ \E a, b \in Actor :
            /\ a # b /\ mtx[a] = t /\ mtx[b] = u
            /\ stack[t] # <<>> /\ stack[u] # <<>>
            /\ SecondLock(Top(t).a, Top(t).b) = b
            /\ SecondLock(Top(u).a, Top(u).b) = a
=============================================================================
