--------------------------- MODULE DetachedActors ---------------------------
(* Actors with a thread of their own: blocking actors and event-based actors *)
(* spawned as detached, the private threads that run them, the pool that    *)
(* joins these threads, and the shutdown of the actor system.               *)
(*                                                                          *)
(* A private thread runs one actor and is named after it. Messages are all  *)
(* alike: a mailbox is the number of messages in it.                        *)
EXTENDS Integers, Sequences

CONSTANTS
    Blocking,   \* blocking actors
    Evented,    \* detached event-based actors
    Hidden,     \* the actors that do not count as running
    Roots,      \* the actors that the main thread launches
    Awaiting,   \* blocking actors that may call await_all_other_actors_done
    MaxSend     \* bound: messages that are sent

Actor == Blocking \cup Evented

ASSUME ActorsAssumption ==
    /\ Blocking \cap Evented = {}
    /\ Hidden \subseteq Actor /\ Roots \subseteq Actor
    /\ Awaiting \subseteq Blocking
    /\ MaxSend \in Nat

Helper == "shutdown_helper"

ASSUME HelperAssumption == Helper \notin Actor

VARIABLES
    queue,     \* the messages in each mailbox
    stash,     \* and in each stash
    inbox,     \* "open", "blocked" or "closed"
    waking,    \* actors a sender unblocked and is about to wake
    leaving,   \* event-based actors another thread cleans up
    exiting,   \* event-based actors whose on_exit runs
    late,      \* actors launched by on_exit after a release, and their offspring
    pc,        \* what each private thread does
    job,       \* job_ of each private thread
    shutdown,  \* shutdown_ of each private thread
    pool,      \* [running, head, at, node, remaining, shutting_down]
    count,     \* running_ of the actor registry
    main,      \* what the thread of the actor system does
    sent

heirs == <<exiting, late>>
actors == <<queue, stash, inbox, waking, leaving, heirs, sent>>
threads == <<pc, job, shutdown>>
vars == <<actors, threads, pool, count, main>>

Init ==
    /\ queue = [a \in Actor |-> 0]
    /\ stash = [a \in Actor |-> 0]
    /\ inbox = [a \in Actor |-> "open"]
    /\ waking = {} /\ leaving = {} /\ exiting = {} /\ late = {}
    /\ pc = [a \in Actor |-> "none"]
    /\ job = [a \in Actor |-> FALSE]
    /\ shutdown = [a \in Actor |-> FALSE]
    /\ pool = [running |-> 0, head |-> <<>>, at |-> "dequeue",
               node |-> Helper, remaining |-> 0, shutting_down |-> FALSE]
    /\ count = 0
    /\ main = "spawn"
    /\ sent = 0

Goto(a, l) == pc' = [pc EXCEPT ![a] = l]
Counted(a) == IF a \in Hidden THEN 0 ELSE 1
-----------------------------------------------------------------------------
(* The pool of private threads and its loop.                                *)

\* acquire: one more thread.
Acquire == pool' = [pool EXCEPT !.running = @ + 1]

\* release: the loop has to join the thread of a.
Release(a) == pool' = [pool EXCEPT !.head = <<a>> \o @]

\* dequeue.
Dequeue ==
    /\ pool.at = "dequeue" /\ pool.head # <<>>
    /\ pool' = [pool EXCEPT !.at = "stop", !.node = Head(pool.head),
                            !.head = Tail(@), !.running = @ - 1,
                            !.remaining = pool.running - 1]
    /\ UNCHANGED <<actors, threads, count, main>>

\* private_thread::stop tells the thread.
StopThread ==
    /\ pool.at = "stop" /\ pool.node # Helper
    /\ shutdown' = [shutdown EXCEPT ![pool.node] = TRUE]
    /\ pool' = [pool EXCEPT !.at = "join"]
    /\ UNCHANGED <<actors, pc, job, count, main>>

\* Seeded fault: the loop returns with the shutdown helper.
EndLoopAtHelper(down) ==
    pool' = [pool EXCEPT !.shutting_down = down,
                         !.at = IF down THEN "returned" ELSE "dequeue"]

\* Seeded fault: the helper does not count as the last node.
EndLoopLate(down) ==
    pool' = [pool EXCEPT
        !.shutting_down = down,
        !.at = IF pool.remaining = 0 /\ pool.shutting_down THEN "returned"
               ELSE "dequeue"]

\* The end of an iteration of run_loop.
EndLoop(down) ==
    pool' = [pool EXCEPT
        !.shutting_down = down,
        !.at = IF pool.remaining = 0 /\ down THEN "returned" ELSE "dequeue"]

Join ==
    /\ pool.at = "join" /\ pc[pool.node] = "done"
    /\ EndLoop(pool.shutting_down)
    /\ UNCHANGED <<actors, threads, count, main>>

StopHelper ==
    /\ pool.at = "stop" /\ pool.node = Helper
    /\ EndLoop(TRUE)
    /\ UNCHANGED <<actors, threads, count, main>>

Loop == Dequeue \/ StopThread \/ Join \/ StopHelper
-----------------------------------------------------------------------------
(* The actor system.                                                        *)

\* launch of a blocking actor: acquire, inc_running, resume of the thread.
LaunchBlocking(a) ==
    /\ a \in Blocking /\ job' = [job EXCEPT ![a] = TRUE]
    /\ UNCHANGED inbox

\* launch of an event-based actor, which may be lazy.
LaunchEvented(a) ==
    /\ a \in Evented
    /\ \/ job' = [job EXCEPT ![a] = TRUE] /\ UNCHANGED inbox
       \/ inbox' = [inbox EXCEPT ![a] = "blocked"] /\ UNCHANGED job

\* The code of p that may spawn: what act or a handler calls, and on_exit, which
\* a blocking actor runs before it gives back its thread, the others after it.
Spawns(p) == pc[p] \in {"receive", "cleanup", "run"} \/ p \in exiting

\* The main thread launches an actor, or another actor does, at any time.
Launch(a) ==
    /\ pc[a] = "none"
    /\ \/ main = "spawn" /\ a \in Roots /\ UNCHANGED late
       \/ \E p \in Actor :
             /\ Spawns(p)
             /\ late' = IF p \in exiting \cup late THEN late \cup {a} ELSE late
    /\ LaunchBlocking(a) \/ LaunchEvented(a)
    /\ Acquire
    /\ count' = count + Counted(a)
    /\ Goto(a, "await")
    /\ UNCHANGED <<queue, stash, waking, leaving, exiting, sent, shutdown, main>>

\* The destructor starts: await_running_count_equal(0).
Destruct ==
    /\ main = "spawn" /\ \A a \in Roots : pc[a] # "none"
    /\ main' = "wait"
    /\ UNCHANGED <<actors, threads, pool, count>>

\* private_thread_pool::stop: add the helper.
StopPool ==
    /\ main = "wait" /\ count = 0
    /\ main' = "stop"
    /\ pool' = [pool EXCEPT !.running = @ + 1, !.head = <<Helper>> \o @]
    /\ UNCHANGED <<actors, threads, count>>

JoinPool ==
    /\ main = "stop" /\ pool.at = "returned"
    /\ main' = "end"
    /\ UNCHANGED <<actors, threads, pool, count>>
-----------------------------------------------------------------------------
(* Messages.                                                                *)

\* Seeded fault: every sender wakes the reader.
SendAndWake(a) ==
    /\ pc[a] # "none" /\ inbox[a] # "closed" /\ sent < MaxSend
    /\ sent' = sent + 1
    /\ queue' = [queue EXCEPT ![a] = @ + 1]
    /\ inbox' = [inbox EXCEPT ![a] = "open"]
    /\ waking' = waking \cup {a}
    /\ UNCHANGED <<stash, leaving, heirs, threads, pool, count, main>>

\* enqueue: the sender that unblocks the reader wakes it afterwards.
Send(a) ==
    /\ pc[a] # "none" /\ inbox[a] # "closed" /\ sent < MaxSend
    /\ sent' = sent + 1
    /\ queue' = [queue EXCEPT ![a] = @ + 1]
    /\ inbox' = [inbox EXCEPT ![a] = "open"]
    /\ waking' = IF inbox[a] = "blocked" THEN waking \cup {a} ELSE waking
    /\ UNCHANGED <<stash, leaving, heirs, threads, pool, count, main>>

\* Seeded fault: the sender does not notify a blocking actor.
WakeEvented(a) ==
    /\ a \in waking
    /\ waking' = waking \ {a}
    /\ job' = [job EXCEPT ![a] = a \in Evented]
    /\ UNCHANGED <<queue, stash, inbox, leaving, heirs, sent, pc, shutdown, pool,
                   count, main>>

\* cv_.notify_one, or private_thread::resume.
Wake(a) ==
    /\ a \in waking
    /\ waking' = waking \ {a}
    /\ IF a \in Evented THEN job' = [job EXCEPT ![a] = TRUE] /\ UNCHANGED pc
       ELSE /\ UNCHANGED job
            /\ IF pc[a] = "asleep" THEN Goto(a, "wait") ELSE UNCHANGED pc
    /\ UNCHANGED <<queue, stash, inbox, leaving, heirs, sent, shutdown, pool, count,
                   main>>

\* close_mailbox.
Close(a) ==
    /\ queue' = [queue EXCEPT ![a] = 0]
    /\ stash' = [stash EXCEPT ![a] = 0]
    /\ inbox' = [inbox EXCEPT ![a] = "closed"]
-----------------------------------------------------------------------------
(* private_thread::run.                                                     *)

\* await: take the job, or leave.
Await(a) ==
    /\ pc[a] = "await" /\ (job[a] \/ shutdown[a])
    /\ Goto(a, IF ~job[a] THEN "done"
               ELSE IF a \in Blocking THEN "receive" ELSE "run")
    /\ job' = [job EXCEPT ![a] = FALSE]
    /\ UNCHANGED <<actors, shutdown, pool, count, main>>

\* scheduled_actor::resume consumes a message; the actor may quit.
Consume(a) ==
    /\ pc[a] = "run" /\ queue[a] > 0
    /\ queue' = [queue EXCEPT ![a] = @ - 1]
    /\ \E l \in {"run", "unregister"} : Goto(a, l)
    /\ UNCHANGED <<stash, inbox, waking, leaving, heirs, sent, job, shutdown, pool,
                   count, main>>

Block(a) ==
    /\ pc[a] = "run" /\ queue[a] = 0
    /\ inbox' = [inbox EXCEPT ![a] = "blocked"]
    /\ Goto(a, "await")
    /\ UNCHANGED <<queue, stash, waking, leaving, heirs, sent, job, shutdown, pool,
                   count, main>>

\* cleanup, with scheduled_actor::on_cleanup: four steps.
Unregister(a) ==
    /\ pc[a] = "unregister"
    /\ count' = count - Counted(a)
    /\ Goto(a, "give_back")
    /\ UNCHANGED <<actors, job, shutdown, pool, main>>

GiveBack(a) ==
    /\ pc[a] = "give_back"
    /\ Release(a)
    /\ Goto(a, "close")
    /\ UNCHANGED <<actors, job, shutdown, count, main>>

CloseEvented(a) ==
    /\ pc[a] = "close"
    /\ Close(a)
    /\ exiting' = exiting \cup {a}
    /\ Goto(a, "on_exit")
    /\ UNCHANGED <<waking, leaving, late, sent, job, shutdown, pool, count, main>>

\* on_exit returns.
OnExit(a) ==
    /\ a \in exiting
    /\ exiting' = exiting \ {a}
    /\ IF pc[a] = "on_exit" THEN Goto(a, "await") ELSE UNCHANGED pc
    /\ UNCHANGED <<queue, stash, inbox, waking, leaving, late, sent, job, shutdown,
                   pool, count, main>>

\* The last reference to an idle actor is gone. The thread that held it
\* closes the mailbox and runs cleanup.
Unreachable(a) ==
    /\ a \in Evented /\ inbox[a] = "blocked"
    /\ Close(a)
    /\ count' = count - Counted(a)
    /\ leaving' = leaving \cup {a}
    /\ UNCHANGED <<waking, heirs, sent, threads, pool, main>>

GiveBackUnreachable(a) ==
    /\ a \in leaving
    /\ leaving' = leaving \ {a}
    /\ exiting' = exiting \cup {a}
    /\ Release(a)
    /\ UNCHANGED <<queue, stash, inbox, waking, late, sent, threads, count, main>>
-----------------------------------------------------------------------------
(* blocking_actor: act calls receive, or await_all_other_actors_done, until *)
(* it returns.                                                              *)

Act(a) == \E l \in {"receive", "cleanup"}
                     \cup (IF a \in Awaiting THEN {"others"} ELSE {}) : Goto(a, l)

\* unstash: the stash goes back to the mailbox.
Unstash(a) ==
    /\ queue' = [queue EXCEPT ![a] = @ + stash[a]]
    /\ stash' = [stash EXCEPT ![a] = 0]

\* receive_impl and await_data: is there a message?
TryBlock(a) ==
    /\ pc[a] = "receive"
    /\ IF queue[a] > 0 THEN Goto(a, "pop") /\ UNCHANGED inbox
       ELSE Goto(a, "wait") /\ inbox' = [inbox EXCEPT ![a] = "blocked"]
    /\ UNCHANGED <<queue, stash, waking, leaving, heirs, sent, job, shutdown, pool,
                   count, main>>

\* Seeded fault: every wakeup counts as a message.
CheckBlockedOnce(a) ==
    /\ pc[a] = "wait"
    /\ \E l \in {"asleep", "pop"} : Goto(a, l)
    /\ UNCHANGED <<actors, job, shutdown, pool, count, main>>

\* With the mutex: look at the mailbox and wait for the condition variable.
CheckBlocked(a) ==
    /\ pc[a] = "wait"
    /\ Goto(a, IF inbox[a] = "blocked" THEN "asleep" ELSE "pop")
    /\ UNCHANGED <<actors, job, shutdown, pool, count, main>>

\* The wait ends without a notification.
Spurious(a) ==
    /\ pc[a] = "asleep"
    /\ Goto(a, "wait")
    /\ UNCHANGED <<actors, job, shutdown, pool, count, main>>

\* wait_until times out. try_unblock fails when a message has come. Otherwise
\* the loop goes on, or receive returns; the next one starts with unstash,
\* which only this actor can tell from an unstash at the end of this one.
TimeOut(a) ==
    /\ pc[a] = "asleep"
    /\ \/ /\ inbox[a] # "blocked"
          /\ Goto(a, "pop")
          /\ UNCHANGED <<queue, stash, inbox>>
       \/ /\ inbox[a] = "blocked"
          /\ inbox' = [inbox EXCEPT ![a] = "open"]
          /\ \/ Goto(a, "receive") /\ UNCHANGED <<queue, stash>>
             \/ Unstash(a) /\ Act(a)
    /\ UNCHANGED <<waking, leaving, heirs, sent, job, shutdown, pool, count, main>>

\* pop_front; the message is consumed, which ends the skipping of others,
\* or skipped.
Pop(a) ==
    /\ pc[a] = "pop" /\ queue[a] > 0
    /\ \/ /\ queue' = [queue EXCEPT ![a] = @ - 1 + stash[a]]
          /\ stash' = [stash EXCEPT ![a] = 0]
          /\ Act(a)
       \/ /\ queue' = [queue EXCEPT ![a] = @ - 1]
          /\ stash' = [stash EXCEPT ![a] = @ + 1]
          /\ Goto(a, "receive")
    /\ UNCHANGED <<inbox, waking, leaving, heirs, sent, job, shutdown, pool, count,
                   main>>

\* await_all_other_actors_done: launch does not set is_registered_flag, and
\* the count to wait for is 0.
AwaitOthers(a) ==
    /\ pc[a] = "others" /\ count = 0
    /\ Act(a)
    /\ UNCHANGED <<actors, job, shutdown, pool, count, main>>

\* Seeded fault: the count drops before the release of the thread.
CleanupAndDec(a) ==
    /\ pc[a] = "cleanup"
    /\ Close(a)
    /\ count' = count - Counted(a)
    /\ Goto(a, "release")
    /\ UNCHANGED <<waking, leaving, heirs, sent, job, shutdown, pool, main>>

\* blocking_actor_runner::resume after act.
Cleanup(a) ==
    /\ pc[a] = "cleanup"
    /\ Close(a)
    /\ Goto(a, "release")
    /\ UNCHANGED <<waking, leaving, heirs, sent, job, shutdown, pool, count, main>>

ReleaseThread(a) ==
    /\ pc[a] = "release"
    /\ Release(a)
    /\ Goto(a, "dec_running")
    /\ UNCHANGED <<actors, job, shutdown, count, main>>

DecRunning(a) ==
    /\ pc[a] = "dec_running"
    /\ count' = count - Counted(a)
    /\ Goto(a, "await")
    /\ UNCHANGED <<actors, job, shutdown, pool, main>>
-----------------------------------------------------------------------------
Step(a) ==
    \/ Await(a) \/ Consume(a) \/ Block(a) \/ Unregister(a) \/ GiveBack(a)
    \/ CloseEvented(a) \/ OnExit(a) \/ GiveBackUnreachable(a)
    \/ TryBlock(a) \/ CheckBlocked(a) \/ Pop(a) \/ AwaitOthers(a)
    \/ Cleanup(a) \/ ReleaseThread(a) \/ DecRunning(a)

Next ==
    \/ \E a \in Actor : \/ Launch(a) \/ Send(a) \/ Wake(a) \/ Step(a)
                        \/ Spurious(a) \/ TimeOut(a) \/ Unreachable(a)
    \/ Destruct \/ StopPool \/ JoinPool
    \/ Loop

\* Threads run; nobody has to send, to time out or to drop a reference.
Fairness ==
    /\ \A a \in Actor : WF_vars(Step(a) \/ Wake(a))
    /\ WF_vars(Loop)
    /\ WF_vars(Destruct \/ StopPool \/ JoinPool)

Spec == Init /\ [][Next]_vars /\ Fairness
-----------------------------------------------------------------------------
(* Properties.                                                              *)

\* private_thread::resume finds job_ empty, and never reaches a thread that
\* was told to stop: nothing waits in job_ while a sender may still set it.
JobSlotFree ==
    \A a \in Evented :
        (a \in waking \/ inbox[a] = "blocked") => ~job[a] /\ ~shutdown[a]

\* receive_impl does not check what pop_front returns: whatever ended the
\* wait in await_data, a message, a spurious wakeup or a timeout that lost
\* the race with a sender, there is a message.
PopFindsMessage == \A a \in Actor : pc[a] = "pop" => queue[a] > 0

\* When the loop of the pool has returned, every private thread has, although
\* actors go on spawning others while the system waits and stops.  There is one
\* proviso: on_exit of an event-based actor, which runs after the release of its
\* thread, may launch an actor when the loop has read the last count already.
ThreadsJoined ==
    pool.at = "returned" => \A a \in Actor \ late : pc[a] \in {"none", "done"}

\* A blocking actor counts as running until the pool has its thread (the
\* change log: they "release their private thread before decrementing the
\* running-actors count").
CountCoversThreads ==
    (main # "spawn" /\ count = 0) =>
        \A a \in Blocking \ Hidden :
            \/ pc[a] = "none"
            \/ \E i \in DOMAIN pool.head : pool.head[i] = a
            \/ pool.at \in {"stop", "join"} /\ pool.node = a
            \/ shutdown[a]

\* No wakeup is lost: again and again each mailbox is empty, but for that of
\* an actor that waits for others to terminate.
MailboxesRunEmpty ==
    \A a \in Actor : []<>(queue[a] = 0 \/ pc[a] = "others")

\* The destructor of the actor system ends when all actors have terminated, also
\* those that were launched while it waited or stopped the pool.
ShutdownEnds ==
    []<>(main # "spawn" /\ (\A a \in Actor : pc[a] = "none" \/ inbox[a] = "closed")
            => main = "end")

\* "Blocks this actor until all other actors are done" (blocking_actor.hpp):
\* await_all_other_actors_done returns when they are.
AwaitOthersReturns ==
    []<>(\A a \in Awaiting : (\A o \in Actor \ {a} : inbox[o] = "closed")
                                => pc[a] # "others")
=============================================================================
