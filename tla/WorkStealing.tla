---------------------------- MODULE WorkStealing ----------------------------
(* The work-stealing scheduler: its workers with their double-ended        *)
(* queues, the threads that schedule resumables, and stop().               *)
(*                                                                         *)
(* A critical section of a queue is one step; the notification that append *)
(* sends after unlocking is a step of its own.  A resumable is a name: what *)
(* it does while it runs is to schedule others and to return one of the    *)
(* results of resumable::resume.                                           *)
EXTENDS Integers, Sequences

CONSTANTS
    NumWorkers,   \* caf.scheduler.max-threads
    Job,          \* the resumables (their addresses)
    Client,       \* threads that are not controlled by the scheduler
    LateClients,  \* do these threads go on while stop() runs?
    Main,         \* the thread that calls stop()
    Helper,       \* the shutdown_helper of stop()
    None          \* nullptr

Worker == 0 .. NumWorkers - 1
Thread == Worker \cup Client \cup {Main}

ASSUME WorkersAssumption == NumWorkers \in Nat \ {0}
ASSUME NamesAssumption ==
    /\ None \notin Job \cup Worker \cup {Helper}
    /\ Helper \notin Job
    /\ Main \notin Worker \cup Client
    /\ Client \cap Worker = {}

VARIABLES
    queue,          \* worker_data::queue of each worker
    next_worker,    \* scheduler_impl::next_worker, modulo NumWorkers
    wpc, wjob,      \* a worker's place in its loop and its current job
    notify,         \* the queue a thread is about to notify, or None
    live,           \* resumables that wait in a queue or run: an actor is
                    \* scheduled only after it has blocked its mailbox
    dead,           \* resumables that are done: their mailbox is closed
    refs,           \* references the scheduler holds to each resumable
    mpc,            \* the progress of stop()
    alive_workers, last_worker,    \* locals of stop(), member of the helper
    cleaning, cleanIdx,            \* its clean-up loop over the queues
    resumables      \* dummy_scheduler::resumables of cleanup_and_release

workerVars == <<wpc, wjob>>
stopVars == <<mpc, alive_workers, last_worker, cleaning, cleanIdx, resumables>>
vars == <<queue, next_worker, workerVars, notify, live, dead, refs, stopVars>>

TypeOK ==
    /\ queue \in [Worker -> Seq(Job \cup {Helper})]
    /\ next_worker \in Worker
    /\ wpc \in [Worker -> {"poll", "wait", "steal", "resume", "release", "exit"}]
    /\ wjob \in [Worker -> Job \cup {Helper, None}]
    /\ notify \in [Thread -> Worker \cup {None}]
    /\ live \in SUBSET Job
    /\ dead \in SUBSET Job
    /\ refs \in [Job -> Int]
    /\ mpc \in {"run", "send", "wait", "join", "cleanup", "stopped"}
    /\ alive_workers \in SUBSET Worker
    /\ last_worker \in Worker \cup {None}
    /\ cleaning \in Job \cup {None}
    /\ cleanIdx \in Worker
    /\ resumables \in Seq(Job)

Init ==
    /\ queue = [w \in Worker |-> <<>>]
    /\ next_worker = 0
    /\ wpc = [w \in Worker |-> "poll"]
    /\ wjob = [w \in Worker |-> None]
    /\ notify = [t \in Thread |-> None]
    /\ live = {}
    /\ dead = {}
    /\ refs = [j \in Job |-> 0]
    /\ mpc = "run"
    /\ alive_workers = {}
    /\ last_worker = None
    /\ cleaning = None
    /\ cleanIdx = 0
    /\ resumables = <<>>
-----------------------------------------------------------------------------
(* double_ended_queue.                                                      *)

Prepend(w, job) == queue' = [queue EXCEPT ![w] = <<job>> \o @]

UnsafeAppend(w, job) == queue' = [queue EXCEPT ![w] = @ \o <<job>>]

\* Seeded fault: do_notify is computed after the push.
AppendLateTest(t, w, job) ==
    /\ UnsafeAppend(w, job)
    /\ notify' = notify

\* append up to its notification, which only follows if the queue was empty.
Append1(t, w, job) ==
    /\ UnsafeAppend(w, job)
    /\ notify' = [notify EXCEPT ![t] = IF queue[w] = <<>> THEN w ELSE None]

\* cv_.notify_one(): only the owner of a queue ever waits on it.
Notify(t) ==
    /\ notify[t] # None
    /\ notify' = [notify EXCEPT ![t] = None]
    /\ wpc' = [wpc EXCEPT ![notify[t]] = IF @ = "wait" THEN "poll" ELSE @]
    /\ UNCHANGED <<queue, next_worker, wjob, live, dead, refs, stopVars>>

PopHead(w) == queue' = [queue EXCEPT ![w] = Tail(@)]
PopTail(w) == queue' = [queue EXCEPT ![w] = SubSeq(@, 1, Len(@) - 1)]
-----------------------------------------------------------------------------
(* Scheduling a resumable.                                                  *)

\* The caller adds a reference for the scheduler: intrusive_ptr_add_ref in
\* scheduled_actor::enqueue.  The mailbox returns unblocked_reader only once
\* for an actor that waits, and never for one that is done.
Acquire(job) ==
    /\ job \notin live \cup dead
    /\ live' = live \cup {job}
    /\ refs' = [refs EXCEPT ![job] = @ + 1]

\* scheduler_impl::schedule, by an outside thread, by a worker whose job sends
\* without an execution unit, and by stop() while it cleans up an actor that
\* has unanswered requests: sync_request_bouncer passes no execution unit.
Calls(t) ==
    /\ notify[t] = None
    /\ \/ t \in Client /\ (mpc = "run" \/ LateClients)
       \/ t \in Worker /\ wpc[t] = "resume" /\ wjob[t] \in Job
       \/ t = Main /\ cleaning # None

Schedule(t, job) ==
    /\ Calls(t)
    /\ Acquire(job)
    /\ Append1(t, next_worker, job)
    /\ next_worker' = (next_worker + 1) % NumWorkers
    /\ UNCHANGED <<workerVars, dead, stopVars>>

\* worker::delay: a job sends a message to an actor that waits, or spawns one.
Delay(w, job) ==
    /\ wpc[w] = "resume"
    /\ wjob[w] \in Job
    /\ notify[w] = None
    /\ Acquire(job)
    /\ Prepend(w, job)
    /\ UNCHANGED <<next_worker, workerVars, notify, dead, stopVars>>
-----------------------------------------------------------------------------
(* worker::run and policy_dequeue.                                          *)

\* The worker has got a job and calls its resume.
Got(w, job) ==
    /\ wpc' = [wpc EXCEPT ![w] = "resume"]
    /\ wjob' = [wjob EXCEPT ![w] = job]

\* try_take_head with a timeout: take the first job or wait.
Poll(w) ==
    /\ wpc[w] = "poll"
    /\ \/ /\ queue[w] # <<>>
          /\ Got(w, Head(queue[w]))
          /\ PopHead(w)
       \/ /\ queue[w] = <<>>
          /\ wpc' = [wpc EXCEPT ![w] = "wait"]
          /\ UNCHANGED <<queue, wjob>>
    /\ UNCHANGED <<next_worker, notify, live, dead, refs, stopVars>>

\* The timeout elapses: the worker may steal, or poll again if its strategy
\* does not steal at this attempt.
Timeout(w) ==
    /\ wpc[w] = "wait"
    /\ \E pc \in {"steal", "poll"} : wpc' = [wpc EXCEPT ![w] = pc]
    /\ UNCHANGED <<queue, next_worker, wjob, notify, live, dead, refs, stopVars>>

\* The dice of try_steal: uniform(0, NumWorkers - 2), with the thief's own
\* index replaced by that of the last worker.
Victims(w) ==
    {IF v = w THEN NumWorkers - 1 ELSE v :
        v \in {x \in Worker : x <= NumWorkers - 2}}

\* Seeded fault: the last entry of a queue is removed and not handed over.
StealLastLost(w) ==
    /\ wpc[w] = "steal"
    /\ \E v \in Victims(w) :
          \/ /\ Len(queue[v]) > 1
             /\ Got(w, queue[v][Len(queue[v])])
             /\ PopTail(v)
          \/ /\ Len(queue[v]) = 1
             /\ wpc' = [wpc EXCEPT ![w] = "poll"]
             /\ PopTail(v)
             /\ UNCHANGED wjob
    /\ UNCHANGED <<next_worker, notify, live, dead, refs, stopVars>>

Steal(w) ==
    /\ wpc[w] = "steal"
    /\ \/ \E v \in Victims(w) :
             /\ queue[v] # <<>>
             /\ Got(w, queue[v][Len(queue[v])])
             /\ PopTail(v)
       \/ /\ \E v \in Victims(w) : queue[v] = <<>>
          /\ wpc' = [wpc EXCEPT ![w] = "poll"]
          /\ UNCHANGED <<queue, wjob>>
       \/ /\ NumWorkers < 2
          /\ wpc' = [wpc EXCEPT ![w] = "poll"]
          /\ UNCHANGED <<queue, wjob>>
    /\ UNCHANGED <<next_worker, notify, live, dead, refs, stopVars>>

\* Seeded fault: the case of resume_later falls through to the release.
ResumeLaterRelease(w) ==
    /\ wpc[w] = "resume"
    /\ wjob[w] \in Job
    /\ notify[w] = None
    /\ UnsafeAppend(w, wjob[w])
    /\ refs' = [refs EXCEPT ![wjob[w]] = @ - 1]
    /\ wpc' = [wpc EXCEPT ![w] = "poll"]
    /\ wjob' = [wjob EXCEPT ![w] = None]
    /\ UNCHANGED <<next_worker, notify, live, dead, stopVars>>

\* Seeded fault: a job that wants more time goes to the front of the queue.
ResumeLaterFront(w) ==
    /\ wpc[w] = "resume"
    /\ wjob[w] \in Job
    /\ notify[w] = None
    /\ Prepend(w, wjob[w])
    /\ wpc' = [wpc EXCEPT ![w] = "poll"]
    /\ wjob' = [wjob EXCEPT ![w] = None]
    /\ UNCHANGED <<next_worker, notify, live, dead, refs, stopVars>>

\* resume returns resume_later: the job keeps its reference.
ResumeLater(w) ==
    /\ wpc[w] = "resume"
    /\ wjob[w] \in Job
    /\ notify[w] = None
    /\ UnsafeAppend(w, wjob[w])
    /\ wpc' = [wpc EXCEPT ![w] = "poll"]
    /\ wjob' = [wjob EXCEPT ![w] = None]
    /\ UNCHANGED <<next_worker, notify, live, dead, refs, stopVars>>

\* The job blocks its mailbox (awaiting_message) or terminates (done).  From
\* here on another thread can schedule a blocked job again, before this worker
\* has released its reference.
Suspend(w) ==
    /\ wpc[w] = "resume"
    /\ wjob[w] \in Job
    /\ notify[w] = None
    /\ live' = live \ {wjob[w]}
    /\ dead' \in {dead, dead \cup {wjob[w]}}
    /\ wpc' = [wpc EXCEPT ![w] = "release"]
    /\ UNCHANGED <<queue, next_worker, wjob, notify, refs, stopVars>>

\* intrusive_ptr_release(job)
Release(w) ==
    /\ wpc[w] = "release"
    /\ refs' = [refs EXCEPT ![wjob[w]] = @ - 1]
    /\ wpc' = [wpc EXCEPT ![w] = "poll"]
    /\ wjob' = [wjob EXCEPT ![w] = None]
    /\ UNCHANGED <<queue, next_worker, notify, live, dead, stopVars>>

\* Seeded fault: the helper does not report the worker.
ShutdownSilent(w) ==
    /\ wpc[w] = "resume"
    /\ wjob[w] = Helper
    /\ wpc' = [wpc EXCEPT ![w] = "exit"]
    /\ wjob' = [wjob EXCEPT ![w] = None]
    /\ UNCHANGED <<queue, next_worker, notify, live, dead, refs, stopVars>>

\* shutdown_helper::resume, which makes the worker leave its loop.
Shutdown(w) ==
    /\ wpc[w] = "resume"
    /\ wjob[w] = Helper
    /\ last_worker' = w
    /\ wpc' = [wpc EXCEPT ![w] = "exit"]
    /\ wjob' = [wjob EXCEPT ![w] = None]
    /\ UNCHANGED <<queue, next_worker, notify, live, dead, refs, mpc,
                   alive_workers, cleaning, cleanIdx, resumables>>
-----------------------------------------------------------------------------
(* scheduler_impl::stop.                                                    *)

Stop ==
    /\ mpc = "run"
    /\ mpc' = "send"
    /\ alive_workers' = Worker
    /\ UNCHANGED <<queue, next_worker, workerVars, notify, live, dead, refs,
                   last_worker, cleaning, cleanIdx, resumables>>

\* The next iteration of the loop over alive_workers.  The set is ordered by
\* address, so any of its members may be the first.
SendHelper ==
    /\ mpc = "send"
    /\ \E w \in alive_workers : Append1(Main, w, Helper)
    /\ mpc' = "wait"
    /\ UNCHANGED <<next_worker, workerVars, live, dead, refs, alive_workers,
                   last_worker, cleaning, cleanIdx, resumables>>

\* Seeded fault: the worker that was sent the helper is taken for the one that
\* ran it.
CollectAny ==
    /\ mpc = "wait"
    /\ notify[Main] = None
    /\ last_worker # None
    /\ \E w \in alive_workers : alive_workers' = alive_workers \ {w}
    /\ last_worker' = None
    /\ mpc' = "send"
    /\ UNCHANGED <<queue, next_worker, workerVars, notify, live, dead, refs,
                   cleaning, cleanIdx, resumables>>

\* The condition variable of the helper reports the worker that left.
Collect ==
    /\ mpc = "wait"
    /\ notify[Main] = None
    /\ last_worker # None
    /\ alive_workers' = alive_workers \ {last_worker}
    /\ last_worker' = None
    /\ mpc' = "send"
    /\ UNCHANGED <<queue, next_worker, workerVars, notify, live, dead, refs,
                   cleaning, cleanIdx, resumables>>

\* All helpers are back: join the threads of the workers.
Join ==
    /\ \/ mpc = "send" /\ alive_workers = {} /\ mpc' = "join"
       \/ mpc = "join" /\ (\A w \in Worker : wpc[w] = "exit") /\ mpc' = "cleanup"
    /\ UNCHANGED <<queue, next_worker, workerVars, notify, live, dead, refs,
                   alive_workers, last_worker, cleaning, cleanIdx, resumables>>

\* The clean-up loop takes the next job, goes on with the next queue, or ends.
CleanupNext ==
    /\ mpc = "cleanup"
    /\ cleaning = None
    /\ \/ /\ queue[cleanIdx] # <<>>
          /\ cleaning' = Head(queue[cleanIdx])
          /\ PopHead(cleanIdx)
          /\ UNCHANGED <<mpc, cleanIdx>>
       \/ /\ queue[cleanIdx] = <<>>
          /\ cleanIdx < NumWorkers - 1
          /\ cleanIdx' = cleanIdx + 1
          /\ UNCHANGED <<queue, mpc, cleaning>>
       \/ /\ queue[cleanIdx] = <<>>
          /\ cleanIdx = NumWorkers - 1
          /\ mpc' = "stopped"
          /\ UNCHANGED <<queue, cleaning, cleanIdx>>
    /\ UNCHANGED <<next_worker, workerVars, notify, live, dead, refs,
                   alive_workers, last_worker, resumables>>

\* cleanup_and_release: the clean-up of an actor sends exit and down messages
\* through the dummy scheduler.
CleanupDelay(job) ==
    /\ cleaning # None
    /\ notify[Main] = None
    /\ Acquire(job)
    /\ resumables' = Append(resumables, job)
    /\ UNCHANGED <<queue, next_worker, workerVars, notify, dead, mpc,
                   alive_workers, last_worker, cleaning, cleanIdx>>

\* cleanup_and_release: clean up a resumable of the dummy scheduler.
CleanupSub ==
    /\ cleaning # None
    /\ notify[Main] = None
    /\ resumables # <<>>
    /\ LET job == resumables[Len(resumables)]
       IN  live' = live \ {job} /\ dead' = dead \cup {job}
    /\ resumables' = SubSeq(resumables, 1, Len(resumables) - 1)
    /\ UNCHANGED <<queue, next_worker, workerVars, notify, refs, mpc,
                   alive_workers, last_worker, cleaning, cleanIdx>>

\* cleanup_and_release: the job is cleaned up and released.
CleanupRelease ==
    /\ cleaning # None
    /\ notify[Main] = None
    /\ resumables = <<>>
    /\ live' = live \ {cleaning}
    /\ dead' = dead \cup {cleaning}
    /\ refs' = [refs EXCEPT ![cleaning] = @ - 1]
    /\ cleaning' = None
    /\ UNCHANGED <<queue, next_worker, workerVars, notify, mpc, alive_workers,
                   last_worker, cleanIdx, resumables>>
-----------------------------------------------------------------------------
Run(w) ==
    Poll(w) \/ Timeout(w) \/ Steal(w) \/ ResumeLater(w) \/ Suspend(w)
    \/ Release(w) \/ Shutdown(w)

StopStep ==
    SendHelper \/ Collect \/ Join \/ CleanupNext \/ CleanupSub \/ CleanupRelease

Next ==
    \/ \E t \in Thread : Notify(t) \/ \E job \in Job : Schedule(t, job)
    \/ \E w \in Worker : Run(w) \/ \E job \in Job : Delay(w, job)
    \/ Stop \/ StopStep \/ \E job \in Job : CleanupDelay(job)

Spec == Init /\ [][Next]_vars
-----------------------------------------------------------------------------
\* append notifies only for an empty queue, prepend and unsafe_append never do:
\* still a worker never sleeps on a queue with jobs unless a notification for
\* it is under way.
NoLostNotification ==
    \A w \in Worker :
        wpc[w] = "wait" /\ queue[w] # <<>> => \E t \in Thread : notify[t] = w

\* stop() and its helper: the helper is in at most one place, and only while
\* stop() waits for it; stop() believes exactly those workers to be alive that
\* are, also when the helper was stolen by another worker.
StopProtocol ==
    /\ \A v, w \in Worker : \A i \in DOMAIN queue[v], k \in DOMAIN queue[w] :
          queue[v][i] = Helper /\ queue[w][k] = Helper => v = w /\ i = k
    /\ \A w \in Worker : \A i \in DOMAIN queue[w] :
          queue[w][i] = Helper => /\ mpc = "wait"
                                  /\ last_worker = None
                                  /\ \A v \in Worker : wjob[v] # Helper
    /\ \A w \in Worker :
          wjob[w] = Helper => /\ mpc = "wait"
                              /\ last_worker = None
                              /\ \A v \in Worker : wjob[v] = Helper => v = w
    /\ last_worker # None => mpc = "wait"
    /\ mpc # "run" => alive_workers \ {last_worker} = {w \in Worker : wpc[w] # "exit"}
=============================================================================
