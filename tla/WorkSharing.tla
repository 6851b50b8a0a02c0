---------------------------- MODULE WorkSharing ----------------------------
(* The work-sharing scheduler: one central queue with a mutex and a        *)
(* condition variable, its workers, and stop().                            *)
(*                                                                         *)
(* A critical section is one step, with one exception: stop() runs the     *)
(* clean-up code of each resumable while it holds the mutex.               *)
EXTENDS Integers, Sequences, FiniteSets

CONSTANTS
    Worker,       \* the workers
    Job,          \* the resumables
    Client,       \* threads that are not controlled by the scheduler
    LateClients,  \* do these threads go on while stop() runs?
    Main,         \* the thread that calls stop()
    Helper,       \* the shutdown_helper of stop()
    None          \* nullptr

Thread == Worker \cup Client \cup {Main}

ASSUME WorkersAssumption == IsFiniteSet(Worker) /\ Worker # {}
ASSUME NamesAssumption ==
    /\ None \notin Job \cup Worker \cup {Helper}
    /\ Helper \notin Job
    /\ Main \notin Worker \cup Client
    /\ Client \cap Worker = {}

VARIABLES
    queue,          \* the central queue
    wpc, wjob,      \* a worker's place in its loop and its current job
    live, dead, refs,  \* resumables that wait or run, are done, references
    mpc,            \* the progress of stop()
    alive_workers, last_worker,    \* locals of stop(), member of the helper
    cleaning,       \* the job cleanup_and_release works on
    resumables,     \* dummy_scheduler::resumables of cleanup_and_release
    entering        \* the job stop() is stuck with on its way into the queue

workerVars == <<wpc, wjob>>
jobVars == <<live, dead, refs>>
stopVars == <<mpc, alive_workers, last_worker, cleaning, resumables, entering>>
vars == <<queue, workerVars, jobVars, stopVars>>

TypeOK ==
    /\ queue \in Seq(Job \cup {Helper})
    /\ wpc \in [Worker -> {"dequeue", "wait", "resume", "release", "exit"}]
    /\ wjob \in [Worker -> Job \cup {Helper, None}]
    /\ live \in SUBSET Job
    /\ dead \in SUBSET Job
    /\ refs \in [Job -> Nat]
    /\ mpc \in {"run", "send", "wait", "join", "cleanup", "relock", "stopped"}
    /\ alive_workers \in SUBSET Worker
    /\ last_worker \in Worker \cup {None}
    /\ cleaning \in Job \cup {None}
    /\ resumables \in Seq(Job)
    /\ entering \in Job \cup {None}

Init ==
    /\ queue = <<>>
    /\ wpc = [w \in Worker |-> "dequeue"]
    /\ wjob = [w \in Worker |-> None]
    /\ live = {}
    /\ dead = {}
    /\ refs = [j \in Job |-> 0]
    /\ mpc = "run"
    /\ alive_workers = {}
    /\ last_worker = None
    /\ cleaning = None
    /\ resumables = <<>>
    /\ entering = None

\* The mutex is held across steps only by foreach_central_resumable.
Unlocked == mpc \notin {"cleanup", "relock"}

Waiting == {w \in Worker : wpc[w] = "wait"}

\* Seeded fault: notify_one is called for an empty queue only.
NotifyIfEmpty(pc) ==
    IF queue = <<>> /\ Waiting # {}
    THEN \E w \in Waiting : wpc' = [pc EXCEPT ![w] = "dequeue"]
    ELSE wpc' = pc

\* cv.notify_one(): one of the waiting workers tests its predicate again.
NotifyOne(pc) ==
    IF Waiting # {} THEN \E w \in Waiting : wpc' = [pc EXCEPT ![w] = "dequeue"]
                    ELSE wpc' = pc

\* scheduler_impl::schedule, while the workers are where pc says.
Push(job, pc) ==
    /\ Unlocked
    /\ queue' = Append(queue, job)
    /\ NotifyOne(pc)

\* The caller adds a reference for the scheduler, for an actor that waits.
Acquire(job) ==
    /\ job \notin live \cup dead
    /\ live' = live \cup {job}
    /\ refs' = [refs EXCEPT ![job] = @ + 1]

\* schedule and delay are the same: an outside thread or a running job calls.
Schedule(t, job) ==
    /\ \/ t \in Client /\ (mpc = "run" \/ LateClients)
       \/ t \in Worker /\ wpc[t] = "resume" /\ wjob[t] \in Job
    /\ Acquire(job)
    /\ Push(job, wpc)
    /\ UNCHANGED <<wjob, dead, stopVars>>
-----------------------------------------------------------------------------
(* worker::run.                                                             *)

\* dequeue: take the first job, or wait for the condition variable.
Dequeue(w) ==
    /\ wpc[w] = "dequeue"
    /\ Unlocked
    /\ \/ /\ queue # <<>>
          /\ wpc' = [wpc EXCEPT ![w] = "resume"]
          /\ wjob' = [wjob EXCEPT ![w] = Head(queue)]
          /\ queue' = Tail(queue)
       \/ /\ queue = <<>>
          /\ wpc' = [wpc EXCEPT ![w] = "wait"]
          /\ UNCHANGED <<queue, wjob>>
    /\ UNCHANGED <<jobVars, stopVars>>

\* A spurious wakeup: the worker tests the predicate of its wait again.
Wakeup(w) ==
    /\ wpc[w] = "wait"
    /\ Unlocked
    /\ wpc' = [wpc EXCEPT ![w] = "dequeue"]
    /\ UNCHANGED <<queue, wjob, jobVars, stopVars>>

\* Seeded fault: a job that wants more time goes to the front of the queue.
ResumeLaterFront(w) ==
    /\ wpc[w] = "resume"
    /\ wjob[w] \in Job
    /\ Unlocked
    /\ queue' = <<wjob[w]>> \o queue
    /\ NotifyOne([wpc EXCEPT ![w] = "dequeue"])
    /\ wjob' = [wjob EXCEPT ![w] = None]
    /\ UNCHANGED <<jobVars, stopVars>>

\* Seeded fault: a job that wants more time is not put back.
ResumeLaterLost(w) ==
    /\ wpc[w] = "resume"
    /\ wjob[w] \in Job
    /\ wpc' = [wpc EXCEPT ![w] = "dequeue"]
    /\ wjob' = [wjob EXCEPT ![w] = None]
    /\ UNCHANGED <<queue, jobVars, stopVars>>

\* resume returns resume_later: the job keeps its reference.
ResumeLater(w) ==
    /\ wpc[w] = "resume"
    /\ wjob[w] \in Job
    /\ Push(wjob[w], [wpc EXCEPT ![w] = "dequeue"])
    /\ wjob' = [wjob EXCEPT ![w] = None]
    /\ UNCHANGED <<jobVars, stopVars>>

\* The job blocks its mailbox (awaiting_message) or terminates (done): another
\* thread can schedule a blocked job before this worker has released it.
Suspend(w) ==
    /\ wpc[w] = "resume"
    /\ wjob[w] \in Job
    /\ live' = live \ {wjob[w]}
    /\ dead' \in {dead, dead \cup {wjob[w]}}
    /\ wpc' = [wpc EXCEPT ![w] = "release"]
    /\ UNCHANGED <<queue, wjob, refs, stopVars>>

\* intrusive_ptr_release(job)
Release(w) ==
    /\ wpc[w] = "release"
    /\ refs' = [refs EXCEPT ![wjob[w]] = @ - 1]
    /\ wpc' = [wpc EXCEPT ![w] = "dequeue"]
    /\ wjob' = [wjob EXCEPT ![w] = None]
    /\ UNCHANGED <<queue, live, dead, stopVars>>

\* shutdown_helper::resume, which makes the worker leave its loop.
Shutdown(w) ==
    /\ wpc[w] = "resume"
    /\ wjob[w] = Helper
    /\ last_worker' = w
    /\ wpc' = [wpc EXCEPT ![w] = "exit"]
    /\ wjob' = [wjob EXCEPT ![w] = None]
    /\ UNCHANGED <<queue, jobVars, mpc, alive_workers, cleaning, resumables,
                   entering>>
-----------------------------------------------------------------------------
(* scheduler_impl::stop.                                                    *)

Stop ==
    /\ mpc = "run"
    /\ mpc' = "send"
    /\ alive_workers' = Worker
    /\ UNCHANGED <<queue, workerVars, jobVars, last_worker, cleaning, resumables,
                   entering>>

\* The next iteration of the loop over alive_workers: worker::schedule of any
\* worker puts the helper into the central queue.
SendHelper ==
    /\ mpc = "send"
    /\ alive_workers # {}
    /\ Push(Helper, wpc)
    /\ mpc' = "wait"
    /\ UNCHANGED <<wjob, jobVars, alive_workers, last_worker, cleaning, resumables,
                   entering>>

\* The condition variable of the helper reports the worker that left.
Collect ==
    /\ mpc = "wait"
    /\ last_worker # None
    /\ alive_workers' = alive_workers \ {last_worker}
    /\ last_worker' = None
    /\ mpc' = "send"
    /\ UNCHANGED <<queue, workerVars, jobVars, cleaning, resumables, entering>>

\* All helpers are back: join the threads, then lock the mutex.
Join ==
    /\ \/ mpc = "send" /\ alive_workers = {} /\ mpc' = "join"
       \/ mpc = "join" /\ (\A w \in Worker : wpc[w] = "exit") /\ mpc' = "cleanup"
    /\ UNCHANGED <<queue, workerVars, jobVars, alive_workers, last_worker,
                   cleaning, resumables, entering>>

\* foreach_central_resumable takes the next job, or unlocks and returns.
CleanupNext ==
    /\ mpc = "cleanup"
    /\ cleaning = None
    /\ \/ /\ queue # <<>>
          /\ cleaning' = Head(queue)
          /\ queue' = Tail(queue)
          /\ UNCHANGED mpc
       \/ /\ queue = <<>>
          /\ mpc' = "stopped"
          /\ UNCHANGED <<queue, cleaning>>
    /\ UNCHANGED <<workerVars, jobVars, alive_workers, last_worker, resumables,
                   entering>>

\* cleanup_and_release: the clean-up of an actor sends exit and down messages
\* through the dummy scheduler.
CleanupDelay(job) ==
    /\ mpc = "cleanup"
    /\ cleaning # None
    /\ Acquire(job)
    /\ resumables' = Append(resumables, job)
    /\ UNCHANGED <<queue, workerVars, dead, mpc, alive_workers, last_worker,
                   cleaning, entering>>

\* cleanup_and_release: sync_request_bouncer answers a request without an
\* execution unit, which leads to scheduler_impl::schedule.  That locks a mutex
\* this thread holds already, and never returns.
CleanupBounce(job) ==
    /\ mpc = "cleanup"
    /\ cleaning # None
    /\ Acquire(job)
    /\ mpc' = "relock"
    /\ entering' = job
    /\ UNCHANGED <<queue, workerVars, dead, alive_workers, last_worker, cleaning,
                   resumables>>

\* cleanup_and_release: clean up a resumable of the dummy scheduler.
CleanupSub ==
    /\ mpc = "cleanup"
    /\ resumables # <<>>
    /\ LET job == resumables[Len(resumables)]
       IN  live' = live \ {job} /\ dead' = dead \cup {job}
    /\ resumables' = SubSeq(resumables, 1, Len(resumables) - 1)
    /\ UNCHANGED <<queue, workerVars, refs, mpc, alive_workers, last_worker,
                   cleaning, entering>>

\* cleanup_and_release: the job is cleaned up and released.
CleanupRelease ==
    /\ mpc = "cleanup"
    /\ cleaning # None
    /\ resumables = <<>>
    /\ live' = live \ {cleaning}
    /\ dead' = dead \cup {cleaning}
    /\ refs' = [refs EXCEPT ![cleaning] = @ - 1]
    /\ cleaning' = None
    /\ UNCHANGED <<queue, workerVars, mpc, alive_workers, last_worker, resumables,
                   entering>>
-----------------------------------------------------------------------------
Run(w) == Dequeue(w) \/ ResumeLater(w) \/ Suspend(w) \/ Release(w) \/ Shutdown(w)

StopStep ==
    SendHelper \/ Collect \/ Join \/ CleanupNext \/ CleanupSub \/ CleanupRelease

Next ==
    \/ \E t \in Thread, job \in Job : Schedule(t, job)
    \/ \E w \in Worker : Run(w) \/ Wakeup(w)
    \/ Stop \/ StopStep
    \/ \E job \in Job : CleanupDelay(job) \/ CleanupBounce(job)

Spec == Init /\ [][Next]_vars

\* A worker goes on with its loop and a job returns from resume, however often
\* it schedules others or finds the mutex locked meanwhile; stop() goes on.
Fairness ==
    /\ \A w \in Worker : SF_vars(Run(w))
    /\ WF_vars(StopStep)

FairSpec == Spec /\ Fairness
-----------------------------------------------------------------------------
InQueue(j) == {i \in DOMAIN queue : queue[i] = j}
InCleanup(j) ==
    {i \in DOMAIN resumables : resumables[i] = j}
      \cup (IF cleaning = j THEN {0} ELSE {})

\* notify_one suffices: while a worker sleeps, the queue never holds more jobs
\* than there are workers on their way to take one.
NoSleeperForgotten ==
    Waiting # {} => Len(queue) <= Cardinality({w \in Worker : wpc[w] = "dequeue"})

Pool == INSTANCE JobPool WITH
    wanted <- live \ {entering},
    pool   <- {j \in Job : InQueue(j) \cup InCleanup(j) # {}},
    held   <- [w \in Worker |->
                IF wpc[w] = "resume" /\ wjob[w] # Helper THEN wjob[w] ELSE None],
    phase  <- CASE mpc = "run" -> "running"
                [] mpc = "stopped" -> "stopped"
                [] OTHER -> "stopping"

\* The scheduler implements a pool that never loses a job: whatever schedule() has
\* put into the queue is there or run by one worker, also after resume_later,
\* until the job itself blocks or ends.  Only stop() cleans up a waiting job, when
\* every worker has left, and no worker has a job once stop() has returned.  A job
\* with which stop() blocks in schedule() has not been scheduled.
ImplementsJobPool == Pool!Spec

\* schedule() appends and dequeue() takes the front, so every job in the queue
\* is taken by a worker or cleaned up; not so once stop() is stuck or is over.
EveryJobTaken ==
    \A j \in Job :
        InQueue(j) # {} ~> InQueue(j) = {} \/ mpc \in {"relock", "stopped"}

\* scheduler.hpp on stop(): "Stops this scheduler and all of its workers."  A
\* call of stop() returns.
StopReturns == mpc = "send" ~> mpc = "stopped"
=============================================================================
