---------------------- MODULE WorkStealingProperties ----------------------
(* What the work-stealing scheduler promises to those that schedule, and   *)
(* what its documentation says of it.                                      *)
EXTENDS WorkStealing, FiniteSets

\* A worker goes on with its loop and a wait ends at its timeout.  A job returns
\* from resume after at most max_throughput messages, however often it schedules
\* others meanwhile: strong fairness.  A thread that has appended to a queue
\* notifies, and stop() goes on.  Nothing is assumed of who schedules what, nor
\* that anybody ever stops the scheduler.
Fairness ==
    /\ \A w \in Worker : SF_vars(Run(w))
    /\ \A t \in Thread : WF_vars(Notify(t))
    /\ WF_vars(StopStep)

FairSpec == Spec /\ Fairness

InQueues(j) ==
    {<<w, i>> \in Worker \X (1 .. Cardinality(Job) + 1) :
        i <= Len(queue[w]) /\ queue[w][i] = j}
Runners(j) == {w \in Worker : wpc[w] = "resume" /\ wjob[w] = j}
Releasing(j) == {w \in Worker : wpc[w] = "release" /\ wjob[w] = j}
InCleanup(j) ==
    {i \in 1 .. Len(resumables) : resumables[i] = j}
      \cup (IF cleaning = j THEN {0} ELSE {})

Places(j) ==
    Cardinality(InQueues(j)) + Cardinality(Runners(j)) + Cardinality(InCleanup(j))

\* The scheduler never drops a reference it still needs: each queue entry, each
\* running job and each job about to be released has one of its own.
RefsCover == \A j \in Job : refs[j] >= Places(j) + Cardinality(Releasing(j))

Pool == INSTANCE JobPool WITH
    wanted <- live,
    pool   <- {j \in Job : InQueues(j) \cup InCleanup(j) # {}},
    held   <- [w \in Worker |->
                IF wpc[w] = "resume" /\ wjob[w] # Helper THEN wjob[w] ELSE None],
    phase  <- CASE mpc = "run" -> "running"
                [] mpc = "stopped" -> "stopped"
                [] OTHER -> "stopping"

\* The scheduler implements a pool that never loses a job: whatever is scheduled,
\* delayed, stolen or asks for more time is in one queue or run by one worker,
\* until the job itself blocks or ends.  Only stop() cleans up a waiting job, when
\* every worker has left, and no worker has a job once stop() has returned.
ImplementsJobPool == Pool!Spec

\* A running job wakes another one through worker::delay.
DelaySteps == \E w \in Worker, j \in Job : Delay(w, j)

\* A call of stop() returns, whoever steals its helper, provided that jobs do not
\* go on waking each other through worker::delay forever.
StopReturns ==
    <>[][~DelaySteps]_vars => (mpc = "send" ~> mpc = "stopped")

\* Under the same proviso, every job that waits in a queue is taken by a worker
\* or cleaned up by stop(): work stealing and sleeping workers starve no one.
EveryJobTaken ==
    <>[][~DelaySteps]_vars =>
        \A j \in Job : InQueues(j) # {} ~> InQueues(j) = {} \/ mpc = "stopped"
=============================================================================
