------------------------------- MODULE JobPool -------------------------------
(* What a scheduler promises, whatever its policy: a resumable that asked  *)
(* for time waits in the pool or is held by one worker until it blocks or  *)
(* terminates.  Only stop() gives up a waiting job, after the last worker  *)
(* has left its loop, and no job runs once stop() has returned.            *)
CONSTANTS Job, Worker, None

VARIABLES
    wanted,    \* the jobs that asked for time and neither blocked nor ended
    pool,      \* the jobs that wait for a worker
    held,      \* the job each worker runs
    phase      \* the progress of stop()

vars == <<wanted, pool, held, phase>>

Init ==
    /\ wanted = {}
    /\ pool = {}
    /\ held = [w \in Worker |-> None]
    /\ phase = "running"

Idle == \A w \in Worker : held[w] = None

Schedule(j) ==
    /\ j \notin wanted
    /\ wanted' = wanted \cup {j}
    /\ pool' = pool \cup {j}
    /\ UNCHANGED <<held, phase>>

Take(w, j) ==
    /\ phase # "stopped"
    /\ held[w] = None
    /\ j \in pool
    /\ pool' = pool \ {j}
    /\ held' = [held EXCEPT ![w] = j]
    /\ UNCHANGED <<wanted, phase>>

\* The job returned resume_later: it still wants time, and waits for it.
Yield(w) ==
    /\ held[w] # None
    /\ pool' = pool \cup {held[w]}
    /\ held' = [held EXCEPT ![w] = None]
    /\ UNCHANGED <<wanted, phase>>

\* The job blocked or terminated.
Finish(w) ==
    /\ held[w] # None
    /\ wanted' = wanted \ {held[w]}
    /\ held' = [held EXCEPT ![w] = None]
    /\ UNCHANGED <<pool, phase>>

BeginStop ==
    /\ phase = "running"
    /\ phase' = "stopping"
    /\ UNCHANGED <<wanted, pool, held>>

\* stop() cleans up a job that no worker will take any more.
Dispose(j) ==
    /\ phase = "stopping"
    /\ Idle
    /\ j \in pool
    /\ wanted' = wanted \ {j}
    /\ pool' = pool \ {j}
    /\ UNCHANGED <<held, phase>>

EndStop ==
    /\ phase = "stopping"
    /\ Idle
    /\ phase' = "stopped"
    /\ UNCHANGED <<wanted, pool, held>>

Next ==
    \/ \E j \in Job : Schedule(j) \/ Dispose(j) \/ \E w \in Worker : Take(w, j)
    \/ \E w \in Worker : Yield(w) \/ Finish(w)
    \/ BeginStop \/ EndStop

Spec == Init /\ [][Next]_vars
=============================================================================
