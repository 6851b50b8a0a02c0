# A TLA+ model of the actor framework

This directory holds TLA+ specifications of the concurrent core of the C++
Actor Framework (CAF) fork in `src/`, TLC configurations that check them on
small instances, and TLAPS proofs of the main safety invariants for every
instance. `PROJECT.json` maps each definition to the lines it models.

## The system

An **actor** owns a **mailbox**. Any thread may push a message; the actor alone
takes messages out. When an actor finds its mailbox empty it *blocks* it, by one
compare-exchange, and gives its thread back. The push that finds the mailbox
blocked is told so (`unblocked_reader`) and must make the actor run again: it
adds a reference and hands the actor to the **scheduler** as a `resumable`. A
worker of the scheduler calls `resume`, which handles a bounded number of
messages and returns `resume_later`, `awaiting_message` or `done`. There are two
schedulers, **work stealing** (the default) and **work sharing**. Actors that
must not share a thread run on **private threads**; **blocking actors** wait on
a condition variable. Around this core are reference counting, links and
monitors, requests with timeouts, data flows, the network layers and, in this
fork, `libcaf_cuda` with a scheduler actor and stream pools per GPU.

## Modules

| Module | Models | Role |
| --- | --- | --- |
| `Mailbox` | `lifo_inbox.hpp`, `default_mailbox.cpp`, the stash of actors | component |
| `FifoMailbox` | what a mailbox promises | abstract specification |
| `MailboxProperties` | uniqueness, liveness, refinement | properties |
| `MailboxProofs` | type correctness, hand-over | proofs |
| `WorkStealing` | `scheduler.cpp` (work_stealing), `double_ended_queue.hpp`, `cleanup_and_release.cpp` | component |
| `WorkSharing` | `scheduler.cpp` (work_sharing), `cleanup_and_release.cpp` | component with its properties |
| `JobPool` | what a scheduler promises | abstract specification of both |
| `WorkStealingProperties`, `WorkStealingProofs` | | properties, proofs |
| `StreamPool`, `StreamPoolProofs` | `streampool.cpp`: `StreamPool`, `DeviceStreamTable` | component with its properties, proofs |
| `GpuScheduler`, `GpuSchedulerProofs` | `scheduler_actor.cpp`, `launch_response_token.hpp`, `manager.cpp` (spawning, shutdown) | component with its properties, proofs |
| `MemoryActor` | `memory_actor.cpp`, `mem_token.hpp` | component with its properties |
| `ScheduledActor`, `ScheduledActorProofs` | `scheduled_actor.cpp`, requests (`event_based_mail.hpp`, `response_promise.cpp`), timers (`actor_clock.cpp`, `action.hpp`) | component with its properties, proofs |
| `ActorLifetime`, `ActorLifetimeProofs` | `actor_control_block.cpp`, `abstract_actor.cpp`, `default_attachable.cpp` | component with its properties, proofs |
| `DetachedActors`, `DetachedActorsProofs` | `blocking_actor.cpp`, `private_thread.cpp`, `private_thread_pool.cpp`, the running count and the shutdown in `actor_system.cpp` | composition with its properties, proofs |
| `MCStreamPool`, `MCMemoryActor` | symmetry sets and constant functions for TLC | model checking |

The modules meet in what they promise each other. `ScheduledActor` and
`ActorLifetime` take the mailbox as the FIFO queue of `FifoMailbox`, and its
blocking as the one compare-exchange that `Mailbox` shows to hand the actor
over exactly once; `JobPool` promises that a scheduled job is taken, which is
the fairness that `ScheduledActor` assumes of its workers.

`JobPool` is what both schedulers implement. A job that asked for time is in the
pool or held by one worker; it leaves this cycle only when it blocks or ends
(`Finish`), never when it yields, and only `stop()` gives up waiting jobs, after
its last worker has become idle (`Dispose`). A job that a queue drops, or that a
thief and the owner both miss, has no step in it. The pool is mapped to the
queues and to what the clean-up has taken from them, and its phases to the
program counter of `stop()`; `wanted` is the model's record of the jobs that
have been scheduled and have not stopped running (`live`).

Definitions named as *seeded faults* in their comments are not used by any
specification. Each is a plausible mistake in the definition below it; replacing
that definition by it makes the property listed in `PROJECT.json` fail.

### Mailbox

`stack_` is the one atomic pointer of the inbox: an element, or the empty,
blocked or closed tag. Each atomic access is a step: `PushLoad` (load and link),
`PushCommit` (successful compare-exchange), `PushRetry` (failed one), `FetchMore`
and `CloseInbox` (`take_head`), `TryBlock`, `TryUnblock`. Addresses are reused
once their element is deleted, so the ABA case of the compare-exchange happens.
The caches and the stash belong to the owner and are sequences. `Consume`,
`Skip` and `Drop` are the outcomes of `scheduled_actor::resume` for one message.
A message is reduced to its priority. The stash is kept per priority, because
`unstash` distributes it to the two caches again. `wakeups` counts
`unblocked_reader` results that have not yet made the owner run.

### WorkStealing

A critical section of a queue is one step; the notification that `append` sends
after unlocking is another (`Notify`). A resumable is a name: while it runs it
may schedule others (`Delay` through its worker, `Schedule` without one) and
then yields (`ResumeLater`) or stops running (`Suspend`, then `Release` of the
reference, in between which others may schedule it again). The poll strategies
are reduced to what they allow: after a timeout a worker steals or polls again.
`next_worker++` and the append that follows are one step: the index only selects
a queue. `stop()` is followed through its helper, its loop, the join and the
clean-up, with `LateClients` telling whether outside threads go on meanwhile, as
private threads do (`actor_system.cpp` stops them after the scheduler).

### WorkSharing

The same resumables and the same `stop()` over one queue. `notify_one` wakes an
arbitrary waiting worker, and `Wakeup` is a spurious one. The mutex is explicit
only where it is held across steps: `foreach_central_resumable` keeps it while
clean-up code runs. Locking it again in the same thread is undefined for
`std::mutex`; with the default mutexes of the supported platforms the thread
blocks, which is state `relock`; the job it was about to schedule (`entering`) is
then not part of the job pool.

### StreamPool

`get_stream` looks an actor up under a shared lock and, when it finds nothing,
assigns a stream under the exclusive one: two steps, between which another
thread may assign one. `acquire` is split by its three sources: the queue, a new
stream, and reuse in turn when the pool is full. `create_stream` may fail. A
stream is its position in `all_streams_`; the driver itself is external.

### GpuScheduler

One step per message handler, `schedule_work` included, since an actor handles
one message at a time. Messages that are on their way are variables: reclaims,
the steal request of a scheduler and its response, and the number of delayed
`retry_steal` messages. Delays are not measured; a delayed message arrives some
time. Any message may overtake any other, but for the list of neighbors:
`toggle_scheduler_actor` has put it into each mailbox before anyone gets a handle, so
it is handled first (`Linked`). A token is a name with a type, and a
batch from an application has two of them. The platform has any non-empty set of
devices, so that a scheduler without neighbors is covered, too.
`manager::shutdown` sends each scheduler an `exit_reason`, which is an error by the
time it is a message and makes the default error handler quit (`Quit`), some time
or other; an exit message from an application would have the same effect.
Applications may keep their handles and go on to send. What waits in the queue of
a scheduler that terminates is lost.

### MemoryActor

One step per message handler and one for the destructor of a `mem_token`. Copies
and moves of a `mem_token` pass the bytes on and leave zero behind; they are
reduced to a single owner. The release handler's check of the device number is
left out: a `mem_token` always carries a number that the request handler checked.

### ScheduledActor

One actor, its workers, the clock and a server that gets its requests. The
members of the actor are one record `self`, and a handler is an operator on it,
because a handler changes several of them in turn. `Start` is `activate`,
`Process` one message that `reactivate` consumes, with `finalize` and `unstash`,
and `SkipOrDrop` one that it does not consume; `Block` and `Renew` are the two
halves of line 277: between `try_block` and `set_receive_timeout` the actor may
run on another worker. User code may do nothing, quit, give up its behavior, set
a new idle handler or send a request and wait for it with `then` or `await`.
A timer is scheduled, then started (`FireRequest`, `FireTimer`), after which
disposing it comes too late, then delivered (`Fired`). Of the 64-bit ids of
timeouts the model keeps whether it is the current one. The server answers,
or loses a request by delegating it to an invalid handle. Requests in `Infinite`
have no timeout.

### ActorLifetime

Threads hold handles to actors; a thread inside the runtime has a stack of
calls, since releasing a reference may clean up an actor, which deletes
messages, which release references. Every atomic access to a counter and every
critical section is a step; `joined_exclusive_critical_section` locks its two
mutexes in two. `add_link` sends an exit message after it has unlocked, in the
model in the same step: the receiver's mailbox is either open or closed to it.
Weak references, which keep the memory of the control block, are not modelled.

### DetachedActors

A private thread is named after the actor that it runs. `pc` is where the
thread is: in `await`, in `resume` of an event-based actor, or in the functions
of a blocking actor (`receive_impl`, `await_data`, the end of
`blocking_actor_runner::resume`). A condition variable may wake its thread
without cause (`Spurious`), and `wait_until` may time out at any moment,
also when a sender has just unblocked the mailbox. The pool's loop dequeues,
stops and joins threads, and the thread of the actor system waits for the count
of running actors and stops the pool. Messages are alike: a mailbox is a number.

The main thread launches the actors in `Roots`, and any actor may launch others
whenever its code runs (`Spawns`), also while the destructor waits and while the
pool stops. A blocking actor runs all its code before it gives its thread back; an
event-based one gives it back first and calls `on_exit` afterwards (`exiting`).
What such an `on_exit` launches, and what that launches in turn, is recorded in
`late`.

## Runs

| Run | Result | What it shows |
| --- | --- | --- |
| `mailbox` | holds | each element in one place, exact wake-ups of which none is lost, refinement of `FifoMailbox` (order per priority) |
| `work_stealing` | holds | enough references, no lost notification, `stop()` exact and returning, refinement of `JobPool`, and queued jobs are taken unless jobs wake each other through `delay` forever |
| `work_sharing` | holds | `notify_one` never forgets a sleeper, refinement of `JobPool`, queued jobs are taken |
| `work_sharing_stop` | violated | `stop()` can block on its own mutex |
| `stream_pool` | holds | exclusive streams until the pool is full, a bounded queue, one stream per actor for racing threads |
| `gpu_scheduler` | holds | no token twice and no slot lost or doubled under stealing and terminations, no slot idle beside a token, one steal request, launch tokens leave the queues of living schedulers, a refused scheduler asks again |
| `memory_actor` | holds | memory conserved, the head of a queue waits only while it does not fit, once requests come to an end, those in front of any that exceed their device are granted |
| `scheduled_actor` | holds | every request answered once and in order; a sleeping actor has its timer |
| `scheduled_actor_live` | holds | requests with a timeout are concluded although the server may lose them, and requests of others answered, unless the actor awaits a request without a timeout forever |
| `actor_lifetime` | holds | one destruction, after the cleanup and without references; nothing left over; mutual links; observers told; no standoff of the two mutexes |
| `detached_actors` | holds | one job per private thread, a message after every wait, all threads joined before the system ends (but those of `late`), the count covers the threads, no lost wake-up, the shutdown ends |
| `detached_await` | violated | a spawned blocking actor waits for itself in `await_all_other_actors_done()` |

The violated properties quote a line of the documentation or a comment;
`findings` in `PROJECT.json` has the quotation and the line of the code. Other
behaviors worth a discussion are in the models and have no run:

- an urgent message that arrives while regular ones are cached is handled after
  them (`default_mailbox.cpp:42`), though the manual
  (`core/MessagePassing.rst:49`) says that the receiver processes it before
  regular messages;
- a request bounced while the work-stealing scheduler stops can be scheduled
  into a queue that was drained already (`scheduler.cpp:350`), though the
  comment above says that each resumable is cleaned up;
- `abstract_actor::detach` removes all attachables that match, its comment
  (`abstract_actor.hpp:78`) says the first;
- jobs that wake each other through `delay` starve others on the same worker,
  references of actors woken during a clean-up are kept, a shared stream is
  queued as free, a memory token in a batch gets no answer, and a memory
  request that fits waits behind one that does not, for ever if that one exceeds
  its device;
- a detached event-based actor whose `on_exit` spawns a detached actor has given
  its thread back before (`scheduled_actor.cpp:226`), so the pool's loop may have
  read its last count: the new thread is not joined. `ThreadsJoined` without the
  exception for `late` is violated by this;
- an actor that awaits a request without a timeout, which the server loses,
  handles nothing but a kill and its idle timeout any more, not even the timeouts of
  its other requests.

**Bounds.** Mailbox: two writers race each other and the owner, and three
addresses suffice for a list of two with a third element being pushed, as well
as for reuse of an address that a writer still expects; `MaxPush` bounds the
calls. Work stealing: two workers, so that one is thief and one victim, and two
jobs of which one may wake the other. Work sharing: three workers, so that a
sleeper, a woken worker and one coming back from a job exist at once, and three
jobs. Stream pool: two threads race, and six actors over three streams reuse
each stream while others are released. GPU schedulers: two devices with two
slots each, four launch tokens and a memory token, the fewest with which a
queue is long enough to be halved while the thief is idle; tokens are numbered
in the order in which they are sent (`Sent`), which only chooses their names.
Memory actor: sizes that fit alone, together or, on the second device, not at all,
one of zero bytes and one for no device. Scheduled actor: two workers, of which one
leaves the actor while the other runs it, a throughput of two messages, two requests
of others, so that one can be skipped behind the other, one request of its own and
at most one idle timeout in the mailbox (`MaxTimeout`); the liveness run has one
request of others, and two of its own, of which one has no timeout. Lifetime: two actors and
two threads, which may all reference each other, and six operations (`MaxUse`).
Detached actors: a blocking actor, a hidden one that may wait for others, an
event-based one, and one message (`MaxSend`); the main thread launches two of them,
and one is launched by another actor at any time, during the shutdown as well. All
properties hold with two messages, too (1.4 million states, eleven minutes). Symmetry is used for the stream
pool, whose run has no liveness property. Deadlock is checked for the stream
pool only: elsewhere, a system in which nobody sends anything, or in which all
tokens, requests and operations have been used up, rests.

**Fairness.** An actor that runs goes on until it blocks, and a woken one is
resumed. For workers it is strong: `resume` returns after at most
`max_throughput` messages although it may schedule others, or find a mutex
locked, many times meanwhile. A thread that has appended to a queue goes on to
notify, and `stop()` goes on. Messages between GPU schedulers
arrive, delayed ones included, GPU tasks end, and a `mem_token` is destroyed
some day; that a GPU scheduler ever quits is not assumed. For the scheduled actor: a ready job is resumed and a worker inside
`resume` goes on (weak), the clock runs what is due, and the timeout of each
request is run some day although others fire, too (strong, as the clock
works through its actions by their time). Private threads, the pool's
loop and the thread of the actor system go on. Nothing is assumed of who sends or schedules, of
timeouts of a receive, of user code, of a server, nor that `stop()` is ever called
or a reference ever dropped.

## Proofs

All theorems hold for any number of workers, threads, jobs, actors, elements and
messages; they assume only that names are distinct, that there is at least one
worker, that pools have room for a stream and finitely many actors, and that GPU
schedulers have at least one slot.

`MailboxProofs`: `TypeCorrect` and `Handover`. Neither invariant is inductive
alone. `Inv` adds to them `Locals`: what a writer in its loop and an owner in
the middle of `fetch_more` or `close` hold in their local variables.

`WorkStealingProofs`: `TypeCorrect`, `NotificationsSuffice` and `StopIsExact`
from one invariant, since the type of `cleaning` needs that no helper is left
when the clean-up begins. Operations on a queue are reduced to what they do to
positions (`PrependFacts` and the like), and `QueueStep`, `TakeStep` and
`PutStep` cover all actions that move one entry. `VictimIsAnother` is about the
dice of `try_steal`.

`StreamPoolProofs`: `TypeCorrect`, `UsageExact`, `Exclusive`, `NothingLost`,
`Bounded` and `Stable`, for any sizes and any number of threads, from the one
invariant of `Inductive`. It adds `EntriesExact` to the properties: while the
pool can grow, queue entries and assigned actors together are as many as the
streams, without which the bound on the queue is not inductive.

`GpuSchedulerProofs`: `StealProtocol` (at most one steal request, exact
`awaiting_steal_`, a retry behind every back-off), and from it
`BackoffNeverGrows`: a response arrives only while the back-off is zero, so it
is 0, 1 or 50 in every state and the code that doubles it never runs.

`ScheduledActorProofs`: `SleepIsTimed` (`SleeperHasTimer`). A sleeping actor is
reached through states in which the timeout is neither pending nor fired but in
the mailbox, and in which a worker that has left the actor still has to renew
it. The invariant `IInv` therefore says that, whenever nobody is leaving and no
message was consumed in this call of `resume`, a timer that is set is *armed*:
pending, firing, or its current message is in the mailbox; and that an idle
actor has an empty mailbox, so that only the first two remain. The lemmas
before it show, one per operator, that a step keeps the record `self` and the
clock well-formed.

`ActorLifetimeProofs`: `LinkingIsFree` (`NoStandoff`). `IInv` says that a thread
is in a joined critical section only as its outermost call, and that a mutex is
held only by a thread whose first mutex it is, the lower address of its pair.
Two threads that wait for each other's mutex would need each to be lower.

`DetachedActorsProofs`: `PopIsSafe` (`PopFindsMessage`) and `ResumeIsSafe`
(`JobSlotFree`). The invariant has two parts: a blocking actor that waits has a
blocked mailbox or a message in it (`WaitsRightly`), and the right to run an
event-based actor is in one place, its blocked mailbox, the sender that
unblocked it, the job slot or the thread (`OneRight`), which is given up
before the pool gets the thread.

Left to TLC: liveness and the refinements; the slots and tokens of
`GpuScheduler`; `WorkSharing`, `MemoryActor`; the counts of `ActorLifetime`
(`DestroyedLast`, `NoLeak`), of `DetachedActors` (`ThreadsJoined`,
`CountCoversThreads`) and of references (`RefsCover`), which are sums over all
threads or actors; and properties that count in or compare sequences
(`EveryElementOnce`, `EachMessageOnce`, `NotesInOrder`), which need induction.

## Not modelled

- Of a scheduled actor: data flows, streams and delayed actions it hosts, the
  legacy timeout of a behavior, and the choice of a handler by the types of a
  message. Two workers that call `set_receive_timeout` at the same time race for
  the members of `timeout_state_` without synchronization; the model
  interleaves the calls as a whole and not their torn accesses.
- Weak references and the memory of control blocks; scoped actors; the registry's
  tables of names; the failure to start a private thread.
- The cuBLAS and cuSPARSE handle pools, which repeat the stream pool without a
  caller that returns a handle, and the calls into the CUDA driver.
- `spsc_buffer` and the flow operators: a queue under one mutex, and code that
  runs inside one actor.
- BASP, the I/O middleman and the network library: a distributed system of its
  own on top of the operating system's sockets. BASP's `message_queue`, which
  restores an order, is the part that would be a module here.
- The actor pool (deprecated), serialization, configuration, JSON, telemetry,
  logging, TLS and the test library, which convert or output data and have no
  protocol of their own.
