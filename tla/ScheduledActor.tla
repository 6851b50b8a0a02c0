--------------------------- MODULE ScheduledActor ---------------------------
(* An event-based actor: its mailbox and stash, the responses it waits     *)
(* for, its idle timeout and the end of its life, with the workers that    *)
(* resume it, the clock, and a server that receives its requests.          *)
(*                                                                         *)
(* The mailbox is the FIFO queue of module FifoMailbox; the order of       *)
(* urgent messages is the subject of module Mailbox. The members of the    *)
(* actor are one record: a handler changes several of them in turn.        *)
EXTENDS Integers, Sequences, FiniteSets

CONSTANTS
    Workers,        \* the number of threads of the scheduler
    Note,           \* requests that other actors send to the actor
    Request,        \* requests the actor may send to the server
    Infinite,       \* those of them that have no timeout
    Control,        \* exit messages it may receive: "exit", "kill"
    Mode,           \* the kinds of idle timeout it may set, or "none"
    MaxThroughput,  \* messages per call of resume
    MaxTimeout      \* bound: idle timeouts in the mailbox

ASSUME ConstantsAssumption ==
    /\ Workers \in Nat \ {0}
    /\ Infinite \subseteq Request
    /\ Control \subseteq {"exit", "kill"}
    /\ Mode \subseteq {"none", "once_weak", "once_strong",
                       "repeat_weak", "repeat_strong"}
    /\ MaxThroughput \in Nat \ {0}
    /\ MaxTimeout \in Nat \ {0}

Msg(kind, about) == [kind |-> kind, about |-> about]
Nothing == Msg("nothing", "")

VARIABLES
    self,      \* the members of the actor and what it did
    job,       \* the actor as a resumable; a worker has it when "running"
    leaving,   \* the number of workers that blocked the mailbox and did not
               \* reset the timeout yet: the actor is no longer theirs
    consumed,  \* local of resume
    clock,     \* [request: the timers of requests, pending: that of the idle
               \* timeout, firing: the message the clock sends now]
    asked,     \* the requests that are with the server
    unsent     \* the notes and exit messages nobody has sent yet

vars == <<self, job, leaving, consumed, clock, asked, unsent>>

Init ==
    /\ self = [inbox |-> <<>>, closed |-> FALSE, stash |-> <<>>,
               awaited |-> <<>>, multiplexed |-> {}, issued |-> {},
               initialized |-> FALSE, bhvr |-> FALSE,
               terminated |-> FALSE, mode |-> "none", strong |-> FALSE,
               handled |-> [r \in Request |-> 0],
               replied |-> [n \in Note |-> 0],
               arrived |-> <<>>, served |-> <<>>]
    /\ job = "ready"
    /\ leaving = 0
    /\ consumed = 0
    /\ clock = [request |-> {}, pending |-> FALSE, firing |-> Nothing]
    /\ asked = {}
    /\ unsent = Note \cup Control
-----------------------------------------------------------------------------
(* A step of the actor maps e = [self, clock, asked] to its new value.      *)

Env == [self |-> self, clock |-> clock, asked |-> asked]

Becomes(e) ==
    /\ self' = e.self
    /\ clock' = e.clock
    /\ asked' = e.asked

\* sync_request_bouncer: an error response for every request among ms.
Bounce(s, ms) ==
    [s EXCEPT !.replied = [n \in Note |->
        @[n] + Cardinality({i \in DOMAIN ms : ms[i] = Msg("note", n)})]]

\* scheduled_actor::enqueue, without the scheduling.
Enqueue(s, m) ==
    IF s.closed THEN Bounce(s, <<m>>)
    ELSE [s EXCEPT !.inbox = Append(@, m),
                   !.arrived = IF m.kind = "note" THEN Append(@, m.about) ELSE @]

\* Seeded fault: the skipped messages return newest first.
UnstashReversed(s) ==
    [s EXCEPT !.inbox = s.stash \o @, !.stash = <<>>]

\* Seeded fault: nothing returns from the stash after a message.
UnstashNothing(s) == s

\* unstash: pop the stack and push each message to the front of the mailbox.
Unstash(s) ==
    [s EXCEPT !.inbox = [i \in DOMAIN s.stash |->
                             s.stash[Len(s.stash) + 1 - i]] \o @,
              !.stash = <<>>]
-----------------------------------------------------------------------------
(* Idle timeouts. A timer is an action of the clock; pending disposes it.   *)
(* Of the id of a timeout only this matters: is it the one in the state?    *)

Once(mode) == mode \in {"once_weak", "once_strong"}
Strong(mode) == mode \in {"once_strong", "repeat_strong"}

\* timeout_state_.pending.dispose().
Dispose(e) == [e EXCEPT !.clock.pending = FALSE]

Outdated(m) == IF m.kind = "timeout" THEN Msg("timeout", "stale") ELSE m

\* timeout_state_.id changes.
NewId(e) == [e EXCEPT !.clock.firing = Outdated(@),
                      !.self.inbox = [i \in DOMAIN @ |-> Outdated(@[i])]]

\* Seeded fault: the timer is dropped after pending was assigned.
SetReceiveTimeoutDropped(e) ==
    IF e.self.mode = "none" THEN Dispose(e) ELSE Dispose(NewId(e))

\* set_receive_timeout: drop the old timer; take a new id and schedule it.
SetReceiveTimeout(e) ==
    IF e.self.mode = "none" THEN Dispose(e)
    ELSE [NewId(e) EXCEPT !.clock.pending = TRUE]

\* set_idle_handler.
SetIdleHandler(e, mode) ==
    IF mode = "none" THEN e
    ELSE SetReceiveTimeout([e EXCEPT !.self.mode = mode,
                                     !.self.strong = Strong(mode)])
-----------------------------------------------------------------------------
(* The end of the actor.                                                    *)

\* quit. It leaves nothing that keeps the actor alive: finalize follows at
\* the end of the same message, so that the shutting-down flag is not needed.
Quit(e) ==
    [e EXCEPT !.self.bhvr = FALSE, !.self.awaited = <<>>, !.self.multiplexed = {}]

\* Seeded fault: close_mailbox forgets the stash.
CloseMailboxOnly(s) ==
    [Bounce(s, s.inbox) EXCEPT !.closed = TRUE, !.inbox = <<>>, !.stash = <<>>]

\* close_mailbox.
CloseMailbox(s) ==
    [Bounce(s, s.stash \o s.inbox) EXCEPT !.closed = TRUE, !.inbox = <<>>,
                                          !.stash = <<>>]

\* abstract_actor::cleanup and scheduled_actor::on_cleanup.
Cleanup(e) ==
    LET d == Dispose(e)
    IN  [d EXCEPT !.self = [CloseMailbox(d.self) EXCEPT
             !.terminated = TRUE, !.awaited = <<>>, !.multiplexed = {}]]

Alive(s) == s.bhvr \/ s.awaited # <<>> \/ s.multiplexed # {}

\* finalize.
Finalize(e) == IF Alive(e.self) THEN e ELSE Cleanup(e)
-----------------------------------------------------------------------------
(* What user code may do in a handler: nothing, quit (or throw), give up    *)
(* its behavior, send a request. An idle handler may set a new one.         *)

UserActs(s) ==
    {Nothing, Msg("quit", ""), Msg("unbecome", ""), Msg("rearm", "")}
        \cup [kind : {"then", "await"}, about : Request \ s.issued]

\* Seeded fault: the request has no timeout.
SendRequestUntimed(e, r, kind) ==
    [e EXCEPT !.asked = @ \cup {r},
              !.self.issued = @ \cup {r},
              !.self.awaited = IF kind = "await" THEN <<r>> \o @ ELSE @,
              !.self.multiplexed = IF kind = "then" THEN @ \cup {r} ELSE @]

\* event_based_mail_t::request, followed by then or await: a timer unless the
\* timeout is infinite, the message to the server, the handler. An error response
\* that comes at once, as the server is gone or the handle invalid, is an early
\* answer.
SendRequest(e, r, kind) ==
    [e EXCEPT !.clock.request = @ \cup ({r} \ Infinite),
              !.asked = @ \cup {r},
              !.self.issued = @ \cup {r},
              !.self.awaited = IF kind = "await" THEN <<r>> \o @ ELSE @,
              !.self.multiplexed = IF kind = "then" THEN @ \cup {r} ELSE @]

User(e, u) ==
    CASE u.kind = "quit" -> Quit(e)
      [] u.kind = "unbecome" -> [e EXCEPT !.self.bhvr = FALSE]
      [] u.kind \in {"then", "await"} -> SendRequest(e, u.about, u.kind)
      [] OTHER -> e
-----------------------------------------------------------------------------
(* Processing a message.                                                    *)

\* handle_timeout: a handler that runs once is moved out of the state first;
\* one that repeats is put back after its call, with a new timer.
HandleTimeout(e, u) ==
    LET reset == [NewId(e) EXCEPT !.self.mode = "none"]
        again == [User(reset, u) EXCEPT !.self.mode = e.self.mode]
    IN  CASE e.self.mode = "none" -> e
          [] u.kind = "rearm" -> SetIdleHandler(reset, e.self.mode)
          [] Once(e.self.mode) /\ u.kind # "rearm" -> User(reset, u)
          [] OTHER -> SetReceiveTimeout(again)

\* Stop the timeout of the request, remove the handler and call it.
HandleResponse(e, r, u) ==
    User([e EXCEPT !.clock.request = @ \ {r},
                   !.self.awaited = SelectSeq(@, LAMBDA x : x # r),
                   !.self.multiplexed = @ \ {r},
                   !.self.handled[r] = @ + 1], u)

\* An ordinary request: the behavior or the default handler replies.
HandleNote(e, n, u) ==
    User([e EXCEPT !.self.replied[n] = @ + 1,
                   !.self.served = Append(@, n)], u)

Internal(m) == m.kind \in {"timeout", "kill"}

\* The messages that have to wait for the awaited response.
Skips(s, m) ==
    s.awaited # <<>> /\ ~Internal(m) /\ m # Msg("response", Head(s.awaited))

\* A late or repeated response: nobody waits for it.
Drops(s, m) ==
    m.kind = "response" /\ s.awaited = <<>> /\ m.about \notin s.multiplexed

\* Does a handler of the user run for m?
CallsUser(s, m) ==
    CASE m.kind = "response" -> TRUE
      [] m.kind = "note" -> s.bhvr
      [] m.kind = "timeout" -> m.about = "current" /\ s.mode # "none"
      [] OTHER -> FALSE

\* consume, for a message that is neither skipped nor dropped.
Consume(e, m, u) ==
    CASE m.kind = "response" -> HandleResponse(e, m.about, u)
      [] m.kind = "note" -> HandleNote(e, m.about, u)
      [] m.kind = "timeout" /\ m.about = "current" -> HandleTimeout(e, u)
      [] m.kind = "timeout" /\ m.about # "current" -> e
      [] OTHER -> Quit(e)

\* The user's choices that make sense for m.
Choices(s, m) ==
    IF CallsUser(s, m)
    THEN {u \in UserActs(s) : u.kind = "rearm" => m.kind = "timeout"}
    ELSE {Nothing}
-----------------------------------------------------------------------------
(* resume, by a worker.                                                     *)

\* activate: the first call initializes the actor, which may terminate at once.
Start ==
    /\ job = "ready" /\ leaving < Workers
    /\ consumed' = 0
    /\ \/ self.initialized /\ Becomes(Env) /\ job' = "running"
       \/ /\ ~self.initialized
          /\ \E mode \in Mode, u \in UserActs(self) :
               LET new == [Env EXCEPT !.self.initialized = TRUE,
                                      !.self.bhvr = TRUE]
                   e == Finalize(User(SetIdleHandler(new, mode), u))
               IN  /\ Becomes(e)
                   /\ job' = IF e.self.terminated THEN "done" ELSE "running"
    /\ UNCHANGED <<leaving, unsent>>

Running == job = "running" /\ consumed < MaxThroughput

Popped == [Env EXCEPT !.self.inbox = Tail(@)]

\* reactivate: the message was consumed.
Process ==
    /\ Running
    /\ self.inbox # <<>>
    /\ LET m == Head(self.inbox)
       IN  /\ ~Skips(self, m) /\ ~Drops(self, m)
           /\ \E u \in Choices(self, m) :
                LET e == Finalize(Consume(Popped, m, u))
                IN  IF e.self.terminated
                    THEN /\ Becomes(e)
                         /\ job' = "done"
                         /\ consumed' = 0
                    ELSE /\ Becomes([e EXCEPT !.self = Unstash(@)])
                         /\ consumed' = consumed + 1
                         /\ UNCHANGED job
    /\ UNCHANGED <<leaving, unsent>>

\* The message was skipped or dropped.
SkipOrDrop ==
    /\ Running
    /\ self.inbox # <<>>
    /\ LET m == Head(self.inbox)
       IN  /\ Skips(self, m) \/ Drops(self, m)
           /\ Becomes(IF Skips(self, m)
                      THEN [Popped EXCEPT !.self.stash = <<m>> \o @]
                      ELSE Popped)
    /\ UNCHANGED <<job, leaving, consumed, unsent>>

\* try_block succeeds. The worker sets the timeout after it.
Block ==
    /\ Running
    /\ self.inbox = <<>>
    /\ job' = "idle"
    /\ leaving' = IF consumed > 0 THEN leaving + 1 ELSE leaving
    /\ consumed' = 0
    /\ UNCHANGED <<self, clock, asked, unsent>>

\* reset_timeouts_if_needed, while another worker may run the actor.
Renew ==
    /\ leaving > 0
    /\ leaving' = leaving - 1
    /\ Becomes(SetReceiveTimeout(Env))
    /\ UNCHANGED <<job, consumed, unsent>>

\* The throughput is used up: awaiting_message or resume_later.
TimeUp ==
    /\ job = "running"
    /\ consumed = MaxThroughput
    /\ Becomes(SetReceiveTimeout(Env))
    /\ job' = IF self.inbox = <<>> THEN "idle" ELSE "ready"
    /\ consumed' = 0
    /\ UNCHANGED <<leaving, unsent>>
-----------------------------------------------------------------------------
(* The other actors, the server and the clock.                              *)

\* enqueue by another thread: the first message schedules a blocked actor.
Deliver(m) ==
    /\ self' = Enqueue(self, m)
    /\ job' = IF job = "idle" THEN "ready" ELSE job
    /\ UNCHANGED <<leaving, consumed>>

Send(x) ==
    /\ x \in unsent /\ job # "destroyed"
    /\ x \in Control => Control \subseteq unsent   \* bound: one exit message
    /\ unsent' = unsent \ {x}
    /\ Deliver(IF x \in Note THEN Msg("note", x) ELSE Msg(x, ""))
    /\ UNCHANGED <<clock, asked>>

\* The server answers a request, or bounces it when it terminates.
Answer(r) ==
    /\ r \in asked
    /\ asked' = asked \ {r}
    /\ Deliver(Msg("response", r))
    /\ UNCHANGED <<clock, unsent>>

\* It delegates the request to an invalid handle, which drops it.
Lose(r) ==
    /\ r \in asked
    /\ asked' = asked \ {r}
    /\ UNCHANGED <<self, job, leaving, consumed, clock, unsent>>

\* run_single_shot: after this point, dispose comes too late.
FireRequest(r) ==
    /\ r \in clock.request
    /\ clock.firing = Nothing
    /\ clock' = [clock EXCEPT !.request = @ \ {r},
                              !.firing = Msg("response", r)]
    /\ UNCHANGED <<self, job, leaving, consumed, asked, unsent>>

FireTimer ==
    /\ clock.firing = Nothing
    /\ clock.pending
    /\ Cardinality({i \in DOMAIN self.inbox : self.inbox[i].kind = "timeout"})
         < MaxTimeout
    /\ clock' = [clock EXCEPT !.pending = FALSE,
                              !.firing = Msg("timeout", "current")]
    /\ UNCHANGED <<self, job, leaving, consumed, asked, unsent>>

\* The action of the timer: enqueue to the actor.
Fired ==
    /\ clock.firing # Nothing
    /\ Deliver(clock.firing)
    /\ clock' = [clock EXCEPT !.firing = Nothing]
    /\ UNCHANGED <<asked, unsent>>

\* The last strong reference is gone: force_close_mailbox, on_unreachable.
Unreachable ==
    /\ job = "idle" /\ ~self.terminated
    /\ asked = {} /\ leaving = 0
    /\ self.strong => ~clock.pending /\ clock.firing.kind # "timeout"
    /\ Becomes(Cleanup(Env))
    /\ job' = "destroyed"
    /\ UNCHANGED <<leaving, consumed, unsent>>
-----------------------------------------------------------------------------
Step ==
    \/ Process \/ SkipOrDrop \/ Block
    \/ Renew \/ TimeUp

Next ==
    \/ Start \/ Step
    \/ \E x \in Note \cup Control : Send(x)
    \/ \E r \in Request : Answer(r) \/ Lose(r) \/ FireRequest(r)
    \/ FireTimer
    \/ Fired
    \/ Unreachable

\* The scheduler resumes a job that is ready, some worker inside resume goes
\* on, and the clock runs what is due. Nothing is assumed of the server, of
\* the other actors or of the user's handlers.
Fairness ==
    /\ WF_vars(Start \/ Step)
    /\ WF_vars(FireTimer \/ Fired)
    /\ \A r \in Request : SF_vars(FireRequest(r))

Spec == Init /\ [][Next]_vars /\ Fairness
-----------------------------------------------------------------------------
(* Properties.                                                              *)

Occurrences(ms, m) == Cardinality({i \in DOMAIN ms : ms[i] = m})

\* Every request that reached the actor is in its mailbox, in its stash, or
\* was answered exactly once: by a handler, or by the bouncer when enqueue,
\* close_mailbox or the loss of the last reference finds the mailbox closed.
\* The handler of a response runs at most once, whichever of the response and
\* the timeout of its request comes first (consume).
EachMessageOnce ==
    /\ \A n \in Note \ unsent :
          Occurrences(self.inbox, Msg("note", n))
            + Occurrences(self.stash, Msg("note", n)) + self.replied[n] = 1
    /\ \A r \in Request : self.handled[r] <= 1

\* Skipping does not reorder: the requests of other actors are handled in
\* the order in which they arrived, however often an awaited response sent
\* them to the stash (reactivate, unstash).
NotesInOrder ==
    /\ Len(self.served) <= Len(self.arrived)
    /\ \A i \in DOMAIN self.served : self.served[i] = self.arrived[i]

\* An actor that sleeps with an idle handler has a timer that will wake it,
\* although the worker that put it to sleep sets the timer after try_block,
\* when another worker may run the actor already (resume, line 279).
SleeperHasTimer ==
    (job = "idle" /\ leaving = 0 /\ self.mode # "none")
        => \/ clock.pending
           \/ clock.firing = Msg("timeout", "current")

\* The actor skips everything until a response comes that no timeout replaces.
AwaitsInfinite == self.awaited # <<>> /\ Head(self.awaited) \in Infinite

\* Every request of the actor that has a timeout is concluded: its handler runs,
\* or the actor terminates. The timeout covers a server that loses the request;
\* a request with the timeout infinite has none (request, line 127). Proviso: the
\* actor does not await the response to one of the latter for ever, as it would
\* skip the responses to the others.
RequestConcluded ==
    []<>~AwaitsInfinite =>
        []<>(\A r \in self.issued \ Infinite : self.handled[r] = 1 \/ self.terminated)

\* Under the same proviso, every request of another actor is answered, also when it
\* was skipped and when the actor quits before it gets to it. An actor that awaits
\* a response without a timeout, which the server loses, skips it for ever.
NoteAnswered ==
    []<>~AwaitsInfinite => []<>(\A n \in Note \ unsent : self.replied[n] = 1)
=============================================================================
