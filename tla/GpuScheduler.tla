---------------------------- MODULE GpuScheduler ----------------------------
(* The scheduler actors of libcaf_cuda, one per device: they hand out       *)
(* execution slots to launch tokens and steal tokens from each other.       *)
(*                                                                          *)
(* A message handler is one step.  Messages on their way can arrive in any  *)
(* order; anything else would need one sender for all of them.  Only the    *)
(* list of neighbors is in each mailbox before anyone gets a handle.        *)
EXTENDS Integers, Sequences, FiniteSets

CONSTANTS
    Device,       \* devices that the platform may have
    Launch,       \* tokens of type LAUNCH, numbered as they are sent
    Memory,       \* tokens of type MEMORY, the same
    NumStreams, StreamDepth,
    None          \* no victim

Token == Launch \cup Memory
Capacity == NumStreams * StreamDepth

ASSUME TokensAssumption == Launch \cap Memory = {} /\ Token \subseteq Nat
ASSUME SlotsAssumption == NumStreams \in Nat \ {0} /\ StreamDepth \in Nat \ {0}
ASSUME NoneAssumption == None \notin Device

VARIABLES
    queue, available_streams, in_flight,    \* of each scheduler
    victims, current_backoff, awaiting_steal,
    devices,      \* devices that the platform has, each with a scheduler
    alive,        \* schedulers that have not terminated
    managed,      \* does the manager exist?
    fresh,        \* tokens that no scheduler has seen yet
    running,      \* response tokens that the GPU actors hold
    reclaims,     \* release() has sent the reclaim message of these
    steal,        \* the victim that has the steal request of a scheduler
    response, stolen,  \* the response to a steal request, with its tokens
    retries,      \* how many "retry_steal" messages are delayed
    answered, dropped   \* tokens that were answered at once, or not at all

MultiGpu == Cardinality(devices) > 1

actorVars == <<queue, available_streams, in_flight, current_backoff, awaiting_steal>>
netVars == <<steal, response, stolen, retries>>
vars == <<actorVars, victims, devices, alive, managed, fresh, running, reclaims, netVars,
          answered, dropped>>

Slot == [token : Launch, device : Device, stream : 0..(NumStreams - 1)]

TypeOK ==
    /\ queue \in [Device -> Seq(Token)]
    /\ available_streams \in [Device -> Seq(0..(NumStreams - 1))]
    /\ in_flight \in [Device -> 0..Capacity]
    /\ victims \in [Device -> SUBSET Device]
    /\ current_backoff \in [Device -> 0..500]
    /\ awaiting_steal \in [Device -> BOOLEAN]
    /\ devices \in SUBSET Device /\ alive \in SUBSET devices
    /\ managed \in BOOLEAN
    /\ fresh \in SUBSET Token
    /\ running \in SUBSET Slot /\ reclaims \in SUBSET Slot
    /\ steal \in [Device -> Device \cup {None}]
    /\ response \in [Device -> {"none", "tokens", "error"}]
    /\ stolen \in [Device -> Seq(Token)]
    /\ retries \in [Device -> Nat]
    /\ answered \in SUBSET Memory /\ dropped \in SUBSET Memory

\* One entry per stream and depth, round robin.
Slots == [i \in 1..Capacity |-> (i - 1) % NumStreams]

Init ==
    /\ queue = [d \in Device |-> <<>>]
    /\ available_streams = [d \in Device |-> Slots]
    /\ in_flight = [d \in Device |-> 0]
    /\ victims = [d \in Device |-> {}]
    /\ current_backoff = [d \in Device |-> 0]
    /\ awaiting_steal = [d \in Device |-> FALSE]
    /\ devices \in (SUBSET Device) \ {{}}
    /\ alive = devices
    /\ managed = TRUE
    /\ fresh = Token
    /\ running = {}
    /\ reclaims = {}
    /\ steal = [d \in Device |-> None]
    /\ response = [d \in Device |-> "none"]
    /\ stolen = [d \in Device |-> <<>>]
    /\ retries = [d \in Device |-> 0]
    /\ answered = {}
    /\ dropped = {}
-----------------------------------------------------------------------------
(* schedule_work.                                                           *)

LaunchesBefore(q, i) == Cardinality({j \in 1..(i - 1) : q[j] \in Launch})

\* The loop takes a token while there is a slot; a launch token uses it up.
Popped(q, streams) == {i \in DOMAIN q : LaunchesBefore(q, i) < Len(streams)}

Dispatched(d, q, streams) ==
    {[token |-> q[i], device |-> d, stream |-> streams[LaunchesBefore(q, i) + 1]] :
        i \in {j \in Popped(q, streams) : q[j] \in Launch}}

Rest(s, n) == SubSeq(s, n + 1, Len(s))

\* Seeded fault: a steal request although the answer to another is due.
StealAgain(d, backoff, awaiting) ==
    IF /\ MultiGpu /\ queue'[d] = <<>> /\ in_flight'[d] < Capacity \div 2
       /\ backoff = 0 /\ victims[d] # {}
    THEN \E v \in victims[d] :
            steal' = [steal EXCEPT ![d] = v] /\ awaiting_steal' = [awaiting_steal EXCEPT ![d] = TRUE]
    ELSE awaiting_steal' = [awaiting_steal EXCEPT ![d] = awaiting] /\ UNCHANGED steal

\* A scheduler that is half idle asks one of its victims for work.
Steal(d, backoff, awaiting) ==
    IF /\ MultiGpu /\ queue'[d] = <<>> /\ in_flight'[d] < Capacity \div 2
       /\ ~awaiting /\ backoff = 0 /\ victims[d] # {}
    THEN \E v \in victims[d] :
            steal' = [steal EXCEPT ![d] = v] /\ awaiting_steal' = [awaiting_steal EXCEPT ![d] = TRUE]
    ELSE awaiting_steal' = [awaiting_steal EXCEPT ![d] = awaiting] /\ UNCHANGED steal

\* Seeded fault: one token per call instead of a loop.
schedule_work_once(d, q, streams, flying, backoff, awaiting) ==
    LET n     == IF q # <<>> /\ streams # <<>> THEN 1 ELSE 0
        slots == {s \in Dispatched(d, q, streams) : n = 1 /\ s.token = q[1]}
    IN  /\ queue' = [queue EXCEPT ![d] = Rest(q, n)]
        /\ available_streams' =
              [available_streams EXCEPT ![d] = Rest(streams, Cardinality(slots))]
        /\ in_flight' = [in_flight EXCEPT ![d] = flying + Cardinality(slots)]
        /\ running' = running \cup slots
        /\ dropped' = dropped \cup ({q[i] : i \in 1..n} \cap Memory)
        /\ current_backoff' = [current_backoff EXCEPT ![d] = backoff]
        /\ Steal(d, backoff, awaiting)

\* schedule_work of d, with the members as its caller leaves them.
schedule_work(d, q, streams, flying, backoff, awaiting) ==
    LET popped == Popped(q, streams)
        slots  == Dispatched(d, q, streams)
    IN  /\ queue' = [queue EXCEPT ![d] = Rest(q, Cardinality(popped))]
        /\ available_streams' =
              [available_streams EXCEPT ![d] = Rest(streams, Cardinality(slots))]
        /\ in_flight' = [in_flight EXCEPT ![d] = flying + Cardinality(slots)]
        /\ running' = running \cup slots
        /\ dropped' = dropped \cup ({q[i] : i \in popped} \cap Memory)
        /\ current_backoff' = [current_backoff EXCEPT ![d] = backoff]
        /\ Steal(d, backoff, awaiting)
-----------------------------------------------------------------------------
(* Message handlers.                                                        *)

\* The list of neighbors, which comes first, has been handled.
Linked(d) == MultiGpu => victims[d] # {}

\* t is the next of the new tokens ts to be sent; no other order of numbers
\* would tell anything else.
Sent(t, ts) == t \in ts /\ \A u \in ts : t <= u

\* on_receive, for a launch token.
ReceiveLaunch(d, t) ==
    /\ d \in alive /\ Linked(d)
    /\ Sent(t, fresh \cap Launch)
    /\ fresh' = fresh \ {t}
    /\ schedule_work(d, Append(queue[d], t), available_streams[d], in_flight[d], 0,
                     awaiting_steal[d])
    /\ UNCHANGED <<victims, devices, alive, managed, reclaims, response, stolen, retries, answered>>

\* on_receive, for a memory token: the answer goes out at once.
ReceiveMemory(d, t) ==
    /\ d \in alive /\ Linked(d)
    /\ Sent(t, fresh \cap Memory)
    /\ fresh' = fresh \ {t}
    /\ current_backoff' = [current_backoff EXCEPT ![d] = 0]
    /\ answered' = answered \cup {t}
    /\ UNCHANGED <<queue, available_streams, in_flight, awaiting_steal, victims, devices, alive,
                   managed, running, reclaims, netVars, dropped>>

\* on_receive_batch, for vectors of two tokens.
ReceiveBatch(d, s, t) ==
    /\ d \in alive /\ Linked(d)
    /\ Sent(s, fresh \cap Launch) \/ Sent(s, fresh \cap Memory)
    /\ Sent(t, (fresh \ {s}) \cap Launch) \/ Sent(t, (fresh \ {s}) \cap Memory)
    /\ fresh' = fresh \ {s, t}
    /\ schedule_work(d, queue[d] \o <<s, t>>, available_streams[d], in_flight[d], 0,
                     awaiting_steal[d])
    /\ UNCHANGED <<victims, devices, alive, managed, reclaims, response, stolen, retries, answered>>

\* Seeded fault: the stream of a finished token is not put back.
ReclaimNoStream(slot) ==
    LET d == slot.device
    IN  /\ d \in alive
        /\ slot \in reclaims
        /\ reclaims' = reclaims \ {slot}
        /\ schedule_work(d, queue[d], available_streams[d],
                         IF in_flight[d] > 0 THEN in_flight[d] - 1 ELSE 0,
                         current_backoff[d], awaiting_steal[d])
        /\ UNCHANGED <<victims, devices, alive, managed, fresh, response, stolen, retries, answered>>

\* on_reclaim
Reclaim(slot) ==
    LET d == slot.device
    IN  /\ d \in alive
        /\ slot \in reclaims
        /\ reclaims' = reclaims \ {slot}
        /\ schedule_work(d, queue[d], Append(available_streams[d], slot.stream),
                         IF in_flight[d] > 0 THEN in_flight[d] - 1 ELSE 0,
                         current_backoff[d], awaiting_steal[d])
        /\ UNCHANGED <<victims, devices, alive, managed, fresh, response, stolen, retries, answered>>

\* on_set_neighbors: it does not call schedule_work.
SetNeighbors(d) ==
    /\ d \in alive
    /\ MultiGpu
    /\ victims[d] = {}
    /\ victims' = [victims EXCEPT ![d] = devices \ {d}]
    /\ UNCHANGED <<actorVars, devices, alive, managed, fresh, running, reclaims, netVars,
                   answered, dropped>>

\* Seeded fault: the victim keeps the tokens that it gives away.
StealRequestCopy(d) ==
    LET v == steal[d] IN
    /\ v # None
    /\ steal' = [steal EXCEPT ![d] = None]
    /\ response' = [response EXCEPT ![d] = "tokens"]
    /\ stolen' = [stolen EXCEPT ![d] = SubSeq(queue[v], 1, Len(queue[v]) \div 2)]
    /\ UNCHANGED <<actorVars, victims, devices, alive, managed, fresh, running, reclaims,
                   retries, answered, dropped>>

\* on_steal_request of the victim of d, which gives away half of its queue,
\* rounded down; a victim that has terminated answers with an error.
StealRequest(d) ==
    LET v == steal[d]
        n == Len(queue[v]) \div 2
    IN  /\ v # None /\ Linked(v)
        /\ steal' = [steal EXCEPT ![d] = None]
        /\ IF v \in alive
           THEN /\ response' = [response EXCEPT ![d] = "tokens"]
                /\ stolen' = [stolen EXCEPT ![d] = SubSeq(queue[v], 1, n)]
                /\ queue' = [queue EXCEPT ![v] = Rest(queue[v], n)]
           ELSE /\ response' = [response EXCEPT ![d] = "error"]
                /\ UNCHANGED <<queue, stolen>>
        /\ UNCHANGED <<available_streams, in_flight, current_backoff, awaiting_steal,
                       victims, devices, alive, managed, fresh, running, reclaims, retries,
                       answered, dropped>>

LeastOf(m, n) == IF m < n THEN m ELSE n

\* The response handler of a steal request, when it brings tokens.
StolenWork(d) ==
    /\ d \in alive
    /\ response[d] = "tokens" /\ stolen[d] # <<>>
    /\ response' = [response EXCEPT ![d] = "none"]
    /\ stolen' = [stolen EXCEPT ![d] = <<>>]
    /\ schedule_work(d, queue[d] \o stolen[d], available_streams[d], in_flight[d], 0, FALSE)
    /\ UNCHANGED <<victims, devices, alive, managed, fresh, reclaims, retries, answered>>

\* The response or error handler of a steal request, when it brings nothing.
StolenNothing(d) ==
    /\ d \in alive
    /\ response[d] # "none" /\ stolen[d] = <<>>
    /\ response' = [response EXCEPT ![d] = "none"]
    /\ awaiting_steal' = [awaiting_steal EXCEPT ![d] = FALSE]
    /\ LET first == IF response[d] = "error" THEN 50 ELSE 1
           most  == IF response[d] = "error" THEN 500 ELSE 100
       IN  current_backoff' =
              [current_backoff EXCEPT ![d] = IF @ = 0 THEN first ELSE LeastOf(most, @ * 2)]
    /\ retries' = [retries EXCEPT ![d] = @ + 1]
    /\ UNCHANGED <<queue, available_streams, in_flight, victims, devices, alive, managed, fresh,
                   running, reclaims, steal, stolen, answered, dropped>>

\* Seeded fault: the handler does not end the back-off.
RetryStealBackedOff(d) ==
    /\ d \in alive
    /\ retries[d] > 0
    /\ retries' = [retries EXCEPT ![d] = @ - 1]
    /\ schedule_work(d, queue[d], available_streams[d], in_flight[d], current_backoff[d],
                     awaiting_steal[d])
    /\ UNCHANGED <<victims, devices, alive, managed, fresh, reclaims, response, stolen,
                   answered>>

\* The handler of "retry_steal".
RetrySteal(d) ==
    /\ d \in alive
    /\ retries[d] > 0
    /\ retries' = [retries EXCEPT ![d] = @ - 1]
    /\ schedule_work(d, queue[d], available_streams[d], in_flight[d], 0, awaiting_steal[d])
    /\ UNCHANGED <<victims, devices, alive, managed, fresh, reclaims, response, stolen, answered>>
-----------------------------------------------------------------------------
(* The world around the schedulers.                                         *)

\* launch_response_token::release, called at the end of a task or by the last
\* holder of the token.
Finish(slot) ==
    /\ slot \in running
    /\ running' = running \ {slot}
    /\ reclaims' = reclaims \cup {slot}
    /\ UNCHANGED <<actorVars, victims, devices, alive, managed, fresh, netVars, answered, dropped>>

\* manager::shutdown sends each scheduler an exit_reason, which becomes an error;
\* other users of the handles may go on to send tokens.
Shutdown ==
    /\ managed
    /\ managed' = FALSE
    /\ UNCHANGED <<actorVars, victims, devices, alive, fresh, running, reclaims, netVars,
                   answered, dropped>>

\* The scheduler gets the error, for which make_behavior has no handler: the default
\* error handler quits.  An exit message from the application would do the same.
Quit(d) ==
    /\ ~managed
    /\ d \in alive /\ Linked(d)
    /\ alive' = alive \ {d}
    /\ UNCHANGED <<actorVars, victims, devices, managed, fresh, running, reclaims, netVars,
                   answered, dropped>>
-----------------------------------------------------------------------------
Handle(d) ==
    \/ SetNeighbors(d) \/ StealRequest(d) \/ StolenWork(d) \/ StolenNothing(d)
    \/ RetrySteal(d) \/ Quit(d)

Next ==
    \/ \E d \in Device :
          \/ Handle(d)
          \/ \E t \in Token : ReceiveLaunch(d, t) \/ ReceiveMemory(d, t)
          \/ \E s, t \in Token : ReceiveBatch(d, s, t)
    \/ \E slot \in running : Finish(slot)
    \/ \E slot \in reclaims : Reclaim(slot)
    \/ Shutdown

Spec == Init /\ [][Next]_vars

\* Messages between schedulers arrive, delayed ones included, and GPU tasks come to an
\* end; whether a scheduler ever quits is open.
Fairness ==
    /\ \A d \in Device :
          WF_vars(\/ SetNeighbors(d) \/ StealRequest(d)
                  \/ StolenWork(d) \/ StolenNothing(d) \/ RetrySteal(d))
    /\ WF_vars(\/ \E slot \in running : Finish(slot)
               \/ \E slot \in reclaims : Reclaim(slot))

FairSpec == Spec /\ Fairness
-----------------------------------------------------------------------------
Held(d) == {slot \in running \cup reclaims : slot.device = d}

InQueue(d, t) == {i \in DOMAIN queue[d] : queue[d][i] = t}
InStolen(d, t) == {i \in DOMAIN stolen[d] : stolen[d][i] = t}

\* No token runs twice: whatever is stolen, it is in one queue, in one response
\* to a steal request or with one GPU actor, or it has been dealt with.
EachTokenOnce ==
    \A t \in Token :
        Cardinality({p \in Device \X (1..Cardinality(Token)) : p[2] \in InQueue(p[1], t)})
          + Cardinality({p \in Device \X (1..Cardinality(Token)) : p[2] \in InStolen(p[1], t)})
          + Cardinality({slot \in running \cup reclaims : slot.token = t})
          + Cardinality({t} \cap fresh) + Cardinality({t} \cap answered)
          + Cardinality({t} \cap dropped) <= 1

\* The slots of a device are neither lost nor doubled, however tokens are stolen and
\* reclaimed: a stream has at most StreamDepth tasks, and tokens wait in the queue of a
\* scheduler only while each of its streams has as many, whichever handler ran last.
WorkConserving ==
    \A d \in alive, s \in 0..(NumStreams - 1) :
        LET tasks == Cardinality({slot \in Held(d) : slot.stream = s})
        IN  /\ tasks <= StreamDepth
            /\ queue[d] # <<>> => tasks = StreamDepth

\* At most one steal request of a scheduler is out, awaiting_steal_ knows of it,
\* and the back-off is over while it is.
OneStealRequest ==
    \A d \in Device :
        /\ awaiting_steal[d] <=> steal[d] # None \/ response[d] # "none"
        /\ steal[d] = None \/ response[d] = "none"
        /\ awaiting_steal[d] => current_backoff[d] = 0
        /\ current_backoff[d] > 0 => retries[d] > 0

\* Every launch token in the queue of a scheduler that lives is dispatched in
\* the end, stolen or not: again and again, these queues hold no launch token.
EveryLaunchRuns ==
    []<>(\A d \in alive, t \in Launch : InQueue(d, t) = {})

HalfIdle(d) == queue[d] = <<>> /\ in_flight[d] < Capacity \div 2

\* A refused steal request, also one whose victim has terminated, is not the last:
\* unless it gets work, a scheduler that lives asks again once its back-off is over,
\* whatever resets the back-off and however many retries are delayed meanwhile.
StealingGoesOn ==
    \A d \in Device :
        response[d] # "none" ~> \/ steal[d] # None
                               \/ ~HalfIdle(d)
                               \/ d \notin alive
=============================================================================
