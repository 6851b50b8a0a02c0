---------------------------- MODULE MemoryActor ----------------------------
(* The memory actor of libcaf_cuda: it grants bytes of device memory to      *)
(* requests and gets them back from the destructor of mem_token.             *)
(*                                                                           *)
(* A message handler is one step; messages arrive in any order.              *)
EXTENDS Integers, Sequences, FiniteSetsExt

CONSTANTS
    Device,     \* the devices with a number in 0..(num_devices - 1)
    Request,    \* the memory_request_tokens
    Target,     \* the device each of them names, perhaps none of Device
    Size,       \* how many bytes each of them asks for
    Memory      \* what each device has at startup

ASSUME SizesAssumption ==
    /\ Size \in [Request -> Nat]
    /\ Memory \in [Device -> Nat]
    /\ DOMAIN Target = Request

VARIABLES
    requests,          \* the queue of each device
    available_memory,  \* of each device
    state              \* where each request is

vars == <<requests, available_memory, state>>

TypeOK ==
    /\ requests \in [Device -> Seq(Request)]
    /\ available_memory \in [Device -> Nat]
    /\ state \in [Request -> {"sent", "refused", "queued", "granted", "returned", "done"}]

Init ==
    /\ requests = [d \in Device |-> <<>>]
    /\ available_memory = Memory
    /\ state = [r \in Request |-> "sent"]

\* A request for a device that does not exist is ignored.
Refuse(r) ==
    /\ state[r] = "sent"
    /\ Target[r] \notin Device
    /\ state' = [state EXCEPT ![r] = "refused"]
    /\ UNCHANGED <<requests, available_memory>>

\* Seeded fault: the bytes are not reserved.
GrantUnreserved(r) ==
    /\ state[r] = "sent"
    /\ Target[r] \in Device
    /\ available_memory[Target[r]] >= Size[r]
    /\ state' = [state EXCEPT ![r] = "granted"]
    /\ UNCHANGED <<requests, available_memory>>

\* The request handler, when there is enough memory: the request overtakes the
\* ones that wait.
Grant(r) ==
    /\ state[r] = "sent"
    /\ Target[r] \in Device
    /\ available_memory[Target[r]] >= Size[r]
    /\ available_memory' = [available_memory EXCEPT ![Target[r]] = @ - Size[r]]
    /\ state' = [state EXCEPT ![r] = "granted"]
    /\ UNCHANGED requests

\* The request handler, when there is not.
Queue(r) ==
    /\ state[r] = "sent"
    /\ Target[r] \in Device
    /\ available_memory[Target[r]] < Size[r]
    /\ requests' = [requests EXCEPT ![Target[r]] = Append(@, r)]
    /\ state' = [state EXCEPT ![r] = "queued"]
    /\ UNCHANGED available_memory

\* Seeded fault: the destructor sends nothing.
DestroySilently(r) ==
    /\ state[r] = "granted"
    /\ state' = [state EXCEPT ![r] = "done"]
    /\ UNCHANGED <<requests, available_memory>>

\* The destructor of mem_token; it sends no message for zero bytes.
Destroy(r) ==
    /\ state[r] = "granted"
    /\ state' = [state EXCEPT ![r] = IF Size[r] > 0 THEN "returned" ELSE "done"]
    /\ UNCHANGED <<requests, available_memory>>

Need(q, n) == MapThenSumSet(LAMBDA i : Size[q[i]], 1..n)

\* Seeded fault: at most one waiting request is served per release.
ServedOne(q, bytes) == IF q # <<>> /\ Size[q[1]] <= bytes THEN 1 ELSE 0

\* How many requests the loop serves: it stops at the first that is too large.
Served(q, bytes) == Max({n \in 0..Len(q) : Need(q, n) <= bytes})

\* The release handler.
Release(r) ==
    LET d     == Target[r]
        q     == requests[d]
        bytes == available_memory[d] + Size[r]
        n     == Served(q, bytes)
    IN  /\ state[r] = "returned"
        /\ available_memory' = [available_memory EXCEPT ![d] = bytes - Need(q, n)]
        /\ requests' = [requests EXCEPT ![d] = SubSeq(q, n + 1, Len(q))]
        /\ state' = [s \in Request |->
                        IF s = r THEN "done"
                        ELSE IF \E i \in 1..n : q[i] = s THEN "granted" ELSE state[s]]

Handle(r) == Refuse(r) \/ Grant(r) \/ Queue(r) \/ Release(r)

Next == \E r \in Request : Handle(r) \/ Destroy(r)

Spec == Init /\ [][Next]_vars

\* Messages arrive, and every holder destroys its mem_token.
FairSpec == Spec /\ \A r \in Request : WF_vars(Handle(r)) /\ WF_vars(Destroy(r))
-----------------------------------------------------------------------------
Reserved(d) == {r \in Request : Target[r] = d /\ state[r] \in {"granted", "returned"}}

\* Memory is conserved: what the counter lacks is reserved by a mem_token or on
\* its way back, so the actor never grants more than the device has.
MemoryConserved ==
    \A d \in Device :
        /\ available_memory[d] >= 0
        /\ available_memory[d] + MapThenSumSet(LAMBDA r : Size[r], Reserved(d)) = Memory[d]

\* No request is forgotten: the head of a queue waits only while it does not
\* fit, although later requests take memory past the queue.
HeadDoesNotFit ==
    \A d \in Device :
        requests[d] # <<>> => available_memory[d] < Size[Head(requests[d])]

\* The requests up to r in the queue of its device, which are served before r.
UpTo(r) ==
    LET q == requests[Target[r]]
    IN  {q[i] : i \in {i \in DOMAIN q : \E j \in i..Len(q) : q[j] = r}}

\* When the requests come to an end, every queued request has been granted, but
\* for those that are larger than their device and what stays behind them in the
\* queue: the release handler stops at the first request that does not fit.
EveryRequestGranted ==
    []<>(\A r \in Request :
            state[r] = "queued" => \E s \in UpTo(r) : Size[s] > Memory[Target[r]])
=============================================================================
