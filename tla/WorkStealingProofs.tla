------------------------ MODULE WorkStealingProofs ------------------------
(* The notifications of the queues and the protocol of stop(), for any     *)
(* number of workers, jobs and threads.                                    *)
EXTENDS WorkStealing, TLAPS

Entry == Job \cup {Helper}

\* What the two invariants rest on: which job a worker has where in its loop,
\* and when the thread that stops the scheduler may have a notification to send.
Locals ==
    /\ \A w \in Worker :
         /\ wpc[w] = "resume" => wjob[w] \in Entry
         /\ wpc[w] = "release" => wjob[w] \in Job
         /\ wpc[w] \notin {"resume", "release"} => wjob[w] = None
         /\ mpc = "run" => wpc[w] # "exit"
    /\ mpc \in {"run", "send"} => notify[Main] = None
    /\ cleaning # None => mpc = "cleanup"

Inv == TypeOK /\ NoLostNotification /\ StopProtocol /\ Locals
-----------------------------------------------------------------------------
(* The operations of double_ended_queue on one list.                        *)

\* prepend puts the job in front and moves every other entry by one.
LEMMA PrependFacts ==
    ASSUME NEW S, NEW q \in Seq(S), NEW x \in S
    PROVE  /\ <<x>> \o q \in Seq(S)
           /\ Len(<<x>> \o q) = Len(q) + 1
           /\ (<<x>> \o q)[1] = x
           /\ \A i \in 2 .. Len(q) + 1 : (<<x>> \o q)[i] = q[i - 1]
OBVIOUS

\* append puts the job behind all entries, which stay where they are.
LEMMA AppendFacts ==
    ASSUME NEW S, NEW q \in Seq(S), NEW x \in S
    PROVE  /\ q \o <<x>> \in Seq(S)
           /\ Len(q \o <<x>>) = Len(q) + 1
           /\ (q \o <<x>>)[Len(q) + 1] = x
           /\ \A i \in 1 .. Len(q) : (q \o <<x>>)[i] = q[i]
OBVIOUS

\* try_take_head removes the first entry and moves the others by one.
LEMMA TailFacts ==
    ASSUME NEW S, NEW q \in Seq(S), q # <<>>
    PROVE  /\ Tail(q) \in Seq(S)
           /\ Head(q) = q[1]
           /\ Len(q) \in Nat \ {0}
           /\ Len(Tail(q)) = Len(q) - 1
           /\ \A i \in 1 .. Len(q) - 1 : Tail(q)[i] = q[i + 1]
OBVIOUS

\* try_take_tail removes the last entry, the others stay where they are.
LEMMA FrontFacts ==
    ASSUME NEW S, NEW q \in Seq(S), q # <<>>
    PROVE  /\ SubSeq(q, 1, Len(q) - 1) \in Seq(S)
           /\ Len(q) \in Nat \ {0}
           /\ Len(SubSeq(q, 1, Len(q) - 1)) = Len(q) - 1
           /\ \A i \in 1 .. Len(q) - 1 : SubSeq(q, 1, Len(q) - 1)[i] = q[i]
<1>1. Len(q) \in Nat \ {0}
  OBVIOUS
<1>2. PICK n \in Nat : n = Len(q) - 1
  BY <1>1
<1>3. /\ SubSeq(q, 1, n) \in Seq(S)
      /\ Len(SubSeq(q, 1, n)) = n
      /\ \A i \in 1 .. n : SubSeq(q, 1, n)[i] = q[i]
  BY <1>1, <1>2
<1> QED
  BY <1>1, <1>2, <1>3

\* The dice of try_steal never pick the thief, and always a worker.
THEOREM VictimIsAnother ==
    ASSUME NEW w \in Worker
    PROVE  Victims(w) \subseteq Worker \ {w}
BY WorkersAssumption DEF Victims, Worker

\* A scheduler that was just started satisfies the invariant.
LEMMA InitInv == Init => Inv
<1> SUFFICES ASSUME Init PROVE Inv
  OBVIOUS
<1> USE WorkersAssumption, NamesAssumption
<1>1. 0 \in Worker
  BY DEF Worker
<1>2. TypeOK
  BY <1>1 DEF Init, TypeOK
<1>3. NoLostNotification
  BY DEF Init, NoLostNotification
<1>4. StopProtocol
  BY DEF Init, StopProtocol
<1>5. Locals
  BY DEF Init, Locals, Thread
<1> QED
  BY <1>2, <1>3, <1>4, <1>5 DEF Inv

\* A step that only moves the entries of one list by d positions, and adds or
\* removes jobs, creates no second helper.
LEMMA QueueStep ==
    ASSUME TypeOK, StopProtocol, NEW w \in Worker, NEW q \in Seq(Entry),
           NEW d \in {-1, 0, 1}, queue' = [queue EXCEPT ![w] = q],
           \A i \in DOMAIN q :
              q[i] = Helper => i + d \in DOMAIN queue[w] /\ queue[w][i + d] = Helper
    PROVE  /\ \A u, v \in Worker : \A i \in DOMAIN queue'[u], k \in DOMAIN queue'[v] :
                queue'[u][i] = Helper /\ queue'[v][k] = Helper => u = v /\ i = k
           /\ \A v \in Worker : \A i \in DOMAIN queue'[v] : queue'[v][i] = Helper =>
                \E k \in DOMAIN queue[v] : queue[v][k] = Helper
<1>1. queue \in [Worker -> Seq(Entry)]
  BY DEF TypeOK, Entry
<1>2. queue'[w] = q /\ \A v \in Worker \ {w} : queue'[v] = queue[v]
  BY <1>1
<1>3. \A v \in Worker : DOMAIN queue[v] = 1 .. Len(queue[v])
  BY <1>1
<1>4. DOMAIN q = 1 .. Len(q)
  OBVIOUS
<1>5. ASSUME NEW v \in Worker, NEW i \in DOMAIN queue'[v], queue'[v][i] = Helper
      PROVE  \E k \in DOMAIN queue[v] :
                queue[v][k] = Helper /\ k = IF v = w THEN i + d ELSE i
  BY <1>2, <1>5
<1>6. ASSUME NEW u \in Worker, NEW v \in Worker,
             NEW i \in DOMAIN queue'[u], NEW k \in DOMAIN queue'[v],
             queue'[u][i] = Helper, queue'[v][k] = Helper
      PROVE  u = v /\ i = k
  <2>1. PICK a \in DOMAIN queue[u] :
          queue[u][a] = Helper /\ a = IF u = w THEN i + d ELSE i
    BY <1>5, <1>6
  <2>2. PICK b \in DOMAIN queue[v] :
          queue[v][b] = Helper /\ b = IF v = w THEN k + d ELSE k
    BY <1>5, <1>6
  <2>3. u = v /\ a = b
    BY <2>1, <2>2 DEF StopProtocol
  <2>4. i \in Int /\ k \in Int
    BY <1>2, <1>3, <1>4
  <2> QED
    BY <2>1, <2>2, <2>3, <2>4
<1> QED
  BY <1>5, <1>6

\* A step that leaves the queues and stop() alone, in which no worker gets the
\* helper or leaves its loop.
LEMMA StopKept ==
    ASSUME StopProtocol, UNCHANGED <<queue, mpc, alive_workers, last_worker>>,
           \A w \in Worker : wjob'[w] = Helper => wjob[w] = Helper,
           \A w \in Worker : wpc'[w] # "exit" <=> wpc[w] # "exit"
    PROVE  StopProtocol'
<1>1. {w \in Worker : wpc'[w] # "exit"} = {w \in Worker : wpc[w] # "exit"}
  OBVIOUS
<1>2. Worker' = Worker
  BY DEF Worker
<1>3. \A v, w \in Worker : \A i \in DOMAIN queue'[v], k \in DOMAIN queue'[w] :
         queue'[v][i] = Helper /\ queue'[w][k] = Helper => v = w /\ i = k
  BY DEF StopProtocol
<1>4. \A w \in Worker : \A i \in DOMAIN queue'[w] : queue'[w][i] = Helper =>
         mpc' = "wait" /\ last_worker' = None /\ \A v \in Worker : wjob'[v] # Helper
  BY DEF StopProtocol
<1>5. \A w \in Worker : wjob'[w] = Helper =>
         /\ mpc' = "wait" /\ last_worker' = None
         /\ \A v \in Worker : wjob'[v] = Helper => v = w
  BY DEF StopProtocol
<1>6. /\ last_worker' # None => mpc' = "wait"
      /\ mpc' # "run" => alive_workers' \ {last_worker'}
                            = {w \in Worker : wpc'[w] # "exit"}
  BY <1>1 DEF StopProtocol
<1> QED
  BY <1>2, <1>3, <1>4, <1>5, <1>6 DEF StopProtocol

\* The loop of a worker gets an entry of a queue by removing it.
LEMMA TakeStep ==
    ASSUME Inv, NEW w \in Worker, NEW v \in Worker, NEW q \in Seq(Entry),
           NEW d \in {0, 1}, NEW x \in Entry, NEW r \in DOMAIN queue[v],
           wpc[w] \in {"poll", "steal"},
           queue[v] # <<>>, queue[v][r] = x, Got(w, x),
           queue' = [queue EXCEPT ![v] = q],
           \A i \in DOMAIN q : i + d \in DOMAIN queue[v] /\ i + d # r
                               /\ q[i] = queue[v][i + d],
           UNCHANGED <<next_worker, notify, live, dead, refs, stopVars>>
    PROVE  Inv'
<1> USE NamesAssumption DEF Entry, stopVars
<1>1. queue' \in [Worker -> Seq(Entry)]
      /\ wpc' = [wpc EXCEPT ![w] = "resume"] /\ wjob' = [wjob EXCEPT ![w] = x]
  BY DEF Inv, TypeOK, Got
<1>2. TypeOK'
  BY <1>1 DEF Inv, TypeOK
<1>3. NoLostNotification'
  <2>1. SUFFICES ASSUME NEW u \in Worker, wpc'[u] = "wait", queue'[u] # <<>>
                 PROVE  \E t \in Thread : notify[t] = u
    BY DEF NoLostNotification
  <2>2. wpc[u] = "wait"
    BY <1>1, <2>1 DEF Inv, TypeOK
  <2>3. queue[u] # <<>>
    BY <2>1 DEF Inv, TypeOK
  <2> QED
    BY <2>2, <2>3 DEF Inv, NoLostNotification
<1>4. StopProtocol'
  <2>1. /\ \A a, b \in Worker : \A i \in DOMAIN queue'[a], k \in DOMAIN queue'[b] :
             queue'[a][i] = Helper /\ queue'[b][k] = Helper => a = b /\ i = k
        /\ \A a \in Worker : \A i \in DOMAIN queue'[a] : queue'[a][i] = Helper =>
             \E k \in DOMAIN queue[a] : queue[a][k] = Helper
    <3>1. \A i \in DOMAIN q :
             q[i] = Helper => i + d \in DOMAIN queue[v] /\ queue[v][i + d] = Helper
      OBVIOUS
    <3>2. d \in {-1, 0, 1}
      OBVIOUS
    <3>3. TypeOK /\ StopProtocol /\ v \in Worker /\ q \in Seq(Entry)
          /\ queue' = [queue EXCEPT ![v] = q]
      BY DEF Inv
    <3> QED
      BY ONLY <3>1, <3>2, <3>3, QueueStep
  <2>2. \A u \in Worker : wpc'[u] # "exit" <=> wpc[u] # "exit"
    BY <1>1 DEF Inv, TypeOK
  <2>3. CASE x = Helper
    <3>1. mpc = "wait" /\ last_worker = None /\ \A u \in Worker : wjob[u] # Helper
      BY <2>3 DEF Inv, StopProtocol
    <3>2. \A a \in Worker : \A i \in DOMAIN queue'[a] : queue'[a][i] # Helper
      <4> SUFFICES ASSUME NEW a \in Worker, NEW i \in DOMAIN queue'[a],
                          queue'[a][i] = Helper
                   PROVE  FALSE
        OBVIOUS
      <4>1. CASE a = v
        <5>1. queue'[v] = q
          BY DEF Inv, TypeOK
        <5>2. i + d \in DOMAIN queue[v] /\ i + d # r /\ queue[v][i + d] = Helper
          BY <4>1, <5>1
        <5> QED
          BY <5>2, <2>3 DEF Inv, StopProtocol
      <4>2. CASE a # v
        <5>1. queue'[a] = queue[a]
          BY <4>2 DEF Inv, TypeOK
        <5> QED
          BY <5>1, <4>2, <2>3 DEF Inv, StopProtocol
      <4> QED
        BY <4>1, <4>2
    <3>3. \A u \in Worker : wjob'[u] = Helper => u = w
      BY <3>1, <1>1 DEF Inv, TypeOK
    <3> QED
      BY <3>1, <3>2, <3>3, <2>2 DEF Inv, StopProtocol
  <2>4. CASE x # Helper
    <3>1. \A u \in Worker : wjob'[u] = Helper => wjob[u] = Helper
      BY <2>4, <1>1 DEF Inv, TypeOK
    <3>2. \A a \in Worker : \A i \in DOMAIN queue'[a] : queue'[a][i] = Helper =>
            mpc = "wait" /\ last_worker = None /\ \A u \in Worker : wjob[u] # Helper
      BY <2>1 DEF Inv, StopProtocol
    <3> QED
      BY <3>1, <3>2, <2>1, <2>2 DEF Inv, StopProtocol
  <2> QED
    BY <2>3, <2>4
<1>5. Locals'
  BY <1>1 DEF Inv, TypeOK, Locals
<1> QED
  BY <1>2, <1>3, <1>4, <1>5 DEF Inv

\* A job is put into a queue whose owner does not sleep, or is notified.
LEMMA PutStep ==
    ASSUME Inv, NEW w \in Worker, NEW q \in Seq(Entry), NEW d \in {-1, 0},
           queue' = [queue EXCEPT ![w] = q],
           \A i \in DOMAIN q : q[i] = Helper =>
              i + d \in DOMAIN queue[w] /\ queue[w][i + d] = Helper,
           wpc'[w] = "wait" =>
              \/ \E t \in Thread : notify'[t] = w
              \/ queue[w] # <<>> /\ wpc[w] = "wait",
           \A u \in Worker : /\ wpc'[u] = "wait" => wpc[u] = "wait"
                             /\ wpc'[u] # "exit" <=> wpc[u] # "exit"
                             /\ wjob'[u] = Helper => wjob[u] = Helper,
           \A t \in Thread : notify[t] # None => notify'[t] = notify[t],
           UNCHANGED <<mpc, alive_workers, last_worker>>
    PROVE  NoLostNotification' /\ StopProtocol'
<1> USE NamesAssumption
<1>1. NoLostNotification'
  <2>1. SUFFICES ASSUME NEW u \in Worker, wpc'[u] = "wait", queue'[u] # <<>>
                 PROVE  \E t \in Thread : notify'[t] = u
    BY DEF NoLostNotification
  <2>2. CASE queue[u] # <<>>
    <3>1. PICK t \in Thread : notify[t] = u
      BY <2>1, <2>2 DEF Inv, NoLostNotification
    <3> QED
      BY <3>1
  <2>3. CASE queue[u] = <<>>
    <3>1. u = w
      BY <2>1, <2>3 DEF Inv, TypeOK
    <3> QED
      BY <3>1, <2>1, <2>3
  <2> QED
    BY <2>2, <2>3
<1>2. StopProtocol'
  <2>1. /\ \A a, b \in Worker : \A i \in DOMAIN queue'[a], k \in DOMAIN queue'[b] :
             queue'[a][i] = Helper /\ queue'[b][k] = Helper => a = b /\ i = k
        /\ \A a \in Worker : \A i \in DOMAIN queue'[a] : queue'[a][i] = Helper =>
             \E k \in DOMAIN queue[a] : queue[a][k] = Helper
    <3>1. d \in {-1, 0, 1}
      OBVIOUS
    <3>2. \A i \in DOMAIN q :
            q[i] = Helper => i + d \in DOMAIN queue[w] /\ queue[w][i + d] = Helper
      OBVIOUS
    <3>3. TypeOK /\ StopProtocol /\ w \in Worker /\ q \in Seq(Entry)
          /\ queue' = [queue EXCEPT ![w] = q]
      BY DEF Inv
    <3> QED
      BY ONLY <3>1, <3>2, <3>3, QueueStep
  <2>2. \A a \in Worker : \A i \in DOMAIN queue'[a] : queue'[a][i] = Helper =>
          mpc = "wait" /\ last_worker = None /\ \A u \in Worker : wjob[u] # Helper
    BY <2>1 DEF Inv, StopProtocol
  <2> QED
    BY <2>1, <2>2 DEF Inv, StopProtocol
<1> QED
  BY <1>1, <1>2

\* Every step of a worker, of a caller and of stop() preserves the invariant; one
\* case per action.
LEMMA NextInv == Inv /\ [Next]_vars => Inv'
<1> SUFFICES ASSUME Inv, [Next]_vars PROVE Inv'
  OBVIOUS
<1> USE NamesAssumption, WorkersAssumption DEF workerVars, stopVars
<1>a. Worker \subseteq Int /\ 0 \in Worker /\ NumWorkers - 1 \in Worker
  BY DEF Worker
<1>1. ASSUME NEW t \in Thread, Notify(t) PROVE Inv'
  <2>1. PICK v \in Worker : notify[t] = v
    BY <1>1 DEF Notify, Inv, TypeOK
  <2>2. /\ notify' = [notify EXCEPT ![t] = None]
        /\ wpc' = [wpc EXCEPT ![v] = IF @ = "wait" THEN "poll" ELSE @]
        /\ UNCHANGED <<queue, next_worker, wjob, live, dead, refs, stopVars>>
    BY <1>1, <2>1 DEF Notify
  <2>3. TypeOK'
    BY <2>2 DEF Inv, TypeOK
  <2>4. /\ \A u \in Worker : wpc'[u] # "exit" <=> wpc[u] # "exit"
        /\ \A u \in Worker : wpc'[u] = wpc[u] \/ (wpc[u] = "wait" /\ wpc'[u] = "poll")
    BY <2>2 DEF Inv, TypeOK
  <2>5. NoLostNotification'
    <3>1. SUFFICES ASSUME NEW u \in Worker, wpc'[u] = "wait", queue[u] # <<>>
                   PROVE  \E x \in Thread : notify'[x] = u
      BY <2>2 DEF NoLostNotification
    <3>2. u # v /\ wpc[u] = "wait"
      BY <3>1, <2>2, <2>4 DEF Inv, TypeOK
    <3>3. PICK x \in Thread : notify[x] = u
      BY <3>1, <3>2 DEF Inv, NoLostNotification
    <3>4. notify'[x] = u
      BY <3>2, <3>3, <2>1, <2>2 DEF Inv, TypeOK
    <3> QED
      BY <3>4
  <2>6. StopProtocol'
    BY <2>2, <2>4 DEF Inv, StopProtocol
  <2>7. Locals'
    BY <2>2, <2>4 DEF Inv, TypeOK, Locals, Thread
  <2> QED
    BY <2>3, <2>5, <2>6, <2>7 DEF Inv
<1>2. ASSUME NEW t \in Thread, NEW job \in Job, Schedule(t, job) PROVE Inv'
  <2> DEFINE n == next_worker
             q == queue[n] \o <<job>>
  <2>1. /\ n \in Worker /\ queue[n] \in Seq(Entry) /\ job \in Entry
        /\ notify[t] = None
    BY <1>2 DEF Inv, TypeOK, Entry, Schedule, Calls
  <2>2. /\ q \in Seq(Entry)
        /\ \A i \in DOMAIN q :
             q[i] = Helper => i + 0 \in DOMAIN queue[n] /\ queue[n][i + 0] = Helper
    <3>1. /\ q \in Seq(Entry) /\ Len(q) = Len(queue[n]) + 1 /\ q[Len(queue[n]) + 1] = job
          /\ \A i \in 1 .. Len(queue[n]) : q[i] = queue[n][i]
      BY <2>1, AppendFacts
    <3> HIDE DEF q, n
    <3> QED
      BY <2>1, <3>1
  <2>3. /\ queue' = [queue EXCEPT ![n] = q]
        /\ notify' = [notify EXCEPT ![t] = IF queue[n] = <<>> THEN n ELSE None]
        /\ UNCHANGED <<wpc, wjob, dead, mpc, alive_workers, last_worker, cleaning,
                       cleanIdx, resumables>>
    BY <1>2 DEF Schedule, Append1, UnsafeAppend
  <2> HIDE DEF n, q
  <2>4. TypeOK'
    <3>1. next_worker' \in Worker
      BY <1>2, <1>a DEF Schedule, Inv, TypeOK, Worker
    <3>2. live' \in SUBSET Job /\ refs' \in [Job -> Int]
      BY <1>2 DEF Schedule, Acquire, Inv, TypeOK
    <3>3. queue' \in [Worker -> Seq(Entry)] /\ notify' \in [Thread -> Worker \cup {None}]
      BY <2>1, <2>2, <2>3 DEF Inv, TypeOK, Entry
    <3> QED
      BY <2>3, <3>1, <3>2, <3>3 DEF Inv, TypeOK, Entry
  <2>5. NoLostNotification' /\ StopProtocol'
    <3>1. /\ wpc'[n] = "wait" => \/ \E x \in Thread : notify'[x] = n
                                 \/ queue[n] # <<>> /\ wpc[n] = "wait"
          /\ \A x \in Thread : notify[x] # None => notify'[x] = notify[x]
      BY <2>1, <2>3 DEF Inv, TypeOK
    <3>2. \A u \in Worker : /\ wpc'[u] = "wait" => wpc[u] = "wait"
                            /\ wpc'[u] # "exit" <=> wpc[u] # "exit"
                            /\ wjob'[u] = Helper => wjob[u] = Helper
      BY <2>3
    <3>3. UNCHANGED <<mpc, alive_workers, last_worker>> /\ 0 \in {-1, 0}
      BY <2>3
    <3> QED
      BY ONLY Inv, <2>1, <2>2, <2>3, <3>1, <3>2, <3>3, PutStep
  <2>6. Locals'
    <3>1. mpc \in {"run", "send"} => t # Main
      BY <1>2 DEF Schedule, Calls, Inv, Locals
    <3> QED
      BY <2>3, <3>1 DEF Inv, TypeOK, Locals, Thread
  <2> QED
    BY <2>4, <2>5, <2>6 DEF Inv
<1>3. ASSUME NEW w \in Worker, NEW job \in Job, Delay(w, job) PROVE Inv'
  <2> DEFINE q == <<job>> \o queue[w]
  <2>1. queue[w] \in Seq(Entry) /\ job \in Job /\ job \in Entry
    BY <1>3 DEF Inv, TypeOK, Entry, Delay
  <2>2. /\ q \in Seq(Entry)
        /\ \A i \in DOMAIN q :
             q[i] = Helper => i + (-1) \in DOMAIN queue[w] /\ queue[w][i + (-1)] = Helper
    <3>1. /\ q \in Seq(Entry) /\ Len(q) = Len(queue[w]) + 1
          /\ q[1] = job /\ \A i \in 2 .. Len(queue[w]) + 1 : q[i] = queue[w][i - 1]
      BY <2>1, PrependFacts
    <3> HIDE DEF q
    <3> QED
      BY <2>1, <3>1
  <2>3. /\ queue' = [queue EXCEPT ![w] = q]
        /\ wpc[w] = "resume" /\ wpc' = wpc
        /\ UNCHANGED <<next_worker, notify, dead, stopVars>>
    BY <1>3 DEF Delay, Prepend, UnsafeAppend
  <2> HIDE DEF q
  <2>4. TypeOK'
    <3>1. live' \in SUBSET Job /\ refs' \in [Job -> Int] /\ UNCHANGED wjob
      BY <1>3 DEF Delay, Acquire, Inv, TypeOK
    <3>2. queue' \in [Worker -> Seq(Entry)]
      BY <2>2, <2>3 DEF Inv, TypeOK, Entry
    <3> QED
      BY <2>3, <3>1, <3>2 DEF Inv, TypeOK, Entry
  <2>5. NoLostNotification' /\ StopProtocol'
    <3>1. wpc'[w] # "wait"
      BY <2>3 DEF Inv, TypeOK
    <3>2. \A u \in Worker : /\ wpc'[u] = "wait" => wpc[u] = "wait"
                            /\ wpc'[u] # "exit" <=> wpc[u] # "exit"
                            /\ wjob'[u] = Helper => wjob[u] = Helper
      BY <1>3, <2>3 DEF Inv, TypeOK, Delay
    <3>3. /\ UNCHANGED <<mpc, alive_workers, last_worker>> /\ (-1) \in {-1, 0}
          /\ \A x \in Thread : notify[x] # None => notify'[x] = notify[x]
      BY <2>3
    <3> QED
      BY ONLY Inv, w \in Worker, <2>2, <2>3, <3>1, <3>2, <3>3, PutStep
  <2>6. Locals'
    BY <1>3, <2>3 DEF Inv, TypeOK, Locals, Delay
  <2> QED
    BY <2>4, <2>5, <2>6 DEF Inv
<1>4. ASSUME NEW w \in Worker, ResumeLater(w) PROVE Inv'
  <2> DEFINE q == queue[w] \o <<wjob[w]>>
  <2>1. queue[w] \in Seq(Entry) /\ wjob[w] \in Job /\ wjob[w] \in Entry
    BY <1>4 DEF Inv, TypeOK, Entry, ResumeLater
  <2>2. /\ q \in Seq(Entry)
        /\ \A i \in DOMAIN q :
             q[i] = Helper => i + 0 \in DOMAIN queue[w] /\ queue[w][i + 0] = Helper
    <3>1. /\ q \in Seq(Entry) /\ Len(q) = Len(queue[w]) + 1
          /\ q[Len(queue[w]) + 1] = wjob[w] /\ \A i \in 1 .. Len(queue[w]) : q[i] = queue[w][i]
      BY <2>1, AppendFacts
    <3> HIDE DEF q
    <3> QED
      BY <2>1, <3>1
  <2>3. /\ queue' = [queue EXCEPT ![w] = q]
        /\ wpc[w] = "resume" /\ wpc' = [wpc EXCEPT ![w] = "poll"]
        /\ UNCHANGED <<next_worker, notify, dead, stopVars>>
    BY <1>4 DEF ResumeLater, Prepend, UnsafeAppend
  <2> HIDE DEF q
  <2>4. TypeOK'
    <3>1. queue' \in [Worker -> Seq(Entry)]
      BY <2>2, <2>3 DEF Inv, TypeOK, Entry
    <3> QED
      BY <1>4, <2>3, <3>1 DEF Inv, TypeOK, Entry, ResumeLater
  <2>5. NoLostNotification' /\ StopProtocol'
    <3>1. wpc'[w] # "wait"
      BY <2>3 DEF Inv, TypeOK
    <3>2. \A u \in Worker : /\ wpc'[u] = "wait" => wpc[u] = "wait"
                            /\ wpc'[u] # "exit" <=> wpc[u] # "exit"
                            /\ wjob'[u] = Helper => wjob[u] = Helper
      BY <1>4, <2>3 DEF Inv, TypeOK, ResumeLater
    <3>3. /\ UNCHANGED <<mpc, alive_workers, last_worker>> /\ 0 \in {-1, 0}
          /\ \A x \in Thread : notify[x] # None => notify'[x] = notify[x]
      BY <2>3
    <3> QED
      BY ONLY Inv, w \in Worker, <2>2, <2>3, <3>1, <3>2, <3>3, PutStep, ZenonT(40)
  <2>6. Locals'
    BY <1>4, <2>3 DEF Inv, TypeOK, Locals, ResumeLater
  <2> QED
    BY <2>4, <2>5, <2>6 DEF Inv
<1>5. ASSUME NEW w \in Worker, Poll(w) PROVE Inv'
  <2>1. CASE queue[w] # <<>>
    <3>1. /\ queue[w] \in Seq(Entry) /\ Tail(queue[w]) \in Seq(Entry)
          /\ 1 \in DOMAIN queue[w] /\ Head(queue[w]) = queue[w][1]
          /\ queue[w][1] \in Entry
          /\ \A i \in DOMAIN Tail(queue[w]) :
               i + 1 \in DOMAIN queue[w] /\ i + 1 # 1 /\ Tail(queue[w])[i] = queue[w][i + 1]
      <4>1. queue[w] \in Seq(Entry)
        BY DEF Inv, TypeOK, Entry
      <4> QED
        BY <4>1, <2>1, TailFacts
    <3>2. /\ Got(w, queue[w][1])
          /\ queue' = [queue EXCEPT ![w] = Tail(queue[w])]
          /\ wpc[w] \in {"poll", "steal"}
          /\ UNCHANGED <<next_worker, notify, live, dead, refs, stopVars>>
      BY <1>5, <2>1, <3>1 DEF Poll, PopHead
    <3>3. 1 \in {0, 1}
      OBVIOUS
    <3> QED
      BY ONLY Inv, w \in Worker, <2>1, <3>1, <3>2, <3>3, TakeStep, ZenonT(40)
  <2>2. CASE queue[w] = <<>>
    <3>1. /\ wpc[w] = "poll" /\ wpc' = [wpc EXCEPT ![w] = "wait"]
          /\ UNCHANGED <<queue, next_worker, wjob, notify, live, dead, refs, stopVars>>
      BY <1>5, <2>2 DEF Poll
    <3>2. TypeOK'
      BY <3>1 DEF Inv, TypeOK
    <3>3. NoLostNotification'
      BY <2>2, <3>1 DEF Inv, TypeOK, NoLostNotification
    <3>4. \A u \in Worker : wpc'[u] # "exit" <=> wpc[u] # "exit"
      BY <3>1 DEF Inv, TypeOK
    <3>5. StopProtocol'
      BY <3>1, <3>4 DEF Inv, StopProtocol
    <3>6. Locals'
      BY <3>1, SMTT(40) DEF Inv, TypeOK, Locals
    <3> QED
      BY <3>2, <3>3, <3>5, <3>6 DEF Inv
  <2> QED
    BY <2>1, <2>2
<1>6. ASSUME NEW w \in Worker, Steal(w) PROVE Inv'
  <2>1. ASSUME NEW v \in Victims(w), queue[v] # <<>>,
               Got(w, queue[v][Len(queue[v])]), PopTail(v)
        PROVE  Inv'
    <3>1. v \in Worker /\ queue[v] \in Seq(Entry)
      BY VictimIsAnother DEF Inv, TypeOK, Entry
    <3> DEFINE n == Len(queue[v])
               q == SubSeq(queue[v], 1, n - 1)
    <3>2. /\ q \in Seq(Entry) /\ n \in DOMAIN queue[v] /\ queue[v][n] \in Entry
          /\ \A i \in DOMAIN q :
               i + 0 \in DOMAIN queue[v] /\ i + 0 # n /\ q[i] = queue[v][i + 0]
      <4>1. /\ q \in Seq(Entry) /\ n \in Nat \ {0} /\ Len(q) = n - 1
            /\ \A i \in 1 .. n - 1 : q[i] = queue[v][i]
        BY <2>1, <3>1, FrontFacts
      <4>2. DOMAIN queue[v] = 1 .. n
        BY <3>1
      <4> HIDE DEF q, n
      <4> QED
        BY <3>1, <4>1, <4>2
    <3>3. /\ queue' = [queue EXCEPT ![v] = q]
          /\ wpc[w] \in {"poll", "steal"}
          /\ UNCHANGED <<next_worker, notify, live, dead, refs, stopVars>>
      BY <1>6, <2>1 DEF Steal, PopTail
    <3>4. Got(w, queue[v][n]) /\ 0 \in {0, 1} /\ queue[v] # <<>>
      BY <2>1
    <3> HIDE DEF q, n
    <3> QED
      BY ONLY Inv, w \in Worker, <3>1, <3>2, <3>3, <3>4, TakeStep, ZenonT(40)
  <2>2. CASE wpc' = [wpc EXCEPT ![w] = "poll"] /\ UNCHANGED <<queue, wjob>>
    <3>1. /\ wpc[w] = "steal"
          /\ UNCHANGED <<next_worker, notify, live, dead, refs, stopVars>>
      BY <1>6 DEF Steal
    <3>2. TypeOK'
      BY <2>2, <3>1 DEF Inv, TypeOK
    <3>3. NoLostNotification'
      BY <2>2, <3>1 DEF Inv, TypeOK, NoLostNotification
    <3>4. \A u \in Worker : wpc'[u] # "exit" <=> wpc[u] # "exit"
      BY <2>2, <3>1 DEF Inv, TypeOK
    <3>5. StopProtocol'
      BY <2>2, <3>1, <3>4 DEF Inv, StopProtocol
    <3>6. Locals'
      BY <2>2, <3>1 DEF Inv, TypeOK, Locals
    <3> QED
      BY <3>2, <3>3, <3>5, <3>6 DEF Inv
  <2> QED
    BY <1>6, <2>1, <2>2 DEF Steal
<1>7. ASSUME NEW w \in Worker, Timeout(w) PROVE Inv'
  <2>1. TypeOK'
    BY <1>7 DEF Inv, TypeOK, Locals, Timeout
  <2>2. NoLostNotification'
    BY <1>7 DEF Inv, TypeOK, NoLostNotification, Timeout
  <2>3. StopProtocol'
    <3>1. /\ UNCHANGED <<queue, mpc, alive_workers, last_worker>>
          /\ \A u \in Worker : wjob'[u] = Helper => wjob[u] = Helper
          /\ \A u \in Worker : wpc'[u] # "exit" <=> wpc[u] # "exit"
      BY <1>7, NamesAssumption DEF Inv, TypeOK, Timeout, stopVars
    <3> QED
      BY <3>1, StopKept DEF Inv
  <2>4. Locals'
    BY <1>7 DEF Inv, TypeOK, Locals, Entry, Thread, Timeout
  <2> QED
    BY <2>1, <2>2, <2>3, <2>4 DEF Inv
<1>8. ASSUME NEW w \in Worker, Suspend(w) PROVE Inv'
  <2>1. TypeOK'
    BY <1>8 DEF Inv, TypeOK, Locals, Suspend
  <2>2. NoLostNotification'
    BY <1>8 DEF Inv, TypeOK, NoLostNotification, Suspend
  <2>3. StopProtocol'
    <3>1. /\ UNCHANGED <<queue, mpc, alive_workers, last_worker>>
          /\ \A u \in Worker : wjob'[u] = Helper => wjob[u] = Helper
          /\ \A u \in Worker : wpc'[u] # "exit" <=> wpc[u] # "exit"
      BY <1>8, NamesAssumption DEF Inv, TypeOK, Suspend, stopVars
    <3> QED
      BY <3>1, StopKept DEF Inv
  <2>4. Locals'
    BY <1>8 DEF Inv, TypeOK, Locals, Entry, Thread, Suspend
  <2> QED
    BY <2>1, <2>2, <2>3, <2>4 DEF Inv
<1>9. ASSUME NEW w \in Worker, Release(w) PROVE Inv'
  <2>1. TypeOK'
    BY <1>9 DEF Inv, TypeOK, Locals, Release
  <2>2. NoLostNotification'
    BY <1>9 DEF Inv, TypeOK, NoLostNotification, Release
  <2>3. StopProtocol'
    <3>1. /\ UNCHANGED <<queue, mpc, alive_workers, last_worker>>
          /\ \A u \in Worker : wjob'[u] = Helper => wjob[u] = Helper
          /\ \A u \in Worker : wpc'[u] # "exit" <=> wpc[u] # "exit"
      BY <1>9, NamesAssumption DEF Inv, TypeOK, Release, stopVars
    <3> QED
      BY <3>1, StopKept DEF Inv
  <2>4. Locals'
    BY <1>9 DEF Inv, TypeOK, Locals, Entry, Thread, Release
  <2> QED
    BY <2>1, <2>2, <2>3, <2>4 DEF Inv
<1>10. ASSUME NEW w \in Worker, Shutdown(w) PROVE Inv'
  <2>1. TypeOK'
    BY <1>10 DEF Inv, TypeOK, Locals, Shutdown
  <2>2. NoLostNotification'
    BY <1>10 DEF Inv, TypeOK, NoLostNotification, Shutdown
  <2>3. StopProtocol'
    <3>1. /\ UNCHANGED <<queue, mpc, alive_workers>> /\ last_worker' = w
          /\ wjob[w] = Helper /\ mpc = "wait" /\ last_worker = None
          /\ \A u \in Worker : u # w => wjob[u] # Helper
      BY <1>10 DEF Inv, StopProtocol, Shutdown
    <3>2. \A u \in Worker : wjob'[u] # Helper
      BY <1>10, <3>1, NamesAssumption DEF Inv, TypeOK, Shutdown
    <3>3. \A u \in Worker : \A i \in DOMAIN queue[u] : queue[u][i] # Helper
      BY <3>1 DEF Inv, StopProtocol
    <3>4. \A u \in Worker : wpc'[u] # "exit" <=> u # w /\ wpc[u] # "exit"
      BY <1>10 DEF Inv, TypeOK, Shutdown
    <3>5. alive_workers = {u \in Worker : wpc[u] # "exit"}
      <4>1. alive_workers \ {None} = {u \in Worker : wpc[u] # "exit"}
        BY <3>1 DEF Inv, StopProtocol
      <4>2. None \notin alive_workers
        BY NamesAssumption DEF Inv, TypeOK
      <4> QED
        BY <4>1, <4>2
    <3>6. alive_workers' \ {last_worker'} = {u \in Worker : wpc'[u] # "exit"}
      BY <3>1, <3>4, <3>5
    <3>7. queue' = queue /\ mpc' = "wait"
      BY <3>1
    <3> QED
      BY <3>2, <3>3, <3>6, <3>7 DEF StopProtocol, Worker
  <2>4. Locals'
    <3>1. mpc = "wait" /\ mpc' = mpc /\ notify' = notify /\ cleaning' = cleaning
      BY <1>10 DEF Inv, StopProtocol, Shutdown
    <3>2. /\ wpc'[w] = "exit" /\ wjob'[w] = None
          /\ \A u \in Worker \ {w} : wpc'[u] = wpc[u] /\ wjob'[u] = wjob[u]
      BY <1>10 DEF Inv, TypeOK, Shutdown
    <3> QED
      BY <3>1, <3>2 DEF Inv, Locals
  <2> QED
    BY <2>1, <2>2, <2>3, <2>4 DEF Inv
<1>11. CASE Stop
  <2>1. TypeOK'
    BY <1>11 DEF Inv, TypeOK, Locals, Stop
  <2>2. NoLostNotification'
    BY <1>11 DEF Inv, TypeOK, NoLostNotification, Stop
  <2>3. StopProtocol'
    <3>1. /\ \A w \in Worker : wjob[w] # Helper /\ wpc[w] # "exit"
          /\ \A w \in Worker : \A i \in DOMAIN queue[w] : queue[w][i] # Helper
          /\ last_worker = None
      BY <1>11 DEF Inv, StopProtocol, Locals, Stop
    <3>2. /\ queue' = queue /\ wjob' = wjob /\ wpc' = wpc
          /\ last_worker' = last_worker /\ alive_workers' = Worker
      BY <1>11 DEF Stop, workerVars
    <3>3. alive_workers' \ {last_worker'} = {w \in Worker : wpc'[w] # "exit"}
      BY <3>1, <3>2, NamesAssumption
    <3> QED
      BY <3>1, <3>2, <3>3 DEF StopProtocol, Worker
  <2>4. Locals'
    BY <1>11 DEF Inv, TypeOK, Locals, Entry, Thread, Stop
  <2> QED
    BY <2>1, <2>2, <2>3, <2>4 DEF Inv
<1>12. CASE Collect
  <2>1. TypeOK'
    BY <1>12 DEF Inv, TypeOK, Locals, Collect
  <2>2. NoLostNotification'
    BY <1>12 DEF Inv, TypeOK, NoLostNotification, Collect
  <2>3. StopProtocol'
    <3>1. /\ \A w \in Worker : wjob[w] # Helper
          /\ \A w \in Worker : \A i \in DOMAIN queue[w] : queue[w][i] # Helper
          /\ alive_workers \ {last_worker} = {w \in Worker : wpc[w] # "exit"}
      BY <1>12 DEF Inv, StopProtocol, Collect
    <3>2. /\ queue' = queue /\ wjob' = wjob /\ wpc' = wpc /\ last_worker' = None
          /\ alive_workers' = alive_workers \ {last_worker}
      BY <1>12 DEF Collect, workerVars
    <3>3. alive_workers' \ {last_worker'} = {w \in Worker : wpc'[w] # "exit"}
      BY <3>1, <3>2, NamesAssumption
    <3> QED
      BY <3>1, <3>2, <3>3 DEF StopProtocol, Worker
  <2>4. Locals'
    BY <1>12 DEF Inv, TypeOK, Locals, Entry, Thread, Collect
  <2> QED
    BY <2>1, <2>2, <2>3, <2>4 DEF Inv
<1>13. CASE Join
  <2>1. TypeOK'
    BY <1>13 DEF Inv, TypeOK, Locals, Join
  <2>2. NoLostNotification'
    BY <1>13 DEF Inv, TypeOK, NoLostNotification, Join
  <2>3. StopProtocol'
    BY <1>13 DEF Inv, TypeOK, StopProtocol, Locals, Join
  <2>4. Locals'
    BY <1>13 DEF Inv, TypeOK, Locals, Entry, Thread, Join
  <2> QED
    BY <2>1, <2>2, <2>3, <2>4 DEF Inv
<1>14. ASSUME NEW job \in Job, CleanupDelay(job) PROVE Inv'
  <2>1. TypeOK'
    BY <1>14 DEF Inv, TypeOK, Locals, CleanupDelay, Acquire
  <2>2. NoLostNotification'
    BY <1>14 DEF Inv, TypeOK, NoLostNotification, CleanupDelay
  <2>3. StopProtocol'
    BY <1>14 DEF Inv, TypeOK, StopProtocol, Locals, CleanupDelay
  <2>4. Locals'
    BY <1>14 DEF Inv, TypeOK, Locals, Entry, Thread, CleanupDelay
  <2> QED
    BY <2>1, <2>2, <2>3, <2>4 DEF Inv
<1>15. CASE CleanupSub
  <2>1. TypeOK'
    BY <1>15 DEF Inv, TypeOK, Locals, CleanupSub
  <2>2. NoLostNotification'
    BY <1>15 DEF Inv, TypeOK, NoLostNotification, CleanupSub
  <2>3. StopProtocol'
    BY <1>15 DEF Inv, TypeOK, StopProtocol, Locals, CleanupSub
  <2>4. Locals'
    BY <1>15 DEF Inv, TypeOK, Locals, Entry, Thread, CleanupSub
  <2> QED
    BY <2>1, <2>2, <2>3, <2>4 DEF Inv
<1>16. CASE CleanupRelease
  <2>1. TypeOK'
    BY <1>16 DEF Inv, TypeOK, Locals, CleanupRelease
  <2>2. NoLostNotification'
    BY <1>16 DEF Inv, TypeOK, NoLostNotification, CleanupRelease
  <2>3. StopProtocol'
    BY <1>16 DEF Inv, TypeOK, StopProtocol, Locals, CleanupRelease
  <2>4. Locals'
    BY <1>16 DEF Inv, TypeOK, Locals, Entry, Thread, CleanupRelease
  <2> QED
    BY <2>1, <2>2, <2>3, <2>4 DEF Inv
<1>17. CASE SendHelper
  <2>1. PICK w \in Worker :
          /\ queue' = [queue EXCEPT ![w] = queue[w] \o <<Helper>>]
          /\ notify' = [notify EXCEPT ![Main] = IF queue[w] = <<>> THEN w ELSE None]
    BY <1>17 DEF SendHelper, Append1, UnsafeAppend, Inv, TypeOK
  <2>2. /\ mpc = "send" /\ mpc' = "wait"
        /\ UNCHANGED <<next_worker, wpc, wjob, live, dead, refs, alive_workers,
                       last_worker, cleaning, cleanIdx, resumables>>
    BY <1>17 DEF SendHelper
  <2>3. notify[Main] = None /\ Main \in Thread
    BY <2>2 DEF Inv, Locals, Thread
  <2>4. queue[w] \in Seq(Entry) /\ Helper \in Entry
    BY DEF Inv, TypeOK, Entry
  <2> DEFINE q == queue[w] \o <<Helper>>
  <2>5. /\ q \in Seq(Entry) /\ Len(q) = Len(queue[w]) + 1
        /\ \A i \in 1 .. Len(queue[w]) : q[i] = queue[w][i]
    BY <2>4, AppendFacts
  <2>6. queue' = [queue EXCEPT ![w] = q]
    BY <2>1
  <2> HIDE DEF q
  <2>7. TypeOK'
    <3>1. queue' \in [Worker -> Seq(Entry)] /\ notify' \in [Thread -> Worker \cup {None}]
      BY <2>1, <2>3, <2>5, <2>6 DEF Inv, TypeOK, Entry
    <3> QED
      BY <2>2, <3>1 DEF Inv, TypeOK, Entry
  <2>8. NoLostNotification'
    <3>1. SUFFICES ASSUME NEW u \in Worker, wpc[u] = "wait", queue'[u] # <<>>
                   PROVE  \E x \in Thread : notify'[x] = u
      BY <2>2 DEF NoLostNotification
    <3>2. CASE queue[u] # <<>>
      <4>1. PICK x \in Thread : notify[x] = u
        BY <3>1, <3>2 DEF Inv, NoLostNotification
      <4>2. notify'[x] = u
        BY <4>1, <2>1, <2>3 DEF Inv, TypeOK
      <4> QED
        BY <4>2
    <3>3. CASE queue[u] = <<>>
      <4>1. u = w
        BY <3>1, <3>3, <2>6 DEF Inv, TypeOK
      <4>2. notify'[Main] = u
        BY <4>1, <3>3, <2>1, <2>3 DEF Inv, TypeOK
      <4> QED
        BY <4>2, <2>3
    <3> QED
      BY <3>2, <3>3
  <2>9. StopProtocol'
    <3>1. /\ \A v \in Worker : \A i \in DOMAIN queue[v] : queue[v][i] # Helper
          /\ \A v \in Worker : wjob[v] # Helper
          /\ last_worker = None
      BY <2>2 DEF Inv, StopProtocol
    <3>2. \A v \in Worker : \A i \in DOMAIN queue'[v] :
            queue'[v][i] = Helper => v = w /\ i = Len(queue[w]) + 1
      <4> SUFFICES ASSUME NEW v \in Worker, NEW i \in DOMAIN queue'[v],
                          queue'[v][i] = Helper
                   PROVE  v = w /\ i = Len(queue[w]) + 1
        OBVIOUS
      <4>1. CASE v = w
        <5>1. queue'[w] = q
          BY <2>6 DEF Inv, TypeOK
        <5>2. DOMAIN q = 1 .. Len(queue[w]) + 1 /\ DOMAIN queue[w] = 1 .. Len(queue[w])
          BY <2>4, <2>5
        <5> QED
          BY <4>1, <5>1, <5>2, <2>4, <2>5, <3>1
      <4>2. CASE v # w
        BY <4>2, <2>6, <3>1 DEF Inv, TypeOK
      <4> QED
        BY <4>1, <4>2
    <3> QED
      BY <2>2, <3>1, <3>2 DEF Inv, StopProtocol
  <2>10. Locals'
    BY <2>2 DEF Inv, Locals
  <2> QED
    BY <2>7, <2>8, <2>9, <2>10 DEF Inv
<1>18. CASE CleanupNext
  <2>1. /\ mpc = "cleanup" /\ cleaning = None /\ cleanIdx \in Worker
        /\ UNCHANGED <<next_worker, wpc, wjob, notify, live, dead, refs,
                       alive_workers, last_worker, resumables>>
    BY <1>18 DEF CleanupNext, Inv, TypeOK
  <2>2. \A v \in Worker : \A i \in DOMAIN queue[v] : queue[v][i] # Helper
    BY <2>1 DEF Inv, StopProtocol
  <2>3. CASE queue[cleanIdx] # <<>>
    <3> DEFINE s == queue[cleanIdx]
    <3>1. /\ s \in Seq(Entry) /\ Tail(s) \in Seq(Entry) /\ Head(s) \in Job
          /\ \A i \in DOMAIN Tail(s) : Tail(s)[i] # Helper
      <4>1. s \in Seq(Entry)
        BY <2>1 DEF Inv, TypeOK, Entry
      <4>2. /\ Tail(s) \in Seq(Entry) /\ Len(s) \in Nat \ {0} /\ Head(s) = s[1]
            /\ Len(Tail(s)) = Len(s) - 1
            /\ \A i \in 1 .. Len(s) - 1 : Tail(s)[i] = s[i + 1]
        BY <4>1, <2>3, TailFacts
      <4>3. 1 \in DOMAIN s /\ s[1] \in Entry /\ s[1] # Helper
        BY <4>1, <4>2, <2>1, <2>2
      <4>4. \A i \in 1 .. Len(s) : s[i] # Helper
        BY <4>1, <2>1, <2>2
      <4> HIDE DEF s
      <4>5. Head(s) \in Job
        BY <4>2, <4>3 DEF Entry
      <4>6. DOMAIN Tail(s) = 1 .. Len(s) - 1
        BY <4>2
      <4>7. \A i \in 1 .. Len(s) - 1 : i + 1 \in 1 .. Len(s)
        BY <4>2
      <4>8. \A i \in DOMAIN Tail(s) : Tail(s)[i] # Helper
        BY <4>2, <4>4, <4>6, <4>7
      <4> QED
        BY <4>1, <4>2, <4>5, <4>8
    <3>2. /\ cleaning' = Head(s) /\ UNCHANGED <<mpc, cleanIdx>>
          /\ queue' = [queue EXCEPT ![cleanIdx] = Tail(s)]
      BY <1>18, <2>3 DEF CleanupNext, PopHead
    <3>3. /\ \A v \in Worker : \A i \in DOMAIN queue'[v] : queue'[v][i] # Helper
          /\ \A v \in Worker : queue'[v] # <<>> => queue[v] # <<>>
      BY <2>1, <2>2, <2>3, <3>1, <3>2 DEF Inv, TypeOK
    <3>4. TypeOK'
      <4>1. queue' \in [Worker -> Seq(Entry)]
        BY <2>1, <3>1, <3>2 DEF Inv, TypeOK, Entry
      <4> HIDE DEF s
      <4> QED
        BY <2>1, <3>1, <3>2, <4>1 DEF Inv, TypeOK, Entry
    <3> HIDE DEF s
    <3>5. NoLostNotification'
      <4> SUFFICES ASSUME NEW u \in Worker, wpc'[u] = "wait", queue'[u] # <<>>
                   PROVE  \E t \in Thread : notify'[t] = u
        BY DEF NoLostNotification
      <4>1. wpc[u] = "wait" /\ queue[u] # <<>>
        BY <2>1, <3>3
      <4>2. PICK t \in Thread : notify[t] = u
        BY <4>1 DEF Inv, NoLostNotification
      <4> QED
        BY <2>1, <4>2
    <3>6. StopProtocol'
      BY <2>1, <3>2, <3>3, ZenonT(40) DEF Inv, StopProtocol
    <3>7. Locals'
      BY <2>1, <3>2 DEF Inv, Locals
    <3> QED
      BY <3>4, <3>5, <3>6, <3>7 DEF Inv
  <2>4. CASE queue[cleanIdx] = <<>>
    <3>1. /\ mpc' \in {"cleanup", "stopped"} /\ UNCHANGED <<queue, cleaning>>
          /\ cleanIdx' \in Worker
      BY <1>18, <2>1, <2>4, <1>a DEF CleanupNext, Worker
    <3>2. TypeOK'
      BY <2>1, <3>1 DEF Inv, TypeOK
    <3>3. NoLostNotification'
      BY <2>1, <3>1 DEF Inv, NoLostNotification
    <3>4. StopProtocol'
      BY <2>1, <2>2, <3>1 DEF Inv, StopProtocol
    <3>5. Locals'
      BY <2>1, <3>1 DEF Inv, Locals
    <3> QED
      BY <3>2, <3>3, <3>4, <3>5 DEF Inv
  <2> QED
    BY <2>3, <2>4
<1>19. CASE UNCHANGED vars
  <2>1. TypeOK'
    BY <1>19 DEF Inv, TypeOK, vars, workerVars, stopVars
  <2>2. NoLostNotification'
    BY <1>19 DEF Inv, NoLostNotification, vars, workerVars, stopVars
  <2>3. StopProtocol'
    BY <1>19, StopKept DEF Inv, vars, workerVars, stopVars
  <2>4. Locals'
    BY <1>19 DEF Inv, Locals, vars, workerVars, stopVars
  <2> QED
    BY <2>1, <2>2, <2>3, <2>4 DEF Inv
<1> QED
  BY <1>1, <1>2, <1>3, <1>4, <1>5, <1>6, <1>7, <1>8, <1>9, <1>10, <1>11, <1>12,
     <1>13, <1>14, <1>15, <1>16, <1>17, <1>18, <1>19 DEF Next, Run, StopStep

\* The variables of the scheduler keep their types; in particular the clean-up
\* loop of stop() never meets its own helper.
THEOREM TypeCorrect == Spec => []TypeOK
<1>1. Inv => TypeOK
  BY DEF Inv
<1> QED
  BY <1>1, InitInv, NextInv, PTL DEF Spec

\* A worker never sleeps on a queue with jobs for which no notification is under
\* way, although append notifies for an empty queue only.
THEOREM NotificationsSuffice == Spec => []NoLostNotification
<1>1. Inv => NoLostNotification
  BY DEF Inv
<1> QED
  BY <1>1, InitInv, NextInv, PTL DEF Spec

\* stop() counts its workers correctly, whoever steals its helper.
THEOREM StopIsExact == Spec => []StopProtocol
<1>1. Inv => StopProtocol
  BY DEF Inv
<1> QED
  BY <1>1, InitInv, NextInv, PTL DEF Spec
=============================================================================
