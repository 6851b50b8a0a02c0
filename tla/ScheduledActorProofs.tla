------------------------ MODULE ScheduledActorProofs ------------------------
(* Proofs about module ScheduledActor, for any number of workers, requests  *)
(* and messages: an actor with an idle handler never sleeps without a timer, *)
(* although a worker resets the timer when the actor is no longer its own.   *)
EXTENDS ScheduledActor, SequenceTheorems, TLAPS

Kinds == {"nothing", "note", "response", "timeout"} \cup {"exit", "kill"}

Message == [kind : Kinds,
            about : Note \cup Request \cup {"", "current", "stale"}]

Fields == {"inbox", "closed", "stash", "awaited", "multiplexed", "issued",
           "initialized", "bhvr", "terminated", "mode", "strong", "handled",
           "replied", "arrived", "served"}

GoodSelf(s) ==
    /\ s = [f \in Fields |-> s[f]]
    /\ s.inbox \in Seq(Message)
    /\ s.stash \in Seq(Message)

GoodClock(c) ==
    /\ c = [f \in {"request", "pending", "firing"} |-> c[f]]
    /\ c.request \subseteq Request
    /\ c.firing \in Message

GoodEnv(e) ==
    /\ e = [f \in {"self", "clock", "asked"} |-> e[f]]
    /\ GoodSelf(e.self) /\ GoodClock(e.clock)
    /\ e.asked \subseteq Request

\* A step from e to f that leaves the mailbox open, or closed.
Keeps(e, f) == GoodEnv(f) /\ f.self.closed = e.self.closed

Current == Msg("timeout", "current")

\* The idle timeout will reach the actor.
Armed(s, c) ==
    \/ c.pending
    \/ c.firing = Current
    \/ \E i \in 1 .. Len(s.inbox) : s.inbox[i] = Current

TypeInv ==
    /\ consumed \in Nat /\ leaving \in Nat
    /\ GoodEnv(Env)

IInv ==
    /\ TypeInv
    /\ job \in {"idle", "ready"} => consumed = 0
    /\ job = "idle" => self.inbox = <<>>
    /\ job \in {"ready", "running", "idle"} => ~self.closed
    /\ (leaving = 0 /\ consumed = 0 /\ job \in {"ready", "running", "idle"}
          /\ self.mode # "none") => Armed(self, clock)
-----------------------------------------------------------------------------
(* The operators of a step keep the shape of its state.                     *)

\* The messages that the actor receives.
LEMMA MsgType ==
    ASSUME NEW k \in Kinds, NEW a \in Note \cup Request \cup {"", "current", "stale"}
    PROVE  Msg(k, a) \in Message
BY DEF Msg, Message

\* A timeout that is outdated is a message.
LEMMA OutdatedType == \A m \in Message : Outdated(m) \in Message
BY MsgType DEF Outdated, Message, Kinds

\* timeout_state_.id changes: the number of messages stays.
LEMMA NewIdType ==
    ASSUME NEW e, GoodEnv(e)
    PROVE  /\ GoodEnv(NewId(e)) /\ NewId(e).self.mode = e.self.mode
           /\ NewId(e).self.closed = e.self.closed
           /\ Len(NewId(e).self.inbox) = Len(e.self.inbox)
<1> DEFINE q == [i \in DOMAIN e.self.inbox |-> Outdated(e.self.inbox[i])]
           f == Outdated(e.clock.firing)
<1>1. q \in Seq(Message) /\ Len(q) = Len(e.self.inbox)
  <2>1. Len(e.self.inbox) \in Nat /\ DOMAIN e.self.inbox = 1 .. Len(e.self.inbox)
        /\ \A i \in 1 .. Len(e.self.inbox) : e.self.inbox[i] \in Message
    BY LenProperties, ElementOfSeq DEF GoodEnv, GoodSelf
  <2>2. q \in [1 .. Len(e.self.inbox) -> Message]
    BY <2>1, OutdatedType
  <2> QED
    BY <2>1, <2>2, SeqDef
<1>2. f \in Message
  BY OutdatedType DEF GoodEnv, GoodClock
<1> HIDE DEF f
<1>3. NewId(e) = [e EXCEPT !.clock.firing = f, !.self.inbox = q]
  BY DEF NewId, f
<1> HIDE DEF q
<1>4. /\ NewId(e).self = [e.self EXCEPT !.inbox = q]
      /\ NewId(e).clock = [e.clock EXCEPT !.firing = f]
      /\ NewId(e).asked = e.asked
      /\ NewId(e) = [g \in {"self", "clock", "asked"} |-> NewId(e)[g]]
  BY <1>3 DEF GoodEnv
<1>5. GoodSelf(NewId(e).self)
  BY <1>1, <1>4 DEF GoodEnv, GoodSelf, Fields
<1>6. GoodClock(NewId(e).clock)
  BY <1>2, <1>4 DEF GoodEnv, GoodClock
<1>7. /\ NewId(e).self.mode = e.self.mode /\ NewId(e).self.closed = e.self.closed
      /\ NewId(e).self.inbox = q
  BY <1>4 DEF GoodEnv, GoodSelf, Fields
<1> QED
  BY <1>1, <1>4, <1>5, <1>6, <1>7 DEF GoodEnv

\* pending.dispose().
LEMMA DisposeType ==
    ASSUME NEW e, GoodEnv(e)
    PROVE  /\ GoodEnv(Dispose(e)) /\ Dispose(e).self = e.self
           /\ Dispose(e).asked = e.asked
<1>1. /\ Dispose(e).self = e.self /\ Dispose(e).asked = e.asked
      /\ Dispose(e).clock = [e.clock EXCEPT !.pending = FALSE]
      /\ Dispose(e) = [g \in {"self", "clock", "asked"} |-> Dispose(e)[g]]
  BY DEF GoodEnv, Dispose
<1>2. GoodClock(Dispose(e).clock)
  BY <1>1 DEF GoodEnv, GoodClock
<1> QED
  BY <1>1, <1>2 DEF GoodEnv

\* set_receive_timeout: with an idle handler there is a timer afterwards.
LEMMA TimeoutType ==
    ASSUME NEW e, GoodEnv(e)
    PROVE  /\ Keeps(e, SetReceiveTimeout(e))
           /\ SetReceiveTimeout(e).self.mode = e.self.mode
           /\ Len(SetReceiveTimeout(e).self.inbox) = Len(e.self.inbox)
           /\ e.self.mode # "none" => SetReceiveTimeout(e).clock.pending
<1>1. CASE e.self.mode = "none"
  BY <1>1, DisposeType DEF SetReceiveTimeout, Keeps
<1>2. CASE e.self.mode # "none"
  <2> DEFINE n == NewId(e)
             f == [n EXCEPT !.clock.pending = TRUE]
  <2>1. /\ GoodEnv(n) /\ n.self.mode = e.self.mode
        /\ n.self.closed = e.self.closed
        /\ Len(n.self.inbox) = Len(e.self.inbox)
    BY NewIdType
  <2>2. SetReceiveTimeout(e) = f
    BY <1>2 DEF SetReceiveTimeout
  <2> HIDE DEF n
  <2>3. /\ f.self = n.self /\ f.asked = n.asked
        /\ f.clock = [n.clock EXCEPT !.pending = TRUE]
        /\ f = [g \in {"self", "clock", "asked"} |-> f[g]]
    BY <2>1 DEF GoodEnv
  <2> HIDE DEF f
  <2>4. GoodClock(f.clock) /\ f.clock.pending
    BY <2>1, <2>3 DEF GoodEnv, GoodClock
  <2> QED
    BY <2>1, <2>2, <2>3, <2>4 DEF GoodEnv, Keeps
<1> QED
  BY <1>1, <1>2

\* set_idle_handler: the same, unless it sets none.
LEMMA IdleType ==
    ASSUME NEW e, GoodEnv(e), NEW mode
    PROVE  /\ Keeps(e, SetIdleHandler(e, mode))
           /\ Len(SetIdleHandler(e, mode).self.inbox) = Len(e.self.inbox)
           /\ IF mode = "none" THEN SetIdleHandler(e, mode) = e
              ELSE SetIdleHandler(e, mode).clock.pending
<1>1. CASE mode = "none"
  BY <1>1 DEF SetIdleHandler, Keeps
<1>2. CASE mode # "none"
  <2> DEFINE s == Strong(mode)
             f == [e EXCEPT !.self.mode = mode, !.self.strong = s]
  <2> HIDE DEF s
  <2>1. /\ f.self = [e.self EXCEPT !.mode = mode, !.strong = s]
        /\ f.clock = e.clock /\ f.asked = e.asked
        /\ f = [g \in {"self", "clock", "asked"} |-> f[g]]
    BY DEF GoodEnv
  <2>2. SetIdleHandler(e, mode) = SetReceiveTimeout(f)
    BY <1>2 DEF SetIdleHandler, s
  <2> HIDE DEF f
  <2>3. GoodEnv(f) /\ f.self.mode = mode /\ f.self.closed = e.self.closed
        /\ f.self.inbox = e.self.inbox
    BY <2>1 DEF GoodEnv, GoodSelf, Fields
  <2> QED
    BY <1>2, <2>2, <2>3, TimeoutType DEF Keeps
<1> QED
  BY <1>1, <1>2

\* Values of the members that the sequences of messages do not depend on.
LEMMA SelfType ==
    ASSUME NEW e, GoodEnv(e), NEW f, NEW s,
           f = [e EXCEPT !.self = s], GoodSelf(s), s.closed = e.self.closed
    PROVE  Keeps(e, f) /\ f.self = s /\ f.clock = e.clock /\ f.asked = e.asked
BY DEF GoodEnv, Keeps

\* quit.
LEMMA QuitType ==
    ASSUME NEW e, GoodEnv(e)
    PROVE  Keeps(e, Quit(e))
<1> DEFINE s == [e.self EXCEPT !.bhvr = FALSE, !.awaited = <<>>,
                               !.multiplexed = {}]
<1>1. GoodSelf(s) /\ s.closed = e.self.closed
  BY DEF GoodEnv, GoodSelf, Fields
<1>2. Quit(e) = [e EXCEPT !.self = s]
  BY DEF Quit, GoodEnv
<1> HIDE DEF s
<1> QED
  BY <1>1, <1>2, SelfType

\* request, with then or await.
LEMMA SendRequestType ==
    ASSUME NEW e, GoodEnv(e), NEW r \in Request, NEW kind
    PROVE  Keeps(e, SendRequest(e, r, kind))
<1> DEFINE i == e.self.issued \cup {r}
           w == IF kind = "await" THEN <<r>> \o e.self.awaited ELSE e.self.awaited
           x == IF kind = "then" THEN e.self.multiplexed \cup {r}
                                 ELSE e.self.multiplexed
           s == [e.self EXCEPT !.issued = i, !.awaited = w, !.multiplexed = x]
           f == SendRequest(e, r, kind)
<1>1. /\ f.self = s /\ f.asked = e.asked \cup {r}
      /\ f.clock = [e.clock EXCEPT !.request = @ \cup ({r} \ Infinite)]
      /\ f = [g \in {"self", "clock", "asked"} |-> f[g]]
  BY DEF GoodEnv, GoodSelf, Fields, SendRequest
<1> HIDE DEF i, w, x
<1>2. GoodSelf(s) /\ s.closed = e.self.closed
  BY DEF GoodEnv, GoodSelf, Fields
<1> HIDE DEF s, f
<1>3. GoodClock(f.clock)
  BY <1>1 DEF GoodEnv, GoodClock
<1> QED
  BY <1>1, <1>2, <1>3 DEF GoodEnv, Keeps, f

\* What the user's handler may do.
LEMMA UserType ==
    ASSUME NEW e, GoodEnv(e), NEW t, NEW u \in UserActs(t)
    PROVE  Keeps(e, User(e, u))
<1>1. CASE u.kind = "quit"
  BY <1>1, QuitType DEF User
<1>2. CASE u.kind = "unbecome"
  <2> DEFINE s == [e.self EXCEPT !.bhvr = FALSE]
  <2>1. GoodSelf(s) /\ s.closed = e.self.closed
    BY DEF GoodEnv, GoodSelf, Fields
  <2>2. User(e, u) = [e EXCEPT !.self = s]
    BY <1>2 DEF User, GoodEnv
  <2> HIDE DEF s
  <2> QED
    BY <2>1, <2>2, SelfType
<1>3. CASE u.kind \in {"then", "await"}
  <2>1. u.kind \notin {"nothing", "quit", "unbecome", "rearm"}
    BY <1>3
  <2>2. \A k : Msg(k, "").kind = k
    BY DEF Msg
  <2>3. u \notin {Nothing, Msg("quit", ""), Msg("unbecome", ""), Msg("rearm", "")}
    BY <2>1, <2>2 DEF Nothing
  <2>4. u \in [kind : {"then", "await"}, about : Request \ t.issued]
    BY <2>3 DEF UserActs
  <2> QED
    BY <1>3, <2>4, SendRequestType DEF User
<1>4. CASE u.kind \notin {"quit", "unbecome", "then", "await"}
  BY <1>4 DEF User, Keeps
<1> QED
  BY <1>1, <1>2, <1>3, <1>4

\* The user's code sets no timer and leaves the mailbox alone.
LEMMA UserLeaves ==
    ASSUME NEW e, GoodEnv(e), NEW t, NEW u \in UserActs(t)
    PROVE  LET f == User(e, u)
           IN  /\ f.self.mode = e.self.mode /\ f.self.inbox = e.self.inbox
               /\ f.clock.pending = e.clock.pending
               /\ f.clock.firing = e.clock.firing
<1>1. CASE u.kind = "quit"
  BY <1>1 DEF User, Quit, GoodEnv, GoodSelf, Fields
<1>2. CASE u.kind = "unbecome"
  BY <1>2 DEF User, GoodEnv, GoodSelf, Fields
<1>3. CASE u.kind \in {"then", "await"}
  BY <1>3 DEF User, SendRequest, GoodEnv, GoodSelf, GoodClock, Fields
<1>4. CASE u.kind \notin {"quit", "unbecome", "then", "await"}
  BY <1>4 DEF User
<1> QED
  BY <1>1, <1>2, <1>3, <1>4

\* handle_timeout.
LEMMA HandleTimeoutType ==
    ASSUME NEW e, GoodEnv(e), NEW t, NEW u \in UserActs(t)
    PROVE  Keeps(e, HandleTimeout(e, u))
<1> DEFINE n == NewId(e)
           reset == [n EXCEPT !.self.mode = "none"]
           v == User(reset, u)
           again == [v EXCEPT !.self.mode = e.self.mode]
<1>1. Keeps(e, n)
  BY NewIdType DEF Keeps
<1>2. Keeps(e, reset)
  <2> DEFINE s == [n.self EXCEPT !.mode = "none"]
  <2> HIDE DEF n
  <2>1. GoodSelf(s) /\ s.closed = n.self.closed
    BY <1>1 DEF Keeps, GoodEnv, GoodSelf, Fields
  <2>2. reset = [n EXCEPT !.self = s]
    BY <1>1 DEF Keeps, GoodEnv
  <2> HIDE DEF s
  <2> QED
    BY <1>1, <2>1, <2>2, SelfType DEF Keeps
<1> HIDE DEF reset
<1>3. Keeps(e, v)
  BY <1>2, UserType DEF Keeps
<1> HIDE DEF v
<1>4. Keeps(e, again)
  <2> DEFINE s == [v.self EXCEPT !.mode = e.self.mode]
  <2>1. GoodSelf(s) /\ s.closed = v.self.closed
    BY <1>3 DEF Keeps, GoodEnv, GoodSelf, Fields
  <2>2. again = [v EXCEPT !.self = s]
    BY <1>3 DEF Keeps, GoodEnv
  <2> HIDE DEF s
  <2> QED
    BY <1>3, <2>1, <2>2, SelfType DEF Keeps
<1> HIDE DEF again
<1>5. /\ Keeps(e, SetIdleHandler(reset, e.self.mode))
      /\ Keeps(e, SetReceiveTimeout(again))
  BY <1>2, <1>4, IdleType, TimeoutType DEF Keeps
<1>6. HandleTimeout(e, u) \in {e, SetIdleHandler(reset, e.self.mode), v,
                               SetReceiveTimeout(again)}
  BY DEF HandleTimeout, n, reset, v, again
<1> QED
  BY <1>3, <1>5, <1>6 DEF Keeps

\* A response.
LEMMA HandleResponseType ==
    ASSUME NEW e, GoodEnv(e), NEW r, NEW t, NEW u \in UserActs(t)
    PROVE  Keeps(e, HandleResponse(e, r, u))
<1> DEFINE w == SelectSeq(e.self.awaited, LAMBDA x : x # r)
           m == e.self.multiplexed \ {r}
           h == [e.self.handled EXCEPT ![r] = @ + 1]
           s == [e.self EXCEPT !.awaited = w, !.multiplexed = m, !.handled = h]
           f == [e EXCEPT !.clock.request = @ \ {r},
                          !.self.awaited = SelectSeq(@, LAMBDA x : x # r),
                          !.self.multiplexed = @ \ {r},
                          !.self.handled[r] = @ + 1]
<1>1. /\ f.self = s /\ f.asked = e.asked
      /\ f.clock = [e.clock EXCEPT !.request = @ \ {r}]
      /\ f = [g \in {"self", "clock", "asked"} |-> f[g]]
  BY DEF GoodEnv, GoodSelf, Fields
<1>2. HandleResponse(e, r, u) = User(f, u)
  BY DEF HandleResponse
<1> HIDE DEF w, m, h, f
<1>3. GoodSelf(s) /\ s.closed = e.self.closed
  BY DEF GoodEnv, GoodSelf, Fields
<1> HIDE DEF s
<1>4. GoodClock(f.clock)
  BY <1>1 DEF GoodEnv, GoodClock
<1>5. Keeps(e, f)
  BY <1>1, <1>3, <1>4 DEF GoodEnv, Keeps
<1>6. Keeps(f, User(f, u))
  BY <1>5, UserType DEF Keeps
<1> QED
  BY <1>2, <1>5, <1>6 DEF Keeps

\* A request of another actor.
LEMMA HandleNoteType ==
    ASSUME NEW e, GoodEnv(e), NEW n, NEW t, NEW u \in UserActs(t)
    PROVE  Keeps(e, HandleNote(e, n, u))
<1> DEFINE c == [e.self.replied EXCEPT ![n] = @ + 1]
           d == Append(e.self.served, n)
           s == [e.self EXCEPT !.replied = c, !.served = d]
           f == [e EXCEPT !.self = s]
<1>1. HandleNote(e, n, u) = User(f, u)
  BY DEF HandleNote, GoodEnv, GoodSelf, Fields
<1> HIDE DEF c, d
<1>2. GoodSelf(s) /\ s.closed = e.self.closed
  BY DEF GoodEnv, GoodSelf, Fields
<1> HIDE DEF s
<1>3. Keeps(e, f)
  BY <1>2, SelfType
<1> HIDE DEF f
<1>4. GoodEnv(f) /\ f.self.closed = e.self.closed
  BY <1>3 DEF Keeps
<1>5. Keeps(f, User(f, u))
  BY <1>4, UserType
<1> QED
  BY <1>1, <1>4, <1>5 DEF Keeps

\* consume.
LEMMA ConsumeType ==
    ASSUME NEW e, GoodEnv(e), NEW m, NEW t, NEW u \in UserActs(t)
    PROVE  Keeps(e, Consume(e, m, u))
<1>1. Consume(e, m, u) \in {e, Quit(e), HandleTimeout(e, u),
                            HandleResponse(e, m.about, u),
                            HandleNote(e, m.about, u)}
  BY DEF Consume
<1> QED
  BY <1>1, QuitType, HandleTimeoutType, HandleResponseType, HandleNoteType DEF Keeps

\* The bouncer replies and changes nothing else.
LEMMA BounceType ==
    ASSUME NEW s, GoodSelf(s), NEW ms
    PROVE  /\ GoodSelf(Bounce(s, ms)) /\ Bounce(s, ms).closed = s.closed
           /\ Bounce(s, ms).inbox = s.inbox /\ Bounce(s, ms).mode = s.mode
<1> DEFINE c == [n \in Note |-> s.replied[n]
                   + Cardinality({i \in DOMAIN ms : ms[i] = Msg("note", n)})]
<1>1. Bounce(s, ms) = [s EXCEPT !.replied = c]
  BY DEF Bounce
<1> HIDE DEF c
<1> QED
  BY <1>1 DEF GoodSelf, Fields

\* cleanup.
LEMMA CleanupType ==
    ASSUME NEW e, GoodEnv(e)
    PROVE  GoodEnv(Cleanup(e)) /\ Cleanup(e).self.terminated
<1> DEFINE d == Dispose(e)
           b == Bounce(d.self, d.self.stash \o d.self.inbox)
           s == [[b EXCEPT !.closed = TRUE, !.inbox = <<>>, !.stash = <<>>] EXCEPT
                   !.terminated = TRUE, !.awaited = <<>>, !.multiplexed = {}]
<1>1. GoodEnv(d)
  BY DisposeType
<1>2. Cleanup(e) = [d EXCEPT !.self = s]
  BY DEF Cleanup, CloseMailbox
<1> HIDE DEF d
<1>3. GoodSelf(b)
  BY <1>1, BounceType DEF GoodEnv
<1> HIDE DEF b
<1>4. <<>> \in Seq(Message)
  BY EmptySeq
<1>5. GoodSelf(s) /\ s.terminated
  BY <1>3, <1>4 DEF GoodSelf, Fields
<1> HIDE DEF s
<1> QED
  BY <1>1, <1>2, <1>5 DEF GoodEnv

\* finalize either leaves the actor as it is or ends it.
LEMMA FinalizeType ==
    ASSUME NEW e, GoodEnv(e)
    PROVE  /\ GoodEnv(Finalize(e))
           /\ Finalize(e).self.terminated \/ Finalize(e) = e
BY CleanupType DEF Finalize

\* unstash.
LEMMA UnstashType ==
    ASSUME NEW e, GoodEnv(e)
    PROVE  Keeps(e, [e EXCEPT !.self = Unstash(@)])
<1> DEFINE n == Len(e.self.stash)
           back == [i \in DOMAIN e.self.stash |-> e.self.stash[n + 1 - i]]
           q == back \o e.self.inbox
           s == Unstash(e.self)
<1>1. back \in Seq(Message)
  <2>1. /\ n \in Nat /\ DOMAIN e.self.stash = 1 .. n
        /\ \A i \in 1 .. n : e.self.stash[i] \in Message
    BY LenProperties, ElementOfSeq DEF GoodEnv, GoodSelf
  <2> HIDE DEF n
  <2>2. \A i \in 1 .. n : n + 1 - i \in 1 .. n
    BY <2>1
  <2>3. back \in [1 .. n -> Message]
    BY <2>1, <2>2
  <2> HIDE DEF back
  <2> QED
    BY <2>1, <2>3, SeqDef
<1>2. s = [e.self EXCEPT !.inbox = q, !.stash = <<>>]
  BY DEF Unstash
<1> HIDE DEF back
<1>3. q \in Seq(Message) /\ <<>> \in Seq(Message)
  BY <1>1, ConcatProperties, EmptySeq DEF GoodEnv, GoodSelf
<1> HIDE DEF q, s
<1>4. GoodSelf(s) /\ s.closed = e.self.closed
  BY <1>2, <1>3 DEF GoodEnv, GoodSelf, Fields
<1>5. [e EXCEPT !.self = Unstash(@)] = [e EXCEPT !.self = s]
  BY DEF s
<1> QED
  BY <1>4, <1>5, SelfType

\* enqueue to an open mailbox appends.
LEMMA EnqueueType ==
    ASSUME NEW s, GoodSelf(s), NEW m \in Message
    PROVE  /\ GoodSelf(Enqueue(s, m)) /\ Enqueue(s, m).closed = s.closed
           /\ Enqueue(s, m).mode = s.mode
           /\ ~s.closed => Enqueue(s, m).inbox = Append(s.inbox, m)
<1>1. CASE s.closed
  BY <1>1, BounceType DEF Enqueue
<1>2. CASE ~s.closed
  <2> DEFINE q == Append(s.inbox, m)
             a == IF m.kind = "note" THEN Append(s.arrived, m.about) ELSE s.arrived
  <2>1. q \in Seq(Message)
    BY AppendProperties DEF GoodSelf
  <2>2. Enqueue(s, m) = [s EXCEPT !.inbox = q, !.arrived = a]
    BY <1>2 DEF Enqueue, GoodSelf, Fields
  <2> HIDE DEF q, a
  <2>3. /\ GoodSelf(Enqueue(s, m)) /\ Enqueue(s, m).closed = s.closed
        /\ Enqueue(s, m).mode = s.mode /\ Enqueue(s, m).inbox = q
    BY <2>1, <2>2 DEF GoodSelf, Fields
  <2> QED
    BY <2>3 DEF q
<1> QED
  BY <1>1, <1>2
-----------------------------------------------------------------------------
(* The invariant.                                                           *)

\* The actor was launched and has no idle handler yet.
LEMMA InitIInv == Init => IInv
<1> SUFFICES ASSUME Init PROVE IInv
  OBVIOUS
<1>1. GoodSelf(self) /\ self.mode = "none" /\ ~self.closed
  BY EmptySeq DEF Init, GoodSelf, Fields
<1>2. Nothing \in Message
  BY MsgType DEF Nothing, Kinds
<1>3. GoodClock(clock)
  BY <1>2 DEF Init, GoodClock
<1>4. GoodEnv(Env)
  BY <1>1, <1>3 DEF GoodEnv, Env, Init
<1> QED
  BY <1>1, <1>4 DEF Init, IInv, TypeInv

\* The new values of the variables that form Env.
LEMMA BecomesType ==
    ASSUME NEW e, GoodEnv(e), Becomes(e)
    PROVE  GoodEnv(Env)' /\ self' = e.self /\ clock' = e.clock /\ asked' = e.asked
BY DEF GoodEnv, Becomes, Env

\* activate, for the first time or later.
LEMMA StartStep == IInv /\ Start => IInv'
<1> SUFFICES ASSUME IInv, Start PROVE IInv'
  OBVIOUS
<1>1. GoodEnv(Env) /\ job = "ready" /\ consumed = 0 /\ ~self.closed
      /\ consumed' = 0 /\ leaving' = leaving
  BY DEF IInv, TypeInv, Start
<1>2. CASE self.initialized
  <2>1. self' = self /\ clock' = clock /\ asked' = asked /\ job' = "running"
    BY <1>2 DEF Start, Becomes, Env
  <2>2. GoodEnv(Env)'
    BY <1>1, <2>1 DEF Env, GoodEnv
  <2> QED
    BY <1>1, <2>1, <2>2 DEF IInv, TypeInv, Armed
<1>3. CASE ~self.initialized
  <2> DEFINE s == [self EXCEPT !.initialized = TRUE, !.bhvr = TRUE]
             e == [Env EXCEPT !.self = s]
             h(mode) == SetIdleHandler(e, mode)
             g(mode, u) == Finalize(User(h(mode), u))
  <2>1. PICK mode \in Mode, u \in UserActs(self) :
          /\ Becomes(g(mode, u))
          /\ job' = IF g(mode, u).self.terminated THEN "done" ELSE "running"
    BY <1>3 DEF Start, Env
  <2>2. GoodSelf(s) /\ s.closed = self.closed /\ s.mode = self.mode
        /\ s.inbox = self.inbox
    BY <1>1 DEF GoodEnv, GoodSelf, Fields, Env
  <2> HIDE DEF s
  <2>3. GoodEnv(e) /\ e.self = s /\ e.clock = clock
    BY <1>1, <2>2 DEF GoodEnv, Env
  <2> HIDE DEF e
  <2>4. /\ Keeps(e, h(mode))
        /\ IF mode = "none" THEN h(mode) = e ELSE h(mode).clock.pending
    BY <2>3, IdleType
  <2> HIDE DEF h
  <2> DEFINE i == User(h(mode), u)
  <2>5. /\ Keeps(h(mode), i) /\ i.self.mode = h(mode).self.mode
        /\ i.self.inbox = h(mode).self.inbox
        /\ i.clock.pending = h(mode).clock.pending
        /\ i.clock.firing = h(mode).clock.firing
    BY <2>4, UserType, UserLeaves DEF Keeps
  <2>6. GoodEnv(g(mode, u)) /\ (g(mode, u).self.terminated \/ g(mode, u) = i)
    BY <2>5, FinalizeType DEF Keeps
  <2> HIDE DEF i, g
  <2>7. GoodEnv(Env)'
    BY <2>1, <2>6, BecomesType
  <2>8. CASE g(mode, u).self.terminated
    BY <1>1, <2>1, <2>7, <2>8 DEF IInv, TypeInv
  <2>9. CASE ~g(mode, u).self.terminated
    <3>1. job' = "running" /\ self' = i.self /\ clock' = i.clock
      BY <2>1, <2>6, <2>9 DEF Becomes
    <3>2. ~self'.closed
      BY <1>1, <2>2, <2>3, <2>4, <2>5, <3>1 DEF Keeps
    <3>3. (leaving' = 0 /\ self'.mode # "none") => Armed(self, clock)'
      BY <1>1, <2>2, <2>3, <2>4, <2>5, <3>1 DEF Armed, IInv
    <3> QED
      BY <1>1, <2>7, <3>1, <3>2, <3>3 DEF IInv, TypeInv
  <2> QED
    BY <2>8, <2>9
<1> QED
  BY <1>2, <1>3

\* Popping a message.
LEMMA PoppedType ==
    ASSUME GoodEnv(Env), self.inbox # <<>>
    PROVE  /\ Keeps(Env, Popped) /\ Popped.self.mode = self.mode
           /\ Popped.self.inbox = Tail(self.inbox)
           /\ Popped.self.stash = self.stash
           /\ Popped.clock = clock /\ Popped.asked = asked
<1> DEFINE s == [self EXCEPT !.inbox = Tail(@)]
<1>1. /\ GoodSelf(s) /\ s.closed = self.closed /\ s.mode = self.mode
      /\ s.inbox = Tail(self.inbox) /\ s.stash = self.stash
  BY HeadTailProperties DEF GoodEnv, GoodSelf, Fields, Env
<1>2. Popped = [Env EXCEPT !.self = s]
  BY DEF Popped, Env
<1> HIDE DEF s
<1> QED
  BY <1>1, <1>2, SelfType DEF Env

\* A message that is processed: a timer is due at the end of resume only.
LEMMA ProcessStep == IInv /\ Process => IInv'
<1> SUFFICES ASSUME IInv, Process PROVE IInv'
  OBVIOUS
<1>1. /\ GoodEnv(Env) /\ job = "running" /\ consumed \in Nat /\ leaving \in Nat
      /\ self.inbox # <<>> /\ ~self.closed /\ leaving' = leaving
  BY DEF IInv, TypeInv, Process, Running
<1> DEFINE m == Head(self.inbox)
<1>2. PICK u \in Choices(self, m) :
        LET e == Finalize(Consume(Popped, m, u))
        IN  IF e.self.terminated
            THEN Becomes(e) /\ job' = "done" /\ consumed' = 0
            ELSE /\ Becomes([e EXCEPT !.self = Unstash(@)])
                 /\ consumed' = consumed + 1
                 /\ job' = job
  BY DEF Process
<1> DEFINE c == Consume(Popped, m, u)
           e == Finalize(c)
<1>3. u \in UserActs(self)
  BY DEF Choices, UserActs
<1> HIDE DEF m
<1>4. GoodEnv(c) /\ ~c.self.closed
  BY <1>1, <1>3, PoppedType, ConsumeType DEF Keeps, Env
<1> HIDE DEF c
<1>5. GoodEnv(e) /\ (e.self.terminated \/ e = c)
  BY <1>4, FinalizeType
<1>6. CASE e.self.terminated
  <2>1. Becomes(e) /\ job' = "done" /\ consumed' = 0
    BY <1>2, <1>6 DEF c
  <2> HIDE DEF e
  <2>2. GoodEnv(Env)'
    BY <1>5, <2>1, BecomesType
  <2> QED
    BY <1>1, <2>1, <2>2 DEF IInv, TypeInv
<1>7. CASE ~e.self.terminated
  <2> DEFINE f == [e EXCEPT !.self = Unstash(@)]
  <2>1. Becomes(f) /\ consumed' = consumed + 1 /\ job' = job
    BY <1>2, <1>7 DEF c
  <2>2. ~e.self.closed
    BY <1>4, <1>5, <1>7
  <2> HIDE DEF e
  <2>3. GoodEnv(f) /\ ~f.self.closed
    BY <1>5, <2>2, UnstashType DEF Keeps
  <2> HIDE DEF f
  <2>4. GoodEnv(Env)' /\ ~self'.closed
    BY <2>1, <2>3, BecomesType
  <2> QED
    BY <1>1, <2>1, <2>4 DEF IInv, TypeInv
<1> QED
  BY <1>6, <1>7

\* A message that is skipped or dropped is no idle timeout.
LEMMA SkipStep == IInv /\ SkipOrDrop => IInv'
<1> SUFFICES ASSUME IInv, SkipOrDrop PROVE IInv'
  OBVIOUS
<1>1. /\ GoodEnv(Env) /\ job = "running" /\ consumed \in Nat /\ leaving \in Nat
      /\ self.inbox # <<>> /\ ~self.closed
      /\ leaving' = leaving /\ consumed' = consumed /\ job' = job
  BY DEF IInv, TypeInv, SkipOrDrop, Running
<1> DEFINE m == Head(self.inbox)
           q == <<m>> \o self.stash
           f == [Popped EXCEPT !.self.stash = q]
<1>2. /\ self.inbox \in Seq(Message) /\ self.stash \in Seq(Message) /\ m \in Message
      /\ Len(self.inbox) \in Nat /\ Len(self.inbox) > 0
      /\ Len(Tail(self.inbox)) = Len(self.inbox) - 1
      /\ \A i \in 1 .. Len(self.inbox) - 1 : Tail(self.inbox)[i] = self.inbox[i + 1]
      /\ m = self.inbox[1]
  BY <1>1, HeadTailProperties, EmptySeq, LenProperties
     DEF GoodEnv, GoodSelf, Env
<1>3. m # Current
  BY DEF SkipOrDrop, Skips, Drops, Internal, Current, Msg
<1>4. /\ Keeps(Env, Popped) /\ Popped.self.mode = self.mode
      /\ Popped.self.inbox = Tail(self.inbox) /\ Popped.self.stash = self.stash
      /\ Popped.clock = clock /\ Popped.asked = asked
  BY <1>1, PoppedType
<1>5. Becomes(f) \/ Becomes(Popped)
  BY <1>4 DEF SkipOrDrop
<1>6. q \in Seq(Message)
  BY <1>2, ConcatProperties
<1> HIDE DEF m, q
<1>7. /\ Keeps(Env, f) /\ f.self.mode = self.mode
      /\ f.self.inbox = Tail(self.inbox) /\ f.clock = clock
  <2> DEFINE s == [Popped.self EXCEPT !.stash = q]
  <2>1. /\ GoodSelf(s) /\ s.closed = Popped.self.closed /\ s.mode = self.mode
        /\ s.inbox = Tail(self.inbox)
    BY <1>4, <1>6 DEF GoodEnv, GoodSelf, Fields, Keeps
  <2>2. f = [Popped EXCEPT !.self = s]
    BY <1>4 DEF Keeps, GoodEnv
  <2> HIDE DEF s, f
  <2> QED
    BY <1>4, <2>1, <2>2, SelfType DEF Keeps
<1> HIDE DEF f
<1>8. /\ GoodEnv(Env)' /\ self'.mode = self.mode /\ clock' = clock
      /\ self'.inbox = Tail(self.inbox) /\ ~self'.closed
  BY <1>1, <1>4, <1>5, <1>7, BecomesType DEF Keeps, Env
<1>9. ASSUME NEW i \in 1 .. Len(self.inbox), self.inbox[i] = Current
      PROVE  i - 1 \in 1 .. Len(self'.inbox) /\ self'.inbox[i - 1] = Current
  BY <1>2, <1>3, <1>8, <1>9
<1>10. Armed(self, clock) => Armed(self, clock)'
  BY <1>8, <1>9 DEF Armed, Current
<1> QED
  BY <1>1, <1>8, <1>10 DEF IInv, TypeInv

\* A worker that consumed nothing leaves the timer as it was; one that did
\* has to reset it.
LEMMA BlockStep == IInv /\ Block => IInv'
<1> SUFFICES ASSUME IInv, Block PROVE IInv'
  OBVIOUS
<1>1. GoodEnv(Env)'
  BY DEF IInv, TypeInv, Block, Env, GoodEnv
<1>2. self' = self /\ clock' = clock
  BY DEF Block
<1> QED
  BY <1>1, <1>2 DEF IInv, TypeInv, Block, Running, Armed

\* The worker that resets the timer may be the last one or not.
LEMMA RenewStep == IInv /\ Renew => IInv'
<1> SUFFICES ASSUME IInv, Renew PROVE IInv'
  OBVIOUS
<1> DEFINE e == SetReceiveTimeout(Env)
<1>1. /\ Keeps(Env, e) /\ e.self.mode = self.mode
      /\ Len(e.self.inbox) = Len(self.inbox)
      /\ self.mode # "none" => e.clock.pending
  BY TimeoutType DEF IInv, TypeInv, Env
<1>2. Becomes(e)
  BY DEF Renew
<1> HIDE DEF e
<1>3. GoodEnv(Env)' /\ self' = e.self /\ clock' = e.clock
  BY <1>1, <1>2, BecomesType DEF Keeps
<1>4. self'.closed = self.closed
  BY <1>1, <1>3 DEF Keeps, Env
<1>5. self.inbox = <<>> => self'.inbox = <<>>
  BY <1>1, <1>3, EmptySeq DEF IInv, TypeInv, GoodEnv, GoodSelf, Keeps, Env
<1> QED
  BY <1>1, <1>3, <1>4, <1>5 DEF IInv, TypeInv, Renew, Armed

\* The worker resets the timer while the actor is still its own.
LEMMA TimeUpStep == IInv /\ TimeUp => IInv'
<1> SUFFICES ASSUME IInv, TimeUp PROVE IInv'
  OBVIOUS
<1> DEFINE e == SetReceiveTimeout(Env)
<1>1. /\ Keeps(Env, e) /\ e.self.mode = self.mode
      /\ Len(e.self.inbox) = Len(self.inbox)
      /\ self.mode # "none" => e.clock.pending
  BY TimeoutType DEF IInv, TypeInv, Env
<1>2. Becomes(e)
  BY DEF TimeUp
<1> HIDE DEF e
<1>3. GoodEnv(Env)' /\ self' = e.self /\ clock' = e.clock
  BY <1>1, <1>2, BecomesType DEF Keeps
<1>4. self'.closed = self.closed
  BY <1>1, <1>3 DEF Keeps, Env
<1>5. self.inbox = <<>> => self'.inbox = <<>>
  BY <1>1, <1>3, EmptySeq DEF IInv, TypeInv, GoodEnv, GoodSelf, Keeps, Env
<1> QED
  BY <1>1, <1>3, <1>4, <1>5 DEF IInv, TypeInv, TimeUp, Armed

\* A message arrives, by whichever thread, while the clock becomes c. A
\* timeout that the clock had fired is the message or stays with the clock.
LEMMA DeliverStep ==
    ASSUME IInv, NEW m \in Message, Deliver(m), GoodClock(clock)',
           asked' \subseteq Request, clock'.pending = clock.pending,
           clock.firing = Current => (clock'.firing = Current \/ m = Current)
    PROVE  IInv'
<1>1. /\ GoodSelf(self)' /\ self'.closed = self.closed /\ self'.mode = self.mode
      /\ ~self.closed => self'.inbox = Append(self.inbox, m)
  BY EnqueueType DEF IInv, TypeInv, GoodEnv, Env, Deliver
<1>2. GoodEnv(Env)'
  BY <1>1 DEF GoodEnv, Env
<1>3. self.inbox \in Seq(Message) /\ Len(self.inbox) \in Nat
  BY LenProperties DEF IInv, TypeInv, GoodEnv, GoodSelf, Env
<1>4. /\ Len(Append(self.inbox, m)) = Len(self.inbox) + 1
      /\ Append(self.inbox, m)[Len(self.inbox) + 1] = m
      /\ \A i \in 1 .. Len(self.inbox) : Append(self.inbox, m)[i] = self.inbox[i]
  BY <1>3, AppendProperties
<1>5. ~self.closed /\ Armed(self, clock) => Armed(self, clock)'
  <2> SUFFICES ASSUME ~self.closed, Armed(self, clock) PROVE Armed(self, clock)'
    OBVIOUS
  <2> DEFINE q == Append(self.inbox, m)
  <2>1. self'.inbox = q
    BY <1>1
  <2>2. /\ Len(q) = Len(self.inbox) + 1 /\ q[Len(self.inbox) + 1] = m
        /\ \A i \in 1 .. Len(self.inbox) : q[i] = self.inbox[i]
    BY <1>4
  <2> HIDE DEF q
  <2>3. CASE clock.pending
    BY <2>3 DEF Armed
  <2>4. CASE clock.firing = Current
    <3>1. CASE m = Current
      BY <1>3, <2>1, <2>2, <3>1 DEF Armed, Current
    <3> QED
      BY <2>4, <3>1 DEF Armed, Current
  <2>5. ASSUME NEW i \in 1 .. Len(self.inbox), self.inbox[i] = Current
        PROVE  Armed(self, clock)'
    BY <1>3, <2>1, <2>2, <2>5 DEF Armed, Current
  <2> QED
    BY <2>3, <2>4, <2>5 DEF Armed
<1> QED
  BY <1>1, <1>2, <1>5 DEF IInv, TypeInv, Deliver

\* The other actors, the server, the clock and the last reference.
LEMMA OtherSteps ==
    ASSUME IInv
    PROVE  /\ \A x \in Note \cup Control : Send(x) => IInv'
           /\ \A r \in Request : Answer(r) \/ Lose(r) \/ FireRequest(r) => IInv'
           /\ FireTimer \/ Fired \/ Unreachable => IInv'
<1>1. GoodEnv(Env) /\ GoodSelf(self) /\ GoodClock(clock) /\ asked \subseteq Request
  BY DEF IInv, TypeInv, GoodEnv, Env
<1>2. ASSUME NEW x \in Note \cup Control, Send(x) PROVE IInv'
  <2> DEFINE m == IF x \in Note THEN Msg("note", x) ELSE Msg(x, "")
  <2>1. m \in Message
    BY MsgType, ConstantsAssumption DEF Kinds
  <2>2. Deliver(m) /\ clock' = clock /\ asked' = asked
    BY <1>2 DEF Send
  <2> HIDE DEF m
  <2> QED
    BY <1>1, <2>1, <2>2, DeliverStep DEF GoodClock
<1>3. ASSUME NEW r \in Request, Answer(r) PROVE IInv'
  <2> DEFINE m == Msg("response", r)
  <2>1. m \in Message
    BY MsgType DEF Kinds
  <2>2. Deliver(m) /\ clock' = clock /\ asked' \subseteq Request
    BY <1>1, <1>3 DEF Answer
  <2> HIDE DEF m
  <2> QED
    BY <1>1, <2>1, <2>2, DeliverStep DEF GoodClock
<1>4. ASSUME NEW r \in Request, Lose(r) PROVE IInv'
  <2>1. self' = self /\ clock' = clock /\ asked' \subseteq Request
    BY <1>1, <1>4 DEF Lose
  <2>2. GoodEnv(Env)'
    BY <1>1, <2>1 DEF GoodEnv, Env, GoodSelf, GoodClock
  <2> QED
    BY <1>4, <2>1, <2>2 DEF Lose, IInv, TypeInv, Armed
<1>5. ASSUME NEW r \in Request, FireRequest(r) PROVE IInv'
  <2> DEFINE m == Msg("response", r)
  <2>1. m \in Message
    BY MsgType DEF Kinds
  <2>2. clock' = [clock EXCEPT !.request = @ \ {r}, !.firing = m]
        /\ clock.firing = Nothing /\ self' = self /\ asked' = asked
    BY <1>5 DEF FireRequest
  <2> HIDE DEF m
  <2>3. GoodClock(clock)' /\ clock'.pending = clock.pending
    BY <1>1, <2>1, <2>2 DEF GoodClock
  <2>4. Nothing # Current
    BY DEF Nothing, Current, Msg
  <2>5. GoodEnv(Env)'
    BY <1>1, <2>2, <2>3 DEF GoodEnv, Env, GoodSelf
  <2> QED
    BY <1>5, <2>2, <2>3, <2>4, <2>5 DEF FireRequest, IInv, TypeInv, Armed
<1>6. ASSUME FireTimer PROVE IInv'
  <2>1. Current \in Message
    BY MsgType DEF Kinds, Current
  <2>2. clock' = [clock EXCEPT !.pending = FALSE, !.firing = Current]
        /\ self' = self /\ asked' = asked
    BY <1>6 DEF FireTimer, Current
  <2>3. GoodClock(clock)' /\ clock'.firing = Current
    BY <1>1, <2>1, <2>2 DEF GoodClock
  <2>4. GoodEnv(Env)'
    BY <1>1, <2>2, <2>3 DEF GoodEnv, Env, GoodSelf
  <2>5. Armed(self, clock)'
    BY <2>3 DEF Armed, Current
  <2> QED
    BY <1>6, <2>2, <2>4, <2>5 DEF FireTimer, IInv, TypeInv
<1>7. ASSUME Fired PROVE IInv'
  <2>1. Nothing \in Message
    BY MsgType DEF Nothing, Kinds
  <2>2. /\ clock' = [clock EXCEPT !.firing = Nothing]
        /\ asked' = asked /\ Deliver(clock.firing)
    BY <1>7 DEF Fired
  <2>3. GoodClock(clock)' /\ clock'.pending = clock.pending
    BY <1>1, <2>1, <2>2 DEF GoodClock
  <2> QED
    BY <1>1, <2>2, <2>3, DeliverStep DEF GoodClock
<1>8. ASSUME Unreachable PROVE IInv'
  <2>1. Becomes(Cleanup(Env)) /\ GoodEnv(Cleanup(Env))
    BY <1>1, <1>8, CleanupType DEF Unreachable
  <2>2. GoodEnv(Env)'
    BY <2>1, BecomesType
  <2> QED
    BY <1>8, <2>2 DEF Unreachable, IInv, TypeInv
<1> QED
  BY <1>2, <1>3, <1>4, <1>5, <1>6, <1>7, <1>8

\* Every step preserves the invariant.
LEMMA NextIInv == IInv /\ [Next]_vars => IInv'
<1> SUFFICES ASSUME IInv, [Next]_vars PROVE IInv'
  OBVIOUS
<1>1. CASE UNCHANGED vars
  <2>1. self' = self /\ clock' = clock /\ GoodEnv(Env)'
    BY <1>1 DEF IInv, TypeInv, vars, Env, GoodEnv
  <2> QED
    BY <1>1, <2>1 DEF IInv, TypeInv, vars, Armed
<1>2. CASE Start \/ Step
  BY <1>2, StartStep, ProcessStep, SkipStep, BlockStep, RenewStep, TimeUpStep
     DEF Step
<1> QED
  BY <1>1, <1>2, OtherSteps DEF Next

\* An event-based actor that sleeps with an idle handler has a timer, for any
\* number of workers and any messages: SleeperHasTimer, about the call of
\* set_receive_timeout that resume makes after try_block.
THEOREM SleepIsTimed == Spec => []SleeperHasTimer
<1>1. IInv => SleeperHasTimer
  <2> SUFFICES ASSUME IInv, job = "idle", leaving = 0, self.mode # "none"
               PROVE  clock.pending \/ clock.firing = Current
    BY DEF SleeperHasTimer, Current
  <2>1. Armed(self, clock) /\ self.inbox = <<>>
    BY DEF IInv
  <2>2. Len(self.inbox) = 0
    BY <2>1
  <2> QED
    BY <2>1, <2>2 DEF Armed
<1> QED
  BY <1>1, InitIInv, NextIInv, PTL DEF Spec
=============================================================================
