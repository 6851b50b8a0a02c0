------------------------- MODULE GpuSchedulerProofs -------------------------
(* Theorems about the steal protocol of GpuScheduler, for any number of      *)
(* devices, slots and tokens.                                                *)
EXTENDS GpuScheduler, TLAPS

\* The state of the steal protocol.
StealTypes ==
    /\ awaiting_steal \in [Device -> BOOLEAN]
    /\ steal \in [Device -> Device \cup {None}]
    /\ response \in [Device -> {"none", "tokens", "error"}]
    /\ current_backoff \in [Device -> {0, 1, 50}]
    /\ retries \in [Device -> Nat]
    /\ victims \in [Device -> SUBSET Device]
    /\ devices \subseteq Device /\ alive \subseteq Device

\* What the handlers of scheduler_actor keep true of the steal protocol.
StealInv == StealTypes /\ OneStealRequest

\* No scheduler has asked for work yet.
LEMMA InitInv == Init => StealInv
  BY NoneAssumption DEF Init, StealInv, StealTypes, OneStealRequest

\* The steal requests that schedule_work() sends keep the invariant, if its
\* caller does: the response, if one was due, has been taken, and the back-off
\* of a scheduler that does not wait for its retry is zero.
LEMMA StealStep ==
    ASSUME StealInv, NEW d \in Device, NEW backoff \in {0, 1, 50}, NEW awaiting \in BOOLEAN,
           Steal(d, backoff, awaiting),
           current_backoff' = [current_backoff EXCEPT ![d] = backoff],
           response' \in [Device -> {"none", "tokens", "error"}],
           \A e \in Device \ {d} : response'[e] = response[e],
           retries' \in [Device -> Nat],
           \A e \in Device \ {d} : retries'[e] = retries[e],
           UNCHANGED <<victims, devices, alive>>,
           awaiting <=> steal[d] # None \/ response'[d] # "none",
           steal[d] = None \/ response'[d] = "none",
           awaiting => backoff = 0,
           backoff > 0 => retries'[d] > 0
    PROVE  StealInv'
<1>1. /\ awaiting_steal \in [Device -> BOOLEAN]
      /\ steal \in [Device -> Device \cup {None}]
      /\ victims \in [Device -> SUBSET Device]
      /\ current_backoff \in [Device -> {0, 1, 50}]
      /\ devices \subseteq Device /\ alive \subseteq Device
  BY DEF StealInv, StealTypes
<1>2. \/ /\ ~awaiting /\ backoff = 0
         /\ \E v \in victims[d] : /\ steal' = [steal EXCEPT ![d] = v]
                                  /\ awaiting_steal' = [awaiting_steal EXCEPT ![d] = TRUE]
      \/ awaiting_steal' = [awaiting_steal EXCEPT ![d] = awaiting] /\ steal' = steal
  BY DEF Steal
<1>3. /\ awaiting_steal' \in [Device -> BOOLEAN]
      /\ steal' \in [Device -> Device \cup {None}]
      /\ \A e \in Device \ {d} : awaiting_steal'[e] = awaiting_steal[e] /\ steal'[e] = steal[e]
  <2>1. CASE \E v \in victims[d] : /\ steal' = [steal EXCEPT ![d] = v]
                                   /\ awaiting_steal' = [awaiting_steal EXCEPT ![d] = TRUE]
    BY <2>1, <1>1
  <2>2. CASE awaiting_steal' = [awaiting_steal EXCEPT ![d] = awaiting] /\ steal' = steal
    BY <2>2, <1>1
  <2> QED
    BY <2>1, <2>2, <1>2
<1>4. StealTypes'
  BY <1>1, <1>3 DEF StealTypes
<1>5. /\ current_backoff'[d] = backoff
      /\ \A e \in Device \ {d} : current_backoff'[e] = current_backoff[e]
  BY <1>1
<1>6. /\ awaiting_steal'[d] <=> steal'[d] # None \/ response'[d] # "none"
      /\ steal'[d] = None \/ response'[d] = "none"
      /\ awaiting_steal'[d] => current_backoff'[d] = 0
  <2>1. CASE ~awaiting /\ backoff = 0 /\ \E v \in victims[d] :
                /\ steal' = [steal EXCEPT ![d] = v]
                /\ awaiting_steal' = [awaiting_steal EXCEPT ![d] = TRUE]
    <3>1. steal'[d] \in Device /\ awaiting_steal'[d]
      BY <2>1, <1>1
    <3> QED
      BY <3>1, <2>1, <1>5, NoneAssumption
  <2>2. CASE awaiting_steal' = [awaiting_steal EXCEPT ![d] = awaiting] /\ steal' = steal
    <3>1. (awaiting_steal'[d] <=> awaiting) /\ steal'[d] = steal[d]
      BY <2>2, <1>1
    <3> QED
      BY <3>1, <1>5
  <2> QED
    BY <2>1, <2>2, <1>2
<1>7. OneStealRequest'
  BY <1>3, <1>5, <1>6 DEF OneStealRequest, StealInv
<1> QED
  BY <1>4, <1>7 DEF StealInv

\* A step that leaves the steal protocol alone.
LEMMA StealUnchanged ==
    ASSUME StealInv,
           UNCHANGED <<awaiting_steal, steal, response, current_backoff, retries, victims, devices, alive>>
    PROVE  StealInv'
  BY DEF StealInv, StealTypes, OneStealRequest

\* Every message handler keeps the invariant.
LEMMA NextInv == StealInv /\ [Next]_vars => StealInv'
<1> SUFFICES ASSUME StealInv, [Next]_vars PROVE StealInv'
  OBVIOUS
<1> USE DEF StealInv, StealTypes
<1>1. \A d \in Device :
        /\ awaiting_steal[d] <=> steal[d] # None \/ response[d] # "none"
        /\ steal[d] = None \/ response[d] = "none"
        /\ awaiting_steal[d] => current_backoff[d] = 0
        /\ current_backoff[d] > 0 => retries[d] > 0
        /\ current_backoff[d] \in {0, 1, 50} /\ awaiting_steal[d] \in BOOLEAN
  BY DEF OneStealRequest
<1>2. ASSUME NEW d \in Device, NEW t \in Token, ReceiveLaunch(d, t) PROVE StealInv'
  <2> DEFINE backoff == 0
             awaiting == awaiting_steal[d]
  <2>1. /\ current_backoff' = [current_backoff EXCEPT ![d] = backoff]
        /\ Steal(d, backoff, awaiting)
        /\ UNCHANGED <<victims, devices, alive>>
    BY <1>2 DEF ReceiveLaunch, schedule_work
  <2>2. response' = response /\ retries' = retries
    BY <1>2 DEF ReceiveLaunch
  <2>3. /\ awaiting <=> steal[d] # None \/ response'[d] # "none"
        /\ steal[d] = None \/ response'[d] = "none"
        /\ awaiting => backoff = 0
        /\ backoff > 0 => retries'[d] > 0
        /\ backoff \in {0, 1, 50} /\ awaiting \in BOOLEAN
        /\ retries' \in [Device -> Nat]
        /\ \A e \in Device \ {d} : retries'[e] = retries[e] /\ response'[e] = response[e]
        /\ response' \in [Device -> {"none", "tokens", "error"}]
    BY <1>1, <2>2
  <2> HIDE DEF StealInv, StealTypes, backoff, awaiting
  <2> QED
    BY <2>1, <2>3, StealStep, ZenonT(40)
<1>3. ASSUME NEW d \in Device, NEW t \in Token, ReceiveMemory(d, t) PROVE StealInv'
  BY <1>1, <1>3 DEF ReceiveMemory, netVars, OneStealRequest
<1>4. ASSUME NEW d \in Device, NEW s \in Token, NEW t \in Token, ReceiveBatch(d, s, t) PROVE StealInv'
  <2> DEFINE backoff == 0
             awaiting == awaiting_steal[d]
  <2>1. /\ current_backoff' = [current_backoff EXCEPT ![d] = backoff]
        /\ Steal(d, backoff, awaiting)
        /\ UNCHANGED <<victims, devices, alive>>
    BY <1>4 DEF ReceiveBatch, schedule_work
  <2>2. response' = response /\ retries' = retries
    BY <1>4 DEF ReceiveBatch
  <2>3. /\ awaiting <=> steal[d] # None \/ response'[d] # "none"
        /\ steal[d] = None \/ response'[d] = "none"
        /\ awaiting => backoff = 0
        /\ backoff > 0 => retries'[d] > 0
        /\ backoff \in {0, 1, 50} /\ awaiting \in BOOLEAN
        /\ retries' \in [Device -> Nat]
        /\ \A e \in Device \ {d} : retries'[e] = retries[e] /\ response'[e] = response[e]
        /\ response' \in [Device -> {"none", "tokens", "error"}]
    BY <1>1, <2>2
  <2> HIDE DEF StealInv, StealTypes, backoff, awaiting
  <2> QED
    BY <2>1, <2>3, StealStep, ZenonT(40)
<1>5. ASSUME NEW slot \in reclaims, Reclaim(slot) PROVE StealInv'
  <2> DEFINE d == slot.device
             backoff == current_backoff[d]
             awaiting == awaiting_steal[d]
  <2>0. d \in Device
    BY <1>5 DEF Reclaim
  <2>1. /\ current_backoff' = [current_backoff EXCEPT ![d] = backoff]
        /\ Steal(d, backoff, awaiting)
        /\ UNCHANGED <<victims, devices, alive>>
    BY <1>5 DEF Reclaim, schedule_work
  <2>2. response' = response /\ retries' = retries
    BY <1>5 DEF Reclaim
  <2>3. /\ awaiting <=> steal[d] # None \/ response'[d] # "none"
        /\ steal[d] = None \/ response'[d] = "none"
        /\ awaiting => backoff = 0
        /\ backoff > 0 => retries'[d] > 0
        /\ backoff \in {0, 1, 50} /\ awaiting \in BOOLEAN
        /\ retries' \in [Device -> Nat]
        /\ \A e \in Device \ {d} : retries'[e] = retries[e] /\ response'[e] = response[e]
        /\ response' \in [Device -> {"none", "tokens", "error"}]
    BY <1>1, <2>0, <2>2
  <2> HIDE DEF StealInv, StealTypes, d, backoff, awaiting
  <2> QED
    BY <2>0, <2>1, <2>3, StealStep, ZenonT(40)
<1>6. ASSUME NEW d \in Device, SetNeighbors(d) PROVE StealInv'
  <2>1. /\ victims' = [victims EXCEPT ![d] = devices \ {d}]
        /\ UNCHANGED <<awaiting_steal, steal, response, current_backoff, retries, devices, alive>>
    BY <1>6 DEF SetNeighbors, actorVars, netVars
  <2>2. victims' \in [Device -> SUBSET Device]
    BY <2>1
  <2> QED
    BY <1>1, <2>1, <2>2 DEF OneStealRequest
<1>7. ASSUME NEW d \in Device, StealRequest(d) PROVE StealInv'
  <2>1. /\ steal[d] # None /\ steal' = [steal EXCEPT ![d] = None]
        /\ UNCHANGED <<awaiting_steal, current_backoff, retries, victims, devices, alive>>
    BY <1>7 DEF StealRequest
  <2>2. \/ response' = [response EXCEPT ![d] = "tokens"]
        \/ response' = [response EXCEPT ![d] = "error"]
    BY <1>7 DEF StealRequest
  <2> QED
    BY <1>1, <2>1, <2>2 DEF OneStealRequest
<1>8. ASSUME NEW d \in Device, StolenWork(d) PROVE StealInv'
  <2> DEFINE backoff == 0
             awaiting == FALSE
  <2>1. /\ current_backoff' = [current_backoff EXCEPT ![d] = backoff]
        /\ Steal(d, backoff, awaiting)
        /\ UNCHANGED <<victims, devices, alive>>
    BY <1>8 DEF StolenWork, schedule_work
  <2>2. response' = [response EXCEPT ![d] = "none"] /\ retries' = retries /\ response[d] # "none"
    BY <1>8 DEF StolenWork
  <2>3. /\ awaiting <=> steal[d] # None \/ response'[d] # "none"
        /\ steal[d] = None \/ response'[d] = "none"
        /\ awaiting => backoff = 0
        /\ backoff > 0 => retries'[d] > 0
        /\ backoff \in {0, 1, 50} /\ awaiting \in BOOLEAN
        /\ retries' \in [Device -> Nat]
        /\ \A e \in Device \ {d} : retries'[e] = retries[e] /\ response'[e] = response[e]
        /\ response' \in [Device -> {"none", "tokens", "error"}]
    BY <1>1, <2>2
  <2> HIDE DEF StealInv, StealTypes, backoff, awaiting
  <2> QED
    BY <2>1, <2>3, StealStep, ZenonT(40)
<1>9. ASSUME NEW d \in Device, StolenNothing(d) PROVE StealInv'
  <2>1. /\ awaiting_steal' = [awaiting_steal EXCEPT ![d] = FALSE]
        /\ response' = [response EXCEPT ![d] = "none"] /\ response[d] # "none"
        /\ retries' = [retries EXCEPT ![d] = @ + 1]
        /\ UNCHANGED <<steal, victims, devices, alive>>
    BY <1>9, NoneAssumption DEF StolenNothing
  <2>2. current_backoff[d] = 0
    BY <1>1, <2>1
  <2>3. \/ current_backoff' = [current_backoff EXCEPT ![d] = 1]
        \/ current_backoff' = [current_backoff EXCEPT ![d] = 50]
    BY <1>9, <2>2 DEF StolenNothing
  <2> QED
    BY <1>1, <2>1, <2>3 DEF OneStealRequest
<1>10. ASSUME NEW d \in Device, RetrySteal(d) PROVE StealInv'
  <2> DEFINE backoff == 0
             awaiting == awaiting_steal[d]
  <2>1. /\ current_backoff' = [current_backoff EXCEPT ![d] = backoff]
        /\ Steal(d, backoff, awaiting)
        /\ UNCHANGED <<victims, devices, alive>>
    BY <1>10 DEF RetrySteal, schedule_work
  <2>2. response' = response /\ retries' = [retries EXCEPT ![d] = @ - 1] /\ retries[d] > 0
    BY <1>10 DEF RetrySteal
  <2>3. /\ awaiting <=> steal[d] # None \/ response'[d] # "none"
        /\ steal[d] = None \/ response'[d] = "none"
        /\ awaiting => backoff = 0
        /\ backoff > 0 => retries'[d] > 0
        /\ backoff \in {0, 1, 50} /\ awaiting \in BOOLEAN
        /\ retries' \in [Device -> Nat]
        /\ \A e \in Device \ {d} : retries'[e] = retries[e] /\ response'[e] = response[e]
        /\ response' \in [Device -> {"none", "tokens", "error"}]
    BY <1>1, <2>2
  <2> HIDE DEF StealInv, StealTypes, backoff, awaiting
  <2> QED
    BY <2>1, <2>3, StealStep, ZenonT(40)
<1>11. ASSUME NEW d \in Device, Quit(d) PROVE StealInv'
  BY <1>11 DEF Quit, actorVars, netVars, OneStealRequest
<1>12. ASSUME NEW slot \in running, Finish(slot) PROVE StealInv'
  BY <1>12, StealUnchanged DEF Finish, actorVars, netVars
<1>13. CASE Shutdown
  BY <1>13, StealUnchanged DEF Shutdown, actorVars, netVars
<1>14. CASE UNCHANGED vars
  BY <1>14, StealUnchanged DEF vars, actorVars, netVars
<1> QED
  BY <1>2, <1>3, <1>4, <1>5, <1>6, <1>7, <1>8, <1>9, <1>10, <1>11, <1>12, <1>13, <1>14
  DEF Next, Handle

\* What a scheduler waits for after a refused steal request never changes.
BackoffConstant == \A d \in Device : current_backoff[d] \in {0, 1, 50}

\* A scheduler has at most one steal request out, awaiting_steal_ is exact, and
\* a back-off always ends with a retry: for any number of devices.
THEOREM StealProtocol == Spec => []OneStealRequest
  BY InitInv, NextInv, PTL DEF Spec, StealInv

\* The arms of the response handlers that double current_backoff_ are never
\* taken: it is 1 after an empty response and 50 after an error, always.
THEOREM BackoffNeverGrows == Spec => []BackoffConstant
<1>1. StealInv => BackoffConstant
  BY DEF StealInv, StealTypes, BackoffConstant
<1> QED
  BY <1>1, InitInv, NextInv, PTL DEF Spec
=============================================================================
