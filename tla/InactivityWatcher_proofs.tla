---------------------- MODULE InactivityWatcher_proofs ----------------------
(***************************************************************************)
(* The watcher for every detector, every set of keys and every timeout:    *)
(* its invariants, proved through one inductive invariant, and the proof   *)
(* that each of its steps is a step the contract allows.                   *)
(***************************************************************************)
EXTENDS InactivityWatcher, TLAPS

(* The runtime value of a key after its reducer ran is a value.             *)
LEMMA ReducedType ==
  ASSUME TypeOK, NEW k \in Key, NEW e \in Event
  PROVE  Reduced(k, e) \in Value
  BY DetectorAssumption DEF TypeOK, Reduced, Current, Value

(* Every cell of the watcher keeps its type: no handler leaves a key with a *)
(* countdown beyond its timeout or yields something that is not an event.   *)
THEOREM TypeCorrect == Spec => []TypeOK
<1>1. Init => TypeOK
  BY DetectorAssumption DEF Init, TypeOK, Value, Output, Unset
<1>2. TypeOK /\ [Next]_vars => TypeOK'
  <2> SUFFICES ASSUME TypeOK, [Next]_vars PROVE TypeOK'
    OBVIOUS
  <2>1. CASE Tick
    BY <2>1, DetectorAssumption DEF TypeOK, Tick, Unset
  <2>2. ASSUME NEW k \in Key, NEW e \in Event, ProcessReducerRaises(k, e)
        PROVE  TypeOK'
    BY <2>2 DEF TypeOK, ProcessReducerRaises, Forward, Output
  <2>3. ASSUME NEW k \in Key, NEW e \in Event, ProcessShouldFireRaises(k, e)
        PROVE  TypeOK'
    BY <2>3, ReducedType DEF TypeOK, ProcessShouldFireRaises, Forward, Output
  <2>4. ASSUME NEW k \in Key, NEW e \in Event, ProcessClean(k, e)
        PROVE  TypeOK'
    BY <2>4, ReducedType, DetectorAssumption
    DEF TypeOK, ProcessClean, Reschedule, Forward, Output, Unset
  <2>5. ASSUME NEW k \in Key, TimeoutDeclined(k) \/ TimeoutEventRaises(k)
        PROVE  TypeOK'
    BY <2>5 DEF TypeOK, TimeoutDeclined, TimeoutEventRaises, Consume
  <2>6. ASSUME NEW k \in Key, TimeoutFires(k)
        PROVE  TypeOK'
    BY <2>6, DetectorAssumption
    DEF TypeOK, TimeoutFires, WillFire, Consume, ShouldFire, Output, Value
  <2>7. CASE UNCHANGED vars
    BY <2>7 DEF TypeOK, vars
  <2> QED
    BY <2>1, <2>2, <2>3, <2>4, <2>5, <2>6, <2>7
    DEF Next, Process, ProcessFails, OnTimeout
<1> QED
  BY <1>1, <1>2, PTL DEF Spec

-----------------------------------------------------------------------------
(* The four invariants hold each other up: a declined timeout leaves no     *)
(* pending key behind only because timers are armed for such states alone,  *)
(* and the silence is measured only because a clean event restarts both.    *)
IInv ==
  /\ TypeOK
  /\ ArmedOnlyIfPending
  /\ PendingIsArmed
  /\ TimerMeasuresSilence
  /\ SignalDisarms

(* A watcher without state, timers or history satisfies the invariant.      *)
LEMMA InitInvariant == Init => IInv
<1>1. Init => TypeOK
  BY DetectorAssumption DEF Init, TypeOK, Value, Output, Unset
<1> QED
  BY <1>1, DetectorAssumption
  DEF Init, IInv, ArmedOnlyIfPending, PendingIsArmed,
      TimerMeasuresSilence, SignalDisarms, Armed, Unset

(* An event that makes some callback raise leaves the timers alone; at most *)
(* it stores a state should_fire_fn raises on.                              *)
LEMMA ProcessFailsKeepsInvariant ==
  ASSUME IInv, TypeOK', NEW k \in Key, NEW e \in Event, ProcessFails(k, e)
  PROVE  IInv'
<1>1. CASE ProcessReducerRaises(k, e)
  BY <1>1 DEF ProcessReducerRaises, IInv, ArmedOnlyIfPending, PendingIsArmed,
              TimerMeasuresSilence, SignalDisarms, Armed
<1>2. CASE ProcessShouldFireRaises(k, e)
  <2> USE <1>2 DEF ProcessShouldFireRaises, IInv, TypeOK, Armed
  <2>1. ArmedOnlyIfPending'
    BY DEF ArmedOnlyIfPending
  <2>2. PendingIsArmed'
    BY DetectorAssumption DEF PendingIsArmed
  <2>3. TimerMeasuresSilence' /\ SignalDisarms'
    BY DEF TimerMeasuresSilence, SignalDisarms
  <2> QED
    BY <2>1, <2>2, <2>3
<1> QED
  BY <1>1, <1>2 DEF ProcessFails

(* A clean event starts a new silence, with a timer exactly if the state    *)
(* reached is pending.                                                      *)
LEMMA ProcessCleanKeepsInvariant ==
  ASSUME IInv, TypeOK', NEW k \in Key, NEW e \in Event, ProcessClean(k, e)
  PROVE  IInv'
<1> USE DEF ProcessClean, Reschedule, IInv, TypeOK, Armed, Unset
<1>1. ArmedOnlyIfPending'
  BY DetectorAssumption DEF ArmedOnlyIfPending
<1>2. PendingIsArmed'
  BY DetectorAssumption DEF PendingIsArmed
<1>3. TimerMeasuresSilence'
  BY DetectorAssumption DEF TimerMeasuresSilence
<1>4. SignalDisarms'
  BY DEF SignalDisarms
<1> QED
  BY <1>1, <1>2, <1>3, <1>4

(* A timeout takes the timer away, and with it either the state or a        *)
(* pending state that timeout_event_fn raises on.                           *)
LEMMA OnTimeoutKeepsInvariant ==
  ASSUME IInv, TypeOK', NEW k \in Key, OnTimeout(k)
  PROVE  IInv'
<1> USE DEF Consume, ShouldFire, IInv, TypeOK, Armed, Unset
<1>1. CASE TimeoutDeclined(k)
  BY <1>1, DetectorAssumption
  DEF TimeoutDeclined, ArmedOnlyIfPending, PendingIsArmed,
      TimerMeasuresSilence, SignalDisarms
<1>2. CASE TimeoutEventRaises(k)
  BY <1>2 DEF TimeoutEventRaises, ArmedOnlyIfPending, PendingIsArmed,
              TimerMeasuresSilence, SignalDisarms
<1>3. CASE TimeoutFires(k)
  BY <1>3, DetectorAssumption
  DEF TimeoutFires, WillFire, ArmedOnlyIfPending, PendingIsArmed,
      TimerMeasuresSilence, SignalDisarms
<1> QED
  BY <1>1, <1>2, <1>3 DEF OnTimeout

(* Time brings every running timer and every silence forward together.      *)
LEMMA TickKeepsInvariant ==
  ASSUME IInv, TypeOK', Tick
  PROVE  IInv'
<1> USE DEF Tick, IInv, TypeOK, Armed, Unset
<1>1. ArmedOnlyIfPending' /\ PendingIsArmed' /\ SignalDisarms'
  BY DEF ArmedOnlyIfPending, PendingIsArmed, SignalDisarms
<1>2. TimerMeasuresSilence'
  BY DetectorAssumption DEF TimerMeasuresSilence
<1> QED
  BY <1>1, <1>2

(* No interleaving of events, failures, timeouts and time breaks any of the *)
(* watcher's invariants.                                                    *)
THEOREM Invariance == Spec => []IInv
<1>1. IInv /\ TypeOK' /\ [Next]_vars => IInv'
  <2> SUFFICES ASSUME IInv, TypeOK', [Next]_vars PROVE IInv'
    OBVIOUS
  <2>1. CASE UNCHANGED vars
    BY <2>1 DEF vars, IInv, TypeOK, ArmedOnlyIfPending, PendingIsArmed,
                TimerMeasuresSilence, SignalDisarms, Armed
  <2> QED
    BY <2>1, ProcessFailsKeepsInvariant, ProcessCleanKeepsInvariant,
       OnTimeoutKeepsInvariant, TickKeepsInvariant
    DEF Next, Process
<1> QED
  BY <1>1, InitInvariant, TypeCorrect, PTL DEF Spec

(* Whenever a timer runs, should_fire_fn accepted the key's state or raised *)
(* on it (_InactivityWatcher.process sets the timer nowhere else).          *)
THEOREM ArmedOnlyIfPendingAlways == Spec => []ArmedOnlyIfPending
  BY Invariance, PTL DEF IInv

(* A pending key always has a timer, unless timeout_event_fn raises on it:  *)
(* clearing and re-arming never lose a key.                                 *)
THEOREM PendingIsArmedAlways == Spec => []PendingIsArmed
  BY Invariance, PTL DEF IInv

(* The timer is exactly the rest of the silence that must still pass.       *)
THEOREM TimerMeasuresSilenceAlways == Spec => []TimerMeasuresSilence
  BY Invariance, PTL DEF IInv

(* A key is not flagged twice for one silence: state.clear() and the used   *)
(* timer leave nothing that could fire before the next event.               *)
THEOREM SignalDisarmsAlways == Spec => []SignalDisarms
  BY Invariance, PTL DEF IInv

-----------------------------------------------------------------------------
(* A due timer means the whole silence has passed, on a key not signalled.  *)
LEMMA DueMeansSilent ==
  ASSUME IInv, NEW k \in Key, Due(k)
  PROVE  quiet[k] = Timeout /\ Armed(k) /\ ~signalled[k] /\ Phase[k] = "waiting"
  BY DetectorAssumption
  DEF Due, IInv, TypeOK, TimerMeasuresSilence, SignalDisarms, Armed, Unset, Phase

(* An event the watcher cannot process is no event for the contract.        *)
LEMMA ProcessFailsStutters ==
  ASSUME IInv, NEW k \in Key, NEW e \in Event, ProcessFails(k, e)
  PROVE  UNCHANGED Contract!vars
  BY DEF ProcessFails, ProcessReducerRaises, ProcessShouldFireRaises,
         Contract!vars, Phase, Armed

(* A clean event is what the contract calls hearing from the key.           *)
LEMMA ProcessCleanHears ==
  ASSUME IInv, NEW k \in Key, NEW e \in Event, ProcessClean(k, e)
  PROVE  Contract!Hear(k)
<1> DEFINE p == IF Reduced(k, e) \in Pending THEN "waiting" ELSE "idle"
<1>1. Phase' = [Phase EXCEPT ![k] = p]
  <2>1. ASSUME NEW j \in Key, j # k PROVE timer'[j] = timer[j] /\ signalled'[j] = signalled[j]
    BY <2>1 DEF ProcessClean, Reschedule, IInv, TypeOK
  <2>2. ~signalled'[k]
    BY DEF ProcessClean, Reschedule, IInv, TypeOK
  <2>3. timer'[k] # Unset <=> Reduced(k, e) \in Pending
    BY DetectorAssumption DEF ProcessClean, Reschedule, IInv, TypeOK, Unset
  <2> QED
    BY <2>1, <2>2, <2>3 DEF Phase, Armed
<1>2. quiet' = [quiet EXCEPT ![k] = 0]
  BY DEF ProcessClean, Reschedule
<1> QED
  BY <1>1, <1>2 DEF Contract!Hear

(* Firing is the contract's signal.                                         *)
LEMMA TimeoutFiresSignals ==
  ASSUME IInv, NEW k \in Key, TimeoutFires(k)
  PROVE  Contract!Signal(k)
<1>1. Phase' = [Phase EXCEPT ![k] = "signalled"]
  BY DEF TimeoutFires, Consume, Phase, Armed, Unset, IInv, TypeOK
<1>2. UNCHANGED quiet /\ Due(k)
  BY DEF TimeoutFires, WillFire
<1> QED
  BY <1>1, <1>2, DueMeansSilent DEF Contract!Signal

(* A timeout without an event is the contract giving up, which it does only *)
(* for a detector that raises: a state that is merely no longer pending has *)
(* no timer left.                                                           *)
LEMMA TimeoutLostGivesUp ==
  ASSUME IInv, NEW k \in Key, TimeoutDeclined(k) \/ TimeoutEventRaises(k)
  PROVE  Contract!GiveUp(k)
<1>1. Due(k) /\ Armed(k) /\ ~signalled[k] /\ quiet[k] = Timeout /\ Phase[k] = "waiting"
  BY DueMeansSilent DEF TimeoutDeclined, TimeoutEventRaises
<1>2. ShouldFireRaises \cup TimeoutFnRaises # {}
  BY <1>1, DetectorAssumption
  DEF TimeoutDeclined, TimeoutEventRaises, ShouldFire, IInv, ArmedOnlyIfPending
<1>3. Phase' = [Phase EXCEPT ![k] = "idle"]
  BY <1>1 DEF TimeoutDeclined, TimeoutEventRaises, Consume, Phase, Armed, Unset, IInv, TypeOK
<1>4. UNCHANGED quiet
  BY DEF TimeoutDeclined, TimeoutEventRaises
<1> QED
  BY <1>1, <1>2, <1>3, <1>4 DEF Contract!GiveUp

(* Time is time.                                                            *)
LEMMA TickPasses ==
  ASSUME IInv, Tick
  PROVE  Contract!Pass
  BY DEF Tick, Contract!Pass, Phase, Armed, Unset, IInv, TypeOK

(* The watcher keeps the safety part of the contract whatever its callbacks *)
(* do: a key is flagged only after a full silence that followed an event    *)
(* that left it pending, and once per silence.                              *)
THEOREM ContractKept == Spec => ImplementsContract
<1>1. Init => Contract!Init
  BY DEF Init, Contract!Init, Phase, Armed
<1>2. IInv /\ [Next]_vars => [Contract!Next]_Contract!vars
  <2> SUFFICES ASSUME IInv, [Next]_vars PROVE [Contract!Next]_Contract!vars
    OBVIOUS
  <2>1. CASE UNCHANGED vars
    BY <2>1 DEF vars, Contract!vars, Phase, Armed
  <2> QED
    BY <2>1, ProcessFailsStutters, ProcessCleanHears, TimeoutFiresSignals,
       TimeoutLostGivesUp, TickPasses
    DEF Next, Process, OnTimeout, Contract!Next
<1> QED
  BY <1>1, <1>2, Invariance, PTL DEF Spec, ImplementsContract, Contract!Spec
=============================================================================
