------------------------- MODULE InactivityWatcher -------------------------
(***************************************************************************)
(* The stateful DoFn behind DomainSpec.inactivity_detector                 *)
(* (framework.py, class _InactivityWatcher).  Beam keeps one state cell    *)
(* and one processing-time timer per key and runs the handlers of a key    *)
(* one at a time; an action is one handler call.                           *)
(*                                                                         *)
(* The callbacks of the InactivityDetector are constants: reducer_fn is    *)
(* the function Reduce, should_fire_fn the set Pending of the states it    *)
(* accepts, and the three ...Raises sets say on which arguments reducer_fn *)
(* (with initial_state_fn), should_fire_fn and timeout_event_fn raise.     *)
(*                                                                         *)
(* A timer is a countdown: Unset, or the number of clock ticks that remain *)
(* until it is due.  A due timer stays at 0 until the runner calls         *)
(* _on_timeout, so an event may still be processed before the late call.   *)
(***************************************************************************)
EXTENDS Integers

CONSTANTS
  Key,               \* what detector.key_fn may return
  Event,             \* the events the domain delivers, up to what reducer_fn reads
  DetectorState,     \* the states reducer_fn builds
  NoState,           \* None: state.read() of a key without state
  InitialState,      \* initial_state_fn()
  Reduce,            \* reducer_fn
  Pending,           \* the states on which should_fire_fn returns true
  ReducerRaises,     \* the <<state, event>> on which reducer_fn raises
  ShouldFireRaises,  \* the states on which should_fire_fn raises
  TimeoutFnRaises,   \* the states on which timeout_event_fn raises
  Timeout            \* timeout_secs, in clock ticks

Value == DetectorState \cup {NoState}

ASSUME DetectorAssumption ==
  /\ NoState \notin DetectorState
  /\ InitialState \in Value
  /\ Reduce \in [Value \X Event -> Value]
  /\ Pending \subseteq DetectorState
  /\ ShouldFireRaises \subseteq Value
  /\ Pending \cap ShouldFireRaises = {}
  /\ TimeoutFnRaises \subseteq Value
  /\ Timeout \in Nat \ {0}

VARIABLES
  state,      \* state[k]: the state cell of key k
  timer,      \* timer[k]: Unset, or the ticks left until the timer of k is due
  out,        \* the element yielded last: the event itself or a timeout event
  quiet,      \* history: ticks (at most Timeout) since k's last clean event
  signalled   \* history: k has timed out since its last clean event

vars == <<state, timer, out, quiet, signalled>>

Unset == -1

Armed(k) == timer[k] # Unset

Output == [kind : {"none"}] \cup [kind : {"event"}, key : Key, event : Event]
                            \cup [kind : {"timeout"}, key : Key, state : DetectorState]

(* The type invariant: no handler leaves a countdown beyond timeout_secs, a *)
(* state no callback built, or anything but an event on its output.         *)
TypeOK ==
  /\ state \in [Key -> Value]
  /\ timer \in [Key -> {Unset} \cup 0..Timeout]
  /\ out \in Output
  /\ quiet \in [Key -> 0..Timeout]
  /\ signalled \in [Key -> BOOLEAN]

Init ==
  /\ state = [k \in Key |-> NoState]
  /\ timer = [k \in Key |-> Unset]
  /\ out = [kind |-> "none"]
  /\ quiet = [k \in Key |-> 0]
  /\ signalled = [k \in Key |-> FALSE]

-----------------------------------------------------------------------------
(* process(): one event of key k, whatever its callbacks do. *)

Current(k) == IF state[k] = NoState THEN InitialState ELSE state[k]

Reduced(k, e) == Reduce[<<Current(k), e>>]

(* `yield event`, the last line of process(), outside the try block. *)
Forward(k, e) == out' = [kind |-> "event", key |-> k, event |-> e]

(* initial_state_fn or reducer_fn raises: nothing was written yet. *)
ProcessReducerRaises(k, e) ==
  /\ <<Current(k), e>> \in ReducerRaises
  /\ Forward(k, e)
  /\ UNCHANGED <<state, timer, quiet, signalled>>

(* should_fire_fn raises after state.write(new_state). *)
ProcessShouldFireRaises(k, e) ==
  /\ <<Current(k), e>> \notin ReducerRaises
  /\ Reduced(k, e) \in ShouldFireRaises
  /\ state' = [state EXCEPT ![k] = Reduced(k, e)]
  /\ Forward(k, e)
  /\ UNCHANGED <<timer, quiet, signalled>>

(* Mutants of Reschedule: the else branch is missing; a timer that is set   *)
(* is left alone; the branches are swapped; a tick too many.                *)
RescheduleNeverClears(k, s) == IF s \in Pending THEN [timer EXCEPT ![k] = Timeout] ELSE timer

RescheduleOnce(k, s) ==
  [timer EXCEPT ![k] = IF s \notin Pending THEN Unset ELSE IF Armed(k) THEN @ ELSE Timeout]

RescheduleSwapped(k, s) == [timer EXCEPT ![k] = IF s \in Pending THEN Unset ELSE Timeout]

RescheduleLate(k, s) == [timer EXCEPT ![k] = IF s \in Pending THEN Timeout + 1 ELSE Unset]

(* The timers once k is in state s: k's is set afresh or cleared. *)
Reschedule(k, s) == [timer EXCEPT ![k] = IF s \in Pending THEN Timeout ELSE Unset]

(* No callback raises. *)
ProcessClean(k, e) ==
  /\ <<Current(k), e>> \notin ReducerRaises
  /\ Reduced(k, e) \notin ShouldFireRaises
  /\ state' = [state EXCEPT ![k] = Reduced(k, e)]
  /\ timer' = Reschedule(k, Reduced(k, e))
  /\ Forward(k, e)
  /\ quiet' = [quiet EXCEPT ![k] = 0]
  /\ signalled' = [signalled EXCEPT ![k] = FALSE]

ProcessFails(k, e) == ProcessReducerRaises(k, e) \/ ProcessShouldFireRaises(k, e)

Process(k, e) == ProcessFails(k, e) \/ ProcessClean(k, e)

-----------------------------------------------------------------------------
(* _on_timeout(): the runner delivers the due timer of key k, which consumes it. *)

Due(k) == timer[k] = 0

Consume(k) == timer' = [timer EXCEPT ![k] = Unset]

ShouldFire(k) == state[k] # NoState /\ state[k] \in Pending

WillFire(k) == Due(k) /\ ShouldFire(k) /\ state[k] \notin TimeoutFnRaises

(* should_fire_fn is false, or raises, when asked again: return, state kept. *)
TimeoutDeclined(k) ==
  /\ Due(k)
  /\ ~ShouldFire(k)
  /\ Consume(k)
  /\ UNCHANGED <<state, out, quiet, signalled>>

(* timeout_event_fn raises: return, state kept, and no timer is left. *)
TimeoutEventRaises(k) ==
  /\ Due(k)
  /\ ShouldFire(k)
  /\ state[k] \in TimeoutFnRaises
  /\ Consume(k)
  /\ UNCHANGED <<state, out, quiet, signalled>>

(* Mutants of TimeoutFires: without state.clear(); with a timer that repeats.*)
TimeoutFiresKeepsState(k) ==
  /\ WillFire(k)
  /\ Consume(k)
  /\ out' = [kind |-> "timeout", key |-> k, state |-> state[k]]
  /\ signalled' = [signalled EXCEPT ![k] = TRUE]
  /\ UNCHANGED <<state, quiet>>

TimeoutFiresRepeatedly(k) ==
  /\ WillFire(k)
  /\ timer' = [timer EXCEPT ![k] = Timeout]
  /\ out' = [kind |-> "timeout", key |-> k, state |-> state[k]]
  /\ signalled' = [signalled EXCEPT ![k] = TRUE]
  /\ UNCHANGED <<state, quiet>>

(* The timeout event is yielded and the state cleared. *)
TimeoutFires(k) ==
  /\ WillFire(k)
  /\ Consume(k)
  /\ out' = [kind |-> "timeout", key |-> k, state |-> state[k]]
  /\ state' = [state EXCEPT ![k] = NoState]
  /\ signalled' = [signalled EXCEPT ![k] = TRUE]
  /\ UNCHANGED quiet

OnTimeout(k) == TimeoutDeclined(k) \/ TimeoutEventRaises(k) \/ TimeoutFires(k)

-----------------------------------------------------------------------------
(* Processing time passes. *)
Tick ==
  /\ timer' = [k \in Key |-> IF timer[k] > 0 THEN timer[k] - 1 ELSE timer[k]]
  /\ quiet' = [k \in Key |-> IF quiet[k] < Timeout THEN quiet[k] + 1 ELSE quiet[k]]
  /\ UNCHANGED <<state, out, signalled>>

Next ==
  \/ \E k \in Key, e \in Event : Process(k, e)
  \/ \E k \in Key : OnTimeout(k)
  \/ Tick

Spec == Init /\ [][Next]_vars

(* Time passes, and the runner delivers a timer that stays due.  Nothing    *)
(* makes an event arrive.                                                   *)
Fairness == WF_vars(Tick) /\ \A k \in Key : WF_vars(OnTimeout(k))

FairSpec == Spec /\ Fairness

-----------------------------------------------------------------------------
(* A timer is only ever armed for a key whose state calls for it: the state *)
(* is one should_fire_fn accepted, or one it raised on, in which case the   *)
(* timer set for an earlier state was left running.                         *)
ArmedOnlyIfPending ==
  \A k \in Key : Armed(k) => state[k] \in Pending \cup ShouldFireRaises

(* No pending key is forgotten: as long as its callbacks do not raise on    *)
(* its state, a key that should be flagged after a silence has a timer.     *)
PendingIsArmed ==
  \A k \in Key :
    state[k] \in Pending \ TimeoutFnRaises => Armed(k)

(* The timer measures the silence since the last event that was processed   *)
(* cleanly, neither more nor less.                                          *)
TimerMeasuresSilence ==
  \A k \in Key : Armed(k) => timer[k] = Timeout - quiet[k]

(* A key that has been flagged is not watched again before its next event.  *)
SignalDisarms ==
  \A k \in Key : signalled[k] => ~Armed(k)

(* A pending key whose callbacks do not raise and that hears no more events *)
(* does not stay pending forever: it times out.                             *)
SilentKeyTimesOut ==
  \A k \in Key :
    \/ []<><<\E e \in Event : Process(k, e)>>_vars
    \/ []<>(state[k] \notin Pending \ TimeoutFnRaises)

-----------------------------------------------------------------------------
(* What a domain may rely on, as a specification of its own. *)

Phase == [k \in Key |-> IF Armed(k) THEN "waiting"
                        ELSE IF signalled[k] THEN "signalled" ELSE "idle"]

Contract ==
  INSTANCE InactivityContract
    WITH phase <- Phase,
         MayGiveUp <- ShouldFireRaises \cup TimeoutFnRaises # {}

(* Every run of the watcher is one the contract allows. *)
ImplementsContract == Contract!Spec

(* And no key waits beyond its silence for ever: it is signalled, or given  *)
(* up because a callback raised.                                            *)
ImplementsFairContract == Contract!FairSpec
=============================================================================
