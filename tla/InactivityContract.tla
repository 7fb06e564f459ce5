------------------------ MODULE InactivityContract ------------------------
(***************************************************************************)
(* What DomainSpec.inactivity_detector promises a domain, without saying   *)
(* how: each event tells whether its key is now waiting for another one; a *)
(* waiting key that has been quiet for Timeout ticks is signalled, once,   *)
(* and is not signalled again before an event makes it wait again.         *)
(***************************************************************************)
EXTENDS Integers

CONSTANTS
  Key,
  Timeout,
  MayGiveUp   \* whether a callback of the detector may raise when the timer is due

VARIABLES
  phase,      \* phase[k]: "idle", "waiting" or "signalled"
  quiet       \* quiet[k]: ticks since the last event that counted, at most Timeout

vars == <<phase, quiet>>

Init ==
  /\ phase = [k \in Key |-> "idle"]
  /\ quiet = [k \in Key |-> 0]

(* An event of k starts a new silence, in which k waits or does not. *)
Hear(k) ==
  /\ \E p \in {"idle", "waiting"} : phase' = [phase EXCEPT ![k] = p]
  /\ quiet' = [quiet EXCEPT ![k] = 0]

(* Only a key that waited through the whole silence is signalled. *)
Signal(k) ==
  /\ phase[k] = "waiting"
  /\ quiet[k] = Timeout
  /\ phase' = [phase EXCEPT ![k] = "signalled"]
  /\ UNCHANGED quiet

(* A detector that raises when the silence is over loses the signal. *)
GiveUp(k) ==
  /\ MayGiveUp
  /\ phase[k] = "waiting"
  /\ quiet[k] = Timeout
  /\ phase' = [phase EXCEPT ![k] = "idle"]
  /\ UNCHANGED quiet

Pass ==
  /\ quiet' = [k \in Key |-> IF quiet[k] < Timeout THEN quiet[k] + 1 ELSE quiet[k]]
  /\ UNCHANGED phase

Next ==
  \/ \E k \in Key : Hear(k) \/ Signal(k) \/ GiveUp(k)
  \/ Pass

Spec == Init /\ [][Next]_vars

FairSpec ==
  /\ Spec
  /\ WF_vars(Pass)
  /\ \A k \in Key : WF_vars(Signal(k) \/ GiveUp(k))
=============================================================================
