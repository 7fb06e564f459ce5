-------------------------- MODULE DetectingDomain --------------------------
(***************************************************************************)
(* A domain with an inactivity detector from end to end: IngestPipeline    *)
(* around the InactivityWatcher that build_streaming_pipeline wires        *)
(* between its Validate and Enrich (framework.py:927-938).  A message that *)
(* reaches the watcher is an event of its session; a timeout event of the  *)
(* watcher is a synthetic element of the pipeline; the memory of           *)
(* DeduplicatePerKey and the watcher's timers run on one clock.            *)
(*                                                                         *)
(* Callbacks that raise are InactivityWatcher's own matter; here they      *)
(* return.                                                                 *)
(***************************************************************************)
EXTENDS IngestPipeline

CONSTANTS
  Session,         \* what detector.key_fn may return
  SessionEvent,    \* the events of a session
  SessionOf,       \* SessionOf[k], EventOf[k]: the session and the event that
  EventOf,         \*   messages of identity k carry
  DetectorState, NoState, InitialState, Reduce, Pending, Timeout

NoSession == "none"

ASSUME DomainAssumption ==
  /\ NoSession \notin Session
  /\ SessionOf \in [DedupKey -> Session]
  /\ EventOf \in [DedupKey -> SessionEvent]

VARIABLES
  state, timer, out, quiet, signalled,   \* the watcher's, see InactivityWatcher
  about,       \* about[s]: the session that timed out with s, NoSession before
  fused        \* the runner puts watcher, Enrich and the coercion in one bundle; fixed

watcherVars == <<state, timer, out, quiet, signalled>>
domainVars == <<vars, watcherVars, about, fused>>

Watcher == INSTANCE InactivityWatcher
             WITH Key <- Session, Event <- SessionEvent,
                  ReducerRaises <- {}, ShouldFireRaises <- {}, TimeoutFnRaises <- {}

ASSUME WatcherAssumption == Watcher!DetectorAssumption

(* The type invariant: both components', and a synthetic element exists     *)
(* just when a session's timeout has made it.                               *)
DomainTypeOK ==
  /\ TypeOK /\ Watcher!TypeOK
  /\ about \in [Synthetic -> Session \cup {NoSession}]
  /\ \A s \in Synthetic : at[s] = "unborn" <=> about[s] = NoSession
  /\ fused \in BOOLEAN

DomainInit ==
  /\ Init /\ Watcher!Init
  /\ about = [s \in Synthetic |-> NoSession]
  /\ fused \in BOOLEAN

-----------------------------------------------------------------------------
(* Every transform but the watcher. *)
ProceedsElsewhere(e) ==
  /\ ParseMessage(e) \/ Dedup(e) \/ ValidateEvent(e) \/ EnrichEvent(e) \/ WriteAndKey(e)
  /\ UNCHANGED <<watcherVars, about, fused>>

RaisesElsewhere(e) == Raises(e) /\ UNCHANGED <<watcherVars, about, fused>>

(* A coercion that will raise takes the bundle with it, the watcher's state *)
(* included, if it is in the watcher's bundle.                              *)
BundleFails(e) == fused /\ CoercionFails(e)

WatchRaises(e) ==
  /\ at[e] = "detector"
  /\ ~HasFlaw(e, "detector_key")
  /\ BundleFails(e)
  /\ Raise(e)
  /\ UNCHANGED <<configuration, seenFor, raw, keyed, duplicates, windows>>
  /\ UNCHANGED <<watcherVars, about, fused>>

WatchSession(e) ==
  /\ ~BundleFails(e)
  /\ Watch(e)
  /\ Watcher!ProcessClean(SessionOf[body[e].key], EventOf[body[e].key])
  /\ UNCHANGED <<about, fused>>

(* The session's timer fires and its timeout event enters the pipeline. *)
TimeOut(k, s) ==
  /\ Watcher!TimeoutFires(k)
  /\ Synthesize(s)
  /\ about' = [about EXCEPT ![s] = k]
  /\ UNCHANGED fused

Clock == Forget /\ Watcher!Tick /\ UNCHANGED <<about, fused>>

DomainNext ==
  \/ \E e \in Element : ProceedsElsewhere(e) \/ RaisesElsewhere(e)
  \/ \E e \in Message : WatchSession(e) \/ WatchRaises(e)
  \/ \E k \in Session, s \in Synthetic : TimeOut(k, s)
  \/ Clock

DomainSpecification == DomainInit /\ [][DomainNext]_domainVars

(* The runner gets round to every element and to every timer that is due,   *)
(* and time passes.                                                         *)
DomainFairness ==
  /\ \A e \in Element : WF_domainVars(ProceedsElsewhere(e) \/ WatchSession(e))
  /\ \A k \in Session : WF_domainVars(\E s \in Synthetic : TimeOut(k, s))
  /\ WF_domainVars(Clock)

FairDomain == DomainSpecification /\ DomainFairness

-----------------------------------------------------------------------------
(* An event of identity k makes its session pending, whatever the session's *)
(* state; or at least from some state that is not pending, none included.   *)
Opens(k) ==
  \A st \in DetectorState \cup {InitialState} : Reduce[<<st, EventOf[k]>>] \in Pending

MayOpen(k) ==
  \E st \in (DetectorState \ Pending) \cup {InitialState} : Reduce[<<st, EventOf[k]>>] \in Pending

(* The timeouts of session k; and the times, numbered for each identity, an *)
(* identity that may open the session began to be remembered.               *)
Flags(k) == {s \in Synthetic : about[s] = k}

Openers(k) == {d \in DedupKey : SessionOf[d] = k /\ MayOpen(d)}

Memories(k) == UNION {{d} \X (1..windows[d]) : d \in Openers(k)}

(* With deduplication a session is flagged at most once for each time an    *)
(* identity that opens it began to be remembered: a redelivery within       *)
(* dedup_window_secs flags no session twice, even one that comes when the   *)
(* timeout has already cleared the session's state.                         *)
FlagsPerMemory ==
  spec.dedup => \A k \in Session : Cardinality(Flags(k)) <= Cardinality(Memories(k))

(* No transform before the watcher objects to m. *)
ReachesWatcher(m) ==
  /\ body[m].flaws \cap {"json", "object", "detector_key"} = {}
  /\ spec.dedup => ~HasFlaw(m, "dedup_key")
  /\ Valid(m)

(* m opens its session, and whatever else is delivered takes neither its    *)
(* identity nor closes the session.                                         *)
Abandoned(m) ==
  /\ body[m].flaws = {} /\ Opens(body[m].key)
  /\ \A n \in Message \ Twins(m) :
       ReachesWatcher(n) => SessionOf[body[n].key] # SessionOf[body[m].key] \/ Opens(body[n].key)
  /\ \A n \in Message \ Twins(m) : body[n].key = body[m].key => HasFlaw(n, "json")

Recorded(s) ==
  IF HasFlaw(s, "object") THEN spec.dlq_table => Failed(s, {"enrich"})
  ELSE (spec.raw_table => s \in raw) /\ (spec.enriched_table => s \in keyed)

(* A session that was opened and left is flagged in the end, and its        *)
(* timeout event is in the domain's tables as a real event would be         *)
(* (InactivityDetector's docstring, framework.py:144-147); closing messages *)
(* that validation sends to the dlq do not prevent it, nor do redeliveries. *)
AbandonedSessionIsRecorded ==
  \A m \in Message :
    [](spec.detector /\ Abandoned(m)
         => <>(\E s \in Flags(SessionOf[body[m].key]) : Recorded(s)))
=============================================================================
