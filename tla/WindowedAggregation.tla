------------------------ MODULE WindowedAggregation ------------------------
(***************************************************************************)
(* The aggregation branch of a domain (framework.py: _window_transform,    *)
(* CombinePerKey over a _DlqWrappingCombineFn, _AttachWindowAndKey,        *)
(* DetectAlerts) with the CombineFn and the alerts of any of the examples' *)
(* domains.  Beam treats keys and windows independently; the module is one *)
(* window of one key.                                                      *)
(*                                                                         *)
(* Events reach the window in bundles: a bundle's events are combined into *)
(* a partial accumulator, the partial is merged into the window's, and a   *)
(* trigger decides when the window's is put out as a pane.  The watermark  *)
(* is the runner's.                                                        *)
(***************************************************************************)
EXTENDS Aggregates, Sequences, FiniteSets, Functions

CONSTANTS
  Event,             \* the events of the window, however late they come
  WindowEnd,         \* window_secs, in watermark steps
  Mode,              \* the configurations considered, see ModeType
  MaxPanes           \* bound: early panes

(* A domain, the events it gets, the fields of its DomainSpec that decide   *)
(* the windowing, and whether its merge_accumulators, extract_output and    *)
(* alert_evaluator may raise:                                               *)
(*   combiner      whose CombineFn and alert_evaluator                      *)
(*   input         what each event says                                     *)
(*   lateness      allowed_lateness_secs, in watermark steps                *)
(*   early         early_firing_secs is set                                 *)
(*   accumulating  accumulation_mode = "accumulating"                       *)
ModeType == [combiner : Combiner, input : [Event -> Input],
             lateness : Nat, early : BOOLEAN, accumulating : BOOLEAN, faulty : BOOLEAN]

(* AfterWatermark(early=...) with an allowed lateness is a trigger Beam's   *)
(* CombinePerKey refuses as unsafe when the pipeline is built.              *)
Buildable(m) == m.early => m.lateness = 0

ASSUME AggregationAssumption ==
  /\ IsFiniteSet(Event)
  /\ WindowEnd \in Nat \ {0}
  /\ Mode \subseteq ModeType
  /\ MaxPanes \in Nat

VARIABLES
  mode,        \* the domain, its windowing and its events; fixed
  watermark,   \* how far event time has come; the window is [0, WindowEnd)
  coming,      \* the events that have not arrived
  partial,     \* the accumulator of the bundle in hand
  bundle,      \* history: the events added to it
  window,      \* the window's accumulator
  due,         \* the trigger is to fire
  panes,       \* what was put out, see Pane
  held,        \* history: the events merged into the window
  lost         \* history: the events dropped as late, or with a merge that raised

vars == <<mode, watermark, coming, partial, bundle, window, due, panes, held, lost>>

(* A pane's accumulator, where it went, whether DetectAlerts judged it and  *)
(* the alerts it wrote, and the events the window held.                     *)
Pane == [agg : Accumulator(mode.combiner), to : {"table", "dlq"},
         judged : {"not", "yes", "dlq"}, alerts : SUBSET AlertRecord,
         of : SUBSET Event]

(* The type invariant.  The bundle in hand, the window and the losses are   *)
(* made of different events that have arrived.                              *)
TypeOK ==
  /\ mode \in ModeType /\ Buildable(mode)
  /\ watermark \in 0..(WindowEnd + mode.lateness)
  /\ {partial, window} \subseteq Accumulator(mode.combiner)
  /\ due \in BOOLEAN
  /\ panes \in Seq(Pane)
  /\ coming \cup bundle \cup held \cup lost = Event
  /\ Cardinality(coming) + Cardinality(bundle) + Cardinality(held) + Cardinality(lost)
       = Cardinality(Event)

New == Empty(mode.combiner)

Init ==
  /\ mode \in {m \in Mode : Buildable(m)}
  /\ watermark = 0
  /\ coming = Event
  /\ partial = New /\ bundle = {}
  /\ window = New /\ held = {} /\ lost = {}
  /\ due = FALSE
  /\ panes = <<>>

-----------------------------------------------------------------------------
(* The wrapped add_input, whether the inner one returns or raises.          *)
Arrive(e) ==
  /\ e \in coming
  /\ coming' = coming \ {e}
  /\ partial' = AddInput(mode.combiner, partial, mode.input[e])
  /\ bundle' = bundle \cup {e}
  /\ UNCHANGED <<mode, watermark, window, due, panes, held, lost>>

Expired == watermark >= WindowEnd + mode.lateness

(* Mutant of EndBundle: the partial is handed on a second time. *)
EndBundleKeepsPartial == UNCHANGED <<partial, bundle>>

EndBundle == partial' = New /\ bundle' = {}

(* Mutant of MergePartial: a late bundle calls for no pane. *)
MergePartialSilently ==
  /\ bundle # {} /\ ~Expired
  /\ window' = Merge(window, partial)
  /\ held' = held \cup bundle
  /\ EndBundle
  /\ UNCHANGED <<mode, watermark, coming, due, panes, lost>>

(* The partial and the window's accumulator are merged, in either order,    *)
(* while the window is open.  Past the window's end that calls for another  *)
(* pane.                                                                    *)
MergePartial ==
  /\ bundle # {} /\ ~Expired
  /\ window' \in {Merge(window, partial), Merge(partial, window)}
  /\ held' = held \cup bundle
  /\ due' = (watermark >= WindowEnd)
  /\ EndBundle
  /\ UNCHANGED <<mode, watermark, coming, panes, lost>>

(* Mutant of MergeRaises: what was merged is kept, and merged again. *)
MergeRaisesHalfway ==
  /\ mode.faulty
  /\ bundle # {} /\ ~Expired
  /\ window' = Merge(window, partial)
  /\ due' = (watermark >= WindowEnd)
  /\ UNCHANGED <<mode, watermark, coming, partial, bundle, panes, held, lost>>

(* merge_accumulators raises: the first accumulator of the batch is kept,   *)
(* whichever that is.                                                       *)
MergeRaises ==
  /\ mode.faulty
  /\ bundle # {} /\ ~Expired
  /\ \/ window' = window /\ lost' = lost \cup bundle /\ UNCHANGED held
     \/ window' = partial /\ lost' = lost \cup held /\ held' = bundle
  /\ due' = (watermark >= WindowEnd)
  /\ EndBundle
  /\ UNCHANGED <<mode, watermark, coming, panes>>

(* A bundle for a window that has expired is dropped. *)
DropLate ==
  /\ bundle # {} /\ Expired
  /\ lost' = lost \cup bundle
  /\ EndBundle
  /\ UNCHANGED <<mode, watermark, coming, window, due, panes, held>>

-----------------------------------------------------------------------------
(* extract_output, _AttachWindowAndKey and DetectAlerts on one pane: an     *)
(* aggregate that cannot be extracted becomes the sentinel that goes to the *)
(* dlq; alerts are all or none.                                             *)
Outcome ==
  LET c == mode.combiner
  IN  {[to |-> "table", judged |-> IF HasEvaluator(c) THEN "yes" ELSE "not",
        alerts |-> Alerts(c, window)]}
      \cup {o \in {[to |-> "dlq", judged |-> "not", alerts |-> {}],
                   [to |-> "table", judged |-> "dlq", alerts |-> {}]} :
              mode.faulty /\ (o.judged = "dlq" => HasEvaluator(c))}

(* Mutant of AfterPane: the modes are swapped. *)
AfterPaneSwapped == IF mode.accumulating THEN New ELSE window

AfterPane == IF mode.accumulating THEN window ELSE New

PutOut ==
  /\ \E o \in Outcome :
       panes' = Append(panes, [agg |-> window, to |-> o.to, judged |-> o.judged,
                               alerts |-> o.alerts, of |-> held])
  /\ window' = AfterPane
  /\ UNCHANGED <<mode, watermark, coming, partial, bundle, held, lost>>

(* AfterProcessingTime(early_firing_secs), possibly with nothing new. *)
FireEarly ==
  /\ mode.early
  /\ held # {} /\ watermark < WindowEnd
  /\ Len(panes) < MaxPanes
  /\ PutOut
  /\ UNCHANGED due

(* The pane at the end of the window, and one for each late bundle. *)
Fire ==
  /\ due
  /\ PutOut
  /\ due' = FALSE

(* Event time moves on.  The bundle in hand holds it back, and a trigger    *)
(* that is due fires first.                                                 *)
Advance ==
  /\ ~Expired /\ ~due /\ bundle = {}
  /\ watermark' = watermark + 1
  /\ due' = (watermark' = WindowEnd /\ held # {})
  /\ UNCHANGED <<mode, coming, partial, bundle, window, panes, held, lost>>

Next ==
  \/ \E e \in Event : Arrive(e)
  \/ MergePartial \/ MergeRaises \/ DropLate
  \/ FireEarly \/ Fire
  \/ Advance

Spec == Init /\ [][Next]_vars

(* Bundles are finished, the watermark advances and due triggers fire.      *)
(* Nothing makes an event arrive.                                           *)
FairSpec ==
  /\ Spec
  /\ WF_vars(MergePartial \/ MergeRaises \/ DropLate)
  /\ WF_vars(Advance)
  /\ WF_vars(Fire)

-----------------------------------------------------------------------------
(* What each event adds to a number, and what an aggregate of the events S  *)
(* should say, bundles apart.                                               *)
Increments(m, f) == [e \in Event |-> Increment(m.combiner, m.input[e], f)]

Reference(S) == [f \in Numbers(New) |-> SumFunctionOnSet(Increments(mode, f), S)]

(* acc is the aggregate of S: the numbers are those of the events, and the  *)
(* last channel, region or product type is some event's.  An applicant's is *)
(* forgotten only if no event has one, a customer's if one event has none.  *)
Describes(acc, S) ==
  LET places == {mode.input[e].place : e \in S}
  IN  /\ \A f \in Numbers(acc) : acc[f] = Reference(S)[f]
      /\ "last" \in DOMAIN acc =>
           /\ acc.last \in places \cup {None}
           /\ acc.last = None /\ S # {} =>
                IF mode.combiner = "applicant_360" THEN places = {None} ELSE None \in places

Total == MapThenFoldSet(Merge, New, LAMBDA i : panes[i].agg,
                        LAMBDA I : CHOOSE i \in I : TRUE, DOMAIN panes)

(* However the events were split into bundles, in whatever order those were *)
(* merged, and the window into panes, what was put out is the aggregate of  *)
(* exactly the events held: in accumulating mode every pane says so, in     *)
(* discarding mode their sum with what the window still has.                *)
PanesAddUp ==
  ~mode.faulty =>
    IF mode.accumulating
    THEN /\ Describes(window, held)
         /\ \A i \in DOMAIN panes : Describes(panes[i].agg, panes[i].of)
    ELSE Describes(Merge(Total, window), held)

(* With the default windowing a window is judged once and as a whole: its   *)
(* one pane raises just the alerts that the events that came in time call   *)
(* for.  Rates would be meaningless of parts of a window.                   *)
JudgedOnceAsAWhole ==
  ~mode.early /\ mode.lateness = 0 /\ ~mode.faulty =>
    /\ Len(panes) <= 1
    /\ watermark = WindowEnd /\ ~due /\ held # {} =>
         panes # <<>> /\ panes[1].alerts = Alerts(mode.combiner, Reference(held))

(* A merge or an extraction that raises loses events, but counts none twice *)
(* (_DlqWrappingCombineFn keeps one accumulator of the batch, not several). *)
NothingCountedTwice ==
  LET n == Cardinality(held \cup lost)
  IN  IF mode.accumulating
      THEN \A i \in DOMAIN panes : panes[i].agg.event_count <= n
      ELSE Total.event_count + window.event_count <= n

(* Every event that arrives within allowed_lateness_secs of its window's end *)
(* is put out in some pane, those that come after the first pane included.   *)
ArrivalIsReported ==
  \A e \in Event :
    [](e \in bundle /\ ~Expired
         => <>(\E i \in DOMAIN panes : e \in panes[i].of) \/ mode.faulty)

(* "the offending input/merge dropped (the accumulator is returned          *)
(* unchanged ...)" (framework.py:649-650) when add_input raises.            *)
FailedInputLeavesAccumulator ==
  [][\A e \in Event :
       e \in coming \ coming' /\ mode.input[e].order_total = NotANumber => partial' = partial]_vars
=============================================================================
