----------------------- MODULE DetectingDomain_proofs -----------------------
(***************************************************************************)
(* Proofs about IngestPipeline, and about DetectingDomain, which is made   *)
(* of it: for any number of elements, identities and sessions, any         *)
(* DomainSpecs and any combination of flaws.  What IngestPipeline promises *)
(* survives the composition with the watcher, bundles that fail included;  *)
(* the watcher inside a domain still is an InactivityWatcher; a redelivery *)
(* flags no session twice; and no session that was left is lost sight of.  *)
(***************************************************************************)
EXTENDS DetectingDomain, FiniteSetTheorems, FunctionTheorems, TLAPS

-----------------------------------------------------------------------------
(* The parts of the inductive invariant. *)

(* An element no branch has done anything with yet. *)
Clean(e) ==
  /\ e \notin raw /\ e \notin keyed /\ e \notin duplicates
  /\ \A s \in Stage : <<e, s>> \notin dlq

(* Only elements that have left the pipeline have traces in it. *)
TracesComeLast == \A e \in Element : at[e] # "out" => Clean(e)

(* Timeout events enter behind the watcher, and messages are there from the *)
(* start.                                                                   *)
Entered ==
  /\ \A e \in Synthetic : at[e] \in {"unborn", "enrich", "sink", "out"}
  /\ \A e \in Message : at[e] # "unborn"

(* What is known of a message by where it is. *)
Examined ==
  \A m \in Message :
    /\ at[m] \in {"dedup", "validate", "detector", "enrich", "sink"} \/ m \in raw \cup keyed
         => ~HasFlaw(m, "json")
    /\ at[m] \in {"detector", "enrich", "sink"} \/ m \in raw \cup keyed
         => ~HasFlaw(m, "object") /\ Valid(m)

IInv == TypeOK /\ TracesComeLast /\ Entered /\ Examined /\ ExactlyOneFate

(* A poison element waits at the transform that raises on it. *)
PoisonWaits ==
  \A e \in raised :
    \/ at[e] = "dedup" /\ HasFlaw(e, "dedup_key")
    \/ at[e] = "validate" /\ HasFlaw(e, "object")
    \/ at[e] = "detector" /\ HasFlaw(e, "detector_key")
    \/ at[e] = "sink" /\ CoercionFails(e)

-----------------------------------------------------------------------------
(* Every step but those of the clock is one element's. *)

RaisesInPlace(e) ==
  /\ at[e] \notin {"unborn", "out"}
  /\ raised' = raised \cup {e}
  /\ UNCHANGED <<spec, body, at, seenFor, raw, keyed, dlq, duplicates, windows>>

Steps(e) == Proceeds(e) \/ RaisesInPlace(e) \/ (e \in Synthetic /\ Synthesize(e))

LEMMA RaisingChangesNothing == ASSUME NEW e, Raises(e) PROVE RaisesInPlace(e)
  BY DEF Raises, RaisesInPlace, DedupKeyRaises, ValidateRaises, DetectorKeyRaises, CoerceRaises,
         Raise, configuration

LEMMA NextIsAStep ==
  ASSUME [Next]_vars
  PROVE  (\E e \in Element : Steps(e)) \/ Forget \/ UNCHANGED vars
  BY RaisingChangesNothing DEF Next, Steps, Tick, Element

(* A step of e leaves every other element where it is, with its traces.     *)
LEMMA OthersUndisturbed ==
  ASSUME TypeOK, NEW e \in Element, Steps(e), NEW f \in Element \ {e}
  PROVE  /\ UNCHANGED <<spec, body>>
         /\ at'[f] = at[f]
         /\ f \in raw' <=> f \in raw
         /\ f \in keyed' <=> f \in keyed
         /\ f \in duplicates' <=> f \in duplicates
         /\ \A s \in Stage : <<f, s>> \in dlq' <=> <<f, s>> \in dlq
<1> USE DEF TypeOK, configuration, Go, ToDlq, Quarantine
<1>1. CASE ParseMessage(e) \/ ValidateEvent(e) \/ EnrichEvent(e)
  BY <1>1 DEF ParseMessage, ValidateEvent, EnrichEvent
<1>2. CASE Dedup(e)
  BY <1>2 DEF Dedup, DropDuplicate, Remember
<1>3. CASE Watch(e) \/ RaisesInPlace(e) \/ Synthesize(e)
  BY <1>3 DEF Watch, RaisesInPlace, Synthesize
<1>4. CASE WriteAndKey(e)
  BY <1>4 DEF WriteAndKey, AggregationBranch
<1> QED
  BY <1>1, <1>2, <1>3, <1>4 DEF Steps, Proceeds

-----------------------------------------------------------------------------
LEMMA InitEstablishesInvariant == Init => IInv /\ PoisonWaits
<1> SUFFICES ASSUME Init PROVE IInv /\ PoisonWaits
  OBVIOUS
<1>1. TypeOK
  <2>1. spec \in SpecType /\ body \in [Element -> BodyType]
    BY ConfigurationAssumption DEF Init
  <2> QED
    BY <2>1, IngestAssumption DEF Init, TypeOK, Place
<1>2. TracesComeLast /\ Entered /\ Examined /\ ExactlyOneFate /\ PoisonWaits
  BY IngestAssumption DEF Init, TracesComeLast, Clean, Entered, Examined, ExactlyOneFate,
                          PoisonWaits, Element
<1> QED
  BY <1>1, <1>2 DEF IInv

LEMMA StepKeepsType ==
  ASSUME IInv, NEW e \in Element, Steps(e)
  PROVE  TypeOK'
<1> USE DEF IInv, TypeOK, configuration, Go, Place, Stage
<1>1. CASE ParseMessage(e)
  BY <1>1 DEF ParseMessage, ToDlq, Quarantine, AfterParse
<1>2. CASE Dedup(e)
  <2>1. e \in Message
    BY <1>2 DEF Dedup, Entered, Element
  <2>2. body[e].key \in DedupKey
    BY DEF BodyType
  <2> QED
    BY <1>2, <2>1, <2>2, IngestAssumption DEF Dedup, DropDuplicate, Remember
<1>3. CASE ValidateEvent(e)
  BY <1>3 DEF ValidateEvent, ToDlq, Quarantine, AfterValidate
<1>4. CASE Watch(e) \/ RaisesInPlace(e) \/ Synthesize(e)
  BY <1>4 DEF Watch, RaisesInPlace, Synthesize
<1>5. CASE EnrichEvent(e)
  BY <1>5 DEF EnrichEvent, ToDlq, Quarantine
<1>6. CASE WriteAndKey(e)
  BY <1>6 DEF WriteAndKey, AggregationBranch, Quarantine
<1> QED
  BY <1>1, <1>2, <1>3, <1>4, <1>5, <1>6 DEF Steps, Proceeds

(* What a step of e does to e itself.  A stage that sends e to the dlq      *)
(* leaves exactly one row; the end of the pipeline one trace per branch.    *)
LEMMA StepKeepsTraces ==
  ASSUME IInv, NEW e \in Element, Steps(e)
  PROVE  TracesComeLast'
<1>1. at'[e] # "out" => Clean(e)'
  <2> USE DEF IInv, TypeOK, TracesComeLast, Clean, configuration, Go, ToDlq
  <2>1. CASE ParseMessage(e) \/ ValidateEvent(e) \/ EnrichEvent(e)
    BY <2>1 DEF ParseMessage, ValidateEvent, EnrichEvent
  <2>2. CASE Dedup(e)
    BY <2>2 DEF Dedup, DropDuplicate, Remember
  <2>3. CASE Watch(e) \/ RaisesInPlace(e) \/ Synthesize(e)
    BY <2>3 DEF Watch, RaisesInPlace, Synthesize
  <2>4. CASE WriteAndKey(e)
    BY <2>4 DEF WriteAndKey
  <2> QED
    BY <2>1, <2>2, <2>3, <2>4 DEF Steps, Proceeds
<1> QED
  BY <1>1, OthersUndisturbed DEF IInv, TracesComeLast, Clean

LEMMA StepKeepsEntered ==
  ASSUME IInv, NEW e \in Element, Steps(e)
  PROVE  Entered'
<1> USE DEF IInv, TypeOK, Entered, configuration, Go, Element
<1>1. CASE ParseMessage(e) \/ ValidateEvent(e) \/ EnrichEvent(e)
  BY <1>1 DEF ParseMessage, ValidateEvent, EnrichEvent, ToDlq, AfterParse, AfterValidate
<1>2. CASE Dedup(e)
  BY <1>2 DEF Dedup, DropDuplicate, Remember
<1>3. CASE Watch(e) \/ RaisesInPlace(e) \/ (e \in Synthetic /\ Synthesize(e))
  BY <1>3, IngestAssumption DEF Watch, RaisesInPlace, Synthesize
<1>4. CASE WriteAndKey(e)
  BY <1>4 DEF WriteAndKey
<1> QED
  BY <1>1, <1>2, <1>3, <1>4 DEF Steps, Proceeds

LEMMA StepKeepsExamined ==
  ASSUME IInv, NEW e \in Element, Steps(e)
  PROVE  Examined'
<1> DEFINE Known(m) ==
      /\ at[m] \in {"dedup", "validate", "detector", "enrich", "sink"} \/ m \in raw \cup keyed
           => ~HasFlaw(m, "json")
      /\ at[m] \in {"detector", "enrich", "sink"} \/ m \in raw \cup keyed
           => ~HasFlaw(m, "object") /\ Valid(m)
<1>1. ASSUME NEW m \in Message, m # e PROVE Known(m)'
  <2>1. UNCHANGED <<spec, body>> /\ at'[m] = at[m] /\ (m \in raw' <=> m \in raw)
          /\ (m \in keyed' <=> m \in keyed)
    BY <1>1, OthersUndisturbed DEF IInv, Element
  <2> QED
    BY <2>1, <1>1 DEF IInv, Examined, HasFlaw, Valid, EnvelopeOK, DomainOK, PayloadOK,
                      PayloadFieldsOK
<1>2. ASSUME e \in Message PROVE Known(e)'
  <2>1. Known(e) /\ e \in Element
    BY <1>2 DEF IInv, Examined
  <2>2. UNCHANGED <<spec, body>>
    BY DEF Steps, Proceeds, ParseMessage, Dedup, ValidateEvent, Watch, EnrichEvent, WriteAndKey,
           RaisesInPlace, Synthesize, configuration
  <2>3. (HasFlaw(e, "json"))' <=> HasFlaw(e, "json")
    BY <2>2 DEF HasFlaw
  <2>4. (HasFlaw(e, "object"))' <=> HasFlaw(e, "object")
    BY <2>2 DEF HasFlaw
  <2>5. Valid(e)' <=> Valid(e)
    BY <2>2 DEF HasFlaw, Valid, EnvelopeOK, DomainOK, PayloadOK, PayloadFieldsOK
  <2>6. at[e] # "out" => e \notin raw /\ e \notin keyed
    BY DEF IInv, TracesComeLast, Clean
  <2> USE <2>1, <2>3, <2>4, <2>5, <2>6 DEF IInv, TypeOK, Go
  <2>7. CASE ParseMessage(e)
    BY <2>7 DEF ParseMessage, ToDlq, AfterParse
  <2>8. CASE Dedup(e)
    BY <2>8 DEF Dedup, DropDuplicate, Remember
  <2>9. CASE ValidateEvent(e)
    BY <2>9 DEF ValidateEvent, ToDlq, AfterValidate
  <2>10. CASE Watch(e) \/ RaisesInPlace(e)
    BY <2>10 DEF Watch, RaisesInPlace
  <2>11. CASE EnrichEvent(e)
    BY <2>11 DEF EnrichEvent, ToDlq
  <2>12. CASE WriteAndKey(e)
    BY <2>12 DEF WriteAndKey, AggregationBranch
  <2> QED
    BY <1>2, <2>7, <2>8, <2>9, <2>10, <2>11, <2>12, IngestAssumption DEF Steps, Proceeds
<1> QED
  BY <1>1, <1>2 DEF Examined

LEMMA StepKeepsFates ==
  ASSUME IInv, NEW e \in Element, Steps(e)
  PROVE  ExactlyOneFate'
<1> DEFINE Fate(f) ==
      at[f] = "out" =>
        LET early == Failed(f, {"parse", "validate", "enrich"})
            late  == Failed(f, {"key"})
        IN  /\ f \in duplicates => f \notin raw \cup keyed /\ ~early /\ ~late
            /\ f \notin duplicates =>
                 /\ spec.raw_table => (f \in raw <=> ~early)
                 /\ spec.enriched_table => (f \in keyed <=> ~early /\ ~late)
                 /\ early => ~late
<1> SUFFICES ASSUME spec'.dlq_table PROVE \A f \in Element : Fate(f)'
  BY DEF ExactlyOneFate
<1>0. UNCHANGED <<spec, body>>
  BY DEF Steps, Proceeds, ParseMessage, Dedup, ValidateEvent, Watch, EnrichEvent, WriteAndKey,
         RaisesInPlace, Synthesize, configuration
<1>1. ASSUME NEW f \in Element, f # e PROVE Fate(f)'
  <2>1. /\ at'[f] = at[f] /\ (f \in raw' <=> f \in raw) /\ (f \in keyed' <=> f \in keyed)
        /\ (f \in duplicates' <=> f \in duplicates)
        /\ \A s \in Stage : <<f, s>> \in dlq' <=> <<f, s>> \in dlq
    BY <1>1, OthersUndisturbed DEF IInv
  <2>2. Fate(f)
    BY <1>0 DEF IInv, ExactlyOneFate
  <2> QED
    BY <1>0, <2>1, <2>2 DEF Failed, Stage
<1>2. Fate(e)'
  <2>1. at[e] # "out" => Clean(e)
    BY DEF IInv, TracesComeLast
  <2> USE <1>0, <2>1 DEF IInv, TypeOK, Clean, Stage, Failed, Go, ToDlq, Quarantine
  <2>2. CASE ParseMessage(e) \/ ValidateEvent(e) \/ EnrichEvent(e)
    BY <2>2 DEF ParseMessage, ValidateEvent, EnrichEvent, AfterParse, AfterValidate
  <2>3. CASE Dedup(e)
    BY <2>3 DEF Dedup, DropDuplicate, Remember
  <2>4. CASE Watch(e) \/ RaisesInPlace(e) \/ Synthesize(e)
    BY <2>4 DEF Watch, RaisesInPlace, Synthesize
  <2>5. CASE WriteAndKey(e)
    BY <2>5 DEF WriteAndKey, AggregationBranch
  <2> QED
    BY <2>2, <2>3, <2>4, <2>5 DEF Steps, Proceeds
<1> QED
  BY <1>1, <1>2

LEMMA StepKeepsInvariant ==
  ASSUME IInv, NEW e \in Element, Steps(e)
  PROVE  IInv'
  BY StepKeepsType, StepKeepsTraces, StepKeepsEntered, StepKeepsExamined, StepKeepsFates DEF IInv

(* Time concerns only what DeduplicatePerKey remembers. *)
LEMMA ForgetKeepsInvariant == ASSUME IInv, Forget \/ UNCHANGED vars PROVE IInv'
<1>1. UNCHANGED <<spec, body, at, raw, keyed, dlq, duplicates, raised, windows>>
  BY DEF Forget, vars, configuration
<1>2. seenFor' \in [DedupKey -> 0..DedupWindow]
  BY IngestAssumption DEF IInv, TypeOK, Forget, vars
<1>3. TypeOK'
  BY <1>1, <1>2 DEF IInv, TypeOK
<1>4. TracesComeLast' /\ Entered' /\ ExactlyOneFate'
  BY <1>1 DEF IInv, TracesComeLast, Clean, Entered, ExactlyOneFate, Failed
<1>5. Examined'
  BY <1>1 DEF IInv, Examined, HasFlaw, Valid, EnvelopeOK, DomainOK, PayloadOK, PayloadFieldsOK
<1> QED
  BY <1>3, <1>4, <1>5 DEF IInv

LEMMA InvariantHolds == Spec => []IInv
<1>1. IInv /\ [Next]_vars => IInv'
  BY NextIsAStep, StepKeepsInvariant, ForgetKeepsInvariant
<1> QED
  BY <1>1, InitEstablishesInvariant, PTL DEF Spec

-----------------------------------------------------------------------------
(* A raising step leaves a poison element where it is, and a transform that *)
(* raises on an element takes no other step with it.                        *)
LEMMA PoisonStays ==
  ASSUME IInv, PoisonWaits, NEW e \in Element,
         Proceeds(e) \/ Raises(e) \/ (e \in Synthetic /\ Synthesize(e))
  PROVE  PoisonWaits'
<1> DEFINE Waits(f) ==
      \/ at[f] = "dedup" /\ HasFlaw(f, "dedup_key")
      \/ at[f] = "validate" /\ HasFlaw(f, "object")
      \/ at[f] = "detector" /\ HasFlaw(f, "detector_key")
      \/ at[f] = "sink" /\ CoercionFails(f)
<1>0. UNCHANGED <<spec, body>> /\ Steps(e)
  BY RaisingChangesNothing
     DEF Steps, Proceeds, ParseMessage, Dedup, ValidateEvent, Watch, EnrichEvent, WriteAndKey,
         RaisesInPlace, Synthesize, configuration
<1>1. ASSUME NEW f \in raised, f # e PROVE Waits(f)'
  <2>1. at'[f] = at[f] /\ Waits(f)
    BY <1>0, <1>1, OthersUndisturbed DEF IInv, TypeOK, PoisonWaits
  <2> QED
    BY <1>0, <2>1 DEF HasFlaw, CoercionFails
<1>2. CASE Raises(e)
  <2>1. raised' = raised \cup {e} /\ at' = at /\ Waits(e)
    BY <1>2 DEF Raises, DedupKeyRaises, ValidateRaises, DetectorKeyRaises, CoerceRaises, Raise
  <2>2. Waits(e)'
    BY <1>0, <2>1 DEF HasFlaw, CoercionFails
  <2> QED
    BY <1>1, <2>1, <2>2 DEF PoisonWaits
<1>3. CASE Proceeds(e) \/ Synthesize(e)
  <2>1. raised' = raised /\ ~Waits(e)
    BY <1>3 DEF Proceeds, ParseMessage, Dedup, ValidateEvent, Watch, EnrichEvent, WriteAndKey,
                Synthesize
  <2>2. e \notin raised
    BY <2>1 DEF PoisonWaits
  <2> QED
    BY <1>1, <2>1, <2>2 DEF PoisonWaits
<1> QED
  BY <1>2, <1>3

(* With TracesComeLast, an element that waits has left no trace.            *)
LEMMA WaitingLeavesNoTrace ==
  ASSUME TypeOK, TracesComeLast, \A e \in raised : at[e] # "out"
  PROVE  PoisonLeavesNoTrace
  BY DEF TypeOK, TracesComeLast, Clean, PoisonLeavesNoTrace, Failed

-----------------------------------------------------------------------------
(* The messages with identity k that deduplication has let through. *)
Admitted(k) ==
  {m \in Message : /\ body[m].key = k
                   /\ \/ at[m] \in {"validate", "detector", "enrich", "sink"}
                      \/ m \in raw \cup keyed
                      \/ at[m] = "out" /\ m \notin duplicates /\ ~HasFlaw(m, "json")}

AdmittedOnce == spec.dedup => \A k \in DedupKey : Cardinality(Admitted(k)) <= windows[k]

LEMMA AdmittedIsFinite ==
  ASSUME NEW k PROVE IsFiniteSet(Admitted(k)) /\ Cardinality(Admitted(k)) \in Nat
  BY IngestAssumption, FS_Subset, FS_CardinalityType DEF Admitted

LEMMA InitAdmitsNone == Init => AdmittedOnce
<1> SUFFICES ASSUME Init, NEW k \in DedupKey PROVE Cardinality(Admitted(k)) <= windows[k]
  BY DEF AdmittedOnce
<1>1. Admitted(k) = {}
  BY IngestAssumption DEF Init, Admitted, Element
<1> QED
  BY <1>1, FS_EmptySet DEF Init

(* Only Remember admits a message, and opens a window for it.               *)
LEMMA StepAdmitsOnce ==
  ASSUME IInv, AdmittedOnce, NEW e \in Element, Steps(e)
  PROVE  AdmittedOnce'
<1>0. UNCHANGED <<spec, body>>
  BY DEF Steps, Proceeds, ParseMessage, Dedup, ValidateEvent, Watch, EnrichEvent, WriteAndKey,
         RaisesInPlace, Synthesize, configuration
<1> SUFFICES ASSUME spec.dedup, NEW k \in DedupKey
             PROVE  Cardinality(Admitted(k)') <= windows'[k]
  BY <1>0 DEF AdmittedOnce
<1>1. Cardinality(Admitted(k)) <= windows[k] /\ windows[k] \in Nat
  BY DEF AdmittedOnce, IInv, TypeOK
<1>2. ASSUME NEW m \in Message, m # e
      PROVE  m \in Admitted(k)' <=> m \in Admitted(k)
  BY <1>0, <1>2, OthersUndisturbed DEF IInv, Admitted, Element, HasFlaw
<1>3. CASE Dedup(e) /\ Remember(e) /\ body[e].key = k
  <2>1. windows'[k] = windows[k] + 1
    BY <1>3 DEF Remember, IInv, TypeOK
  <2>2. Admitted(k)' \subseteq Admitted(k) \cup {e}
    BY <1>2 DEF Admitted
  <2>3. /\ IsFiniteSet(Admitted(k) \cup {e})
        /\ Cardinality(Admitted(k) \cup {e}) <= Cardinality(Admitted(k)) + 1
    <3>1. IsFiniteSet(Admitted(k)) /\ Cardinality(Admitted(k)) \in Nat
      BY AdmittedIsFinite
    <3>2. IsFiniteSet(Admitted(k) \cup {e})
      BY <3>1, FS_AddElement
    <3>3. Cardinality(Admitted(k) \cup {e})
            \in {Cardinality(Admitted(k)), Cardinality(Admitted(k)) + 1}
      BY <3>1, FS_AddElement, Zenon
    <3> QED
      BY <3>1, <3>2, <3>3
  <2>4. Cardinality(Admitted(k)') <= Cardinality(Admitted(k) \cup {e})
    BY <2>2, <2>3, FS_Subset
  <2>5. /\ Cardinality(Admitted(k)') \in Nat /\ Cardinality(Admitted(k)) \in Nat
        /\ Cardinality(Admitted(k) \cup {e}) \in Nat
    BY <2>2, <2>3, AdmittedIsFinite, FS_Subset, FS_CardinalityType
  <2> QED
    BY <1>1, <2>1, <2>3, <2>4, <2>5
<1>4. CASE ~(Dedup(e) /\ Remember(e) /\ body[e].key = k)
  <2>1. windows'[k] = windows[k]
    BY <1>4 DEF Steps, Proceeds, ParseMessage, Dedup, Remember, DropDuplicate, ValidateEvent, Watch,
                EnrichEvent, WriteAndKey, RaisesInPlace, Synthesize, IInv, TypeOK
  <2>2. ASSUME e \in Message, e \in Admitted(k)' PROVE e \in Admitted(k)
    <3>0. body[e].key = k /\ body' = body
      BY <1>0, <2>2 DEF Admitted
    <3>1. \/ at'[e] \in {"validate", "detector", "enrich", "sink"} \/ e \in raw' \cup keyed'
          \/ at'[e] = "out" /\ e \notin duplicates' /\ ~HasFlaw(e, "json")
      BY <1>0, <2>2 DEF Admitted, HasFlaw
    <3> USE DEF IInv, TypeOK, Go, HasFlaw
    <3>2. ~ParseMessage(e)
      BY <3>1 DEF ParseMessage, ToDlq, AfterParse, TracesComeLast, Clean
    <3>3. ~Dedup(e)
      BY <1>4, <3>0, <3>1 DEF Dedup, DropDuplicate, TracesComeLast, Clean
    <3>4. CASE ValidateEvent(e) \/ Watch(e) \/ EnrichEvent(e) \/ WriteAndKey(e)
      BY <2>2, <3>0, <3>4 DEF ValidateEvent, Watch, EnrichEvent, WriteAndKey, Admitted
    <3>5. CASE RaisesInPlace(e)
      BY <2>2, <3>5 DEF RaisesInPlace, Admitted
    <3> QED
      BY <2>2, <3>2, <3>3, <3>4, <3>5, IngestAssumption DEF Steps, Proceeds
  <2>3. Admitted(k)' \subseteq Admitted(k)
    BY <1>2, <2>2 DEF Admitted
  <2>4. Cardinality(Admitted(k)') <= Cardinality(Admitted(k))
    BY <2>3, AdmittedIsFinite, FS_Subset
  <2>5. Cardinality(Admitted(k)') \in Nat /\ Cardinality(Admitted(k)) \in Nat
    BY <2>3, AdmittedIsFinite, FS_Subset, FS_CardinalityType
  <2> QED
    BY <1>1, <2>1, <2>4, <2>5
<1> QED
  BY <1>3, <1>4

LEMMA ForgetAdmitsNone == ASSUME AdmittedOnce, Forget \/ UNCHANGED vars PROVE AdmittedOnce'
  BY DEF AdmittedOnce, Admitted, Forget, vars, configuration, HasFlaw

LEMMA RowsAreAdmitted == ASSUME TypeOK, AdmittedOnce PROVE OneRowPerWindow
<1> SUFFICES ASSUME spec.dedup, NEW k \in DedupKey, NEW table \in {raw, keyed}
             PROVE  Cardinality({e \in table \cap Message : body[e].key = k}) <= windows[k]
  BY DEF OneRowPerWindow
<1> DEFINE rows == {e \in table \cap Message : body[e].key = k}
<1>1. rows \subseteq Admitted(k)
  BY DEF Admitted
<1>2. /\ Cardinality(rows) <= Cardinality(Admitted(k))
      /\ Cardinality(rows) \in Nat /\ Cardinality(Admitted(k)) \in Nat
  BY <1>1, AdmittedIsFinite, FS_Subset, FS_CardinalityType
<1>3. Cardinality(Admitted(k)) <= windows[k] /\ windows[k] \in Nat
  BY DEF AdmittedOnce, TypeOK
<1> QED
  BY <1>2, <1>3

-----------------------------------------------------------------------------
(* What DedupLosesNothing is about: every message with e's identity that is *)
(* JSON is a copy of e, and e is flawless.                                  *)
OnlyCopies(e) ==
  /\ body[e].flaws = {}
  /\ \A m \in Message : "json" \in body[m].flaws \/ body[m].key # body[e].key \/ m \in Twins(e)

UnderWay(m) == at[m] \in {"validate", "detector", "enrich", "sink"} \/ m \in raw

(* One copy is on its way or in the table, or none has been deduplicated.   *)
CopyKept ==
  spec.raw_table =>
    \A e \in Message : OnlyCopies(e) =>
      \/ \E m \in Twins(e) : UnderWay(m)
      \/ /\ \A m \in Twins(e) : at[m] \in {"topic", "dedup"}
         /\ seenFor[body[e].key] = 0

LEMMA InitKeepsCopy == Init => CopyKept
  BY IngestAssumption, ConfigurationAssumption
     DEF Init, CopyKept, Twins, Element, BodyType

(* A flawless message that is on its way stays so until it is in raw.       *)
LEMMA UnderWayStays ==
  ASSUME IInv, spec.raw_table, NEW m \in Message, body[m].flaws = {}, UnderWay(m), Steps(m)
  PROVE  UnderWay(m)'
<1> USE DEF IInv, TypeOK, UnderWay, HasFlaw, Go, Element
<1>1. CASE ParseMessage(m) \/ Dedup(m)
  BY <1>1 DEF ParseMessage, Dedup
<1>2. CASE ValidateEvent(m)
  BY <1>2 DEF ValidateEvent, Valid, EnvelopeOK, DomainOK, PayloadOK, PayloadFieldsOK,
              AfterValidate
<1>3. CASE Watch(m) \/ RaisesInPlace(m) \/ EnrichEvent(m)
  BY <1>3 DEF Watch, RaisesInPlace, EnrichEvent
<1>4. CASE WriteAndKey(m)
  BY <1>4 DEF WriteAndKey
<1> QED
  BY <1>1, <1>2, <1>3, <1>4, IngestAssumption DEF Steps, Proceeds

(* A step of another message, and DeduplicatePerKey's memory: only a new    *)
(* key is remembered.                                                       *)
LEMMA OnlyOwnKeyIsRemembered ==
  ASSUME IInv, NEW x \in Element, Steps(x), NEW k \in DedupKey,
         x \in Message /\ ~HasFlaw(x, "json") => body[x].key # k
  PROVE  seenFor'[k] = seenFor[k]
<1>1. CASE Dedup(x)
  <2>1. x \in Message /\ ~HasFlaw(x, "json")
    BY <1>1 DEF Dedup, IInv, Entered, Examined, Element
  <2> QED
    BY <1>1, <2>1 DEF Dedup, DropDuplicate, Remember, IInv, TypeOK
<1>2. CASE ~Dedup(x)
  BY <1>2 DEF Steps, Proceeds, ParseMessage, ValidateEvent, Watch, EnrichEvent, WriteAndKey,
              RaisesInPlace, Synthesize
<1> QED
  BY <1>1, <1>2

LEMMA StepKeepsCopy ==
  ASSUME IInv, CopyKept, NEW x \in Element, Steps(x)
  PROVE  CopyKept'
<1>0. UNCHANGED <<spec, body>>
  BY DEF Steps, Proceeds, ParseMessage, Dedup, ValidateEvent, Watch, EnrichEvent, WriteAndKey,
         RaisesInPlace, Synthesize, configuration
<1> SUFFICES ASSUME spec.raw_table, NEW e \in Message, OnlyCopies(e)
             PROVE  \/ \E m \in Twins(e) : UnderWay(m)'
                    \/ /\ \A m \in Twins(e) : at'[m] \in {"topic", "dedup"}
                       /\ seenFor'[body[e].key] = 0
  BY <1>0 DEF CopyKept, OnlyCopies, Twins
<1>1. /\ body[e].flaws = {} /\ body[e].key \in DedupKey
      /\ \A m \in Twins(e) : m \in Message /\ m \in Element /\ body[m] = body[e]
  BY DEF OnlyCopies, Twins, IInv, TypeOK, Element, BodyType
<1>2. CASE \E m \in Twins(e) : UnderWay(m)
  <2>1. PICK m \in Twins(e) : UnderWay(m)
    BY <1>2
  <2>2. CASE m = x
    BY <1>1, <2>1, <2>2, UnderWayStays
  <2>3. CASE m # x
    BY <1>1, <2>1, <2>3, OthersUndisturbed DEF IInv, UnderWay
  <2> QED
    BY <2>1, <2>2, <2>3
<1>3. CASE /\ \A m \in Twins(e) : at[m] \in {"topic", "dedup"}
           /\ seenFor[body[e].key] = 0
  <2>1. CASE x \in Twins(e)
    <3> USE <1>1, <1>3, <2>1 DEF IInv, TypeOK, HasFlaw, Go
    <3>1. \A m \in Twins(e) : m # x => at'[m] = at[m]
      BY OthersUndisturbed
    <3>2. CASE ParseMessage(x)
      <4>1. at'[x] \in {"dedup", "validate"} /\ seenFor' = seenFor
        BY <3>2 DEF ParseMessage, AfterParse
      <4> QED
        BY <3>1, <4>1 DEF UnderWay
    <3>3. CASE Dedup(x)
      BY <3>3 DEF Dedup, Remember, UnderWay
    <3>4. CASE RaisesInPlace(x)
      BY <3>4 DEF RaisesInPlace
    <3>5. ~(ValidateEvent(x) \/ Watch(x) \/ EnrichEvent(x) \/ WriteAndKey(x) \/ Synthesize(x))
      BY DEF ValidateEvent, Watch, EnrichEvent, WriteAndKey, Synthesize
    <3> QED
      BY <3>2, <3>3, <3>4, <3>5 DEF Steps, Proceeds
  <2>2. CASE x \notin Twins(e)
    <3>1. \A m \in Twins(e) : at'[m] = at[m]
      BY <1>1, <2>2, OthersUndisturbed DEF IInv
    <3>2. x \in Message /\ ~HasFlaw(x, "json") => body[x].key # body[e].key
      BY <2>2 DEF OnlyCopies, HasFlaw
    <3> QED
      BY <1>1, <1>3, <3>1, <3>2, OnlyOwnKeyIsRemembered
  <2> QED
    BY <2>1, <2>2
<1> QED
  BY <1>2, <1>3 DEF CopyKept

LEMMA ForgetKeepsCopy == ASSUME IInv, CopyKept, Forget \/ UNCHANGED vars PROVE CopyKept'
<1>1. /\ UNCHANGED <<spec, body, at, raw>>
      /\ \A k \in DedupKey : seenFor[k] = 0 => seenFor'[k] = 0
  BY DEF Forget, vars, configuration
<1>2. \A e \in Message : body[e].key \in DedupKey
  BY DEF IInv, TypeOK, Element, BodyType
<1> QED
  BY <1>1, <1>2 DEF CopyKept, OnlyCopies, Twins, UnderWay

LEMMA KeptCopyIsInRaw == ASSUME CopyKept PROVE DedupLosesNothing
<1> SUFFICES ASSUME spec.raw_table, NEW e \in Message, OnlyCopies(e),
                    \A m \in Twins(e) : at[m] = "out"
             PROVE  Twins(e) \cap raw # {}
  BY DEF DedupLosesNothing, OnlyCopies
<1>1. e \in Twins(e)
  BY DEF Twins
<1>2. PICK m \in Twins(e) : UnderWay(m)
  BY <1>1 DEF CopyKept
<1> QED
  BY <1>2 DEF UnderWay

-----------------------------------------------------------------------------
(* The theorems. *)

(* Type correctness of the branch, whatever is delivered to it.             *)
THEOREM TypeCorrect == Spec => []TypeOK
  BY InvariantHolds, PTL DEF IInv

(* With a dlq_table every element that leaves the pipeline has exactly one  *)
(* fate in each branch (_dlq, framework.py:982-994).                        *)
THEOREM ExactlyOneFateAlways == Spec => []ExactlyOneFate
  BY InvariantHolds, PTL DEF IInv

(* No message gets into a table without what its domain requires            *)
(* (ValidateEvent, framework.py:430-482).                                   *)
THEOREM OnlyValidEventsAlwaysPass == Spec => []OnlyValidEventsPass
<1>1. IInv => OnlyValidEventsPass
  BY DEF IInv, Examined, OnlyValidEventsPass, HasFlaw, Valid, EnvelopeOK, DomainOK, PayloadOK,
         PayloadFieldsOK
<1> QED
  BY <1>1, InvariantHolds, PTL

(* An element a transform raised on is nowhere, the dlq included.           *)
THEOREM PoisonNeverLeavesTrace == Spec => []PoisonLeavesNoTrace
<1>1. PoisonWaits /\ IInv /\ [Next]_vars => PoisonWaits'
  <2> SUFFICES ASSUME PoisonWaits, IInv, [Next]_vars PROVE PoisonWaits'
    OBVIOUS
  <2>1. CASE Forget \/ UNCHANGED vars
    BY <2>1 DEF PoisonWaits, HasFlaw, CoercionFails, Forget, vars, configuration
  <2> QED
    BY <2>1, PoisonStays DEF Next, Tick, Element
<1>2. PoisonWaits /\ IInv => PoisonLeavesNoTrace
  BY WaitingLeavesNoTrace DEF PoisonWaits, IInv
<1> QED
  BY <1>1, <1>2, InvariantHolds, InitEstablishesInvariant, PTL DEF Spec

(* A redelivery within dedup_window_secs adds no row and is not aggregated  *)
(* again (framework.py:912-921).                                            *)
THEOREM OneRowPerWindowAlways == Spec => []OneRowPerWindow
<1>1. AdmittedOnce /\ IInv /\ [Next]_vars => AdmittedOnce'
  BY NextIsAStep, StepAdmitsOnce, ForgetAdmitsNone
<1>2. AdmittedOnce /\ IInv => OneRowPerWindow
  BY RowsAreAdmitted DEF IInv
<1> QED
  BY <1>1, <1>2, InvariantHolds, InitAdmitsNone, PTL DEF Spec

(* Deduplication never loses the only good copy of an event, although it    *)
(* remembers an identity before the event is validated (framework.py:912).  *)
THEOREM DedupNeverLoses == Spec => []DedupLosesNothing
<1>1. CopyKept /\ IInv /\ [Next]_vars => CopyKept'
  BY NextIsAStep, StepKeepsCopy, ForgetKeepsCopy
<1> QED
  BY <1>1, KeptCopyIsInRaw, InvariantHolds, InitKeepsCopy, PTL DEF Spec

-----------------------------------------------------------------------------
(***************************************************************************)
(* DetectingDomain.                                                        *)
(***************************************************************************)
(* Every step is one of IngestPipeline's, as far as its variables go; only  *)
(* the failure of a fused bundle is new, and raises in place.               *)
LEMMA DomainStepIsAStep ==
  ASSUME [DomainNext]_domainVars
  PROVE  (\E e \in Element : Steps(e)) \/ Forget \/ UNCHANGED vars
<1>1. CASE UNCHANGED domainVars
  BY <1>1 DEF domainVars
<1>2. ASSUME NEW e \in Element, ProceedsElsewhere(e) \/ RaisesElsewhere(e) PROVE Steps(e)
  BY <1>2, RaisingChangesNothing DEF ProceedsElsewhere, RaisesElsewhere, Steps, Proceeds
<1>3. ASSUME NEW e \in Message, WatchSession(e) \/ WatchRaises(e) PROVE Steps(e)
  BY <1>3 DEF WatchSession, WatchRaises, Steps, Proceeds, RaisesInPlace, Raise, configuration
<1>4. ASSUME NEW k \in Session, NEW s \in Synthetic, TimeOut(k, s) PROVE Steps(s)
  BY <1>4 DEF TimeOut, Steps
<1>5. CASE Clock
  BY <1>5 DEF Clock
<1> QED
  BY <1>1, <1>2, <1>3, <1>4, <1>5 DEF DomainNext, Element

LEMMA DomainInvariant == DomainSpecification => []IInv
<1>1. DomainInit => IInv
  BY InitEstablishesInvariant DEF DomainInit
<1>2. IInv /\ [DomainNext]_domainVars => IInv'
  BY DomainStepIsAStep, StepKeepsInvariant, ForgetKeepsInvariant
<1> QED
  BY <1>1, <1>2, PTL DEF DomainSpecification

-----------------------------------------------------------------------------
(* A domain with a detector still has exactly one fate for each element of  *)
(* each branch, timeout events included.                                    *)
THEOREM DomainFates == DomainSpecification => []ExactlyOneFate
  BY DomainInvariant, PTL DEF IInv

(* What the watcher passes on was validated; timeout events are no messages. *)
THEOREM DomainValid == DomainSpecification => []OnlyValidEventsPass
<1>1. IInv => OnlyValidEventsPass
  BY DEF IInv, Examined, OnlyValidEventsPass, HasFlaw, Valid, EnvelopeOK, DomainOK, PayloadOK,
         PayloadFieldsOK
<1> QED
  BY <1>1, DomainInvariant, PTL

(* A redelivery within dedup_window_secs adds no row, whatever the session's *)
(* state is by then.                                                        *)
THEOREM DomainRows == DomainSpecification => []OneRowPerWindow
<1>1. DomainInit => AdmittedOnce
  BY InitAdmitsNone DEF DomainInit
<1>2. AdmittedOnce /\ IInv /\ [DomainNext]_domainVars => AdmittedOnce'
  BY DomainStepIsAStep, StepAdmitsOnce, ForgetAdmitsNone
<1>3. AdmittedOnce /\ IInv => OneRowPerWindow
  BY RowsAreAdmitted DEF IInv
<1> QED
  BY <1>1, <1>2, <1>3, DomainInvariant, PTL DEF DomainSpecification

(* The watcher swallows no event: deduplication still loses nothing.        *)
THEOREM DomainLosesNothing == DomainSpecification => []DedupLosesNothing
<1>1. DomainInit => CopyKept
  BY InitKeepsCopy DEF DomainInit
<1>2. CopyKept /\ IInv /\ [DomainNext]_domainVars => CopyKept'
  BY DomainStepIsAStep, StepKeepsCopy, ForgetKeepsCopy
<1> QED
  BY <1>1, <1>2, KeptCopyIsInRaw, DomainInvariant, PTL DEF DomainSpecification

-----------------------------------------------------------------------------
LEMMA WatcherStepKeepsType ==
  ASSUME Watcher!TypeOK,
         \/ \E k \in Session, v \in SessionEvent : Watcher!ProcessClean(k, v)
         \/ \E k \in Session : Watcher!TimeoutFires(k)
         \/ Watcher!Tick
         \/ UNCHANGED watcherVars
  PROVE  Watcher!TypeOK'
<1> USE WatcherAssumption
    DEF Watcher!TypeOK, Watcher!DetectorAssumption, Watcher!Output, Watcher!Unset
<1>1. ASSUME NEW k \in Session, NEW v \in SessionEvent, Watcher!ProcessClean(k, v)
      PROVE  Watcher!TypeOK'
  <2>1. Watcher!Reduced(k, v) \in Watcher!Value
    BY DEF Watcher!Reduced, Watcher!Current, Watcher!Value
  <2> QED
    BY <1>1, <2>1 DEF Watcher!ProcessClean, Watcher!Reschedule, Watcher!Forward
<1>2. ASSUME NEW k \in Session, Watcher!TimeoutFires(k) PROVE Watcher!TypeOK'
  BY <1>2 DEF Watcher!TimeoutFires, Watcher!Consume, Watcher!WillFire, Watcher!ShouldFire,
              Watcher!Value
<1>3. CASE Watcher!Tick
  BY <1>3 DEF Watcher!Tick, Watcher!Armed
<1>4. CASE UNCHANGED watcherVars
  BY <1>4 DEF watcherVars
<1> QED
  BY <1>1, <1>2, <1>3, <1>4

(* Type correctness of the composition: a synthetic element exists just     *)
(* when a session's timeout has made it.                                    *)
THEOREM DomainTypeCorrect == DomainSpecification => []DomainTypeOK
<1> DEFINE Born == /\ about \in [Synthetic -> Session \cup {NoSession}]
                   /\ \A s \in Synthetic : at[s] = "unborn" <=> about[s] = NoSession
                   /\ fused \in BOOLEAN
<1>1. DomainInit => Watcher!TypeOK /\ Born
  BY WatcherAssumption, IngestAssumption
     DEF DomainInit, Init, Element, Watcher!Init, Watcher!TypeOK, Watcher!DetectorAssumption,
         Watcher!Value, Watcher!Unset, Watcher!Output
<1>2. TypeOK /\ Watcher!TypeOK /\ [DomainNext]_domainVars => Watcher!TypeOK'
  <2> SUFFICES ASSUME TypeOK, Watcher!TypeOK, [DomainNext]_domainVars PROVE Watcher!TypeOK'
    OBVIOUS
  <2>1. \A e \in Message :
          SessionOf[body[e].key] \in Session /\ EventOf[body[e].key] \in SessionEvent
    BY DomainAssumption DEF TypeOK, Element, BodyType
  <2> QED
    BY <2>1, WatcherStepKeepsType
       DEF DomainNext, ProceedsElsewhere, RaisesElsewhere, WatchSession, WatchRaises, TimeOut,
           Clock, domainVars
<1>3. IInv /\ Born /\ [DomainNext]_domainVars => Born'
  <2> SUFFICES ASSUME IInv, Born, [DomainNext]_domainVars PROVE Born'
    OBVIOUS
  <2>1. ASSUME NEW k \in Session, NEW s \in Synthetic, TimeOut(k, s) PROVE Born'
    BY <2>1, DomainAssumption DEF TimeOut, Synthesize, Go, IInv, TypeOK, Element
  <2>2. ASSUME NEW e \in Element, Steps(e), UNCHANGED <<about, fused>>,
               e \in Synthetic => ~Synthesize(e)
        PROVE  Born'
    <3>1. \A s \in Synthetic : s # e => at'[s] = at[s]
      BY <2>2, OthersUndisturbed DEF IInv, Element
    <3>2. e \in Synthetic => (at'[e] = "unborn" <=> at[e] = "unborn")
      BY <2>2, IngestAssumption
         DEF Steps, Proceeds, ParseMessage, Dedup, DropDuplicate, Remember, ValidateEvent, Watch,
             EnrichEvent, WriteAndKey, RaisesInPlace, ToDlq, Go, AfterParse, AfterValidate,
             IInv, TypeOK
    <3> QED
      BY <2>2, <3>1, <3>2
  <2>3. ASSUME NEW e \in Element, ProceedsElsewhere(e) \/ RaisesElsewhere(e) PROVE Born'
    <3>1. Steps(e) /\ UNCHANGED <<about, fused>> /\ at[e] # "unborn"
      BY <2>3, RaisingChangesNothing
         DEF ProceedsElsewhere, RaisesElsewhere, Steps, Proceeds, ParseMessage, Dedup,
             ValidateEvent, EnrichEvent, WriteAndKey, RaisesInPlace
    <3> QED
      BY <2>2, <3>1 DEF Synthesize
  <2>4. ASSUME NEW e \in Message, WatchSession(e) \/ WatchRaises(e) PROVE Born'
    <3>1. Steps(e) /\ UNCHANGED <<about, fused>> /\ at[e] # "unborn" /\ e \in Element
      BY <2>4 DEF WatchSession, WatchRaises, Steps, Proceeds, RaisesInPlace, Raise, configuration,
                  Watch, Element
    <3> QED
      BY <2>2, <3>1 DEF Synthesize
  <2>5. CASE Clock \/ UNCHANGED domainVars
    BY <2>5 DEF Clock, Forget, domainVars, vars
  <2> QED
    BY <2>1, <2>3, <2>4, <2>5 DEF DomainNext
<1>4. IInv /\ Watcher!TypeOK /\ Born => DomainTypeOK
  BY DEF IInv, DomainTypeOK
<1>5. IInv => TypeOK
  BY DEF IInv
<1> HIDE DEF Born
<1> QED
  BY <1>1, <1>2, <1>3, <1>4, <1>5, DomainInvariant, PTL DEF DomainSpecification

-----------------------------------------------------------------------------
(* Where a poison element waits: as in IngestPipeline, or at the watcher of *)
(* a bundle that its coercion will fail.                                    *)
DomainPoisonWaits ==
  \A e \in raised :
    \/ at[e] = "dedup" /\ HasFlaw(e, "dedup_key")
    \/ at[e] = "validate" /\ HasFlaw(e, "object")
    \/ at[e] = "detector" /\ (HasFlaw(e, "detector_key") \/ BundleFails(e))
    \/ at[e] = "sink" /\ CoercionFails(e)

LEMMA DomainPoisonStays ==
  ASSUME IInv, DomainPoisonWaits, [DomainNext]_domainVars
  PROVE  DomainPoisonWaits'
<1> DEFINE Waits(f) ==
      \/ at[f] = "dedup" /\ HasFlaw(f, "dedup_key")
      \/ at[f] = "validate" /\ HasFlaw(f, "object")
      \/ at[f] = "detector" /\ (HasFlaw(f, "detector_key") \/ BundleFails(f))
      \/ at[f] = "sink" /\ CoercionFails(f)
<1>0. UNCHANGED <<spec, body, fused>>
  BY DEF DomainNext, ProceedsElsewhere, RaisesElsewhere, WatchSession, WatchRaises, TimeOut, Clock,
         domainVars, vars, configuration, Raises, DedupKeyRaises, ValidateRaises,
         DetectorKeyRaises, CoerceRaises, ParseMessage, Dedup, ValidateEvent, Watch, EnrichEvent,
         WriteAndKey, Synthesize, Forget
<1>1. ASSUME NEW f \in raised, at'[f] = at[f] PROVE Waits(f)'
  BY <1>0, <1>1 DEF DomainPoisonWaits, HasFlaw, CoercionFails, BundleFails
(* A transform that takes e raises on nothing, and e was not poison. *)
<1>2. ASSUME NEW e \in Element, Steps(e), raised' = raised, ~Waits(e)
      PROVE  DomainPoisonWaits'
  <2>1. \A f \in raised : f \in Element \ {e}
    BY <1>2 DEF DomainPoisonWaits, IInv, TypeOK
  <2>2. \A f \in raised : at'[f] = at[f]
    BY <1>2, <2>1, OthersUndisturbed DEF IInv
  <2> QED
    BY <1>1, <1>2, <2>2 DEF DomainPoisonWaits
<1>3. ASSUME NEW e \in Element, raised' = raised \cup {e}, at' = at, Waits(e)
      PROVE  DomainPoisonWaits'
  <2>1. Waits(e)'
    BY <1>0, <1>3 DEF HasFlaw, CoercionFails, BundleFails
  <2> QED
    BY <1>1, <1>3, <2>1 DEF DomainPoisonWaits
<1>4. ASSUME NEW e \in Element, ProceedsElsewhere(e) PROVE DomainPoisonWaits'
  <2>1. Steps(e)
    BY <1>4 DEF ProceedsElsewhere, Steps, Proceeds
  <2>2. raised' = raised /\ ~Waits(e)
    BY <1>4 DEF ProceedsElsewhere, ParseMessage, Dedup, ValidateEvent, EnrichEvent, WriteAndKey
  <2> QED
    BY <1>2, <2>1, <2>2
<1>5. ASSUME NEW e \in Element, RaisesElsewhere(e) PROVE DomainPoisonWaits'
  <2>1. raised' = raised \cup {e} /\ at' = at /\ Waits(e)
    BY <1>5 DEF RaisesElsewhere, Raises, DedupKeyRaises, ValidateRaises, DetectorKeyRaises,
                CoerceRaises, Raise
  <2> QED
    BY <1>3, <2>1
<1>6. ASSUME NEW e \in Message, WatchSession(e) PROVE DomainPoisonWaits'
  <2>1. Steps(e) /\ e \in Element
    BY <1>6 DEF WatchSession, Steps, Proceeds, Element
  <2>2. raised' = raised /\ ~Waits(e)
    BY <1>6 DEF WatchSession, Watch
  <2> QED
    BY <1>2, <2>1, <2>2
<1>7. ASSUME NEW e \in Message, WatchRaises(e) PROVE DomainPoisonWaits'
  <2>1. raised' = raised \cup {e} /\ at' = at /\ Waits(e) /\ e \in Element
    BY <1>7 DEF WatchRaises, Raise, Element
  <2> QED
    BY <1>3, <2>1
<1>8. ASSUME NEW k \in Session, NEW s \in Synthetic, TimeOut(k, s) PROVE DomainPoisonWaits'
  <2>1. Steps(s) /\ s \in Element
    BY <1>8 DEF TimeOut, Steps, Element
  <2>2. raised' = raised /\ ~Waits(s)
    BY <1>8 DEF TimeOut, Synthesize
  <2> QED
    BY <1>2, <2>1, <2>2
<1>9. CASE Clock \/ UNCHANGED domainVars
  BY <1>1, <1>9 DEF Clock, Forget, configuration, domainVars, vars, DomainPoisonWaits
<1> QED
  BY <1>4, <1>5, <1>6, <1>7, <1>8, <1>9 DEF DomainNext

(* A poison element leaves no trace, and none in the watcher's bundle, in   *)
(* spite of every retry (framework.py:928-949).                             *)
THEOREM DomainPoison == DomainSpecification => []PoisonLeavesNoTrace
<1>1. DomainInit => DomainPoisonWaits
  BY DEF DomainInit, Init, DomainPoisonWaits
<1>2. DomainPoisonWaits /\ IInv /\ [DomainNext]_domainVars => DomainPoisonWaits'
  BY DomainPoisonStays
<1>3. DomainPoisonWaits /\ IInv => PoisonLeavesNoTrace
  BY WaitingLeavesNoTrace DEF DomainPoisonWaits, IInv
<1> QED
  BY <1>1, <1>2, <1>3, DomainInvariant, PTL DEF DomainSpecification

-----------------------------------------------------------------------------
(* The watcher inside a domain is an InactivityWatcher: whatever the        *)
(* pipeline around it does, its part of every behaviour is one of those     *)
(* InactivityWatcher_proofs is about (framework.py:927-938).                *)
THEOREM WatcherInsideIsAWatcher == DomainSpecification => Watcher!Spec
<1>1. DomainInit => Watcher!Init
  BY DEF DomainInit
<1>2. TypeOK /\ [DomainNext]_domainVars => [Watcher!Next]_(Watcher!vars)
  <2> SUFFICES ASSUME TypeOK, [DomainNext]_domainVars
               PROVE  Watcher!Next \/ UNCHANGED watcherVars
    BY DEF watcherVars, Watcher!vars
  <2>1. ASSUME NEW e \in Message, WatchSession(e)
        PROVE  Watcher!Next
    <3>1. SessionOf[body[e].key] \in Session /\ EventOf[body[e].key] \in SessionEvent
      BY DomainAssumption DEF TypeOK, Element, BodyType
    <3> QED
      BY <2>1, <3>1 DEF WatchSession, Watcher!Next, Watcher!Process
  <2>2. ASSUME NEW k \in Session, NEW s \in Synthetic, TimeOut(k, s) PROVE Watcher!Next
    BY <2>2 DEF TimeOut, Watcher!Next, Watcher!OnTimeout
  <2>3. CASE Clock
    BY <2>3 DEF Clock, Watcher!Next
  <2>4. CASE \/ \E e \in Element : ProceedsElsewhere(e) \/ RaisesElsewhere(e)
             \/ \E e \in Message : WatchRaises(e)
             \/ UNCHANGED domainVars
    BY <2>4 DEF ProceedsElsewhere, RaisesElsewhere, WatchRaises, domainVars
  <2> QED
    BY <2>1, <2>2, <2>3, <2>4 DEF DomainNext
<1> QED
  BY <1>1, <1>2, DomainInvariant, PTL DEF DomainSpecification, Watcher!Spec, IInv

-----------------------------------------------------------------------------
(* A flag has to be paid for by a message.  Those that may have opened      *)
(* session k and that the watcher has let pass:                             *)
Opened(k) ==
  {m \in Message : /\ body[m].key \in Openers(k)
                   /\ \/ at[m] \in {"enrich", "sink"}
                      \/ /\ at[m] = "out" /\ m \notin duplicates
                         /\ ~HasFlaw(m, "json") /\ Valid(m)}

ChargedTo(k) ==
  /\ IsFiniteSet(Flags(k))
  /\ Cardinality(Flags(k)) + (IF state[k] \in Pending THEN 1 ELSE 0) <= Cardinality(Opened(k))

(* A timeout consumes the pending state, which took a message to make.      *)
Charged == \A k \in Session : ChargedTo(k)

LEMMA FinitelyManyMessages ==
  ASSUME NEW S \in SUBSET Message
  PROVE  IsFiniteSet(S) /\ Cardinality(S) \in Nat
  BY IngestAssumption, FS_Subset, FS_CardinalityType

(* Once past the watcher, always past it.                                   *)
LEMMA OpenedStays ==
  ASSUME IInv, NEW e \in Element, Steps(e), NEW k
  PROVE  Opened(k) \subseteq Opened(k)'
<1> SUFFICES ASSUME NEW m \in Opened(k) PROVE m \in Opened(k)'
  OBVIOUS
<1>0. UNCHANGED <<spec, body>>
  BY DEF Steps, Proceeds, ParseMessage, Dedup, ValidateEvent, Watch, EnrichEvent, WriteAndKey,
         RaisesInPlace, Synthesize, configuration
<1>1. /\ m \in Message /\ m \in Element /\ body[m].key \in Openers(k)
      /\ at[m] \in {"enrich", "sink", "out"} /\ m \notin duplicates
      /\ ~HasFlaw(m, "json") /\ Valid(m)
  BY DEF Opened, Element, IInv, TracesComeLast, Clean, Examined
<1>2. Openers(k)' = Openers(k) /\ (HasFlaw(m, "json") <=> HasFlaw(m, "json")')
      /\ (Valid(m) <=> Valid(m)')
  BY <1>0 DEF Openers, HasFlaw, Valid, EnvelopeOK, DomainOK, PayloadOK, PayloadFieldsOK
<1>3. at'[m] \in {"enrich", "sink", "out"} /\ m \notin duplicates'
  <2>1. CASE m # e
    BY <1>1, <2>1, OthersUndisturbed DEF IInv
  <2>2. CASE m = e
    <3> USE DEF IInv, TypeOK, Go
    <3>1. ~ParseMessage(e) /\ ~Dedup(e) /\ ~ValidateEvent(e) /\ ~Watch(e)
      BY <1>1, <2>2 DEF ParseMessage, Dedup, ValidateEvent, Watch
    <3>2. CASE EnrichEvent(e)
      BY <1>1, <2>2, <3>2 DEF EnrichEvent, ToDlq
    <3>3. CASE WriteAndKey(e) \/ RaisesInPlace(e)
      BY <1>1, <2>2, <3>3 DEF WriteAndKey, RaisesInPlace
    <3> QED
      BY <1>1, <2>2, <3>1, <3>2, <3>3, IngestAssumption DEF Steps, Proceeds
  <2> QED
    BY <2>1, <2>2
<1> QED
  BY <1>0, <1>1, <1>2, <1>3 DEF Opened

LEMMA StaysCharged ==
  ASSUME NEW k \in Session, ChargedTo(k), Flags(k)' = Flags(k),
         state'[k] \in Pending => state[k] \in Pending, Opened(k) \subseteq Opened(k)'
  PROVE  ChargedTo(k)'
<1>1. Opened(k) \in SUBSET Message /\ Opened(k)' \in SUBSET Message
  BY DEF Opened
<1>2. /\ Cardinality(Opened(k)) <= Cardinality(Opened(k)')
      /\ Cardinality(Opened(k)) \in Nat /\ Cardinality(Opened(k)') \in Nat
  BY <1>1, FinitelyManyMessages, FS_Subset
<1>3. IsFiniteSet(Flags(k)) /\ Cardinality(Flags(k)) \in Nat
  BY FS_CardinalityType DEF ChargedTo
<1>4. Cardinality(Flags(k)) + (IF state'[k] \in Pending THEN 1 ELSE 0) <= Cardinality(Opened(k)')
  BY <1>2, <1>3 DEF ChargedTo
<1> QED
  BY <1>3, <1>4 DEF ChargedTo

(* The watcher passes on a message of session k: if that makes k pending,   *)
(* it may open k, and it is one more that did.                              *)
LEMMA OpeningIsCharged ==
  ASSUME IInv, DomainTypeOK, Charged, NEW e \in Message, WatchSession(e),
         NEW d \in DedupKey, d = body[e].key, NEW k \in Session, k = SessionOf[d]
  PROVE  ChargedTo(k)'
<1>0. ChargedTo(k) /\ e \in Element
  BY DEF Element, Charged
<1>1. Watch(e) /\ Steps(e) /\ Watcher!ProcessClean(k, EventOf[d]) /\ UNCHANGED about
  BY DEF WatchSession, Steps, Proceeds
<1>2. Flags(k)' = Flags(k)
  BY <1>1 DEF Flags
<1>3. Opened(k) \subseteq Opened(k)'
  BY <1>0, <1>1, OpenedStays
<1>4. CASE state'[k] \in Pending => state[k] \in Pending
  BY <1>0, <1>2, <1>3, <1>4, StaysCharged
<1>5. CASE state'[k] \in Pending /\ state[k] \notin Pending
  <2>1. state'[k] = Reduce[<<Watcher!Current(k), EventOf[d]>>]
    BY <1>0, <1>1 DEF Watcher!ProcessClean, Watcher!Reduced, DomainTypeOK, Watcher!TypeOK
  <2>2. Watcher!Current(k) \in (DetectorState \ Pending) \cup {InitialState}
    BY <1>0, <1>5 DEF Watcher!Current, DomainTypeOK, Watcher!TypeOK, Watcher!Value
  <2>3. d \in Openers(k)
    BY <1>0, <1>5, <2>1, <2>2 DEF Openers, MayOpen
  <2>4. e \notin Opened(k) /\ e \in Opened(k)'
    <3>1. at[e] = "detector" /\ at'[e] = "enrich" /\ body' = body
      BY <1>0, <1>1 DEF Watch, Go, configuration, IInv, TypeOK
    <3>2. Openers(k)' = Openers(k)
      BY DEF Openers
    <3> QED
      BY <2>3, <3>1, <3>2 DEF Opened
  <2>5. Opened(k) \in SUBSET Message /\ Opened(k)' \in SUBSET Message
    BY DEF Opened
  <2>6. /\ Cardinality(Opened(k) \cup {e}) = Cardinality(Opened(k)) + 1
        /\ Cardinality(Opened(k) \cup {e}) <= Cardinality(Opened(k)')
        /\ Cardinality(Opened(k)) \in Nat /\ Cardinality(Opened(k)') \in Nat
    <3>1. IsFiniteSet(Opened(k)) /\ IsFiniteSet(Opened(k)')
          /\ Cardinality(Opened(k)) \in Nat /\ Cardinality(Opened(k)') \in Nat
      BY <2>5, FinitelyManyMessages
    <3>2. Opened(k) \cup {e} \in SUBSET Opened(k)'
      BY <1>3, <2>4
    <3> QED
      BY <2>4, <3>1, <3>2, FS_AddElement, FS_Subset
  <2>7. IsFiniteSet(Flags(k)) /\ Cardinality(Flags(k)) \in Nat
    BY <1>0, FS_CardinalityType DEF ChargedTo
  <2>8. Cardinality(Flags(k)) <= Cardinality(Opened(k))
    BY <1>0, <1>5, <2>7, <2>6 DEF ChargedTo
  <2>9. Cardinality(Flags(k)) + 1 <= Cardinality(Opened(k)')
    BY <2>6, <2>7, <2>8
  <2> QED
    BY <1>2, <1>5, <2>7, <2>9 DEF ChargedTo
<1> QED
  BY <1>4, <1>5

(* A timeout takes the pending state, and leaves one flag more.             *)
LEMMA TimeoutIsCharged ==
  ASSUME IInv, DomainTypeOK, Charged, NEW k \in Session, NEW s \in Synthetic, TimeOut(k, s)
  PROVE  Charged'
<1>0. /\ about[s] = NoSession /\ about' = [about EXCEPT ![s] = k]
      /\ about \in [Synthetic -> Session \cup {NoSession}]
      /\ Steps(s) /\ s \in Element
  BY DEF TimeOut, Synthesize, DomainTypeOK, Steps, Element
<1>1. state[k] \in Pending /\ state' = [state EXCEPT ![k] = NoState] /\ NoState \notin Pending
  BY WatcherAssumption
     DEF TimeOut, Watcher!TimeoutFires, Watcher!WillFire, Watcher!ShouldFire,
         Watcher!DetectorAssumption
<1>2. state \in [Session -> Watcher!Value]
  BY DEF DomainTypeOK, Watcher!TypeOK
<1>3. ASSUME NEW j \in Session, j # k PROVE ChargedTo(j)'
  <2>1. Flags(j)' = Flags(j)
    BY <1>0, <1>3, DomainAssumption DEF Flags
  <2>2. state'[j] = state[j] /\ ChargedTo(j)
    BY <1>1, <1>2, <1>3 DEF Charged
  <2> QED
    BY <1>0, <2>1, <2>2, OpenedStays, StaysCharged
<1>4. ChargedTo(k)'
  <2>1. Flags(k)' = Flags(k) \cup {s} /\ s \notin Flags(k)
    BY <1>0, DomainAssumption DEF Flags
  <2>2. IsFiniteSet(Flags(k)) /\ Cardinality(Flags(k)) + 1 <= Cardinality(Opened(k))
    BY <1>1 DEF Charged, ChargedTo
  <2>3. /\ IsFiniteSet(Flags(k)') /\ Cardinality(Flags(k)') = Cardinality(Flags(k)) + 1
        /\ Cardinality(Flags(k)) \in Nat
    BY <2>1, <2>2, FS_AddElement, FS_CardinalityType
  <2>4. Opened(k) \in SUBSET Opened(k)' /\ Opened(k)' \in SUBSET Message
    BY <1>0, OpenedStays DEF Opened
  <2>5. /\ Cardinality(Opened(k)) <= Cardinality(Opened(k)')
        /\ Cardinality(Opened(k)) \in Nat /\ Cardinality(Opened(k)') \in Nat
    BY <2>4, FinitelyManyMessages, FS_Subset
  <2>6. state'[k] \notin Pending
    BY <1>1, <1>2
  <2>7. Cardinality(Flags(k)') <= Cardinality(Opened(k)')
    BY <2>2, <2>3, <2>5
  <2> QED
    BY <2>3, <2>5, <2>6, <2>7, FS_CardinalityType DEF ChargedTo
<1> QED
  BY <1>3, <1>4 DEF Charged

LEMMA StepIsCharged == IInv /\ DomainTypeOK /\ Charged /\ [DomainNext]_domainVars => Charged'
<1> SUFFICES ASSUME IInv, DomainTypeOK, Charged, [DomainNext]_domainVars PROVE Charged'
  OBVIOUS
<1>1. ASSUME UNCHANGED <<state, about>>, \A k \in Session : Opened(k) \subseteq Opened(k)'
      PROVE  Charged'
  <2>1. ASSUME NEW k \in Session PROVE ChargedTo(k)'
    <3>1. Flags(k)' = Flags(k) /\ state'[k] = state[k] /\ ChargedTo(k)
      BY <1>1 DEF Flags, Charged
    <3> QED
      BY <1>1, <3>1, StaysCharged
  <2> QED
    BY <2>1 DEF Charged
<1>2. ASSUME NEW e \in Element, ProceedsElsewhere(e) \/ RaisesElsewhere(e) PROVE Charged'
  <2>1. Steps(e) /\ UNCHANGED <<state, about>>
    BY <1>2, RaisingChangesNothing
       DEF ProceedsElsewhere, RaisesElsewhere, Steps, Proceeds, watcherVars
  <2> QED
    BY <1>1, <2>1, OpenedStays
<1>3. ASSUME NEW e \in Message, WatchRaises(e) PROVE Charged'
  <2>1. Steps(e) /\ UNCHANGED <<state, about>> /\ e \in Element
    BY <1>3 DEF WatchRaises, Steps, RaisesInPlace, Raise, configuration, watcherVars, Element
  <2> QED
    BY <1>1, <2>1, OpenedStays
<1>4. ASSUME NEW e \in Message, WatchSession(e) PROVE Charged'
  <2>0. PICK d \in DedupKey, k \in Session : d = body[e].key /\ k = SessionOf[d]
    BY DomainAssumption DEF IInv, TypeOK, Element, BodyType
  <2>1. ChargedTo(k)'
    BY <1>4, <2>0, OpeningIsCharged
  <2>2. ASSUME NEW j \in Session, j # k PROVE ChargedTo(j)'
    <3>1. Steps(e) /\ e \in Element
      BY <1>4 DEF WatchSession, Steps, Proceeds, Element
    <3>2. state'[j] = state[j]
      BY <1>4, <2>0, <2>2 DEF WatchSession, Watcher!ProcessClean, DomainTypeOK, Watcher!TypeOK
    <3>3. Flags(j)' = Flags(j) /\ ChargedTo(j)
      BY <1>4 DEF WatchSession, Flags, Charged
    <3> QED
      BY <3>1, <3>2, <3>3, OpenedStays, StaysCharged
  <2> QED
    BY <2>1, <2>2 DEF Charged
<1>5. ASSUME NEW k \in Session, NEW s \in Synthetic, TimeOut(k, s) PROVE Charged'
  BY <1>5, TimeoutIsCharged
<1>6. CASE Clock \/ UNCHANGED domainVars
  <2>1. UNCHANGED <<state, about, spec, body, at, duplicates>>
    BY <1>6 DEF Clock, Forget, Watcher!Tick, configuration, domainVars, watcherVars, vars
  <2>2. \A k \in Session : Opened(k)' = Opened(k)
    BY <2>1 DEF Opened, Openers, HasFlaw, Valid, EnvelopeOK, DomainOK, PayloadOK, PayloadFieldsOK
  <2> QED
    BY <1>1, <2>1, <2>2
<1> QED
  BY <1>2, <1>3, <1>4, <1>5, <1>6 DEF DomainNext

(* Only identities that messages have are remembered. *)
Supported == \A d \in DedupKey : windows[d] = 0 \/ \E m \in Message : body[m].key = d

LEMMA StepKeepsSupport == IInv /\ Supported /\ [DomainNext]_domainVars => Supported'
<1> SUFFICES ASSUME IInv, Supported, [DomainNext]_domainVars PROVE Supported'
  OBVIOUS
<1>1. ASSUME NEW e \in Element, Steps(e) PROVE Supported'
  <2>1. body' = body
    BY <1>1 DEF Steps, Proceeds, ParseMessage, Dedup, ValidateEvent, Watch, EnrichEvent,
                WriteAndKey, RaisesInPlace, Synthesize, configuration
  <2>2. CASE Dedup(e) /\ Remember(e)
    <3>1. e \in Message
      BY <2>2 DEF Dedup, IInv, Entered, Element
    <3>2. \A d \in DedupKey : d # body[e].key => windows'[d] = windows[d]
      BY <2>2 DEF Remember, IInv, TypeOK
    <3> QED
      BY <2>1, <3>1, <3>2 DEF Supported
  <2>3. CASE ~(Dedup(e) /\ Remember(e))
    <3>1. windows' = windows
      BY <1>1, <2>3 DEF Steps, Proceeds, ParseMessage, Dedup, DropDuplicate, ValidateEvent, Watch,
                        EnrichEvent, WriteAndKey, RaisesInPlace, Synthesize
    <3> QED
      BY <2>1, <3>1 DEF Supported
  <2> QED
    BY <2>2, <2>3
<1>2. CASE Forget \/ UNCHANGED vars
  BY <1>2 DEF Forget, vars, configuration, Supported
<1> QED
  BY <1>1, <1>2, DomainStepIsAStep

(* So there are finitely many memories,                                     *)
LEMMA MemoriesAreFinite ==
  ASSUME IInv, Supported, NEW k
  PROVE  IsFiniteSet(Memories(k))
<1> DEFINE K == {body[m].key : m \in Message}
           name == [m \in Message |-> body[m].key]
           cell == [d \in K |-> {d} \X (1..windows[d])]
           Cells == {cell[d] : d \in K}
<1>1. name \in Surjection(Message, K)
  BY DEF Surjection
<1>2. IsFiniteSet(K)
  <2> HIDE DEF K, name
  <2> QED
    BY <1>1, FS_Surjection, IngestAssumption
<1>3. cell \in Surjection(K, Cells)
  BY DEF Surjection
<1>4. \A d \in K : d \in DedupKey /\ windows[d] \in Nat
  BY DEF IInv, TypeOK, Element, BodyType
<1>5. ASSUME NEW d \in K PROVE IsFiniteSet({d} \X (1..windows[d]))
  <2>1. IsFiniteSet(1..windows[d])
    BY <1>4, FS_Interval
  <2>2. IsFiniteSet({d})
    BY FS_Singleton
  <2> QED
    BY <2>1, <2>2, FS_Product
<1>6. \A T \in Cells : IsFiniteSet(T)
  BY <1>5
<1>7. Memories(k) \subseteq UNION Cells
  <2> SUFFICES ASSUME NEW d \in Openers(k), NEW x \in {d} \X (1..windows[d])
               PROVE  x \in UNION Cells
    BY DEF Memories
  <2>1. d \in DedupKey /\ windows[d] # 0
    <3>1. d \in DedupKey
      BY DEF Openers
    <3>2. windows[d] # 0
      OBVIOUS
    <3> QED
      BY <3>1, <3>2
  <2>2. d \in K
    BY <2>1 DEF Supported
  <2> QED
    BY <2>2
<1> HIDE DEF K, cell, Cells
<1>8. IsFiniteSet(Cells)
  BY <1>2, <1>3, FS_Surjection
<1>9. IsFiniteSet(UNION Cells)
  BY <1>6, <1>8, FS_UNION
<1> QED
  BY <1>7, <1>9, FS_Subset

(* and not fewer than messages that may have opened the session: those of   *)
(* one identity are numbered, up to the times it began to be remembered.    *)
LEMMA OpenedIsRemembered ==
  ASSUME IInv, Supported, AdmittedOnce, spec.dedup, NEW k
  PROVE  Cardinality(Opened(k)) <= Cardinality(Memories(k))
<1> DEFINE Numbering(d) == CHOOSE f : f \in Bijection(1..Cardinality(Admitted(d)), Admitted(d))
           M == {x \in Memories(k) : /\ x[2] \in 1..Cardinality(Admitted(x[1]))
                                     /\ Numbering(x[1])[x[2]] \in Opened(k)}
           g == [x \in M |-> Numbering(x[1])[x[2]]]
<1>1. ASSUME NEW d
      PROVE  Numbering(d) \in Bijection(1..Cardinality(Admitted(d)), Admitted(d))
  BY AdmittedIsFinite, FS_CardinalityType DEF ExistsBijection
<1> HIDE DEF Numbering
<1>2. ASSUME NEW m \in Opened(k) PROVE \E x \in M : g[x] = m
  <2> DEFINE d == body[m].key
  <2>1. m \in Admitted(d) /\ d \in Openers(k) /\ d \in DedupKey
    BY DEF Opened, Admitted, Openers
  <2> HIDE DEF d
  <2>2. PICK i \in 1..Cardinality(Admitted(d)) : Numbering(d)[i] = m
    BY <1>1, <2>1 DEF Bijection, Surjection
  <2>3. Cardinality(Admitted(d)) <= windows[d] /\ windows[d] \in Nat
        /\ Cardinality(Admitted(d)) \in Nat
    BY <2>1, AdmittedIsFinite DEF AdmittedOnce, IInv, TypeOK
  <2>4. i \in 1..windows[d]
    BY <2>3
  <2>5. <<d, i>> \in {d} \X (1..windows[d])
    BY <2>4
  <2>6. <<d, i>> \in Memories(k)
    BY <2>1, <2>5 DEF Memories
  <2>7. <<d, i>> \in M
    BY <2>2, <2>6
  <2> QED
    BY <2>2, <2>7
<1>3. g \in Surjection(M, Opened(k))
  <2>1. g \in [M -> Opened(k)]
    OBVIOUS
  <2> HIDE DEF g, M
  <2> QED
    BY <1>2, <2>1 DEF Surjection
<1>4. M \in SUBSET Memories(k)
  OBVIOUS
<1> HIDE DEF M, g
<1>5. IsFiniteSet(M) /\ Cardinality(M) <= Cardinality(Memories(k))
  BY <1>4, MemoriesAreFinite, FS_Subset
<1>6. Cardinality(Opened(k)) <= Cardinality(M)
  BY <1>3, <1>5, FS_Surjection
<1>7. /\ Cardinality(M) \in Nat /\ Cardinality(Memories(k)) \in Nat
      /\ Cardinality(Opened(k)) \in Nat
  BY <1>5, MemoriesAreFinite, FinitelyManyMessages, FS_CardinalityType DEF Opened
<1> QED
  BY <1>5, <1>6, <1>7

(* However often the event that opens a session is delivered, and even when *)
(* the timeout has cleared the session's state before, no timeout event is  *)
(* made beyond one for each time the event's identity began to be           *)
(* remembered (framework.py:927-949).                                       *)
THEOREM RedeliveriesFlagOnce == DomainSpecification => []FlagsPerMemory
<1>1. DomainInit => Charged /\ Supported /\ AdmittedOnce
  <2> SUFFICES ASSUME DomainInit PROVE Charged /\ Supported /\ AdmittedOnce
    OBVIOUS
  <2>1. ASSUME NEW k \in Session PROVE ChargedTo(k)
    <3>1. Flags(k) = {} /\ state[k] \notin Pending
      BY <2>1, DomainAssumption, WatcherAssumption
         DEF DomainInit, Flags, Watcher!Init, Watcher!DetectorAssumption
    <3>2. Opened(k) \in SUBSET Message
      BY DEF Opened
    <3>3. Cardinality(Opened(k)) \in Nat
      BY <3>2, FinitelyManyMessages
    <3> QED
      BY <3>1, <3>3, FS_EmptySet DEF ChargedTo
  <2> QED
    BY <2>1, InitAdmitsNone DEF DomainInit, Init, Charged, Supported
<1>2. IInv /\ DomainTypeOK /\ Charged /\ [DomainNext]_domainVars => Charged'
  BY StepIsCharged
<1>3. IInv /\ Supported /\ [DomainNext]_domainVars => Supported'
  BY StepKeepsSupport
<1>4. IInv /\ AdmittedOnce /\ [DomainNext]_domainVars => AdmittedOnce'
  BY DomainStepIsAStep, StepAdmitsOnce, ForgetAdmitsNone
<1>5. IInv /\ Charged /\ Supported /\ AdmittedOnce => FlagsPerMemory
  <2> SUFFICES ASSUME IInv, Charged, Supported, AdmittedOnce, spec.dedup, NEW k \in Session
               PROVE  Cardinality(Flags(k)) <= Cardinality(Memories(k))
    BY DEF FlagsPerMemory
  <2>1. Cardinality(Opened(k)) <= Cardinality(Memories(k))
    BY OpenedIsRemembered
  <2>2. /\ IsFiniteSet(Flags(k))
        /\ Cardinality(Flags(k)) + (IF state[k] \in Pending THEN 1 ELSE 0)
             <= Cardinality(Opened(k))
    BY DEF Charged, ChargedTo
  <2>3. Cardinality(Flags(k)) \in Nat /\ Cardinality(Memories(k)) \in Nat
    BY <2>2, MemoriesAreFinite, FS_CardinalityType
  <2>4. Cardinality(Opened(k)) \in Nat
    BY FinitelyManyMessages DEF Opened
  <2> QED
    BY <2>1, <2>2, <2>3, <2>4
<1> QED
  BY <1>1, <1>2, <1>3, <1>4, <1>5, DomainInvariant, DomainTypeCorrect, PTL DEF DomainSpecification

-----------------------------------------------------------------------------
(* The safety half of AbandonedSessionIsRecorded.  Of a session that m      *)
(* opened and that was left, until it is flagged: no copy of m has been     *)
(* deduplicated and the next one will not be dropped; or a copy is on its   *)
(* way to the watcher; or the watcher has a timer for the session.          *)
Coming(m) ==
  \/ \A n \in Twins(m) : at[n] \in {"topic", "dedup"} /\ seenFor[body[m].key] = 0
  \/ \E n \in Twins(m) : at[n] \in {"validate", "detector"}

FollowedUp(m) ==
  LET k == SessionOf[body[m].key]
  IN  Coming(m) \/ Watcher!Armed(k) \/ Flags(k) # {}

AbandonedIsFollowedUp == spec.detector => \A m \in Message : Abandoned(m) => FollowedUp(m)

(* And a timeout event that has left the pipeline is in its domain's tables.*)
TimeoutsAreRecorded == \A s \in Synthetic : at[s] = "out" => Recorded(s)

(* What makes dedup_key_fn raise does not get past it. *)
Identified ==
  spec.dedup =>
    \A m \in Message : at[m] \in {"validate", "detector"} => ~HasFlaw(m, "dedup_key")

LEMMA StepKeepsConfiguration == ASSUME NEW e, Steps(e) PROVE UNCHANGED <<spec, body>>
  BY DEF Steps, Proceeds, ParseMessage, Dedup, ValidateEvent, Watch, EnrichEvent, WriteAndKey,
         RaisesInPlace, Synthesize, configuration

LEMMA StepIdentifies == IInv /\ Identified /\ [DomainNext]_domainVars => Identified'
<1> SUFFICES ASSUME IInv, Identified, [DomainNext]_domainVars PROVE Identified'
  OBVIOUS
<1>1. ASSUME NEW e \in Element, Steps(e) PROVE Identified'
  <2>0. UNCHANGED <<spec, body>>
    BY <1>1, StepKeepsConfiguration
  <2> SUFFICES ASSUME spec.dedup, NEW m \in Message, at'[m] \in {"validate", "detector"}
               PROVE  ~HasFlaw(m, "dedup_key")
    BY <2>0 DEF Identified, HasFlaw
  <2>1. CASE m # e
    BY <1>1, <2>1, OthersUndisturbed DEF Identified, IInv, Element
  <2>2. CASE m = e
    <3> USE <2>2 DEF IInv, TypeOK, Go, ToDlq, Identified
    <3>1. CASE ParseMessage(e)
      BY <3>1 DEF ParseMessage, AfterParse
    <3>2. CASE Dedup(e)
      BY <3>2 DEF Dedup
    <3>3. CASE ValidateEvent(e)
      BY <3>3 DEF ValidateEvent
    <3>4. CASE Watch(e) \/ EnrichEvent(e) \/ WriteAndKey(e)
      BY <3>4 DEF Watch, EnrichEvent, WriteAndKey
    <3>5. CASE RaisesInPlace(e)
      BY <3>5 DEF RaisesInPlace
    <3> QED
      BY <1>1, <3>1, <3>2, <3>3, <3>4, <3>5, IngestAssumption DEF Steps, Proceeds
  <2> QED
    BY <2>1, <2>2
<1>2. CASE Forget \/ UNCHANGED vars
  BY <1>2 DEF Forget, vars, configuration, Identified, HasFlaw
<1> QED
  BY <1>1, <1>2, DomainStepIsAStep

(* What Abandoned says of the copies of m, and of other messages.           *)
LEMMA AbandonedTells ==
  ASSUME IInv, NEW m \in Message, Abandoned(m)
  PROVE  /\ body[m].key \in DedupKey /\ SessionOf[body[m].key] \in Session
         /\ m \in Twins(m)
         /\ \A n \in Twins(m) :
              n \in Message /\ n \in Element /\ body[n] = body[m] /\ body[n].flaws = {}
         /\ \A n \in Message :
              n \notin Twins(m) => (~HasFlaw(n, "json") => body[n].key # body[m].key)
<1>1. body[m].key \in DedupKey /\ SessionOf[body[m].key] \in Session
  BY DomainAssumption DEF IInv, TypeOK, Element, BodyType
<1> QED
  BY <1>1 DEF Abandoned, Twins, Element

(* Copies of m come closer to the watcher, and only the watcher takes one.  *)
LEMMA ComingStays ==
  ASSUME IInv, spec.detector, NEW m \in Message, Abandoned(m), Coming(m),
         NEW e \in Element, Steps(e), ~Watch(e)
  PROVE  Coming(m)'
<1>0. UNCHANGED <<spec, body>> /\ Twins(m)' = Twins(m)
  BY StepKeepsConfiguration DEF Twins
<1>1. \A n \in Twins(m) : n # e => at'[n] = at[n]
  BY AbandonedTells, OthersUndisturbed DEF IInv
<1>2. CASE e \notin Twins(m)
  <2>1. seenFor'[body[m].key] = seenFor[body[m].key]
    BY <1>2, AbandonedTells, OnlyOwnKeyIsRemembered
  <2> QED
    BY <1>0, <1>1, <1>2, <2>1 DEF Coming
<1>3. CASE e \in Twins(m)
  <2>1. /\ e \in Message /\ body[e] = body[m] /\ body[e].flaws = {}
        /\ body[m].key \in DedupKey
    BY <1>3, AbandonedTells
  <2> USE <1>0, <1>1, <1>3, <2>1 DEF IInv, TypeOK, HasFlaw, Go
  <2>2. CASE ParseMessage(e)
    <3>1. at[e] = "topic" /\ at'[e] \in {"dedup", "validate"} /\ seenFor' = seenFor
      BY <2>2 DEF ParseMessage, AfterParse
    <3> QED
      BY <3>1 DEF Coming
  <2>3. CASE Dedup(e)
    <3>1. CASE seenFor[body[m].key] = 0
      <4>1. at'[e] = "validate"
        BY <2>3, <3>1 DEF Dedup, Remember
      <4> QED
        BY <4>1 DEF Coming
    <3>2. CASE seenFor[body[m].key] # 0
      <4>1. at[e] = "dedup"
        BY <2>3 DEF Dedup
      <4>2. PICK n \in Twins(m) : at[n] \in {"validate", "detector"}
        BY <3>2 DEF Coming
      <4> QED
        BY <4>1, <4>2 DEF Coming
    <3> QED
      BY <3>1, <3>2
  <2>4. CASE ValidateEvent(e)
    <3>1. at'[e] = "detector"
      BY <2>4 DEF ValidateEvent, Valid, EnvelopeOK, DomainOK, PayloadOK, PayloadFieldsOK,
                  AfterValidate
    <3> QED
      BY <3>1 DEF Coming
  <2>5. CASE EnrichEvent(e) \/ WriteAndKey(e)
    <3>1. at[e] \in {"enrich", "sink"}
      BY <2>5 DEF EnrichEvent, WriteAndKey
    <3>2. PICK n \in Twins(m) : at[n] \in {"validate", "detector"}
      BY <3>1 DEF Coming
    <3> QED
      BY <3>1, <3>2 DEF Coming
  <2>6. CASE RaisesInPlace(e)
    BY <2>6 DEF RaisesInPlace, Coming
  <2> QED
    BY <2>2, <2>3, <2>4, <2>5, <2>6, IngestAssumption DEF Steps, Proceeds
<1> QED
  BY <1>2, <1>3

(* Whatever the watcher lets pass leaves a timer for the session of m, if   *)
(* it is of that session, and leaves the others alone.                      *)
LEMMA WatchArms ==
  ASSUME IInv, DomainTypeOK, Identified, NEW m \in Message, Abandoned(m),
         NEW e \in Message, WatchSession(e),
         e \in Twins(m) \/ Watcher!Armed(SessionOf[body[m].key])
  PROVE  Watcher!Armed(SessionOf[body[m].key])'
<1> DEFINE d == body[m].key
           c == body[e].key
<1>1. /\ d \in DedupKey /\ SessionOf[d] \in Session
      /\ c \in DedupKey /\ SessionOf[c] \in Session
      /\ body' = body
  BY AbandonedTells, DomainAssumption
     DEF IInv, TypeOK, Element, BodyType, WatchSession, Watch, configuration
<1>2. /\ timer' = Watcher!Reschedule(SessionOf[c], Watcher!Reduced(SessionOf[c], EventOf[c]))
      /\ timer \in [Session -> {-1} \cup 0..Timeout]
  BY DEF WatchSession, Watcher!ProcessClean, DomainTypeOK, Watcher!TypeOK, Watcher!Unset
<1>3. CASE SessionOf[c] # SessionOf[d]
  <2>1. e \notin Twins(m)
    BY <1>3 DEF Twins
  <2>2. timer'[SessionOf[d]] = timer[SessionOf[d]]
    BY <1>1, <1>2, <1>3 DEF Watcher!Reschedule
  <2> QED
    BY <1>1, <2>1, <2>2 DEF Watcher!Armed
<1>4. CASE SessionOf[c] = SessionOf[d]
  <2>1. Opens(c)
    <3>1. CASE e \in Twins(m)
      BY <3>1 DEF Twins, Abandoned
    <3>2. CASE e \notin Twins(m)
      <4>1. ReachesWatcher(e)
        BY DEF WatchSession, Watch, IInv, Examined, Identified, ReachesWatcher, HasFlaw
      <4> QED
        BY <1>4, <3>2, <4>1 DEF Abandoned
    <3> QED
      BY <3>1, <3>2
  <2>2. Watcher!Current(SessionOf[c]) \in DetectorState \cup {InitialState}
    BY <1>1 DEF Watcher!Current, DomainTypeOK, Watcher!TypeOK, Watcher!Value
  <2>3. Watcher!Reduced(SessionOf[c], EventOf[c]) \in Pending
    BY <2>1, <2>2 DEF Opens, Watcher!Reduced
  <2>4. timer'[SessionOf[d]] = Timeout
    BY <1>1, <1>2, <1>4, <2>3 DEF Watcher!Reschedule
  <2>5. Timeout # Watcher!Unset
    BY WatcherAssumption DEF Watcher!DetectorAssumption, Watcher!Unset
  <2> QED
    BY <1>1, <2>4, <2>5 DEF Watcher!Armed
<1> QED
  BY <1>3, <1>4

LEMMA StepFollowsUp ==
  IInv /\ DomainTypeOK /\ Identified /\ AbandonedIsFollowedUp /\ [DomainNext]_domainVars
    => AbandonedIsFollowedUp'
<1> SUFFICES ASSUME IInv, DomainTypeOK, Identified, AbandonedIsFollowedUp,
                    [DomainNext]_domainVars
             PROVE  AbandonedIsFollowedUp'
  OBVIOUS
<1> SUFFICES ASSUME UNCHANGED <<spec, body>>, spec.detector, NEW m \in Message, Abandoned(m)
             PROVE  FollowedUp(m)'
  <2>1. UNCHANGED <<spec, body>>
    <3>1. CASE \E e \in Element : Steps(e)
      BY <3>1, StepKeepsConfiguration
    <3>2. CASE Forget \/ UNCHANGED vars
      BY <3>2 DEF Forget, vars, configuration
    <3> QED
      BY <3>1, <3>2, DomainStepIsAStep
  <2>2. \A m \in Message : Abandoned(m)' <=> Abandoned(m)
    BY <2>1 DEF Abandoned, Twins, ReachesWatcher, HasFlaw, Valid, EnvelopeOK, DomainOK, PayloadOK,
                PayloadFieldsOK
  <2> QED
    BY <2>1, <2>2 DEF AbandonedIsFollowedUp
<1> DEFINE k == SessionOf[body[m].key]
<1>1. FollowedUp(m) /\ k \in Session /\ k' = k
  BY AbandonedTells DEF AbandonedIsFollowedUp
<1> HIDE DEF k
<1>2. FollowedUp(m)' <=> Coming(m)' \/ Watcher!Armed(k)' \/ Flags(k)' # {}
  BY <1>1 DEF FollowedUp, k
<1>3. Coming(m) \/ Watcher!Armed(k) \/ Flags(k) # {}
  BY <1>1 DEF FollowedUp, k
<1>4. ASSUME NEW e \in Element, Steps(e), ~Watch(e), UNCHANGED <<timer, about>>
      PROVE  FollowedUp(m)'
  <2>1. Watcher!Armed(k)' <=> Watcher!Armed(k)
    BY <1>1, <1>4 DEF Watcher!Armed
  <2>2. Flags(k)' = Flags(k)
    BY <1>1, <1>4 DEF Flags
  <2>3. Coming(m) => Coming(m)'
    BY <1>4, ComingStays
  <2> QED
    BY <1>2, <1>3, <2>1, <2>2, <2>3
<1>5. ASSUME NEW e \in Element, ProceedsElsewhere(e) \/ RaisesElsewhere(e) PROVE FollowedUp(m)'
  <2>1. Steps(e) /\ UNCHANGED <<timer, about>>
    BY <1>5, RaisingChangesNothing
       DEF ProceedsElsewhere, RaisesElsewhere, Steps, Proceeds, watcherVars
  <2>2. CASE at[e] # "detector"
    BY <1>4, <2>1, <2>2 DEF Watch
  <2>3. CASE at[e] = "detector"
    <3>1. RaisesElsewhere(e)
      BY <1>5, <2>3 DEF ProceedsElsewhere, ParseMessage, Dedup, ValidateEvent, EnrichEvent,
                        WriteAndKey
    <3>2. HasFlaw(e, "detector_key")
      BY <2>3, <3>1 DEF RaisesElsewhere, Raises, DedupKeyRaises, ValidateRaises,
                        DetectorKeyRaises, CoerceRaises
    <3> QED
      BY <1>4, <2>1, <3>2 DEF Watch
  <2> QED
    BY <2>2, <2>3
<1>6. ASSUME NEW e \in Message, WatchRaises(e) PROVE FollowedUp(m)'
  <2>1. Steps(e) /\ e \in Element /\ UNCHANGED <<timer, about>> /\ raised' = raised \cup {e}
    BY <1>6 DEF WatchRaises, Steps, RaisesInPlace, Raise, configuration, watcherVars, Element
  <2>2. at' = at /\ at[e] = "detector"
    BY <1>6 DEF WatchRaises, Raise
  <2>3. ~Watch(e)
    BY <2>1, <2>2 DEF Watch, Go, IInv, TypeOK
  <2> QED
    BY <1>4, <2>1, <2>3
<1>7. ASSUME NEW e \in Message, WatchSession(e) PROVE FollowedUp(m)'
  <2>1. CASE e \in Twins(m) \/ Watcher!Armed(k)
    <3>1. Watcher!Armed(SessionOf[body[m].key])'
      BY <1>7, <2>1, WatchArms DEF k
    <3> QED
      BY <1>1, <3>1 DEF FollowedUp
  <2>2. CASE e \notin Twins(m) /\ Flags(k) # {}
    <3>1. Flags(k)' = Flags(k)
      BY <1>1, <1>7 DEF Flags, WatchSession
    <3> QED
      BY <1>2, <2>2, <3>1
  <2>3. CASE e \notin Twins(m) /\ Coming(m)
    <3>1. /\ UNCHANGED <<seenFor, body>> /\ Steps(e) /\ e \in Element
          /\ \A n \in Twins(m) : n # e /\ at'[n] = at[n]
      <4>1. UNCHANGED <<seenFor, body>> /\ Steps(e) /\ e \in Element
        BY <1>7 DEF WatchSession, Watch, configuration, Steps, Proceeds, Element
      <4>2. \A n \in Twins(m) : n \in Element \ {e}
        BY <2>3, AbandonedTells
      <4> QED
        BY <2>3, <4>1, <4>2, OthersUndisturbed DEF IInv
    <3>2. Twins(m)' = Twins(m)
      BY <3>1 DEF Twins
    <3>3. Coming(m)'
      BY <2>3, <3>1, <3>2 DEF Coming
    <3> QED
      BY <1>2, <3>3
  <2> QED
    BY <1>3, <2>1, <2>2, <2>3
<1>8. ASSUME NEW j \in Session, NEW s \in Synthetic, TimeOut(j, s) PROVE FollowedUp(m)'
  <2>1. /\ about[s] = NoSession /\ about' = [about EXCEPT ![s] = j]
        /\ about \in [Synthetic -> Session \cup {NoSession}]
        /\ timer' = [timer EXCEPT ![j] = Watcher!Unset]
        /\ Steps(s) /\ s \in Element /\ at[s] = "unborn"
    BY <1>8 DEF TimeOut, Synthesize, DomainTypeOK, Steps, Element, Watcher!TimeoutFires,
                Watcher!Consume
  <2>2. CASE j = k
    <3>1. s \in Flags(k)'
      BY <1>1, <2>1, <2>2 DEF Flags
    <3> QED
      BY <1>2, <3>1
  <2>3. CASE j # k
    <3>1. Flags(k)' = Flags(k)
      BY <1>1, <2>1, <2>3, DomainAssumption DEF Flags
    <3>2. Watcher!Armed(k)' <=> Watcher!Armed(k)
      BY <1>1, <2>1, <2>3 DEF Watcher!Armed, DomainTypeOK, Watcher!TypeOK
    <3>3. Coming(m) => Coming(m)'
      BY <2>1, ComingStays DEF Watch
    <3> QED
      BY <1>2, <1>3, <3>1, <3>2, <3>3
  <2> QED
    BY <2>2, <2>3
<1>9. CASE Clock
  <2>1. UNCHANGED <<at, body, about>> /\ Watcher!Tick
    BY <1>9 DEF Clock, Forget, configuration
  <2>2. Flags(k)' = Flags(k)
    BY <1>1, <2>1 DEF Flags
  <2>3. Watcher!Armed(k)' <=> Watcher!Armed(k)
    BY <1>1, <2>1 DEF Watcher!Tick, Watcher!Armed, Watcher!Unset, DomainTypeOK, Watcher!TypeOK
  <2>4. seenFor[body[m].key] = 0 => seenFor'[body[m].key] = 0
    BY <1>9, AbandonedTells DEF Clock, Forget
  <2>5. Coming(m) => Coming(m)'
    BY <2>1, <2>4 DEF Coming, Twins
  <2> QED
    BY <1>2, <1>3, <2>2, <2>3, <2>5
<1>10. CASE UNCHANGED domainVars
  <2>1. UNCHANGED <<at, body, about, timer, seenFor>>
    BY <1>10 DEF domainVars, vars, watcherVars
  <2>2. Flags(k)' = Flags(k) /\ (Watcher!Armed(k)' <=> Watcher!Armed(k))
    BY <1>1, <2>1 DEF Flags, Watcher!Armed
  <2>3. Coming(m) => Coming(m)'
    BY <2>1 DEF Coming, Twins
  <2> QED
    BY <1>2, <1>3, <2>2, <2>3
<1> QED
  BY <1>5, <1>6, <1>7, <1>8, <1>9, <1>10 DEF DomainNext

(* A session that was opened and left is never lost sight of: neither the   *)
(* copies that deduplication drops, nor closing messages that do not reach  *)
(* the watcher, nor bundles that fail leave it without a flag, a timer or a *)
(* copy still to come (framework.py:907-949).                               *)
THEOREM SessionsAreNotLost == DomainSpecification => []AbandonedIsFollowedUp
<1>1. DomainInit => AbandonedIsFollowedUp /\ Identified
  <2> SUFFICES ASSUME DomainInit PROVE AbandonedIsFollowedUp /\ Identified
    OBVIOUS
  <2>1. /\ \A n \in Message : at[n] = "topic"
        /\ \A n \in Message : body[n].key \in DedupKey
        /\ \A d \in DedupKey : seenFor[d] = 0
    BY ConfigurationAssumption DEF DomainInit, Init, Element, BodyType
  <2> QED
    BY <2>1 DEF AbandonedIsFollowedUp, FollowedUp, Coming, Twins, Identified
<1> QED
  BY <1>1, StepIdentifies, StepFollowsUp, DomainInvariant, DomainTypeCorrect, PTL
     DEF DomainSpecification

-----------------------------------------------------------------------------
(* Where a timeout event can go wrong, and that it is recorded all the same.*)
Timed ==
  \A s \in Synthetic :
    /\ body[s].flaws \subseteq {"object", "envelope"}
    /\ at[s] = "sink" => ~HasFlaw(s, "object")
    /\ at[s] = "out" => Recorded(s)

LEMMA StepIsTimed == IInv /\ Timed /\ [DomainNext]_domainVars => Timed'
<1> SUFFICES ASSUME IInv, Timed, [DomainNext]_domainVars PROVE Timed'
  OBVIOUS
<1>1. ASSUME NEW e \in Element, Steps(e), NEW s \in Synthetic
      PROVE  /\ body'[s].flaws \subseteq {"object", "envelope"}
             /\ at'[s] = "sink" => ~HasFlaw(s, "object")'
             /\ at'[s] = "out" => Recorded(s)'
  <2>0. UNCHANGED <<spec, body>>
    BY <1>1, StepKeepsConfiguration
  <2>1. /\ body[s].flaws \subseteq {"object", "envelope"}
        /\ at[s] = "sink" => ~HasFlaw(s, "object")
        /\ at[s] = "out" => Recorded(s)
        /\ at[s] \in {"unborn", "enrich", "sink", "out"} /\ s \in Element
    BY DEF Timed, IInv, Entered, Element
  <2>2. CASE s # e
    <3>1. /\ at'[s] = at[s] /\ (s \in raw' <=> s \in raw) /\ (s \in keyed' <=> s \in keyed)
          /\ \A g \in Stage : <<s, g>> \in dlq' <=> <<s, g>> \in dlq
      BY <1>1, <2>1, <2>2, OthersUndisturbed DEF IInv
    <3>2. Recorded(s)' <=> Recorded(s)
      BY <2>0, <3>1 DEF Recorded, HasFlaw, Failed, Stage
    <3> QED
      BY <2>0, <2>1, <3>1, <3>2 DEF HasFlaw
  <2>3. CASE s = e
    <3> USE <2>0, <2>1, <2>3 DEF IInv, TypeOK, HasFlaw, Go
    <3>1. CASE EnrichEvent(s)
      <4>1. CASE HasFlaw(s, "object")
        <5>1. at'[s] = "out" /\ dlq' = IF spec.dlq_table THEN dlq \cup {<<s, "enrich">>} ELSE dlq
          BY <3>1, <4>1 DEF EnrichEvent, ToDlq, Quarantine
        <5> QED
          BY <4>1, <5>1 DEF Recorded, Failed
      <4>2. CASE ~HasFlaw(s, "object")
        BY <3>1, <4>2 DEF EnrichEvent
      <4> QED
        BY <4>1, <4>2
    <3>2. CASE WriteAndKey(s)
      <4>1. at[s] = "sink" /\ at'[s] = "out" /\ ~HasFlaw(s, "object") /\ ~HasFlaw(s, "key")
        BY <3>2 DEF WriteAndKey
      <4>2. raw' = IF spec.raw_table THEN raw \cup {s} ELSE raw
        BY <3>2 DEF WriteAndKey
      <4>3. spec.enriched_table => keyed' = keyed \cup {s}
        BY <3>2, <4>1 DEF WriteAndKey, AggregationBranch
      <4> QED
        BY <4>1, <4>2, <4>3 DEF Recorded
    <3>3. CASE Synthesize(s)
      BY <3>3 DEF Synthesize
    <3>4. CASE RaisesInPlace(s)
      BY <3>4 DEF RaisesInPlace
    <3>5. ~(ParseMessage(s) \/ Dedup(s) \/ ValidateEvent(s) \/ Watch(s))
      BY DEF ParseMessage, Dedup, ValidateEvent, Watch
    <3> QED
      BY <1>1, <3>1, <3>2, <3>3, <3>4, <3>5 DEF Steps, Proceeds
  <2> QED
    BY <2>2, <2>3
<1>2. CASE Forget \/ UNCHANGED vars
  BY <1>2 DEF Forget, vars, configuration, Timed, Recorded, HasFlaw, Failed
<1> QED
  BY <1>1, <1>2, DomainStepIsAStep DEF Timed

(* A timeout event that is done with is in the raw table and was aggregated,*)
(* as a real event would be (framework.py:144-147); one that is no event at *)
(* all has its dlq row.                                                     *)
THEOREM TimeoutsAreRecordedAlways == DomainSpecification => []TimeoutsAreRecorded
<1>1. DomainInit => Timed
  BY IngestAssumption DEF DomainInit, Init, Timed, Element
<1>2. Timed => TimeoutsAreRecorded
  BY DEF Timed, TimeoutsAreRecorded
<1> QED
  BY <1>1, <1>2, StepIsTimed, DomainInvariant, PTL DEF DomainSpecification
=============================================================================
