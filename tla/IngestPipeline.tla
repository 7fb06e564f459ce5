--------------------------- MODULE IngestPipeline ---------------------------
(***************************************************************************)
(* The branch build_streaming_pipeline wires for one domain, from the      *)
(* Pub/Sub read to the raw table, the dead-letter table and the combiner   *)
(* (framework.py: ParseMessage, DeduplicatePerKey, ValidateEvent,          *)
(* _InactivityWatcher's place in the graph, EnrichEvent,                   *)
(* StripInternalFields, _write_bigquery, KeyEvent).                        *)
(*                                                                         *)
(* An element waits at the transform that handles it next.  Elements are   *)
(* processed independently and in any order; a transform that raises makes *)
(* the runner retry the element where it is, for ever.  What matters of a  *)
(* message is its set of flaws, the reasons for which some transform would *)
(* not take it.                                                            *)
(***************************************************************************)
EXTENDS Integers, FiniteSets

CONSTANTS
  Message,         \* what Pub/Sub delivers: a delivery repeated is another message
  Synthetic,       \* events an _InactivityWatcher synthesizes
  DedupKey,        \* what dedup_key_fn may return
  DomainSpec,      \* the configurations considered, see SpecType
  Body,            \* the bodies considered, see BodyType
  DedupWindow      \* dedup_window_secs, in clock ticks

ASSUME IngestAssumption ==
  /\ Message \cap Synthetic = {} /\ IsFiniteSet(Message)
  /\ DedupWindow \in Nat \ {0}

Element == Message \cup Synthetic

(* The fields of a DomainSpec the wiring depends on: which optional stages  *)
(* there are, and whether validation has anything to require; and whether   *)
(* write_method is "STORAGE_WRITE_API".  A domain may be without any table, *)
(* see NamesNoTable in PipelineLaunch.                                      *)
SpecType == [dedup : BOOLEAN, envelope_required : BOOLEAN, payload_required : BOOLEAN,
             enforce_domain_match : BOOLEAN, detector : BOOLEAN,
             raw_table : BOOLEAN, enriched_table : BOOLEAN, dlq_table : BOOLEAN,
             storage_write : BOOLEAN]

(*   json            the bytes are not JSON                                  *)
(*   object          the JSON value is not an object                         *)
(*   dedup_key       dedup_key_fn raises on it                               *)
(*   envelope        a name in envelope_required is missing                  *)
(*   domain          its domain field names another domain                   *)
(*   payload_absent  payload is missing or falsy (null, "", [], 0)           *)
(*   payload_scalar  payload is a truthy value that is not an object         *)
(*   payload_field   a name in payload_required is missing                   *)
(*   detector_key    the detector's key_fn raises on it                      *)
(*   timestamp       a TIMESTAMP column holds a string that is no timestamp  *)
(*   key             the aggregation's key_fn raises on it                   *)
Flaw == {"json", "object", "dedup_key", "envelope", "domain", "payload_absent",
         "payload_scalar", "payload_field", "detector_key", "timestamp", "key"}

BodyType == [flaws : SUBSET Flaw, key : DedupKey]

ASSUME ConfigurationAssumption == DomainSpec \subseteq SpecType /\ Body \subseteq BodyType

VARIABLES
  spec,        \* the DomainSpec; fixed
  body,        \* body[e]; fixed
  at,          \* at[e]: the transform e waits at, "out" when none does any more
  seenFor,     \* seenFor[k]: ticks for which DeduplicatePerKey remembers k
  raw,         \* the elements with a row in raw_table
  keyed,       \* the elements handed to CombinePerKey
  dlq,         \* the rows of dlq_table: element and the stage it failed in
  duplicates,  \* the elements DeduplicatePerKey dropped
  raised,      \* history: the elements some transform has raised on
  windows      \* history: windows[k]: how many times k began to be remembered

vars == <<spec, body, at, seenFor, raw, keyed, dlq, duplicates, raised, windows>>
configuration == <<spec, body>>

Place == {"topic", "dedup", "validate", "detector", "enrich", "sink", "unborn", "out"}

Stage == {"parse", "validate", "enrich", "key"}

(* The type invariant: elements are where the wiring of                     *)
(* build_streaming_pipeline can take them, only messages are deduplicated,  *)
(* and no key is remembered for more than dedup_window_secs.                *)
TypeOK ==
  /\ spec \in SpecType
  /\ body \in [Element -> BodyType]
  /\ at \in [Element -> Place]
  /\ seenFor \in [DedupKey -> 0..DedupWindow]
  /\ raw \subseteq Element /\ keyed \subseteq Element
  /\ dlq \subseteq Element \X Stage
  /\ duplicates \subseteq Message /\ raised \subseteq Element
  /\ windows \in [DedupKey -> Nat]

Init ==
  /\ spec \in DomainSpec
  /\ body \in [Element -> Body]
  /\ \A e \in Synthetic : body[e].flaws \subseteq {"object", "envelope"}
  /\ at = [e \in Element |-> IF e \in Message THEN "topic" ELSE "unborn"]
  /\ seenFor = [k \in DedupKey |-> 0]
  /\ raw = {} /\ keyed = {} /\ dlq = {} /\ duplicates = {} /\ raised = {}
  /\ windows = [k \in DedupKey |-> 0]

-----------------------------------------------------------------------------
HasFlaw(e, flaw) == flaw \in body[e].flaws

Go(e, place) == at' = [at EXCEPT ![e] = place]

(* A failure tagged "dlq": a row, if the domain has a table for it.  All    *)
(* the stages' dlq outputs are flattened into the one table.                *)
Quarantine(e, stage) == dlq' = IF spec.dlq_table THEN dlq \cup {<<e, stage>>} ELSE dlq

(* The element leaves the main path. *)
ToDlq(e, stage) == Go(e, "out") /\ Quarantine(e, stage)

(* A transform without a try block raises: the element stays where it is. *)
Raise(e) == raised' = raised \cup {e} /\ UNCHANGED <<at, dlq>>

AfterParse == IF spec.dedup THEN "dedup" ELSE "validate"
AfterValidate == IF spec.detector THEN "detector" ELSE "enrich"

ParseMessage(e) ==
  /\ at[e] = "topic"
  /\ \/ HasFlaw(e, "json") /\ ToDlq(e, "parse")
     \/ ~HasFlaw(e, "json") /\ Go(e, AfterParse) /\ UNCHANGED dlq
  /\ UNCHANGED <<configuration, seenFor, raw, keyed, duplicates, raised, windows>>

(* The bare Map that applies dedup_key_fn. *)
DedupKeyRaises(e) ==
  /\ at[e] = "dedup"
  /\ HasFlaw(e, "dedup_key")
  /\ Raise(e)
  /\ UNCHANGED <<configuration, seenFor, raw, keyed, duplicates, windows>>

(* Mutants: a duplicate is passed on; a key is remembered too long. *)
DropDuplicatePasses(e) == Go(e, "validate") /\ UNCHANGED <<seenFor, windows, duplicates>>

RememberLonger(e) ==
  /\ seenFor' = [seenFor EXCEPT ![body[e].key] = DedupWindow + 1]
  /\ windows' = [windows EXCEPT ![body[e].key] = @ + 1]
  /\ Go(e, "validate")
  /\ UNCHANGED duplicates

DropDuplicate(e) ==
  /\ duplicates' = duplicates \cup {e}
  /\ Go(e, "out")
  /\ UNCHANGED <<seenFor, windows>>

Remember(e) ==
  /\ seenFor' = [seenFor EXCEPT ![body[e].key] = DedupWindow]
  /\ windows' = [windows EXCEPT ![body[e].key] = @ + 1]
  /\ Go(e, "validate")
  /\ UNCHANGED duplicates

(* DeduplicatePerKey drops a key it remembers and remembers a new one.      *)
Dedup(e) ==
  /\ at[e] = "dedup"
  /\ ~HasFlaw(e, "dedup_key")
  /\ \/ seenFor[body[e].key] > 0 /\ DropDuplicate(e)
     \/ seenFor[body[e].key] = 0 /\ Remember(e)
  /\ UNCHANGED <<configuration, raw, keyed, dlq, raised>>

(* `self.envelope_required - event.keys()` on a value that has no keys().   *)
ValidateRaises(e) ==
  /\ at[e] = "validate"
  /\ HasFlaw(e, "object")
  /\ Raise(e)
  /\ UNCHANGED <<configuration, seenFor, raw, keyed, duplicates, windows>>

EnvelopeOK(e) == spec.envelope_required => ~HasFlaw(e, "envelope")
DomainOK(e) == spec.enforce_domain_match => ~HasFlaw(e, "domain")
PayloadOK(e) == ~HasFlaw(e, "payload_scalar")
(* Mutant: an absent payload is not asked for its fields. *)
PayloadFieldsIfAny(e) == spec.payload_required => ~HasFlaw(e, "payload_field")

(* `event.get("payload") or {}`: an absent payload has no fields at all.    *)
PayloadFieldsOK(e) ==
  spec.payload_required => ~HasFlaw(e, "payload_field") /\ ~HasFlaw(e, "payload_absent")

Valid(e) == EnvelopeOK(e) /\ DomainOK(e) /\ PayloadOK(e) /\ PayloadFieldsOK(e)

ValidateEvent(e) ==
  /\ at[e] = "validate"
  /\ ~HasFlaw(e, "object")
  /\ \/ ~Valid(e) /\ ToDlq(e, "validate")
     \/ Valid(e) /\ Go(e, AfterValidate) /\ UNCHANGED dlq
  /\ UNCHANGED <<configuration, seenFor, raw, keyed, duplicates, raised, windows>>

(* The bare Map that applies the detector's key_fn. *)
DetectorKeyRaises(e) ==
  /\ at[e] = "detector"
  /\ HasFlaw(e, "detector_key")
  /\ Raise(e)
  /\ UNCHANGED <<configuration, seenFor, raw, keyed, duplicates, windows>>

(* Mutant of Watch: process() without `yield event`. *)
WatchSwallows(e) ==
  /\ at[e] = "detector"
  /\ ~HasFlaw(e, "detector_key")
  /\ Go(e, "out")
  /\ UNCHANGED <<configuration, seenFor, raw, keyed, dlq, duplicates, raised, windows>>

(* The watcher yields every event it is given (see InactivityWatcher). *)
Watch(e) ==
  /\ at[e] = "detector"
  /\ ~HasFlaw(e, "detector_key")
  /\ Go(e, "enrich")
  /\ UNCHANGED <<configuration, seenFor, raw, keyed, dlq, duplicates, raised, windows>>

(* Mutant of Synthesize: watched.timeout is not flattened in. *)
SynthesizeLoses(e) ==
  /\ spec.detector
  /\ at[e] = "unborn"
  /\ Go(e, "out")
  /\ UNCHANGED <<configuration, seenFor, raw, keyed, dlq, duplicates, raised, windows>>

(* A timeout event is flattened in behind the watcher. *)
Synthesize(e) ==
  /\ spec.detector
  /\ at[e] = "unborn"
  /\ Go(e, "enrich")
  /\ UNCHANGED <<configuration, seenFor, raw, keyed, dlq, duplicates, raised, windows>>

EnrichEvent(e) ==
  /\ at[e] = "enrich"
  /\ \/ HasFlaw(e, "object") /\ ToDlq(e, "enrich")
     \/ ~HasFlaw(e, "object") /\ Go(e, "sink") /\ UNCHANGED dlq
  /\ UNCHANGED <<configuration, seenFor, raw, keyed, duplicates, raised, windows>>

CoercionFails(e) == spec.raw_table /\ spec.storage_write /\ HasFlaw(e, "timestamp")

(* Mutant of CoerceRaises: the branches commit one by one. *)
CoerceRaisesAlone(e) ==
  /\ at[e] = "sink"
  /\ CoercionFails(e)
  /\ Raise(e)
  /\ keyed' = keyed \cup {e}
  /\ UNCHANGED <<configuration, seenFor, raw, duplicates, windows>>

(* _coerce_timestamps_for_schema in the bare Map before the raw write: the  *)
(* bundle fails, and what the other branch made of the element with it.     *)
CoerceRaises(e) ==
  /\ at[e] = "sink"
  /\ CoercionFails(e)
  /\ Raise(e)
  /\ UNCHANGED <<configuration, seenFor, raw, keyed, duplicates, windows>>

(* Mutant of AggregationBranch: keyed.dlq is not flattened into the dlq. *)
AggregationBranchWithoutDlq(e) ==
  /\ UNCHANGED dlq
  /\ keyed' = IF spec.enriched_table /\ ~HasFlaw(e, "key") THEN keyed \cup {e} ELSE keyed

(* KeyEvent, if there is an aggregation. *)
AggregationBranch(e) ==
  IF ~spec.enriched_table THEN UNCHANGED <<keyed, dlq>>
  ELSE \/ HasFlaw(e, "key") /\ Quarantine(e, "key") /\ UNCHANGED keyed
       \/ ~HasFlaw(e, "key") /\ keyed' = keyed \cup {e} /\ UNCHANGED dlq

(* The enriched event goes down whichever branches there are.               *)
WriteAndKey(e) ==
  /\ at[e] = "sink"
  /\ ~CoercionFails(e)
  /\ Go(e, "out")
  /\ raw' = IF spec.raw_table THEN raw \cup {e} ELSE raw
  /\ AggregationBranch(e)
  /\ UNCHANGED <<configuration, seenFor, duplicates, raised, windows>>

(* Processing time passes; a key whose time is up is forgotten. *)
Forget ==
  /\ seenFor' = [k \in DedupKey |-> IF seenFor[k] > 0 THEN seenFor[k] - 1 ELSE 0]
  /\ UNCHANGED <<configuration, at, raw, keyed, dlq, duplicates, raised, windows>>

Tick == (\E k \in DedupKey : seenFor[k] > 0) /\ Forget

Raises(e) ==
  DedupKeyRaises(e) \/ ValidateRaises(e) \/ DetectorKeyRaises(e) \/ CoerceRaises(e)

Proceeds(e) ==
  \/ ParseMessage(e) \/ Dedup(e) \/ ValidateEvent(e) \/ Watch(e)
  \/ EnrichEvent(e) \/ WriteAndKey(e)

Next ==
  \/ \E e \in Element : Proceeds(e) \/ Raises(e)
  \/ \E e \in Synthetic : Synthesize(e)
  \/ Tick

Spec == Init /\ [][Next]_vars

(* The runner gets round to every element that a transform can take.  It    *)
(* need not, but may, wait for a duplicate until its key is forgotten.      *)
FairSpec == Spec /\ \A e \in Element : WF_vars(Proceeds(e))

-----------------------------------------------------------------------------
Failed(e, stages) == \E s \in stages : <<e, s>> \in dlq

(* Exactly one fate.  With a dlq_table, an element that has left the        *)
(* pipeline was dropped as a duplicate, or is in every table the domain     *)
(* feeds, or has a dlq row for each branch it is missing from; never two of *)
(* these for the same branch.                                               *)
ExactlyOneFate ==
  spec.dlq_table =>
    \A e \in Element : at[e] = "out" =>
      LET early == Failed(e, {"parse", "validate", "enrich"})
          late  == Failed(e, {"key"})
      IN  /\ e \in duplicates => e \notin raw \cup keyed /\ ~early /\ ~late
          /\ e \notin duplicates =>
               /\ spec.raw_table => (e \in raw <=> ~early)
               /\ spec.enriched_table => (e \in keyed <=> ~early /\ ~late)
               /\ early => ~late

(* What the tables can rely on: a message that reached the raw table or the *)
(* combiner is an object that has what its domain declares as required and, *)
(* where that is enforced, belongs to it (ValidateEvent, on every path).    *)
OnlyValidEventsPass ==
  \A e \in (raw \cup keyed) \cap Message :
    /\ body[e].flaws \cap {"json", "object", "payload_scalar"} = {}
    /\ spec.envelope_required => "envelope" \notin body[e].flaws
    /\ spec.enforce_domain_match => "domain" \notin body[e].flaws
    /\ spec.payload_required => body[e].flaws \cap {"payload_field", "payload_absent"} = {}

(* With deduplication, an identity has at most one raw row, and is combined *)
(* at most once, for each time DeduplicatePerKey began to remember it: a    *)
(* redelivery within dedup_window_secs adds nothing.                        *)
OneRowPerWindow ==
  spec.dedup =>
    \A k \in DedupKey, table \in {raw, keyed} :
      Cardinality({e \in table \cap Message : body[e].key = k}) <= windows[k]

(* An element on which a bare Map, or ValidateEvent, raised leaves no trace *)
(* in any table, not even in the one meant for bad elements: the retries    *)
(* raise again.                                                             *)
PoisonLeavesNoTrace ==
  \A e \in raised :
    /\ at[e] # "out"
    /\ e \notin raw \cup keyed \cup duplicates
    /\ ~Failed(e, Stage)

Twins(e) == {m \in Message : body[m] = body[e]}

(* Deduplication loses nothing: if every message with an identity is a copy *)
(* of one flawless event, and all its copies have left the pipeline, one of *)
(* them has a row.  What makes DeduplicatePerKey remember a key and then    *)
(* fails would take the good copies with it; a copy of itself never does.   *)
DedupLosesNothing ==
  spec.raw_table =>
    \A e \in Message :
      /\ body[e].flaws = {}
      /\ \A m \in Message : "json" \in body[m].flaws \/ body[m].key # body[e].key \/ m \in Twins(e)
      /\ \A m \in Twins(e) : at[m] = "out"
      => Twins(e) \cap raw # {}

(* "a bad element is quarantined ... and everything else keeps flowing"     *)
(* (docs/how-the-pipeline-works.md:110-112): every message leaves the       *)
(* pipeline one way or another.                                             *)
BadElementsAreQuarantined ==
  \A e \in Message : <>(at[e] = "out")
=============================================================================
