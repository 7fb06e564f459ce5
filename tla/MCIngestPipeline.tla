-------------------------- MODULE MCIngestPipeline --------------------------
(***************************************************************************)
(* IngestPipeline with bodies that have one flaw, or two whose order of    *)
(* discovery matters, and with the shapes of DomainSpec that differ in     *)
(* their branches.                                                         *)
(***************************************************************************)
EXTENDS IngestPipeline

Clean == {[flaws |-> {}, key |-> k] : k \in DedupKey}

(* What each transform can object to. *)
MCBody ==
  Clean \cup
  {[flaws |-> f, key |-> CHOOSE k \in DedupKey : TRUE] :
     f \in {{x} : x \in Flaw}
           \cup {{"object", "dedup_key"}, {"envelope", "dedup_key"},
                 {"payload_absent", "key"}, {"timestamp", "key"}}}

FullSpec == [dedup |-> TRUE, envelope_required |-> TRUE, payload_required |-> TRUE,
             enforce_domain_match |-> TRUE, detector |-> TRUE,
             raw_table |-> TRUE, enriched_table |-> TRUE, dlq_table |-> TRUE,
             storage_write |-> TRUE]

(* The second view of a shared topic, as customer_360 and applicant_360.    *)
SecondView == [FullSpec EXCEPT !.enforce_domain_match = FALSE, !.raw_table = FALSE]

(* A domain that sets only what it must. *)
BareSpec == [d \in DOMAIN FullSpec |-> d = "raw_table"]

(* One that declares nothing to validate. *)
LenientSpec == [FullSpec EXCEPT !.envelope_required = FALSE, !.payload_required = FALSE]

MCSpecs == {FullSpec, SecondView, BareSpec, LenientSpec,
            [FullSpec EXCEPT !.dedup = FALSE],
            [FullSpec EXCEPT !.storage_write = FALSE],
            [FullSpec EXCEPT !.enriched_table = FALSE, !.detector = FALSE]}

MCFullSpec == {FullSpec}
=============================================================================
