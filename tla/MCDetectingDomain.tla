------------------------- MODULE MCDetectingDomain -------------------------
(***************************************************************************)
(* DetectingDomain with one session, which one identity opens and another  *)
(* closes, and with at most one flawed message.                            *)
(***************************************************************************)
EXTENDS DetectingDomain, MCIngestPipeline

CONSTANTS opening, closing, session, sound

MCSessionOf == [k \in DedupKey |-> session]

MCEventOf == [k \in DedupKey |-> IF k = opening THEN "open" ELSE "close"]

MCReduce ==
  [se \in {"open", "closed", NoState} \X {"open", "close"} |->
     IF se[2] = "open" THEN "open" ELSE "closed"]

(* Any message may have any flaw, with any identity. *)
MCDomainBody == [flaws : {b.flaws : b \in MCBody}, key : DedupKey]

(* One timeout event is what timeout_event_fn should build, the other may   *)
(* be no event at all.  Bundles matter only where a coercion fails.         *)
MCDomainInit ==
  /\ DomainInit
  /\ Cardinality({m \in Message : body[m].flaws # {}}) <= 1
  /\ \A s \in Synthetic : body[s].key = opening /\ body[s].flaws # {"envelope"}
  /\ body[sound].flaws = {}
  /\ fused => spec.detector /\ \E m \in Message : CoercionFails(m)

MCFairDomain == MCDomainInit /\ [][DomainNext]_domainVars /\ DomainFairness
=============================================================================
