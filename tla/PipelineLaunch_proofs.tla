------------------------ MODULE PipelineLaunch_proofs ------------------------
(***************************************************************************)
(* Proofs about PipelineLaunch: for any DomainSpecs, however many, and any *)
(* way to launch them, what comes up is complete, the first error is the   *)
(* one that surfaces, and incidents are failures of the pipeline.          *)
(***************************************************************************)
EXTENDS PipelineLaunch, TLAPS

N == Len(launch.domains)

-----------------------------------------------------------------------------
(* The parts of the inductive invariant. *)

(* Where the process is, and what it has done before. *)
Progress ==
  /\ launch \in LaunchType /\ N \in Nat \ {0}
  /\ phase \in Phase
  /\ at \in 1..(N + 1)
  /\ phase \in {"defining", "wiring"} => at <= N
  /\ phase \in {"notifier", "parsing", "checking"} => at = 1
  /\ phase \in {"submitting", "waiting"} => at = N + 1
  /\ job \in {"none", "up", "failed", "done", "stopped"}
  /\ phase \in {"defining", "notifier", "parsing", "checking", "wiring", "submitting"}
       => job = "none"
  /\ phase = "waiting" => job # "none"
  /\ job # "none" => at = N + 1

(* Which errors there are, and when the process ends with which. *)
Errors ==
  /\ cause \in Raised \cup {"none"} /\ exit \in Raised \cup {"none", "ok"}
  /\ phase \notin {"caught", "ended"} => cause = "none" /\ exit = "none"
  /\ phase = "caught" => cause \in {"ValueError", "BeamError"} /\ exit = "none"
  /\ phase = "ended" => exit = (IF cause = "none" THEN "ok" ELSE cause)
  /\ exit = "ok" => job = "done"

(* No DomainSpec that was refused gets into the hook. *)
Defined ==
  /\ phase = "defining" => \A i \in 1..(at - 1) : ~Rejected(launch.domains[i])
  /\ phase \notin {"defining", "ended"} \/ job # "none" \/ incidents # 0
       => \A i \in 1..N : ~Rejected(launch.domains[i])
  /\ phase \in {"checking", "wiring", "submitting", "waiting", "caught"} \/ job # "none"
       => /\ launch.project
          /\ launch.runner = "DataflowRunner" => launch.packaged

Counted ==
  /\ phase # "ended" => incidents = 0
  /\ incidents \in {0, 1}
  /\ incidents = 1 => /\ launch.servicenow = "full" /\ launch.project
                      /\ cause \in {"ValueError", "BeamError"}

(* While domains are wired, and ever after if a job came of it, just the    *)
(* links of the domains before "at" are wired.                              *)
Wired ==
  /\ \A w \in wired : w[1] \in 1..(at - 1)
  /\ phase \in {"defining", "notifier", "parsing", "checking"} => wired = {}
  /\ phase \in {"wiring", "submitting", "waiting"} \/ job # "none" =>
       /\ ~Unbuildable
       /\ \A i \in 1..(at - 1) : LinksOf(i) = Links(launch.domains[i])

IInv == Progress /\ Errors /\ Defined /\ Counted /\ Wired

-----------------------------------------------------------------------------
LEMMA InitEstablishesInvariant == Init => IInv
<1> SUFFICES ASSUME Init PROVE IInv
  OBVIOUS
<1> USE DEF Init, N
<1>1. Progress
  BY LaunchAssumption DEF Progress, Phase, LaunchType
<1>2. Errors
  BY DEF Errors, Raised
<1>3. Defined /\ Counted
  BY DEF Defined, Counted
<1>4. Wired
  BY DEF Wired
<1> QED
  BY <1>1, <1>2, <1>3, <1>4 DEF IInv

(* Nothing but Define and Wire moves "at" or the steps. *)
LEMMA StepKeepsProgress ==
  ASSUME IInv, [Next]_vars
  PROVE  Progress'
<1> USE DEF Progress, N, Phase
<1>0. Progress /\ Errors
  BY DEF IInv
<1>1. CASE Define
  BY <1>0, <1>1 DEF Define
<1>2. CASE DefineRaises
  BY <1>0, <1>2 DEF DefineRaises, EndsWith
<1>3. CASE BuildNotifier \/ Parse
  BY <1>0, <1>3 DEF BuildNotifier, Parse, EndsWith
<1>4. CASE Check
  BY <1>0, <1>4 DEF Check, Throw, EndsWith
<1>5. CASE Wire
  BY <1>0, <1>5 DEF Wire, Throw, EndsWith, AfterDomain
<1>6. CASE Submit
  BY <1>0, <1>6 DEF Submit, Throw, EndsWith
<1>7. CASE JobEnds
  BY <1>0, <1>7 DEF JobEnds
<1>8. CASE Waited
  BY <1>0, <1>8 DEF Waited, Throw, EndsWith
<1>9. CASE Interrupt
  BY <1>0, <1>9 DEF Interrupt, Throw, EndsWith
<1>10. CASE Report
  BY <1>0, <1>10 DEF Report
<1>11. CASE UNCHANGED vars
  BY <1>0, <1>11 DEF vars
<1> QED
  BY <1>1, <1>2, <1>3, <1>4, <1>5, <1>6, <1>7, <1>8, <1>9, <1>10, <1>11 DEF Next

LEMMA StepKeepsErrors ==
  ASSUME IInv, [Next]_vars
  PROVE  Errors'
<1> USE DEF Errors, Raised
<1>0. Progress /\ Errors
  BY DEF IInv
<1>1. CASE Define \/ JobEnds
  BY <1>0, <1>1 DEF Define, JobEnds
<1>2. CASE DefineRaises \/ BuildNotifier \/ Parse
  BY <1>0, <1>2 DEF DefineRaises, BuildNotifier, Parse, EndsWith
<1>3. CASE Check
  BY <1>0, <1>3 DEF Check, Throw, EndsWith
<1>4. CASE Wire
  BY <1>0, <1>4 DEF Wire, Throw, EndsWith, AfterDomain
<1>5. CASE Submit
  BY <1>0, <1>5 DEF Submit, Throw, EndsWith
<1>6. CASE Waited
  BY <1>0, <1>6 DEF Waited, Throw, EndsWith
<1>7. CASE Interrupt
  BY <1>0, <1>7 DEF Interrupt, Throw, EndsWith
<1>8. CASE Report
  BY <1>0, <1>8 DEF Report
<1>9. CASE UNCHANGED vars
  BY <1>0, <1>9 DEF vars
<1> QED
  BY <1>1, <1>2, <1>3, <1>4, <1>5, <1>6, <1>7, <1>8, <1>9 DEF Next

(* What is defined stays defined: the launch is fixed. *)
LEMMA StepKeepsDefined ==
  ASSUME IInv, [Next]_vars
  PROVE  Defined'
<1> USE DEF Defined, N
<1>0. Progress /\ Errors /\ Defined /\ Counted
  BY DEF IInv
<1>1. CASE Define
  BY <1>0, <1>1 DEF Define, current, Progress, Counted
<1>2. CASE DefineRaises
  BY <1>0, <1>2 DEF DefineRaises, EndsWith, Progress, Counted
<1>3. CASE BuildNotifier \/ Parse
  BY <1>0, <1>3 DEF BuildNotifier, Parse, EndsWith, Progress, Counted, LaunchType
<1>4. CASE Check
  BY <1>0, <1>4 DEF Check, Throw, EndsWith
<1>5. CASE Wire
  BY <1>0, <1>5 DEF Wire, Throw, EndsWith, AfterDomain
<1>6. CASE Submit
  BY <1>0, <1>6 DEF Submit, Throw, EndsWith
<1>7. CASE JobEnds \/ Waited
  BY <1>0, <1>7 DEF JobEnds, Waited, Throw, EndsWith
<1>8. CASE Interrupt
  BY <1>0, <1>8 DEF Interrupt, Throw, EndsWith
<1>9. CASE Report
  BY <1>0, <1>9 DEF Report
<1>10. CASE UNCHANGED vars
  BY <1>0, <1>10 DEF vars
<1> QED
  BY <1>1, <1>2, <1>3, <1>4, <1>5, <1>6, <1>7, <1>8, <1>9, <1>10 DEF Next

LEMMA StepKeepsCounted ==
  ASSUME IInv, [Next]_vars
  PROVE  Counted'
<1> USE DEF Counted
<1>0. Progress /\ Errors /\ Defined /\ Counted
  BY DEF IInv
<1>1. CASE Report
  BY <1>0, <1>1 DEF Report, Errors, Defined
<1>2. CASE Define \/ DefineRaises \/ BuildNotifier \/ Parse
  BY <1>0, <1>2 DEF Define, DefineRaises, BuildNotifier, Parse, EndsWith
<1>3. CASE Check \/ Submit
  BY <1>0, <1>3 DEF Check, Submit, Throw, EndsWith
<1>4. CASE Wire
  BY <1>0, <1>4 DEF Wire, Throw, EndsWith, AfterDomain
<1>5. CASE JobEnds \/ Waited \/ Interrupt
  BY <1>0, <1>5 DEF JobEnds, Waited, Interrupt, Throw, EndsWith
<1>6. CASE UNCHANGED vars
  BY <1>0, <1>6 DEF vars
<1> QED
  BY <1>1, <1>2, <1>3, <1>4, <1>5, <1>6 DEF Next

(* The links of one more domain are wired. *)
LEMMA WireAddsLinks ==
  ASSUME IInv, Wire, ~WiringFails
  PROVE  Wired'
<1> DEFINE new == {<<at, link>> : link \in Links(current)}
<1>1. /\ Progress /\ Wired /\ phase = "wiring" /\ at \in 1..N
      /\ wired' = wired \cup new /\ at' = at + 1 /\ launch' = launch
      /\ phase' \in {"wiring", "submitting"}
  BY DEF IInv, Progress, Wire, AfterDomain
<1>2. Unbuildable' <=> Unbuildable
  BY <1>1 DEF Unbuildable, Storage
<1>3. N \in Nat /\ at \in Nat /\ at' - 1 = at
  BY <1>1 DEF Progress
<1>4. \A w \in wired' : w[1] \in 1..(at' - 1)
  BY <1>1, <1>3 DEF Wired
<1>5. ASSUME NEW i \in 1..(at' - 1)
      PROVE  LinksOf(i)' = Links(launch.domains[i])
  <2>1. CASE i = at
    <3>1. \A v \in wired : v[1] # at
      BY <1>1, <1>3 DEF Wired
    <3>2. {v \in wired' : v[1] = i} = new
      BY <1>1, <2>1, <3>1
    <3>3. LinksOf(i)' = {w[2] : w \in new}
      BY <3>2 DEF LinksOf
    <3>4. {w[2] : w \in new} = Links(current)
      <4>1. \A link : <<at, link>>[2] = link
        OBVIOUS
      <4>2. \A link : (\E w \in new : link = w[2]) <=> link \in Links(current)
        BY <4>1
      <4> HIDE DEF new
      <4> QED
        BY <4>2
    <3> QED
      BY <2>1, <3>3, <3>4 DEF current
  <2>2. CASE i # at
    <3>1. i \in 1..(at - 1)
      BY <1>3, <2>2
    <3>2. {v \in wired' : v[1] = i} = {v \in wired : v[1] = i}
      BY <1>1, <2>2
    <3>3. LinksOf(i)' = LinksOf(i)
      BY <3>2 DEF LinksOf
    <3> QED
      BY <1>1, <3>1, <3>3 DEF Wired
  <2> QED
    BY <2>1, <2>2
<1> QED
  BY <1>1, <1>2, <1>4, <1>5 DEF Wired

LEMMA StepKeepsWired ==
  ASSUME IInv, [Next]_vars
  PROVE  Wired'
<1>0. Progress /\ Wired
  BY DEF IInv
<1>1. CASE Define
  BY <1>0, <1>1 DEF Define, Wired, Progress, N
<1>2. CASE Check
  <2>1. Unbuildable' <=> Unbuildable
    BY <1>2 DEF Check, Unbuildable, Storage
  <2> QED
    BY <1>0, <1>2, <2>1 DEF Check, Throw, EndsWith, Wired, Progress, N
<1>3. CASE Wire
  <2>1. CASE WiringFails
    BY <1>0, <1>3, <2>1 DEF Wire, Throw, EndsWith, Wired, Progress
  <2> QED
    BY <2>1, <1>3, WireAddsLinks
<1>4. CASE \/ DefineRaises \/ BuildNotifier \/ Parse \/ Submit \/ JobEnds \/ Waited
           \/ Interrupt \/ Report \/ UNCHANGED vars
  <2>1. UNCHANGED <<launch, at, wired>>
    BY <1>4 DEF DefineRaises, BuildNotifier, Parse, Submit, JobEnds, Waited, Interrupt,
                Report, vars
  <2>2. Unbuildable' <=> Unbuildable
    BY <2>1 DEF Unbuildable, Storage
  <2>3. phase' \in {"defining", "notifier", "parsing", "checking"} => wired = {}
    BY <1>0, <1>4 DEF Wired, DefineRaises, BuildNotifier, Parse, Submit, JobEnds, Waited,
                Interrupt, Report, vars, Throw, EndsWith
  <2>4. phase' \in {"wiring", "submitting", "waiting"} \/ job' # "none"
          => phase \in {"wiring", "submitting", "waiting"} \/ job # "none"
    BY <1>0, <1>4 DEF DefineRaises, BuildNotifier, Parse, Submit, JobEnds, Waited,
                Interrupt, Report, vars, Throw, EndsWith
  <2> QED
    BY <1>0, <2>1, <2>2, <2>3, <2>4 DEF Wired, LinksOf
<1> QED
  BY <1>1, <1>2, <1>3, <1>4 DEF Next

LEMMA InvariantHolds == Spec => []IInv
<1>1. IInv /\ [Next]_vars => IInv'
  BY StepKeepsProgress, StepKeepsErrors, StepKeepsDefined, StepKeepsCounted, StepKeepsWired
     DEF IInv
<1> QED
  BY <1>1, InitEstablishesInvariant, PTL DEF Spec

-----------------------------------------------------------------------------
(* Type correctness of a launch: steps only of domains that were reached,   *)
(* and a job only when all of them were wired.                              *)
THEOREM TypeCorrect == Spec => []TypeOK
<1>1. IInv => TypeOK
  BY DEF IInv, TypeOK, Progress, Errors, Counted, Wired, N
<1> QED
  BY <1>1, InvariantHolds, PTL

(* run_with_incident_on_failure never masks the error it handles, and main  *)
(* returns normally only if the pipeline finished.                          *)
THEOREM OriginalErrorAlwaysSurfaces == Spec => []OriginalErrorSurfaces
<1>1. IInv => OriginalErrorSurfaces
  BY DEF IInv, Errors, OriginalErrorSurfaces
<1> QED
  BY <1>1, InvariantHolds, PTL

(* At most one incident a launch, and only for an Exception inside the hook *)
(* (health.py:43-76).                                                       *)
THEOREM IncidentsAreAlwaysFailures == Spec => []IncidentsAreFailures
<1>1. IInv => IncidentsAreFailures
  BY DEF IInv, Progress, Defined, Counted, IncidentsAreFailures, N, LaunchType
<1> QED
  BY <1>1, InvariantHolds, PTL

-----------------------------------------------------------------------------
(* What __post_init__ grants of a DomainSpec it does not refuse: all of an  *)
(* aggregation or nothing that needs one.                                   *)
LEMMA AcceptedIsAllOrNothing ==
  ASSUME NEW s \in DomainSpec, ~Rejected(s)
  PROVE  \/ Truthy(s.enriched_table) /\ s.key_fn /\ s.aggregate_fn
         \/ /\ ~Truthy(s.enriched_table) /\ ~s.key_fn /\ ~s.aggregate_fn
            /\ ~s.alert_evaluator /\ ~s.key_field_names /\ ~HasWindowingConfig(s)
<1>1. AllAgg(s) <=> Truthy(s.enriched_table) /\ s.key_fn /\ s.aggregate_fn
  <2>1. AllAgg(s) <=> HasAgg(s)[1] /\ HasAgg(s)[2] /\ HasAgg(s)[3]
    BY DEF AllAgg
  <2> QED
    BY <2>1 DEF HasAgg
<1>2. AnyAgg(s) <=> Truthy(s.enriched_table) \/ s.key_fn \/ s.aggregate_fn
  <2>1. AnyAgg(s) <=> HasAgg(s)[1] \/ HasAgg(s)[2] \/ HasAgg(s)[3]
    BY DEF AnyAgg
  <2> QED
    BY <2>1 DEF HasAgg
<1> QED
  BY <1>1, <1>2 DEF Rejected

(* The links of a domain one by one, each with the setting it depends on.   *)
LEMMA LinksAre ==
  ASSUME NEW s
  PROVE  \A link : link \in Links(s) <=>
           \/ link = Ok("Read", "Parse")
           \/ /\ s.dedup_key_fn
              /\ link \in {Ok("Parse", "DedupKey"), Ok("DedupKey", "Dedup"),
                           Ok("Dedup", "DedupUnkey"), Ok("DedupUnkey", "Validate")}
           \/ ~s.dedup_key_fn /\ link = Ok("Parse", "Validate")
           \/ /\ s.inactivity_detector
              /\ link \in {Ok("Validate", "InactivityKey"), Ok("InactivityKey", "InactivityWatch"),
                           Ok("InactivityWatch", "InactivityFlatten"),
                           <<"InactivityWatch", "timeout", "InactivityFlatten">>,
                           Ok("InactivityFlatten", "Enrich")}
           \/ ~s.inactivity_detector /\ link = Ok("Validate", "Enrich")
           \/ Truthy(s.raw_table) /\ link \in {Ok("Enrich", "Strip"), Ok("Strip", "WriteRaw")}
           \/ Truthy(s.enriched_table) /\ link \in Aggregation
           \/ Truthy(s.enriched_table) /\ s.alert_evaluator /\ link \in Alerting
           \/ Truthy(s.dlq_table) /\ link \in DeadLetters(s)
  BY DEF Links, When

LEMMA DeadLettersAre ==
  ASSUME NEW s
  PROVE  \A link : link \in DeadLetters(s) <=>
           \/ link = Ok("DlqFlatten", "WriteDlq")
           \/ \E step \in Fallible :
                /\ link = <<step, "dlq", "DlqFlatten">>
                /\ step \in {"KV", "AttachKeyWindow"} => Truthy(s.enriched_table)
                /\ step = "Alerts" => Truthy(s.enriched_table) /\ s.alert_evaluator
  BY DEF DeadLetters, When, Fallible

(* Which of the optional steps a domain has, ...                            *)
LEMMA OptionalSteps ==
  ASSUME NEW i, NEW s, LinksOf(i) = Links(s)
  PROVE  /\ Has(i, "Combine") <=> Truthy(s.enriched_table)
         /\ Has(i, "WriteAgg") <=> Truthy(s.enriched_table)
         /\ Has(i, "WriteAlerts") <=> Truthy(s.enriched_table) /\ s.alert_evaluator
         /\ Has(i, "WriteRaw") <=> Truthy(s.raw_table)
         /\ Has(i, "InactivityWatch") <=> s.inactivity_detector
<1>1. ASSUME NEW link \in Links(s), NEW step \in {link[1], link[3]}
      PROVE  /\ step \in {"Combine", "WriteAgg"} => Truthy(s.enriched_table)
             /\ step = "WriteAlerts" => Truthy(s.enriched_table) /\ s.alert_evaluator
             /\ step = "WriteRaw" => Truthy(s.raw_table)
             /\ step = "InactivityWatch" => s.inactivity_detector
  BY <1>1, LinksAre, DeadLettersAre DEF Aggregation, Alerting, Ok, Fallible
<1>2. ASSUME Truthy(s.enriched_table) PROVE Has(i, "Combine") /\ Has(i, "WriteAgg")
  <2>1. Ok("KV", "Combine") \in Links(s) /\ Ok("AttachKeyWindow", "WriteAgg") \in Links(s)
    BY <1>2, LinksAre DEF Aggregation
  <2> QED
    BY <2>1 DEF Has, Ok
<1>3. ASSUME Truthy(s.enriched_table), s.alert_evaluator PROVE Has(i, "WriteAlerts")
  <2>1. Ok("Alerts", "WriteAlerts") \in Links(s)
    BY <1>3, LinksAre DEF Alerting
  <2> QED
    BY <2>1 DEF Has, Ok
<1>4. ASSUME Truthy(s.raw_table) PROVE Has(i, "WriteRaw")
  <2>1. Ok("Strip", "WriteRaw") \in Links(s)
    BY <1>4, LinksAre
  <2> QED
    BY <2>1 DEF Has, Ok
<1>5. ASSUME s.inactivity_detector PROVE Has(i, "InactivityWatch")
  <2>1. Ok("InactivityKey", "InactivityWatch") \in Links(s)
    BY <1>5, LinksAre
  <2> QED
    BY <2>1 DEF Has, Ok
<1>6. \A step : Has(i, step) <=> \E link \in Links(s) : step \in {link[1], link[3]}
  BY DEF Has
<1> QED
  BY <1>1, <1>2, <1>3, <1>4, <1>5, <1>6

(* ... what feeds validation and enrichment, ...                            *)
LEMMA Feeders ==
  ASSUME NEW i, NEW s, LinksOf(i) = Links(s)
  PROVE  /\ s.dedup_key_fn => OnlyFedBy(i, "Validate", "DedupUnkey")
         /\ s.inactivity_detector => OnlyFedBy(i, "Enrich", "InactivityFlatten")
<1>1. ASSUME NEW link \in Links(s)
      PROVE  /\ s.dedup_key_fn /\ link[3] = "Validate" => link[1] = "DedupUnkey"
             /\ s.inactivity_detector /\ link[3] = "Enrich" => link[1] = "InactivityFlatten"
  BY LinksAre, DeadLettersAre DEF Aggregation, Alerting, Ok, Fallible
<1>2. ASSUME s.dedup_key_fn PROVE Has(i, "DedupUnkey")
  <2>1. Ok("DedupUnkey", "Validate") \in Links(s)
    BY <1>2, LinksAre
  <2> QED
    BY <2>1 DEF Has, Ok
<1>3. ASSUME s.inactivity_detector PROVE Has(i, "InactivityFlatten")
  <2>1. Ok("InactivityFlatten", "Enrich") \in Links(s)
    BY <1>3, LinksAre
  <2> QED
    BY <2>1 DEF Has, Ok
<1> QED
  BY <1>1, <1>2, <1>3 DEF OnlyFedBy

(* ... where what it passes on goes, ...                                    *)
LEMMA NothingIsDropped ==
  ASSUME NEW i, NEW s, LinksOf(i) = Links(s), NEW link \in Links(s)
  PROVE  \/ link[3] \in {"WriteRaw", "WriteAgg", "WriteAlerts", "WriteDlq"}
         \/ Used(i, link[3], "ok")
         \/ link[3] = "Enrich" /\ NamesNoTable(s)
<1> DEFINE GoesOn(step) == \E b : Ok(step, b) \in Links(s)
<1>1. \A step : GoesOn(step) => Used(i, step, "ok")
  BY DEF Used, Ok
<1>2. /\ GoesOn("Parse") /\ GoesOn("Validate")
      /\ s.dedup_key_fn => GoesOn("DedupKey") /\ GoesOn("Dedup") /\ GoesOn("DedupUnkey")
      /\ s.inactivity_detector => /\ GoesOn("InactivityKey") /\ GoesOn("InactivityWatch")
                                  /\ GoesOn("InactivityFlatten")
      /\ Truthy(s.raw_table) => GoesOn("Enrich") /\ GoesOn("Strip")
      /\ Truthy(s.enriched_table) => /\ GoesOn("Enrich") /\ GoesOn("Window") /\ GoesOn("KV")
                                     /\ GoesOn("Combine") /\ GoesOn("AttachKeyWindow")
      /\ Truthy(s.enriched_table) /\ s.alert_evaluator => GoesOn("Alerts")
      /\ Truthy(s.dlq_table) => GoesOn("DlqFlatten")
  BY LinksAre, DeadLettersAre DEF Aggregation, Alerting
<1> HIDE DEF GoesOn
<1>3. \/ link[3] \in {"WriteRaw", "WriteAgg", "WriteAlerts", "WriteDlq"}
      \/ GoesOn(link[3])
      \/ link[3] = "Enrich" /\ NamesNoTable(s)
  BY <1>2, LinksAre, DeadLettersAre DEF Aggregation, Alerting, Ok, NamesNoTable
<1> QED
  BY <1>1, <1>3

(* ... and where its timeouts and its failures go.                          *)
LEMMA SideOutputs ==
  ASSUME NEW i, NEW s, LinksOf(i) = Links(s)
  PROVE  /\ s.inactivity_detector => Used(i, "InactivityWatch", "timeout")
         /\ Truthy(s.dlq_table) =>
              \A step \in Fallible : Has(i, step) => Used(i, step, "dlq")
<1>1. ASSUME s.inactivity_detector PROVE Used(i, "InactivityWatch", "timeout")
  <2>1. <<"InactivityWatch", "timeout", "InactivityFlatten">> \in Links(s)
    BY <1>1, LinksAre
  <2> QED
    BY <2>1 DEF Used
<1>2. ASSUME Truthy(s.dlq_table), NEW step \in Fallible, Has(i, step)
      PROVE  Used(i, step, "dlq")
  <2>1. PICK link \in Links(s) : step \in {link[1], link[3]}
    BY <1>2 DEF Has
  <2>2. /\ step \in {"KV", "AttachKeyWindow"} => Truthy(s.enriched_table)
        /\ step = "Alerts" => Truthy(s.enriched_table) /\ s.alert_evaluator
    BY <1>2, <2>1, LinksAre, DeadLettersAre DEF Aggregation, Alerting, Ok, Fallible
  <2>3. <<step, "dlq", "DlqFlatten">> \in Links(s)
    BY <1>2, <2>2, LinksAre, DeadLettersAre
  <2> QED
    BY <2>3 DEF Used
<1> QED
  BY <1>1, <1>2

(* Whatever the DomainSpecs and the call: in a pipeline that comes up every *)
(* setting has its effect, every step what it needs, and no output is lost, *)
(* but that of a domain that names no table (the checks of                  *)
(* framework.py:349-383 and 858-880, against the wiring of 901-994).        *)
THEOREM UpAlwaysMeansComplete == Spec => []UpMeansComplete
<1>1. IInv => UpMeansComplete
  <2> SUFFICES ASSUME IInv, job = "up" PROVE UpMeansComplete
    BY DEF UpMeansComplete
  <2>1. Progress /\ Defined /\ Wired /\ at - 1 = N
    BY DEF IInv, Progress
  <2>2. launch.runner = "DataflowRunner" => launch.packaged
    BY <2>1 DEF Defined
  <2>3. DOMAIN launch.domains = 1..N /\ launch.domains \in Seq(DomainSpec)
    BY <2>1 DEF Progress, LaunchType, N
  <2>4. ASSUME NEW i \in DOMAIN launch.domains
        PROVE  SettingsTakeEffect(i) /\ NoDeadEnd(i) /\ StepsHaveTheirNeeds(i)
    <3> DEFINE s == launch.domains[i]
    <3>1. s \in DomainSpec /\ ~Rejected(s)
      <4>1. i \in 1..N /\ ~Rejected(launch.domains[i])
        BY <2>1, <2>3 DEF Defined
      <4>2. launch.domains[i] \in DomainSpec
        BY <2>3, <4>1 DEF N
      <4> QED
        BY <4>1, <4>2
    <3>2. LinksOf(i) = Links(s)
      BY <2>1, <2>3 DEF Wired
    <3>3. /\ s.alert_evaluator => Truthy(launch.alerts_table)
          /\ Storage /\ Truthy(s.raw_table) => s.raw_table_schema
          /\ Storage /\ Truthy(s.enriched_table) => s.enriched_table_schema
          /\ Storage /\ s.alert_evaluator => launch.alerts_table_schema
      BY <2>1 DEF Wired, Unbuildable
    <3>4. \/ Truthy(s.enriched_table) /\ s.key_fn /\ s.aggregate_fn
          \/ /\ ~Truthy(s.enriched_table) /\ ~s.key_fn /\ ~s.aggregate_fn
             /\ ~s.alert_evaluator /\ ~s.key_field_names /\ ~HasWindowingConfig(s)
      BY <3>1, AcceptedIsAllOrNothing
    <3>5. /\ Has(i, "Combine") <=> Truthy(s.enriched_table)
          /\ Has(i, "WriteAgg") <=> Truthy(s.enriched_table)
          /\ Has(i, "WriteAlerts") <=> Truthy(s.enriched_table) /\ s.alert_evaluator
          /\ Has(i, "WriteRaw") <=> Truthy(s.raw_table)
          /\ Has(i, "InactivityWatch") <=> s.inactivity_detector
      BY <3>2, OptionalSteps
    <3>6. NoDeadEnd(i)
      BY <3>2, <3>5, NothingIsDropped, SideOutputs DEF NoDeadEnd
    <3>7. s.dlq_table = "set" => \A step \in Fallible : Has(i, step) => Used(i, step, "dlq")
      BY <3>2, SideOutputs DEF Truthy
    <3>8. SettingsTakeEffect(i)
      BY <3>2, <3>4, <3>5, <3>7, Feeders DEF SettingsTakeEffect, Truthy
    <3>9. StepsHaveTheirNeeds(i)
      BY <3>3, <3>4, <3>5 DEF StepsHaveTheirNeeds
    <3> QED
      BY <3>6, <3>8, <3>9
  <2> QED
    BY <2>2, <2>4 DEF UpMeansComplete
<1> QED
  BY <1>1, InvariantHolds, PTL
=============================================================================
