--------------------------- MODULE PipelineLaunch ---------------------------
(***************************************************************************)
(* The process that launches a pipeline, from the DomainSpecs of its       *)
(* module to its exit: DomainSpec.__post_init__ and                        *)
(* build_streaming_pipeline (framework.py), main (cli.py),                 *)
(* run_with_incident_on_failure (health.py) and _build_incident_notifier   *)
(* of the examples.                                                        *)
(*                                                                         *)
(* What makes it worth a model: whether a setting takes effect is decided  *)
(* in three places, some of which ask whether a field is None and some     *)
(* whether it is truthy; and what becomes of a failure depends on where it *)
(* happens, on its class and on whether the process still waits.           *)
(***************************************************************************)
EXTENDS Naturals, Sequences

CONSTANTS Launch    \* the launches considered, see LaunchType

(* A table name may be left out, be the empty string, or name a table.      *)
Table == {"unset", "empty", "set"}
Truthy(t) == t = "set"

(* The fields of a DomainSpec that decide what is wired, and whether a      *)
(* field that is only ever tested for truth is set.                         *)
DomainSpec ==
  [name : STRING, raw_table : Table, enriched_table : Table, dlq_table : Table,
   key_fn : BOOLEAN, aggregate_fn : BOOLEAN, alert_evaluator : BOOLEAN,
   key_field_names : BOOLEAN, raw_table_schema : BOOLEAN, enriched_table_schema : BOOLEAN,
   dedup_key_fn : BOOLEAN, inactivity_detector : BOOLEAN,
   lateness : BOOLEAN, early : BOOLEAN, accumulation_mode : STRING]

(* A launch: the domains, what main() is called with, the command line      *)
(* (packaged: with a flag that gets the package onto the workers), and the  *)
(* SERVICENOW_* variables.                                                  *)
LaunchType ==
  [domains : Seq(DomainSpec), alerts_table : Table, alerts_table_schema : BOOLEAN,
   write_method : {"STORAGE_WRITE_API", "STREAMING_INSERTS"},
   project : BOOLEAN, runner : {"DirectRunner", "DataflowRunner"}, packaged : BOOLEAN,
   servicenow : {"off", "partial", "full"}]

(* A pipeline is launched for some domain. *)
ASSUME LaunchAssumption ==
  /\ Launch \subseteq LaunchType
  /\ \A l \in Launch : l.domains # <<>>

VARIABLES
  launch,      \* fixed
  phase,       \* where the process is
  at,          \* the domain to define or to wire next
  wired,       \* the links of the pipeline, <<domain, link>>: see Links
  job,         \* the pipeline's state, at the runner
  cause,       \* history: the first error
  exit,        \* what the process ends with: an error, or "ok"
  incidents    \* incidents that exist in ServiceNow

vars == <<launch, phase, at, wired, job, cause, exit, incidents>>

Phase == {"defining", "notifier", "parsing", "checking", "wiring", "submitting",
          "waiting", "caught", "ended"}

Raised == {"ValueError", "ServiceNowError", "SystemExit", "BeamError", "KeyboardInterrupt"}

(* The type invariant.  A pipeline has links only of domains it was given,  *)
(* and a job only after all of them were wired.                             *)
TypeOK ==
  /\ launch \in LaunchType /\ phase \in Phase
  /\ at \in 1..(Len(launch.domains) + 1)
  /\ \A w \in wired : w[1] < at /\ phase # "defining"
  /\ job \in {"none", "up", "failed", "done", "stopped"}
  /\ job # "none" => at = Len(launch.domains) + 1
  /\ cause \in Raised \cup {"none"} /\ exit \in Raised \cup {"none", "ok"}
  /\ incidents \in Nat

Init ==
  /\ launch \in Launch
  /\ phase = "defining" /\ at = 1
  /\ wired = {} /\ job = "none"
  /\ cause = "none" /\ exit = "none" /\ incidents = 0

current == launch.domains[at]
Storage == launch.write_method = "STORAGE_WRITE_API"

(* An error outside run_with_incident_on_failure ends the process.          *)
EndsWith(error) == phase' = "ended" /\ cause' = error /\ exit' = error

(* Mutant of Throw: a bare except. *)
ThrowCaughtAlways(error) == phase' = "caught" /\ cause' = error /\ UNCHANGED exit

(* An error inside it: only an Exception is caught.                         *)
Throw(error) ==
  IF error = "KeyboardInterrupt" THEN EndsWith(error)
  ELSE phase' = "caught" /\ cause' = error /\ UNCHANGED exit

-----------------------------------------------------------------------------
(* Mutant of HasAgg: a table name that is not None will do. *)
HasAggIfNotNone(s) == <<s.enriched_table # "unset", s.key_fn, s.aggregate_fn>>

(* has_agg, each of the three as any() and all() see it *)
HasAgg(s) == <<Truthy(s.enriched_table), s.key_fn, s.aggregate_fn>>

AllAgg(s) == \A i \in 1..3 : HasAgg(s)[i]
AnyAgg(s) == \E i \in 1..3 : HasAgg(s)[i]

HasWindowingConfig(s) == s.lateness \/ s.early \/ s.accumulation_mode # "discarding"

(* __post_init__ *)
Rejected(s) ==
  \/ s.raw_table = "unset" /\ s.enriched_table = "unset"
  \/ AnyAgg(s) /\ ~AllAgg(s)
  \/ s.alert_evaluator /\ ~AllAgg(s)
  \/ s.key_field_names /\ ~AllAgg(s)
  \/ s.accumulation_mode \notin {"discarding", "accumulating"}
  \/ HasWindowingConfig(s) /\ ~AllAgg(s)

(* The module's DomainSpecs are built one after the other.                  *)
Define ==
  /\ phase = "defining" /\ ~Rejected(current)
  /\ IF at < Len(launch.domains) THEN at' = at + 1 /\ UNCHANGED phase
                                 ELSE at' = 1 /\ phase' = "notifier"
  /\ UNCHANGED <<launch, wired, job, cause, exit, incidents>>

DefineRaises ==
  /\ phase = "defining" /\ Rejected(current)
  /\ EndsWith("ValueError")
  /\ UNCHANGED <<launch, at, wired, job, incidents>>

(* _build_incident_notifier: no notifier without an instance url; from_env  *)
(* wants the rest of the variables as well.                                 *)
BuildNotifier ==
  /\ phase = "notifier"
  /\ IF launch.servicenow = "partial" THEN EndsWith("ServiceNowError")
     ELSE phase' = "parsing" /\ UNCHANGED <<cause, exit>>
  /\ UNCHANGED <<launch, at, wired, job, incidents>>

(* main(), up to the incident hook: the parser, which needs a project, and  *)
(* _check_dataflow_worker_packaging.                                        *)
Parse ==
  /\ phase = "parsing"
  /\ IF ~launch.project \/ (launch.runner = "DataflowRunner" /\ ~launch.packaged)
     THEN EndsWith("SystemExit")
     ELSE phase' = "checking" /\ UNCHANGED <<cause, exit>>
  /\ UNCHANGED <<launch, at, wired, job, incidents>>

-----------------------------------------------------------------------------
(* build_streaming_pipeline's own checks. *)
Unbuildable ==
  LET specs    == {launch.domains[i] : i \in DOMAIN launch.domains}
      alerting == \E s \in specs : s.alert_evaluator
  IN  \/ alerting /\ ~Truthy(launch.alerts_table)
      \/ Storage /\ \E s \in specs : Truthy(s.raw_table) /\ ~s.raw_table_schema
      \/ Storage /\ \E s \in specs : Truthy(s.enriched_table) /\ ~s.enriched_table_schema
      \/ Storage /\ alerting /\ ~launch.alerts_table_schema

Check ==
  /\ phase = "checking"
  /\ IF Unbuildable THEN Throw("ValueError")
                    ELSE phase' = "wiring" /\ UNCHANGED <<cause, exit>>
  /\ UNCHANGED <<launch, at, wired, job, incidents>>

(* A step is named by the last part of its label.  A link <<a, output, b>>  *)
(* says that b reads the output of a with this tag.                         *)
Ok(a, b) == <<a, "ok", b>>

When(condition, links) == IF condition THEN links ELSE {}

(* The steps with a dlq output. *)
Fallible == {"Parse", "Validate", "Enrich", "KV", "AttachKeyWindow", "Alerts"}

Aggregation == {Ok("Enrich", "Window"), Ok("Window", "KV"), Ok("KV", "Combine"),
                Ok("Combine", "AttachKeyWindow"), Ok("AttachKeyWindow", "WriteAgg")}

Alerting == {Ok("AttachKeyWindow", "Alerts"), Ok("Alerts", "WriteAlerts")}

(* dlq_branches: those of the optional steps only where there are any. *)
DeadLetters(s) ==
  LET branches == {"Parse", "Validate", "Enrich"}
                    \cup When(Truthy(s.enriched_table), {"KV", "AttachKeyWindow"})
                    \cup When(Truthy(s.enriched_table) /\ s.alert_evaluator, {"Alerts"})
  IN  {<<step, "dlq", "DlqFlatten">> : step \in branches} \cup {Ok("DlqFlatten", "WriteDlq")}

(* What is wired for a domain. *)
Links(s) ==
  {Ok("Read", "Parse")}
  \cup (IF s.dedup_key_fn
        THEN {Ok("Parse", "DedupKey"), Ok("DedupKey", "Dedup"), Ok("Dedup", "DedupUnkey"),
              Ok("DedupUnkey", "Validate")}
        ELSE {Ok("Parse", "Validate")})
  \cup (IF s.inactivity_detector
        THEN {Ok("Validate", "InactivityKey"), Ok("InactivityKey", "InactivityWatch"),
              Ok("InactivityWatch", "InactivityFlatten"),
              <<"InactivityWatch", "timeout", "InactivityFlatten">>,
              Ok("InactivityFlatten", "Enrich")}
        ELSE {Ok("Validate", "Enrich")})
  \cup When(Truthy(s.raw_table), {Ok("Enrich", "Strip"), Ok("Strip", "WriteRaw")})
  \cup When(Truthy(s.enriched_table), Aggregation)
  \cup When(Truthy(s.enriched_table) /\ s.alert_evaluator, Alerting)
  \cup When(Truthy(s.dlq_table), DeadLetters(s))

(* What Beam refuses while the steps are put together: a label used twice,  *)
(* an early trigger with an allowed lateness; and aggregate_fn is called.   *)
WiringFails ==
  \/ \E i \in 1..(at - 1) : launch.domains[i].name = current.name
  \/ Truthy(current.enriched_table)
       /\ ((current.early /\ current.lateness) \/ ~current.aggregate_fn)

(* Mutant of AfterDomain: the pipeline is run in the loop. *)
AfterDomainRuns == "submitting"

AfterDomain == IF at = Len(launch.domains) THEN "submitting" ELSE "wiring"

(* One domain of the loop in "with beam.Pipeline": an error in the body     *)
(* leaves the pipeline unrun.                                               *)
Wire ==
  /\ phase = "wiring"
  /\ IF WiringFails
     THEN Throw("BeamError") /\ wired' = {} /\ UNCHANGED at
     ELSE /\ wired' = wired \cup {<<at, link>> : link \in Links(current)}
          /\ at' = at + 1
          /\ phase' = AfterDomain
          /\ UNCHANGED <<cause, exit>>
  /\ UNCHANGED <<launch, job, incidents>>

(* The end of the with block runs the pipeline.  The streaming DirectRunner *)
(* refuses the cross-language Storage Write API.                            *)
Submit ==
  /\ phase = "submitting"
  /\ IF launch.runner = "DirectRunner" /\ Storage
     THEN Throw("BeamError") /\ UNCHANGED job
     ELSE job' = "up" /\ phase' = "waiting" /\ UNCHANGED <<cause, exit>>
  /\ UNCHANGED <<launch, at, wired, incidents>>

(* The job ends, failed or drained, whether or not the process is there. *)
JobEnds ==
  /\ job = "up"
  /\ job' \in {"failed", "done"}
  /\ UNCHANGED <<launch, phase, at, wired, cause, exit, incidents>>

(* wait_until_finish *)
Waited ==
  /\ phase = "waiting"
  /\ \/ job = "done" /\ phase' = "ended" /\ exit' = "ok" /\ UNCHANGED cause
     \/ job = "failed" /\ Throw("BeamError")
  /\ UNCHANGED <<launch, at, wired, job, incidents>>

(* The process is interrupted while it waits: a Dataflow job goes on.       *)
Interrupt ==
  /\ phase = "waiting"
  /\ Throw("KeyboardInterrupt")
  /\ job' = IF launch.runner = "DataflowRunner" \/ job # "up" THEN job ELSE "stopped"
  /\ UNCHANGED <<launch, at, wired, incidents>>

(* Mutant of Report: the notifier's error escapes. *)
ReportUnguarded ==
  /\ phase = "caught"
  /\ phase' = "ended"
  /\ \/ exit' = cause /\ incidents' = incidents + (IF launch.servicenow = "full" THEN 1 ELSE 0)
     \/ launch.servicenow = "full" /\ exit' = "ServiceNowError" /\ UNCHANGED incidents
  /\ UNCHANGED <<launch, at, wired, job, cause>>

(* The except clause: without a notifier, nothing; otherwise create_incident *)
(* may return, fail before the incident exists, or fail after (a response    *)
(* that does not come in time).  Then the error is raised again.            *)
Report ==
  /\ phase = "caught"
  /\ phase' = "ended" /\ exit' = cause
  /\ incidents' \in IF launch.servicenow = "full" THEN {incidents, incidents + 1} ELSE {incidents}
  /\ UNCHANGED <<launch, at, wired, job, cause>>

Next ==
  \/ Define \/ DefineRaises \/ BuildNotifier \/ Parse
  \/ Check \/ Wire \/ Submit
  \/ JobEnds \/ Waited \/ Interrupt
  \/ Report

Spec == Init /\ [][Next]_vars

-----------------------------------------------------------------------------
(* The process ends with the first error that was raised, never with that   *)
(* of the notifier, and ends well only if the pipeline did.                 *)
OriginalErrorSurfaces ==
  phase = "ended" =>
    /\ exit = IF cause = "none" THEN "ok" ELSE cause
    /\ exit = "ok" => job = "done"

(* A launch makes at most one incident, and only for an Exception inside    *)
(* the hook: not for a DomainSpec or a command line that is refused, nor    *)
(* for an interrupted process.                                              *)
IncidentsAreFailures ==
  /\ incidents <= 1
  /\ incidents = 1 =>
       /\ launch.servicenow = "full" /\ launch.project
       /\ cause \in {"ValueError", "BeamError"}
       /\ \A i \in DOMAIN launch.domains : ~Rejected(launch.domains[i])

LinksOf(i) == {w[2] : w \in {v \in wired : v[1] = i}}

Has(i, step) == \E link \in LinksOf(i) : step \in {link[1], link[3]}

Used(i, step, output) == \E link \in LinksOf(i) : link[1] = step /\ link[2] = output

OnlyFedBy(i, step, feeder) ==
  Has(i, feeder) /\ \A link \in LinksOf(i) : link[3] = step => link[1] = feeder

(* The one domain that comes up and writes nothing.  __post_init__ would    *)
(* refuse it ("a domain that writes nothing isn't doing anything"), but it  *)
(* asks whether the tables are None, and the wiring whether they are named. *)
NamesNoTable(s) == ~Truthy(s.raw_table) /\ ~Truthy(s.enriched_table)

(* What is configured of domain i takes effect. *)
SettingsTakeEffect(i) ==
  LET s == launch.domains[i]
  IN  /\ s.key_fn \/ s.aggregate_fn \/ s.key_field_names \/ HasWindowingConfig(s)
           => Has(i, "Combine") /\ Has(i, "WriteAgg")
      /\ s.alert_evaluator => Has(i, "WriteAlerts")
      /\ s.dedup_key_fn => OnlyFedBy(i, "Validate", "DedupUnkey")
      /\ s.inactivity_detector => OnlyFedBy(i, "Enrich", "InactivityFlatten")
      /\ s.dlq_table = "set" => \A step \in Fallible : Has(i, step) => Used(i, step, "dlq")
      /\ s.raw_table = "set" => Has(i, "WriteRaw")
      /\ s.enriched_table = "set" => Has(i, "WriteAgg")

(* No step of domain i works for nothing: an element it passes on has a     *)
(* step to go to, up to a write.                                            *)
NoDeadEnd(i) ==
  /\ \A link \in LinksOf(i) :
       \/ link[3] \in {"WriteRaw", "WriteAgg", "WriteAlerts", "WriteDlq"}
       \/ Used(i, link[3], "ok")
       \/ link[3] = "Enrich" /\ NamesNoTable(launch.domains[i])
  /\ Has(i, "InactivityWatch") => Used(i, "InactivityWatch", "timeout")

(* What the steps of domain i cannot do without is there.                   *)
StepsHaveTheirNeeds(i) ==
  LET s == launch.domains[i]
  IN  /\ Has(i, "Combine") => s.key_fn /\ s.aggregate_fn
      /\ Has(i, "WriteAlerts") => Truthy(launch.alerts_table)
      /\ Storage =>
           /\ Has(i, "WriteRaw") => s.raw_table_schema
           /\ Has(i, "WriteAgg") => s.enriched_table_schema
           /\ Has(i, "WriteAlerts") => launch.alerts_table_schema

(* A pipeline that comes up is complete.  No aggregation, key, windowing,   *)
(* alert rule, deduplication, detector or dead-letter table that was        *)
(* configured is silently left out of any domain; no step's output is lost, *)
(* but that of a domain without any table name (see NamesNoTable); no table *)
(* is written without the schema its write method wants, and a Dataflow job *)
(* has its package.                                                         *)
UpMeansComplete ==
  job = "up" =>
    /\ \A i \in DOMAIN launch.domains :
         SettingsTakeEffect(i) /\ NoDeadEnd(i) /\ StepsHaveTheirNeeds(i)
    /\ launch.runner = "DataflowRunner" => launch.packaged
=============================================================================
