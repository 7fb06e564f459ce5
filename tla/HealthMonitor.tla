--------------------------- MODULE HealthMonitor ---------------------------
(***************************************************************************)
(* The periodic dead-letter check (health.py, check_dlq_thresholds, as     *)
(* examples/retail_orders/check_health.py runs it from a scheduler): while *)
(* the pipelines go on adding rows to their dlq tables, a check queries    *)
(* the tables one after the other and raises an incident for each domain   *)
(* with Threshold rows or more in the last Window.                         *)
(*                                                                         *)
(* A check is short against the window: no time passes during one.         *)
(***************************************************************************)
EXTENDS Integers, Sequences

CONSTANTS
  DomainList,   \* the domains argument
  HasDlqTable,  \* those with a dlq_table
  Window,       \* window_minutes, in clock ticks
  Threshold,    \* threshold
  Period,       \* the longest time between two checks
  Tolerated,    \* how many checks in a row may raise before a burst is given up
  MaxRows       \* bound: rows a domain's dlq gets in a tick

Domain == {DomainList[i] : i \in DOMAIN DomainList}

ASSUME MonitorAssumption ==
  /\ DomainList \in Seq(Domain) /\ HasDlqTable \subseteq Domain
  /\ \A i, j \in DOMAIN DomainList : DomainList[i] = DomainList[j] => i = j
  /\ Window \in Nat /\ Threshold \in Nat \ {0} /\ MaxRows \in Nat
  /\ Period \in Nat \ {0} /\ Tolerated \in Nat
  /\ (1 + Tolerated) * Period <= Window

Age == 0..Window

VARIABLES
  rows,        \* rows[d][a]: rows of d's dlq table ingested a ticks ago
  sinceCheck,  \* ticks since the last check began
  next,        \* the position in DomainList the check is at, 0 when there is none
  exceeded,    \* the domain at next was counted, and has reached the threshold
  results,     \* the domains in the result list so far
  reported,    \* the domains this check has raised an incident for
  returned,    \* whether the last check returned its list; it may have raised
  overdue,     \* history: overdue[d]: ticks since a burst of d that no incident
               \* has followed, None without one
  failures     \* history: failures[d]: checks that have raised since that burst

vars == <<rows, sinceCheck, next, exceeded, results, reported, returned, overdue, failures>>
historyVars == <<overdue, failures>>
checkVars == <<sinceCheck, next, exceeded, results, reported, returned>>

None == -1

(* The type invariant: check_dlq_thresholds has results, and raises         *)
(* incidents, only for domains with a dlq_table, and an incident only with  *)
(* a result; and a list that is returned has all of these domains.          *)
TypeOK ==
  /\ rows \in [HasDlqTable -> [Age -> 0..MaxRows]]
  /\ sinceCheck \in 0..Period
  /\ next \in 0..(Len(DomainList) + 1)
  /\ exceeded \in BOOLEAN /\ returned \in BOOLEAN
  /\ reported \subseteq results /\ results \subseteq HasDlqTable
  /\ next = 0 /\ returned => results = HasDlqTable
  /\ overdue \in [HasDlqTable -> {None} \cup Nat]
  /\ failures \in [HasDlqTable -> 0..Tolerated]

Init ==
  /\ rows = [d \in HasDlqTable |-> [a \in Age |-> 0]]
  /\ sinceCheck = 0
  /\ next = 0 /\ exceeded = FALSE
  /\ results = {} /\ reported = {} /\ returned = FALSE
  /\ overdue = [d \in HasDlqTable |-> None]
  /\ failures = [d \in HasDlqTable |-> 0]

-----------------------------------------------------------------------------
(* A row of counts, by age, added up to an age. *)
UpTo(counts, age) ==
  LET sum[a \in Age] == counts[a] + IF a = 0 THEN 0 ELSE sum[a - 1] IN sum[age]

(* Rows of d that are at most `age` ticks old. *)
Recent(d, age) == UpTo(rows[d], age)

(* The rows the query counts: ingested_at >= now - Window   *)
Counted(d) == Recent(d, Window)

(* A burst: Threshold rows so close together that they are all in the       *)
(* window of the next check after them, and of the next Tolerated ones.     *)
BurstSpan == Window - (1 + Tolerated) * Period

(* The pipeline of d writes a row to its dlq table. *)
Land(d) ==
  /\ rows[d][0] < MaxRows
  /\ rows' = [rows EXCEPT ![d][0] = @ + 1]
  /\ overdue' = [overdue EXCEPT
                   ![d] = IF @ = None /\ Recent(d, BurstSpan) + 1 >= Threshold THEN 0 ELSE @]
  /\ UNCHANGED <<checkVars, failures>>

Tick ==
  /\ next = 0
  /\ sinceCheck < Period
  /\ sinceCheck' = sinceCheck + 1
  /\ rows' = [d \in HasDlqTable |-> [a \in Age |-> IF a = 0 THEN 0 ELSE rows[d][a - 1]]]
  /\ overdue' = [d \in HasDlqTable |-> IF overdue[d] = None THEN None ELSE overdue[d] + 1]
  /\ UNCHANGED <<next, exceeded, results, reported, returned, failures>>

(* The scheduler starts a check, which knows nothing of earlier ones. *)
StartCheck ==
  /\ next = 0
  /\ next' = 1
  /\ sinceCheck' = 0
  /\ results' = {} /\ reported' = {}
  /\ UNCHANGED <<rows, exceeded, returned, historyVars>>

AtDomain(d) == next \in DOMAIN DomainList /\ DomainList[next] = d

(* Mutant of Skip: a domain without a table counts as one without rows. *)
SkipWithResult(d) ==
  /\ AtDomain(d) /\ d \notin HasDlqTable
  /\ next' = next + 1
  /\ results' = results \cup {d}
  /\ UNCHANGED <<rows, sinceCheck, exceeded, reported, returned, historyVars>>

Skip(d) ==
  /\ AtDomain(d) /\ d \notin HasDlqTable
  /\ next' = next + 1
  /\ UNCHANGED <<rows, sinceCheck, exceeded, results, reported, returned, historyVars>>

(* Mutant of Exceeds: more than the threshold. *)
ExceedsStrictly(d) == Counted(d) > Threshold

(* DlqCheckResult.exceeded *)
Exceeds(d) == Counted(d) >= Threshold

(* The count, and its entry in the result list. *)
Query(d) ==
  /\ AtDomain(d) /\ d \in HasDlqTable /\ ~exceeded
  /\ results' = results \cup {d}
  /\ IF Exceeds(d)
     THEN exceeded' = TRUE /\ UNCHANGED next
     ELSE next' = next + 1 /\ UNCHANGED exceeded
  /\ UNCHANGED <<rows, sinceCheck, reported, returned, historyVars>>

(* create_incident succeeds. *)
Notify(d) ==
  /\ AtDomain(d) /\ exceeded
  /\ reported' = reported \cup {d}
  /\ overdue' = [overdue EXCEPT ![d] = None]
  /\ failures' = [failures EXCEPT ![d] = 0]
  /\ exceeded' = FALSE
  /\ next' = next + 1
  /\ UNCHANGED <<rows, sinceCheck, results, returned>>

EndCheck ==
  /\ next' = 0
  /\ exceeded' = FALSE
  /\ UNCHANGED <<rows, sinceCheck, results, reported>>

Return ==
  /\ next = Len(DomainList) + 1
  /\ EndCheck
  /\ returned' = TRUE
  /\ UNCHANGED historyVars

(* An exception ends the loop where it is.  After too many of them a burst  *)
(* that is still waiting is given up.                                       *)
Abort ==
  /\ EndCheck
  /\ returned' = FALSE
  /\ overdue' = [d \in HasDlqTable |-> IF failures[d] < Tolerated THEN overdue[d] ELSE None]
  /\ failures' = [d \in HasDlqTable |->
                    IF overdue'[d] = None THEN 0 ELSE failures[d] + 1]

QueryRaises(d) == AtDomain(d) /\ d \in HasDlqTable /\ ~exceeded /\ Abort

NotifierRaises(d) == AtDomain(d) /\ exceeded /\ Abort

Next ==
  \/ \E d \in HasDlqTable : Land(d)
  \/ Tick
  \/ StartCheck \/ Return
  \/ \E d \in Domain :
       Skip(d) \/ Query(d) \/ Notify(d) \/ QueryRaises(d) \/ NotifierRaises(d)

Spec == Init /\ [][Next]_vars

-----------------------------------------------------------------------------
(* No burst goes unnoticed: rows that reach the threshold within BurstSpan  *)
(* of each other are reported at most a Period later, and a Period more for *)
(* each check that raised in between, wherever in the rhythm of the checks, *)
(* and at whatever point of a running one, they land.  (A check remembers   *)
(* nothing: what the next ones miss is never reported.)                     *)
BurstIsReported ==
  \A d \in HasDlqTable :
    overdue[d] <= (failures[d] + IF next = 0 /\ sinceCheck = 0 THEN 0 ELSE 1) * Period
=============================================================================
