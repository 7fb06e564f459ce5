------------------------ MODULE HealthMonitor_proofs ------------------------
(***************************************************************************)
(* Proofs about HealthMonitor: no burst goes unnoticed, for any number of  *)
(* domains, any window, threshold, period and number of failed checks.     *)
(*                                                                         *)
(* UpTo is a recursive function: that its equation has a solution, and     *)
(* what it adds up to, is shown by induction on the age, in the form that  *)
(* a set of ages without a least one is empty.                             *)
(***************************************************************************)
EXTENDS HealthMonitor, WellFoundedInduction, TLAPS

LEMMA AgeInduction ==
  ASSUME NEW Bad \in SUBSET Age, 0 \notin Bad,
         \A n \in Age : n # 0 /\ n - 1 \notin Bad => n \notin Bad
  PROVE  Bad = {}
<1>0. Window \in Nat /\ Bad \in SUBSET Nat
  BY MonitorAssumption DEF Age
<1> SUFFICES ASSUME Bad # {} PROVE FALSE
  OBVIOUS
<1>1. PICK n \in Bad : \A m \in Bad : <<m, n>> \notin OpToRel(<, Nat)
  BY <1>0, NatLessThanWellFounded, WFMin
<1>2. \A m \in Bad : ~(m < n)
  BY <1>0, <1>1 DEF OpToRel
<1> QED
  BY <1>0, <1>2 DEF Age

-----------------------------------------------------------------------------
(* f says how far the counts of c add up, up to age n.                      *)
AddsUpTo(f, c, n) ==
  /\ f \in [0..n -> Nat]
  /\ \A a \in 0..n : f[a] = c[a] + IF a = 0 THEN 0 ELSE f[a - 1]

LEMMA SumsExist ==
  ASSUME NEW c \in [Age -> Nat]
  PROVE  \E f : AddsUpTo(f, c, Window)
<1> DEFINE Bad == {n \in Age : ~\E f : AddsUpTo(f, c, n)}
<1>0. Window \in Nat
  BY MonitorAssumption
<1>1. Bad \in SUBSET Age /\ \A n \in Age : n \notin Bad <=> \E f : AddsUpTo(f, c, n)
  OBVIOUS
<1> HIDE DEF Bad
<1>2. 0 \notin Bad
  <2>1. AddsUpTo([a \in 0..0 |-> c[a]], c, 0)
    BY <1>0 DEF Age, AddsUpTo
  <2> QED
    BY <1>0, <1>1, <2>1 DEF Age
<1>3. ASSUME NEW n \in Age, n # 0, n - 1 \notin Bad PROVE n \notin Bad
  <2>0. n - 1 \in Age
    BY <1>0, <1>3 DEF Age
  <2>1. PICK f : AddsUpTo(f, c, n - 1)
    BY <1>1, <1>3, <2>0
  <2> DEFINE g == [a \in 0..n |-> IF a = n THEN c[n] + f[n - 1] ELSE f[a]]
  <2>2. c[n] \in Nat /\ f[n - 1] \in Nat
    BY <1>0, <1>3, <2>1 DEF Age, AddsUpTo
  <2>3. g \in [0..n -> Nat]
    BY <1>0, <2>1, <2>2 DEF Age, AddsUpTo
  <2>4. ASSUME NEW a \in 0..n PROVE g[a] = c[a] + IF a = 0 THEN 0 ELSE g[a - 1]
    <3>1. CASE a = n
      BY <1>0, <1>3, <2>2, <3>1 DEF Age
    <3>2. CASE a # n
      BY <1>0, <2>1, <2>2, <3>2 DEF Age, AddsUpTo
    <3> QED
      BY <3>1, <3>2
  <2>5. AddsUpTo(g, c, n)
    BY <2>3, <2>4 DEF AddsUpTo
  <2> QED
    BY <1>1, <2>5
<1>4. Window \notin Bad
  BY <1>1, <1>2, <1>3, AgeInduction
<1> QED
  BY <1>0, <1>1, <1>4 DEF Age

(* UpTo satisfies the equation it is defined by.                            *)
LEMMA UpToRecurs ==
  ASSUME NEW c \in [Age -> Nat]
  PROVE  \A a \in Age : /\ UpTo(c, a) \in Nat
                        /\ UpTo(c, a) = c[a] + IF a = 0 THEN 0 ELSE UpTo(c, a - 1)
<1> DEFINE Solves(f) == f = [a \in Age |-> c[a] + IF a = 0 THEN 0 ELSE f[a - 1]]
           sum == CHOOSE f : Solves(f)
<1>0. Window \in Nat
  BY MonitorAssumption
<1>1. PICK f : AddsUpTo(f, c, Window)
  BY SumsExist
<1>2. Solves(f)
  BY <1>1 DEF AddsUpTo, Age
<1>3. Solves(sum)
  BY <1>2
<1>4. \A a : UpTo(c, a) = sum[a]
  BY DEF UpTo
<1> HIDE DEF sum
<1> DEFINE Bad == {n \in Age : sum[n] \notin Nat}
<1>5. Bad \in SUBSET Age /\ \A n \in Age : n \notin Bad <=> sum[n] \in Nat
  OBVIOUS
<1>6. 0 \notin Bad
  BY <1>3
<1>7. \A n \in Age : n # 0 /\ n - 1 \notin Bad => n \notin Bad
  BY <1>0, <1>3 DEF Age
<1> HIDE DEF Bad
<1>8. \A a \in Age : sum[a] \in Nat
  BY <1>5, <1>6, <1>7, AgeInduction
<1> QED
  BY <1>3, <1>4, <1>8

(* Counting further back finds no fewer rows.                               *)
LEMMA UpToGrows ==
  ASSUME NEW c \in [Age -> Nat], NEW a \in Age, NEW b \in Age, a <= b
  PROVE  UpTo(c, a) <= UpTo(c, b)
<1> DEFINE Bad == {n \in Age : a <= n /\ ~(UpTo(c, a) <= UpTo(c, n))}
<1>0. Window \in Nat
  BY MonitorAssumption
<1>1. \A n \in Age : /\ UpTo(c, n) \in Nat /\ c[n] \in Nat
                     /\ n # 0 => UpTo(c, n) = c[n] + UpTo(c, n - 1)
  BY UpToRecurs
<1>2. 0 \notin Bad
  BY <1>0, <1>1 DEF Age
<1>3. \A n \in Age : n # 0 /\ n - 1 \notin Bad => n \notin Bad
  <2> SUFFICES ASSUME NEW n \in Age, n # 0, a <= n,
                      a <= n - 1 => UpTo(c, a) <= UpTo(c, n - 1)
               PROVE  UpTo(c, a) <= UpTo(c, n)
    BY <1>0 DEF Age
  <2>1. n - 1 \in Age /\ n \in Nat /\ a \in Nat
    BY <1>0 DEF Age
  <2>2. UpTo(c, n - 1) \in Nat /\ UpTo(c, n) = c[n] + UpTo(c, n - 1) /\ c[n] \in Nat
    BY <1>1, <2>1
  <2> QED
    BY <1>1, <2>1, <2>2
<1>4. Bad \in SUBSET Age
  OBVIOUS
<1>5. \A n \in Age : n \notin Bad => (a <= n => UpTo(c, a) <= UpTo(c, n))
  OBVIOUS
<1> HIDE DEF Bad
<1> QED
  BY <1>2, <1>3, <1>4, <1>5, AgeInduction

(* A row that lands is counted, however far back the count goes.            *)
LEMMA UpToCountsNewRow ==
  ASSUME NEW c \in [Age -> Nat], NEW e \in [Age -> Nat],
         e[0] = c[0] + 1, \A a \in Age \ {0} : e[a] = c[a]
  PROVE  \A a \in Age : UpTo(e, a) = UpTo(c, a) + 1
<1> DEFINE Bad == {n \in Age : UpTo(e, n) # UpTo(c, n) + 1}
<1>0. Window \in Nat
  BY MonitorAssumption
<1>1. \A n \in Age : /\ UpTo(c, n) = c[n] + IF n = 0 THEN 0 ELSE UpTo(c, n - 1)
                     /\ UpTo(e, n) = e[n] + IF n = 0 THEN 0 ELSE UpTo(e, n - 1)
                     /\ UpTo(c, n) \in Nat /\ UpTo(e, n) \in Nat /\ c[n] \in Nat
  BY UpToRecurs
<1>2. 0 \notin Bad
  BY <1>0, <1>1 DEF Age
<1>3. \A n \in Age : n # 0 /\ n - 1 \notin Bad => n \notin Bad
  BY <1>0, <1>1 DEF Age
<1>4. Bad \in SUBSET Age /\ \A n \in Age : n \notin Bad => UpTo(e, n) = UpTo(c, n) + 1
  OBVIOUS
<1> HIDE DEF Bad
<1> QED
  BY <1>2, <1>3, <1>4, AgeInduction

(* When rows grow a tick older, they are counted one tick further back.     *)
LEMMA UpToFollowsAge ==
  ASSUME NEW c \in [Age -> Nat], NEW e \in [Age -> Nat],
         e[0] = 0, \A a \in Age \ {0} : e[a] = c[a - 1]
  PROVE  \A a \in Age : a # 0 => UpTo(e, a) = UpTo(c, a - 1)
<1> DEFINE Bad == {n \in Age : n # 0 /\ UpTo(e, n) # UpTo(c, n - 1)}
<1>0. Window \in Nat
  BY MonitorAssumption
<1>1. \A n \in Age : /\ UpTo(c, n) = c[n] + IF n = 0 THEN 0 ELSE UpTo(c, n - 1)
                     /\ UpTo(e, n) = e[n] + IF n = 0 THEN 0 ELSE UpTo(e, n - 1)
                     /\ UpTo(c, n) \in Nat /\ UpTo(e, n) \in Nat /\ c[n] \in Nat
  BY UpToRecurs
<1>2. 0 \notin Bad
  OBVIOUS
<1>3. \A n \in Age : n # 0 /\ n - 1 \notin Bad => n \notin Bad
  <2> SUFFICES ASSUME NEW n \in Age, n # 0, n - 1 = 0 \/ UpTo(e, n - 1) = UpTo(c, n - 1 - 1)
               PROVE  UpTo(e, n) = UpTo(c, n - 1)
    BY <1>0 DEF Age
  <2>1. n - 1 \in Age /\ 0 \in Age /\ n - 1 \in Nat
    BY <1>0 DEF Age
  <2>2. UpTo(e, n) = c[n - 1] + UpTo(e, n - 1)
    BY <1>1
  <2>3. CASE n - 1 = 0
    BY <1>1, <2>1, <2>2, <2>3
  <2>4. CASE n - 1 # 0
    BY <1>1, <2>1, <2>2, <2>4
  <2> QED
    BY <2>3, <2>4
<1>4. Bad \in SUBSET Age /\ \A n \in Age : n \notin Bad /\ n # 0 => UpTo(e, n) = UpTo(c, n - 1)
  OBVIOUS
<1> HIDE DEF Bad
<1> QED
  BY <1>2, <1>3, <1>4, AgeInduction

-----------------------------------------------------------------------------
(* A running check has been at d. *)
Behind(d) == \E i \in 1..(next - 1) : DomainList[i] = d

(* A burst of d that still waits: its rows are in the window of any check   *)
(* that looks now, it does not wait longer than the checks that raised      *)
(* explain, and one that a running check has passed has only just landed.   *)
Waits(d) ==
  /\ Recent(d, BurstSpan + overdue[d]) >= Threshold
  /\ overdue[d] <= failures[d] * Period + IF next = 0 THEN sinceCheck ELSE Period
  /\ next # 0 /\ Behind(d) => overdue[d] = 0

(* A check that raises an incident has the domain in its results, as it has *)
(* every domain with a table that it has passed, and takes no time.         *)
Passed == \A d \in HasDlqTable : Behind(d) => d \in results

Checks ==
  /\ Passed
  /\ exceeded => next \in DOMAIN DomainList /\ DomainList[next] \in results
  /\ next # 0 => sinceCheck = 0

BurstsWait == \A d \in HasDlqTable : overdue[d] # None => Waits(d)

LEMMA ConstantFacts ==
  /\ Window \in Nat /\ Period \in Nat /\ Period > 0 /\ Tolerated \in Nat
  /\ Threshold \in Nat /\ Threshold > 0 /\ MaxRows \in Nat /\ HasDlqTable \subseteq Domain
  /\ Len(DomainList) \in Nat /\ DOMAIN DomainList = 1..Len(DomainList)
<1>1. DomainList \in Seq(Domain)
  BY MonitorAssumption
<1>2. Len(DomainList) \in Nat /\ DOMAIN DomainList = 1..Len(DomainList)
  BY <1>1
<1> QED
  BY <1>2, MonitorAssumption

(* However many of the tolerated checks have raised, the next one still     *)
(* looks back over the whole of a burst.                                    *)
LEMMA WindowSuffices ==
  /\ BurstSpan \in Age
  /\ \A f \in 0..Tolerated : /\ f * Period \in Nat
                             /\ (f + 1) * Period = f * Period + Period
                             /\ BurstSpan + (f * Period + Period) <= Window
<1>1. /\ Window \in Nat /\ Period \in Nat /\ Period > 0 /\ Tolerated \in Nat
      /\ (1 + Tolerated) * Period <= Window
  BY MonitorAssumption
<1>2. (1 + Tolerated) * Period \in Nat
  BY <1>1
<1>3. ASSUME NEW f \in 0..Tolerated
      PROVE  /\ f * Period \in Nat /\ (f + 1) * Period = f * Period + Period
             /\ (f + 1) * Period <= (1 + Tolerated) * Period
  <2>1. f \in Nat /\ Tolerated - f \in Nat
    BY <1>1
  <2>2. (1 + Tolerated) * Period = (f + 1) * Period + (Tolerated - f) * Period
    BY <1>1, <2>1
  <2>3. (Tolerated - f) * Period \in Nat /\ f * Period \in Nat
    BY <1>1, <2>1
  <2> QED
    BY <1>1, <1>2, <2>1, <2>2, <2>3
<1>4. BurstSpan \in Age
  BY <1>1, <1>2 DEF BurstSpan, Age
<1>5. \A f \in 0..Tolerated : BurstSpan + (f * Period + Period) <= Window
  BY <1>1, <1>2, <1>3 DEF BurstSpan
<1> QED
  BY <1>3, <1>4, <1>5

(* A check that goes on from a domain with its result has passed it.        *)
LEMMA StepPasses ==
  ASSUME Passed, next \in 1..Len(DomainList), results \subseteq results',
         \/ next' = next
         \/ next' = next + 1 /\ (DomainList[next] \in HasDlqTable => DomainList[next] \in results')
  PROVE  Passed'
<1> SUFFICES ASSUME NEW d \in HasDlqTable, NEW i \in 1..(next' - 1), DomainList[i] = d
             PROVE  d \in results'
  BY DEF Passed, Behind
<1>1. next \in Nat /\ i \in Nat /\ 1 <= i /\ i <= next' - 1
  BY ConstantFacts
<1>2. i \in 1..(next - 1) \/ (next' = next + 1 /\ i = next)
  BY <1>1
<1> QED
  BY <1>2 DEF Passed, Behind

(* What a step leaves of the types. *)
LEMMA StepKeepsTypes ==
  ASSUME TypeOK, Checks, [Next]_vars
  PROVE  TypeOK' /\ Checks'
<1> USE ConstantFacts DEF TypeOK, Checks, None
<1>0. 0 \in Age /\ 0 \in 0..Tolerated
  BY DEF Age
<1>1. ASSUME NEW d \in HasDlqTable, Land(d) PROVE TypeOK' /\ Checks'
  <2>1. rows[d] \in [Age -> 0..MaxRows] /\ rows[d][0] + 1 \in 0..MaxRows
    BY <1>0, <1>1 DEF Land
  <2>2. rows' \in [HasDlqTable -> [Age -> 0..MaxRows]]
    BY <1>0, <1>1, <2>1 DEF Land
  <2>3. overdue' \in [HasDlqTable -> {None} \cup Nat]
    BY <1>1 DEF Land
  <2> QED
    BY <1>1, <2>2, <2>3 DEF Land, checkVars, Passed, Behind
<1>2. CASE Tick
  <2>1. rows' \in [HasDlqTable -> [Age -> 0..MaxRows]]
    <3>1. \A d \in HasDlqTable, a \in Age :
            (IF a = 0 THEN 0 ELSE rows[d][a - 1]) \in 0..MaxRows
      <4> SUFFICES ASSUME NEW d \in HasDlqTable, NEW a \in Age, a # 0
                   PROVE  rows[d][a - 1] \in 0..MaxRows
        OBVIOUS
      <4>1. a - 1 \in Age
        BY DEF Age
      <4> QED
        BY <4>1
    <3> QED
      BY <1>2, <3>1 DEF Tick
  <2>2. overdue' \in [HasDlqTable -> {None} \cup Nat]
    BY <1>2 DEF Tick
  <2> QED
    BY <1>2, <2>1, <2>2 DEF Tick, Passed, Behind
<1>3. CASE StartCheck
  BY <1>3 DEF StartCheck, historyVars, Passed, Behind
<1>4. ASSUME NEW d \in Domain, Skip(d) \/ Query(d) PROVE TypeOK' /\ Checks'
  <2>1. next \in 1..Len(DomainList) /\ DomainList[next] = d /\ ~exceeded
    BY <1>4 DEF Skip, Query, AtDomain
  <2>2. results' \in SUBSET HasDlqTable /\ results \subseteq results' /\ reported' = reported
    BY <1>4 DEF Skip, Query
  <2>3. /\ next' \in 1..(Len(DomainList) + 1) /\ exceeded' \in BOOLEAN
        /\ exceeded' => next' = next /\ d \in results'
    <3>1. CASE Skip(d)
      BY <2>1, <3>1 DEF Skip
    <3>2. CASE Query(d) /\ Exceeds(d)
      BY <2>1, <3>2 DEF Query
    <3>3. CASE Query(d) /\ ~Exceeds(d)
      BY <2>1, <3>3 DEF Query
    <3> QED
      BY <1>4, <3>1, <3>2, <3>3
  <2>4. sinceCheck' = sinceCheck /\ UNCHANGED <<rows, returned, overdue, failures>>
    BY <1>4 DEF Skip, Query, historyVars
  <2>5. Passed'
    <3>1. next' = next \/ (next' = next + 1 /\ (d \in HasDlqTable => d \in results'))
      BY <1>4, <2>1 DEF Skip, Query
    <3> QED
      BY <2>1, <2>2, <3>1, StepPasses
  <2> QED
    BY <2>1, <2>2, <2>3, <2>4, <2>5
<1>5. ASSUME NEW d \in Domain, Notify(d) PROVE TypeOK' /\ Checks'
  <2>1. next \in 1..Len(DomainList) /\ DomainList[next] = d /\ d \in results
    BY <1>5 DEF Notify, AtDomain
  <2>2. reported' \subseteq results' /\ results' = results
    BY <1>5, <2>1 DEF Notify
  <2>3. next' \in 1..(Len(DomainList) + 1) /\ exceeded' = FALSE /\ sinceCheck' = 0
    BY <1>5, <2>1 DEF Notify
  <2>4. overdue' \in [HasDlqTable -> {None} \cup Nat]
    BY <1>5 DEF Notify
  <2>5. failures' \in [HasDlqTable -> 0..Tolerated]
    <3>1. failures \in [HasDlqTable -> 0..Tolerated] /\ failures' = [failures EXCEPT ![d] = 0]
      BY <1>5 DEF Notify
    <3> QED
      BY <1>0, <3>1
  <2>6. Passed'
    BY <1>5, <2>1, <2>2, StepPasses DEF Notify
  <2>7. UNCHANGED <<rows, returned>> /\ next' # 0 /\ sinceCheck' \in 0..Period
    BY <1>5, <2>3 DEF Notify
  <2>8. TypeOK'
    <3>1. exceeded' \in BOOLEAN /\ returned' \in BOOLEAN
      BY ONLY <2>3, <2>7, TypeOK, Zenon DEF TypeOK
    <3>2. next' \in 0..(Len(DomainList) + 1)
      BY <2>3
    <3> QED
      BY <2>2, <2>4, <2>5, <2>7, <3>1, <3>2
  <2>9. Checks'
    BY <2>3, <2>6
  <2> QED
    BY <2>8, <2>9
<1>6. ASSUME Abort, next # 0 PROVE TypeOK' /\ Checks'
  <2>1. overdue' \in [HasDlqTable -> {None} \cup Nat]
    BY <1>6 DEF Abort
  <2>2. \A d \in HasDlqTable : ~(failures[d] < Tolerated) => overdue'[d] = None
    BY <1>6 DEF Abort
  <2>3. failures' \in [HasDlqTable -> 0..Tolerated]
    <3>1. \A d \in HasDlqTable :
            (IF overdue'[d] = None THEN 0 ELSE failures[d] + 1) \in 0..Tolerated
      BY <1>0, <2>2
    <3>2. failures' = [d \in HasDlqTable |-> IF overdue'[d] = None THEN 0 ELSE failures[d] + 1]
      BY <1>6 DEF Abort
    <3> HIDE DEF TypeOK, Checks, None
    <3> QED
      BY <3>1, <3>2
  <2>4. UNCHANGED <<rows, sinceCheck, results, reported>> /\ next' = 0
        /\ exceeded' = FALSE /\ returned' = FALSE
    BY <1>6 DEF Abort, EndCheck
  <2>5. next' \in 0..(Len(DomainList) + 1) /\ exceeded' \in BOOLEAN /\ returned' \in BOOLEAN
    <3>1. 0 \in 0..(Len(DomainList) + 1)
      OBVIOUS
    <3> QED
      BY ONLY <2>4, <3>1, Zenon
  <2>6. TypeOK'
    BY <2>1, <2>3, <2>4, <2>5
  <2>7. Checks'
    BY <2>4 DEF Passed, Behind
  <2> QED
    BY <2>6, <2>7
<1>7. CASE Return
  <2>1. UNCHANGED <<rows, sinceCheck, results, reported, overdue, failures>>
    BY <1>7 DEF Return, EndCheck, historyVars
  <2>2. next' = 0 /\ exceeded' = FALSE /\ returned' = TRUE
    BY <1>7 DEF Return, EndCheck
  <2>3. next' \in 0..(Len(DomainList) + 1) /\ exceeded' \in BOOLEAN /\ returned' \in BOOLEAN
    <3>1. 0 \in 0..(Len(DomainList) + 1)
      OBVIOUS
    <3> QED
      BY ONLY <2>2, <3>1, Zenon
  <2>4. results = HasDlqTable
    <3>1. \A d \in HasDlqTable : \E i \in 1..(next - 1) : DomainList[i] = d
      BY <1>7 DEF Return, Domain
    <3> QED
      BY <3>1 DEF Passed, Behind
  <2>5. TypeOK'
    BY <2>1, <2>3, <2>4
  <2>6. Checks'
    BY <2>2 DEF Passed, Behind
  <2> QED
    BY <2>5, <2>6
<1>8. CASE UNCHANGED vars
  BY <1>8 DEF vars, Passed, Behind
<1>9. ASSUME NEW d \in Domain, QueryRaises(d) \/ NotifierRaises(d) PROVE TypeOK' /\ Checks'
  BY <1>6, <1>9 DEF QueryRaises, NotifierRaises, AtDomain
<1> QED
  BY <1>1, <1>2, <1>3, <1>4, <1>5, <1>7, <1>8, <1>9 DEF Next

-----------------------------------------------------------------------------
LEMMA NoLongerThanWindow ==
  ASSUME NEW f \in 0..Tolerated, NEW o \in Nat, o <= f * Period + Period
  PROVE  BurstSpan + o \in Age /\ BurstSpan + o \in Nat /\ BurstSpan \in Nat
<1>1. PICK p \in Nat : p = f * Period
  BY WindowSuffices
<1>2. BurstSpan \in Nat /\ BurstSpan + (p + Period) <= Window /\ o <= p + Period
  <2>1. BurstSpan \in Nat
    BY WindowSuffices, ConstantFacts DEF Age
  <2> QED
    BY <1>1, <2>1, WindowSuffices
<1>3. BurstSpan + o <= Window
  BY <1>2, ConstantFacts
<1> QED
  BY <1>2, <1>3, ConstantFacts DEF Age

(* A burst that waits is counted by a check that looks now. *)
LEMMA WaitingIsCounted ==
  ASSUME TypeOK, Checks, NEW d \in HasDlqTable, overdue[d] # None, Waits(d)
  PROVE  /\ overdue[d] \in Nat /\ BurstSpan + overdue[d] \in Age
         /\ Counted(d) >= Threshold
<1>1. /\ overdue[d] \in Nat /\ failures[d] \in 0..Tolerated /\ sinceCheck \in 0..Period
      /\ rows[d] \in [Age -> Nat]
  BY ConstantFacts DEF TypeOK, None
<1>2. failures[d] * Period \in Nat
  BY <1>1, WindowSuffices
<1>3. overdue[d] <= failures[d] * Period + Period
  BY <1>1, <1>2, ConstantFacts DEF Waits
<1>4. BurstSpan + overdue[d] \in Age
  BY <1>1, <1>3, NoLongerThanWindow
<1>5. BurstSpan + overdue[d] \in Age /\ Window \in Age
  BY <1>4, ConstantFacts DEF Age
<1>6. Recent(d, BurstSpan + overdue[d]) <= Counted(d)
  BY <1>1, <1>5, UpToGrows, ConstantFacts DEF Recent, Counted, Age
<1>7. Recent(d, BurstSpan + overdue[d]) \in Nat /\ Counted(d) \in Nat
  BY <1>1, <1>5, UpToRecurs DEF Recent, Counted
<1> QED
  BY <1>1, <1>5, <1>6, <1>7, ConstantFacts DEF Waits

LEMMA LandKeepsBursts ==
  ASSUME TypeOK, Checks, BurstsWait, NEW e \in HasDlqTable, Land(e),
         NEW d \in HasDlqTable, overdue'[d] # None
  PROVE  Waits(d)'
<1>1. /\ overdue[d] \in Nat \cup {None} /\ failures[d] \in 0..Tolerated /\ sinceCheck \in Nat
      /\ rows[d] \in [Age -> Nat] /\ failures[d] * Period \in Nat
  BY ConstantFacts, WindowSuffices DEF TypeOK
<1>2. next' = next /\ sinceCheck' = sinceCheck /\ failures' = failures
  BY DEF Land, checkVars
<1>3. CASE d # e
  <2>1. rows'[d] = rows[d] /\ overdue'[d] = overdue[d]
    BY <1>3 DEF Land, TypeOK
  <2> QED
    BY <1>2, <2>1 DEF BurstsWait, Waits, Recent, Behind
<1>4. CASE d = e
  <2>0. 0 \in Age
    BY ConstantFacts DEF Age
  <2>1. rows'[d] \in [Age -> Nat] /\ rows'[d][0] = rows[d][0] + 1
        /\ \A a \in Age \ {0} : rows'[d][a] = rows[d][a]
    BY <1>1, <1>4, <2>0 DEF Land, TypeOK
  <2>2. \A a \in Age : UpTo(rows'[d], a) = UpTo(rows[d], a) + 1 /\ UpTo(rows[d], a) \in Nat
    <3> HIDE DEF Age
    <3> QED
      BY <1>1, <2>1, UpToCountsNewRow, UpToRecurs
  <2>3. CASE overdue[d] = None
    <3>1. overdue'[d] = 0 /\ Recent(d, BurstSpan) + 1 >= Threshold
      BY <1>4, <2>3 DEF Land, TypeOK
    <3>2. UpTo(rows'[d], BurstSpan) >= Threshold /\ BurstSpan + 0 = BurstSpan
      BY <2>2, <3>1, WindowSuffices, ConstantFacts DEF Recent, Age
    <3>3. overdue'[d] <= failures'[d] * Period + IF next' = 0 THEN sinceCheck' ELSE Period
      BY <1>1, <1>2, <3>1, ConstantFacts
    <3> QED
      BY <3>1, <3>2, <3>3 DEF Waits, Recent, Behind
  <2>4. CASE overdue[d] # None
    <3>1. overdue'[d] = overdue[d]
      BY <1>4, <2>4 DEF Land, TypeOK
    <3>2. Waits(d) /\ BurstSpan + overdue[d] \in Age
      BY <2>4, WaitingIsCounted DEF BurstsWait
    <3>3. UpTo(rows'[d], BurstSpan + overdue[d]) >= Threshold
      BY <2>2, <3>2, ConstantFacts DEF Waits, Recent
    <3> QED
      BY <1>2, <3>1, <3>2, <3>3 DEF Waits, Recent, Behind
  <2> QED
    BY <2>3, <2>4
<1> QED
  BY <1>3, <1>4

LEMMA TickKeepsBursts ==
  ASSUME TypeOK, Checks, BurstsWait, Tick, NEW d \in HasDlqTable, overdue'[d] # None
  PROVE  Waits(d)'
<1>1. /\ overdue[d] \in Nat \cup {None} /\ failures[d] \in 0..Tolerated
      /\ sinceCheck \in Nat /\ sinceCheck + 1 <= Period
      /\ rows[d] \in [Age -> Nat] /\ failures[d] * Period \in Nat
  BY ConstantFacts, WindowSuffices DEF TypeOK, Tick
<1>2. overdue[d] # None /\ overdue'[d] = overdue[d] + 1 /\ overdue[d] \in Nat
  BY <1>1 DEF Tick
<1>3. Waits(d) /\ BurstSpan + overdue[d] \in Age
  BY <1>2, WaitingIsCounted DEF BurstsWait
<1>4. overdue'[d] <= failures[d] * Period + (sinceCheck + 1)
  BY <1>1, <1>2, <1>3 DEF Waits, Tick
<1>5. BurstSpan + overdue'[d] \in Age /\ BurstSpan + overdue'[d] = (BurstSpan + overdue[d]) + 1
      /\ BurstSpan + overdue[d] \in Nat
  <2>1. overdue'[d] \in Nat /\ overdue'[d] <= failures[d] * Period + Period
    BY <1>1, <1>2, <1>4, ConstantFacts
  <2>2. BurstSpan + overdue'[d] \in Age /\ BurstSpan \in Nat
    BY <1>1, <2>1, NoLongerThanWindow
  <2> QED
    BY <1>2, <2>2
<1>6. /\ rows'[d] \in [Age -> Nat] /\ rows'[d][0] = 0
      /\ \A a \in Age \ {0} : rows'[d][a] = rows[d][a - 1]
  <2>1. rows'[d] = [a \in Age |-> IF a = 0 THEN 0 ELSE rows[d][a - 1]]
    BY DEF Tick
  <2>2. \A a \in Age : a # 0 => a - 1 \in Age
    BY ConstantFacts DEF Age
  <2>3. 0 \in Age
    BY ConstantFacts DEF Age
  <2> QED
    BY <1>1, <2>1, <2>2, <2>3
<1>7. UpTo(rows'[d], (BurstSpan + overdue[d]) + 1) = UpTo(rows[d], BurstSpan + overdue[d])
  <2>1. \A a \in Age : a # 0 => UpTo(rows'[d], a) = UpTo(rows[d], a - 1)
    BY <1>1, <1>6, UpToFollowsAge
  <2>2. (BurstSpan + overdue[d]) + 1 # 0
        /\ ((BurstSpan + overdue[d]) + 1) - 1 = BurstSpan + overdue[d]
    BY <1>5
  <2> QED
    BY <1>5, <2>1, <2>2
<1>8. Recent(d, BurstSpan + overdue[d])' >= Threshold
  BY <1>3, <1>5, <1>7 DEF Recent, Waits
<1> QED
  BY <1>4, <1>8 DEF Waits, Tick

LEMMA StepKeepsBursts ==
  ASSUME TypeOK, Checks, BurstsWait, [Next]_vars
  PROVE  BurstsWait'
<1> SUFFICES ASSUME NEW d \in HasDlqTable, overdue'[d] # None PROVE Waits(d)'
  BY DEF BurstsWait, None
<1>0. /\ overdue[d] \in Nat \cup {None} /\ failures[d] \in 0..Tolerated
      /\ sinceCheck \in 0..Period /\ failures[d] * Period \in Nat
      /\ next \in 0..(Len(DomainList) + 1)
  BY ConstantFacts, WindowSuffices DEF TypeOK
<1>1. CASE \E e \in HasDlqTable : Land(e)
  BY <1>1, LandKeepsBursts
<1>2. CASE Tick
  BY <1>2, TickKeepsBursts
(* A check goes on, or has begun, without d. *)
<1>3. ASSUME overdue'[d] = overdue[d], failures'[d] = failures[d], rows' = rows,
             sinceCheck' = sinceCheck, next # 0, next' # 0, Behind(d)' => Behind(d)
      PROVE  Waits(d)'
  BY <1>3 DEF BurstsWait, Waits, Recent
<1>4. ASSUME next \in DOMAIN DomainList, next' = next + 1, DomainList[next] # d
      PROVE  Behind(d)' => Behind(d)
  <2>1. \A i \in 1..(next' - 1) : i = next \/ i \in 1..(next - 1)
    BY <1>0, <1>4
  <2> QED
    BY <1>4, <2>1 DEF Behind
<1>5. CASE StartCheck
  <2>1. /\ overdue'[d] = overdue[d] /\ failures'[d] = failures[d] /\ rows' = rows
        /\ next = 0 /\ next' = 1
    BY <1>5 DEF StartCheck, historyVars
  <2>2. ~Behind(d)'
    BY <2>1 DEF Behind
  <2>3. Waits(d)
    BY <2>1 DEF BurstsWait
  <2> QED
    BY <1>0, <2>1, <2>2, <2>3, ConstantFacts DEF Waits, Recent
<1>6. ASSUME NEW e \in Domain, Skip(e) PROVE Waits(d)'
  BY <1>0, <1>3, <1>4, <1>6, ConstantFacts DEF Skip, AtDomain, historyVars
<1>7. ASSUME NEW e \in Domain, Query(e) PROVE Waits(d)'
  <2>1. /\ UNCHANGED <<rows, sinceCheck, overdue, failures>>
        /\ next \in DOMAIN DomainList /\ DomainList[next] = e
    BY <1>7 DEF Query, AtDomain, historyVars
  <2>2. CASE Exceeds(e)
    <3>1. next' = next
      BY <1>7, <2>2 DEF Query
    <3> QED
      BY <1>3, <2>1, <3>1, ConstantFacts DEF Behind
  <2>3. CASE ~Exceeds(e)
    <3>1. next' = next + 1
      BY <1>7, <2>3 DEF Query
    <3>2. d # e
      BY <2>1, <2>3, WaitingIsCounted DEF BurstsWait, Exceeds
    <3> QED
      BY <1>0, <1>3, <1>4, <2>1, <3>1, <3>2, ConstantFacts
  <2> QED
    BY <2>2, <2>3
<1>8. ASSUME NEW e \in Domain, Notify(e) PROVE Waits(d)'
  <2>1. d # e
    BY <1>8 DEF Notify, TypeOK
  <2>2. overdue'[d] = overdue[d] /\ failures'[d] = failures[d]
    BY <1>8, <2>1 DEF Notify, TypeOK
  <2> QED
    BY <1>0, <1>3, <1>4, <1>8, <2>1, <2>2, ConstantFacts DEF Notify, AtDomain
<1>9. CASE Return
  <2>1. /\ next = Len(DomainList) + 1 /\ next' = 0
        /\ UNCHANGED <<rows, sinceCheck, overdue, failures>>
    BY <1>9 DEF Return, EndCheck, historyVars
  <2>2. Behind(d)
    BY <2>1, ConstantFacts DEF Behind, Domain
  <2>3. Waits(d) /\ overdue[d] = 0
    BY <2>1, <2>2, ConstantFacts DEF BurstsWait, Waits
  <2> QED
    BY <1>0, <2>1, <2>3, ConstantFacts DEF Waits, Recent
<1>10. ASSUME Abort, next # 0 PROVE Waits(d)'
  <2>1. failures[d] < Tolerated /\ overdue'[d] = overdue[d] /\ failures'[d] = failures[d] + 1
    BY <1>10 DEF Abort
  <2>2. next' = 0 /\ rows' = rows /\ sinceCheck' = sinceCheck
    BY <1>10 DEF Abort, EndCheck
  <2>3. Waits(d) /\ overdue[d] <= failures[d] * Period + Period
    BY <1>10, <2>1 DEF BurstsWait, Waits
  <2>4. (failures[d] + 1) * Period = failures[d] * Period + Period
    BY <1>0, WindowSuffices
  <2>5. overdue'[d] <= failures'[d] * Period + sinceCheck'
    BY <1>0, <2>1, <2>2, <2>3, <2>4, ConstantFacts DEF None
  <2> QED
    BY <2>1, <2>2, <2>3, <2>5 DEF Waits, Recent
<1>11. ASSUME NEW e \in Domain, QueryRaises(e) \/ NotifierRaises(e) PROVE Waits(d)'
  BY <1>10, <1>11, ConstantFacts DEF QueryRaises, NotifierRaises, AtDomain
<1>12. CASE UNCHANGED vars
  BY <1>12 DEF vars, BurstsWait, Waits, Recent, Behind
<1> QED
  BY <1>1, <1>2, <1>5, <1>6, <1>7, <1>8, <1>9, <1>11, <1>12 DEF Next

-----------------------------------------------------------------------------
LEMMA MonitorInvariant == Spec => [](TypeOK /\ Checks /\ BurstsWait)
<1>1. Init => TypeOK /\ Checks /\ BurstsWait
  <2> SUFFICES ASSUME Init PROVE TypeOK /\ Checks /\ BurstsWait
    OBVIOUS
  <2>1. /\ rows \in [HasDlqTable -> [Age -> 0..MaxRows]] /\ sinceCheck \in 0..Period
        /\ failures \in [HasDlqTable -> 0..Tolerated] /\ next \in 0..(Len(DomainList) + 1)
    BY ConstantFacts DEF Init
  <2>2. overdue \in [HasDlqTable -> {None} \cup Nat] /\ results = {} /\ reported = {}
    BY DEF Init
  <2>3. exceeded \in BOOLEAN /\ returned \in BOOLEAN
    BY ONLY Init, Zenon DEF Init
  <2>4. BurstsWait /\ Checks
    BY DEF Init, BurstsWait, Checks, Passed, Behind
  <2> QED
    BY <2>1, <2>2, <2>3, <2>4 DEF TypeOK, Init
<1>2. TypeOK /\ Checks /\ BurstsWait /\ [Next]_vars => (TypeOK /\ Checks /\ BurstsWait)'
  BY StepKeepsTypes, StepKeepsBursts
<1> QED
  BY <1>1, <1>2, PTL DEF Spec

(* A check has results, and raises incidents, only for domains that have a  *)
(* dlq table, an incident only with a result, and a list that is returned   *)
(* has all of these domains (health.py, check_dlq_thresholds).              *)
THEOREM TypeCorrect == Spec => []TypeOK
  BY MonitorInvariant, PTL

(* No burst goes unnoticed: whatever the window, the threshold, the rhythm  *)
(* of the checks and the point of a running check at which the rows land,   *)
(* an incident follows within a Period, and one more for each check that    *)
(* raised.                                                                  *)
THEOREM BurstsAreReported == Spec => []BurstIsReported
<1>1. ASSUME TypeOK, Checks, BurstsWait PROVE BurstIsReported
  <2> SUFFICES ASSUME NEW d \in HasDlqTable
               PROVE  overdue[d] <= (failures[d] + IF next = 0 /\ sinceCheck = 0 THEN 0 ELSE 1)
                                      * Period
    BY DEF BurstIsReported
  <2>1. /\ overdue[d] \in Nat \cup {None}
        /\ failures[d] \in 0..Tolerated /\ sinceCheck \in 0..Period
        /\ failures[d] * Period \in Nat
        /\ (failures[d] + 1) * Period = failures[d] * Period + Period
    BY <1>1, ConstantFacts, WindowSuffices DEF TypeOK
  <2>2. overdue[d] <= failures[d] * Period + IF next = 0 THEN sinceCheck ELSE Period
    BY <1>1, <2>1, ConstantFacts DEF BurstsWait, Waits, None
  <2>3. CASE next = 0 /\ sinceCheck = 0
    BY <2>1, <2>2, <2>3, ConstantFacts DEF None
  <2>4. CASE ~(next = 0 /\ sinceCheck = 0)
    BY <2>1, <2>2, <2>4, ConstantFacts DEF None
  <2> QED
    BY <2>3, <2>4
<1> QED
  BY <1>1, MonitorInvariant, PTL
=============================================================================
