--------------------- MODULE WindowedAggregation_proofs ---------------------
(***************************************************************************)
(* Proofs about WindowedAggregation, for any number of events and panes:   *)
(* the algebra of the accumulators, which is what makes bundling and merge *)
(* order not matter; that no event is in two places; sums over finite      *)
(* sets; and with them what the panes say, when they are judged, what a    *)
(* merge that raises may cost, and that the end of a window reports all of *)
(* it.                                                                     *)
(***************************************************************************)
EXTENDS WindowedAggregation, FiniteSetTheorems, TLAPS

(* Every domain's accumulator has numbers and at most one "last".           *)
LEMMA EmptyType ==
  ASSUME NEW c \in Combiner
  PROVE  Empty(c) \in Accumulator(c)
  BY DEF Empty, Accumulator

LEMMA IncrementType ==
  ASSUME NEW c, NEW e \in Input, NEW f
  PROVE  Increment(c, e, f) \in Int
<1>1. e.order_total \in Int \cup {NotANumber}
  BY DEF Input
<1> QED
  BY <1>1 DEF Increment

LEMMA AddInputType ==
  ASSUME NEW c \in Combiner, NEW acc \in Accumulator(c), NEW e \in Input
  PROVE  AddInput(c, acc, e) \in Accumulator(c)
<1>1. acc \in [Fields(c) -> Int \cup Place \cup {None}]
      /\ \A f \in Fields(c) : acc[f] \in IF f = "last" THEN Place \cup {None} ELSE Int
  BY DEF Accumulator
<1>2. e.place \in Place \cup {None}
  BY DEF Input
<1>3. \A f \in Fields(c) : AddInput(c, acc, e)[f] \in IF f = "last" THEN Place \cup {None} ELSE Int
  BY <1>1, <1>2, IncrementType DEF AddInput, LastAfter
<1>4. AddInput(c, acc, e) \in [Fields(c) -> Int \cup Place \cup {None}]
  BY <1>1, <1>3 DEF AddInput
<1> QED
  BY <1>3, <1>4 DEF Accumulator

LEMMA MergeType ==
  ASSUME NEW c \in Combiner, NEW a \in Accumulator(c), NEW b \in Accumulator(c)
  PROVE  Merge(a, b) \in Accumulator(c)
<1>1. \A x \in Accumulator(c) :
        /\ x \in [Fields(c) -> Int \cup Place \cup {None}]
        /\ \A f \in Fields(c) : x[f] \in IF f = "last" THEN Place \cup {None} ELSE Int
  BY DEF Accumulator
<1>2. \A f \in Fields(c) : Merge(a, b)[f] \in IF f = "last" THEN Place \cup {None} ELSE Int
  BY <1>1 DEF Merge
<1>3. Merge(a, b) \in [Fields(c) -> Int \cup Place \cup {None}]
  BY <1>1, <1>2 DEF Merge
<1> QED
  BY <1>2, <1>3 DEF Accumulator

-----------------------------------------------------------------------------
(* What the numbers of an accumulator are, spelled out for the provers.     *)
LEMMA NumbersAreIntegers ==
  ASSUME NEW c \in Combiner, NEW a \in Accumulator(c)
  PROVE  /\ DOMAIN a = Fields(c)
         /\ Numbers(a) = Fields(c) \ {"last"}
         /\ \A f \in Numbers(a) : a[f] \in Int
  BY DEF Accumulator, Numbers

(* However a window's bundles are grouped, merging them gives the same      *)
(* accumulator, "last" included.                                            *)
THEOREM MergeIsAssociative ==
  ASSUME NEW c \in Combiner,
         NEW x \in Accumulator(c), NEW y \in Accumulator(c), NEW z \in Accumulator(c)
  PROVE  Merge(Merge(x, y), z) = Merge(x, Merge(y, z))
<1> DEFINE F == Fields(c)
           l == Merge(Merge(x, y), z)
           r == Merge(x, Merge(y, z))
<1>1. Merge(x, y) \in Accumulator(c) /\ Merge(y, z) \in Accumulator(c)
  BY MergeType
<1>2. l \in [F -> Int \cup Place \cup {None}] /\ r \in [F -> Int \cup Place \cup {None}]
  BY <1>1, MergeType DEF Accumulator
<1>3. \A f \in F \ {"last"} : x[f] \in Int /\ y[f] \in Int /\ z[f] \in Int
  BY NumbersAreIntegers
<1>4. \A f \in F : l[f] = r[f]
  BY <1>1, <1>3, NumbersAreIntegers DEF Merge
<1> QED
  BY <1>2, <1>4

(* In which order two bundles are merged does not show in the numbers; it   *)
(* does in "last".                                                          *)
THEOREM MergeCommutes ==
  ASSUME NEW c \in Combiner, NEW a \in Accumulator(c), NEW b \in Accumulator(c),
         NEW f \in Numbers(a)
  PROVE  Merge(a, b)[f] = Merge(b, a)[f]
  BY NumbersAreIntegers DEF Merge

(* An empty accumulator, as a bundle begins with and a discarding trigger   *)
(* leaves behind, adds nothing.                                             *)
THEOREM EmptyIsNeutral ==
  ASSUME NEW c \in Combiner, NEW a \in Accumulator(c)
  PROVE  Merge(a, Empty(c)) = a /\ Merge(Empty(c), a) = a
<1>1. a \in [Fields(c) -> Int \cup Place \cup {None}]
      /\ \A f \in Fields(c) \ {"last"} : a[f] \in Int
  BY DEF Accumulator
<1>2. /\ DOMAIN Empty(c) = Fields(c)
      /\ \A f \in Fields(c) : Empty(c)[f] = IF f = "last" THEN None ELSE 0
  BY DEF Empty
<1> QED
  BY <1>1, <1>2 DEF Merge

(* An event adds the same to the numbers whether it is added to the window  *)
(* or to a bundle of its own that is merged into the window.                *)
THEOREM BundlingIsIrrelevant ==
  ASSUME NEW c \in Combiner, NEW a \in Accumulator(c), NEW b \in Accumulator(c),
         NEW e \in Input, NEW f \in Numbers(a)
  PROVE  Merge(a, AddInput(c, b, e))[f] = AddInput(c, Merge(a, b), e)[f]
<1>1. /\ f \in Fields(c) /\ f # "last" /\ a[f] \in Int /\ b[f] \in Int
      /\ DOMAIN a = Fields(c) /\ DOMAIN b = Fields(c)
  BY NumbersAreIntegers
<1>2. Increment(c, e, f) \in Int
  BY IncrementType
<1>3. AddInput(c, b, e)[f] = b[f] + Increment(c, e, f)
  BY <1>1 DEF AddInput
<1>4. Merge(a, b)[f] = a[f] + b[f] /\ DOMAIN Merge(a, b) = Fields(c)
  BY <1>1 DEF Merge
<1>5. Merge(a, AddInput(c, b, e))[f] = a[f] + (b[f] + Increment(c, e, f))
  BY <1>1, <1>3 DEF Merge
<1>6. AddInput(c, Merge(a, b), e)[f] = a[f] + b[f] + Increment(c, e, f)
  BY <1>1, <1>4 DEF AddInput
<1> QED
  BY <1>1, <1>2, <1>5, <1>6

-----------------------------------------------------------------------------
(* Alerts are alerts, whatever the numbers.                                 *)
LEMMA AlertsType ==
  ASSUME NEW c, NEW acc
  PROVE  Alerts(c, acc) \in SUBSET AlertRecord
<1>1. \A t \in {"high_cancellation_rate", "refund_spike", "high_cart_abandonment_rate",
               "high_near_miss_abandonment"} :
        Alert(t, "high") \in AlertRecord /\ Alert(t, "medium") \in AlertRecord
  BY DEF Alert, AlertRecord
<1>2. OrderAlerts(acc) \subseteq AlertRecord /\ QuoteAlerts(acc) \subseteq AlertRecord
  BY <1>1 DEF OrderAlerts, QuoteAlerts, RateAlert
<1> QED
  BY <1>2 DEF Alerts

(* No event is in two of the four places.                                   *)
Apart ==
  /\ coming \cap bundle = {} /\ coming \cap held = {} /\ coming \cap lost = {}
  /\ bundle \cap held = {} /\ bundle \cap lost = {} /\ held \cap lost = {}

Typed ==
  /\ mode \in ModeType /\ Buildable(mode)
  /\ watermark \in 0..(WindowEnd + mode.lateness)
  /\ partial \in Accumulator(mode.combiner) /\ window \in Accumulator(mode.combiner)
  /\ due \in BOOLEAN
  /\ panes \in Seq(Pane)
  /\ coming \cup bundle \cup held \cup lost = Event

IInv == Typed /\ Apart

LEMMA ModeIsSound ==
  ASSUME mode \in ModeType
  PROVE  /\ mode.combiner \in Combiner /\ mode.lateness \in Nat
         /\ \A e \in Event : mode.input[e] \in Input
  BY DEF ModeType

LEMMA PutOutKeepsTypes ==
  ASSUME IInv, PutOut
  PROVE  /\ panes' \in Seq(Pane') /\ window' \in Accumulator(mode'.combiner)
         /\ UNCHANGED <<mode, watermark, coming, partial, bundle, held, lost>>
<1>1. Pane' = Pane /\ mode' = mode
  BY DEF PutOut, Pane
<1>2. PICK o \in Outcome :
        panes' = Append(panes, [agg |-> window, to |-> o.to, judged |-> o.judged,
                                alerts |-> o.alerts, of |-> held])
  BY DEF PutOut
<1>3. /\ o.to \in {"table", "dlq"} /\ o.judged \in {"not", "yes", "dlq"}
      /\ o.alerts \in SUBSET AlertRecord
  BY AlertsType DEF Outcome
<1>4. [agg |-> window, to |-> o.to, judged |-> o.judged, alerts |-> o.alerts, of |-> held] \in Pane
  BY <1>3 DEF IInv, Typed, Pane
<1>5. New \in Accumulator(mode.combiner)
  BY EmptyType, ModeIsSound DEF New, IInv, Typed
<1> QED
  BY <1>1, <1>2, <1>4, <1>5 DEF PutOut, AfterPane, IInv, Typed

LEMMA StepKeepsInvariant == IInv /\ [Next]_vars => IInv'
<1> SUFFICES ASSUME IInv, [Next]_vars PROVE IInv'
  OBVIOUS
<1>0. /\ mode' = mode => Pane' = Pane
      /\ New \in Accumulator(mode.combiner)
      /\ mode.combiner \in Combiner /\ mode.lateness \in Nat
      /\ WindowEnd \in Nat
  BY EmptyType, ModeIsSound, AggregationAssumption DEF IInv, Typed, Pane, New
<1>1. ASSUME NEW e \in Event, Arrive(e) PROVE IInv'
  <2>1. partial' \in Accumulator(mode.combiner)
    BY <1>0, <1>1, AddInputType, ModeIsSound DEF Arrive, IInv, Typed
  <2> QED
    BY <1>0, <1>1, <2>1 DEF Arrive, IInv, Typed, Apart, Buildable
<1>2. CASE MergePartial
  <2>1. window' \in Accumulator(mode.combiner)
    BY <1>0, <1>2, MergeType DEF MergePartial, IInv, Typed
  <2> QED
    BY <1>0, <1>2, <2>1 DEF MergePartial, EndBundle, New, IInv, Typed, Apart, Buildable
<1>3. CASE MergeRaises
  <2>1. /\ window' \in Accumulator(mode.combiner) /\ partial' = New /\ bundle' = {}
        /\ due' \in BOOLEAN /\ UNCHANGED <<mode, watermark, coming, panes>>
        /\ \/ lost' = lost \cup bundle /\ held' = held
           \/ lost' = lost \cup held /\ held' = bundle
    BY <1>3 DEF MergeRaises, EndBundle, IInv, Typed
  <2>2. coming' \cup bundle' \cup held' \cup lost' = Event /\ Apart'
    BY <2>1 DEF IInv, Typed, Apart
  <2> QED
    BY <1>0, <2>1, <2>2 DEF IInv, Typed, Buildable
<1>4. CASE DropLate
  BY <1>0, <1>4 DEF DropLate, EndBundle, New, IInv, Typed, Apart, Buildable
<1>5. CASE FireEarly
  BY <1>0, <1>5, PutOutKeepsTypes DEF FireEarly, IInv, Typed, Apart, Buildable
<1>6. CASE Fire
  BY <1>0, <1>6, PutOutKeepsTypes DEF Fire, IInv, Typed, Apart, Buildable
<1>7. CASE Advance
  BY <1>0, <1>7 DEF Advance, Expired, IInv, Typed, Apart, Buildable
<1>8. CASE UNCHANGED vars
  BY <1>0, <1>8 DEF vars, IInv, Typed, Apart, Buildable
<1> QED
  BY <1>1, <1>2, <1>3, <1>4, <1>5, <1>6, <1>7, <1>8 DEF Next

LEMMA InitInvariant == Init => IInv
<1> SUFFICES ASSUME Init PROVE IInv
  OBVIOUS
<1>1. mode \in ModeType /\ Buildable(mode)
  BY AggregationAssumption DEF Init
<1>2. New \in Accumulator(mode.combiner) /\ mode.lateness \in Nat
  BY <1>1, EmptyType, ModeIsSound DEF New
<1> QED
  <2>1. watermark \in 0..(WindowEnd + mode.lateness) /\ panes \in Seq(Pane)
    BY <1>2, AggregationAssumption DEF Init
  <2>2. Typed
    BY <1>1, <1>2, <2>1 DEF Init, Typed
  <2> QED
    BY <2>2 DEF Init, IInv, Apart

(* Every event is in just one place: still to come, in the bundle in hand,  *)
(* in the window, or lost; and the accumulators are the domain's.           *)
THEOREM TypeCorrect == Spec => []TypeOK
<1>1. IInv => TypeOK
  <2> SUFFICES ASSUME IInv
               PROVE  Cardinality(coming) + Cardinality(bundle) + Cardinality(held)
                        + Cardinality(lost) = Cardinality(Event)
    BY DEF IInv, Typed, TypeOK
  <2>1. \A S \in SUBSET Event : IsFiniteSet(S)
    BY AggregationAssumption, FS_Subset
  <2>2. /\ coming \subseteq Event /\ bundle \subseteq Event
        /\ held \subseteq Event /\ lost \subseteq Event
    BY DEF IInv, Typed
  <2>3. \A S, R \in SUBSET Event :
          S \cap R = {} => Cardinality(S \cup R) = Cardinality(S) + Cardinality(R)
    <3> SUFFICES ASSUME NEW S \in SUBSET Event, NEW R \in SUBSET Event, S \cap R = {}
                 PROVE  Cardinality(S \cup R) = Cardinality(S) + Cardinality(R)
      OBVIOUS
    <3>1. IsFiniteSet(S) /\ IsFiniteSet(R)
      BY <2>1
    <3>2. Cardinality(S) \in Nat /\ Cardinality(R) \in Nat /\ Cardinality({}) = 0
      BY <3>1, FS_CardinalityType, FS_EmptySet
    <3> QED
      <4>1. Cardinality(S \cup R) = Cardinality(S) + Cardinality(R) - Cardinality(S \cap R)
        BY <3>1, FS_Union
      <4>2. Cardinality(S \cap R) = 0
        BY <3>2
      <4> QED
        BY <3>2, <4>1, <4>2
  <2>4. /\ Cardinality(coming \cup bundle) = Cardinality(coming) + Cardinality(bundle)
        /\ Cardinality(held \cup lost) = Cardinality(held) + Cardinality(lost)
    BY <2>2, <2>3 DEF IInv, Apart
  <2>5. Cardinality((coming \cup bundle) \cup (held \cup lost))
          = Cardinality(coming \cup bundle) + Cardinality(held \cup lost)
    BY <2>2, <2>3 DEF IInv, Apart
  <2>6. (coming \cup bundle) \cup (held \cup lost) = Event
    BY DEF IInv, Typed
  <2>7. /\ Cardinality(coming) \in Nat /\ Cardinality(bundle) \in Nat
        /\ Cardinality(held) \in Nat /\ Cardinality(lost) \in Nat
    BY <2>1, <2>2, FS_CardinalityType
  <2> QED
    <3>1. Cardinality(Event) = Cardinality(coming \cup bundle) + Cardinality(held \cup lost)
      BY <2>5, <2>6
    <3>2. Cardinality(Event)
            = (Cardinality(coming) + Cardinality(bundle)) + (Cardinality(held) + Cardinality(lost))
      BY <2>4, <3>1
    <3> QED
      BY <2>7, <3>2
<1> QED
  BY <1>1, InitInvariant, StepKeepsInvariant, PTL DEF Spec
-----------------------------------------------------------------------------
(* Folds.  The library's induction theorems take a predicate for parameter, *)
(* so induction over the subsets of a finite set is put in sets: one that   *)
(* has no least member is empty.                                            *)
LEMMA SubsetInduction ==
  ASSUME NEW S, IsFiniteSet(S), NEW Bad \in SUBSET (SUBSET S),
         \A s \in SUBSET S : (\A r \in SUBSET s : r # s => r \notin Bad) => s \notin Bad
  PROVE  Bad = {}
<1> SUFFICES ASSUME Bad # {} PROVE FALSE
  OBVIOUS
<1>1. IsWellFoundedOn(StrictSubsetOrdering(S), SUBSET S)
  <2>1. FiniteSubsetsOf(S) = SUBSET S
    BY FS_FiniteSubsetsOfFinite
  <2>2. IsWellFoundedOn(StrictSubsetOrdering(S), FiniteSubsetsOf(S))
    BY FS_StrictSubsetOrderingWellFounded
  <2> QED
    BY <2>1, <2>2
<1>2. PICK s \in Bad : \A r \in Bad : <<r, s>> \notin StrictSubsetOrdering(S)
  BY <1>1, WFMin
<1>3. \A r \in SUBSET s : r # s => r \notin Bad
  BY <1>2 DEF StrictSubsetOrdering
<1> QED
  BY <1>2, <1>3

Pick(s) == CHOOSE x \in s : TRUE

LEMMA PickIsMember ==
  ASSUME NEW s, s # {} PROVE Pick(s) \in s /\ s \ {Pick(s)} \in SUBSET s /\ s \ {Pick(s)} # s
<1>1. Pick(s) \in s
  BY DEF Pick
<1> QED
  BY <1>1

(* The equation of a fold over S: op, as a function of a pair, applied to   *)
(* the value of some element and the fold of the others.                    *)
Folded(it, op, base, g, S) ==
  it = [s \in SUBSET S |-> IF s = {} THEN base ELSE op[<<g[Pick(s)], it[s \ {Pick(s)}]>>]]

LEMMA FoldIsUnique ==
  ASSUME NEW S, NEW R, R \subseteq S, IsFiniteSet(R), NEW op, NEW base, NEW g,
         NEW i, Folded(i, op, base, g, S), NEW j, Folded(j, op, base, g, R)
  PROVE  \A s \in SUBSET R : i[s] = j[s]
<1> DEFINE Bad == {s \in SUBSET R : i[s] # j[s]}
<1>1. Bad \in SUBSET (SUBSET R) /\ \A s \in SUBSET R : s \notin Bad <=> i[s] = j[s]
  OBVIOUS
<1> HIDE DEF Bad
<1>2. ASSUME NEW s \in SUBSET R, \A r \in SUBSET s : r # s => r \notin Bad
      PROVE  i[s] = j[s]
  <2>1. CASE s = {}
    BY <2>1 DEF Folded
  <2>2. CASE s # {}
    <3>1. s \ {Pick(s)} \in SUBSET R /\ i[s \ {Pick(s)}] = j[s \ {Pick(s)}]
      BY <1>1, <1>2, <2>2, PickIsMember
    <3>2. i[s] = op[<<g[Pick(s)], i[s \ {Pick(s)}]>>]
      BY <2>2 DEF Folded
    <3>3. j[s] = op[<<g[Pick(s)], j[s \ {Pick(s)}]>>]
      BY <2>2 DEF Folded
    <3> QED
      BY <3>1, <3>2, <3>3
  <2> QED
    BY <2>1, <2>2
<1>3. \A s \in SUBSET R : (\A r \in SUBSET s : r # s => r \notin Bad) => s \notin Bad
  BY <1>1, <1>2
<1> QED
  BY <1>1, <1>3, SubsetInduction

(* The equation has a solution, built from those for the smaller subsets.   *)
LEMMA FoldExists ==
  ASSUME NEW S, IsFiniteSet(S), NEW X, NEW op \in [X \X X -> X], NEW base \in X,
         NEW g, \A x \in S : g[x] \in X
  PROVE  \E it \in [SUBSET S -> X] : Folded(it, op, base, g, S)
<1> DEFINE Good(s) == \E it \in [SUBSET s -> X] : Folded(it, op, base, g, s)
           Bad == {s \in SUBSET S : ~Good(s)}
           F(s) == CHOOSE it \in [SUBSET s -> X] : Folded(it, op, base, g, s)
<1>1. Bad \in SUBSET (SUBSET S) /\ \A s \in SUBSET S : s \notin Bad <=> Good(s)
  OBVIOUS
<1>2. ASSUME NEW s, Good(s) PROVE F(s) \in [SUBSET s -> X] /\ Folded(F(s), op, base, g, s)
  BY <1>2
<1> HIDE DEF Bad, F
<1>3. ASSUME NEW s \in SUBSET S, \A r \in SUBSET s : r # s => r \notin Bad PROVE Good(s)
  <2>0. \A r \in SUBSET s : r # s => Good(r)
    BY <1>1, <1>3
  <2> DEFINE Value(t) == IF t = {} THEN base
                         ELSE op[<<g[Pick(t)], F(t \ {Pick(t)})[t \ {Pick(t)}]>>]
             it == [t \in SUBSET s |-> Value(t)]
  <2> HIDE DEF Good
  <2>1. ASSUME NEW t \in SUBSET s PROVE Value(t) \in X
    <3>1. CASE t = {}
      BY <3>1
    <3>2. CASE t # {}
      <4>1. /\ Pick(t) \in S /\ t \ {Pick(t)} \in SUBSET s /\ t \ {Pick(t)} # s
        BY <3>2, PickIsMember
      <4>2. F(t \ {Pick(t)}) \in [SUBSET (t \ {Pick(t)}) -> X]
        BY <1>2, <2>0, <4>1
      <4>3. F(t \ {Pick(t)})[t \ {Pick(t)}] \in X
        BY <4>2
      <4> QED
        BY <3>2, <4>1, <4>3
    <3> QED
      BY <3>1, <3>2
  <2>2. it \in [SUBSET s -> X] /\ \A t \in SUBSET s : it[t] = Value(t)
    BY <2>1
  <2>3. ASSUME NEW t \in SUBSET s, t # s PROVE it[t] = F(t)[t]
    <3>1. Folded(F(t), op, base, g, t)
      BY <1>2, <2>0, <2>3
    <3>2. CASE t = {}
      <4>1. F(t)[t] = base
        BY <3>1, <3>2 DEF Folded
      <4> QED
        BY <2>2, <3>2, <4>1
    <3>3. CASE t # {}
      <4> DEFINE r == t \ {Pick(t)}
      <4>1. r \in SUBSET t /\ r \in SUBSET s /\ r # s /\ IsFiniteSet(r)
        BY <3>3, PickIsMember, FS_Subset
      <4>2. Folded(F(r), op, base, g, r)
        BY <1>2, <2>0, <4>1
      <4>3. F(t)[t] = op[<<g[Pick(t)], F(t)[r]>>]
        BY <3>1, <3>3 DEF Folded
      <4> HIDE DEF r
      <4>4. F(t)[r] = F(r)[r]
        BY <3>1, <4>1, <4>2, FoldIsUnique
      <4> QED
        BY <2>2, <3>3, <4>3, <4>4 DEF r
    <3> QED
      BY <3>2, <3>3
  <2>4. Folded(it, op, base, g, s)
    <3>1. ASSUME NEW t \in SUBSET s
          PROVE  it[t] = IF t = {} THEN base ELSE op[<<g[Pick(t)], it[t \ {Pick(t)}]>>]
      <4>1. CASE t = {}
        BY <2>2, <4>1
      <4>2. CASE t # {}
        <5>1. t \ {Pick(t)} \in SUBSET s /\ t \ {Pick(t)} # s
          BY <4>2, PickIsMember
        <5> HIDE DEF it
        <5> QED
          BY <2>2, <2>3, <4>2, <5>1
      <4> QED
        BY <4>1, <4>2
    <3>2. it = [t \in SUBSET s |-> it[t]]
      OBVIOUS
    <3> HIDE DEF it
    <3> QED
      BY <3>1, <3>2 DEF Folded
  <2> HIDE DEF it
  <2> QED
    BY <2>2, <2>4 DEF Good
<1>4. \A s \in SUBSET S : (\A r \in SUBSET s : r # s => r \notin Bad) => s \notin Bad
  BY <1>1, <1>3
<1>5. Bad = {}
  BY <1>1, <1>4, SubsetInduction
<1> QED
  BY <1>1, <1>5

-----------------------------------------------------------------------------
(* Sums of integers, as SumFunctionOnSet folds them. *)
Plus == [p \in Int \X Int |-> p[1] + p[2]]

LEMMA PlusAdds == Plus \in [Int \X Int -> Int] /\ \A a, b \in Int : Plus[<<a, b>>] = a + b
  BY DEF Plus

LEMMA SumIsFold ==
  ASSUME NEW S, IsFiniteSet(S), NEW g, \A x \in S : g[x] \in Int
  PROVE  \E it \in [SUBSET S -> Int] : Folded(it, Plus, 0, g, S) /\ SumFunctionOnSet(g, S) = it[S]
<1> DEFINE Solves(f) ==
             f = [s \in SUBSET S |-> IF s = {} THEN 0
                                     ELSE g[CHOOSE x \in s : TRUE] + f[s \ {CHOOSE x \in s : TRUE}]]
           sum == CHOOSE f : Solves(f)
<1>1. PICK it \in [SUBSET S -> Int] : Folded(it, Plus, 0, g, S)
  <2>1. \E i \in [SUBSET S -> Int] : Folded(i, Plus, 0, g, S)
    <3>1. Plus \in [Int \X Int -> Int] /\ 0 \in Int
      BY PlusAdds
    <3> QED
      BY <3>1, FoldExists
  <2> QED
    BY <2>1
<1>2. ASSUME NEW s \in SUBSET S, s # {}
      PROVE  /\ Pick(s) \in s /\ s \ {Pick(s)} \in SUBSET S
             /\ it[s] = g[Pick(s)] + it[s \ {Pick(s)}]
  <2>1. /\ Pick(s) \in S /\ Pick(s) \in s /\ s \ {Pick(s)} \in SUBSET S
        /\ it[s] = Plus[<<g[Pick(s)], it[s \ {Pick(s)}]>>]
    BY <1>1, <1>2, PickIsMember DEF Folded
  <2> QED
    BY <1>1, <2>1, PlusAdds
<1>3. it[{}] = 0
  BY <1>1 DEF Folded
<1>4. Solves(it)
  <2>1. it = [s \in SUBSET S |-> it[s]]
    BY <1>1
  <2>2. \A s \in SUBSET S : it[s] = IF s = {} THEN 0 ELSE g[Pick(s)] + it[s \ {Pick(s)}]
    BY <1>2, <1>3
  <2> QED
    BY <2>1, <2>2 DEF Pick
<1>5. Solves(sum)
  BY <1>4
<1>6. SumFunctionOnSet(g, S) = sum[S]
  BY DEF SumFunctionOnSet, FoldFunctionOnSet, MapThenFoldSet
<1> HIDE DEF sum
<1> DEFINE Bad == {s \in SUBSET S : sum[s] # it[s]}
<1>7. Bad \in SUBSET (SUBSET S) /\ \A s \in SUBSET S : s \notin Bad <=> sum[s] = it[s]
  OBVIOUS
<1>8. \A s \in SUBSET S : sum[s] = IF s = {} THEN 0 ELSE g[Pick(s)] + sum[s \ {Pick(s)}]
  BY <1>5 DEF Pick
<1> HIDE DEF Bad, Solves
<1>9. ASSUME NEW s \in SUBSET S, \A r \in SUBSET s : r # s => r \notin Bad PROVE s \notin Bad
  <2>1. CASE s = {}
    BY <1>3, <1>7, <1>8, <2>1
  <2>2. CASE s # {}
    <3>1. s \ {Pick(s)} \notin Bad /\ s \ {Pick(s)} \in SUBSET S
      BY <1>9, <2>2, PickIsMember
    <3> QED
      BY <1>2, <1>7, <1>8, <2>2, <3>1
  <2> QED
    BY <2>1, <2>2
<1>10. Bad = {}
  BY <1>7, <1>9, SubsetInduction
<1> QED
  BY <1>1, <1>6, <1>7, <1>10

LEMMA SumRecurs ==
  ASSUME NEW S, IsFiniteSet(S), NEW g, \A x \in S : g[x] \in Int
  PROVE  /\ SumFunctionOnSet(g, S) \in Int
         /\ S = {} => SumFunctionOnSet(g, S) = 0
         /\ S # {} => SumFunctionOnSet(g, S) = g[Pick(S)] + SumFunctionOnSet(g, S \ {Pick(S)})
<1>1. PICK it \in [SUBSET S -> Int] : Folded(it, Plus, 0, g, S) /\ SumFunctionOnSet(g, S) = it[S]
  BY SumIsFold
<1>2. SumFunctionOnSet(g, S) \in Int /\ (S = {} => SumFunctionOnSet(g, S) = 0)
  BY <1>1 DEF Folded
<1>3. ASSUME S # {} PROVE SumFunctionOnSet(g, S) = g[Pick(S)] + SumFunctionOnSet(g, S \ {Pick(S)})
  <2> DEFINE R == S \ {Pick(S)}
  <2>1. R \subseteq S /\ IsFiniteSet(R) /\ Pick(S) \in S /\ R \in SUBSET R
    BY <1>3, PickIsMember, FS_Subset
  <2>2. it[S] = Plus[<<g[Pick(S)], it[R]>>]
    BY <1>1, <1>3 DEF Folded
  <2> HIDE DEF R
  <2>3. PICK j \in [SUBSET R -> Int] : Folded(j, Plus, 0, g, R) /\ SumFunctionOnSet(g, R) = j[R]
    BY <2>1, SumIsFold
  <2>4. it[R] = j[R]
    BY <1>1, <2>1, <2>3, FoldIsUnique
  <2>5. SumFunctionOnSet(g, S) = g[Pick(S)] + SumFunctionOnSet(g, R)
    BY <1>1, <2>1, <2>2, <2>3, <2>4, PlusAdds
  <2> QED
    BY <2>5 DEF R
<1> QED
  BY <1>2, <1>3

(* Whichever element is taken first. *)
LEMMA SumRemove ==
  ASSUME NEW S, IsFiniteSet(S), NEW g, \A x \in S : g[x] \in Int
  PROVE  \A x \in S : SumFunctionOnSet(g, S) = g[x] + SumFunctionOnSet(g, S \ {x})
<1> DEFINE Good(s) == \A x \in s : SumFunctionOnSet(g, s) = g[x] + SumFunctionOnSet(g, s \ {x})
           Bad == {s \in SUBSET S : ~Good(s)}
<1>1. Bad \in SUBSET (SUBSET S) /\ \A s \in SUBSET S : s \notin Bad <=> Good(s)
  OBVIOUS
<1> HIDE DEF Bad
<1>2. ASSUME NEW s \in SUBSET S, \A r \in SUBSET s : r # s => r \notin Bad PROVE Good(s)
  <2> SUFFICES ASSUME NEW x \in s PROVE SumFunctionOnSet(g, s) = g[x] + SumFunctionOnSet(g, s \ {x})
    OBVIOUS
  <2>1. \A r \in SUBSET S : IsFiniteSet(r) /\ \A y \in r : g[y] \in Int
    BY FS_Subset
  <2> DEFINE y == Pick(s)
             r == s \ {y}
             q == s \ {x}
  <2>2. s # {} /\ y \in s /\ r \in SUBSET s /\ r # s /\ q \in SUBSET s /\ q # s
    BY PickIsMember
  <2>3. SumFunctionOnSet(g, s) = g[y] + SumFunctionOnSet(g, r)
    BY <2>1, <2>2, SumRecurs
  <2> HIDE DEF y
  <2>4. CASE x = y
    BY <2>3, <2>4
  <2>5. CASE x # y
    <3>1. x \in r /\ y \in q /\ r \ {x} = q \ {y} /\ r \ {x} \in SUBSET S
      BY <2>2, <2>5
    <3>2. Good(r) /\ Good(q)
      BY <1>1, <1>2, <2>2
    <3> HIDE DEF r, q
    <3>3. /\ SumFunctionOnSet(g, r) = g[x] + SumFunctionOnSet(g, r \ {x})
          /\ SumFunctionOnSet(g, q) = g[y] + SumFunctionOnSet(g, r \ {x})
      BY <3>1, <3>2
    <3>4. SumFunctionOnSet(g, r \ {x}) \in Int /\ g[x] \in Int /\ g[y] \in Int
      BY <2>1, <2>2, <3>1, SumRecurs
    <3>5. SumFunctionOnSet(g, s) = g[x] + SumFunctionOnSet(g, q)
      BY <2>3, <3>3, <3>4
    <3> QED
      BY <3>5 DEF q
  <2> QED
    BY <2>4, <2>5
<1>3. \A s \in SUBSET S : (\A r \in SUBSET s : r # s => r \notin Bad) => s \notin Bad
  BY <1>1, <1>2
<1>4. Bad = {}
  BY <1>1, <1>3, SubsetInduction
<1> QED
  BY <1>1, <1>4

LEMMA SumAdd ==
  ASSUME NEW S, IsFiniteSet(S), NEW x, x \notin S, NEW g, \A y \in S \cup {x} : g[y] \in Int
  PROVE  SumFunctionOnSet(g, S \cup {x}) = SumFunctionOnSet(g, S) + g[x]
<1>1. IsFiniteSet(S \cup {x}) /\ (S \cup {x}) \ {x} = S /\ x \in S \cup {x}
  BY FS_AddElement
<1>2. SumFunctionOnSet(g, S \cup {x}) = g[x] + SumFunctionOnSet(g, (S \cup {x}) \ {x})
  BY <1>1, SumRemove
<1>3. SumFunctionOnSet(g, S) \in Int /\ g[x] \in Int
  BY SumRecurs
<1>4. SumFunctionOnSet(g, S \cup {x}) = g[x] + SumFunctionOnSet(g, S)
  BY <1>1, <1>2
<1> QED
  BY <1>3, <1>4

LEMMA SumSame ==
  ASSUME NEW S, IsFiniteSet(S), NEW g, NEW h, \A x \in S : g[x] \in Int /\ h[x] = g[x]
  PROVE  SumFunctionOnSet(h, S) = SumFunctionOnSet(g, S)
<1> DEFINE Bad == {s \in SUBSET S : SumFunctionOnSet(h, s) # SumFunctionOnSet(g, s)}
<1>1. /\ Bad \in SUBSET (SUBSET S)
      /\ \A s \in SUBSET S :
           s \notin Bad <=> SumFunctionOnSet(h, s) = SumFunctionOnSet(g, s)
  OBVIOUS
<1> HIDE DEF Bad
<1>2. ASSUME NEW s \in SUBSET S, \A r \in SUBSET s : r # s => r \notin Bad
      PROVE  SumFunctionOnSet(h, s) = SumFunctionOnSet(g, s)
  <2>1. IsFiniteSet(s) /\ \A x \in s : g[x] \in Int /\ h[x] \in Int
    BY FS_Subset
  <2>2. CASE s = {}
    BY <2>1, <2>2, SumRecurs
  <2>3. CASE s # {}
    <3>1. SumFunctionOnSet(h, s) = h[Pick(s)] + SumFunctionOnSet(h, s \ {Pick(s)})
      BY <2>1, <2>3, SumRecurs
    <3>2. SumFunctionOnSet(g, s) = g[Pick(s)] + SumFunctionOnSet(g, s \ {Pick(s)})
      BY <2>1, <2>3, SumRecurs
    <3>3. Pick(s) \in s /\ SumFunctionOnSet(h, s \ {Pick(s)}) = SumFunctionOnSet(g, s \ {Pick(s)})
      BY <1>1, <1>2, <2>3, PickIsMember
    <3> QED
      BY <3>1, <3>2, <3>3
  <2> QED
    BY <2>2, <2>3
<1>3. \A s \in SUBSET S : (\A r \in SUBSET s : r # s => r \notin Bad) => s \notin Bad
  BY <1>1, <1>2
<1>4. Bad = {}
  BY <1>1, <1>3, SubsetInduction
<1> QED
  BY <1>1, <1>4

LEMMA SumUnion ==
  ASSUME NEW S, IsFiniteSet(S), NEW R, IsFiniteSet(R), S \cap R = {},
         NEW g, \A x \in S \cup R : g[x] \in Int
  PROVE  SumFunctionOnSet(g, S \cup R) = SumFunctionOnSet(g, S) + SumFunctionOnSet(g, R)
<1> DEFINE Good(r) == SumFunctionOnSet(g, S \cup r)
                        = SumFunctionOnSet(g, S) + SumFunctionOnSet(g, r)
           Bad == {r \in SUBSET R : ~Good(r)}
<1>1. Bad \in SUBSET (SUBSET R) /\ \A r \in SUBSET R : r \notin Bad <=> Good(r)
  OBVIOUS
<1> HIDE DEF Bad
<1>2. ASSUME NEW r \in SUBSET R, \A q \in SUBSET r : q # r => q \notin Bad PROVE Good(r)
  <2>1. IsFiniteSet(r) /\ SumFunctionOnSet(g, r) \in Int /\ SumFunctionOnSet(g, S) \in Int
    BY FS_Subset, SumRecurs
  <2>2. CASE r = {}
    BY <2>1, <2>2, SumRecurs
  <2>3. CASE r # {}
    <3> DEFINE x == Pick(r)
               q == r \ {x}
    <3>1. x \in r /\ q \in SUBSET r /\ q # r /\ S \cup r = (S \cup q) \cup {x} /\ x \notin S \cup q
          /\ r = q \cup {x}
      BY <2>3, PickIsMember
    <3> HIDE DEF x
    <3>2. IsFiniteSet(q) /\ IsFiniteSet(S \cup q)
      BY <2>1, <3>1, FS_Subset, FS_Union
    <3>3. Good(q)
      BY <1>1, <1>2, <3>1
    <3> HIDE DEF q
    <3>4. SumFunctionOnSet(g, S \cup r) = SumFunctionOnSet(g, S \cup q) + g[x]
      BY <3>1, <3>2, SumAdd
    <3>5. SumFunctionOnSet(g, r) = SumFunctionOnSet(g, q) + g[x]
      BY <3>1, <3>2, SumAdd
    <3>6. SumFunctionOnSet(g, q) \in Int /\ g[x] \in Int
      BY <3>1, <3>2, SumRecurs
    <3> QED
      BY <2>1, <3>3, <3>4, <3>5, <3>6
  <2> QED
    BY <2>2, <2>3
<1>3. \A r \in SUBSET R : (\A q \in SUBSET r : q # r => q \notin Bad) => r \notin Bad
  BY <1>1, <1>2
<1>4. Bad = {}
  BY <1>1, <1>3, SubsetInduction
<1> QED
  BY <1>1, <1>4

-----------------------------------------------------------------------------
(* The sum of a field over the panes, and what the channels, regions or     *)
(* product types of the events S are.                                       *)
Column(ps, f) == [i \in DOMAIN ps |-> ps[i].agg[f]]

Places(m, S) == {m.input[e].place : e \in S}

Forgotten(m, S) ==
  IF m.combiner = "applicant_360" THEN Places(m, S) = {None} ELSE None \in Places(m, S)

(* acc is the aggregate of S in mode m: Describes, with its sums.           *)
Tells(m, acc, S) ==
  /\ \A f \in Fields(m.combiner) \ {"last"} : acc[f] = SumFunctionOnSet(Increments(m, f), S)
  /\ "last" \in Fields(m.combiner) =>
       /\ acc.last \in Places(m, S) \cup {None}
       /\ acc.last = None /\ S # {} => Forgotten(m, S)

LEMMA IncrementsAdd ==
  ASSUME NEW m \in ModeType, NEW f, NEW S \in SUBSET Event
  PROVE  /\ IsFiniteSet(S)
         /\ \A e \in Event : Increments(m, f)[e] = Increment(m.combiner, m.input[e], f)
         /\ \A e \in Event : Increments(m, f)[e] \in Int
         /\ SumFunctionOnSet(Increments(m, f), S) \in Int
         /\ S = {} => SumFunctionOnSet(Increments(m, f), S) = 0
<1>1. \A e \in Event : Increments(m, f)[e] = Increment(m.combiner, m.input[e], f)
  BY DEF Increments
<1>2. \A e \in Event : Increments(m, f)[e] \in Int
  BY <1>1, IncrementType DEF ModeType
<1>3. IsFiniteSet(S)
  BY AggregationAssumption, FS_Subset
<1>4. \A e \in S : Increments(m, f)[e] \in Int
  BY <1>2
<1> QED
  BY <1>1, <1>2, <1>3, <1>4, SumRecurs

LEMMA DescribesIsTells ==
  ASSUME mode \in ModeType, NEW acc \in Accumulator(mode.combiner), NEW S \in SUBSET Event
  PROVE  Describes(acc, S) <=> Tells(mode, acc, S)
<1>1. DOMAIN acc = Fields(mode.combiner) /\ Numbers(acc) = Fields(mode.combiner) \ {"last"}
  BY NumbersAreIntegers, ModeIsSound
<1>2. Numbers(New) = Fields(mode.combiner) \ {"last"}
  BY EmptyType, NumbersAreIntegers, ModeIsSound DEF New
<1>3. \A f \in Numbers(acc) : Reference(S)[f] = SumFunctionOnSet(Increments(mode, f), S)
  BY <1>1, <1>2 DEF Reference
<1> QED
  BY <1>1, <1>3 DEF Describes, Tells, Places, Forgotten

LEMMA TellsNothing ==
  ASSUME NEW m \in ModeType
  PROVE  Tells(m, Empty(m.combiner), {})
<1>1. \A f \in Fields(m.combiner) : Empty(m.combiner)[f] = IF f = "last" THEN None ELSE 0
  BY DEF Empty
<1> QED
  BY <1>1, IncrementsAdd DEF Tells

(* add_input adds the event to what the accumulator tells of.               *)
LEMMA TellsOneMore ==
  ASSUME NEW m \in ModeType, NEW S \in SUBSET Event, NEW e \in Event \ S,
         NEW acc \in Accumulator(m.combiner), Tells(m, acc, S)
  PROVE  Tells(m, AddInput(m.combiner, acc, m.input[e]), S \cup {e})
<1> DEFINE a == AddInput(m.combiner, acc, m.input[e])
<1>0. DOMAIN acc = Fields(m.combiner) /\ m.combiner \in Combiner
  BY NumbersAreIntegers DEF ModeType
<1>1. ASSUME NEW f \in Fields(m.combiner) \ {"last"}
      PROVE  a[f] = SumFunctionOnSet(Increments(m, f), S \cup {e})
  <2>1. a[f] = acc[f] + Increment(m.combiner, m.input[e], f)
    BY <1>0, <1>1 DEF AddInput
  <2>2. SumFunctionOnSet(Increments(m, f), S \cup {e})
          = SumFunctionOnSet(Increments(m, f), S) + Increments(m, f)[e]
    <3>1. IsFiniteSet(S) /\ \A y \in S \cup {e} : Increments(m, f)[y] \in Int
      BY IncrementsAdd
    <3> QED
      BY <3>1, SumAdd
  <2> QED
    BY <1>1, <2>1, <2>2, IncrementsAdd DEF Tells
<1>2. ASSUME "last" \in Fields(m.combiner)
      PROVE  /\ a.last \in Places(m, S \cup {e}) \cup {None}
             /\ a.last = None => Forgotten(m, S \cup {e})
  <2>1. a.last = LastAfter(m.combiner, acc.last, m.input[e].place)
    BY <1>0, <1>2 DEF AddInput
  <2>2. Places(m, S \cup {e}) = Places(m, S) \cup {m.input[e].place}
    BY DEF Places
  <2>3. S = {} => Places(m, S) = {}
    BY DEF Places
  <2> QED
    BY <1>2, <2>1, <2>2, <2>3 DEF Tells, Forgotten, LastAfter
<1> QED
  BY <1>1, <1>2 DEF Tells

(* What merge_accumulators makes of two accumulators of different events    *)
(* tells of all of them.                                                    *)
LEMMA TellsBoth ==
  ASSUME NEW m \in ModeType, NEW S \in SUBSET Event, NEW R \in SUBSET Event, S \cap R = {},
         NEW a \in Accumulator(m.combiner), Tells(m, a, S),
         NEW b \in Accumulator(m.combiner), Tells(m, b, R)
  PROVE  Tells(m, Merge(a, b), S \cup R)
<1>0. DOMAIN a = Fields(m.combiner) /\ DOMAIN b = Fields(m.combiner) /\ m.combiner \in Combiner
  BY NumbersAreIntegers DEF ModeType
<1>1. ASSUME NEW f \in Fields(m.combiner) \ {"last"}
      PROVE  Merge(a, b)[f] = SumFunctionOnSet(Increments(m, f), S \cup R)
  <2>1. Merge(a, b)[f] = a[f] + b[f]
    BY <1>0, <1>1 DEF Merge
  <2>2. SumFunctionOnSet(Increments(m, f), S \cup R)
          = SumFunctionOnSet(Increments(m, f), S) + SumFunctionOnSet(Increments(m, f), R)
    <3>1. IsFiniteSet(S) /\ IsFiniteSet(R) /\ \A y \in S \cup R : Increments(m, f)[y] \in Int
      BY IncrementsAdd
    <3> QED
      BY <3>1, SumUnion
  <2> QED
    BY <1>1, <2>1, <2>2 DEF Tells
<1>2. ASSUME "last" \in Fields(m.combiner)
      PROVE  /\ Merge(a, b).last \in Places(m, S \cup R) \cup {None}
             /\ Merge(a, b).last = None /\ S \cup R # {} => Forgotten(m, S \cup R)
  <2>1. Merge(a, b).last = IF b.last = None THEN a.last ELSE b.last
    BY <1>0, <1>2 DEF Merge
  <2>2. Places(m, S \cup R) = Places(m, S) \cup Places(m, R)
    BY DEF Places
  <2>3. (S = {} => Places(m, S) = {}) /\ (R = {} => Places(m, R) = {})
    BY DEF Places
  <2> QED
    BY <1>2, <2>1, <2>2, <2>3 DEF Tells, Forgotten
<1> QED
  BY <1>1, <1>2 DEF Tells

-----------------------------------------------------------------------------
(* Total, the panes merged with each other. *)
MergePairs(c) == [p \in Accumulator(c) \X Accumulator(c) |-> Merge(p[1], p[2])]

LEMMA MergePairsMerges ==
  ASSUME NEW c \in Combiner
  PROVE  /\ MergePairs(c) \in [Accumulator(c) \X Accumulator(c) -> Accumulator(c)]
         /\ \A a, b \in Accumulator(c) : MergePairs(c)[<<a, b>>] = Merge(a, b)
  BY MergeType DEF MergePairs

LEMMA PanesAreFinite ==
  ASSUME NEW ps, NEW P, ps \in Seq(P)
  PROVE  DOMAIN ps = 1..Len(ps) /\ Len(ps) \in Nat /\ IsFiniteSet(DOMAIN ps)
<1>1. DOMAIN ps = 1..Len(ps) /\ Len(ps) \in Nat
  OBVIOUS
<1>2. IsFiniteSet(1..Len(ps))
  BY <1>1, FS_Interval
<1> QED
  BY <1>1, <1>2

LEMMA PaneTypes ==
  ASSUME IInv
  PROVE  \A i \in DOMAIN panes : /\ panes[i].agg \in Accumulator(mode.combiner)
                                 /\ panes[i].of \in SUBSET Event
<1>1. panes \in Seq(Pane)
  BY DEF IInv, Typed
<1>2. \A i \in DOMAIN panes : panes[i] \in Pane
  BY <1>1
<1>3. \A p \in Pane : p.agg \in Accumulator(mode.combiner) /\ p.of \in SUBSET Event
  BY DEF Pane
<1> QED
  BY <1>2, <1>3

(* Total's numbers are the sums of the panes', and its last channel, region *)
(* or product type is some pane's, if any pane has one.                     *)
LEMMA TotalSums ==
  ASSUME IInv
  PROVE  /\ Total \in Accumulator(mode.combiner)
         /\ \A f \in Fields(mode.combiner) \ {"last"} :
              Total[f] = SumFunctionOnSet(Column(panes, f), DOMAIN panes)
         /\ "last" \in Fields(mode.combiner) =>
              /\ Total.last \in {panes[i].agg.last : i \in DOMAIN panes} \cup {None}
              /\ Total.last = None => \A i \in DOMAIN panes : panes[i].agg.last = None
<1> DEFINE c == mode.combiner
           S == DOMAIN panes
           g == [i \in S |-> panes[i].agg]
           Solves(h) == h = [s \in SUBSET S |-> IF s = {} THEN New
                                                ELSE Merge(panes[CHOOSE i \in s : TRUE].agg,
                                                           h[s \ {CHOOSE i \in s : TRUE}])]
           all == CHOOSE h : Solves(h)
<1>0. c \in Combiner /\ New \in Accumulator(c) /\ New = Empty(c) /\ IsFiniteSet(S)
  BY ModeIsSound, EmptyType, PanesAreFinite DEF New, IInv, Typed
<1>1. \A i \in S : panes[i].agg \in Accumulator(c)
  BY PaneTypes
<1>2. PICK it \in [SUBSET S -> Accumulator(c)] : Folded(it, MergePairs(c), New, g, S)
  <2>1. MergePairs(c) \in [Accumulator(c) \X Accumulator(c) -> Accumulator(c)]
    BY <1>0, MergePairsMerges
  <2>2. \A i \in S : g[i] \in Accumulator(c)
    BY <1>1
  <2> HIDE DEF c, S, g
  <2>3. \E it \in [SUBSET S -> Accumulator(c)] : Folded(it, MergePairs(c), New, g, S)
    BY <1>0, <2>1, <2>2, FoldExists
  <2> QED
    BY <2>3
<1>3. \A s \in SUBSET S : s # {} => /\ Pick(s) \in S /\ s \ {Pick(s)} \in SUBSET S
                                    /\ s \ {Pick(s)} \in SUBSET s /\ s \ {Pick(s)} # s
                                    /\ Pick(s) \in s
  BY PickIsMember
<1>4. Solves(it)
  <2>1. it = [s \in SUBSET S |-> it[s]]
    BY <1>2
  <2>2. ASSUME NEW s \in SUBSET S
        PROVE  it[s] = IF s = {} THEN New ELSE Merge(panes[Pick(s)].agg, it[s \ {Pick(s)}])
    <3>1. CASE s = {}
      BY <1>2, <3>1 DEF Folded
    <3>2. CASE s # {}
      <4>1. it[s] = MergePairs(c)[<<g[Pick(s)], it[s \ {Pick(s)}]>>]
        BY <1>2, <3>2 DEF Folded
      <4>2. g[Pick(s)] = panes[Pick(s)].agg /\ panes[Pick(s)].agg \in Accumulator(c)
            /\ it[s \ {Pick(s)}] \in Accumulator(c)
        BY <1>1, <1>2, <1>3, <3>2
      <4>3. ASSUME NEW a \in Accumulator(c), NEW b \in Accumulator(c)
            PROVE  MergePairs(c)[<<a, b>>] = Merge(a, b)
        BY <1>0, MergePairsMerges
      <4>4. it[s] = MergePairs(c)[<<panes[Pick(s)].agg, it[s \ {Pick(s)}]>>]
        BY <4>1, <4>2
      <4>5. it[s] = Merge(panes[Pick(s)].agg, it[s \ {Pick(s)}])
        <5> HIDE DEF c, S, g
        <5> QED
          BY <4>2, <4>3, <4>4
      <4> QED
        BY <3>2, <4>5
    <3> QED
      BY <3>1, <3>2
  <2> QED
    BY <2>1, <2>2 DEF Pick
<1>5. Solves(all)
  BY <1>4
<1>6. Total = all[S]
  BY DEF Total, MapThenFoldSet
<1> HIDE DEF all
<1>7. \A s \in SUBSET S :
        all[s] = IF s = {} THEN New ELSE Merge(panes[Pick(s)].agg, all[s \ {Pick(s)}])
  BY <1>5 DEF Pick
<1> DEFINE Good(s) ==
      /\ all[s] \in Accumulator(c)
      /\ \A f \in Fields(c) \ {"last"} : all[s][f] = SumFunctionOnSet(Column(panes, f), s)
      /\ "last" \in Fields(c) =>
           /\ all[s].last \in {panes[i].agg.last : i \in s} \cup {None}
           /\ all[s].last = None => \A i \in s : panes[i].agg.last = None
           Bad == {s \in SUBSET S : ~Good(s)}
<1>8. Bad \in SUBSET (SUBSET S) /\ \A s \in SUBSET S : s \notin Bad <=> Good(s)
  OBVIOUS
<1>9. \A f \in Fields(c) \ {"last"}, i \in S :
        Column(panes, f)[i] = panes[i].agg[f] /\ panes[i].agg[f] \in Int
  BY <1>0, <1>1, NumbersAreIntegers DEF Column
<1> HIDE DEF Bad, Solves, g
<1>10. ASSUME NEW s \in SUBSET S, \A r \in SUBSET s : r # s => r \notin Bad PROVE Good(s)
  <2>1. IsFiniteSet(s)
    BY <1>0, FS_Subset
  <2>2. \A f \in Fields(c) \ {"last"}, i \in s : Column(panes, f)[i] \in Int
    BY <1>9
  <2>3. CASE s = {}
    <3>1. all[s] = Empty(c)
      BY <1>0, <1>7, <2>3
    <3>2. \A f \in Fields(c) : Empty(c)[f] = IF f = "last" THEN None ELSE 0
      BY DEF Empty
    <3>3. \A f \in Fields(c) \ {"last"} : SumFunctionOnSet(Column(panes, f), s) = 0
      BY <2>1, <2>2, <2>3, SumRecurs
    <3> QED
      BY <1>0, <2>3, <3>1, <3>2, <3>3
  <2>4. CASE s # {}
    <3> DEFINE i == Pick(s)
               r == s \ {i}
    <3>1. i \in S /\ i \in s /\ r \in SUBSET S /\ Good(r)
      BY <1>3, <1>8, <1>10, <2>4
    <3>2. all[s] = Merge(panes[i].agg, all[r])
      BY <1>7, <2>4
    <3>3. \A f \in Fields(c) \ {"last"} :
            SumFunctionOnSet(Column(panes, f), s)
              = Column(panes, f)[i] + SumFunctionOnSet(Column(panes, f), r)
      BY <2>1, <2>2, <2>4, SumRecurs
    <3>4. s = r \cup {i}
      BY <3>1
    <3> HIDE DEF i, r
    <3>5. panes[i].agg \in Accumulator(c) /\ all[r] \in Accumulator(c)
      BY <1>1, <3>1
    <3>6. all[s] \in Accumulator(c)
      BY <1>0, <3>2, <3>5, MergeType
    <3>7. ASSUME NEW f \in Fields(c) \ {"last"}
          PROVE  all[s][f] = SumFunctionOnSet(Column(panes, f), s)
      <4>1. all[s][f] = panes[i].agg[f] + all[r][f]
        BY <1>0, <3>2, <3>5, NumbersAreIntegers DEF Merge
      <4> QED
        BY <1>9, <3>1, <3>3, <4>1
    <3>8. ASSUME "last" \in Fields(c)
          PROVE  /\ all[s].last \in {panes[j].agg.last : j \in s} \cup {None}
                 /\ all[s].last = None => \A j \in s : panes[j].agg.last = None
      <4>1. all[s].last = IF all[r].last = None THEN panes[i].agg.last ELSE all[r].last
        BY <1>0, <3>2, <3>5, <3>8, NumbersAreIntegers DEF Merge
      <4>2. /\ all[r].last \in {panes[j].agg.last : j \in r} \cup {None}
            /\ all[r].last = None => \A j \in r : panes[j].agg.last = None
        BY <3>1, <3>8
      <4> QED
        BY <3>4, <4>1, <4>2
    <3> QED
      BY <3>6, <3>7, <3>8
  <2> QED
    BY <2>3, <2>4
<1>11. \A s \in SUBSET S : (\A r \in SUBSET s : r # s => r \notin Bad) => s \notin Bad
  <2> HIDE DEF Good
  <2> QED
    BY <1>8, <1>10
<1>12. Bad = {}
  <2> HIDE DEF Good, S
  <2> QED
    BY <1>0, <1>8, <1>11, SubsetInduction
<1>13. Good(S)
  <2> HIDE DEF Good
  <2> QED
    BY <1>8, <1>12
<1> QED
  BY <1>6, <1>13
-----------------------------------------------------------------------------
(* What the panes say together of a number; and discarding panes ps and the *)
(* accumulator w that between them are the aggregate of S.                  *)
PaneSum(ps, f) == SumFunctionOnSet(Column(ps, f), DOMAIN ps)

Spread(m, ps, w, S) ==
  /\ \A f \in Fields(m.combiner) \ {"last"} :
       PaneSum(ps, f) + w[f] = SumFunctionOnSet(Increments(m, f), S)
  /\ "last" \in Fields(m.combiner) =>
       /\ w.last \in Places(m, S) \cup {None}
       /\ \A i \in DOMAIN ps : ps[i].agg.last \in Places(m, S) \cup {None}
       /\ w.last = None /\ (\A i \in DOMAIN ps : ps[i].agg.last = None) /\ S # {}
            => Forgotten(m, S)

(* Panes with accumulators of c, as the model's are.                        *)
PanesOf(c, ps) ==
  /\ ps \in Seq(Pane)
  /\ \A i \in DOMAIN ps : ps[i].agg \in Accumulator(c)

LEMMA PaneSumGrows ==
  ASSUME NEW c \in Combiner, NEW ps, PanesOf(c, ps),
         NEW x \in Pane, x.agg \in Accumulator(c), NEW f \in Fields(c) \ {"last"}
  PROVE  /\ PaneSum(ps, f) \in Int
         /\ PaneSum(<<>>, f) = 0
         /\ PaneSum(Append(ps, x), f) = PaneSum(ps, f) + x.agg[f]
<1> DEFINE qs == Append(ps, x)
           k == Len(ps) + 1
<1>1. DOMAIN ps = 1..Len(ps) /\ Len(ps) \in Nat /\ IsFiniteSet(DOMAIN ps)
  BY PanesAreFinite DEF PanesOf
<1>2. /\ DOMAIN qs = DOMAIN ps \cup {k} /\ k \notin DOMAIN ps /\ qs[k] = x
      /\ \A i \in DOMAIN ps : qs[i] = ps[i]
  BY <1>1 DEF PanesOf
<1> HIDE DEF qs, k
<1>3. /\ \A i \in DOMAIN ps : Column(ps, f)[i] \in Int /\ Column(qs, f)[i] = Column(ps, f)[i]
      /\ Column(qs, f)[k] = x.agg[f] /\ x.agg[f] \in Int
  BY <1>2, NumbersAreIntegers DEF Column, PanesOf
<1>4. SumFunctionOnSet(Column(ps, f), DOMAIN ps) \in Int
  BY <1>1, <1>3, SumRecurs
<1>5. SumFunctionOnSet(Column(qs, f), DOMAIN ps \cup {k})
        = SumFunctionOnSet(Column(qs, f), DOMAIN ps) + Column(qs, f)[k]
  <2>1. \A i \in DOMAIN ps \cup {k} : Column(qs, f)[i] \in Int
    BY <1>3
  <2> QED
    BY <1>1, <1>2, <2>1, SumAdd
<1>6. SumFunctionOnSet(Column(qs, f), DOMAIN ps) = SumFunctionOnSet(Column(ps, f), DOMAIN ps)
  BY <1>1, <1>3, SumSame
<1>7. PaneSum(<<>>, f) = 0
  <2>1. DOMAIN << >> = {}
    OBVIOUS
  <2>2. SumFunctionOnSet(Column(<<>>, f), {}) = 0
    BY SumRecurs, FS_EmptySet
  <2> QED
    BY <2>1, <2>2 DEF PaneSum
<1>8. PaneSum(qs, f) = PaneSum(ps, f) + x.agg[f]
  BY <1>2, <1>3, <1>5, <1>6 DEF PaneSum
<1> QED
  BY <1>4, <1>7, <1>8 DEF PaneSum, qs

(* Nothing has been put out yet.                                            *)
LEMMA SpreadIsTells ==
  ASSUME NEW m \in ModeType, NEW w \in Accumulator(m.combiner), NEW S
  PROVE  Spread(m, <<>>, w, S) <=> Tells(m, w, S)
<1>1. \A f \in Fields(m.combiner) \ {"last"} : PaneSum(<<>>, f) = 0 /\ w[f] \in Int
  <2> SUFFICES ASSUME NEW f \in Fields(m.combiner) \ {"last"}
               PROVE  PaneSum(<<>>, f) = 0 /\ w[f] \in Int
    OBVIOUS
  <2>1. DOMAIN << >> = {}
    OBVIOUS
  <2>2. SumFunctionOnSet(Column(<<>>, f), {}) = 0
    BY SumRecurs, FS_EmptySet
  <2>3. m.combiner \in Combiner
    BY DEF ModeType
  <2> QED
    BY <2>1, <2>2, <2>3, NumbersAreIntegers DEF PaneSum
<1>2. DOMAIN << >> = {}
  OBVIOUS
<1> QED
  BY <1>1, <1>2 DEF Spread, Tells

(* A bundle of other events is merged into the window.                      *)
LEMMA SpreadMore ==
  ASSUME NEW m \in ModeType, NEW ps, PanesOf(m.combiner, ps),
         NEW S \in SUBSET Event, NEW R \in SUBSET Event, S \cap R = {},
         NEW w \in Accumulator(m.combiner), NEW b \in Accumulator(m.combiner),
         Spread(m, ps, w, S), Tells(m, b, R),
         NEW v \in {Merge(w, b), Merge(b, w)}
  PROVE  Spread(m, ps, v, S \cup R)
<1>0. DOMAIN w = Fields(m.combiner) /\ DOMAIN b = Fields(m.combiner) /\ m.combiner \in Combiner
  BY NumbersAreIntegers DEF ModeType
<1>1. ASSUME NEW f \in Fields(m.combiner) \ {"last"}
      PROVE  PaneSum(ps, f) + v[f] = SumFunctionOnSet(Increments(m, f), S \cup R)
  <2>1. w[f] \in Int /\ b[f] \in Int
    BY <1>0, NumbersAreIntegers
  <2>2. v[f] = w[f] + b[f]
    BY <1>0, <2>1 DEF Merge
  <2>3. SumFunctionOnSet(Increments(m, f), S \cup R)
          = SumFunctionOnSet(Increments(m, f), S) + SumFunctionOnSet(Increments(m, f), R)
    <3>1. IsFiniteSet(S) /\ IsFiniteSet(R) /\ \A y \in S \cup R : Increments(m, f)[y] \in Int
      BY IncrementsAdd
    <3> QED
      BY <3>1, SumUnion
  <2>4. PaneSum(ps, f) \in Int
    <3>1. IsFiniteSet(DOMAIN ps) /\ \A i \in DOMAIN ps : Column(ps, f)[i] \in Int
      BY <1>0, PanesAreFinite, NumbersAreIntegers DEF PanesOf, Column
    <3> QED
      BY <3>1, SumRecurs DEF PaneSum
  <2>5. /\ PaneSum(ps, f) + w[f] = SumFunctionOnSet(Increments(m, f), S)
        /\ b[f] = SumFunctionOnSet(Increments(m, f), R)
    BY DEF Spread, Tells
  <2> QED
    BY <2>1, <2>2, <2>3, <2>4, <2>5
<1>2. ASSUME "last" \in Fields(m.combiner)
      PROVE  /\ v.last \in Places(m, S \cup R) \cup {None}
             /\ \A i \in DOMAIN ps : ps[i].agg.last \in Places(m, S \cup R) \cup {None}
             /\ v.last = None /\ (\A i \in DOMAIN ps : ps[i].agg.last = None) /\ S \cup R # {}
                  => Forgotten(m, S \cup R)
  <2>1. v.last = (IF b.last = None THEN w.last ELSE b.last)
        \/ v.last = (IF w.last = None THEN b.last ELSE w.last)
    BY <1>0, <1>2 DEF Merge
  <2>2. Places(m, S \cup R) = Places(m, S) \cup Places(m, R)
    BY DEF Places
  <2>3. (S = {} => Places(m, S) = {}) /\ (R = {} => Places(m, R) = {})
    BY DEF Places
  <2> QED
    BY <1>2, <2>1, <2>2, <2>3 DEF Tells, Spread, Forgotten
<1> QED
  BY <1>1, <1>2 DEF Spread

(* The window is put out, and begins anew.                                  *)
LEMMA SpreadOut ==
  ASSUME NEW m \in ModeType, NEW ps, PanesOf(m.combiner, ps), NEW S,
         NEW x \in Pane, x.agg \in Accumulator(m.combiner), Spread(m, ps, x.agg, S)
  PROVE  Spread(m, Append(ps, x), Empty(m.combiner), S)
<1> DEFINE qs == Append(ps, x)
           k == Len(ps) + 1
<1>1. DOMAIN ps = 1..Len(ps) /\ Len(ps) \in Nat /\ m.combiner \in Combiner
  BY PanesAreFinite DEF PanesOf, ModeType
<1>2. /\ DOMAIN qs = DOMAIN ps \cup {k} /\ qs[k] = x
      /\ \A i \in DOMAIN ps : qs[i] = ps[i]
  BY <1>1 DEF PanesOf
<1>3. \A f \in Fields(m.combiner) :
        Empty(m.combiner)[f] = IF f = "last" THEN None ELSE 0
  BY DEF Empty
<1>4. ASSUME NEW f \in Fields(m.combiner) \ {"last"}
      PROVE  PaneSum(qs, f) + Empty(m.combiner)[f] = SumFunctionOnSet(Increments(m, f), S)
  <2>1. PaneSum(qs, f) = PaneSum(ps, f) + x.agg[f] /\ PaneSum(ps, f) \in Int
    BY <1>1, PaneSumGrows
  <2>2. x.agg[f] \in Int
    BY <1>1, NumbersAreIntegers
  <2> HIDE DEF qs
  <2> QED
    BY <1>3, <2>1, <2>2 DEF Spread
<1> HIDE DEF qs, k
<1>5. ASSUME "last" \in Fields(m.combiner)
      PROVE  /\ Empty(m.combiner).last = None
             /\ \A i \in DOMAIN qs : qs[i].agg.last \in Places(m, S) \cup {None}
             /\ (\A i \in DOMAIN qs : qs[i].agg.last = None) /\ S # {} => Forgotten(m, S)
  BY <1>2, <1>3, <1>5 DEF Spread
<1>6. Spread(m, qs, Empty(m.combiner), S)
  BY <1>4, <1>5 DEF Spread
<1> QED
  BY <1>6 DEF qs
-----------------------------------------------------------------------------
(* What an accumulating or a discarding window with its panes says; PanesAddUp *)
(* with the bundle in hand, without which it would not last.                *)
AddsUp ==
  ~mode.faulty =>
    /\ Tells(mode, partial, bundle)
    /\ mode.accumulating => /\ Tells(mode, window, held)
                            /\ \A i \in DOMAIN panes : Tells(mode, panes[i].agg, panes[i].of)
    /\ ~mode.accumulating => Spread(mode, panes, window, held)

LEMMA InPlay ==
  ASSUME IInv
  PROVE  /\ mode.combiner \in Combiner /\ mode \in ModeType
         /\ partial \in Accumulator(mode.combiner) /\ window \in Accumulator(mode.combiner)
         /\ New = Empty(mode.combiner)
         /\ bundle \in SUBSET Event /\ held \in SUBSET Event /\ lost \in SUBSET Event
         /\ bundle \cap held = {} /\ bundle \cap lost = {} /\ held \cap lost = {}
         /\ IsFiniteSet(bundle) /\ IsFiniteSet(held) /\ IsFiniteSet(lost)
         /\ PanesOf(mode.combiner, panes)
<1>1. bundle \in SUBSET Event /\ held \in SUBSET Event /\ lost \in SUBSET Event
  BY DEF IInv, Typed
<1>2. IsFiniteSet(bundle) /\ IsFiniteSet(held) /\ IsFiniteSet(lost)
  BY <1>1, AggregationAssumption, FS_Subset
<1>3. PanesOf(mode.combiner, panes)
  BY PaneTypes DEF PanesOf, IInv, Typed
<1> QED
  BY <1>1, <1>2, <1>3, ModeIsSound DEF IInv, Typed, Apart, New

(* The pane that is put out, and what is left.                              *)
LEMMA PutOutAppends ==
  ASSUME IInv, PutOut
  PROVE  \E x \in Pane :
           /\ panes' = Append(panes, x)
           /\ x.agg = window /\ x.of = held
           /\ ~mode.faulty => x.alerts = Alerts(mode.combiner, window)
           /\ DOMAIN panes' = DOMAIN panes \cup {Len(panes) + 1}
           /\ panes'[Len(panes) + 1] = x
           /\ \A i \in DOMAIN panes : panes'[i] = panes[i]
<1>1. PICK o \in Outcome :
        panes' = Append(panes, [agg |-> window, to |-> o.to, judged |-> o.judged,
                                alerts |-> o.alerts, of |-> held])
  BY DEF PutOut
<1> DEFINE x == [agg |-> window, to |-> o.to, judged |-> o.judged,
                 alerts |-> o.alerts, of |-> held]
<1>2. /\ o.to \in {"table", "dlq"} /\ o.judged \in {"not", "yes", "dlq"}
      /\ o.alerts \in SUBSET AlertRecord
  BY AlertsType DEF Outcome
<1>3. x \in Pane
  BY <1>2 DEF IInv, Typed, Pane
<1>4. ~mode.faulty => o.alerts = Alerts(mode.combiner, window)
  BY DEF Outcome
<1>5. panes \in Seq(Pane) /\ DOMAIN panes = 1..Len(panes) /\ Len(panes) \in Nat
  BY PanesAreFinite DEF IInv, Typed
<1>6. panes' = Append(panes, x) /\ x.agg = window /\ x.of = held /\ x.alerts = o.alerts
  BY <1>1
<1> HIDE DEF x
<1>7. /\ DOMAIN panes' = DOMAIN panes \cup {Len(panes) + 1}
      /\ panes'[Len(panes) + 1] = x
      /\ \A i \in DOMAIN panes : panes'[i] = panes[i]
  BY <1>3, <1>5, <1>6
<1> QED
  BY <1>3, <1>4, <1>6, <1>7

LEMMA PutOutAddsUp ==
  ASSUME IInv, AddsUp, PutOut PROVE AddsUp'
<1> SUFFICES ASSUME ~mode.faulty PROVE AddsUp'
  BY DEF AddsUp, PutOut
<1>1. PICK x \in Pane :
        /\ panes' = Append(panes, x)
        /\ x.agg = window /\ x.of = held
        /\ DOMAIN panes' = DOMAIN panes \cup {Len(panes) + 1}
        /\ panes'[Len(panes) + 1] = x
        /\ \A i \in DOMAIN panes : panes'[i] = panes[i]
  BY PutOutAppends
<1>2. UNCHANGED <<mode, partial, bundle, held>>
  BY DEF PutOut
<1>3. ASSUME mode.accumulating
      PROVE  /\ Tells(mode', window', held')
             /\ \A i \in DOMAIN panes' : Tells(mode', panes'[i].agg, panes'[i].of)
  <2>1. window' = window
    BY <1>3 DEF PutOut, AfterPane
  <2> QED
    BY <1>1, <1>2, <1>3, <2>1 DEF AddsUp
<1>4. ASSUME ~mode.accumulating
      PROVE  Spread(mode', panes', window', held')
  <2>1. window' = Empty(mode.combiner)
    BY <1>4, InPlay DEF PutOut, AfterPane
  <2>2. Spread(mode, panes, window, held)
    BY <1>4 DEF AddsUp
  <2>3. Spread(mode, Append(panes, x), Empty(mode.combiner), held)
    BY <1>1, <2>2, InPlay, SpreadOut
  <2> QED
    BY <1>1, <1>2, <2>1, <2>3
<1> QED
  BY <1>2, <1>3, <1>4 DEF AddsUp

LEMMA StepAddsUp == IInv /\ AddsUp /\ [Next]_vars => AddsUp'
<1> SUFFICES ASSUME IInv, AddsUp, [Next]_vars, ~mode.faulty PROVE AddsUp'
  BY DEF AddsUp, Next, vars, Arrive, MergePartial, MergeRaises, DropLate, FireEarly, Fire,
         PutOut, Advance
<1>0. Tells(mode, New, {})
  BY InPlay, TellsNothing
<1>1. ASSUME NEW e \in Event, Arrive(e) PROVE AddsUp'
  <2>1. e \in Event \ bundle
    BY <1>1 DEF Arrive, IInv, Apart
  <2>2. Tells(mode, partial', bundle')
    BY <1>1, <2>1, InPlay, TellsOneMore DEF Arrive, AddsUp
  <2> QED
    BY <1>1, <2>2 DEF Arrive, AddsUp
<1>2. CASE MergePartial
  <2>1. /\ window' \in {Merge(window, partial), Merge(partial, window)}
        /\ held' = held \cup bundle /\ partial' = New /\ bundle' = {}
        /\ UNCHANGED <<mode, panes>>
    BY <1>2 DEF MergePartial, EndBundle
  <2>2. mode.accumulating => Tells(mode, window', held')
    <3> SUFFICES ASSUME mode.accumulating PROVE Tells(mode, window', held')
      OBVIOUS
    <3>1. Tells(mode, window, held) /\ Tells(mode, partial, bundle)
      BY DEF AddsUp
    <3>2. Tells(mode, Merge(window, partial), held \cup bundle)
      BY <3>1, InPlay, TellsBoth
    <3>3. Tells(mode, Merge(partial, window), bundle \cup held)
      BY <3>1, InPlay, TellsBoth
    <3>4. bundle \cup held = held \cup bundle
      OBVIOUS
    <3> QED
      BY <2>1, <3>2, <3>3, <3>4
  <2>3. ~mode.accumulating => Spread(mode, panes, window', held')
    <3> SUFFICES ASSUME ~mode.accumulating PROVE Spread(mode, panes, window', held')
      OBVIOUS
    <3>1. Spread(mode, panes, window, held) /\ Tells(mode, partial, bundle)
      BY DEF AddsUp
    <3>2. held \cap bundle = {}
      BY InPlay
    <3> QED
      BY <2>1, <3>1, <3>2, InPlay, SpreadMore
  <2> QED
    BY <1>0, <2>1, <2>2, <2>3 DEF AddsUp
<1>3. CASE MergeRaises
  BY <1>3 DEF MergeRaises
<1>4. CASE DropLate
  BY <1>0, <1>4 DEF DropLate, EndBundle, AddsUp
<1>5. CASE FireEarly
  BY <1>5, PutOutAddsUp DEF FireEarly
<1>6. CASE Fire
  BY <1>6, PutOutAddsUp DEF Fire
<1>7. CASE Advance
  BY <1>7 DEF Advance, AddsUp
<1>8. CASE UNCHANGED vars
  BY <1>8 DEF vars, AddsUp
<1> QED
  BY <1>1, <1>2, <1>3, <1>4, <1>5, <1>6, <1>7, <1>8 DEF Next

LEMMA AddedUp == IInv /\ AddsUp => PanesAddUp
<1> SUFFICES ASSUME IInv, AddsUp, ~mode.faulty PROVE PanesAddUp
  BY DEF PanesAddUp
<1>1. ASSUME mode.accumulating
      PROVE  /\ Describes(window, held)
             /\ \A i \in DOMAIN panes : Describes(panes[i].agg, panes[i].of)
  BY <1>1, InPlay, PaneTypes, DescribesIsTells DEF AddsUp
<1>2. ASSUME ~mode.accumulating
      PROVE  Describes(Merge(Total, window), held)
  <2> DEFINE c == mode.combiner
  <2>1. Spread(mode, panes, window, held)
    BY <1>2 DEF AddsUp
  <2>2. /\ Total \in Accumulator(c) /\ window \in Accumulator(c)
        /\ DOMAIN Total = Fields(c) /\ Merge(Total, window) \in Accumulator(c)
    BY InPlay, TotalSums, NumbersAreIntegers, MergeType
  <2> HIDE DEF c
  <2>3. \A f \in Fields(c) \ {"last"} :
          Merge(Total, window)[f] = SumFunctionOnSet(Increments(mode, f), held)
    BY <2>1, <2>2, TotalSums DEF Merge, Spread, PaneSum, c
  <2>4. ASSUME "last" \in Fields(c)
        PROVE  /\ Merge(Total, window).last \in Places(mode, held) \cup {None}
               /\ Merge(Total, window).last = None /\ held # {} => Forgotten(mode, held)
    <3>1. Merge(Total, window).last = IF window.last = None THEN Total.last ELSE window.last
      BY <2>2, <2>4 DEF Merge
    <3>2. /\ Total.last \in {panes[i].agg.last : i \in DOMAIN panes} \cup {None}
          /\ Total.last = None => \A i \in DOMAIN panes : panes[i].agg.last = None
      BY <2>4, TotalSums DEF c
    <3> QED
      BY <2>1, <2>4, <3>1, <3>2 DEF Spread, c
  <2>5. Tells(mode, Merge(Total, window), held)
    BY <2>3, <2>4 DEF Tells, c
  <2> QED
    BY <2>2, <2>5, InPlay, DescribesIsTells DEF c
<1> QED
  BY <1>1, <1>2 DEF PanesAddUp
-----------------------------------------------------------------------------
(* An evaluator reads numbers only.                                         *)
LEMMA AlertsReadNumbers ==
  ASSUME NEW c, NEW acc, NEW r,
         \A f \in Fields(c) \ {"last"} : acc[f] = r[f]
  PROVE  Alerts(c, acc) = Alerts(c, r)
<1>1. CASE c = "orders"
  <2>1. \A f \in {"created_count", "cancelled_count", "refunded_amount", "cart_added_count",
                  "cart_abandoned_count"} : acc[f] = r[f]
    BY <1>1 DEF Fields
  <2> QED
    BY <1>1, <2>1 DEF Alerts, OrderAlerts
<1>2. CASE c = "quotes"
  <2>1. \A f \in {"bound_count", "abandoned_scenario_3_count"} : acc[f] = r[f]
    BY <1>2 DEF Fields
  <2> QED
    BY <1>2, <2>1 DEF Alerts, QuoteAlerts
<1> QED
  BY <1>1, <1>2 DEF Alerts

(* The default windowing: until the window ends nothing is put out or due;  *)
(* at its end the pane is due, then there; and after that nothing comes.    *)
OnePane ==
  ~mode.early /\ mode.lateness = 0 /\ ~mode.faulty =>
    /\ watermark < WindowEnd => panes = <<>> /\ ~due
    /\ due => panes = <<>>
    /\ watermark = WindowEnd /\ held # {} /\ panes = <<>> => due
    /\ panes # <<>> => Len(panes) = 1 /\ panes[1].alerts = Alerts(mode.combiner, Reference(held))

(* Before the first pane, the window is the aggregate of what it holds.     *)
LEMMA FirstPane ==
  ASSUME IInv, AddsUp, ~mode.faulty, panes = <<>>
  PROVE  Alerts(mode.combiner, window) = Alerts(mode.combiner, Reference(held))
<1>1. Tells(mode, window, held)
  BY InPlay, SpreadIsTells DEF AddsUp
<1>2. Numbers(New) = Fields(mode.combiner) \ {"last"}
  BY InPlay, EmptyType, NumbersAreIntegers
<1>3. \A f \in Fields(mode.combiner) \ {"last"} : window[f] = Reference(held)[f]
  BY <1>1, <1>2 DEF Tells, Reference
<1> QED
  BY <1>3, AlertsReadNumbers

LEMMA StepOnePane == IInv /\ AddsUp /\ OnePane /\ [Next]_vars => OnePane'
<1> SUFFICES ASSUME IInv, AddsUp, OnePane, [Next]_vars, mode' = mode,
                    ~mode.early, mode.lateness = 0, ~mode.faulty
             PROVE  OnePane'
  BY DEF OnePane, Next, vars, Arrive, MergePartial, MergeRaises, DropLate, FireEarly, Fire,
         PutOut, Advance
<1>0. WindowEnd \in Nat /\ watermark \in 0..WindowEnd
  BY AggregationAssumption DEF IInv, Typed
<1>1. /\ watermark < WindowEnd => panes = <<>> /\ ~due
      /\ due => panes = <<>>
      /\ watermark = WindowEnd /\ held # {} /\ panes = <<>> => due
      /\ panes # <<>> => /\ Len(panes) = 1
                         /\ panes[1].alerts = Alerts(mode.combiner, Reference(held))
  BY DEF OnePane
<1>2. ASSUME UNCHANGED <<mode, watermark, due, panes, held>> PROVE OnePane'
  <2>1. Reference(held)' = Reference(held)
    BY <1>2 DEF Reference, New
  <2> QED
    BY <1>1, <1>2, <2>1 DEF OnePane
<1>3. CASE MergePartial
  <2>1. watermark < WindowEnd
    BY <1>0, <1>3 DEF MergePartial, Expired
  <2>2. UNCHANGED <<watermark, panes>> /\ due' = (watermark >= WindowEnd)
    BY <1>3 DEF MergePartial
  <2>3. ~due'
    <3>1. (watermark >= WindowEnd) = FALSE
      BY <1>0, <2>1
    <3> QED
      BY <2>2, <3>1
  <2>4. watermark' # WindowEnd
    BY <1>0, <2>1, <2>2
  <2> QED
    BY <1>1, <2>1, <2>2, <2>3, <2>4 DEF OnePane
<1>4. CASE Fire
  <2>1. due /\ panes = <<>> /\ ~due' /\ held' = held /\ watermark' = watermark
    BY <1>1, <1>4 DEF Fire, PutOut
  <2>2. ~(watermark < WindowEnd)
    BY <1>1, <2>1
  <2>3. PICK x \in Pane :
          panes' = Append(panes, x) /\ x.alerts = Alerts(mode.combiner, window)
    BY <1>4, PutOutAppends DEF Fire
  <2>4. Len(panes') = 1 /\ panes'[1] = x /\ panes' # <<>>
    BY <2>1, <2>3
  <2>5. Reference(held)' = Reference(held)
    BY <2>1 DEF Reference, New
  <2>6. panes'[1].alerts = Alerts(mode.combiner, Reference(held))
    BY <2>1, <2>3, <2>4, FirstPane
  <2> QED
    BY <2>1, <2>2, <2>4, <2>5, <2>6 DEF OnePane
<1>5. CASE Advance
  <2>1. watermark < WindowEnd /\ watermark' = watermark + 1
    BY <1>0, <1>5 DEF Advance, Expired
  <2>2. UNCHANGED <<panes, held>> /\ due' = (watermark' = WindowEnd /\ held # {})
    BY <1>5 DEF Advance
  <2>3. panes' = <<>>
    BY <1>1, <2>1, <2>2
  <2>4. watermark' < WindowEnd => ~(watermark' = WindowEnd)
    BY <1>0, <2>1
  <2>5. watermark' < WindowEnd => ~due'
    BY <2>2, <2>4
  <2> QED
    BY <2>2, <2>3, <2>5 DEF OnePane
<1>6. CASE FireEarly
  BY <1>6 DEF FireEarly
<1>7. CASE MergeRaises
  BY <1>7 DEF MergeRaises
<1>8. CASE (\E e \in Event : Arrive(e)) \/ DropLate \/ UNCHANGED vars
  BY <1>2, <1>8 DEF Arrive, DropLate, vars
<1> QED
  BY <1>3, <1>4, <1>5, <1>6, <1>7, <1>8 DEF Next

LEMMA JudgedOnce == IInv /\ OnePane => JudgedOnceAsAWhole
<1> SUFFICES ASSUME IInv, OnePane, ~mode.early, mode.lateness = 0, ~mode.faulty
             PROVE  JudgedOnceAsAWhole
  BY DEF JudgedOnceAsAWhole
<1>1. Len(panes) <= 1
  <2>1. panes = <<>> => Len(panes) = 0
    OBVIOUS
  <2>2. panes # <<>> => Len(panes) = 1
    BY DEF OnePane
  <2>3. \A n : n = 0 \/ n = 1 => n <= 1
    OBVIOUS
  <2> QED
    BY <2>1, <2>2, <2>3
<1> QED
  BY <1>1 DEF OnePane, JudgedOnceAsAWhole

-----------------------------------------------------------------------------
(* What has been counted, by a window and by its panes, is not more than    *)
(* the window was given, failures or not.                                   *)
Counts ==
  LET n == Cardinality(held \cup lost)
  IN  /\ partial.event_count = Cardinality(bundle)
      /\ window.event_count \in Nat
      /\ mode.accumulating => /\ window.event_count <= n
                              /\ \A i \in DOMAIN panes : panes[i].agg.event_count <= n
      /\ ~mode.accumulating => PaneSum(panes, "event_count") + window.event_count <= n

LEMMA EventCount ==
  ASSUME NEW c \in Combiner
  PROVE  /\ "event_count" \in Fields(c) \ {"last"}
         /\ Empty(c).event_count = 0
         /\ \A acc \in Accumulator(c) : acc.event_count \in Int
         /\ \A a, b \in Accumulator(c) :
              Merge(a, b).event_count = a.event_count + b.event_count
<1>1. "event_count" \in Fields(c) \ {"last"}
  BY DEF Fields
<1>2. \A a \in Accumulator(c) : DOMAIN a = Fields(c)
  BY NumbersAreIntegers
<1> QED
  BY <1>1, <1>2, NumbersAreIntegers DEF Empty, Merge

(* Cardinalities of what has been taken and of what is in hand.             *)
LEMMA TakenGrows ==
  ASSUME IInv
  PROVE  /\ Cardinality(held \cup lost) \in Nat /\ Cardinality(bundle) \in Nat
         /\ Cardinality((held \cup lost) \cup bundle)
              = Cardinality(held \cup lost) + Cardinality(bundle)
         /\ \A e \in Event \ bundle : Cardinality(bundle \cup {e}) = Cardinality(bundle) + 1
         /\ Cardinality({}) = 0
<1>1. IsFiniteSet(held \cup lost) /\ IsFiniteSet(bundle) /\ (held \cup lost) \cap bundle = {}
  BY InPlay, FS_Union
<1>2. Cardinality((held \cup lost) \cap bundle) = 0
  BY <1>1, FS_EmptySet
<1>3. Cardinality(held \cup lost) \in Nat /\ Cardinality(bundle) \in Nat
  BY <1>1, FS_CardinalityType
<1>4. Cardinality((held \cup lost) \cup bundle)
        = Cardinality(held \cup lost) + Cardinality(bundle)
            - Cardinality((held \cup lost) \cap bundle)
  BY <1>1, FS_Union
<1>5. \A e \in Event \ bundle : Cardinality(bundle \cup {e}) = Cardinality(bundle) + 1
  BY <1>1, FS_AddElement
<1> QED
  BY <1>2, <1>3, <1>4, <1>5, FS_EmptySet

LEMMA PaneCount ==
  ASSUME IInv PROVE PaneSum(panes, "event_count") \in Int
<1>1. IsFiniteSet(DOMAIN panes) /\ \A i \in DOMAIN panes : Column(panes, "event_count")[i] \in Int
  BY InPlay, PanesAreFinite, EventCount DEF PanesOf, Column
<1> QED
  BY <1>1, SumRecurs DEF PaneSum

LEMMA PutOutCounts ==
  ASSUME IInv, Counts, PutOut PROVE Counts'
<1> DEFINE n == Cardinality(held \cup lost)
<1>1. PICK x \in Pane :
        /\ panes' = Append(panes, x)
        /\ x.agg = window
        /\ DOMAIN panes' = DOMAIN panes \cup {Len(panes) + 1}
        /\ panes'[Len(panes) + 1] = x
        /\ \A i \in DOMAIN panes : panes'[i] = panes[i]
  BY PutOutAppends
<1>2. UNCHANGED <<mode, partial, bundle, held, lost>>
  BY DEF PutOut
<1>3. ASSUME mode.accumulating
      PROVE  /\ window' = window
             /\ \A i \in DOMAIN panes' : panes'[i].agg.event_count <= n
  <2>1. window' = window
    BY <1>3 DEF PutOut, AfterPane
  <2> QED
    BY <1>1, <1>3, <2>1 DEF Counts
<1>4. ASSUME ~mode.accumulating
      PROVE  /\ window'.event_count = 0
             /\ PaneSum(panes', "event_count") + window'.event_count <= n
  <2>1. window'.event_count = 0
    BY <1>4, InPlay, EventCount DEF PutOut, AfterPane
  <2>2. /\ PaneSum(Append(panes, x), "event_count")
             = PaneSum(panes, "event_count") + x.agg["event_count"]
        /\ PaneSum(panes, "event_count") \in Int
    BY <1>1, InPlay, EventCount, PaneSumGrows
  <2>3. PaneSum(panes, "event_count") + window.event_count <= n /\ window.event_count \in Nat
    BY <1>4 DEF Counts
  <2>4. x.agg["event_count"] = window.event_count
    BY <1>1
  <2>5. PaneSum(panes', "event_count") = PaneSum(panes, "event_count") + window.event_count
    BY <1>1, <2>2, <2>4
  <2> QED
    BY <2>1, <2>2, <2>3, <2>5
<1>5. /\ partial'.event_count = Cardinality(bundle') /\ n' = n
      /\ window.event_count \in Nat
      /\ mode.accumulating => window.event_count <= n
  BY <1>2 DEF Counts
<1>6. window'.event_count \in Nat
  BY <1>3, <1>4, <1>5
<1>7. mode'.accumulating = mode.accumulating
  BY <1>2
<1> HIDE DEF n
<1>8. /\ mode.accumulating => /\ window'.event_count <= n'
                              /\ \A i \in DOMAIN panes' : panes'[i].agg.event_count <= n'
      /\ ~mode.accumulating => PaneSum(panes', "event_count") + window'.event_count <= n'
  BY <1>3, <1>4, <1>5
<1> QED
  BY <1>5, <1>6, <1>7, <1>8 DEF Counts, n

LEMMA StepCounts == IInv /\ Counts /\ [Next]_vars => Counts'
<1> SUFFICES ASSUME IInv, Counts, [Next]_vars PROVE Counts'
  OBVIOUS
<1> DEFINE n == Cardinality(held \cup lost)
           b == Cardinality(bundle)
           w == window.event_count
           p == PaneSum(panes, "event_count")
<1>0. /\ n \in Nat /\ b \in Nat /\ w \in Nat /\ p \in Int
      /\ partial.event_count = b
      /\ New.event_count = 0 /\ Cardinality({}) = 0
      /\ Cardinality((held \cup lost) \cup bundle) = n + b
  BY InPlay, EventCount, TakenGrows, PaneCount DEF Counts
<1>1. /\ mode.accumulating => w <= n /\ \A i \in DOMAIN panes : panes[i].agg.event_count <= n
      /\ ~mode.accumulating => p + w <= n
  BY DEF Counts
<1>2. ASSUME mode.accumulating PROVE \A i \in DOMAIN panes : panes[i].agg.event_count \in Int
  BY InPlay, EventCount DEF PanesOf
<1>3. ASSUME NEW e \in Event, Arrive(e) PROVE Counts'
  <2>1. e \in Event \ bundle
    BY <1>3 DEF Arrive, IInv, Apart
  <2>2. partial'.event_count = partial.event_count + 1
    <3>1. DOMAIN partial = Fields(mode.combiner) /\ "event_count" \in Fields(mode.combiner)
      BY InPlay, EventCount, NumbersAreIntegers
    <3>2. Increment(mode.combiner, mode.input[e], "event_count") = 1
      BY DEF Increment
    <3> QED
      BY <1>3, <3>1, <3>2 DEF Arrive, AddInput
  <2>3. partial'.event_count = Cardinality(bundle')
    BY <1>0, <1>3, <2>1, <2>2, TakenGrows DEF Arrive
  <2> QED
    BY <1>3, <2>3 DEF Arrive, Counts
<1>4. ASSUME mode' = mode, panes' = panes,
             partial'.event_count = Cardinality(bundle'),
             Cardinality(held' \cup lost') = n + b,
             window'.event_count \in {w, b, w + b}
      PROVE  Counts'
  <2>1. window'.event_count \in Nat
    BY <1>0, <1>4
  <2>2. ASSUME mode.accumulating
        PROVE  /\ window'.event_count <= n + b
               /\ \A i \in DOMAIN panes : panes[i].agg.event_count <= n + b
    <3>1. window'.event_count <= n + b
      BY <1>0, <1>1, <1>4, <2>2
    <3>2. ASSUME NEW i \in DOMAIN panes PROVE panes[i].agg.event_count <= n + b
      <4>1. panes[i].agg.event_count <= n /\ panes[i].agg.event_count \in Int
        BY <1>1, <1>2, <2>2
      <4> QED
        BY <1>0, <4>1
    <3> QED
      BY <3>1, <3>2
  <2>3. ASSUME ~mode.accumulating PROVE p + window'.event_count <= n + b
    BY <1>0, <1>1, <1>4, <2>3
  <2> QED
    BY <1>4, <2>1, <2>2, <2>3 DEF Counts
<1>5. CASE MergePartial
  <2>1. window'.event_count = w + b
    BY <1>0, <1>5, InPlay, EventCount DEF MergePartial
  <2>2. held' \cup lost' = (held \cup lost) \cup bundle
    BY <1>5 DEF MergePartial
  <2>3. mode' = mode /\ panes' = panes /\ partial' = New /\ bundle' = {}
    BY <1>5 DEF MergePartial, EndBundle
  <2> QED
    BY <1>0, <1>4, <2>1, <2>2, <2>3
<1>6. CASE MergeRaises
  <2>1. window' = window \/ window' = partial
    BY <1>6 DEF MergeRaises
  <2>2. held' \cup lost' = (held \cup lost) \cup bundle
    BY <1>6 DEF MergeRaises
  <2>3. mode' = mode /\ panes' = panes /\ partial' = New /\ bundle' = {}
    BY <1>6 DEF MergeRaises, EndBundle
  <2> QED
    BY <1>0, <1>4, <2>1, <2>2, <2>3
<1>7. CASE DropLate
  <2>1. held' \cup lost' = (held \cup lost) \cup bundle
    BY <1>7 DEF DropLate
  <2>2. window' = window /\ mode' = mode /\ panes' = panes /\ partial' = New /\ bundle' = {}
    BY <1>7 DEF DropLate, EndBundle
  <2> QED
    BY <1>0, <1>4, <2>1, <2>2
<1>8. CASE FireEarly \/ Fire
  BY <1>8, PutOutCounts DEF FireEarly, Fire
<1>9. CASE Advance \/ UNCHANGED vars
  BY <1>9 DEF Advance, vars, Counts
<1> QED
  BY <1>3, <1>5, <1>6, <1>7, <1>8, <1>9 DEF Next

LEMMA CountedOnce == IInv /\ Counts => NothingCountedTwice
<1> SUFFICES ASSUME IInv, Counts PROVE NothingCountedTwice
  OBVIOUS
<1>1. Total["event_count"] = PaneSum(panes, "event_count")
  BY InPlay, EventCount, TotalSums DEF PaneSum
<1> QED
  BY <1>1 DEF Counts, NothingCountedTwice

-----------------------------------------------------------------------------
(* The safety half of ArrivalIsReported: once the watermark has passed the  *)
(* end of the window, an event it holds is in a pane, or the trigger is     *)
(* about to put it in one.  A merge that raises keeps to that.              *)
HeldIsReported ==
  watermark >= WindowEnd /\ ~due =>
    \A e \in held : \E i \in DOMAIN panes : e \in panes[i].of

LEMMA StepReports == IInv /\ HeldIsReported /\ [Next]_vars => HeldIsReported'
<1> SUFFICES ASSUME IInv, HeldIsReported, [Next]_vars PROVE HeldIsReported'
  OBVIOUS
<1>0. WindowEnd \in Nat /\ watermark \in Nat
  BY AggregationAssumption, ModeIsSound DEF IInv, Typed
<1>1. ASSUME NEW e \in Event, Arrive(e) PROVE HeldIsReported'
  BY <1>1 DEF Arrive, HeldIsReported
<1>2. CASE MergePartial
  BY <1>2 DEF MergePartial, HeldIsReported
<1>3. CASE MergeRaises
  BY <1>3 DEF MergeRaises, HeldIsReported
<1>4. CASE DropLate
  BY <1>4 DEF DropLate, HeldIsReported
<1>5. CASE FireEarly
  BY <1>0, <1>5 DEF FireEarly, PutOut, HeldIsReported
<1>6. CASE Fire
  <2>1. PutOut
    BY <1>6 DEF Fire
  <2>2. PICK x \in Pane : /\ x.of = held
                          /\ DOMAIN panes' = DOMAIN panes \cup {Len(panes) + 1}
                          /\ panes'[Len(panes) + 1] = x
    BY <2>1, PutOutAppends
  <2>3. held' = held
    BY <2>1 DEF PutOut
  <2> QED
    BY <2>2, <2>3 DEF HeldIsReported
<1>7. CASE Advance
  <2>1. watermark' = watermark + 1 /\ ~due /\ UNCHANGED <<panes, held>>
    BY <1>7 DEF Advance
  <2>2. CASE watermark' = WindowEnd
    BY <1>7, <2>1, <2>2 DEF Advance, HeldIsReported
  <2>3. CASE watermark' # WindowEnd
    <3>1. watermark' >= WindowEnd => watermark >= WindowEnd
      BY <1>0, <2>1, <2>3
    <3> QED
      BY <2>1, <3>1 DEF HeldIsReported
  <2> QED
    BY <2>2, <2>3
<1>8. CASE UNCHANGED vars
  BY <1>8 DEF vars, HeldIsReported
<1> QED
  BY <1>1, <1>2, <1>3, <1>4, <1>5, <1>6, <1>7, <1>8 DEF Next

-----------------------------------------------------------------------------
LEMMA AggregationInvariant == Spec => [](IInv /\ AddsUp /\ OnePane /\ Counts)
<1>1. Init => IInv /\ AddsUp /\ OnePane /\ Counts
  <2> SUFFICES ASSUME Init PROVE IInv /\ AddsUp /\ OnePane /\ Counts
    OBVIOUS
  <2>1. IInv
    BY InitInvariant
  <2>2. /\ partial = New /\ window = New /\ panes = <<>> /\ bundle = {} /\ held = {} /\ lost = {}
        /\ watermark = 0 /\ due = FALSE
    BY DEF Init
  <2>3. Tells(mode, New, {}) /\ mode \in ModeType /\ New \in Accumulator(mode.combiner)
        /\ mode.combiner \in Combiner
    BY <2>1, <2>2, InPlay, TellsNothing
  <2>4. Spread(mode, <<>>, New, {})
    BY <2>3, SpreadIsTells
  <2>5. DOMAIN << >> = {}
    OBVIOUS
  <2>6. AddsUp
    BY <2>2, <2>3, <2>4, <2>5 DEF AddsUp
  <2>7. OnePane
    BY <2>2, AggregationAssumption DEF OnePane
  <2>8. Counts
    <3>1. New.event_count = 0
      BY <2>3, EventCount DEF New
    <3>2. PaneSum(panes, "event_count") = 0
      <4>1. SumFunctionOnSet(Column(<<>>, "event_count"), {}) = 0
        BY SumRecurs, FS_EmptySet
      <4> QED
        BY <2>2, <2>5, <4>1 DEF PaneSum
    <3>3. Cardinality({}) = 0 /\ {} \cup {} = {}
      BY FS_EmptySet
    <3> QED
      BY <2>2, <2>5, <3>1, <3>2, <3>3 DEF Counts
  <2> QED
    BY <2>1, <2>6, <2>7, <2>8
<1> QED
  BY <1>1, StepKeepsInvariant, StepAddsUp, StepOnePane, StepCounts, PTL DEF Spec

(* What a domain puts out for a window that is not faulty is the aggregate  *)
(* of exactly the events it held: however many, however they were bundled,  *)
(* in whatever order the bundles were merged and however often a pane was   *)
(* put out.                                                                 *)
THEOREM PutOutIsTheAggregate == Spec => []PanesAddUp
  BY AggregationInvariant, AddedUp, PTL

(* With the default windowing the evaluator sees a window once, and sees    *)
(* all of it.                                                               *)
THEOREM WindowsAreJudgedWhole == Spec => []JudgedOnceAsAWhole
  BY AggregationInvariant, JudgedOnce, PTL

(* Whichever merges and extractions raise, no event is counted twice.       *)
THEOREM FailuresDoNotDouble == Spec => []NothingCountedTwice
  BY AggregationInvariant, CountedOnce, PTL

(* Past the end of a window no event it holds is left out of every pane,    *)
(* unless the trigger is about to fire: neither a late bundle nor a merge   *)
(* that raises is forgotten.                                                *)
THEOREM HeldEventsAreReported == Spec => []HeldIsReported
<1>1. Init => HeldIsReported
  BY DEF Init, HeldIsReported
<1> QED
  BY <1>1, AggregationInvariant, StepReports, PTL DEF Spec
=============================================================================
