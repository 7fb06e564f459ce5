---------------------- MODULE QuoteAbandonment_proofs ----------------------
(***************************************************************************)
(* Proofs about QuoteAbandonment, for any number of domains, quotes and    *)
(* messages, delivered late, repeatedly and in any order.                  *)
(***************************************************************************)
EXTENDS QuoteAbandonment, TLAPS

Rank(e) == StageRank[StageShown(e)]

(* What the reducer makes of a stage: the higher of the two ranks.          *)
LEMMA FurtherIsHigher ==
  ASSUME NEW old \in Stage, NEW e \in Event
  PROVE  /\ Rank(e) \in Nat /\ StageRank[old] \in Nat
         /\ Further(old, StageShown(e)) \in Stage
         /\ StageRank[Further(old, StageShown(e))]
              = IF Rank(e) > StageRank[old] THEN Rank(e) ELSE StageRank[old]
<1>1. StageShown(e) \in Stage
  BY DEF StageShown, Event, Stage
<1>2. StageRank \in [Stage -> Nat]
  BY DEF Stage, StageRank
<1> QED
  BY <1>1, <1>2 DEF Rank, Further

(* The reducer gives every state it is called on a successor.               *)
LEMMA ReduceQuoteType ==
  ASSUME NEW s \in FunnelState, NEW e \in Event
  PROVE  ReduceQuote(s, e) \in FunnelState
<1>1. s.stage \in Stage /\ s.bound \in BOOLEAN
  BY DEF FunnelState
<1> QED
  BY <1>1, FurtherIsHigher DEF ReduceQuote, FunnelState

LEMMA FreshIsState == FreshState \in FunnelState
  BY DEF FreshState, FunnelState, Stage

(* QUOTE_INACTIVITY_DETECTOR is a detector.                                 *)
LEMMA DetectorIsSound == W!DetectorAssumption
<1>1. QuoteStateReducer \in [W!Value \X Event -> W!Value]
  BY ReduceQuoteType, FreshIsState DEF QuoteStateReducer, W!Value
<1>2. QuoteIsPending \subseteq FunnelState
  BY DEF QuoteIsPending
<1> QED
  BY <1>1, <1>2, FreshIsState, NoStateAssumption, BoundsAssumption DEF W!DetectorAssumption, W!Value

(* No callback of the detector raises, so an event is processed cleanly.    *)
LEMMA ProcessQuote ==
  ASSUME W!TypeOK, NEW k \in Key, NEW e \in Event, W!Process(k, e)
  PROVE  /\ W!Current(k) \in FunnelState
         /\ W!ProcessClean(k, e)
         /\ W!Reduced(k, e) = ReduceQuote(W!Current(k), e)
<1>1. W!ProcessClean(k, e)
  BY DEF W!Process, W!ProcessFails, W!ProcessReducerRaises, W!ProcessShouldFireRaises
<1>2. W!Current(k) \in FunnelState
  BY FreshIsState DEF W!TypeOK, W!Value, W!Current
<1> QED
  BY <1>1, <1>2, NoStateAssumption DEF W!Reduced, QuoteStateReducer

-----------------------------------------------------------------------------
LEMMA WatcherKeepsType ==
  ASSUME W!TypeOK,
         \/ \E k \in Key, e \in Event : W!Process(k, e)
         \/ \E k \in Key : W!TimeoutFires(k)
         \/ W!Tick
         \/ UNCHANGED watcherVars
  PROVE  W!TypeOK'
<1> USE DetectorIsSound DEF W!TypeOK, W!DetectorAssumption, W!Output, W!Unset
<1>1. ASSUME NEW k \in Key, NEW e \in Event, W!Process(k, e) PROVE W!TypeOK'
  <2>1. W!ProcessClean(k, e) /\ W!Reduced(k, e) \in FunnelState
    BY <1>1, ProcessQuote, ReduceQuoteType
  <2> QED
    BY <2>1 DEF W!ProcessClean, W!Reschedule, W!Forward, W!Value
<1>2. ASSUME NEW k \in Key, W!TimeoutFires(k) PROVE W!TypeOK'
  BY <1>2 DEF W!TimeoutFires, W!Consume, W!WillFire, W!ShouldFire, W!Value
<1>3. CASE W!Tick
  BY <1>3 DEF W!Tick
<1>4. CASE UNCHANGED watcherVars
  BY <1>4 DEF watcherVars
<1> QED
  BY <1>1, <1>2, <1>3, <1>4

(* A message a domain receives is one that was published.                   *)
LEMMA MessageWasPublished ==
  ASSUME TypeOK, NEW k \in Key, NEW i \in 1..MaxPublished, Receive(k, i) \/ ReceiveAgain(k, i)
  PROVE  /\ i \in 1..Len(log[k[2]])
         /\ log[k[2]][i] \in Event
<1>1. i \in 1..Len(log[k[2]])
  BY DEF Receive, ReceiveAgain, T!Deliver, T!Redeliver, TypeOK, T!TypeOK, T!Key, Key
<1>2. log[k[2]] \in Seq(Event)
  BY DEF TypeOK, T!TypeOK, Key
<1> QED
  BY <1>1, <1>2

(* The steps of Next as the watchers see them.                              *)
LEMMA WatcherPart ==
  ASSUME TypeOK, [Next]_vars
  PROVE  \/ \E k \in Key, e \in Event : W!Process(k, e)
         \/ \E k \in Key : W!TimeoutFires(k)
         \/ W!Tick
         \/ UNCHANGED watcherVars
<1>1. ASSUME NEW k \in Key, NEW i \in 1..MaxPublished, Receive(k, i) \/ ReceiveAgain(k, i)
      PROVE  \E e \in Event : W!Process(k, e)
  BY <1>1, MessageWasPublished DEF Receive, ReceiveAgain, Watch
<1> QED
  BY <1>1 DEF Next, CustomerStep, GoBack, Abandon, AbandonAndLoseBundle, Tick, vars

LEMMA StepKeepsType == TypeOK /\ [Next]_vars => TypeOK'
<1> SUFFICES ASSUME TypeOK, [Next]_vars PROVE TypeOK'
  OBVIOUS
<1>1. W!TypeOK'
  BY WatcherPart, WatcherKeepsType DEF TypeOK
<1> USE <1>1, BoundsAssumption DEF TypeOK, T!TypeOK, T!Key, Key
<1>2. ASSUME NEW q \in Quote, CustomerStep(q) PROVE TypeOK'
  <2>1. PICK j \in Journey : /\ T!Publish(q, j[2])
                             /\ page' = [page EXCEPT ![q] = j[3]]
                             /\ UNCHANGED outcomeVars
    BY <1>2 DEF CustomerStep
  <2>2. j[2] \in Event /\ j[3] \in Page
    BY DEF Journey, Event, Page
  <2>3. log' \in [Quote -> Seq(Event)] /\ Len(log'[q]) = Len(log[q]) + 1
    BY <2>1, <2>2 DEF T!Publish
  <2>4. \A p \in Quote : Len(log[p]) <= Len(log'[p])
    BY <2>1, <2>3 DEF T!Publish
  <2> QED
    BY <2>1, <2>2, <2>3, <2>4 DEF T!Publish, outcomeVars
<1>3. ASSUME NEW q \in Quote, GoBack(q) PROVE TypeOK'
  BY <1>3 DEF GoBack, Page, Stage, topicVars, outcomeVars
<1>4. ASSUME NEW k \in Key, NEW i \in 1..MaxPublished, Receive(k, i) \/ ReceiveAgain(k, i)
      PROVE  TypeOK'
  <2>1. i \in Nat /\ i \in 1..Len(log[k[2]])
    BY <1>4, MessageWasPublished
  <2>2. T!TypeOK' /\ log' = log
    <3>1. inbox' = inbox \/ inbox' = [inbox EXCEPT ![k] = @ \ {i}]
      BY <1>4 DEF Receive, ReceiveAgain, T!Deliver, T!Redeliver
    <3>2. inbox' \in [Key -> SUBSET Nat] /\ \A l \in Key : inbox'[l] \subseteq inbox[l]
      BY <3>1
    <3>3. log' = log /\ redelivered' \in 0..MaxRedeliveries
      BY <1>4 DEF Receive, ReceiveAgain, T!Deliver, T!Redeliver
    <3> QED
      BY <3>2, <3>3
  <2>3. Watch(k, i)
    BY <1>4 DEF Receive, ReceiveAgain
  <2>4. seen' \in [Key -> SUBSET Nat] /\ heard' \in [Key -> SUBSET Nat]
    BY <2>1, <2>3 DEF Watch
  <2>5. \A l \in Key : heard'[l] \subseteq seen'[l] /\ seen'[l] \subseteq 1..Len(log'[l[2]])
    BY <2>1, <2>2, <2>3 DEF Watch
  <2>6. page' = page /\ abandoned' = abandoned /\ retried' = retried /\ sends' \in [Key -> Nat]
    BY <2>3 DEF Watch, customerVars
  <2> QED
    BY <2>2, <2>4, <2>5, <2>6
<1>5. ASSUME NEW k \in Key, Abandon(k) PROVE TypeOK'
  <2>1. state[k].stage \in Stage
    BY <1>5 DEF Abandon, W!TimeoutFires, W!WillFire, W!ShouldFire, QuoteIsPending, FunnelState
  <2>2. abandoned' \in [Key -> Seq(Stage)]
    BY <1>5, <2>1 DEF Abandon
  <2> QED
    BY <1>5, <2>2 DEF Abandon, TriggerEmail, topicVars, customerVars
<1>6. ASSUME NEW k \in Key, AbandonAndLoseBundle(k) PROVE TypeOK'
  BY <1>6 DEF AbandonAndLoseBundle, TriggerEmail, topicVars, customerVars
<1>7. CASE Tick \/ UNCHANGED vars
  BY <1>7 DEF Tick, vars, topicVars, customerVars, outcomeVars
<1> QED
  BY <1>2, <1>3, <1>4, <1>5, <1>6, <1>7 DEF Next

LEMMA InitHasType == Init => TypeOK
<1>1. Init => W!TypeOK
  BY DetectorIsSound
     DEF Init, W!Init, W!TypeOK, W!DetectorAssumption, W!Value, W!Unset, W!Output
<1> QED
  BY <1>1, BoundsAssumption DEF Init, T!Init, TypeOK, T!TypeOK, T!Key, Key, Page

(* A quote is only ever abandoned at a stage with a scenario, and a domain  *)
(* hears only what was published (pipeline.py, _STAGE_TO_SCENARIO).         *)
THEOREM TypeCorrect == Spec => []TypeOK
  BY InitHasType, StepKeepsType, PTL DEF Spec

(* The watchers of the two domains are InactivityWatchers: lost bundles,    *)
(* failed sends and redeliveries give them no step of another kind.         *)
THEOREM WatchersAreWatchers == Spec => W!Spec
<1>1. Init => W!Init
  BY DEF Init
<1>2. TypeOK /\ [Next]_vars => [W!Next]_(W!vars)
  BY WatcherPart DEF W!Next, W!OnTimeout, W!vars, watcherVars
<1> QED
  BY <1>1, <1>2, TypeCorrect, PTL DEF Spec, W!Spec

-----------------------------------------------------------------------------
(* The inductive invariant.  A bind that was heard stays in the state, since*)
(* a bound quote is never armed and only an armed one loses its state; the  *)
(* stage is the maximum over what was heard; while a timer runs no email    *)
(* was sent but by callbacks that were lost.                                *)
BindIsKept ==
  \A k \in Key :
    "bind" \in Events(k, seen[k]) =>
      state[k] # NoState /\ state[k].bound /\ ~W!Armed(k)

StageIsFurthest ==
  \A k \in Key :
    /\ state[k] = NoState <=> heard[k] = {}
    /\ \A e \in Events(k, heard[k]) : Rank(e) <= StageRank[state[k].stage]
    /\ heard[k] # {} =>
         \E e \in Events(k, heard[k]) : Rank(e) = StageRank[state[k].stage]

SentOnlyByLost ==
  \A k \in Key :
    /\ sends[k] <= 1 + retried[k]
    /\ W!Armed(k) => sends[k] <= retried[k]

IInv == TypeOK /\ BindIsKept /\ StageIsFurthest /\ SentOnlyByLost

(* What was heard stays as it was when more is published.                   *)
LEMMA PublishKeepsInvariant ==
  ASSUME IInv, NEW q \in Quote, CustomerStep(q)
  PROVE  BindIsKept' /\ StageIsFurthest' /\ SentOnlyByLost'
<1>1. PICK j \in Journey : T!Publish(q, j[2]) /\ UNCHANGED <<watcherVars, outcomeVars>>
  BY DEF CustomerStep
<1>2. j[2] \in Event
  BY DEF Journey, Event
<1>3. \A k \in Key : /\ seen[k] \in SUBSET (1..Len(log[k[2]]))
                    /\ heard[k] \in SUBSET (1..Len(log[k[2]]))
  BY DEF IInv, TypeOK
<1>4. \A k \in Key : /\ Events(k, seen[k])' = Events(k, seen[k])
                     /\ Events(k, heard[k])' = Events(k, heard[k])
  <2> SUFFICES ASSUME NEW k \in Key
               PROVE  /\ Events(k, seen[k])' = Events(k, seen[k])
                      /\ Events(k, heard[k])' = Events(k, heard[k])
    OBVIOUS
  <2>1. log'[k[2]] = log[k[2]] \/ log'[k[2]] = Append(log[k[2]], j[2])
    BY <1>1 DEF T!Publish, IInv, TypeOK, T!TypeOK, Key
  <2>2. log[k[2]] \in Seq(Event)
    BY DEF IInv, TypeOK, T!TypeOK, Key
  <2>3. \A i \in 1..Len(log[k[2]]) : log'[k[2]][i] = log[k[2]][i]
    BY <1>2, <2>1, <2>2
  <2> QED
    BY <1>1, <1>3, <2>3 DEF Events, outcomeVars
<1> QED
  BY <1>1, <1>4 DEF IInv, BindIsKept, StageIsFurthest, SentOnlyByLost, watcherVars, outcomeVars,
                    W!Armed

(* An event the watcher of k processes raises the stage to its own, sets    *)
(* bound if it is the bind, and arms or clears the timer by the new state.  *)
LEMMA WatchKeepsInvariant ==
  ASSUME IInv, NEW k \in Key, NEW i \in 1..MaxPublished, Receive(k, i) \/ ReceiveAgain(k, i)
  PROVE  BindIsKept' /\ StageIsFurthest' /\ SentOnlyByLost'
<1> DEFINE e == log[k[2]][i]
           s == W!Current(k)
<1>1. Watch(k, i) /\ log' = log
  BY DEF Receive, ReceiveAgain, T!Deliver, T!Redeliver
<1>2. e \in Event
  BY MessageWasPublished DEF IInv
<1>3. /\ s \in FunnelState
      /\ state' = [state EXCEPT ![k] = ReduceQuote(s, e)]
      /\ timer' = W!Reschedule(k, ReduceQuote(s, e))
  BY <1>1, <1>2, ProcessQuote DEF Watch, IInv, TypeOK, W!ProcessClean
<1>4. /\ s.stage \in Stage /\ s.bound \in BOOLEAN
      /\ state'[k].stage = Further(s.stage, StageShown(e))
      /\ state'[k].bound = (s.bound \/ e = "bind")
      /\ state'[k] \in FunnelState /\ state'[k] # NoState
  <2>1. state'[k] = ReduceQuote(s, e)
    BY <1>3 DEF IInv, TypeOK, W!TypeOK
  <2>2. s.stage \in Stage /\ s.bound \in BOOLEAN
    BY <1>3 DEF FunnelState
  <2>3. ReduceQuote(s, e) \in FunnelState
    BY <1>2, <1>3, ReduceQuoteType
  <2>4. /\ ReduceQuote(s, e).stage = Further(s.stage, StageShown(e))
        /\ ReduceQuote(s, e).bound = (s.bound \/ e = "bind")
    BY DEF ReduceQuote
  <2> QED
    BY <2>1, <2>2, <2>3, <2>4, NoStateAssumption
<1>5. W!Armed(k)' => ~state'[k].bound
  BY <1>3, <1>4 DEF W!Reschedule, W!Armed, W!Unset, QuoteIsPending, IInv, TypeOK, W!TypeOK
<1>6. \A l \in Key : l # k => /\ state'[l] = state[l] /\ W!Armed(l)' = W!Armed(l)
                              /\ seen'[l] = seen[l] /\ heard'[l] = heard[l]
                              /\ sends'[l] = sends[l] /\ retried'[l] = retried[l]
                              /\ Events(l, seen[l])' = Events(l, seen[l])
                              /\ Events(l, heard[l])' = Events(l, heard[l])
  BY <1>1, <1>3 DEF Watch, W!Reschedule, W!Armed, Events, IInv, TypeOK, W!TypeOK
<1>7. /\ Events(k, seen[k])' = Events(k, seen[k]) \cup {e}
      /\ Events(k, heard[k])' = Events(k, heard[k]) \cup {e}
      /\ heard'[k] # {} /\ sends'[k] = 0 /\ retried'[k] \in Nat
  BY <1>1 DEF Watch, Events, IInv, TypeOK
<1>8. BindIsKept'
  <2>1. "bind" \in Events(k, seen[k])' => state'[k].bound
    BY <1>4, <1>7 DEF IInv, BindIsKept, W!Current
  <2> QED
    BY <1>4, <1>5, <1>6, <2>1 DEF IInv, BindIsKept
<1>9. StageIsFurthest'
  <2>1. s = IF heard[k] = {} THEN FreshState ELSE state[k]
    BY DEF IInv, StageIsFurthest, W!Current
  <2>2. /\ StageRank[state'[k].stage]
             = IF Rank(e) > StageRank[s.stage] THEN Rank(e) ELSE StageRank[s.stage]
        /\ Rank(e) \in Nat /\ StageRank[s.stage] \in Nat
    BY <1>2, <1>4, FurtherIsHigher
  <2>3. \A f \in Events(k, heard[k]) : f \in Event
    BY DEF IInv, TypeOK, T!TypeOK, Key, Events
  <2>4. \A f \in Events(k, heard[k]) : Rank(f) \in Nat
    BY <2>3, <1>4, FurtherIsHigher
  <2>5. CASE heard[k] = {}
    <3>1. StageRank[s.stage] = 0 /\ Events(k, heard[k])' = {e}
      BY <1>7, <2>1, <2>5 DEF FreshState, StageRank, Events
    <3> QED
      BY <1>4, <1>6, <1>7, <2>2, <3>1 DEF IInv, StageIsFurthest
  <2>6. CASE heard[k] # {}
    <3>1. /\ \A f \in Events(k, heard[k]) : Rank(f) <= StageRank[s.stage]
          /\ \E f \in Events(k, heard[k]) : Rank(f) = StageRank[s.stage]
      BY <2>1, <2>6 DEF IInv, StageIsFurthest
    <3>2. /\ \A f \in Events(k, heard[k])' : Rank(f) <= StageRank[state'[k].stage]
          /\ \E f \in Events(k, heard[k])' : Rank(f) = StageRank[state'[k].stage]
      BY <1>7, <2>2, <2>4, <3>1
    <3> QED
      BY <1>4, <1>6, <1>7, <3>2 DEF IInv, StageIsFurthest
  <2> QED
    BY <2>5, <2>6
<1>10. SentOnlyByLost'
  <2>1. sends'[k] <= 1 + retried'[k] /\ sends'[k] <= retried'[k]
    BY <1>7
  <2> QED
    BY <1>6, <2>1 DEF IInv, SentOnlyByLost
<1> QED
  BY <1>8, <1>9, <1>10

(* A callback that fires had a timer, so no email went out before it but by *)
(* callbacks that were lost, and its quote is not one that was bound.       *)
LEMMA AbandonKeepsInvariant ==
  ASSUME IInv, NEW k \in Key, Abandon(k) \/ AbandonAndLoseBundle(k)
  PROVE  BindIsKept' /\ StageIsFurthest' /\ SentOnlyByLost'
<1>1. W!Armed(k)
  BY DEF Abandon, AbandonAndLoseBundle, W!TimeoutFires, W!WillFire, W!Due, W!Armed, W!Unset
<1>2. sends[k] <= retried[k] /\ sends'[k] <= sends[k] + 1
      /\ \A l \in Key : l # k => sends'[l] = sends[l]
  BY <1>1 DEF IInv, SentOnlyByLost, Abandon, AbandonAndLoseBundle, TriggerEmail, TypeOK
<1>3. \A l \in Key : /\ sends[l] \in Nat /\ retried[l] \in Nat
                     /\ sends'[l] \in Nat
  BY DEF IInv, TypeOK, Abandon, AbandonAndLoseBundle, TriggerEmail
<1>4. CASE Abandon(k)
  <2>1. /\ state' = [state EXCEPT ![k] = NoState]
        /\ heard' = [heard EXCEPT ![k] = {}]
        /\ ~W!Armed(k)'
        /\ \A l \in Key : l # k => W!Armed(l)' = W!Armed(l)
        /\ UNCHANGED <<log, seen, retried>>
    BY <1>4 DEF Abandon, W!TimeoutFires, W!Consume, W!Armed, W!Unset, topicVars, IInv, TypeOK,
                W!TypeOK
  <2>2. "bind" \notin Events(k, seen[k])
    BY <1>1 DEF IInv, BindIsKept
  <2>3. BindIsKept'
    BY <2>1, <2>2 DEF BindIsKept, Events, IInv, TypeOK, W!TypeOK
  <2>4. StageIsFurthest'
    <3>1. state'[k] = NoState /\ heard'[k] = {} /\ Events(k, heard[k])' = {}
      BY <2>1 DEF Events, IInv, TypeOK, W!TypeOK
    <3>2. \A l \in Key : l # k => /\ state'[l] = state[l] /\ heard'[l] = heard[l]
                                  /\ Events(l, heard[l])' = Events(l, heard[l])
      BY <2>1 DEF Events, IInv, TypeOK, W!TypeOK
    <3> DEFINE Furthest(l) ==
          /\ state[l] = NoState <=> heard[l] = {}
          /\ \A e \in Events(l, heard[l]) : Rank(e) <= StageRank[state[l].stage]
          /\ heard[l] # {} =>
               \E e \in Events(l, heard[l]) : Rank(e) = StageRank[state[l].stage]
    <3>3. Furthest(k)'
      BY <3>1
    <3>4. ASSUME NEW l \in Key, l # k PROVE Furthest(l)'
      <4>1. Furthest(l)
        BY DEF IInv, StageIsFurthest
      <4> QED
        BY <3>2, <3>4, <4>1
    <3> QED
      BY <3>3, <3>4 DEF StageIsFurthest
  <2>5. SentOnlyByLost'
    BY <1>2, <1>3, <2>1 DEF SentOnlyByLost, IInv
  <2> QED
    BY <2>3, <2>4, <2>5
<1>5. CASE AbandonAndLoseBundle(k)
  <2>1. UNCHANGED <<log, state, timer, seen, heard>>
    BY <1>5 DEF AbandonAndLoseBundle, topicVars, watcherVars
  <2>2. /\ retried'[k] = retried[k] + 1
        /\ \A l \in Key : l # k => retried'[l] = retried[l]
    BY <1>5 DEF AbandonAndLoseBundle, IInv, TypeOK
  <2>3. SentOnlyByLost'
    BY <1>2, <1>3, <2>1, <2>2 DEF SentOnlyByLost, W!Armed, IInv
  <2> QED
    BY <2>1, <2>3 DEF BindIsKept, StageIsFurthest, Events, W!Armed, IInv
<1> QED
  BY <1>4, <1>5

LEMMA Invariant == Spec => []IInv
<1>1. Init => IInv
  <2> SUFFICES ASSUME Init PROVE IInv
    OBVIOUS
  <2>1. TypeOK
    BY InitHasType
  <2> QED
    BY <2>1 DEF Init, W!Init, IInv, BindIsKept, StageIsFurthest, SentOnlyByLost, Events, W!Armed
<1>2. IInv /\ [Next]_vars => IInv'
  <2> SUFFICES ASSUME IInv, [Next]_vars PROVE IInv'
    OBVIOUS
  <2>1. TypeOK'
    BY StepKeepsType DEF IInv
  <2>2. CASE (\E q \in Quote : GoBack(q)) \/ Tick \/ UNCHANGED vars
    <3>1. UNCHANGED <<log, state, outcomeVars>> /\ \A k \in Key : W!Armed(k)' = W!Armed(k)
      BY <2>2 DEF GoBack, Tick, W!Tick, W!Armed, W!Unset, vars, topicVars, watcherVars, IInv,
                  TypeOK, W!TypeOK
    <3> QED
      BY <2>1, <3>1 DEF IInv, BindIsKept, StageIsFurthest, SentOnlyByLost, Events, outcomeVars
  <2> QED
    BY <2>1, <2>2, PublishKeepsInvariant, WatchKeepsInvariant, AbandonKeepsInvariant
       DEF Next, IInv
<1> QED
  BY <1>1, <1>2, PTL DEF Spec

(* The exit criterion: once a domain has heard the bind of a quote, no late,*)
(* repeated or reordered event makes it watch that quote again.             *)
THEOREM BoundStaysFinal == Spec => []BoundIsFinal
<1>1. IInv => BoundIsFinal
  BY DEF IInv, BindIsKept, BoundIsFinal
<1> QED
  BY <1>1, Invariant, PTL

(* A quote is classified by the furthest stage heard since it was last      *)
(* abandoned, in whatever order and however often the events came.          *)
THEOREM FurthestIsClassified == Spec => []FurthestSinceAbandonment
<1>1. IInv => FurthestSinceAbandonment
  <2> SUFFICES ASSUME IInv, NEW k \in Key, heard[k] # {}
               PROVE  /\ state[k] # NoState
                      /\ StageRank[state[k].stage] = FurthestRank(k, heard[k])
    BY DEF FurthestSinceAbandonment
  <2> DEFINE Top(r) == /\ r \in {StageRank[StageShown(e)] : e \in Events(k, heard[k])}
                       /\ \A e \in Events(k, heard[k]) : StageRank[StageShown(e)] <= r
  <2>1. state[k] # NoState /\ Top(StageRank[state[k].stage])
    BY DEF IInv, StageIsFurthest, Rank
  <2>2. \A f \in Events(k, heard[k]) : f \in Event
    BY DEF IInv, TypeOK, T!TypeOK, Key, Events
  <2>3. "pre_quote" \in Stage
    BY DEF Stage
  <2>4. \A f \in Events(k, heard[k]) : StageRank[StageShown(f)] \in Nat
    BY <2>2, <2>3, FurtherIsHigher DEF Rank
  <2>5. \A r1, r2 : Top(r1) /\ Top(r2) => r1 = r2
    BY <2>4
  <2>6. FurthestRank(k, heard[k]) = CHOOSE r : Top(r)
    BY DEF FurthestRank
  <2> QED
    BY <2>1, <2>5, <2>6
<1> QED
  BY <1>1, Invariant, PTL

(* One email per silence and domain, and one more for each callback that    *)
(* was lost after its request.                                              *)
THEOREM FewSends == Spec => []SendsPerSilence
<1>1. IInv => SendsPerSilence
  BY DEF IInv, SentOnlyByLost, SendsPerSilence
<1> QED
  BY <1>1, Invariant, PTL

-----------------------------------------------------------------------------
(* The safety half of EveryAbandonedQuoteIsFlagged: of a quote that is not  *)
(* bound each domain still has events to hear, or it watches the quote, or  *)
(* it has flagged it for the silence that lasts.  Lost bundles, refused     *)
(* sends and redeliveries leave it so.                                      *)
NoQuoteIsLost ==
  \A k \in Key :
    page[k[2]] \in Stage => inbox[k] # {} \/ W!Armed(k) \/ signalled[k]

(* What the page says of the log.                                           *)
PageTellsLog ==
  \A q \in Quote :
    /\ page[q] # "new" => Len(log[q]) > 0
    /\ page[q] # "bound" => \A i \in 1..Len(log[q]) : log[q][i] # "bind"

(* What was published is on its way or was heard.                           *)
NoneIsMissing ==
  \A k \in Key : 1..Len(log[k[2]]) \subseteq inbox[k] \cup seen[k]

(* Who was heard of is watched, flagged, or bound and heard to be.          *)
HeardIsWatched ==
  \A k \in Key :
    /\ seen[k] # {} => \/ W!Armed(k) \/ signalled[k]
                       \/ state[k] # NoState /\ state[k].bound
    /\ state[k] # NoState /\ state[k].bound => \E i \in seen[k] : log[k[2]][i] = "bind"

Followed == PageTellsLog /\ NoneIsMissing /\ HeardIsWatched

LEMMA PublishIsFollowed ==
  ASSUME IInv, Followed, NEW q \in Quote, CustomerStep(q)
  PROVE  Followed'
<1>1. PICK j \in Journey : /\ page[q] = j[1]
                           /\ T!Publish(q, j[2])
                           /\ page' = [page EXCEPT ![q] = j[3]]
                           /\ UNCHANGED <<watcherVars, outcomeVars>>
  BY DEF CustomerStep
<1>2. /\ j[2] \in Event
      /\ j[1] # "bound" /\ j[3] # "new" /\ (j[2] = "bind" => j[3] = "bound")
  BY DEF Journey, Event
<1>3. \A p \in Quote : log[p] \in Seq(Event) /\ Len(log[p]) \in Nat
  BY DEF IInv, TypeOK, T!TypeOK
<1>4. /\ log'[q] = Append(log[q], j[2]) /\ Len(log'[q]) = Len(log[q]) + 1
      /\ log'[q][Len(log[q]) + 1] = j[2]
      /\ \A i \in 1..Len(log[q]) : log'[q][i] = log[q][i]
      /\ \A p \in Quote : p # q => log'[p] = log[p]
  BY <1>1, <1>2, <1>3 DEF T!Publish, IInv, TypeOK, T!TypeOK
<1>5. page'[q] = j[3] /\ \A p \in Quote : p # q => page'[p] = page[p]
  BY <1>1 DEF IInv, TypeOK
<1>6. PageTellsLog'
  <2>1. ASSUME page'[q] # "bound", NEW i \in 1..Len(log'[q]) PROVE log'[q][i] # "bind"
    <3>1. CASE i = Len(log[q]) + 1
      BY <1>2, <1>4, <1>5, <2>1, <3>1
    <3>2. CASE i # Len(log[q]) + 1
      <4>1. i \in 1..Len(log[q])
        BY <1>3, <1>4, <3>2
      <4> QED
        BY <1>1, <1>2, <1>4, <4>1 DEF Followed, PageTellsLog
    <3> QED
      BY <3>1, <3>2
  <2>2. Len(log'[q]) > 0
    BY <1>3, <1>4
  <2>3. ASSUME NEW p \in Quote, p # q
        PROVE  /\ page'[p] # "new" => Len(log'[p]) > 0
               /\ page'[p] # "bound" => \A i \in 1..Len(log'[p]) : log'[p][i] # "bind"
    <3>1. page'[p] = page[p] /\ log'[p] = log[p]
      BY <1>4, <1>5, <2>3
    <3> QED
      BY <3>1 DEF Followed, PageTellsLog
  <2> QED
    BY <2>1, <2>2, <2>3 DEF PageTellsLog
<1>7. NoneIsMissing'
  <2> SUFFICES ASSUME NEW k \in Key, NEW i \in 1..Len(log'[k[2]])
               PROVE  i \in inbox'[k] \cup seen'[k]
    BY DEF NoneIsMissing
  <2>1. seen'[k] = seen[k] /\ k[2] \in Quote
    BY <1>1 DEF outcomeVars, Key
  <2>2. inbox'[k] = IF k[2] = q THEN inbox[k] \cup {Len(log[q]) + 1} ELSE inbox[k]
    BY <1>1 DEF T!Publish, T!Key, Key
  <2>3. i \in 1..Len(log[k[2]]) \/ (k[2] = q /\ i = Len(log[q]) + 1)
    BY <1>3, <1>4, <2>1
  <2> QED
    BY <2>1, <2>2, <2>3 DEF Followed, NoneIsMissing
<1>8. HeardIsWatched'
  <2>1. \A k \in Key : \A i \in seen[k] : log'[k[2]][i] = log[k[2]][i]
    BY <1>4 DEF IInv, TypeOK, Key
  <2>2. UNCHANGED <<seen, state, timer, signalled>>
    BY <1>1 DEF watcherVars, outcomeVars
  <2> QED
    BY <2>1, <2>2 DEF Followed, HeardIsWatched, W!Armed
<1> QED
  BY <1>6, <1>7, <1>8 DEF Followed

LEMMA WatchIsFollowed ==
  ASSUME IInv, Followed,
         NEW k \in Key, NEW i \in 1..MaxPublished, Receive(k, i) \/ ReceiveAgain(k, i)
  PROVE  Followed'
<1> DEFINE e == log[k[2]][i]
           s == W!Current(k)
<1>1. Watch(k, i) /\ log' = log /\ page' = page
  BY DEF Receive, ReceiveAgain, T!Deliver, T!Redeliver, Watch, customerVars
<1>2. e \in Event
  BY MessageWasPublished DEF IInv
<1>3. /\ s \in FunnelState
      /\ state' = [state EXCEPT ![k] = ReduceQuote(s, e)]
      /\ timer' = W!Reschedule(k, ReduceQuote(s, e))
      /\ signalled' = [signalled EXCEPT ![k] = FALSE]
  BY <1>1, <1>2, ProcessQuote DEF Watch, IInv, TypeOK, W!ProcessClean
<1>4. ReduceQuote(s, e) \in FunnelState /\ ReduceQuote(s, e).bound = (s.bound \/ e = "bind")
  BY <1>2, <1>3, ReduceQuoteType DEF ReduceQuote
<1>5. /\ state'[k] = ReduceQuote(s, e) /\ state'[k] # NoState
      /\ W!Armed(k)' \/ state'[k].bound
  <2>1. state'[k] = ReduceQuote(s, e)
    BY <1>3 DEF IInv, TypeOK, W!TypeOK
  <2>2. timer'[k] = IF state'[k] \in QuoteIsPending THEN Timeout ELSE W!Unset
    BY <1>3, <2>1 DEF W!Reschedule, IInv, TypeOK, W!TypeOK
  <2>3. state'[k] \in QuoteIsPending \/ state'[k].bound
    BY <1>4, <2>1 DEF QuoteIsPending
  <2>4. Timeout # W!Unset
    BY BoundsAssumption DEF W!Unset
  <2> QED
    BY <1>4, <2>1, <2>2, <2>3, <2>4, NoStateAssumption DEF W!Armed
<1>6. /\ seen'[k] = seen[k] \cup {i}
      /\ \A l \in Key : l # k => /\ seen'[l] = seen[l] /\ state'[l] = state[l]
                                 /\ W!Armed(l)' = W!Armed(l) /\ signalled'[l] = signalled[l]
  BY <1>1, <1>3 DEF Watch, W!Reschedule, W!Armed, IInv, TypeOK, W!TypeOK
<1>7. NoneIsMissing'
  <2>1. \A l \in Key : inbox[l] \subseteq inbox'[l] \cup IF l = k THEN {i} ELSE {}
    BY DEF Receive, ReceiveAgain, T!Deliver, T!Redeliver, IInv, TypeOK, T!TypeOK, T!Key, Key
  <2> QED
    BY <1>1, <1>6, <2>1 DEF Followed, NoneIsMissing
<1>8. HeardIsWatched'
  <2>1. ASSUME state'[k].bound PROVE \E h \in seen'[k] : log'[k[2]][h] = "bind"
    <3>1. s.bound \/ e = "bind"
      BY <1>4, <1>5, <2>1
    <3>2. s.bound => state[k] # NoState /\ state[k].bound
      BY DEF W!Current, FreshState
    <3>3. CASE e = "bind"
      BY <1>1, <1>6, <3>3
    <3>4. CASE state[k] # NoState /\ state[k].bound
      <4>1. PICK h \in seen[k] : log[k[2]][h] = "bind"
        BY <3>4 DEF Followed, HeardIsWatched
      <4> QED
        BY <1>1, <1>6, <4>1
    <3> QED
      BY <3>1, <3>2, <3>3, <3>4
  <2>2. ASSUME NEW l \in Key, l # k
        PROVE  /\ seen'[l] # {} => \/ W!Armed(l)' \/ signalled'[l]
                                   \/ state'[l] # NoState /\ state'[l].bound
               /\ state'[l] # NoState /\ state'[l].bound =>
                    \E h \in seen'[l] : log'[l[2]][h] = "bind"
    BY <1>1, <1>6, <2>2 DEF Followed, HeardIsWatched
  <2> QED
    BY <1>5, <2>1, <2>2 DEF HeardIsWatched
<1> QED
  BY <1>1, <1>7, <1>8 DEF Followed, PageTellsLog

LEMMA StepIsFollowed == IInv /\ Followed /\ [Next]_vars => Followed'
<1> SUFFICES ASSUME IInv, Followed, [Next]_vars PROVE Followed'
  OBVIOUS
<1>1. ASSUME NEW q \in Quote, GoBack(q) PROVE Followed'
  <2>1. PICK p \in {"pre_quote", "quoted"} :
          page[q] \in Stage /\ page' = [page EXCEPT ![q] = p]
    BY <1>1 DEF GoBack
  <2>2. /\ page'[q] = p /\ page[q] # "new" /\ page[q] # "bound"
        /\ \A r \in Quote : r # q => page'[r] = page[r]
    BY <2>1 DEF IInv, TypeOK, Stage
  <2>3. UNCHANGED <<topicVars, watcherVars, outcomeVars>>
    BY <1>1 DEF GoBack
  <2>4. PageTellsLog'
    BY <2>2, <2>3 DEF Followed, PageTellsLog, topicVars
  <2> QED
    BY <2>3, <2>4 DEF Followed, NoneIsMissing, HeardIsWatched, W!Armed, topicVars, watcherVars,
                      outcomeVars
<1>2. ASSUME NEW k \in Key, Abandon(k) PROVE Followed'
  <2>1. /\ state' = [state EXCEPT ![k] = NoState] /\ signalled' = [signalled EXCEPT ![k] = TRUE]
        /\ timer' = [timer EXCEPT ![k] = W!Unset]
        /\ UNCHANGED <<log, inbox, page, seen>>
    BY <1>2 DEF Abandon, W!TimeoutFires, W!Consume, topicVars, customerVars
  <2>2. /\ state'[k] = NoState /\ signalled'[k] = TRUE
        /\ \A l \in Key : l # k => /\ state'[l] = state[l] /\ signalled'[l] = signalled[l]
                                   /\ timer'[l] = timer[l]
    BY <2>1 DEF IInv, TypeOK, W!TypeOK
  <2>3. HeardIsWatched'
    BY <2>1, <2>2 DEF Followed, HeardIsWatched, W!Armed
  <2> QED
    BY <2>1, <2>3 DEF Followed, PageTellsLog, NoneIsMissing
<1>3. CASE (\E k \in Key : AbandonAndLoseBundle(k)) \/ Tick \/ UNCHANGED vars
  <2>1. /\ UNCHANGED <<log, inbox, page, seen, state, signalled>>
        /\ \A k \in Key : W!Armed(k)' = W!Armed(k)
    BY <1>3 DEF AbandonAndLoseBundle, Tick, W!Tick, W!Armed, W!Unset, vars, topicVars, watcherVars,
                customerVars, outcomeVars, IInv, TypeOK, W!TypeOK
  <2> QED
    BY <2>1 DEF Followed, PageTellsLog, NoneIsMissing, HeardIsWatched
<1> QED
  BY <1>1, <1>2, <1>3, PublishIsFollowed, WatchIsFollowed DEF Next

(* However late, often and out of order its events reach a domain, a quote  *)
(* its customer has not bound is on the domain's way, watched or flagged.   *)
THEOREM QuotesAreNotLost == Spec => []NoQuoteIsLost
<1>1. Init => Followed
  BY DEF Init, T!Init, W!Init, T!Key, Key, Followed, PageTellsLog, NoneIsMissing, HeardIsWatched
<1>2. IInv /\ Followed => NoQuoteIsLost
  <2> SUFFICES ASSUME IInv, Followed, NEW k \in Key, page[k[2]] \in Stage, inbox[k] = {}
               PROVE  W!Armed(k) \/ signalled[k]
    BY DEF NoQuoteIsLost
  <2>1. /\ k[2] \in Quote /\ page[k[2]] # "new" /\ page[k[2]] # "bound"
        /\ Len(log[k[2]]) \in Nat
    BY DEF Stage, Key, IInv, TypeOK, T!TypeOK
  <2>2. 1..Len(log[k[2]]) \subseteq seen[k] /\ Len(log[k[2]]) > 0
    BY <2>1 DEF Followed, PageTellsLog, NoneIsMissing
  <2>3. seen[k] # {} /\ \A i \in seen[k] : log[k[2]][i] # "bind"
    <3>1. seen[k] \subseteq 1..Len(log[k[2]])
      BY DEF IInv, TypeOK
    <3>2. \A i \in 1..Len(log[k[2]]) : log[k[2]][i] # "bind"
      BY <2>1 DEF Followed, PageTellsLog
    <3>3. 1 \in seen[k]
      BY <2>1, <2>2
    <3> QED
      BY <3>1, <3>2, <3>3
  <2>4. ~(state[k] # NoState /\ state[k].bound)
    BY <2>3 DEF Followed, HeardIsWatched
  <2>5. W!Armed(k) \/ signalled[k] \/ (state[k] # NoState /\ state[k].bound)
    BY <2>3 DEF Followed, HeardIsWatched
  <2> QED
    BY <2>4, <2>5
<1> QED
  BY <1>1, <1>2, Invariant, StepIsFollowed, PTL DEF Spec
=============================================================================
