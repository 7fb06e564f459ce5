-------------------------- MODULE QuoteAbandonment --------------------------
(***************************************************************************)
(* The insurance example (examples/insurance_quotes/pipeline.py): customers*)
(* walk a quote through the funnel, the two domains QUOTES_DOMAIN and      *)
(* APPLICANT_360_DOMAIN read the same topic, and each has a watcher of its *)
(* own built from the one QUOTE_INACTIVITY_DETECTOR.  A watcher that times *)
(* out emits a quote:abandoned event classified by the stage in its state  *)
(* and, inside the callback, asks SFMC to send one email.                  *)
(*                                                                         *)
(* Premium, product and contact fields are not modelled: they are copied   *)
(* into the event and decide nothing.                                      *)
(***************************************************************************)
EXTENDS Integers, Sequences, FiniteSets

CONSTANTS
  Domain,            \* {"quotes", "applicant_360"}
  Quote,             \* quoteIds, each in the hands of one customer
  NoState,           \* None
  Timeout,           \* QUOTE_ABANDONMENT_TIMEOUT_SECS, in clock ticks
  MayGoBack,         \* whether customers return to an earlier page of the funnel
  Ordered,           \* see Topic
  MaxPublished,      \* bound: events per quote
  MaxRedeliveries,   \* bound: repeated deliveries
  MaxRetries         \* bound: timer callbacks whose bundle is lost and retried

ASSUME BoundsAssumption ==
  /\ Timeout \in Nat \ {0}
  /\ MayGoBack \in BOOLEAN /\ Ordered \in BOOLEAN
  /\ MaxPublished \in Nat /\ MaxRedeliveries \in Nat /\ MaxRetries \in Nat

(* The events, up to what the reducer tells apart: "pre" is every           *)
(* pre-quote:... event.                                                     *)
Event == {"pre", "quoted", "recalculate", "pay", "bind"}

Stage == {"pre_quote", "quoted", "payment"}

StageRank == [pre_quote |-> 0, quoted |-> 1, payment |-> 2]

FunnelState == [stage : Stage, bound : BOOLEAN]

ASSUME NoStateAssumption == NoState \notin FunnelState

FreshState == [stage |-> "pre_quote", bound |-> FALSE]

(* The stage an event shows the customer to have reached. *)
StageShown(e) ==
  CASE e \in {"quoted", "recalculate"} -> "quoted"
    [] e = "pay" -> "payment"
    [] e \in {"pre", "bind"} -> "pre_quote"

(* Mutant of Further: the latest stage instead of the furthest. *)
FurtherIsLatest(old, new) == new

(* Stage advancement is monotonic. *)
Further(old, new) == IF StageRank[new] > StageRank[old] THEN new ELSE old

(* Mutant of ReduceQuote: an event after the bind makes the quote pending. *)
ReduceQuoteForgetsBind(s, e) ==
  [stage |-> Further(s.stage, StageShown(e)), bound |-> e = "bind"]

ReduceQuote(s, e) ==
  [stage |-> Further(s.stage, StageShown(e)), bound |-> s.bound \/ e = "bind"]

(* _quote_state_reducer *)
QuoteStateReducer ==
  [se \in (FunnelState \cup {NoState}) \X Event |->
     ReduceQuote(IF se[1] = NoState THEN FreshState ELSE se[1], se[2])]

(* Mutant of QuoteIsPending: a quote counts only once it has been quoted. *)
QuoteIsPendingOnceQuoted == {s \in FunnelState : ~s.bound /\ s.stage # "pre_quote"}

(* _quote_is_pending *)
QuoteIsPending == {s \in FunnelState : ~s.bound}

VARIABLES
  log, inbox, redelivered,                \* the quote-events topic
  state, timer, out, quiet, signalled,    \* the watchers, one key per domain and quote
  page,        \* page[q]: where in the funnel the customer of q is
  abandoned,   \* abandoned[k]: the stages of the quote:abandoned events emitted for k
  sends,       \* history: emails SFMC accepted for k since k's last event
  retried,     \* history: timer callbacks of k whose bundle was lost
  seen,        \* history: the indexes of log delivered to k so far
  heard        \* history: those delivered since k's last abandonment

T == INSTANCE Topic WITH Source <- Quote

Key == Domain \X Quote

W == INSTANCE InactivityWatcher
       WITH DetectorState <- FunnelState,
            InitialState <- FreshState,
            Reduce <- QuoteStateReducer,
            Pending <- QuoteIsPending,
            ReducerRaises <- {},
            ShouldFireRaises <- {},
            TimeoutFnRaises <- {}

topicVars == <<log, inbox, redelivered>>
watcherVars == <<state, timer, out, quiet, signalled>>
customerVars == <<page>>
outcomeVars == <<abandoned, sends, retried, seen, heard>>
vars == <<topicVars, watcherVars, customerVars, outcomeVars>>

Page == {"new", "pre_quote", "quoted", "payment", "bound"}

(* The type invariant: an abandonment is only ever given a stage that has a *)
(* scenario in _STAGE_TO_SCENARIO, and a domain hears only published events.*)
TypeOK ==
  /\ T!TypeOK
  /\ W!TypeOK
  /\ page \in [Quote -> Page]
  /\ abandoned \in [Key -> Seq(Stage)]
  /\ sends \in [Key -> Nat]
  /\ retried \in [Key -> 0..MaxRetries]
  /\ seen \in [Key -> SUBSET Nat] /\ heard \in [Key -> SUBSET Nat]
  /\ \A k \in Key : heard[k] \subseteq seen[k] /\ seen[k] \subseteq 1..Len(log[k[2]])

Init ==
  /\ T!Init
  /\ W!Init
  /\ page = [q \in Quote |-> "new"]
  /\ abandoned = [k \in Key |-> <<>>]
  /\ sends = [k \in Key |-> 0]
  /\ retried = [k \in Key |-> 0]
  /\ seen = [k \in Key |-> {}]
  /\ heard = [k \in Key |-> {}]

-----------------------------------------------------------------------------
(* The customer (simulate_traffic.py, step): from page, event, next page.   *)
Journey == { <<"new", "pre", "pre_quote">>,
             <<"pre_quote", "pre", "pre_quote">>,
             <<"pre_quote", "quoted", "quoted">>,
             <<"quoted", "recalculate", "quoted">>,
             <<"quoted", "pay", "payment">>,
             <<"payment", "bind", "bound">> }

CustomerStep(q) ==
  \E j \in Journey :
    /\ page[q] = j[1]
    /\ T!Publish(q, j[2])
    /\ page' = [page EXCEPT ![q] = j[3]]
    /\ UNCHANGED <<watcherVars, outcomeVars>>

(* A customer reopens an earlier page, which publishes nothing by itself.   *)
GoBack(q) ==
  /\ MayGoBack
  /\ \E p \in {"pre_quote", "quoted"} :
       /\ page[q] \in Stage
       /\ StageRank[p] < StageRank[page[q]]
       /\ page' = [page EXCEPT ![q] = p]
  /\ UNCHANGED <<topicVars, watcherVars, outcomeVars>>

-----------------------------------------------------------------------------
(* The watcher of k[1] processes message i of quote k[2]. *)
Watch(k, i) ==
  /\ W!Process(k, log[k[2]][i])
  /\ seen' = [seen EXCEPT ![k] = @ \cup {i}]
  /\ heard' = [heard EXCEPT ![k] = @ \cup {i}]
  /\ sends' = [sends EXCEPT ![k] = 0]
  /\ UNCHANGED <<customerVars, abandoned, retried>>

Receive(k, i) == T!Deliver(k, i) /\ Watch(k, i)

ReceiveAgain(k, i) == T!Redeliver(k, i) /\ Watch(k, i)

(* Mutant of TriggerEmail: the request is repeated when its answer is late. *)
TriggerEmailRetries(k) == \E accepted \in {0, 1, 2} : sends' = [sends EXCEPT ![k] = @ + accepted]

(* _trigger_sfmc_abandonment_email: best effort, the send may fail. *)
TriggerEmail(k) == \E accepted \in {0, 1} : sends' = [sends EXCEPT ![k] = @ + accepted]

(* Mutant of Abandon: classified by the page, not by the state. *)
AbandonByPage(k) ==
  /\ W!TimeoutFires(k)
  /\ abandoned' = [abandoned EXCEPT ![k] = Append(@, page[k[2]])]
  /\ TriggerEmail(k)
  /\ heard' = [heard EXCEPT ![k] = {}]
  /\ UNCHANGED <<topicVars, customerVars, retried, seen>>

(* _quote_abandoned_event inside _on_timeout: the event is emitted, the     *)
(* email requested.                                                         *)
Abandon(k) ==
  /\ W!TimeoutFires(k)
  /\ abandoned' = [abandoned EXCEPT ![k] = Append(@, state[k].stage)]
  /\ TriggerEmail(k)
  /\ heard' = [heard EXCEPT ![k] = {}]
  /\ UNCHANGED <<topicVars, customerVars, retried, seen>>

(* The same callback in a bundle the runner loses after the request was     *)
(* made: state, timer and output roll back, the email does not.             *)
AbandonAndLoseBundle(k) ==
  /\ W!WillFire(k)
  /\ retried[k] < MaxRetries
  /\ retried' = [retried EXCEPT ![k] = @ + 1]
  /\ TriggerEmail(k)
  /\ UNCHANGED <<topicVars, watcherVars, customerVars, abandoned, seen, heard>>

Tick == W!Tick /\ UNCHANGED <<topicVars, customerVars, outcomeVars>>

Next ==
  \/ \E q \in Quote : CustomerStep(q) \/ GoBack(q)
  \/ \E k \in Key :
       \/ \E i \in 1..MaxPublished : Receive(k, i) \/ ReceiveAgain(k, i)
       \/ Abandon(k)
       \/ AbandonAndLoseBundle(k)
  \/ Tick

Spec == Init /\ [][Next]_vars

(* Messages are delivered in the end, time passes and due timers fire; no   *)
(* customer has to do anything.                                             *)
FairSpec ==
  /\ Spec
  /\ WF_vars(Tick)
  /\ \A k \in Key :
       /\ WF_vars(\E i \in 1..MaxPublished : Receive(k, i))
       /\ WF_vars(Abandon(k))

-----------------------------------------------------------------------------
Events(k, indexes) == {log[k[2]][i] : i \in indexes}

FurthestRank(k, indexes) ==
  CHOOSE r \in {StageRank[StageShown(e)] : e \in Events(k, indexes)} :
    \A e \in Events(k, indexes) : StageRank[StageShown(e)] <= r

(* The exit criterion: once a domain has seen the bind of a quote, nothing  *)
(* it hears afterwards, late, repeated or out of order, makes it watch that *)
(* quote again (_quote_state_reducer keeps "bound", and state.clear() only  *)
(* ever discards a state that is not bound).                                *)
BoundIsFinal ==
  \A k \in Key : "bind" \in Events(k, seen[k]) => ~W!Armed(k)

(* In whatever order the events arrive, and however often, the state holds  *)
(* the furthest stage the domain has heard of since the quote was last      *)
(* abandoned, and this is the scenario the next abandonment is given.  It   *)
(* is what remains of ClassifiedByFurthestReached once _on_timeout has      *)
(* cleared the state.                                                       *)
FurthestSinceAbandonment ==
  \A k \in Key :
    heard[k] # {} => /\ state[k] # NoState
                     /\ StageRank[state[k].stage] = FurthestRank(k, heard[k])

(* Between two events of a quote a domain asks for one email, and one more  *)
(* for each time the callback's bundle was lost after the request.          *)
SendsPerSilence ==
  \A k \in Key : sends[k] <= 1 + retried[k]

(* A quote its customer leaves unbound for good is flagged by both domains  *)
(* for that last silence, however often it was flagged and taken up again   *)
(* before, and even if the email provider refuses the send.                 *)
EveryAbandonedQuoteIsFlagged ==
  \A q \in Quote, d \in Domain :
    <>[](page[q] \in Stage => signalled[<<d, q>>])

(* "this pipeline fires exactly one triggered send per abandonment"         *)
(* (pipeline.py:27-28): at most one email for a silence of the customer.    *)
OneSendPerAbandonment ==
  \A q \in Quote, d, e \in Domain : d # e => sends[<<d, q>>] + sends[<<e, q>>] <= 1

(* "Classification is by furthest stage reached, not just the most recent   *)
(* event" (insurance-abandoned-quote-recovery.md:36), per quoteId (:138),   *)
(* and a customer "can't un-reach a stage" (pipeline.py:304-305): a quote   *)
(* that has just been abandoned was given the furthest stage the domain has *)
(* ever heard of it, its earlier abandonments included.                     *)
ClassifiedByFurthestReached ==
  \A k \in Key :
    LET times == Len(abandoned[k])
    IN  times > 0 /\ heard[k] = {} =>
          StageRank[abandoned[k][times]] = FurthestRank(k, seen[k])
=============================================================================
