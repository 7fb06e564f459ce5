# A TLA+ model of the streaming pipeline framework

The framework (`src/streaming_pipeline_framework`) wires an Apache Beam
pipeline from a list of `DomainSpec`s; two examples (`examples/retail_orders`,
`examples/insurance_quotes`) use it. This directory models the framework's own
logic and the examples' logic that rests on it, checks the models with TLC and
proves the results that matter most with TLAPS.

    tlc -config WatcherFaulty.cfg MCInactivityWatcher      # a run
    tlapm InactivityWatcher_proofs.tla                     # the proofs

`PROJECT.json` lists the runs, the code lines each definition stands for, the
hazards, and for each property a mutation of the model that breaks it.

## 1. Inventory

| Part | State it keeps | Operations | What makes it correct |
|---|---|---|---|
| Domain contract (`DomainSpec`, `InactivityDetector`; framework.py:131-383) | none, immutable | `__post_init__` checks | only buildable combinations get past it |
| Ingest branch: `ParseMessage`, `DeduplicatePerKey`, `ValidateEvent`, `EnrichEvent`, `StripInternalFields`, `KeyEvent`, `_dlq` (framework.py:395-530, 623-640, 901-994) | the keys dedup remembers; rows in raw and dlq tables | one transform per stage, failures tagged `dlq` | each element has exactly one fate per branch; only valid events pass; redelivery adds nothing and loses nothing |
| Inactivity watcher: `_InactivityWatcher` (framework.py:541-605) | per key: a state cell, a processing-time timer | `process`, `_on_timeout`; five callbacks that may raise | a silent pending key is flagged once, after a full silence |
| Aggregation: `_window_transform`, `_DlqWrappingCombineFn`, `_AttachWindowAndKey`, `DetectAlerts` (framework.py:514-530, 643-754) | accumulators per key and window | add, merge, extract; early, on-time and late panes | panes account for every event once; alerts judge whole windows |
| BigQuery writes (framework.py:757-802) | tables | coercion of timestamps, write | bad rows do not stop the branch (they do, see 5) |
| DLQ volume check (health.py:83-148, check_health.py) | none between checks | query, compare, notify per domain | no burst goes unreported |
| Launch: `__post_init__`, `build_streaming_pipeline`, `main` (cli.py), `run_with_incident_on_failure` (health.py:43-76) | the pipeline being wired; the job at the runner | check, wire, submit, wait; notify, re-raise | what comes up is complete; the original error is never masked |
| OAuth clients (sfmc.py, servicenow.py) | `_token`, `_token_expires_at` | `_authenticate`, one request | no request carries an expired token |
| Retail example (pipeline.py, simulate_traffic.py) | cart counts per customer; shoppers | cart reducer, aggregates, alert rules; `step` | carts left full are flagged |
| Insurance example (pipeline.py, simulate_traffic.py) | stage and bound flag per quote; applicants | quote reducer, email trigger, aggregates, rule; `step` | unbound quotes are flagged, at the furthest stage, with one email |
| Beam stand-ins, Terraform, CI | none | stubs, declarations | not modelled |

**How they interact.** Every domain has its own subscription to its topic, so
two domains on one topic (`orders`/`customer_360`, `quotes`/`applicant_360`)
see the same messages at different times and in different orders. Inside a
domain an element goes from transform to transform; the watcher sits between
Validate and Enrich and feeds its timeout events back in behind itself. The
enriched event goes both to the raw table and to the aggregation. Every stage
that can fail tags a row for the dlq table, which the DLQ volume check queries
from a separate process. The insurance detector calls SFMC from inside a timer
callback; the health check calls ServiceNow.

**What is hard.** Messages are redelivered and reordered. Timers race with
events. Callbacks may raise between two writes. Bundles are retried after
their side effects. Two domains run one detector. Threads share a token cache
without a lock. Windows put out several panes, late data comes after them.
One failing step in a loop or a bundle takes others with it. Some settings are
tested for None, some for truth, in three places. `hazards` in
`PROJECT.json` has these by line.

## 2. Modules

| Module | Models | Its state in the code |
|---|---|---|
| `InactivityWatcher` | `_InactivityWatcher` for any detector | `state`, `timer`: the cell and timer of each key; `out`: the element yielded last; `quiet`, `signalled`: history |
| `InactivityContract` | what a detector promises a domain | `phase`, `quiet`; `InactivityWatcher` implements it under `phase <- Phase` |
| `Topic` | the Pub/Sub topic as the code relies on it (external) | `log`, `inbox`, `redelivered` |
| `QuoteAbandonment` | insurance: applicant, topic, a watcher per domain, email | `page` (the simulator's state), `abandoned` (events emitted); rest history |
| `CartAbandonment` | retail: shopper, topic, a watcher per domain | `shopper`, `cart`; `carts`, `flags`, `added`, `undisturbed`: history |
| `TokenClient` | `_authenticate` of both clients, by threads | `token`, `expiresAt`: the attributes; `pc`, `issued`, `held`: each thread's position and locals |
| `IngestPipeline` | one domain's branch for any `DomainSpec` | `at`: the transform an element waits at; `seenFor`: dedup's memory; `raw`, `keyed`, `dlq`: tables |
| `DetectingDomain` | the branch with its watcher in it | both modules' variables; `about`: whose timeout a synthetic event is; `fused`: whether the runner runs watcher and coercion in one bundle |
| `Aggregates` | the examples' four CombineFns and two alert evaluators | none: operators on accumulators |
| `WindowedAggregation` | one window of one key, for one of these CombineFns | `mode`: the windowing and the combiner; `partial`, `window`: accumulators; `due`, `panes`; `watermark` |
| `PipelineLaunch` | the process, from the DomainSpecs to its exit | `phase`, `at`: where it is; `wired`: the pipeline's links; `job`; `cause` (history), `exit`, `incidents` |
| `HealthMonitor` | `check_dlq_thresholds`, repeated | `rows`: the dlq tables by age; `next`, `exceeded`, `results`, `reported`: a check's locals |

`QuoteAbandonment` and `CartAbandonment` compose `Topic` and
`InactivityWatcher` (INSTANCE) with the examples' reducers as the `Reduce`
constant; nothing of the watcher is restated there. `DetectingDomain` composes
`IngestPipeline` and `InactivityWatcher`: a message that gets to the detector
is an event of its session in the same step, a timeout is a synthetic element,
and one clock moves timers and the memory of `DeduplicatePerKey`.
`WindowedAggregation` extends `Aggregates`. Each `MC...` module gives
the constants of one of these modules values; the `..._proofs` modules extend
the modules they are about. Operators named in comments as mutants are used by
no specification; they are the faulty variants that show a property can fail.

**One action is one handler call** where the runner runs handlers of a key one
at a time (watcher, examples), one transform on one element (ingest), one
combiner call, merge or pane (aggregation), one check or one domain of the loop
(launch), one statement where threads
interleave (token client: each attribute read and write), and one query or
notification (health).

In `InactivityWatcher` a failing callback is a case of the handler:
`ProcessReducerRaises` (nothing written), `ProcessShouldFireRaises` (state
written, timer not touched), `ProcessClean`; `TimeoutDeclined` (with a
`should_fire_fn` that is false or raises), `TimeoutEventRaises`,
`TimeoutFires`. `process()` yields its event in all three cases.

`QuoteAbandonment` reduces an event to what `_quote_state_reducer` tells apart:
every pre-quote event is `pre`. `GoBack`, a customer who reopens an earlier
page, is not in the simulator; the pipeline's docstring speaks of it
("re-engagement", "a customer can't un-reach a stage"); `MayGoBack` allows it
in QuoteDelivery and QuoteFurthest and not in QuoteOneSend. In `CartAbandonment` the
shopper follows the simulator's `step` as it is, with choices in place of
probabilities.

In `IngestPipeline` a message is its set of flaws: the reasons for which some
transform would object. Flaws are independent of each other, so every
combination the transforms can meet is a subset; `MCBody` has all single flaws
and the pairs in which the order of stages matters. `DetectingDomain` adds
`WatchRaises`: where the runner fuses the watcher with the stages behind it, a
coercion that will raise takes the watcher's state back with it, so that the
watcher has not seen the message either.

`Aggregates` is arithmetic on records with the code's field names;
`last_channel` and `last_region` are one field `last`, as they are always
treated alike. `Increment` says what an event adds to a field and is what
`WindowedAggregation` builds its reference from: an accumulator is right if
every number is the sum of the increments of the events it stands for, however
they were bundled, merged and split into panes.

In `PipelineLaunch` a table name is unset, empty or set, since `raw_table is
None` and `if spec.raw_table` differ on the empty string; the other fields are
only ever tested in one of the two ways. `Links` says what
`build_streaming_pipeline` connects for a domain: which step (by the last part
of its label) reads which output of which other, the optional steps of
deduplication, detector, raw table, aggregation, alerts and dead letters each
by the setting the code asks for.

## 3. Runs

Passing runs (`PROJECT.json` says the same per run, with the properties):

| Run | Shows | Bounds |
|---|---|---|
| WatcherFaulty | five invariants; implements the contract, its liveness included; `SilentKeyTimesOut` | 2 keys, timeout 3, every callback raises somewhere |
| QuoteDelivery | `BoundIsFinal`, `FurthestSinceAbandonment`, `SendsPerSilence`, `EveryAbandonedQuoteIsFlagged` | 1 domain, 1 quote, 4 events, any order, 1 redelivery, 1 lost bundle |
| CartDelivery | `CountFollowsCart`, `CountIsEarned`, `FullCartIsFlaggedOnce` | 1 domain, 4 events, 2 items, any order, 1 redelivery, several sessions |
| TokenRace | `FreshWhenSent`, `CacheNeverOutlivesToken`, `RefreshEndsRequests` | 2 threads, lifetime 5, margin 3 = the sum of the delays, 10 ticks (two lifetimes) |
| DetectingDomain | `ExactlyOneFate`, `OnlyValidEventsPass`, `OneRowPerWindow`, `PoisonLeavesNoTrace`, `DedupLosesNothing`, `FlagsPerMemory`, `AbandonedSessionIsRecorded` | 2 messages of 1 session, at most one flawed, 2 timeouts, 7 shapes of `DomainSpec`, watcher fused or not; dedup window 2, timeout 1 |
| AggModes | `PanesAddUp`, `JudgedOnceAsAWhole`, `NothingCountedTwice`, `ArrivalIsReported` | 4 events in any bundles, the 4 domains' combiners, 8 windowings, at most 2 early panes |
| Launch | `OriginalErrorSurfaces`, `IncidentsAreFailures`, `UpMeansComplete` | 34560 domains (every setting with every other) in 4 calls, 2 domains in 10 pairs under 288 calls |
| HealthBurst | `BurstIsReported` | 3 domains, 2 with a table; window 5, checks every 2, 1 may fail, threshold 2 |

**Why the bounds are enough.** Keys do not share state, so two show that one
does not disturb the other. Four events are the shortest walk to a bind (pre,
quoted, pay, bind), and allow a flagged cart to be taken up again. A token can
be wrong only through another thread's assignments between two of one's own:
two threads, and two lifetimes so that a refresh happens; `TokenClient_proofs`
removes these bounds. One duplicate pair and a synthetic event are what the
ingest properties relate; with the dedup window longer than the timeout, a
redelivery can come both before the session times out and after, remembered or
not. In `Launch` one domain shows how its settings interact, the second what
the loop and the "any domain" checks add. A window needs an event of each kind, which makes a
rate of one cancellation in two orders, the threshold exactly. The windowings
are the default, early panes in both modes, late panes in both modes, and
faulty combiners with one pane, with early and with late ones. The examples'
domains do not interact except through what each sends, so one is enough for
all but `OneSendPerAbandonment`. Timeouts are a tick or more longer
than the handlers, so that events come both before and after a due timer.

**Violations** are runs that check what a comment, docstring or document of the
repository says, and find that the code does otherwise:

| Run | Statement | What happens |
|---|---|---|
| QuoteOneSend | "exactly one triggered send per abandonment" (insurance pipeline.py:27-28) | both domains send |
| QuoteFurthest | "Classification is by furthest stage reached" (insurance-abandoned-quote-recovery.md:36), "a customer can't un-reach a stage" (insurance pipeline.py:304-305) | the stage is cleared with each abandonment: a quote taken up again at an earlier page is classified below what it had reached |
| IngestQuarantine | "a bad element is quarantined and everything else keeps flowing" (how-the-pipeline-works.md:110-112) | four places raise without a dlq output |
| AggDropped | "the accumulator is returned unchanged" (framework.py:649-650) | the domain's combiner has already counted |

In QuoteOneSend and QuoteFurthest delivery is perfect and nothing is lost. Some
limits have no run; the properties are stated so that they allow for them:

* A raising callback is said to leave "this key's state/timer untouched"
  (framework.py:579), but `state.write` comes before `should_fire_fn`:
  `ProcessShouldFireRaises` writes the state (`ArmedOnlyIfPending` therefore
  has the states `should_fire_fn` raises on).
* `last_channel` and `last_region` are not the latest event's: merge order
  decides (`Describes` only says that they are some event's), and an event
  without a channel erases the one before it in the same bundle.
* An incident is made for what fails inside the hook: not for a DomainSpec that
  is refused, a half-set ServiceNow environment, an interrupt, or a Dataflow job
  that fails when nobody waits for it (`IncidentsAreFailures`).
* A domain with an empty table name and no other table passes `__post_init__`,
  which asks `raw_table is None and enriched_table is None`
  (framework.py:343), and comes up writing nothing, although the message there
  (345-347) refuses "a domain that writes nothing". `UpMeansComplete` excepts
  this domain, and only in the one place where its events end (`NamesNoTable`
  in `NoDeadEnd`).
* "Always returns the full per-domain result list" (health.py:114-115): a
  notifier that raises ends the loop (health.py:136), no list is returned and
  the domains behind it wait for the next check (`NotifierRaises`;
  `BurstIsReported` gives each failed check a period, `TypeOK` says that a list
  is complete when one is returned).
* The item count is cleared with each flag: a customer who comes back and
  removes an item may leave with a cart that counts as empty
  (`FullCartIsFlaggedOnce` says once, not every time).
* Without deduplication a repeated `cart.item_added` counts again, also after
  the checkout (`CountFollowsCart` is about undisturbed delivery).
* A payload that is missing or falsy passes for an empty object where
  `payload_required` is empty (`OnlyValidEventsPass` asks for the fields only).

## 4. Fairness

Liveness assumes only what the runner and the scheduler provide: processing
time passes (`WF(Tick)`), a due timer is delivered (`WF(OnTimeout)`,
`WF(Abandon)`, `WF(FlagCart)`), a message is delivered in the end
(`WF(Receive)`), an element a transform can take is taken (`WF(Proceeds)`), a
bundle ends, the watermark advances and a due trigger fires. Nothing makes a
customer act or an event arrive. Raising transforms have no fairness; the
counterexample of IngestQuarantine needs none, the element simply has no step
that takes it further. It is checked under `FairSpec`; the other violations
are of safety properties, under `Spec`.

In `DetectingDomain` the stages that raise have no fairness, every other stage
and each session's due timer have (`FairDomain`). `PipelineLaunch` states
none: a launch may hang in any phase, and its properties are of what it has
reached.

`HealthMonitor` has no fairness: that a check starts at least every `Period`
ticks is in the guard of `Tick`, so `BurstIsReported` is a safety property with
a deadline.

## 5. What the results say

*Watcher.* Whatever the callbacks do, a key is flagged only after a full
silence since its last clean event, once per silence (`ImplementsContract`,
proved). Without raising callbacks on pending states no silent pending key is
missed. A `timeout_event_fn` that raises loses the flag: `PendingIsArmed`
excludes exactly these states.

*Insurance.* Once a bind was heard nothing re-arms the watcher, in any order of
delivery. The scenario is that of the furthest stage heard since the last
abandonment, not since the quote began (QuoteFurthest). Emails per silence and domain: at most one, plus one for each
bundle lost after the request.

*Retail.* As long as messages came in order and once the count never exceeds the
cart, and it is exact until the first flag. Otherwise the only guarantee is
`CountIsEarned`.

*Token cache.* The unlocked cache is safe if response, store and use delays
together fit into the 30 s margin (and into a token's life). The argument is
in the invariant: between a thread's two assignments the cached token may be
another's, but one issued at most `ResponseDelay` before this thread's store.

*Ingest.* Elements are never both dropped and written, dedup never loses the
only good copy of a flawless event; an identity has one row per memory of it.
A poison element leaves no trace at all, the dlq included.

*Detecting domain.* The detector's own promise holds end to end: a session that
was opened and left is in the tables as a timeout event, whatever validation
and deduplication did to the other messages; and with deduplication a
redelivered opening does not flag it again while its identity is remembered,
even after the timeout has cleared the state: proved for any number of
messages, a session has at most as many flags as its openers had memories.
Without deduplication it may be flagged again.

*Launch.* What `__post_init__` and `build_streaming_pipeline` let through has
every configured setting wired (table names, aggregation, alerts,
deduplication, detector, dead letters) and is submitted as a whole or not at
all; every output of every step has a reader, up to a write, but for a domain
that names no table. The error that ends the process is the first one,
whatever the notifier does.

*Aggregation.* Bundling, merge order, panes and lateness neither lose nor repeat an event
that arrives in time, for each of the four combiners, and the alerts of a
default window are those of the whole window; wrapped failures lose but do not repeat.

*Health.* With `BurstSpan = Window - (1 + Tolerated) * Period` a burst within
that span is reported at most a period late, and a period more per failed check.

## 6. Proofs

`InactivityWatcher_proofs`, from `DetectorAssumption` alone (any keys, events,
states, timeout, and any sets on which callbacks raise). The inductive
invariant `IInv` is the conjunction of `TypeOK`, `ArmedOnlyIfPending`,
`PendingIsArmed`, `TimerMeasuresSilence` and `SignalDisarms`. One lemma per
kind of step shows that it is kept; the refinement (`ContractKept`) needs it in
one place, `DueMeansSilent`: a due timer implies a full silence on a key not
yet signalled. That a declined timeout is a `GiveUp` the contract allows, and
not a step of its own, follows from `ArmedOnlyIfPending`: only a state
`should_fire_fn` raises on can be declined.

`TokenClient_proofs`, from `DelayAssumption` and, for the two safety theorems,
`MarginSuffices`. `FreshWhenSent` is not inductive: the strengthening says of
each thread where it may still be in time (`OnTime`), what token it can count
on (`InHand`) and how the cache's expiry relates to its token (`CacheSound`).

`RefreshEndsRequests` needs an invariant of its own (`AskedInTime`: while the
cache is good no thread that is requesting asked after the refresh it is good
from), and no assumption on the delays.

The run TokenRace evaluates `MarginSuffices` on its constants
(`DelaysFitMargin` in `MCTokenClient`).

`PipelineLaunch_proofs`, from `LaunchAssumption`, for any list of `DomainSpec`s
and any call. `IInv` says where the loop is (`Progress`), what error there is
(`Errors`), that what was defined had passed its checks (`Defined`), what was
reported (`Counted`) and which links are wired (`Wired`); `UpMeansComplete`
follows from the last when the loop is done. What the links of an accepted
`DomainSpec` connect is a matter of cases, one lemma each: the optional steps,
what feeds validation and enrichment, where each output goes
(`OptionalSteps`, `Feeders`, `NothingIsDropped`, `SideOutputs`).

`DetectingDomain_proofs` holds the proofs of the branch, alone and with its
watcher. The first part is about `IngestPipeline`, from `IngestAssumption` and
`ConfigurationAssumption`, for any number of messages and timeout events and
any `DomainSpec`. `IInv` says of each element where it can have come from and
what was found out about it on the way (`Entered`, `Examined`), and that traces
are left last (`TracesComeLast`); `ExactlyOneFate` is part of it,
`OnlyValidEventsPass` a consequence. The others have an invariant each on top
of `IInv`: a poison element waits where it raised (`PoisonWaits`), an identity
is admitted once per memory (`AdmittedOnce`), and of a good event one copy is
on its way or in the table (`CopyKept`). A transform touches one element:
`OthersUndisturbed`.

The second part is about the composition. `DomainStepIsAStep` shows that each
of its steps is one of the branch's, or changes none of the branch's variables,
so that every invariant carries over; only poison needs an argument of its own
(a fused bundle raises at the watcher). And `WatcherInsideIsAWatcher`: the
composition implements `Watcher!Spec`, so that what `InactivityWatcher_proofs`
proves holds of it (`WatcherAssumption` says that the domain's callbacks are a
detector's).

The third part relates all three memories of the domain: dedup's, the session's
state and the flags. For `FlagsPerMemory`, `Charged` says that the flags of a
session, with one more if it is pending, are no more than the messages past
the watcher that may have opened it: a timeout uses up the pending state, and
only a message could make it pending (`OpeningIsCharged`, `TimeoutIsCharged`).
With deduplication these messages number at most the memories of their
identities (`AdmittedOnce`, summed over identities in `OpenedIsRemembered`);
`Supported`, that only identities of messages have memories, makes the sum
finite. `AbandonedIsFollowedUp` and `TimeoutsAreRecorded` are the safety halves
of `AbandonedSessionIsRecorded` (below).

`QuoteAbandonment_proofs` and `CartAbandonment_proofs`, from their
`BoundsAssumption` and `NoStateAssumption`, for any number of domains,
customers and messages; both show first that the example's callbacks are a
detector's (`DetectorIsSound`) and that the watchers implement `W!Spec`.
`BoundIsFinal` needs that a bind that was heard is still in the state
(`BindIsKept`: a bound quote is never armed and only an armed one loses its
state); `FurthestSinceAbandonment`, that the stage's rank is an upper bound of
what was heard and attained by it (`StageIsFurthest`); `SendsPerSilence`, that
a running timer means no email yet but by lost callbacks (`SentOnlyByLost`).
`CountFollowsCart` needs most: messages tell what became of the cart
(`MessagesTellCart`), an undisturbed domain has heard a prefix of them, and
its count is at most the cart's at the end of that prefix (`PrefixIsCounted`);
the step uses that the reducer is monotone in the count.

`WindowedAggregation_proofs`, from `AggregatesAssumption` and
`AggregationAssumption`, for any number of events and panes and any bundling.
First the algebra of the accumulators: `Merge` is associative, has `Empty` as
its unit and commutes on the numbers, and an event adds the same before and
after a merge. Then what a sum over a finite set is, for the two library folds
the model uses: that the fold's recursive equation has one solution is shown by
induction on subsets, put as a statement about the set of the subsets for which
it fails (`SubsetInduction`), since the library's induction theorems take an
operator; `SumAdd` and `SumUnion` are what the rest needs. With them three
invariants on top of the type invariant and `Apart` (no event is in two
places): `AddsUp`, that a bundle's partial accumulator, the window and the
panes between them describe the events they stand for (accumulating:
`Tells`, each pane of its own; discarding: `Spread`, the panes and what has not
been put out together); `OnePane`, that a default window has nothing due before
its end and one pane after it; and `Counts`, which holds of faulty combiners
too: what windows and panes count is not more than what was merged or lost.

`HealthMonitor_proofs`, from `MonitorAssumption`, for any list of domains,
window, threshold, period and number of tolerated failures. `BurstIsReported`
follows from `BurstsWait`: while a burst waits, `Threshold` rows are within
`BurstSpan` plus the time it has waited (`WaitingIsCounted`: less than the
window, so that the next query counts them), that time is bounded by the checks
that failed and the ticks since the last one, and if a running check is already
past the domain, the burst came about during this check. Adding up the rows by
age is a recursive function; that time moves its sums by one age and a new row
adds one (`UpToFollowsAge`, `UpToCountsNewRow`) is shown by induction on ages
(`AgeInduction`).

**Safety halves of the liveness properties.** What a liveness property needs of
the states, without fairness, is an invariant: nothing that must still happen
may have been lost. Of each of the examples' and the domain's liveness
properties this half is proved, for all values of the constants:

| Invariant (theorem) | Half of | Says | Rests on |
|---|---|---|---|
| `NoQuoteIsLost` (`QuotesAreNotLost`) | `EveryAbandonedQuoteIsFlagged` | of a quote left unbound each domain has a message to come, or a timer set, or has signalled this silence, lost bundles and failed sends included | `PageTellsLog`, `NoneIsMissing`, `HeardIsWatched` |
| `FullCartIsWatched` (`FullCartsAreWatched`) | `FullCartIsFlaggedOnce` | in order and once, a cart that is full has been flagged, or has messages to come, or a timer set | `FollowInv`, and that a count is positive if and only if the timer is set (`ArmedCounts`) |
| `AbandonedIsFollowedUp` (`SessionsAreNotLost`) | `AbandonedSessionIsRecorded` | a copy of the opening event is still to come and not going to be dropped, or the timer is set, or the session was flagged | `Identified`, and `WatchArms`: what the watcher does with a copy |
| `TimeoutsAreRecorded` (`TimeoutsAreRecordedAlways`) | the same | a timeout event that has left the pipeline is in its tables | `Timed` |
| `HeldIsReported` (`HeldEventsAreReported`) | `ArrivalIsReported` | when the watermark is past the window's end and no pane is due, every event that is held is in a pane | itself |

The strengthenings were also model-checked, on the instances of section 3.

**Only model-checked:** liveness, that is `ImplementsFairContract`,
`SilentKeyTimesOut`, `EveryAbandonedQuoteIsFlagged`, `FullCartIsFlaggedOnce`,
`AbandonedSessionIsRecorded` and `ArrivalIsReported`, as fairness and ENABLED
are beyond TLAPS. Every invariant of a passing run is a theorem.

## 7. What is left out, and what is assumed of Beam

* Beam is modelled from how the code uses it: handlers of a key run one at a
  time; what a bundle did commits as a whole or not at all, so that an element
  on which one branch raises leaves nothing in the other (`CoerceRaises`);
  `DeduplicatePerKey` remembers a key for a fixed processing time; a window
  expires `allowed_lateness` after its end. A poison element also blocks the
  other elements of its bundle and holds back the watermark: not modelled.
* `AfterWatermark(early=...)` with an allowed lateness is refused by Beam's
  unsafe-trigger check when the pipeline is built, so that
  `WindowedAggregation` keeps them apart (`Buildable`). `DomainSpec` accepts the
  combination.
* Ticks are abstract: only the order of deadlines matters.
* Row contents: enrichment metadata, stripped fields, channels, regions,
  products and premiums decide nothing in the modelled code.
* Inside WriteToBigQuery: rejected rows, retries. Inside Pub/Sub: acks.
* The Beam stand-ins (stubs for a missing `apache_beam`), Terraform and CI; of
  the command line the arguments that are passed through; of the simulators
  `main()`, which publishes what `step()` returns and counts.
* Whether a bundle that fails takes back the state its watcher has written:
  `DetectingDomain` assumes so of Beam (`WatchRaises`).
* What Beam refuses while a pipeline is put together is limited to what a
  `DomainSpec` can bring about: a label used twice, an unsafe trigger.
* `TokenClient` has tokens live for exactly `expires_in`; a token revoked
  early is refused by the server until the cache expires (a listed hazard).

## 8. Plan

Done: watcher with contract; token cache; the examples' detectors, aggregates
and alerts; ingest, alone and with its watcher; one window; the DLQ check; the
launch and its crash trigger; proofs about all of them, of every invariant the
passing runs check. Left:

1. A token revoked early: the server as a module of its own, with `Send`
   refused until the cache expires.
2. The remaining arguments from the safety halves of section 6 to the liveness
   properties, as far as they can be stated without ENABLED: that a step that
   is waited for stays possible until it is taken.
