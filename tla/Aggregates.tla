----------------------------- MODULE Aggregates -----------------------------
(***************************************************************************)
(* The CombineFns of the four domains of the examples and the two alert    *)
(* evaluators (examples/retail_orders/pipeline.py,                         *)
(* examples/insurance_quotes/pipeline.py).  An accumulator is a record of  *)
(* the code's field names; "last" stands for last_channel and last_region, *)
(* which are treated alike, and for last_product_type.                     *)
(***************************************************************************)
EXTENDS Integers

CONSTANTS
  Place,                 \* channels, or product types
  None,                  \* an absent or null one
  NotANumber,            \* an order_total that cannot be added
  CancellationRate,      \* CANCELLATION_RATE_THRESHOLD, in percent
  CartAbandonmentRate,   \* CART_ABANDONMENT_RATE_THRESHOLD, in percent
  Scenario3Rate,         \* SCENARIO_3_ABANDONMENT_RATE_THRESHOLD, in percent
  RefundSpike            \* REFUND_SPIKE_THRESHOLD

ASSUME AggregatesAssumption ==
  /\ None \notin Place /\ NotANumber \notin Int
  /\ {CancellationRate, CartAbandonmentRate, Scenario3Rate, RefundSpike} \subseteq Nat

(* The domains, by name; each has a CombineFn.                              *)
Combiner == {"orders", "customer_360", "quotes", "applicant_360"}

(* What of an event the combiners read.  "scenario" is the payload's, of a  *)
(* quote:abandoned; an order_total that is absent or null counts as 0.      *)
Input == [event_type : STRING, order_total : Int \cup {NotANumber},
          place : Place \cup {None}, scenario : STRING]

(* create_accumulator *)
Fields(c) ==
  {"event_count"} \cup
  CASE c = "orders" ->
         {"created_count", "total_order_value", "cancelled_count", "refunded_count",
          "refunded_amount", "cart_added_count", "cart_removed_count", "cart_abandoned_count"}
    [] c = "customer_360" ->
         {"cart_added_count", "cart_removed_count", "cart_abandoned_count", "created_count",
          "total_spend", "cancelled_count", "refunded_count", "refunded_amount", "last"}
    [] c = "quotes" ->
         {"initiated_count", "quoted_count", "recalculate_count", "bound_count",
          "abandoned_scenario_1_count", "abandoned_scenario_2_count", "abandoned_scenario_3_count"}
    [] c = "applicant_360" ->
         {"quote_attempts", "quoted_count", "bound_count", "abandoned_count", "last"}

Empty(c) == [f \in Fields(c) |-> IF f = "last" THEN None ELSE 0]

Numbers(acc) == DOMAIN acc \ {"last"}

Accumulator(c) ==
  {acc \in [Fields(c) -> Int \cup Place \cup {None}] :
     \A f \in Fields(c) : acc[f] \in IF f = "last" THEN Place \cup {None} ELSE Int}

(* The counter an event adds one to, if the accumulator has it.             *)
CounterOf(c, e) ==
  CASE e.event_type = "order.created"     -> "created_count"
    [] e.event_type = "order.cancelled"   -> "cancelled_count"
    [] e.event_type = "order.refunded"    -> "refunded_count"
    [] e.event_type = "cart.item_added"   -> "cart_added_count"
    [] e.event_type = "cart.item_removed" -> "cart_removed_count"
    [] e.event_type = "cart.abandoned"    -> "cart_abandoned_count"
    [] e.event_type = "quote:quoted"      -> "quoted_count"
    [] e.event_type = "quote:recalculate" -> "recalculate_count"
    [] e.event_type = "post-quote:bind"   -> "bound_count"
    [] e.event_type = "pre-quote:initiated" ->
         IF c = "applicant_360" THEN "quote_attempts" ELSE "initiated_count"
    [] e.event_type = "quote:abandoned" ->
         IF c = "applicant_360" THEN "abandoned_count"
         ELSE CASE e.scenario = "scenario_1" -> "abandoned_scenario_1_count"
                [] e.scenario = "scenario_2" -> "abandoned_scenario_2_count"
                [] e.scenario = "scenario_3" -> "abandoned_scenario_3_count"
                [] OTHER                     -> "none"
    [] OTHER -> "none"

(* What an event adds to a number.  Counts come first: an order_total that  *)
(* is no number raises when they have been made.                            *)
Increment(c, e, f) ==
  IF f = "event_count" \/ f = CounterOf(c, e) THEN 1
  ELSE IF e.order_total = NotANumber THEN 0
  ELSE CASE e.event_type = "order.created" /\ f \in {"total_order_value", "total_spend"} ->
              e.order_total
         [] e.event_type = "order.refunded" /\ f = "refunded_amount" -> e.order_total
         [] e.event_type = "order.refunded" /\ f = "total_spend"     -> -e.order_total
         [] OTHER -> 0

(* AggregateCustomer360 overwrites last_channel even with None;             *)
(* AggregateApplicant360 keeps the last product type it has heard of.       *)
LastAfter(c, last, place) ==
  IF c = "applicant_360" /\ place = None THEN last ELSE place

(* add_input *)
AddInput(c, acc, e) ==
  [f \in DOMAIN acc |-> IF f = "last" THEN LastAfter(c, acc.last, e.place)
                                      ELSE acc[f] + Increment(c, e, f)]

(* Mutant of Merge: the second accumulator replaces the first. *)
MergeReplaces(a, b) == b

(* merge_accumulators *)
Merge(a, b) ==
  [f \in DOMAIN a |-> IF f = "last" THEN (IF b.last = None THEN a.last ELSE b.last)
                                    ELSE a[f] + b[f]]

-----------------------------------------------------------------------------
AlertRecord ==
  [alert_type : {"high_cancellation_rate", "refund_spike", "high_cart_abandonment_rate",
                 "high_near_miss_abandonment"},
   severity : {"medium", "high"}]

Alert(type, severity) == [alert_type |-> type, severity |-> severity]

(* An alert for a rate part/whole that has reached a threshold, of high     *)
(* severity from "high" on; both in percent.                                *)
RateAlert(type, part, whole, threshold, high) ==
  IF whole > 0 /\ 100 * part >= threshold * whole
  THEN {Alert(type, IF 100 * part >= high * whole THEN "high" ELSE "medium")}
  ELSE {}

(* evaluate_order_alerts *)
OrderAlerts(agg) ==
  RateAlert("high_cancellation_rate", agg.cancelled_count, agg.created_count,
            CancellationRate, 30)
  \cup (IF agg.refunded_amount >= RefundSpike THEN {Alert("refund_spike", "high")} ELSE {})
  \cup RateAlert("high_cart_abandonment_rate", agg.cart_abandoned_count, agg.cart_added_count,
                 CartAbandonmentRate, 75)

(* evaluate_quote_alerts: of those who reached payment, who did not bind.   *)
QuoteAlerts(agg) ==
  RateAlert("high_near_miss_abandonment", agg.abandoned_scenario_3_count,
            agg.bound_count + agg.abandoned_scenario_3_count, Scenario3Rate, 50)

(* alert_evaluator; the two 360 domains have none.                          *)
HasEvaluator(c) == c \in {"orders", "quotes"}

Alerts(c, agg) ==
  CASE c = "orders" -> OrderAlerts(agg)
    [] c = "quotes" -> QuoteAlerts(agg)
    [] OTHER        -> {}
=============================================================================
