----------------------- MODULE MCWindowedAggregation -----------------------
(***************************************************************************)
(* WindowedAggregation with the domains of the examples, events that bring *)
(* out each counter and each alert, and the windowings that differ in when *)
(* they put out panes.                                                     *)
(***************************************************************************)
EXTENDS WindowedAggregation

CONSTANTS web, app

MCPlace == {web, app}

MCEvent == 1..4

E(type, total, place) ==
  [event_type |-> type, order_total |-> total, place |-> place, scenario |-> "none"]

Abandoned(scenario, place) ==
  [event_type |-> "quote:abandoned", order_total |-> 0, place |-> place, scenario |-> scenario]

Orders == <<E("order.created", 2, web), E("order.cancelled", 2, web),
            E("order.created", NotANumber, web), E("order.other", 2, web)>>

(* A cart half of which is abandoned, and refunds. *)
Carts == <<E("cart.item_added", 0, web), E("cart.abandoned", 0, web),
           E("order.refunded", 2, web), E("cart.item_added", 0, web)>>

(* An event with no channel, and a refund that has no total. *)
Customer == <<E("order.created", 3, web), E("order.refunded", 2, app),
              E("order.refunded", NotANumber, None), E("cart.item_removed", 0, web)>>

Quotes == <<E("post-quote:bind", 0, web), Abandoned("scenario_3", web),
            Abandoned("scenario_1", web), E("quote:recalculate", 0, web)>>

Payments == <<E("post-quote:bind", 0, web), Abandoned("scenario_3", web),
              Abandoned("unknown", web), E("post-quote:bind", 0, web)>>

Applicant == <<E("pre-quote:initiated", 0, None), E("quote:quoted", 0, web),
               Abandoned("scenario_2", app), E("post-quote:bind", 0, None)>>

(* What a DomainSpec that sets nothing gets. *)
DefaultMode == [combiner |-> "orders", input |-> Orders,
                lateness |-> 0, early |-> FALSE, accumulating |-> FALSE, faulty |-> FALSE]

MCDefaultMode == {DefaultMode}

(* Running totals that late events correct. *)
LateMode == [DefaultMode EXCEPT !.lateness = 2, !.accumulating = TRUE]

Windowings == {DefaultMode,
               [DefaultMode EXCEPT !.early = TRUE],
               [DefaultMode EXCEPT !.early = TRUE, !.accumulating = TRUE],
               LateMode, [LateMode EXCEPT !.accumulating = FALSE],
               [DefaultMode EXCEPT !.faulty = TRUE],
               [DefaultMode EXCEPT !.early = TRUE, !.faulty = TRUE],
               [LateMode EXCEPT !.accumulating = FALSE, !.lateness = 1, !.faulty = TRUE]}

(* The other domains, with early panes or without. *)
Domain(combiner, input) ==
  {[DefaultMode EXCEPT !.combiner = combiner, !.input = input, !.early = early] :
     early \in BOOLEAN}

MCModes == Windowings \cup Domain("orders", Carts) \cup Domain("customer_360", Customer)
             \cup Domain("quotes", Quotes) \cup Domain("quotes", Payments)
             \cup Domain("applicant_360", Applicant)
=============================================================================
