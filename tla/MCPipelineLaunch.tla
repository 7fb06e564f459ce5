-------------------------- MODULE MCPipelineLaunch --------------------------
(***************************************************************************)
(* PipelineLaunch with one domain set up in every way, and with two        *)
(* domains of a few kinds launched in every way.                           *)
(***************************************************************************)
EXTENDS PipelineLaunch

(* A raw table with its schema, and nothing else. *)
RawOnly ==
  [name |-> "orders", raw_table |-> "set", enriched_table |-> "unset", dlq_table |-> "set",
   key_fn |-> FALSE, aggregate_fn |-> FALSE, alert_evaluator |-> FALSE,
   key_field_names |-> FALSE, raw_table_schema |-> TRUE, enriched_table_schema |-> FALSE,
   dedup_key_fn |-> FALSE, inactivity_detector |-> FALSE,
   lateness |-> FALSE, early |-> FALSE, accumulation_mode |-> "discarding"]

(* ORDERS_DOMAIN, and the second view of CUSTOMER_360_DOMAIN. *)
Orders == [RawOnly EXCEPT !.enriched_table = "set", !.key_fn = TRUE, !.aggregate_fn = TRUE,
                          !.alert_evaluator = TRUE, !.key_field_names = TRUE,
                          !.enriched_table_schema = TRUE]

Customer360 == [Orders EXCEPT !.name = "customer_360", !.raw_table = "unset",
                              !.dlq_table = "unset", !.alert_evaluator = FALSE]

Triggers == {<<FALSE, FALSE, "discarding">>, <<TRUE, FALSE, "accumulating">>,
             <<FALSE, TRUE, "discarding">>, <<TRUE, TRUE, "discarding">>,
             <<FALSE, FALSE, "retracting">>}

OneDomain ==
  {<<[RawOnly EXCEPT !.raw_table = raw, !.enriched_table = enriched, !.key_fn = f[1],
                     !.aggregate_fn = f[2], !.alert_evaluator = f[3], !.key_field_names = f[4],
                     !.raw_table_schema = f[5], !.enriched_table_schema = f[6],
                     !.dedup_key_fn = f[7], !.inactivity_detector = f[8], !.dlq_table = dlq,
                     !.lateness = t[1], !.early = t[2], !.accumulation_mode = t[3]]>> :
     raw \in Table, enriched \in Table, dlq \in Table, f \in [1..8 -> BOOLEAN],
     t \in Triggers}

TwoDomains ==
  {<<first, second>> : first \in {RawOnly, Orders},
                       second \in {RawOnly, Customer360,
                                   [Customer360 EXCEPT !.early = TRUE, !.lateness = TRUE],
                                   [Customer360 EXCEPT !.enriched_table_schema = FALSE],
                                   [Customer360 EXCEPT !.enriched_table = "empty"]}}

Call == [domains : {<<RawOnly>>}, alerts_table : Table, alerts_table_schema : BOOLEAN,
         write_method : {"STORAGE_WRITE_API", "STREAMING_INSERTS"},
         project : BOOLEAN, runner : {"DirectRunner", "DataflowRunner"}, packaged : BOOLEAN,
         servicenow : {"off", "partial", "full"}]

(* A call that nothing is wrong with. *)
Proper(call) ==
  /\ call.project /\ call.packaged /\ call.servicenow = "full"
  /\ call.alerts_table = "set" /\ call.alerts_table_schema

MCLaunch == {[call EXCEPT !.domains = ds] : call \in {c \in Call : Proper(c)}, ds \in OneDomain}
              \cup {[call EXCEPT !.domains = ds] : call \in Call, ds \in TwoDomains}
=============================================================================
