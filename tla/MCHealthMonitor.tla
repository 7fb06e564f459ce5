-------------------------- MODULE MCHealthMonitor --------------------------
(* HealthMonitor with two domains that have a dlq_table and one without. *)
EXTENDS HealthMonitor

MCDomainList == <<"orders", "customer_360", "quotes">>

MCHasDlqTable == {"orders", "quotes"}
=============================================================================
