------------------------------- MODULE Topic -------------------------------
(***************************************************************************)
(* The Pub/Sub topic the domains read (beam.io.ReadFromPubSub in           *)
(* build_streaming_pipeline), as the code relies on it: every domain has a *)
(* subscription of its own, each message is delivered to each subscription *)
(* at least once, and the order of delivery is not the order of            *)
(* publication.  Messages are grouped by their source, the customer or     *)
(* quote whose key they carry; the key <<d, s>> is source s as domain d    *)
(* sees it.                                                                *)
(***************************************************************************)
EXTENDS Integers, Sequences

CONSTANTS
  Domain,            \* the domains, one subscription each
  Source,            \* who publishes
  Event,             \* what is published
  Ordered,           \* whether each subscription happens to deliver in order
  MaxPublished,      \* bound: messages a source publishes
  MaxRedeliveries    \* bound: repeated deliveries, in total

Key == Domain \X Source

VARIABLES
  log,               \* log[s]: the messages source s has published, in order
  inbox,             \* inbox[k]: the indexes in log[k[2]] not yet delivered to k[1]
  redelivered        \* how many deliveries were repeated

vars == <<log, inbox, redelivered>>

TypeOK ==
  /\ log \in [Source -> Seq(Event)]
  /\ inbox \in [Key -> SUBSET Nat]
  /\ \A k \in Key : inbox[k] \subseteq 1..Len(log[k[2]])
  /\ redelivered \in 0..MaxRedeliveries

Init ==
  /\ log = [s \in Source |-> <<>>]
  /\ inbox = [k \in Key |-> {}]
  /\ redelivered = 0

Publish(s, e) ==
  /\ Len(log[s]) < MaxPublished
  /\ log' = [log EXCEPT ![s] = Append(@, e)]
  /\ inbox' = [k \in Key |-> IF k[2] = s THEN inbox[k] \cup {Len(log[s]) + 1} ELSE inbox[k]]
  /\ UNCHANGED redelivered

(* Message i of k's source reaches k's domain. *)
Deliver(k, i) ==
  /\ i \in inbox[k]
  /\ Ordered => \A j \in inbox[k] : i <= j
  /\ inbox' = [inbox EXCEPT ![k] = @ \ {i}]
  /\ UNCHANGED <<log, redelivered>>

(* A message that was delivered is delivered once more. *)
Redeliver(k, i) ==
  /\ i \in 1..Len(log[k[2]]) \ inbox[k]
  /\ redelivered < MaxRedeliveries
  /\ redelivered' = redelivered + 1
  /\ UNCHANGED <<log, inbox>>
=============================================================================
