-------------------------- MODULE CartAbandonment --------------------------
(***************************************************************************)
(* The retail example (examples/retail_orders/pipeline.py): a watcher per  *)
(* domain built from CART_INACTIVITY_DETECTOR counts the items in each     *)
(* customer's cart from the events it hears, and flags a cart that stays   *)
(* non-empty through a silence.  The module puts the count next to the     *)
(* cart itself.                                                            *)
(*                                                                         *)
(* Channel and region, which the reducer only copies, are not modelled.    *)
(***************************************************************************)
EXTENDS Integers, Sequences, FiniteSets

CONSTANTS
  Domain,            \* {"orders", "customer_360"}
  Customer,          \* customer_ids
  NoState,           \* None
  Timeout,           \* CART_ABANDONMENT_TIMEOUT_SECS, in clock ticks
  Ordered,           \* see Topic
  MaxItems,          \* bound: items in a cart
  MaxPublished,      \* bound: events per customer
  MaxRedeliveries    \* bound: repeated deliveries

ASSUME BoundsAssumption ==
  /\ Timeout \in Nat \ {0}
  /\ Ordered \in BOOLEAN
  /\ MaxItems \in Nat /\ MaxPublished \in Nat /\ MaxRedeliveries \in Nat

(* The events, up to what the reducer tells apart: "after_order" stands for *)
(* order.cancelled and order.refunded.                                      *)
Event == {"item_added", "item_removed", "order_created", "after_order"}

(* A state of the detector is its cart_items, which no more deliveries than *)
(* there can be take to the largest count.                                  *)
MaxCount == MaxPublished + MaxRedeliveries + 1

Count == 0..MaxCount

ASSUME NoStateAssumption == NoState \notin Count

(* Mutants of CountAfter: checking out leaves the count alone; a removal    *)
(* takes it below zero.                                                     *)
CountAfterIgnoresOrder(n, e) ==
  CASE e = "item_added"   -> IF n < MaxCount THEN n + 1 ELSE n
    [] e = "item_removed" -> IF n > 0 THEN n - 1 ELSE 0
    [] OTHER              -> n

CountAfterUnclamped(n, e) ==
  CASE e = "item_added"    -> IF n < MaxCount THEN n + 1 ELSE n
    [] e = "item_removed"  -> n - 1
    [] e = "order_created" -> 0
    [] e = "after_order"   -> n

CountAfter(n, e) ==
  CASE e = "item_added"    -> IF n < MaxCount THEN n + 1 ELSE n
    [] e = "item_removed"  -> IF n > 0 THEN n - 1 ELSE 0
    [] e = "order_created" -> 0
    [] e = "after_order"   -> n

(* _cart_state_reducer *)
CartStateReducer ==
  [ne \in (Count \cup {NoState}) \X Event |->
     CountAfter(IF ne[1] = NoState THEN 0 ELSE ne[1], ne[2])]

(* Mutant of CartIsPending: a single item is overlooked. *)
CartIsPendingOffByOne == {n \in Count : n > 1}

(* _cart_is_pending *)
CartIsPending == {n \in Count : n > 0}

VARIABLES
  log, inbox, redelivered,                \* the order-events topic
  state, timer, out, quiet, signalled,    \* the watchers, one key per domain and customer
  shopper,     \* shopper[c]: what customer c is doing
  cart,        \* cart[c]: the items c has in the cart
  carts,       \* history: carts[c][i] is the cart of c after message i
  flags,       \* history: flags[k] counts the cart.abandoned events emitted for k
  added,       \* history: item_added deliveries k heard since its last checkout or flag
  undisturbed  \* history: k's messages came once each and in order, and its customer
               \* has not thrown a cart away without a message

T == INSTANCE Topic WITH Source <- Customer

Key == Domain \X Customer

W == INSTANCE InactivityWatcher
       WITH DetectorState <- Count,
            InitialState <- 0,
            Reduce <- CartStateReducer,
            Pending <- CartIsPending,
            ReducerRaises <- {},
            ShouldFireRaises <- {},
            TimeoutFnRaises <- {}

topicVars == <<log, inbox, redelivered>>
watcherVars == <<state, timer, out, quiet, signalled>>
customerVars == <<shopper, cart, carts>>
outcomeVars == <<flags, added, undisturbed>>
vars == <<topicVars, watcherVars, customerVars, outcomeVars>>

(* The type invariant: the reducer never counts below zero, and the history *)
(* of a cart keeps pace with what its customer has published.               *)
TypeOK ==
  /\ T!TypeOK
  /\ W!TypeOK
  /\ cart \in [Customer -> 0..MaxItems]
  /\ shopper \in [Customer -> {"idle", "in_cart", "stalled", "done"}]
  /\ carts \in [Customer -> Seq(0..MaxItems)]
  /\ \A c \in Customer : Len(carts[c]) = Len(log[c])
  /\ flags \in [Key -> Nat]
  /\ added \in [Key -> Nat]
  /\ undisturbed \in [Key -> BOOLEAN]

Init ==
  /\ T!Init
  /\ W!Init
  /\ cart = [c \in Customer |-> 0]
  /\ shopper = [c \in Customer |-> "idle"]
  /\ carts = [c \in Customer |-> <<>>]
  /\ flags = [k \in Key |-> 0]
  /\ added = [k \in Key |-> 0]
  /\ undisturbed = [k \in Key |-> TRUE]

-----------------------------------------------------------------------------
(* The customer (simulate_traffic.py, step).  A customer acts when it likes, *)
(* so that any two steps may be a silence apart.                            *)
Become(c, activity) == shopper' = [shopper EXCEPT ![c] = activity]

(* c publishes e, which leaves n items in the cart. *)
Shop(c, e, n) ==
  /\ T!Publish(c, e)
  /\ cart' = [cart EXCEPT ![c] = n]
  /\ carts' = [carts EXCEPT ![c] = Append(@, n)]
  /\ UNCHANGED <<watcherVars, outcomeVars>>

AddItem(c) ==
  /\ shopper[c] \in {"idle", "in_cart"}
  /\ cart[c] < MaxItems
  /\ Shop(c, "item_added", cart[c] + 1)
  /\ Become(c, "in_cart")

(* The last item is not removed: the customer leaves, or checks out. *)
RemoveItem(c) ==
  /\ shopper[c] = "in_cart"
  /\ cart[c] > 1
  /\ Shop(c, "item_removed", cart[c] - 1)
  /\ UNCHANGED shopper

CheckOut(c) ==
  /\ shopper[c] = "in_cart"
  /\ Shop(c, "order_created", 0)
  /\ Become(c, "done")

(* The order is cancelled, refunded, or kept. *)
FollowUp(c) ==
  /\ shopper[c] = "done"
  /\ Become(c, "idle")
  /\ \/ Shop(c, "after_order", 0)
     \/ UNCHANGED <<topicVars, watcherVars, cart, carts, outcomeVars>>

(* Real abandonment: no event is published. *)
Stall(c) ==
  /\ shopper[c] = "in_cart"
  /\ Become(c, "stalled")
  /\ UNCHANGED <<topicVars, watcherVars, cart, carts, outcomeVars>>

(* The old cart is gone, and no event says so. *)
NewSession(c) ==
  /\ shopper[c] = "stalled"
  /\ Become(c, "idle")
  /\ cart' = [cart EXCEPT ![c] = 0]
  /\ undisturbed' = [k \in Key |-> undisturbed[k] /\ k[2] # c]
  /\ UNCHANGED <<topicVars, watcherVars, carts, flags, added>>

-----------------------------------------------------------------------------
(* The watcher of k[1] processes message i of customer k[2]. *)
Watch(k, i) ==
  /\ W!Process(k, log[k[2]][i])
  /\ added' = CASE log[k[2]][i] = "item_added"    -> [added EXCEPT ![k] = @ + 1]
                [] log[k[2]][i] = "order_created" -> [added EXCEPT ![k] = 0]
                [] OTHER                          -> added
  /\ UNCHANGED <<customerVars, flags>>

Receive(k, i) ==
  /\ T!Deliver(k, i)
  /\ Watch(k, i)
  /\ undisturbed' = [undisturbed EXCEPT ![k] = @ /\ \A j \in inbox[k] : i <= j]

ReceiveAgain(k, i) ==
  /\ T!Redeliver(k, i)
  /\ Watch(k, i)
  /\ undisturbed' = [undisturbed EXCEPT ![k] = FALSE]

(* _on_timeout with _cart_abandoned_event. *)
FlagCart(k) ==
  /\ W!TimeoutFires(k)
  /\ flags' = [flags EXCEPT ![k] = @ + 1]
  /\ added' = [added EXCEPT ![k] = 0]
  /\ UNCHANGED <<topicVars, customerVars, undisturbed>>

Tick == W!Tick /\ UNCHANGED <<topicVars, customerVars, outcomeVars>>

Next ==
  \/ \E c \in Customer :
       \/ AddItem(c) \/ RemoveItem(c) \/ CheckOut(c) \/ FollowUp(c)
       \/ Stall(c) \/ NewSession(c)
  \/ \E k \in Key :
       \/ \E i \in 1..MaxPublished : Receive(k, i) \/ ReceiveAgain(k, i)
       \/ FlagCart(k)
  \/ Tick

Spec == Init /\ [][Next]_vars

(* Messages are delivered in the end, time passes and due timers fire; no   *)
(* customer has to do anything.                                             *)
FairSpec ==
  /\ Spec
  /\ WF_vars(Tick)
  /\ \A k \in Key :
       /\ WF_vars(\E i \in 1..MaxPublished : Receive(k, i))
       /\ WF_vars(FlagCart(k))

-----------------------------------------------------------------------------
Counted(k) == IF state[k] = NoState THEN 0 ELSE state[k]

(* The cart of k's customer after the last message delivered in order.      *)
CartSeen(k) ==
  LET n == Len(log[k[2]]) - Cardinality(inbox[k])
  IN  IF n = 0 THEN 0 ELSE carts[k[2]][n]

(* As long as messages come in order and once, the detector never counts    *)
(* more than the cart held after the messages it has heard, so it never     *)
(* watches, nor flags, an empty cart; and until the first flag throws its   *)
(* count away (state.clear()) it counts exactly.                            *)
CountFollowsCart ==
  \A k \in Key : undisturbed[k] =>
    /\ Counted(k) <= CartSeen(k)
    /\ flags[k] = 0 => Counted(k) = CartSeen(k)
    /\ W!Armed(k) => CartSeen(k) > 0

(* In any order, with any repetition, an item is only ever counted for an   *)
(* item_added heard since the last checkout or flag: a removal heard before *)
(* its addition cannot make the count grow, and a cart is never flagged     *)
(* twice on the strength of the same messages.                              *)
CountIsEarned ==
  \A k \in Key :
    /\ Counted(k) <= added[k]
    /\ W!Armed(k) => added[k] > 0

(* A customer who leaves for good with items in the cart has been flagged   *)
(* at least once, unless some message came out of order or twice.  (Not     *)
(* for every silence: items from before a flag are forgotten with it.)      *)
FullCartIsFlaggedOnce ==
  \A c \in Customer, d \in Domain :
    <>[](cart[c] > 0 /\ undisturbed[<<d, c>>] => flags[<<d, c>>] > 0)
=============================================================================
