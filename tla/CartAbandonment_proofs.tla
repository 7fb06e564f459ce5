----------------------- MODULE CartAbandonment_proofs -----------------------
(***************************************************************************)
(* Proofs about CartAbandonment, for any number of domains, customers,     *)
(* items and messages: what the detector's count is worth when messages    *)
(* come in order, and what it is still worth when they do not.             *)
(***************************************************************************)
EXTENDS CartAbandonment, FiniteSetTheorems, TLAPS

(* The reducer, event by event.  It never counts below zero, and a larger   *)
(* count stays the larger one.                                              *)
LEMMA CountAfterCases ==
  ASSUME NEW n \in Count, NEW e \in Event
  PROVE  /\ CountAfter(n, e) \in Count
         /\ e = "item_added" => CountAfter(n, e) = IF n < MaxCount THEN n + 1 ELSE n
         /\ e = "item_removed" => CountAfter(n, e) = IF n > 0 THEN n - 1 ELSE 0
         /\ e = "order_created" => CountAfter(n, e) = 0
         /\ e = "after_order" => CountAfter(n, e) = n
<1>1. MaxCount \in Nat
  BY BoundsAssumption DEF MaxCount
<1> QED
  BY <1>1 DEF Count, Event, CountAfter

LEMMA CountAfterIsMonotone ==
  ASSUME NEW m \in Count, NEW n \in Count, m <= n, NEW e \in Event
  PROVE  CountAfter(m, e) <= CountAfter(n, e)
<1>1. MaxCount \in Nat
  BY BoundsAssumption DEF MaxCount
<1>2. e \in {"item_added", "item_removed", "order_created", "after_order"}
  BY DEF Event
<1> QED
  BY <1>1, <1>2, CountAfterCases DEF Count

(* CART_INACTIVITY_DETECTOR is a detector.                                  *)
LEMMA DetectorIsSound == W!DetectorAssumption
<1>1. 0 \in Count /\ CartIsPending \subseteq Count
  BY BoundsAssumption DEF Count, MaxCount, CartIsPending
<1>2. CartStateReducer \in [W!Value \X Event -> W!Value]
  BY <1>1, CountAfterCases DEF CartStateReducer, W!Value
<1> QED
  BY <1>1, <1>2, NoStateAssumption, BoundsAssumption DEF W!DetectorAssumption, W!Value

(* No callback of the detector raises, so an event is processed cleanly.    *)
LEMMA ProcessCart ==
  ASSUME W!TypeOK, NEW k \in Key, NEW e \in Event, W!Process(k, e)
  PROVE  /\ Counted(k) \in Count
         /\ W!ProcessClean(k, e)
         /\ W!Reduced(k, e) = CountAfter(Counted(k), e)
<1>1. W!ProcessClean(k, e)
  BY DEF W!Process, W!ProcessFails, W!ProcessReducerRaises, W!ProcessShouldFireRaises
<1>2. Counted(k) = W!Current(k)
  BY DEF Counted, W!Current
<1>3. Counted(k) \in Count
  BY BoundsAssumption DEF Counted, W!TypeOK, W!Value, Count, MaxCount
<1>4. Counted(k) # NoState
  BY <1>3, NoStateAssumption
<1> QED
  BY <1>1, <1>2, <1>3, <1>4 DEF W!Reduced, CartStateReducer

-----------------------------------------------------------------------------
LEMMA WatcherKeepsType ==
  ASSUME W!TypeOK,
         \/ \E k \in Key, e \in Event : W!Process(k, e)
         \/ \E k \in Key : W!TimeoutFires(k)
         \/ W!Tick
         \/ UNCHANGED watcherVars
  PROVE  W!TypeOK'
<1> USE DetectorIsSound DEF W!TypeOK, W!DetectorAssumption, W!Output, W!Unset
<1>1. ASSUME NEW k \in Key, NEW e \in Event, W!Process(k, e) PROVE W!TypeOK'
  <2>1. W!ProcessClean(k, e) /\ W!Reduced(k, e) \in Count
    BY <1>1, ProcessCart, CountAfterCases
  <2> QED
    BY <2>1 DEF W!ProcessClean, W!Reschedule, W!Forward, W!Value
<1>2. ASSUME NEW k \in Key, W!TimeoutFires(k) PROVE W!TypeOK'
  BY <1>2 DEF W!TimeoutFires, W!Consume, W!WillFire, W!ShouldFire, W!Value
<1>3. CASE W!Tick
  BY <1>3 DEF W!Tick
<1>4. CASE UNCHANGED watcherVars
  BY <1>4 DEF watcherVars
<1> QED
  BY <1>1, <1>2, <1>3, <1>4

(* A message a domain receives is one that was published.                   *)
LEMMA MessageWasPublished ==
  ASSUME TypeOK, NEW k \in Key, NEW i \in 1..MaxPublished, Receive(k, i) \/ ReceiveAgain(k, i)
  PROVE  /\ i \in 1..Len(log[k[2]])
         /\ log[k[2]][i] \in Event
<1>1. i \in 1..Len(log[k[2]])
  BY DEF Receive, ReceiveAgain, T!Deliver, T!Redeliver, TypeOK, T!TypeOK, T!Key, Key
<1>2. log[k[2]] \in Seq(Event)
  BY DEF TypeOK, T!TypeOK, Key
<1> QED
  BY <1>1, <1>2

(* What the customer does in a step of Next: publish an event, or not.      *)
ShopOrNot(c) ==
  \/ \E e \in Event, n \in 0..MaxItems : Shop(c, e, n)
  \/ Stall(c) \/ NewSession(c)
  \/ FollowUp(c) /\ UNCHANGED <<topicVars, watcherVars, cart, carts, outcomeVars>>

CustomerActs(c) ==
  AddItem(c) \/ RemoveItem(c) \/ CheckOut(c) \/ FollowUp(c) \/ Stall(c) \/ NewSession(c)

LEMMA CustomerShops ==
  ASSUME TypeOK, NEW c \in Customer, CustomerActs(c)
  PROVE  ShopOrNot(c) /\ UNCHANGED watcherVars
<1>1. cart[c] \in 0..MaxItems /\ MaxItems \in Nat
  BY BoundsAssumption DEF TypeOK
<1>2. ShopOrNot(c)
  BY <1>1 DEF CustomerActs, AddItem, RemoveItem, CheckOut, FollowUp, ShopOrNot, Event
<1> QED
  BY <1>2 DEF ShopOrNot, Shop, Stall, NewSession

(* The steps of Next as the watchers see them.                              *)
LEMMA WatcherPart ==
  ASSUME TypeOK, [Next]_vars
  PROVE  \/ \E k \in Key, e \in Event : W!Process(k, e)
         \/ \E k \in Key : W!TimeoutFires(k)
         \/ W!Tick
         \/ UNCHANGED watcherVars
<1>1. ASSUME NEW k \in Key, NEW i \in 1..MaxPublished, Receive(k, i) \/ ReceiveAgain(k, i)
      PROVE  \E e \in Event : W!Process(k, e)
  BY <1>1, MessageWasPublished DEF Receive, ReceiveAgain, Watch
<1> QED
  BY <1>1, CustomerShops DEF Next, CustomerActs, FlagCart, Tick, vars

(* Publishing adds one message to the log and one cart to the history.      *)
LEMMA ShopKeepsTopic ==
  ASSUME TypeOK, NEW c \in Customer, NEW e \in Event, NEW n \in 0..MaxItems, Shop(c, e, n)
  PROVE  /\ T!TypeOK' /\ cart' \in [Customer -> 0..MaxItems]
         /\ carts' \in [Customer -> Seq(0..MaxItems)]
         /\ \A d \in Customer : Len(carts'[d]) = Len(log'[d])
<1>1. /\ log' = [log EXCEPT ![c] = Append(@, e)]
      /\ carts' = [carts EXCEPT ![c] = Append(@, n)]
      /\ cart' = [cart EXCEPT ![c] = n]
      /\ inbox' = [k \in Key |-> IF k[2] = c THEN inbox[k] \cup {Len(log[c]) + 1} ELSE inbox[k]]
      /\ redelivered' = redelivered
  BY DEF Shop, T!Publish, T!Key, Key
<1>2. /\ log \in [Customer -> Seq(Event)] /\ carts \in [Customer -> Seq(0..MaxItems)]
      /\ inbox \in [Key -> SUBSET Nat] /\ cart \in [Customer -> 0..MaxItems]
  BY DEF TypeOK, T!TypeOK, T!Key, Key
<1>3. /\ log' \in [Customer -> Seq(Event)] /\ Len(log'[c]) = Len(log[c]) + 1
      /\ \A d \in Customer : d # c => log'[d] = log[d]
  BY <1>1, <1>2
<1>4. /\ carts' \in [Customer -> Seq(0..MaxItems)] /\ Len(carts'[c]) = Len(carts[c]) + 1
      /\ \A d \in Customer : d # c => carts'[d] = carts[d]
  BY <1>1, <1>2
<1>5. \A d \in Customer : Len(carts'[d]) = Len(log'[d])
  BY <1>3, <1>4 DEF TypeOK
<1>6. T!TypeOK'
  <2>1. Len(log[c]) \in Nat
    BY <1>2
  <2>2. inbox' \in [Key -> SUBSET Nat]
    BY <1>1, <1>2, <2>1
  <2>3. \A k \in Key : inbox'[k] \subseteq 1..Len(log'[k[2]])
    BY <1>1, <1>2, <1>3, <2>1 DEF TypeOK, T!TypeOK, T!Key, Key
  <2> QED
    BY <1>1, <1>3, <2>2, <2>3 DEF TypeOK, T!TypeOK, T!Key, Key
<1> QED
  BY <1>1, <1>2, <1>4, <1>5, <1>6

LEMMA StepKeepsType == TypeOK /\ [Next]_vars => TypeOK'
<1> SUFFICES ASSUME TypeOK, [Next]_vars PROVE TypeOK'
  OBVIOUS
<1>1. W!TypeOK'
  BY WatcherPart, WatcherKeepsType DEF TypeOK
<1>2. ASSUME NEW c \in Customer, CustomerActs(c) PROVE TypeOK'
  <2>1. shopper' \in [Customer -> {"idle", "in_cart", "stalled", "done"}]
    BY <1>2 DEF CustomerActs, AddItem, RemoveItem, CheckOut, FollowUp, Stall, NewSession, Become,
                TypeOK
  <2>2. CASE \E e \in Event, n \in 0..MaxItems : Shop(c, e, n)
    <3>1. UNCHANGED outcomeVars
      BY <2>2 DEF Shop
    <3> QED
      BY <1>1, <2>1, <2>2, <3>1, ShopKeepsTopic DEF TypeOK, outcomeVars
  <2>3. CASE NewSession(c)
    <3>1. cart' \in [Customer -> 0..MaxItems] /\ undisturbed' \in [Key -> BOOLEAN]
      BY <2>3, BoundsAssumption DEF NewSession, TypeOK
    <3> QED
      BY <1>1, <2>1, <2>3, <3>1 DEF NewSession, TypeOK, T!TypeOK, topicVars
  <2>4. CASE UNCHANGED <<topicVars, watcherVars, cart, carts, outcomeVars>>
    BY <1>1, <2>1, <2>4 DEF TypeOK, T!TypeOK, topicVars, outcomeVars
  <2> QED
    BY <1>2, <2>2, <2>3, <2>4, CustomerShops DEF ShopOrNot, Stall
<1>3. ASSUME NEW k \in Key, NEW i \in 1..MaxPublished, Receive(k, i) \/ ReceiveAgain(k, i)
      PROVE  TypeOK'
  <2>1. inbox' = inbox \/ inbox' = [inbox EXCEPT ![k] = @ \ {i}]
    BY <1>3 DEF Receive, ReceiveAgain, T!Deliver, T!Redeliver
  <2>2. T!Key = Key
    BY DEF T!Key, Key
  <2>3. inbox' \in [Key -> SUBSET Nat] /\ \A l \in Key : inbox'[l] \subseteq inbox[l]
    BY <2>1, <2>2 DEF TypeOK, T!TypeOK
  <2>4. log' = log /\ redelivered' \in 0..MaxRedeliveries
    BY <1>3, BoundsAssumption DEF Receive, ReceiveAgain, T!Deliver, T!Redeliver, TypeOK, T!TypeOK
  <2>5. T!TypeOK'
    BY <2>2, <2>3, <2>4 DEF TypeOK, T!TypeOK
  <2>6. /\ added' \in [Key -> Nat] /\ undisturbed' \in [Key -> BOOLEAN]
        /\ UNCHANGED <<customerVars, flags>>
    <3>1. added' \in {[added EXCEPT ![k] = @ + 1], [added EXCEPT ![k] = 0], added}
      BY <1>3 DEF Receive, ReceiveAgain, Watch
    <3>2. \E b \in BOOLEAN : undisturbed' = [undisturbed EXCEPT ![k] = b]
      BY <1>3 DEF Receive, ReceiveAgain, TypeOK
    <3>3. added' \in [Key -> Nat]
      BY <3>1 DEF TypeOK
    <3>4. undisturbed' \in [Key -> BOOLEAN]
      BY <3>2 DEF TypeOK
    <3> QED
      BY <1>3, <3>3, <3>4 DEF Receive, ReceiveAgain, Watch
  <2> QED
    BY <1>1, <2>4, <2>5, <2>6 DEF TypeOK, customerVars
<1>4. ASSUME NEW k \in Key, FlagCart(k) PROVE TypeOK'
  BY <1>1, <1>4 DEF FlagCart, TypeOK, T!TypeOK, topicVars, customerVars
<1>5. CASE Tick \/ UNCHANGED vars
  BY <1>1, <1>5 DEF Tick, vars, TypeOK, T!TypeOK, topicVars, customerVars, outcomeVars
<1> QED
  BY <1>2, <1>3, <1>4, <1>5 DEF Next, CustomerActs

LEMMA InitHasType == Init => TypeOK
<1>1. Init => W!TypeOK
  BY DetectorIsSound
     DEF Init, W!Init, W!TypeOK, W!DetectorAssumption, W!Value, W!Unset, W!Output
<1>2. Init => T!TypeOK
  BY BoundsAssumption DEF Init, T!Init, T!TypeOK, T!Key, Key
<1> QED
  BY <1>1, <1>2, BoundsAssumption DEF Init, T!Init, TypeOK

(* The reducer never counts below zero, whatever it hears first             *)
(* (pipeline.py, _cart_state_reducer).                                      *)
THEOREM TypeCorrect == Spec => []TypeOK
  BY InitHasType, StepKeepsType, PTL DEF Spec

(* The watchers of the two domains are InactivityWatchers.                  *)
THEOREM WatchersAreWatchers == Spec => W!Spec
<1>1. Init => W!Init
  BY DEF Init
<1>2. TypeOK /\ [Next]_vars => [W!Next]_(W!vars)
  BY WatcherPart DEF W!Next, W!OnTimeout, W!vars, watcherVars
<1> QED
  BY <1>1, <1>2, TypeCorrect, PTL DEF Spec, W!Spec

-----------------------------------------------------------------------------
(* A cart is armed just when it counts an item; every item it counts was    *)
(* added.                                                                   *)
ArmedCounts == \A k \in Key : W!Armed(k) <=> Counted(k) > 0

CountedWasAdded == \A k \in Key : Counted(k) <= added[k]

(* What a message does to the watcher of k, and that it does no more.       *)
LEMMA WatchEffect ==
  ASSUME TypeOK, NEW k \in Key, NEW i \in 1..MaxPublished, Receive(k, i) \/ ReceiveAgain(k, i)
  PROVE  /\ Counted(k)' = CountAfter(Counted(k), log[k[2]][i])
         /\ Counted(k) \in Count
         /\ W!Armed(k)' <=> Counted(k)' > 0
         /\ \A l \in Key : l # k => Counted(l)' = Counted(l) /\ W!Armed(l)' = W!Armed(l)
<1> DEFINE e == log[k[2]][i]
           n == CountAfter(Counted(k), e)
<1>1. Watch(k, i) /\ e \in Event
  BY MessageWasPublished DEF Receive, ReceiveAgain
<1>2. /\ state' = [state EXCEPT ![k] = n] /\ timer' = W!Reschedule(k, n)
      /\ Counted(k) \in Count /\ n \in Count
  BY <1>1, ProcessCart, CountAfterCases DEF Watch, TypeOK, W!ProcessClean
<1>3. state'[k] = n /\ n # NoState /\ \A l \in Key : l # k => state'[l] = state[l]
  BY <1>2, NoStateAssumption DEF TypeOK, W!TypeOK
<1>4. /\ timer'[k] # -1 <=> n > 0
      /\ \A l \in Key : l # k => timer'[l] = timer[l]
  BY <1>2, BoundsAssumption DEF TypeOK, W!TypeOK, W!Reschedule, W!Unset, CartIsPending
<1> QED
  BY <1>2, <1>3, <1>4 DEF Counted, W!Armed, W!Unset

(* A flag discards the count and the timer.                                 *)
LEMMA FlagEffect ==
  ASSUME TypeOK, NEW k \in Key, FlagCart(k)
  PROVE  /\ Counted(k)' = 0 /\ ~W!Armed(k)'
         /\ \A l \in Key : l # k => Counted(l)' = Counted(l) /\ W!Armed(l)' = W!Armed(l)
<1>1. state' = [state EXCEPT ![k] = NoState] /\ timer' = [timer EXCEPT ![k] = -1]
  BY DEF FlagCart, W!TimeoutFires, W!Consume, W!Unset
<1> QED
  BY <1>1 DEF Counted, W!Armed, W!Unset, TypeOK, W!TypeOK

(* Nothing else touches a count, or arms a timer.                           *)
LEMMA OtherStepEffect ==
  ASSUME TypeOK, Tick \/ UNCHANGED watcherVars
  PROVE  \A k \in Key : Counted(k)' = Counted(k) /\ W!Armed(k)' = W!Armed(k)
<1>1. state' = state
  BY DEF Tick, W!Tick, watcherVars
<1>2. \A k \in Key : timer'[k] = -1 <=> timer[k] = -1
  BY DEF Tick, W!Tick, watcherVars, TypeOK, W!TypeOK, W!Unset
<1> QED
  BY <1>1, <1>2 DEF Counted, W!Armed, W!Unset

(* A count only ever grows by an item_added, falls by an item_removed, and  *)
(* starts again with a checkout or a flag, as does what it is measured by.  *)
LEMMA StepKeepsCount ==
  TypeOK /\ ArmedCounts /\ CountedWasAdded /\ [Next]_vars => (ArmedCounts /\ CountedWasAdded)'
<1> SUFFICES ASSUME TypeOK, ArmedCounts, CountedWasAdded, [Next]_vars
             PROVE  (ArmedCounts /\ CountedWasAdded)'
  OBVIOUS
<1>1. ASSUME NEW k \in Key, NEW i \in 1..MaxPublished, Receive(k, i) \/ ReceiveAgain(k, i)
      PROVE  (ArmedCounts /\ CountedWasAdded)'
  <2> DEFINE e == log[k[2]][i]
  <2>1. Watch(k, i) /\ e \in Event
    BY <1>1, MessageWasPublished DEF Receive, ReceiveAgain
  <2>2. /\ added'[k] = IF e = "item_added" THEN added[k] + 1
                       ELSE IF e = "order_created" THEN 0 ELSE added[k]
        /\ \A l \in Key : l # k => added'[l] = added[l]
        /\ added[k] \in Nat /\ Counted(k) <= added[k]
    BY <2>1 DEF Watch, TypeOK, CountedWasAdded
  <2>3. Counted(k)' <= added'[k]
    <3>1. Counted(k) \in Nat /\ MaxCount \in Nat
      BY <1>1, WatchEffect, BoundsAssumption DEF Count, MaxCount
    <3> QED
      BY <1>1, <2>1, <2>2, <3>1, WatchEffect, CountAfterCases DEF Event
  <2> QED
    BY <1>1, <2>2, <2>3, WatchEffect DEF ArmedCounts, CountedWasAdded
<1>2. ASSUME NEW k \in Key, FlagCart(k) PROVE (ArmedCounts /\ CountedWasAdded)'
  <2>1. added'[k] = 0 /\ \A l \in Key : l # k => added'[l] = added[l]
    BY <1>2 DEF FlagCart, TypeOK
  <2> QED
    BY <1>2, <2>1, FlagEffect DEF ArmedCounts, CountedWasAdded
<1>3. CASE (\E c \in Customer : CustomerActs(c)) \/ Tick \/ UNCHANGED vars
  <2>1. added' = added
    BY <1>3, CustomerShops DEF ShopOrNot, Shop, Stall, NewSession, Tick, vars, outcomeVars
  <2> QED
    BY <1>3, <2>1, OtherStepEffect, CustomerShops DEF ArmedCounts, CountedWasAdded, vars
<1> QED
  BY <1>1, <1>2, <1>3 DEF Next, CustomerActs

(* Whatever is late, repeated or out of order, an item is only counted for  *)
(* an item_added heard since the last checkout or flag.                     *)
THEOREM CountIsAlwaysEarned == Spec => []CountIsEarned
<1>1. Init => ArmedCounts /\ CountedWasAdded
  BY DEF Init, W!Init, ArmedCounts, CountedWasAdded, Counted, W!Armed, W!Unset
<1>2. TypeOK /\ ArmedCounts /\ CountedWasAdded => CountIsEarned
  <2> SUFFICES ASSUME TypeOK, ArmedCounts, CountedWasAdded, NEW k \in Key
               PROVE  Counted(k) <= added[k] /\ (W!Armed(k) => added[k] > 0)
    BY DEF CountIsEarned
  <2>1. Counted(k) \in Nat /\ added[k] \in Nat
    BY BoundsAssumption DEF TypeOK, W!TypeOK, W!Value, Counted, Count, MaxCount
  <2> QED
    BY <2>1 DEF ArmedCounts, CountedWasAdded
<1> QED
  BY <1>1, <1>2, TypeCorrect, StepKeepsCount, PTL DEF Spec

-----------------------------------------------------------------------------
(* The cart after the first n messages.                                     *)
CartAfter(history, n) == IF n = 0 THEN 0 ELSE history[n]

(* What can be in a cart, whatever was thrown away.                         *)
CartsAreSmall ==
  \A c \in Customer :
    /\ Len(log[c]) <= MaxPublished
    /\ cart[c] <= Len(log[c])
    /\ shopper[c] = "done" => cart[c] = 0
    /\ \A n \in 0..Len(log[c]) : CartAfter(carts[c], n) \in Nat /\ CartAfter(carts[c], n) <= n

(* Where some domain is undisturbed, each message tells what became of the  *)
(* cart, and the last one what is in it now.                                *)
MessagesTellCart ==
  \A k \in Key : undisturbed[k] =>
    /\ cart[k[2]] = CartAfter(carts[k[2]], Len(log[k[2]]))
    /\ \A n \in 1..Len(log[k[2]]) :
         CartAfter(carts[k[2]], n) = CountAfter(CartAfter(carts[k[2]], n - 1), log[k[2]][n])

(* An undisturbed domain has heard a prefix of the messages, of length m,   *)
(* and counts at most what the cart was after them.                         *)
CountsPrefix(k, m) ==
  /\ inbox[k] = (m + 1)..Len(log[k[2]])
  /\ Counted(k) <= CartAfter(carts[k[2]], m)
  /\ flags[k] = 0 => Counted(k) = CartAfter(carts[k[2]], m)

PrefixIsCounted ==
  \A k \in Key : undisturbed[k] => \E m \in 0..Len(log[k[2]]) : CountsPrefix(k, m)

FollowInv == TypeOK /\ CartsAreSmall /\ MessagesTellCart /\ PrefixIsCounted

(* What the customer publishes is what the reducer makes of the cart.       *)
LEMMA ShopIsCounted ==
  ASSUME TypeOK, CartsAreSmall, NEW c \in Customer, CustomerActs(c)
  PROVE  \/ /\ \E e \in Event, n \in 0..MaxItems :
                  /\ Shop(c, e, n)
                  /\ n = CountAfter(cart[c], e)
                  /\ n <= Len(log[c]) + 1
                  /\ shopper'[c] = "done" => n = 0
            /\ \A d \in Customer : d # c => shopper'[d] = shopper[d]
         \/ NewSession(c)
         \/ /\ UNCHANGED <<topicVars, watcherVars, cart, carts, outcomeVars>>
            /\ \A d \in Customer : shopper'[d] = "done" => shopper[d] = "done"
<1>1. cart[c] \in 0..MaxItems /\ MaxItems \in Nat /\ Len(log[c]) \in Nat
  BY BoundsAssumption DEF TypeOK, T!TypeOK
<1>2. cart[c] <= Len(log[c]) /\ Len(log[c]) <= MaxPublished /\ (shopper[c] = "done" => cart[c] = 0)
  BY DEF CartsAreSmall
<1>3. cart[c] < MaxCount /\ cart[c] \in Count /\ MaxCount \in Nat
  BY <1>1, <1>2, BoundsAssumption DEF Count, MaxCount
<1>4. /\ CountAfter(cart[c], "item_added") = cart[c] + 1
      /\ cart[c] > 1 => CountAfter(cart[c], "item_removed") = cart[c] - 1
      /\ CountAfter(cart[c], "order_created") = 0
      /\ CountAfter(cart[c], "after_order") = cart[c]
  BY <1>1, <1>3 DEF CountAfter
<1>5. {"item_added", "item_removed", "order_created", "after_order"} = Event
  BY DEF Event
<1>6. shopper \in [Customer -> {"idle", "in_cart", "stalled", "done"}]
  BY DEF TypeOK
<1>7. CASE AddItem(c)
  <2>1. Shop(c, "item_added", cart[c] + 1) /\ cart[c] + 1 \in 0..MaxItems
    BY <1>1, <1>7 DEF AddItem
  <2>2. shopper'[c] = "in_cart" /\ \A d \in Customer : d # c => shopper'[d] = shopper[d]
    BY <1>6, <1>7 DEF AddItem, Become
  <2> QED
    BY <1>1, <1>2, <1>4, <1>5, <2>1, <2>2
<1>8. CASE RemoveItem(c)
  <2>1. Shop(c, "item_removed", cart[c] - 1) /\ cart[c] - 1 \in 0..MaxItems /\ cart[c] > 1
    BY <1>1, <1>8 DEF RemoveItem
  <2>2. shopper'[c] = "in_cart" /\ \A d \in Customer : d # c => shopper'[d] = shopper[d]
    BY <1>6, <1>8 DEF RemoveItem
  <2> QED
    BY <1>1, <1>2, <1>4, <1>5, <2>1, <2>2
<1>9. CASE CheckOut(c)
  <2>1. Shop(c, "order_created", 0) /\ \A d \in Customer : d # c => shopper'[d] = shopper[d]
    BY <1>6, <1>9 DEF CheckOut, Become
  <2> QED
    BY <1>1, <1>4, <1>5, <2>1
<1>10. CASE FollowUp(c)
  <2>1. cart[c] = 0 /\ \A d \in Customer : d # c => shopper'[d] = shopper[d]
    BY <1>2, <1>6, <1>10 DEF FollowUp, Become
  <2>2. shopper'[c] = "idle"
    BY <1>6, <1>10 DEF FollowUp, Become
  <2> QED
    BY <1>1, <1>4, <1>5, <1>10, <2>1, <2>2 DEF FollowUp
<1>11. CASE Stall(c)
  BY <1>6, <1>11 DEF Stall, Become
<1> QED
  BY <1>7, <1>8, <1>9, <1>10, <1>11 DEF CustomerActs

LEMMA ShopFollows ==
  ASSUME FollowInv, NEW c \in Customer, NEW e \in Event, NEW n \in 0..MaxItems,
         Shop(c, e, n), n = CountAfter(cart[c], e), n <= Len(log[c]) + 1,
         shopper'[c] = "done" => n = 0,
         \A d \in Customer : d # c => shopper'[d] = shopper[d]
  PROVE  CartsAreSmall' /\ MessagesTellCart' /\ PrefixIsCounted'
<1> DEFINE L == Len(log[c])
<1>1. /\ log \in [Customer -> Seq(Event)] /\ carts \in [Customer -> Seq(0..MaxItems)]
      /\ inbox \in [Key -> SUBSET Nat] /\ cart \in [Customer -> 0..MaxItems]
      /\ Len(carts[c]) = L /\ L \in Nat /\ MaxItems \in Nat
  BY BoundsAssumption DEF FollowInv, TypeOK, T!TypeOK, T!Key, Key
<1>2. /\ Len(log[c]) < MaxPublished
      /\ log' = [log EXCEPT ![c] = Append(@, e)]
      /\ carts' = [carts EXCEPT ![c] = Append(@, n)]
      /\ cart' = [cart EXCEPT ![c] = n]
      /\ inbox' = [k \in Key |-> IF k[2] = c THEN inbox[k] \cup {L + 1} ELSE inbox[k]]
      /\ UNCHANGED <<watcherVars, outcomeVars>>
  BY DEF Shop, T!Publish, T!Key, Key
<1>3. /\ log'[c] = Append(log[c], e) /\ Len(log'[c]) = L + 1
      /\ \A i \in 1..L : log'[c][i] = log[c][i]
      /\ log'[c][L + 1] = e
      /\ \A d \in Customer : d # c => log'[d] = log[d]
  BY <1>1, <1>2
<1>4. /\ \A i \in 0..L : CartAfter(carts'[c], i) = CartAfter(carts[c], i)
      /\ CartAfter(carts'[c], L + 1) = n
      /\ \A d \in Customer : d # c =>
           \A i \in 0..Len(log[d]) : CartAfter(carts'[d], i) = CartAfter(carts[d], i)
  <2>1. /\ \A i \in 1..L : carts'[c][i] = carts[c][i]
        /\ carts'[c][L + 1] = n
        /\ \A d \in Customer : d # c => carts'[d] = carts[d]
    BY <1>1, <1>2
  <2> QED
    BY <1>1, <2>1 DEF CartAfter
<1>5. \A k \in Key : Counted(k)' = Counted(k)
  BY <1>2 DEF Counted, watcherVars
<1>6. \A d \in Customer : d # c => cart'[d] = cart[d] /\ Len(log[d]) \in Nat
  BY <1>1, <1>2
<1>7. CartsAreSmall'
  <2>1. /\ Len(log'[c]) <= MaxPublished /\ cart'[c] = n
        /\ \A i \in 0..(L + 1) : CartAfter(carts'[c], i) \in Nat /\ CartAfter(carts'[c], i) <= i
    <3>1. \A i \in 0..L : CartAfter(carts'[c], i) \in Nat /\ CartAfter(carts'[c], i) <= i
      BY <1>4 DEF FollowInv, CartsAreSmall
    <3>2. CartAfter(carts'[c], L + 1) \in Nat /\ CartAfter(carts'[c], L + 1) <= L + 1
      BY <1>1, <1>4
    <3>3. \A i \in 0..(L + 1) : i \in 0..L \/ i = L + 1
      BY <1>1
    <3>4. Len(log'[c]) <= MaxPublished /\ cart'[c] = n
      BY <1>1, <1>2, <1>3, BoundsAssumption
    <3> QED
      BY <3>1, <3>2, <3>3, <3>4
  <2> QED
    BY <1>3, <1>4, <1>6, <2>1 DEF FollowInv, CartsAreSmall
<1>8. MessagesTellCart'
  <2> SUFFICES ASSUME NEW k \in Key, undisturbed'[k]
               PROVE  /\ cart'[k[2]] = CartAfter(carts'[k[2]], Len(log'[k[2]]))
                      /\ \A i \in 1..Len(log'[k[2]]) :
                           CartAfter(carts'[k[2]], i)
                             = CountAfter(CartAfter(carts'[k[2]], i - 1), log'[k[2]][i])
    BY DEF MessagesTellCart
  <2>1. /\ cart[k[2]] = CartAfter(carts[k[2]], Len(log[k[2]])) /\ k[2] \in Customer
        /\ \A i \in 1..Len(log[k[2]]) :
             CartAfter(carts[k[2]], i) = CountAfter(CartAfter(carts[k[2]], i - 1), log[k[2]][i])
    BY <1>2 DEF FollowInv, MessagesTellCart, outcomeVars, Key
  <2>2. CASE k[2] # c
    <3>1. log'[k[2]] = log[k[2]] /\ cart'[k[2]] = cart[k[2]]
          /\ \A i \in 0..Len(log[k[2]]) : CartAfter(carts'[k[2]], i) = CartAfter(carts[k[2]], i)
      BY <1>3, <1>4, <1>6, <2>1, <2>2
    <3>2. Len(log[k[2]]) \in Nat
      BY <1>6, <2>1, <2>2
    <3>3. Len(log[k[2]]) \in 0..Len(log[k[2]])
          /\ \A i \in 1..Len(log[k[2]]) : i \in 0..Len(log[k[2]]) /\ i - 1 \in 0..Len(log[k[2]])
      BY <3>2
    <3> QED
      BY <2>1, <3>1, <3>3
  <2>3. CASE k[2] = c
    <3> HIDE DEF L
    <3>0. /\ L \in 0..L /\ L + 1 - 1 = L
          /\ \A i \in 1..L : i \in 0..L /\ i - 1 \in 0..L
      BY <1>1
    <3>4. /\ cart[c] = CartAfter(carts[c], L)
          /\ \A i \in 1..L :
               CartAfter(carts[c], i) = CountAfter(CartAfter(carts[c], i - 1), log[c][i])
      BY <2>1, <2>3 DEF L
    <3>1. CartAfter(carts'[c], L + 1) = CountAfter(CartAfter(carts'[c], L), log'[c][L + 1])
      BY <1>3, <1>4, <3>0, <3>4
    <3>2. \A i \in 1..L :
            CartAfter(carts'[c], i) = CountAfter(CartAfter(carts'[c], i - 1), log'[c][i])
      BY <1>3, <1>4, <3>0, <3>4
    <3>3. \A i \in 1..(L + 1) : i \in 1..L \/ i = L + 1
      BY <1>1
    <3>5. cart'[c] = CartAfter(carts'[c], L + 1) /\ Len(log'[c]) = L + 1
      BY <1>1, <1>2, <1>3, <1>4
    <3> QED
      BY <2>3, <3>0, <3>1, <3>2, <3>3, <3>5
  <2> QED
    BY <2>2, <2>3
<1>9. PrefixIsCounted'
  <2> SUFFICES ASSUME NEW k \in Key, undisturbed'[k]
               PROVE  \E m \in 0..Len(log'[k[2]]) : CountsPrefix(k, m)'
    BY DEF PrefixIsCounted
  <2>1. PICK m \in 0..Len(log[k[2]]) : CountsPrefix(k, m)
    BY <1>2 DEF FollowInv, PrefixIsCounted, outcomeVars
  <2>2. k[2] \in Customer /\ Len(log[k[2]]) \in Nat
    BY <1>1 DEF Key
  <2>3. inbox'[k] = (m + 1)..Len(log'[k[2]]) /\ m \in 0..Len(log'[k[2]])
    <3>1. inbox[k] = (m + 1)..Len(log[k[2]])
      BY <2>1 DEF CountsPrefix
    <3>2. CASE k[2] # c
      BY <1>2, <1>3, <2>2, <3>1, <3>2
    <3>3. CASE k[2] = c
      <4>1. inbox'[k] = inbox[k] \cup {L + 1} /\ Len(log'[k[2]]) = L + 1
        BY <1>2, <1>3, <3>3
      <4>2. m \in 0..L /\ inbox[k] = (m + 1)..L
        BY <3>1, <3>3
      <4> QED
        BY <1>1, <4>1, <4>2
    <3> QED
      BY <3>2, <3>3
  <2>4. CartAfter(carts'[k[2]], m) = CartAfter(carts[k[2]], m) /\ flags' = flags
    BY <1>2, <1>4, <2>1, <2>2 DEF outcomeVars
  <2> QED
    BY <1>5, <2>1, <2>3, <2>4 DEF CountsPrefix
<1> QED
  BY <1>7, <1>8, <1>9

(* A message that comes in its turn takes the count one message further; a  *)
(* larger cart stays the larger one.                                        *)
LEMMA ReceiveFollows ==
  ASSUME FollowInv, NEW k \in Key, NEW i \in 1..MaxPublished, Receive(k, i) \/ ReceiveAgain(k, i)
  PROVE  CartsAreSmall' /\ MessagesTellCart' /\ PrefixIsCounted'
<1>1. /\ UNCHANGED <<log, shopper, cart, carts, flags>>
      /\ undisturbed' \in {[undisturbed EXCEPT ![k] = @ /\ \A j \in inbox[k] : i <= j],
                           [undisturbed EXCEPT ![k] = FALSE]}
  BY DEF Receive, ReceiveAgain, Watch, T!Deliver, T!Redeliver, customerVars
<1>2. \A l \in Key : undisturbed'[l] => undisturbed[l]
  BY <1>1 DEF FollowInv, TypeOK
<1>3. CartsAreSmall' /\ MessagesTellCart'
  BY <1>1, <1>2 DEF FollowInv, CartsAreSmall, MessagesTellCart
<1>4. \A l \in Key : l # k => inbox'[l] = inbox[l]
  <2>1. inbox' = inbox \/ inbox' = [inbox EXCEPT ![k] = @ \ {i}]
    BY DEF Receive, ReceiveAgain, T!Deliver, T!Redeliver
  <2> QED
    BY <2>1 DEF FollowInv, TypeOK, T!TypeOK, T!Key, Key
<1>5. ASSUME NEW l \in Key, l # k, undisturbed'[l]
      PROVE  \E m \in 0..Len(log'[l[2]]) : CountsPrefix(l, m)'
  <2>1. PICK m \in 0..Len(log[l[2]]) : CountsPrefix(l, m)
    BY <1>2, <1>5 DEF FollowInv, PrefixIsCounted
  <2>2. Counted(l)' = Counted(l)
    BY <1>5, WatchEffect DEF FollowInv
  <2> QED
    BY <1>1, <1>4, <1>5, <2>1, <2>2 DEF CountsPrefix
<1>6. ASSUME undisturbed'[k] PROVE \E m \in 0..Len(log'[k[2]]) : CountsPrefix(k, m)'
  <2>1. undisturbed[k] /\ Receive(k, i) /\ \A j \in inbox[k] : i <= j
    BY <1>6 DEF Receive, ReceiveAgain, FollowInv, TypeOK
  <2>2. PICK m \in 0..Len(log[k[2]]) : CountsPrefix(k, m)
    BY <2>1 DEF FollowInv, PrefixIsCounted
  <2>3. /\ log[k[2]] \in Seq(Event) /\ k[2] \in Customer /\ Len(log[k[2]]) \in Nat
        /\ inbox \in [Key -> SUBSET Nat]
    BY DEF FollowInv, TypeOK, T!TypeOK, T!Key, Key
  <2>4. i \in inbox[k] /\ inbox' = [inbox EXCEPT ![k] = @ \ {i}]
    BY <2>1 DEF Receive, T!Deliver
  <2>5. i = m + 1 /\ i \in 1..Len(log[k[2]])
    BY <2>1, <2>2, <2>3, <2>4 DEF CountsPrefix
  <2>6. inbox'[k] = (i + 1)..Len(log'[k[2]])
    BY <1>1, <2>2, <2>3, <2>4, <2>5 DEF CountsPrefix
  <2>7. /\ CartAfter(carts[k[2]], i) = CountAfter(CartAfter(carts[k[2]], m), log[k[2]][i])
        /\ CartAfter(carts[k[2]], m) \in Nat /\ CartAfter(carts[k[2]], m) <= m
        /\ Len(log[k[2]]) <= MaxPublished
    BY <2>1, <2>3, <2>5 DEF FollowInv, MessagesTellCart, CartsAreSmall
  <2>8. CartAfter(carts[k[2]], m) \in Count
    BY <2>3, <2>5, <2>7, BoundsAssumption DEF Count, MaxCount
  <2>9. /\ Counted(k)' = CountAfter(Counted(k), log[k[2]][i])
        /\ Counted(k) \in Count /\ log[k[2]][i] \in Event
    BY WatchEffect, MessageWasPublished DEF FollowInv
  <2>10. Counted(k)' <= CartAfter(carts[k[2]], i)
    BY <2>2, <2>7, <2>8, <2>9, CountAfterIsMonotone DEF CountsPrefix
  <2>11. flags[k] = 0 => Counted(k)' = CartAfter(carts[k[2]], i)
    BY <2>2, <2>7, <2>9 DEF CountsPrefix
  <2> QED
    BY <1>1, <2>5, <2>6, <2>10, <2>11 DEF CountsPrefix
<1> QED
  BY <1>3, <1>5, <1>6 DEF PrefixIsCounted

(* Steps that leave the messages alone: a flag, after which the count is no *)
(* longer exact; a cart that is thrown away, after which nobody is          *)
(* undisturbed; a customer who leaves; the clock.                           *)
LEMMA QuietStepFollows ==
  ASSUME FollowInv, TypeOK',
         UNCHANGED <<log, inbox, carts>>,
         \A k \in Key :
           /\ undisturbed'[k] => undisturbed[k] /\ cart'[k[2]] = cart[k[2]]
           /\ \/ Counted(k)' = Counted(k) /\ flags'[k] = flags[k]
              \/ Counted(k)' = 0 /\ flags'[k] # 0,
         \A c \in Customer : /\ cart'[c] \in {0, cart[c]}
                             /\ shopper'[c] = "done" => shopper[c] = "done"
  PROVE  CartsAreSmall' /\ MessagesTellCart' /\ PrefixIsCounted'
<1>1. CartsAreSmall'
  <2>1. \A c \in Customer : Len(log[c]) \in Nat
    BY DEF FollowInv, TypeOK, T!TypeOK
  <2> QED
    BY <2>1 DEF FollowInv, CartsAreSmall
<1>2. MessagesTellCart'
  BY DEF FollowInv, MessagesTellCart
<1>3. ASSUME NEW k \in Key, undisturbed'[k]
      PROVE  \E m \in 0..Len(log'[k[2]]) : CountsPrefix(k, m)'
  <2>1. PICK m \in 0..Len(log[k[2]]) : CountsPrefix(k, m)
    BY <1>3 DEF FollowInv, PrefixIsCounted
  <2>2. CartAfter(carts[k[2]], m) \in Nat
    BY DEF FollowInv, CartsAreSmall, Key
  <2>3. CountsPrefix(k, m)'
    BY <2>1, <2>2 DEF CountsPrefix
  <2> QED
    BY <2>3
<1> QED
  BY <1>1, <1>2, <1>3 DEF PrefixIsCounted

LEMMA StepFollows == FollowInv /\ [Next]_vars => FollowInv'
<1> SUFFICES ASSUME FollowInv, [Next]_vars PROVE FollowInv'
  OBVIOUS
<1>1. TypeOK /\ TypeOK'
  BY StepKeepsType DEF FollowInv
<1> DEFINE Follows == CartsAreSmall' /\ MessagesTellCart' /\ PrefixIsCounted'
<1>2. ASSUME NEW k \in Key, NEW i \in 1..MaxPublished, Receive(k, i) \/ ReceiveAgain(k, i)
      PROVE  Follows
  BY <1>2, ReceiveFollows
<1>3. ASSUME NEW k \in Key, FlagCart(k) PROVE Follows
  <2>1. UNCHANGED <<log, inbox, carts, cart, shopper, undisturbed>>
    BY <1>3 DEF FlagCart, topicVars, customerVars
  <2>2. \A l \in Key : \/ Counted(l)' = Counted(l) /\ flags'[l] = flags[l]
                       \/ Counted(l)' = 0 /\ flags'[l] # 0
    <3>1. flags'[k] # 0 /\ \A l \in Key : l # k => flags'[l] = flags[l]
      BY <1>1, <1>3 DEF FlagCart, TypeOK
    <3> QED
      BY <1>1, <1>3, <3>1, FlagEffect
  <2> QED
    BY <1>1, <2>1, <2>2, QuietStepFollows
<1>4. ASSUME NEW c \in Customer, CustomerActs(c) PROVE Follows
  <2>1. \A k \in Key : Counted(k)' = Counted(k)
    BY <1>1, <1>4, CustomerShops, OtherStepEffect
  <2>2. CASE NewSession(c)
    <3>1. /\ UNCHANGED <<log, inbox, carts, flags>>
          /\ \A d \in Customer : d # c => cart'[d] = cart[d] /\ shopper'[d] = shopper[d]
          /\ cart'[c] = 0 /\ shopper'[c] = "idle"
          /\ \A k \in Key : undisturbed'[k] => undisturbed[k] /\ k[2] # c
      BY <1>1, <2>2 DEF NewSession, Become, topicVars, TypeOK
    <3>2. \A k \in Key : k[2] \in Customer
      BY DEF Key
    <3> QED
      BY <1>1, <2>1, <3>1, <3>2, QuietStepFollows
  <2>3. CASE /\ UNCHANGED <<topicVars, watcherVars, cart, carts, outcomeVars>>
             /\ \A d \in Customer : shopper'[d] = "done" => shopper[d] = "done"
    BY <1>1, <2>1, <2>3, QuietStepFollows DEF topicVars, outcomeVars
  <2>4. CASE /\ \E e \in Event, n \in 0..MaxItems :
                  /\ Shop(c, e, n)
                  /\ n = CountAfter(cart[c], e)
                  /\ n <= Len(log[c]) + 1
                  /\ shopper'[c] = "done" => n = 0
             /\ \A d \in Customer : d # c => shopper'[d] = shopper[d]
    BY <2>4, ShopFollows
  <2> QED
    BY <1>1, <1>4, <2>2, <2>3, <2>4, ShopIsCounted DEF FollowInv
<1>5. ASSUME Tick \/ UNCHANGED vars PROVE Follows
  <2>1. UNCHANGED <<topicVars, customerVars, outcomeVars>>
    BY <1>5 DEF Tick, vars
  <2>2. \A k \in Key : Counted(k)' = Counted(k)
    BY <1>1, <1>5, OtherStepEffect DEF vars
  <2> QED
    <3>1. UNCHANGED <<log, inbox, carts, cart, shopper, undisturbed, flags>>
      BY <2>1 DEF topicVars, customerVars, outcomeVars
    <3> QED
      BY <1>1, <2>2, <3>1, QuietStepFollows
<1> QED
  BY <1>1, <1>2, <1>3, <1>4, <1>5 DEF FollowInv, Next, CustomerActs

LEMMA InitFollows == Init => FollowInv
<1> SUFFICES ASSUME Init PROVE FollowInv
  OBVIOUS
<1>1. TypeOK
  BY InitHasType
<1>2. /\ log = [c \in Customer |-> <<>>] /\ inbox = [k \in Key |-> {}]
      /\ cart = [c \in Customer |-> 0] /\ shopper = [c \in Customer |-> "idle"]
      /\ \A k \in Key : Counted(k) = 0 /\ k[2] \in Customer
  BY DEF Init, T!Init, T!Key, Key, W!Init, Counted
<1>3. \A c \in Customer : Len(log[c]) = 0 /\ \A n \in 0..0 : CartAfter(carts[c], n) = 0
  BY <1>2 DEF CartAfter
<1>4. CartsAreSmall /\ MessagesTellCart
  BY <1>2, <1>3, BoundsAssumption DEF CartsAreSmall, MessagesTellCart
<1>5. \A k \in Key : CountsPrefix(k, 0)
  BY <1>2, <1>3 DEF CountsPrefix
<1> QED
  BY <1>1, <1>2, <1>3, <1>4, <1>5 DEF FollowInv, PrefixIsCounted

(* In order and once, the count never exceeds the cart, is exact until the  *)
(* first flag, and never has an empty cart watched.                         *)
THEOREM CountAlwaysFollows == Spec => []CountFollowsCart
<1>1. Init => ArmedCounts /\ CountedWasAdded
  BY DEF Init, W!Init, ArmedCounts, CountedWasAdded, Counted, W!Armed, W!Unset
<1>2. FollowInv => TypeOK
  BY DEF FollowInv
<1>3. FollowInv /\ ArmedCounts => CountFollowsCart
  <2> SUFFICES ASSUME FollowInv, ArmedCounts, NEW k \in Key, undisturbed[k]
               PROVE  /\ Counted(k) <= CartSeen(k)
                      /\ flags[k] = 0 => Counted(k) = CartSeen(k)
                      /\ W!Armed(k) => CartSeen(k) > 0
    BY DEF CountFollowsCart
  <2> DEFINE L == Len(log[k[2]])
  <2>1. PICK m \in 0..L : CountsPrefix(k, m)
    BY DEF FollowInv, PrefixIsCounted
  <2>2. L \in Nat /\ k[2] \in Customer
    BY DEF FollowInv, TypeOK, T!TypeOK, Key
  <2>3. Cardinality(inbox[k]) = L - m
    <3>1. inbox[k] = (m + 1)..L /\ m + 1 \in Int /\ L \in Int
      BY <2>1, <2>2 DEF CountsPrefix
    <3>2. Cardinality((m + 1)..L) = IF m + 1 > L THEN 0 ELSE L - (m + 1) + 1
      BY <3>1, FS_Interval
    <3> QED
      BY <2>1, <2>2, <3>1, <3>2
  <2>4. CartSeen(k) = CartAfter(carts[k[2]], m)
    BY <2>1, <2>2, <2>3 DEF CartSeen, CartAfter
  <2>5. Counted(k) \in Nat /\ CartAfter(carts[k[2]], m) \in Nat
    BY <2>1, <2>2, BoundsAssumption
       DEF FollowInv, CartsAreSmall, TypeOK, W!TypeOK, W!Value, Counted, Count, MaxCount
  <2> QED
    BY <2>1, <2>4, <2>5 DEF CountsPrefix, ArmedCounts
<1> QED
  BY <1>1, <1>2, <1>3, InitFollows, StepFollows, StepKeepsCount, PTL DEF Spec

(* The safety half of FullCartIsFlaggedOnce: as long as messages come in    *)
(* order and once, a domain that has not flagged a customer whose cart is   *)
(* full still has messages of that customer to hear, or has a timer set.    *)
FullCartIsWatched ==
  \A k \in Key :
    undisturbed[k] /\ cart[k[2]] > 0 => flags[k] > 0 \/ inbox[k] # {} \/ W!Armed(k)

(* No full cart is overlooked before its first flag: with nothing on its    *)
(* way, the count is the cart, and what is counted is watched.              *)
THEOREM FullCartsAreWatched == Spec => []FullCartIsWatched
<1>1. Init => ArmedCounts /\ CountedWasAdded
  BY DEF Init, W!Init, ArmedCounts, CountedWasAdded, Counted, W!Armed, W!Unset
<1>2. FollowInv => TypeOK
  BY DEF FollowInv
<1>3. FollowInv /\ ArmedCounts => FullCartIsWatched
  <2> SUFFICES ASSUME FollowInv, ArmedCounts, NEW k \in Key, undisturbed[k], cart[k[2]] > 0,
                      ~(flags[k] > 0), inbox[k] = {}
               PROVE  W!Armed(k)
    BY DEF FullCartIsWatched
  <2> DEFINE L == Len(log[k[2]])
  <2>1. PICK m \in 0..L : CountsPrefix(k, m)
    BY DEF FollowInv, PrefixIsCounted
  <2>2. L \in Nat
    BY DEF FollowInv, TypeOK, T!TypeOK, Key
  <2>3. m = L
    <3>1. (m + 1)..L = {}
      BY <2>1 DEF CountsPrefix
    <3>2. L \notin (m + 1)..L
      BY <3>1
    <3> QED
      BY <2>1, <2>2, <3>2
  <2>4. Counted(k) = cart[k[2]]
    <3>1. flags[k] = 0
      BY DEF FollowInv, TypeOK
    <3> QED
      BY <2>1, <2>3, <3>1 DEF CountsPrefix, FollowInv, MessagesTellCart
  <2> QED
    BY <2>4 DEF ArmedCounts
<1> QED
  BY <1>1, <1>2, <1>3, InitFollows, StepFollows, StepKeepsCount, PTL DEF Spec
=============================================================================
