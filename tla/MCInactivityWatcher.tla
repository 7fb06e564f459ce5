----------------------- MODULE MCInactivityWatcher -----------------------
(***************************************************************************)
(* A detector for TLC with every kind of state and of failure:             *)
(*   open   the key becomes pending (an item in the cart)                  *)
(*   close  the key is resolved (checkout)                                 *)
(*   odd    a pending state timeout_event_fn cannot turn into an event     *)
(*   junk   a state should_fire_fn raises on                               *)
(*   bad    an event reducer_fn raises on                                  *)
(***************************************************************************)
EXTENDS InactivityWatcher

MCEvent == {"open", "close", "odd", "junk", "bad"}

MCDetectorState == {"open", "closed", "odd", "junk"}

MCReduce ==
  [se \in Value \X MCEvent |->
     CASE se[2] = "open"  -> "open"
       [] se[2] = "close" -> "closed"
       [] se[2] = "odd"   -> "odd"
       [] se[2] = "junk"  -> "junk"
       [] se[2] = "bad"   -> se[1]]

MCPending == {"open", "odd"}

MCReducerRaises == Value \X {"bad"}

MCShouldFireRaises == {"junk"}

MCTimeoutFnRaises == {"odd"}
=============================================================================
