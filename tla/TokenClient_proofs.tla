------------------------- MODULE TokenClient_proofs -------------------------
(***************************************************************************)
(* For any number of threads, and any delays that together fit into the    *)
(* margin and into a token's life, no call carries an expired token.       *)
(***************************************************************************)
EXTENDS TokenClient, TLAPS

(* The clock, the cache and every thread's locals keep their types.         *)
THEOREM TypeCorrect == Spec => []TypeOK
<1>1. Init => TypeOK
  BY DelayAssumption DEF Init, TypeOK, Location, NoToken
<1>2. TypeOK /\ [Next]_vars => TypeOK'
  <2> SUFFICES ASSUME TypeOK, [Next]_vars PROVE TypeOK'
    OBVIOUS
  <2> USE DelayAssumption DEF TypeOK, Location, Enter, Clock
  <2>1. ASSUME NEW t \in Thread, UseCache(t) \/ RequestToken(t) PROVE TypeOK'
    BY <2>1 DEF UseCache, RequestToken
  <2>2. ASSUME NEW t \in Thread, IssueToken(t) PROVE TypeOK'
    BY <2>2 DEF IssueToken, Token
  <2>3. ASSUME NEW t \in Thread, RefuseToken(t) \/ StoreToken(t) \/ MissExpiry(t) PROVE TypeOK'
    BY <2>3 DEF RefuseToken, StoreToken, MissExpiry
  <2>4. ASSUME NEW t \in Thread, StoreExpiry(t) PROVE TypeOK'
    BY <2>4 DEF StoreExpiry
  <2>5. ASSUME NEW t \in Thread, ReturnToken(t) \/ Send(t) PROVE TypeOK'
    BY <2>5 DEF ReturnToken, Send
  <2>6. CASE Tick
    BY <2>6 DEF Tick
  <2>7. CASE UNCHANGED vars
    BY <2>7 DEF vars
  <2> QED
    BY <2>1, <2>2, <2>3, <2>4, <2>5, <2>6, <2>7 DEF Next, Call
<1> QED
  BY <1>1, <1>2, PTL DEF Spec

-----------------------------------------------------------------------------
(* The parts of a call that are limited in time keep within their limit.    *)
OnTime ==
  \A t \in Thread :
    /\ since[t] <= now
    /\ pc[t] = "issued" => now <= since[t] + ResponseDelay
    /\ pc[t] = "stored" => now <= since[t] + StoreDelay
    /\ pc[t] \in {"returning", "sending"} => now <= since[t] + UseDelay

(* What each thread can count on.  Between a thread's two assignments the   *)
(* cached token may already be another thread's, but one that was issued at *)
(* most ResponseDelay before this thread stored its own.                    *)
InHand ==
  \A t \in Thread :
    /\ pc[t] = "issued" => issued[t] = since[t] + Lifetime
    /\ pc[t] = "stored" => token # NoToken /\ since[t] + Lifetime <= token + ResponseDelay
    /\ pc[t] = "returning" => token # NoToken /\ since[t] + UseDelay < token
    /\ pc[t] = "sending" => since[t] + UseDelay < held[t]

(* The cache is given up while its token is still good for one more call,   *)
(* and was never set further ahead than a full lifetime.                    *)
CacheSound ==
  /\ token # NoToken => expiresAt + UseDelay <= token
  /\ expiresAt = 0 \/ expiresAt <= now + Lifetime - Margin

IInv == TypeOK /\ OnTime /\ InHand /\ CacheSound

(* A client whose cache is empty and whose threads are idle satisfies it.   *)
LEMMA InitInvariant == Init => IInv
<1>1. Init => TypeOK
  BY DelayAssumption DEF Init, TypeOK, Location, NoToken
<1> QED
  BY <1>1, DelayAssumption DEF Init, IInv, OnTime, InHand, CacheSound

(* A check of the cache that succeeds leaves time for the whole call.       *)
LEMMA CheckKeepsInvariant ==
  ASSUME IInv, TypeOK', NEW t \in Thread, UseCache(t) \/ RequestToken(t)
  PROVE  IInv'
<1> USE DelayAssumption DEF IInv, TypeOK, Enter, Clock
<1>1. OnTime'
  BY DEF OnTime, UseCache, RequestToken
<1>2. InHand'
  BY DEF InHand, CacheSound, UseCache, RequestToken, Token, NoToken
<1>3. CacheSound'
  BY DEF CacheSound, UseCache, RequestToken
<1> QED
  BY <1>1, <1>2, <1>3

(* Neither the server's answer nor the end of a call touches the cache.     *)
LEMMA AnswerKeepsInvariant ==
  ASSUME IInv, TypeOK', NEW t \in Thread,
         IssueToken(t) \/ RefuseToken(t) \/ MissExpiry(t) \/ Send(t)
  PROVE  IInv'
<1> USE DelayAssumption DEF IInv, TypeOK, Enter, Clock, IssueToken, RefuseToken, MissExpiry,
       Send
<1>1. OnTime'
  BY DEF OnTime
<1>2. InHand'
  BY DEF InHand
<1>3. CacheSound'
  BY DEF CacheSound
<1> QED
  BY <1>1, <1>2, <1>3

(* A token stored over another thread's is at most ResponseDelay old, which *)
(* is young enough for every thread that has already checked or stored.     *)
LEMMA StoreTokenKeepsInvariant ==
  ASSUME MarginSuffices, IInv, TypeOK', NEW t \in Thread, StoreToken(t)
  PROVE  IInv'
<1> USE DelayAssumption DEF IInv, TypeOK, Enter, Clock, StoreToken
<1>1. OnTime'
  BY DEF OnTime
<1>2. /\ token' = since[t] + Lifetime
      /\ now <= since[t] + ResponseDelay
      /\ token' # NoToken
  BY DEF OnTime, InHand, NoToken
<1>3. InHand'
  <2> SUFFICES ASSUME NEW u \in Thread
               PROVE  /\ pc'[u] = "issued" => issued'[u] = since'[u] + Lifetime
                      /\ pc'[u] = "stored" =>
                           token' # NoToken /\ since'[u] + Lifetime <= token' + ResponseDelay
                      /\ pc'[u] = "returning" =>
                           token' # NoToken /\ since'[u] + UseDelay < token'
                      /\ pc'[u] = "sending" => since'[u] + UseDelay < held'[u]
    BY DEF InHand
  <2>1. since'[u] <= now /\ now \in Int /\ since'[u] \in Int /\ since[t] \in Int
    BY DEF OnTime
  <2>2. pc'[u] = "issued" => issued'[u] = since'[u] + Lifetime
    BY DEF InHand
  <2>3. since'[u] + Lifetime <= token' + ResponseDelay
    BY <1>2, <2>1
  <2>4. since'[u] + UseDelay < token'
    BY <1>2, <2>1 DEF MarginSuffices
  <2>5. pc'[u] = "sending" => since'[u] + UseDelay < held'[u]
    BY DEF InHand
  <2> QED
    BY <1>2, <2>2, <2>3, <2>4, <2>5
<1>4. CacheSound'
  <2>1. expiresAt = 0 \/ expiresAt <= now + Lifetime - Margin
    BY DEF CacheSound
  <2>2. expiresAt + UseDelay <= token'
    BY <1>2, <2>1 DEF MarginSuffices
  <2> QED
    BY <2>1, <2>2 DEF CacheSound
<1> QED
  BY <1>1, <1>3, <1>4

(* The expiry a thread sets counts from StoreDelay after its own token at   *)
(* most, and the cached one is at most ResponseDelay older than that.       *)
LEMMA StoreExpiryKeepsInvariant ==
  ASSUME MarginSuffices, IInv, TypeOK', NEW t \in Thread, StoreExpiry(t)
  PROVE  IInv'
<1> USE DelayAssumption DEF IInv, TypeOK, Enter, Clock, StoreExpiry
<1>1. OnTime'
  BY DEF OnTime
<1>2. /\ token # NoToken
      /\ token \in Int
      /\ now + Lifetime <= token + ResponseDelay + StoreDelay
  <2>1. token # NoToken /\ since[t] + Lifetime <= token + ResponseDelay
    BY DEF InHand
  <2>2. now <= since[t] + StoreDelay
    BY DEF OnTime
  <2> QED
    BY <2>1, <2>2 DEF Token
<1>3. now + UseDelay < token
  BY <1>2 DEF MarginSuffices
<1>4. InHand'
  BY <1>2, <1>3 DEF InHand
<1>5. CacheSound'
  BY <1>2 DEF CacheSound, MarginSuffices
<1> QED
  BY <1>1, <1>4, <1>5

(* The token a thread rereads is still good for its call.                   *)
LEMMA ReturnTokenKeepsInvariant ==
  ASSUME IInv, TypeOK', NEW t \in Thread, ReturnToken(t)
  PROVE  IInv'
<1> USE DelayAssumption DEF IInv, TypeOK, Enter, ReturnToken
<1>1. OnTime'
  BY DEF OnTime
<1>2. InHand'
  BY DEF InHand
<1>3. CacheSound'
  BY DEF CacheSound
<1> QED
  BY <1>1, <1>2, <1>3

(* The clock waits for the threads that must move on.                       *)
LEMMA TickKeepsInvariant ==
  ASSUME IInv, TypeOK', Tick
  PROVE  IInv'
<1> USE DelayAssumption DEF IInv, TypeOK, Location, Tick
<1>1. OnTime'
  BY DEF OnTime, Limit
<1>2. InHand'
  BY DEF InHand
<1>3. CacheSound'
  BY DEF CacheSound
<1> QED
  BY <1>1, <1>2, <1>3

(* No interleaving of the threads' calls breaks the invariant, as long as   *)
(* the delays fit into the margin.                                          *)
LEMMA Invariance == ASSUME MarginSuffices PROVE Spec => []IInv
<1>1. IInv /\ TypeOK' /\ [Next]_vars => IInv'
  <2> SUFFICES ASSUME IInv, TypeOK', [Next]_vars PROVE IInv'
    OBVIOUS
  <2>1. CASE UNCHANGED vars
    BY <2>1 DEF vars, IInv, TypeOK, OnTime, InHand, CacheSound
  <2> QED
    BY <2>1, MarginSuffices, CheckKeepsInvariant, AnswerKeepsInvariant,
       StoreTokenKeepsInvariant, StoreExpiryKeepsInvariant,
       ReturnTokenKeepsInvariant, TickKeepsInvariant
    DEF Next, Call
<1> QED
  BY <1>1, InitInvariant, TypeCorrect, PTL DEF Spec

(* However many threads share the client, and wherever _authenticate is     *)
(* interrupted, no call is sent with a token that has expired, as long as   *)
(* the delays fit into the margin.                                          *)
THEOREM FreshAlways == ASSUME MarginSuffices PROVE Spec => []FreshWhenSent
<1>1. IInv => FreshWhenSent
  BY DelayAssumption DEF IInv, TypeOK, OnTime, InHand, FreshWhenSent, Token, NoToken
<1> QED
  BY <1>1, MarginSuffices, Invariance, PTL

(* And the cache stops answering before its token is too old for a call.    *)
THEOREM CacheNeverOutlivesTokenAlways ==
  ASSUME MarginSuffices PROVE Spec => []CacheNeverOutlivesToken
<1>1. IInv => CacheNeverOutlivesToken
  BY DelayAssumption DEF IInv, TypeOK, CacheSound, CacheNeverOutlivesToken, Token
<1> QED
  BY <1>1, MarginSuffices, Invariance, PTL

-----------------------------------------------------------------------------
(* A thread requests because the cache had lapsed when it asked, and then   *)
(* any refresh comes later than that; before the first, there is no expiry. *)
AskedInTime ==
  /\ token = NoToken => expiresAt = 0
  /\ \A t \in Thread :
       /\ since[t] <= now
       /\ pc[t] = "issued" => issued[t] # NoToken
       /\ pc[t] = "stored" => token # NoToken
       /\ pc[t] = "requesting" =>
            expiresAt <= since[t] \/ since[t] <= expiresAt - (Lifetime - Margin)

(* Whatever the delays are: the first token stored ends the requests of the *)
(* threads that ask the cache from then on.                                 *)
THEOREM RefreshEndsRequestsAlways == Spec => []RefreshEndsRequests
<1>1. Init => AskedInTime
  BY DEF Init, AskedInTime, NoToken
<1>2. TypeOK /\ TypeOK' /\ AskedInTime /\ [Next]_vars => AskedInTime'
  <2> SUFFICES ASSUME TypeOK, TypeOK', AskedInTime, [Next]_vars PROVE AskedInTime'
    OBVIOUS
  <2> USE DelayAssumption DEF TypeOK, Location, AskedInTime, Enter, Clock
  <2>1. ASSUME NEW t \in Thread, UseCache(t) \/ IssueToken(t) \/ RefuseToken(t)
        PROVE  AskedInTime'
    BY <2>1 DEF UseCache, IssueToken, RefuseToken, NoToken
  <2>2. ASSUME NEW t \in Thread, RequestToken(t) PROVE AskedInTime'
    BY <2>2 DEF RequestToken
  <2>3. ASSUME NEW t \in Thread, StoreToken(t) PROVE AskedInTime'
    BY <2>3 DEF StoreToken
  <2>4. ASSUME NEW t \in Thread, StoreExpiry(t) PROVE AskedInTime'
    BY <2>4 DEF StoreExpiry
  <2>5. ASSUME NEW t \in Thread, MissExpiry(t) \/ ReturnToken(t) \/ Send(t)
        PROVE  AskedInTime'
    BY <2>5 DEF MissExpiry, ReturnToken, Send
  <2>6. CASE Tick
    BY <2>6 DEF Tick
  <2>7. CASE UNCHANGED vars
    BY <2>7 DEF vars
  <2> QED
    BY <2>1, <2>2, <2>3, <2>4, <2>5, <2>6, <2>7 DEF Next, Call
<1>3. TypeOK /\ AskedInTime => RefreshEndsRequests
  BY DelayAssumption DEF TypeOK, AskedInTime, RefreshEndsRequests
<1> QED
  BY <1>1, <1>2, <1>3, TypeCorrect, PTL DEF Spec
=============================================================================
