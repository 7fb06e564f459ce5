---------------------------- MODULE TokenClient ----------------------------
(***************************************************************************)
(* The OAuth token cache of SFMCClient (sfmc.py) and ServiceNowClient      *)
(* (servicenow.py), which have the same _authenticate().  One client       *)
(* object is shared by the threads of a process (the insurance example     *)
(* builds _SFMC_CLIENT once per worker) and has no lock: a thread may be   *)
(* suspended between any two of its assignments.                           *)
(*                                                                         *)
(* A token is represented by the time from which the server rejects it.    *)
(* Time is discrete; the three delays bound how long a thread takes over   *)
(* the parts of a call whose length matters to the 30 s margin.            *)
(***************************************************************************)
EXTENDS Integers

CONSTANTS
  Thread,
  Lifetime,        \* expires_in of every token issued
  Margin,          \* the 30 s _token_expires_at is early
  ResponseDelay,   \* from the server's issuing a token to `self._token = ...`
  StoreDelay,      \* from there to `self._token_expires_at = ...`
  UseDelay,        \* from checking the cache, or that assignment, to the server's
                   \* reading the Authorization header of the call
  MaxTime          \* bound: the clock

ASSUME DelayAssumption ==
  /\ Lifetime \in Nat /\ Margin \in Nat /\ MaxTime \in Nat
  /\ ResponseDelay \in Nat /\ StoreDelay \in Nat /\ UseDelay \in Nat

(* Under this assumption the margin does what its comment says it is for.   *)
MarginSuffices ==
  /\ ResponseDelay + StoreDelay + UseDelay <= Margin
  /\ ResponseDelay + StoreDelay + UseDelay < Lifetime

NoToken == -1

VARIABLES
  now,          \* time.time()
  token,        \* self._token
  expiresAt,    \* self._token_expires_at
  pc,           \* pc[t]: where thread t is in its call
  since,        \* since[t]: when t entered the part of the call it is in
  issued,       \* issued[t]: the token in the response t has received
  held          \* held[t]: what _authenticate returned to t

vars == <<now, token, expiresAt, pc, since, issued, held>>

Location == {"idle", "requesting", "issued", "stored", "returning", "sending"}

Token == 0..(MaxTime + Lifetime)

(* The type invariant: _token is None or a token some response carried,     *)
(* and _authenticate returns nothing else.                                  *)
TypeOK ==
  /\ now \in 0..MaxTime
  /\ token \in Token \cup {NoToken}
  /\ expiresAt \in Int
  /\ pc \in [Thread -> Location]
  /\ since \in [Thread -> 0..MaxTime]
  /\ issued \in [Thread -> Token \cup {NoToken}]
  /\ held \in [Thread -> Token \cup {NoToken}]

Init ==
  /\ now = 0
  /\ token = NoToken
  /\ expiresAt = 0
  /\ pc = [t \in Thread |-> "idle"]
  /\ since = [t \in Thread |-> 0]
  /\ issued = [t \in Thread |-> NoToken]
  /\ held = [t \in Thread |-> NoToken]

-----------------------------------------------------------------------------
Enter(t, location) == pc' = [pc EXCEPT ![t] = location]

Clock(t) == since' = [since EXCEPT ![t] = now]

(* `if self._token and time.time() < self._token_expires_at` *)
UseCache(t) ==
  /\ pc[t] = "idle"
  /\ token # NoToken /\ now < expiresAt
  /\ Enter(t, "returning")
  /\ Clock(t)
  /\ UNCHANGED <<now, token, expiresAt, issued, held>>

(* Mutant of RequestToken: the cache is not asked. *)
RequestTokenUncached(t) ==
  /\ pc[t] = "idle"
  /\ Enter(t, "requesting")
  /\ Clock(t)
  /\ UNCHANGED <<now, token, expiresAt, issued, held>>

RequestToken(t) ==
  /\ pc[t] = "idle"
  /\ ~(token # NoToken /\ now < expiresAt)
  /\ Enter(t, "requesting")
  /\ Clock(t)
  /\ UNCHANGED <<now, token, expiresAt, issued, held>>

(* The server answers the token request with a token ... *)
IssueToken(t) ==
  /\ pc[t] = "requesting"
  /\ issued' = [issued EXCEPT ![t] = now + Lifetime]
  /\ Enter(t, "issued")
  /\ Clock(t)
  /\ UNCHANGED <<now, token, expiresAt, held>>

(* ... or the request fails: an error is raised, the cache left alone. *)
RefuseToken(t) ==
  /\ pc[t] = "requesting"
  /\ Enter(t, "idle")
  /\ UNCHANGED <<now, token, expiresAt, since, issued, held>>

(* Mutant of StoreToken: an absolute time is taken for a duration. *)
StoreTokenAddsTime(t) ==
  /\ pc[t] = "issued"
  /\ token' = now + issued[t]
  /\ Enter(t, "stored")
  /\ Clock(t)
  /\ UNCHANGED <<now, expiresAt, issued, held>>

(* `self._token = body["access_token"]` *)
StoreToken(t) ==
  /\ pc[t] = "issued"
  /\ token' = issued[t]
  /\ Enter(t, "stored")
  /\ Clock(t)
  /\ UNCHANGED <<now, expiresAt, issued, held>>

(* Mutant of StoreExpiry: without the margin. *)
StoreExpiryWithoutMargin(t) ==
  /\ pc[t] = "stored"
  /\ expiresAt' = now + Lifetime
  /\ Enter(t, "returning")
  /\ Clock(t)
  /\ UNCHANGED <<now, token, issued, held>>

(* `self._token_expires_at = time.time() + expires_in - 30` *)
StoreExpiry(t) ==
  /\ pc[t] = "stored"
  /\ expiresAt' = now + Lifetime - Margin
  /\ Enter(t, "returning")
  /\ Clock(t)
  /\ UNCHANGED <<now, token, issued, held>>

(* int(...) raises on the expires_in of the response: the new token stays   *)
(* in the cache with the expiry of an older one.                            *)
MissExpiry(t) ==
  /\ pc[t] = "stored"
  /\ Enter(t, "idle")
  /\ UNCHANGED <<now, token, expiresAt, since, issued, held>>

(* `return self._token`: the attribute is read again. *)
ReturnToken(t) ==
  /\ pc[t] = "returning"
  /\ held' = [held EXCEPT ![t] = token]
  /\ Enter(t, "sending")
  /\ UNCHANGED <<now, token, expiresAt, since, issued>>

(* The request authorised by the token reaches the server, whose answer,   *)
(* accepted or not, changes nothing in the client.                         *)
Send(t) ==
  /\ pc[t] = "sending"
  /\ held' = [held EXCEPT ![t] = NoToken]
  /\ Enter(t, "idle")
  /\ UNCHANGED <<now, token, expiresAt, since, issued>>

(* How long a thread may stay where it is.  The wait for the token request *)
(* to reach the server is no part of a token's life.                       *)
Limit(location) ==
  CASE location = "issued"                 -> ResponseDelay
    [] location = "stored"                 -> StoreDelay
    [] location \in {"returning", "sending"} -> UseDelay
    [] OTHER                               -> MaxTime

Tick ==
  /\ now < MaxTime
  /\ \A t \in Thread : pc[t] \in {"idle", "requesting"} \/ now < since[t] + Limit(pc[t])
  /\ now' = now + 1
  /\ UNCHANGED <<token, expiresAt, pc, since, issued, held>>

Call(t) ==
  \/ UseCache(t) \/ RequestToken(t)
  \/ IssueToken(t) \/ RefuseToken(t)
  \/ StoreToken(t) \/ StoreExpiry(t) \/ MissExpiry(t) \/ ReturnToken(t)
  \/ Send(t)

Next == (\E t \in Thread : Call(t)) \/ Tick

Spec == Init /\ [][Next]_vars

-----------------------------------------------------------------------------
(* No call is authorised by a token the server no longer accepts: whenever  *)
(* a thread is sending, its token has not expired, even if other threads    *)
(* replaced the cached token, or its expiry, between any two of its steps.  *)
FreshWhenSent ==
  \A t \in Thread : pc[t] = "sending" => now < held[t]

(* "refresh 30s early": as long as the cache answers, the token in it would *)
(* still be accepted if the call took its full time from now.               *)
CacheNeverOutlivesToken ==
  token # NoToken /\ now < expiresAt => now + UseDelay < token

(* Threads that find the cache expired together each request a token, but   *)
(* the first that has stored its own ends that: while the cache is good, a  *)
(* thread still requesting asked the cache no later than it was refreshed.  *)
RefreshEndsRequests ==
  \A t \in Thread :
    pc[t] = "requesting" /\ token # NoToken /\ now < expiresAt
      => since[t] <= expiresAt - (Lifetime - Margin)
=============================================================================
