------------------------- MODULE TokenManagerProofs -------------------------
(***************************************************************************)
(* Theorems of TokenManager for every set of tasks, margin, timeout and    *)
(* set of lifetimes.                                                       *)
(***************************************************************************)
EXTENDS TokenManager, TLAPS

\* Every step keeps the types (get_token, refresh and _refresh_unlocked of
\* token_manager.py).
LEMMA TypeStep == TypeOK /\ [Next]_vars => TypeOK'
<1> USE TokenAssumption, NoTokenAssumption
<1> SUFFICES ASSUME TypeOK, [Next]_vars PROVE TypeOK'
  OBVIOUS
<1> USE DEF TypeOK
<1>1. CASE Tick
  BY <1>1 DEF Tick
<1>2. ASSUME NEW t \in Tasks, EnterLock(t) PROVE
        /\ lock' \in [holder : Tasks \cup {NoTask}, waiters : Seq(Tasks)]
        /\ pc' \in [Tasks -> {"idle", "lock", "post"}]
        /\ request' \in [Tasks -> [sent : Nat, issued : Token \cup {NoToken}]]
  <2>1. CASE Available(lock) /\ lock' = Acquired(lock, t) /\ SendRequest(t)
    BY <2>1 DEF Acquired, SendRequest
  <2>2. CASE /\ lock' = Queued(lock, t)
             /\ pc' = [pc EXCEPT ![t] = "lock"]
             /\ UNCHANGED request
    <3>1. Append(lock.waiters, t) \in Seq(Tasks)
      OBVIOUS
    <3>2. QED
      BY <2>2, <3>1 DEF Queued
  <2>3. QED
    BY <1>2, <2>1, <2>2 DEF EnterLock
<1>3. ASSUME NEW t \in Tasks, GetToken(t) PROVE TypeOK'
  BY <1>2, <1>3 DEF GetToken
<1>4. ASSUME NEW t \in Tasks, Refresh(t) PROVE TypeOK'
  BY <1>2, <1>4 DEF Refresh
<1>5. ASSUME NEW t \in Tasks, Wakes(lock, t) PROVE Tail(lock.waiters) \in Seq(Tasks)
  BY <1>5 DEF Wakes
<1>6. ASSUME NEW t \in Tasks, ResumeFresh(t) PROVE TypeOK'
  BY <1>5, <1>6 DEF ResumeFresh, Released, Resumed
<1>7. ASSUME NEW t \in Tasks, ResumeRefresh(t) PROVE TypeOK'
  BY <1>5, <1>7 DEF ResumeRefresh, Resumed, SendRequest
<1>8. ASSUME NEW t \in Tasks, Issue(t) PROVE TypeOK'
  <2>1. PICK life \in Lifetimes :
          request' = [request EXCEPT ![t].issued = [issued |-> now, dies |-> now + life]]
    BY <1>8 DEF Issue
  <2>2. [issued |-> now, dies |-> now + life] \in Token
    BY DEF Token
  <2>3. request' \in [Tasks -> [sent : Nat, issued : Token \cup {NoToken}]]
    BY <2>1, <2>2
  <2>4. QED
    BY <1>8, <2>3 DEF Issue
<1>9. ASSUME NEW t \in Tasks, Receive(t) PROVE TypeOK'
  <2>1. request[t].issued \in Token
    BY <1>9 DEF Receive
  <2>2. ExpiresIn(request[t].issued) \in Nat
    BY <2>1 DEF ExpiresIn, Token
  <2>3. NoRequest \in [sent : Nat, issued : Token \cup {NoToken}]
    BY DEF NoRequest
  <2>4. /\ cachedToken' \in Token \cup {NoToken}
        /\ expiresAt' \in Nat
    BY <1>9, <2>1, <2>2 DEF Receive
  <2>5. lock' \in [holder : Tasks \cup {NoTask}, waiters : Seq(Tasks)]
    BY <1>9 DEF Receive, Released
  <2>6. /\ pc' \in [Tasks -> {"idle", "lock", "post"}]
        /\ request' \in [Tasks -> [sent : Nat, issued : Token \cup {NoToken}]]
        /\ now' \in Nat /\ op' \in [Tasks -> {"get_token", "refresh"}]
    BY <1>9, <2>3 DEF Receive
  <2>7. QED
    BY <2>4, <2>5, <2>6
<1>10. ASSUME NEW t \in Tasks, Fail(t) PROVE TypeOK'
  BY <1>10 DEF Fail, Released, NoRequest
<1>11. CASE UNCHANGED vars
  BY <1>11 DEF vars
<1>12. QED
  BY <1>1, <1>3, <1>4, <1>6, <1>7, <1>8, <1>9, <1>10, <1>11 DEF Next, Step

\* The type invariant of the token manager.
THEOREM TypeCorrect == Spec => []TypeOK
<1>1. Init => TypeOK
  BY TokenAssumption, NoTokenAssumption DEF Init, TypeOK, FreeLock, NoRequest, Token
<1>2. QED
  BY <1>1, TypeStep, PTL DEF Spec

-----------------------------------------------------------------------------

(* The inductive invariant.  Only SingleFlight is inductive alone: what the
   cache promises depends on when the request that filled it was sent. *)

\* A POST is younger than its timeout; its token was issued while it lasted.
RequestTimed == \A t \in Tasks : pc[t] = "post" =>
    /\ request[t].sent <= now /\ now <= request[t].sent + Timeout
    /\ request[t].issued # NoToken =>
        /\ request[t].sent <= request[t].issued.issued
        /\ request[t].issued.issued <= now

\* The local expiry runs behind the server's by the delay of one reply.
ExpiryBounded == cachedToken # NoToken =>
    \/ expiresAt <= cachedToken.dies + Timeout
    \/ expiresAt <= now + 1

\* Whoever is asking the server started after the cached token was issued.
CacheOlderThanRequests == cachedToken # NoToken =>
    /\ cachedToken.issued <= now
    /\ \A t \in Tasks : pc[t] = "post" => cachedToken.issued <= request[t].sent

\* get_token asks the server only while the token is stale.
StaleWhileAsking == \A t \in Tasks :
    pc[t] = "post" /\ op[t] = "get_token" => ~Fresh

IInv ==
    /\ TypeOK
    /\ SingleFlight
    /\ RequestTimed
    /\ ExpiryBounded
    /\ CacheOlderThanRequests
    /\ StaleWhileAsking

Untimed == << now, cachedToken, expiresAt >>

\* Only the task at the server holds the lock, so a free lock means that
\* nobody is asking the server.
LEMMA FreeMeansNobodyAsks ==
  ASSUME IInv, lock.holder = NoTask
  PROVE  \A t \in Tasks : pc[t] # "post"
BY TokenAssumption DEF IInv, SingleFlight

\* A task that takes the free lock and sends its POST (get_token or refresh at
\* once, or as the woken waiter) keeps the invariant.
LEMMA SendKeepsInvariant ==
  ASSUME IInv, TypeOK', NEW t \in Tasks, lock.holder = NoTask, SendRequest(t),
         lock'.holder = t, UNCHANGED Untimed,
         op'[t] = "get_token" => ~Fresh
  PROVE  IInv'
<1>1. \A u \in Tasks \ {t} : pc'[u] # "post"
  BY FreeMeansNobodyAsks DEF IInv, TypeOK, SendRequest
<1>2. pc'[t] = "post" /\ request'[t].sent = now /\ request'[t].issued = NoToken
  BY DEF IInv, TypeOK, SendRequest
<1>3. SingleFlight'
  BY <1>1 DEF SingleFlight
<1>4. RequestTimed'
  BY <1>1, <1>2, TokenAssumption DEF IInv, TypeOK, RequestTimed, Untimed
<1>5. ExpiryBounded'
  BY DEF IInv, ExpiryBounded, Untimed
<1>6. CacheOlderThanRequests'
  BY <1>1, <1>2 DEF IInv, CacheOlderThanRequests, Untimed
<1>7. Fresh' <=> Fresh
  BY DEF Fresh, Untimed
<1>8. StaleWhileAsking'
  BY <1>1, <1>2, <1>7 DEF StaleWhileAsking
<1>9. QED
  BY <1>3, <1>4, <1>5, <1>6, <1>8 DEF IInv

\* A task that only queues behind the lock keeps the invariant.
LEMMA QueueKeepsInvariant ==
  ASSUME IInv, TypeOK', NEW t \in Tasks, pc[t] = "idle",
         pc' = [pc EXCEPT ![t] = "lock"], lock' = Queued(lock, t),
         \A u \in Tasks \ {t} : op'[u] = op[u], UNCHANGED Untimed, UNCHANGED request
  PROVE  IInv'
<1>1. \A u \in Tasks : pc'[u] = "post" => u # t /\ pc[u] = "post"
  BY DEF IInv, TypeOK
<1>2. lock'.holder = lock.holder
  BY DEF IInv, TypeOK, Queued
<1>3. SingleFlight'
  BY <1>1, <1>2 DEF IInv, SingleFlight
<1>4. RequestTimed'
  BY <1>1 DEF IInv, RequestTimed, Untimed
<1>5. ExpiryBounded'
  BY DEF IInv, ExpiryBounded, Untimed
<1>6. CacheOlderThanRequests'
  BY <1>1 DEF IInv, CacheOlderThanRequests, Untimed
<1>7. Fresh' <=> Fresh
  BY DEF Fresh, Untimed
<1>8. StaleWhileAsking'
  BY <1>1, <1>7 DEF IInv, StaleWhileAsking
<1>9. QED
  BY <1>3, <1>4, <1>5, <1>6, <1>8 DEF IInv

\* The task that asked the server leaves, whatever it leaves in the cache.
LEMMA LeaveKeepsLock ==
  ASSUME IInv, NEW t \in Tasks, pc[t] = "post", lock' = Released(lock),
         pc' = [pc EXCEPT ![t] = "idle"]
  PROVE  /\ \A u \in Tasks : pc'[u] # "post"
         /\ SingleFlight' /\ RequestTimed' /\ StaleWhileAsking'
<1>1. \A u \in Tasks : pc'[u] # "post"
  <2>1. TAKE u \in Tasks
  <2>2. CASE u = t
    BY <2>2 DEF IInv, TypeOK
  <2>3. CASE u # t
    <3>1. pc[u] # "post"
      BY <2>3, TokenAssumption DEF IInv, SingleFlight
    <3>2. QED
      BY <2>3, <3>1 DEF IInv, TypeOK
  <2>4. QED
    BY <2>2, <2>3
<1>2. QED
  BY <1>1 DEF SingleFlight, RequestTimed, StaleWhileAsking

\* The invariant is inductive: one case per action of the manager.
LEMMA InvariantStep == IInv /\ [Next]_vars => IInv'
<1> SUFFICES ASSUME IInv, [Next]_vars PROVE IInv'
  OBVIOUS
<1>0. TypeOK /\ TypeOK'
  BY TypeStep DEF IInv
<1>1. CASE Tick
  <2>1. UNCHANGED << cachedToken, expiresAt, lock, pc, op, request >>
        /\ now' = now + 1
        /\ \A t \in Tasks : pc[t] = "post" => now < request[t].sent + Timeout
    BY <1>1 DEF Tick
  <2>2. SingleFlight'
    BY <2>1 DEF IInv, SingleFlight
  <2>3. RequestTimed'
    <3> SUFFICES ASSUME NEW t \in Tasks, pc'[t] = "post"
                 PROVE  /\ request'[t].sent <= now' /\ now' <= request'[t].sent + Timeout
                        /\ request'[t].issued # NoToken =>
                            /\ request'[t].sent <= request'[t].issued.issued
                            /\ request'[t].issued.issued <= now'
      BY DEF RequestTimed
    <3>3. /\ request[t].sent <= now /\ now < request[t].sent + Timeout
          /\ request[t].issued # NoToken =>
              /\ request[t].sent <= request[t].issued.issued
              /\ request[t].issued.issued <= now
      BY <2>1 DEF IInv, RequestTimed
    <3>4. request[t].issued # NoToken => request[t].issued \in Token
      BY <1>0 DEF TypeOK
    <3>5. QED
      BY <1>0, <2>1, <3>3, <3>4, TokenAssumption DEF TypeOK, Token
  <2>4. ExpiryBounded'
    BY <1>0, <2>1 DEF IInv, TypeOK, ExpiryBounded
  <2>5. CacheOlderThanRequests'
    BY <1>0, <2>1 DEF IInv, TypeOK, CacheOlderThanRequests, Token
  <2>6. Fresh' => Fresh
    BY <1>0, <2>1, TokenAssumption DEF Fresh, TypeOK
  <2>7. StaleWhileAsking'
    BY <2>1, <2>6 DEF IInv, StaleWhileAsking
  <2>8. QED
    BY <1>0, <2>2, <2>3, <2>4, <2>5, <2>7 DEF IInv
<1>2. ASSUME NEW t \in Tasks, GetToken(t) \/ Refresh(t) PROVE IInv'
  <2>1. /\ pc[t] = "idle" /\ EnterLock(t) /\ UNCHANGED Untimed
        /\ \A u \in Tasks \ {t} : op'[u] = op[u]
        /\ op'[t] = "get_token" => ~Fresh
    BY <1>0, <1>2 DEF GetToken, Refresh, TypeOK, Untimed
  <2>2. CASE Available(lock) /\ lock' = Acquired(lock, t) /\ SendRequest(t)
    <3>1. lock.holder = NoTask
      BY <2>2 DEF Available
    <3>2. lock'.holder = t
      BY <1>0, <2>2 DEF Acquired, TypeOK
    <3>3. QED
      BY <1>0, <2>1, <2>2, <3>1, <3>2, SendKeepsInvariant
  <2>3. CASE /\ lock' = Queued(lock, t)
             /\ pc' = [pc EXCEPT ![t] = "lock"]
             /\ UNCHANGED request
    BY <1>0, <2>1, <2>3, QueueKeepsInvariant
  <2>4. QED
    BY <2>1, <2>2, <2>3 DEF EnterLock
<1>3. ASSUME NEW t \in Tasks, ResumeRefresh(t) PROVE IInv'
  <2>1. /\ lock.holder = NoTask /\ SendRequest(t) /\ lock'.holder = t
        /\ UNCHANGED Untimed
        /\ op'[t] = "get_token" => ~Fresh
    BY <1>3 DEF ResumeRefresh, Wakes, Resumed, Untimed
  <2>2. QED
    BY <1>0, <2>1, SendKeepsInvariant
<1>4. ASSUME NEW t \in Tasks, ResumeFresh(t) PROVE IInv'
  <2>1. /\ lock.holder = NoTask /\ pc' = [pc EXCEPT ![t] = "idle"]
        /\ UNCHANGED << now, cachedToken, expiresAt, op, request >>
    BY <1>4 DEF ResumeFresh, Wakes
  <2>2. \A u \in Tasks : pc'[u] # "post"
    BY <1>0, <2>1, FreeMeansNobodyAsks DEF TypeOK
  <2>3. SingleFlight' /\ RequestTimed' /\ StaleWhileAsking'
    BY <2>2 DEF SingleFlight, RequestTimed, StaleWhileAsking
  <2>4. ExpiryBounded'
    BY <2>1 DEF IInv, ExpiryBounded
  <2>5. CacheOlderThanRequests'
    BY <2>1, <2>2 DEF IInv, CacheOlderThanRequests
  <2>6. QED
    BY <1>0, <2>3, <2>4, <2>5 DEF IInv
<1>5. ASSUME NEW t \in Tasks, Issue(t) PROVE IInv'
  <2>1. PICK life \in Lifetimes :
          request' = [request EXCEPT ![t].issued = [issued |-> now, dies |-> now + life]]
    BY <1>5 DEF Issue
  <2>2. UNCHANGED << now, cachedToken, expiresAt, lock, pc, op >>
    BY <1>5 DEF Issue
  <2>3. \A u \in Tasks : request'[u].sent = request[u].sent
    BY <1>0, <2>1 DEF TypeOK
  <2>4. /\ request'[t].issued.issued = now
        /\ \A u \in Tasks \ {t} : request'[u] = request[u]
    BY <1>0, <2>1 DEF TypeOK
  <2>5. SingleFlight' /\ ExpiryBounded'
    BY <2>2 DEF IInv, SingleFlight, ExpiryBounded
  <2>6. RequestTimed'
    <3> SUFFICES ASSUME NEW u \in Tasks, pc'[u] = "post"
                 PROVE  /\ request'[u].sent <= now' /\ now' <= request'[u].sent + Timeout
                        /\ request'[u].issued # NoToken =>
                            /\ request'[u].sent <= request'[u].issued.issued
                            /\ request'[u].issued.issued <= now'
      BY DEF RequestTimed
    <3>1. /\ request[u].sent <= now /\ now <= request[u].sent + Timeout
          /\ request[u].issued # NoToken =>
              /\ request[u].sent <= request[u].issued.issued
              /\ request[u].issued.issued <= now
      BY <2>2 DEF IInv, RequestTimed
    <3>2. CASE u = t
      BY <1>0, <2>2, <2>3, <2>4, <3>1, <3>2 DEF TypeOK
    <3>3. CASE u # t
      BY <2>2, <2>4, <3>1, <3>3
    <3>4. QED
      BY <3>2, <3>3
  <2>7. CacheOlderThanRequests'
    BY <2>2, <2>3 DEF IInv, CacheOlderThanRequests
  <2>8. Fresh' <=> Fresh
    BY <2>2 DEF Fresh
  <2>9. StaleWhileAsking'
    BY <2>2, <2>8 DEF IInv, StaleWhileAsking
  <2>10. QED
    BY <1>0, <2>5, <2>6, <2>7, <2>9 DEF IInv
<1>6. ASSUME NEW t \in Tasks, Receive(t) PROVE IInv'
  <2> DEFINE token == request[t].issued
  <2>1. /\ pc[t] = "post" /\ token # NoToken /\ now' = now
        /\ cachedToken' = token /\ expiresAt' = now + ExpiresIn(token)
        /\ lock' = Released(lock) /\ pc' = [pc EXCEPT ![t] = "idle"]
    BY <1>6 DEF Receive
  <2>2. token \in Token
    BY <1>0, <2>1 DEF TypeOK
  <2>3. /\ request[t].sent <= token.issued /\ token.issued <= now
        /\ now <= request[t].sent + Timeout
    BY <2>1 DEF IInv, RequestTimed
  <2>4. /\ \A u \in Tasks : pc'[u] # "post"
        /\ SingleFlight' /\ RequestTimed' /\ StaleWhileAsking'
    BY <2>1, LeaveKeepsLock
  <2>5. ExpiryBounded'
    <3>1. \/ now + ExpiresIn(token) <= token.dies + Timeout
          \/ now + ExpiresIn(token) <= now + 1
      BY <1>0, <2>2, <2>3, TokenAssumption DEF ExpiresIn, Token, TypeOK
    <3>2. QED
      BY <2>1, <3>1 DEF ExpiryBounded
  <2>6. CacheOlderThanRequests'
    BY <2>1, <2>3, <2>4 DEF CacheOlderThanRequests
  <2>7. QED
    BY <1>0, <2>4, <2>5, <2>6 DEF IInv
<1>7. ASSUME NEW t \in Tasks, Fail(t) PROVE IInv'
  <2>1. /\ pc[t] = "post" /\ lock' = Released(lock) /\ pc' = [pc EXCEPT ![t] = "idle"]
        /\ UNCHANGED Untimed
    BY <1>7 DEF Fail, Untimed
  <2>2. /\ \A u \in Tasks : pc'[u] # "post"
        /\ SingleFlight' /\ RequestTimed' /\ StaleWhileAsking'
    BY <2>1, LeaveKeepsLock
  <2>3. ExpiryBounded'
    BY <2>1 DEF IInv, ExpiryBounded, Untimed
  <2>4. CacheOlderThanRequests'
    BY <2>1, <2>2 DEF IInv, CacheOlderThanRequests, Untimed
  <2>5. QED
    BY <1>0, <2>2, <2>3, <2>4 DEF IInv
<1>8. CASE UNCHANGED vars
  BY <1>0, <1>8 DEF vars, IInv, SingleFlight, RequestTimed, ExpiryBounded,
     CacheOlderThanRequests, StaleWhileAsking, Fresh
<1>9. QED
  BY <1>1, <1>2, <1>3, <1>4, <1>5, <1>6, <1>7, <1>8 DEF Next, Step

\* The invariant holds in every state of every behaviour.
LEMMA Invariant == Spec => []IInv
<1>1. Init => TypeOK
  BY TokenAssumption, NoTokenAssumption DEF Init, TypeOK, FreeLock, NoRequest, Token
<1>2. Init => IInv
  BY <1>1 DEF Init, IInv, SingleFlight, RequestTimed, ExpiryBounded,
     CacheOlderThanRequests, StaleWhileAsking
<1>3. QED
  BY <1>2, InvariantStep, PTL DEF Spec

\* No two requests to the token server are ever in flight together.
THEOREM OneRequestAtATime == Spec => []SingleFlight
BY Invariant, PTL DEF IInv

\* A margin of at least one reply's delay makes every cached hit usable: the
\* token that get_token serves from the cache has not died at the server.
THEOREM CachedHitsAreLive == Spec => []ServedTokenIsLive
<1>1. IInv => ServedTokenIsLive
  BY TokenAssumption DEF IInv, TypeOK, ExpiryBounded, ServedTokenIsLive, Fresh, Token
<1>2. QED
  BY <1>1, Invariant, PTL

\* The re-check under the lock works: a refresh on behalf of get_token only
\* ever replaces a stale token.
THEOREM GetTokenReplacesOnlyStale == Spec => NoNeedlessRefresh
<1>1. IInv => \A t \in Tasks :
        pc[t] = "post" /\ op[t] = "get_token" /\ cachedToken' # cachedToken => ~Fresh
  BY DEF IInv, StaleWhileAsking
<1>2. QED
  BY <1>1, Invariant, PTL DEF NoNeedlessRefresh

\* A step that changes the cache stores the reply of the one request in flight,
\* which was sent after the cached token was issued.
LEMMA CacheMovesForward ==
  ASSUME IInv, [Next]_vars, cachedToken # NoToken
  PROVE  cachedToken' # NoToken /\ cachedToken'.issued >= cachedToken.issued
<1>1. cachedToken \in Token /\ cachedToken.issued \in Nat
  BY DEF IInv, TypeOK, Token
<1>2. CASE cachedToken' = cachedToken
  BY <1>1, <1>2
<1>3. ASSUME NEW t \in Tasks, Receive(t)
      PROVE  /\ cachedToken' # NoToken
             /\ cachedToken'.issued >= cachedToken.issued
  <2>1. pc[t] = "post" /\ request[t].issued # NoToken /\ cachedToken' = request[t].issued
    BY <1>3 DEF Receive
  <2>2. cachedToken.issued <= request[t].sent /\ request[t].sent <= request[t].issued.issued
    BY <2>1 DEF IInv, CacheOlderThanRequests, RequestTimed
  <2>3. request[t].issued \in Token /\ request[t].sent \in Nat
    BY <2>1 DEF IInv, TypeOK
  <2>4. request[t].issued.issued \in Nat
    BY <2>3 DEF Token
  <2>5. QED
    BY <1>1, <2>1, <2>2, <2>3, <2>4
<1>4. (\E t \in Tasks : Receive(t)) \/ cachedToken' = cachedToken
  BY DEF Next, Step, Tick, GetToken, Refresh, ResumeFresh, ResumeRefresh, Issue, Fail, vars
<1>5. QED
  BY <1>2, <1>3, <1>4

\* Replies are stored in the order in which the server issued the tokens.
THEOREM TokensAreStoredInOrder == Spec => CacheNeverRegresses
<1>1. IInv /\ [Next]_vars => (cachedToken # NoToken =>
        /\ cachedToken' # NoToken
        /\ cachedToken'.issued >= cachedToken.issued)
  BY CacheMovesForward
<1>2. QED
  BY <1>1, Invariant, PTL DEF Spec, CacheNeverRegresses

=============================================================================
