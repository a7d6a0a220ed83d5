---------------------------- MODULE TokenManager ----------------------------
(***************************************************************************)
(* runtime/token_manager.py: the access token of one bot, cached for all   *)
(* the tasks of the event loop and refreshed under one asyncio.Lock.       *)
(*                                                                         *)
(* A task runs without interruption from one await to the next, so every   *)
(* action below is the code between two awaits: the lock (when it has to   *)
(* wait) and the POST to the token server.  The server and the clock are   *)
(* modelled because the margin of get_token is about them: the server      *)
(* counts a token's life from the moment it issues it, the manager from    *)
(* the moment the reply arrives.                                           *)
(***************************************************************************)
EXTENDS Integers, AsyncioLock

CONSTANTS
    Tasks,          \* coroutines that call the manager
    Margin,         \* seconds before expires_at at which a token is stale (60)
    Timeout,        \* longest wait for the server's reply (timeout=10)
    Lifetimes,      \* the values of expires_in the server answers with
    MaxTime,        \* bound on the modelled clock
    NoToken

ASSUME TokenAssumption ==
    /\ NoTask \notin Tasks
    /\ Margin \in Nat \ {0} /\ Timeout \in Nat /\ Timeout <= Margin
    /\ Lifetimes \subseteq Nat
    /\ MaxTime \in Nat

VARIABLES
    now,            \* time.time()
    cachedToken,    \* _cached_token
    expiresAt,      \* _expires_at
    lock,           \* _refresh_lock
    pc,             \* where each task is suspended
    op,             \* the call a task that is not idle is in
    request         \* the POST of each task: when it was sent, what was issued

vars == << now, cachedToken, expiresAt, lock, pc, op, request >>

(* What the server knows of a token: when it issued it and when it dies. *)
Token == [issued : Nat, dies : Nat]
ASSUME NoTokenAssumption == NoToken \notin Token

NoRequest == [sent |-> 0, issued |-> NoToken]

Init ==
    /\ now = 0
    /\ cachedToken = NoToken
    /\ expiresAt = 0
    /\ lock = FreeLock
    /\ pc = [t \in Tasks |-> "idle"]
    /\ op = [t \in Tasks |-> "get_token"]
    /\ request = [t \in Tasks |-> NoRequest]

-----------------------------------------------------------------------------

\* Mutant: a token counts as fresh until the very end of its life.
FreshWithoutMargin == cachedToken # NoToken /\ now < expiresAt

\* The test of get_token, before and after it takes the lock.
Fresh == cachedToken # NoToken /\ now < expiresAt - Margin

\* The start of _refresh_unlocked, by the task that holds the lock.
SendRequest(t) ==
    /\ pc' = [pc EXCEPT ![t] = "post"]
    /\ request' = [request EXCEPT ![t] = [sent |-> now, issued |-> NoToken]]

\* The part of `async with self._refresh_lock` up to its first suspension.
EnterLock(t) ==
    \/ /\ Available(lock)
       /\ lock' = Acquired(lock, t)
       /\ SendRequest(t)
    \/ /\ ~Available(lock)
       /\ lock' = Queued(lock, t)
       /\ pc' = [pc EXCEPT ![t] = "lock"]
       /\ UNCHANGED request

\* get_token(): the cached token is served without a suspension (no change),
\* otherwise the task goes for the lock.
GetToken(t) ==
    /\ pc[t] = "idle"
    /\ ~Fresh
    /\ op' = [op EXCEPT ![t] = "get_token"]
    /\ EnterLock(t)
    /\ UNCHANGED << now, cachedToken, expiresAt >>

\* refresh(): forced, whatever the cache holds.
Refresh(t) ==
    /\ pc[t] = "idle"
    /\ op' = [op EXCEPT ![t] = "refresh"]
    /\ EnterLock(t)
    /\ UNCHANGED << now, cachedToken, expiresAt >>

\* A get_token that waited finds the token its predecessor fetched.
ResumeFresh(t) ==
    /\ Wakes(lock, t)
    /\ op[t] = "get_token" /\ Fresh
    /\ lock' = Released(Resumed(lock, t))
    /\ pc' = [pc EXCEPT ![t] = "idle"]
    /\ UNCHANGED << now, cachedToken, expiresAt, op, request >>

\* Mutant: no re-check under the lock.
ResumeRefreshUnchecked(t) ==
    /\ Wakes(lock, t)
    /\ lock' = Resumed(lock, t)
    /\ SendRequest(t)
    /\ UNCHANGED << now, cachedToken, expiresAt, op >>

\* The waiter has to ask the server itself.
ResumeRefresh(t) ==
    /\ Wakes(lock, t)
    /\ op[t] = "get_token" => ~Fresh
    /\ lock' = Resumed(lock, t)
    /\ SendRequest(t)
    /\ UNCHANGED << now, cachedToken, expiresAt, op >>

\* The token server issues a token: its life starts now.
Issue(t) ==
    /\ pc[t] = "post" /\ request[t].issued = NoToken
    /\ \E life \in Lifetimes :
        request' = [request EXCEPT ![t].issued = [issued |-> now, dies |-> now + life]]
    /\ UNCHANGED << now, cachedToken, expiresAt, lock, pc, op >>

\* Mutant: the margin is taken off when the token is stored.
ExpiresInLessMargin(token) == token.dies - token.issued - Margin

\* expires_in of the reply, as the manager reads it.
ExpiresIn(token) ==
    LET life == token.dies - token.issued IN IF life < 1 THEN 1 ELSE life

\* The reply arrives and is well formed: token and expiry are stored, the lock
\* is released on the way out.
Receive(t) ==
    /\ pc[t] = "post" /\ request[t].issued # NoToken
    /\ cachedToken' = request[t].issued
    /\ expiresAt' = now + ExpiresIn(request[t].issued)
    /\ lock' = Released(lock)
    /\ pc' = [pc EXCEPT ![t] = "idle"]
    /\ request' = [request EXCEPT ![t] = NoRequest]
    /\ UNCHANGED << now, op >>

\* Mutant: an exception leaves the lock held.
FailHoldingLock(t) ==
    /\ pc[t] = "post"
    /\ pc' = [pc EXCEPT ![t] = "idle"]
    /\ request' = [request EXCEPT ![t] = NoRequest]
    /\ UNCHANGED << now, cachedToken, expiresAt, lock, op >>

\* Every way out with a TokenManagerError: missing credentials, a transport
\* error or a timeout, an HTTP error, a reply that cannot be used.
Fail(t) ==
    /\ pc[t] = "post"
    /\ lock' = Released(lock)
    /\ pc' = [pc EXCEPT ![t] = "idle"]
    /\ request' = [request EXCEPT ![t] = NoRequest]
    /\ UNCHANGED << now, cachedToken, expiresAt, op >>

\* Time passes, but no POST outlives its timeout.
Tick ==
    /\ now < MaxTime
    /\ \A t \in Tasks : pc[t] = "post" => now < request[t].sent + Timeout
    /\ now' = now + 1
    /\ UNCHANGED << cachedToken, expiresAt, lock, pc, op, request >>

Step(t) ==
    \/ GetToken(t) \/ Refresh(t)
    \/ ResumeFresh(t) \/ ResumeRefresh(t)
    \/ Issue(t) \/ Receive(t) \/ Fail(t)

Next == Tick \/ \E t \in Tasks : Step(t)

\* The event loop runs a woken waiter, and the client's timeout ends a POST
\* that gets no reply.
Fairness == \A t \in Tasks :
    /\ WF_vars(ResumeFresh(t) \/ ResumeRefresh(t))
    /\ WF_vars(Receive(t) \/ Fail(t))

Spec == Init /\ [][Next]_vars
FairSpec == Spec /\ Fairness

-----------------------------------------------------------------------------

Waiting == {t \in Tasks : pc[t] = "lock"}

\* Every variable keeps its type, and the lock's queue holds tasks.
TypeOK ==
    /\ now \in Nat
    /\ cachedToken \in Token \cup {NoToken}
    /\ expiresAt \in Nat
    /\ lock \in [holder : Tasks \cup {NoTask}, waiters : Seq(Tasks)]
    /\ pc \in [Tasks -> {"idle", "lock", "post"}]
    /\ op \in [Tasks -> {"get_token", "refresh"}]
    /\ request \in [Tasks -> [sent : Nat, issued : Token \cup {NoToken}]]

\* At most one request to the token server is in flight, and it is the lock
\* holder's: callers that find the token stale at the same time never stampede.
SingleFlight == \A t \in Tasks : pc[t] = "post" => lock.holder = t

\* A token that get_token would serve from the cache is one the server still
\* accepts: the margin absorbs the delay between issue and receipt, also for
\* a lifetime shorter than the margin and for the clamp of expires_in to 1.
ServedTokenIsLive == Fresh => now < cachedToken.dies

\* A get_token that found the token stale, then waited for the lock, does not
\* replace a token that another task refreshed meanwhile (the re-check under
\* the lock): a refresh on its behalf always replaces a stale token.
NoNeedlessRefresh ==
    [][\A t \in Tasks :
        pc[t] = "post" /\ op[t] = "get_token" /\ cachedToken' # cachedToken
            => ~Fresh]_vars

\* The cache never goes back to a token issued earlier than the one it holds,
\* in whatever order replies and timeouts arrive.
CacheNeverRegresses ==
    [][cachedToken # NoToken =>
        /\ cachedToken' # NoToken
        /\ cachedToken'.issued >= cachedToken.issued]_vars

\* Every call of get_token and refresh returns or raises: a failed refresh
\* releases the lock, and no waiter is overtaken for ever.
EveryCallReturns == \A t \in Tasks : pc[t] # "idle" ~> pc[t] = "idle"

=============================================================================
