--------------------------- MODULE GatewayClient ---------------------------
(***************************************************************************)
(* adapters/ws_client.py: the client of the QQ gateway.  One task runs     *)
(* run(), which keeps a connection open, identifies or resumes the session *)
(* and queues the events it reads; another runs _dispatch_worker, which    *)
(* hands them to the adapter; the host may call close() at any moment.     *)
(* An action is the code of one task between two awaits.                   *)
(*                                                                         *)
(* The gateway (external) does what its protocol demands: a session numbers *)
(* its messages, READY being number 1, and a resumed session is sent again *)
(* from the number the client names.                                       *)
(***************************************************************************)
EXTENDS Integers, Sequences, SequencesExt

CONSTANTS
    NumEvents,      \* events the platform produces, numbered 1..NumEvents
    QueueSize,      \* max_pending_dispatches
    ReconnectLimits,\* the values of max_reconnects considered (-1: no limit)
    MaxSessions,    \* bound on the sessions the gateway opens
    MaxFaults,      \* bound on what goes wrong outside the client
    MaxWire,        \* bound on the messages under way
    NoEvent, NoSession

Events == 1 .. NumEvents
Sessions == 1 .. MaxSessions

ASSUME GatewayAssumption ==
    /\ NumEvents \in Nat /\ QueueSize \in Nat \ {0}
    /\ ReconnectLimits \subseteq Int
    /\ MaxFaults \in Nat /\ MaxSessions \in Nat /\ MaxSessions > MaxFaults
    /\ MaxWire \in Nat \ {0}
    /\ NoEvent \notin Events /\ NoSession \notin Sessions

VARIABLES
    maxReconnects,  \* _max_reconnects
    runPc,          \* where run() is suspended
    reconnectCount, \* _reconnect_count
    lastSeq,        \* _last_seq (0 for None)
    sessionId,      \* _session_id
    inPut,          \* the event run() is putting into the full queue
    queue,          \* _dispatch_queue
    handed,         \* the events given to on_dispatch so far
    worker,         \* the worker waits ("get"), is in on_dispatch, or has ended
    stop,           \* _stop
    link,           \* whether the connection is up
    wire,           \* messages under way to the client
    upstream,       \* identify or resume under way to the gateway
    cursor,         \* number of the last message sent on this connection
    produced,       \* events the platform has produced
    session,        \* the gateway's last session (0 before the first) ...
    alive,          \* ... whether it can still be resumed ...
    log,            \* ... and its events: log[i] has number i + 1
    faults          \* what has gone wrong so far

loop == << runPc, reconnectCount >>
known == << lastSeq, sessionId >>
buffer == << inPut, queue, handed >>
life == << worker, stop >>
network == << link, wire, upstream, cursor >>
platform == << produced, session, alive, log >>
vars == << maxReconnects, loop, known, buffer, life, network, platform, faults >>

Nothing == [op |-> "nothing"]

Init ==
    /\ maxReconnects \in ReconnectLimits
    /\ runPc = "fetch" /\ reconnectCount = 0
    /\ lastSeq = 0 /\ sessionId = NoSession
    /\ inPut = NoEvent /\ queue = << >> /\ handed = << >>
    /\ worker = "get" /\ stop = FALSE
    /\ link = "down" /\ wire = << >> /\ upstream = Nothing /\ cursor = 0
    /\ produced = 0 /\ session = 0 /\ alive = FALSE /\ log = << >>
    /\ faults = 0

-----------------------------------------------------------------------------
(* close(), and the outer loop of run(). *)

Fault == faults < MaxFaults /\ faults' = faults + 1

\* self.ws is set while run() is inside the connection.
Connection == runPc \in {"read", "identify", "resume", "put", "invalid"}

\* _stop is set and the worker cancelled.
Shut == stop' = TRUE /\ worker' = "ended"

\* The loop goes on after a pause, unless it was told to stop.
GoOn(pause) ==
    IF stop THEN runPc' = "ended" /\ Shut ELSE runPc' = pause /\ UNCHANGED life

\* _fetch_gateway_url returns.
Fetched ==
    /\ runPc = "fetch"
    /\ runPc' = "connect"
    /\ UNCHANGED << maxReconnects, reconnectCount, known, buffer, life, network,
                    platform, faults >>

\* websockets.connect succeeds: the gateway greets with HELLO.
Connected ==
    /\ runPc = "connect"
    /\ runPc' = "read" /\ reconnectCount' = 0
    /\ link' = "up" /\ wire' = << [op |-> "hello"] >> /\ UNCHANGED << upstream, cursor >>
    /\ UNCHANGED << maxReconnects, known, buffer, life, platform, faults >>

\* Mutant: a limit below one is taken for a limit.
CountFailureUnguarded ==
    /\ reconnectCount' = reconnectCount + 1
    /\ IF maxReconnects <= reconnectCount + 1
       THEN runPc' = "ended" /\ Shut
       ELSE runPc' = "backoff" /\ UNCHANGED life

\* The handler of an exception: count it, then pause, or give up and close.
CountFailure ==
    /\ reconnectCount' = reconnectCount + 1
    /\ IF 0 < maxReconnects /\ maxReconnects <= reconnectCount + 1
       THEN runPc' = "ended" /\ Shut
       ELSE runPc' = "backoff" /\ UNCHANGED life

\* The token, the URL or the connection cannot be had.
ConnectFails ==
    /\ runPc \in {"fetch", "connect"} /\ Fault
    /\ CountFailure
    /\ UNCHANGED << maxReconnects, known, buffer, network, platform >>

\* The `finally` around a connection and the exit of `async with`.
Disconnect == link' = "down" /\ wire' = << >> /\ upstream' = Nothing /\ cursor' = 0

\* The pause is over; the loop looks at _stop.
Awakes ==
    /\ runPc \in {"sleep", "backoff"}
    /\ GoOn("fetch")
    /\ UNCHANGED << maxReconnects, reconnectCount, known, buffer, network, platform,
                    faults >>

-----------------------------------------------------------------------------
(* run(): reading. *)

\* The next message is an op; it is taken from the connection.
Reading(op) == runPc = "read" /\ wire # << >> /\ Head(wire).op = op
Taken == wire' = Tail(wire) /\ UNCHANGED << link, upstream, cursor >>

\* HELLO: resume if there is something to resume, identify otherwise; both
\* first wait for a token.
ReadHello ==
    /\ Reading("hello") /\ Taken
    /\ runPc' = IF sessionId # NoSession /\ lastSeq # 0 THEN "resume" ELSE "identify"
    /\ UNCHANGED << maxReconnects, reconnectCount, known, buffer, life, platform, faults >>

\* The token is there: the request is sent.
SendHail ==
    /\ runPc \in {"identify", "resume"} /\ link = "up"
    /\ upstream' = IF runPc = "resume"
                   THEN [op |-> "resume", session |-> sessionId, seq |-> lastSeq]
                   ELSE [op |-> "identify"]
    /\ runPc' = "read"
    /\ UNCHANGED << maxReconnects, reconnectCount, known, buffer, life, link, wire, cursor,
                    platform, faults >>

\* No token, or the connection is gone: an exception leaves the connection.
HailFails ==
    /\ runPc \in {"identify", "resume"}
    /\ IF link = "up" THEN Fault ELSE UNCHANGED faults
    /\ Disconnect /\ CountFailure
    /\ UNCHANGED << maxReconnects, known, buffer, platform >>

\* READY opens a session; its number is remembered like any other.
ReadReady ==
    /\ Reading("ready") /\ Taken
    /\ lastSeq' = Head(wire).s /\ sessionId' = Head(wire).session
    /\ UNCHANGED << maxReconnects, loop, buffer, life, platform, faults >>

\* RESUMED is only logged.
ReadResumed ==
    /\ Reading("resumed") /\ Taken
    /\ UNCHANGED << maxReconnects, loop, known, buffer, life, platform, faults >>

\* Mutant: an event is dropped when the queue is full.
QueueOrDrop(e) ==
    /\ queue' = IF Len(queue) < QueueSize THEN Append(queue, e) ELSE queue
    /\ UNCHANGED << runPc, inPut >>

\* _queue_dispatch: a full queue blocks the reader.
QueueOrBlock(e) ==
    IF Len(queue) < QueueSize
    THEN queue' = Append(queue, e) /\ UNCHANGED << runPc, inPut >>
    ELSE runPc' = "put" /\ inPut' = e /\ UNCHANGED queue

\* Mutant: the number of an event is recorded only if it is queued at once.
ReadEventLate ==
    /\ Reading("event") /\ Taken
    /\ lastSeq' = IF Len(queue) < QueueSize THEN Head(wire).s ELSE lastSeq
    /\ QueueOrBlock(Head(wire).event)
    /\ UNCHANGED << maxReconnects, reconnectCount, sessionId, handed, life, platform,
                    faults >>

\* An event: its number is recorded first, then it is queued.
ReadEvent ==
    /\ Reading("event") /\ Taken
    /\ lastSeq' = Head(wire).s
    /\ QueueOrBlock(Head(wire).event)
    /\ UNCHANGED << maxReconnects, reconnectCount, sessionId, handed, life, platform,
                    faults >>

\* Mutant: the blocked put does not wait for room.
RoomAlways == TRUE

Room == Len(queue) < QueueSize

\* The blocked put finds room.
PutDone ==
    /\ runPc = "put" /\ Room
    /\ queue' = Append(queue, inPut) /\ inPut' = NoEvent
    /\ runPc' = "read"
    /\ UNCHANGED << maxReconnects, reconnectCount, known, handed, life, network, platform,
                    faults >>

\* RECONNECT: leave the connection and open another.
ReadReconnect ==
    /\ Reading("reconnect")
    /\ Disconnect /\ GoOn("sleep")
    /\ UNCHANGED << maxReconnects, reconnectCount, known, buffer, platform, faults >>

\* Mutant: the session is kept whatever the gateway says.
ForgetNever(resumable) == UNCHANGED known

\* Mutant: the session is forgotten, the number reached in it is not.
ForgetHalf(resumable) ==
    sessionId' = (IF resumable THEN sessionId ELSE NoSession) /\ UNCHANGED lastSeq

\* An invalid session that the gateway does not call resumable is forgotten,
\* together with its number.
Forget(resumable) ==
    IF resumable /\ sessionId # NoSession
    THEN UNCHANGED known
    ELSE lastSeq' = 0 /\ sessionId' = NoSession

\* INVALID_SESSION, and the pause before the connection is left.
ReadInvalid ==
    /\ Reading("invalid") /\ Taken
    /\ Forget(Head(wire).d)
    /\ runPc' = "invalid"
    /\ UNCHANGED << maxReconnects, reconnectCount, buffer, life, platform, faults >>

InvalidPauseOver ==
    /\ runPc = "invalid"
    /\ Disconnect /\ GoOn("sleep")
    /\ UNCHANGED << maxReconnects, reconnectCount, known, buffer, platform, faults >>

\* The connection is gone and read to its end: the loop ends cleanly, or with
\* an exception.
ReadEnd ==
    /\ runPc = "read" /\ link = "down" /\ wire = << >>
    /\ Disconnect
    /\ \/ CountFailure
       \/ GoOn("sleep") /\ UNCHANGED reconnectCount
    /\ UNCHANGED << maxReconnects, known, buffer, platform, faults >>

-----------------------------------------------------------------------------
(* The worker, and the host. *)

\* The worker takes the oldest event and calls on_dispatch.
Take ==
    /\ worker = "get" /\ queue # << >>
    /\ worker' = "dispatch"
    /\ handed' = Append(handed, Head(queue)) /\ queue' = Tail(queue)
    /\ UNCHANGED << maxReconnects, loop, known, inPut, stop, network, platform, faults >>

\* on_dispatch returns or raises: either way the worker goes on.
Dispatched ==
    /\ worker = "dispatch"
    /\ worker' = "get"
    /\ UNCHANGED << maxReconnects, loop, known, buffer, stop, network, platform, faults >>

\* terminate() of the adapter: close() while run() goes on.  An open socket is
\* closed; what was received before can still be read.
CloseClient ==
    /\ ~stop /\ Shut
    /\ IF Connection THEN link' = "down" /\ upstream' = Nothing /\ cursor' = 0
                     ELSE UNCHANGED << link, upstream, cursor >>
    /\ UNCHANGED << maxReconnects, loop, known, buffer, wire, platform, faults >>

\* The host cancels the task of run(): CancelledError at whatever it awaits.
\* Inside the try it leads to close(); the pause after a failure lies in the
\* handler, outside the try, and run() ends there without closing anything.
RunCancelled ==
    /\ runPc # "ended"
    /\ runPc' = "ended" /\ inPut' = NoEvent
    /\ IF runPc = "backoff" THEN UNCHANGED life ELSE Shut
    /\ Disconnect
    /\ UNCHANGED << maxReconnects, reconnectCount, known, queue, handed, platform, faults >>

-----------------------------------------------------------------------------
(* The gateway and the network. *)

Send(message) == Len(wire) < MaxWire /\ wire' = Append(wire, message)

\* Something happens in a chat of the bot.
Produce ==
    /\ alive /\ produced < NumEvents
    /\ produced' = produced + 1 /\ log' = Append(log, produced + 1)
    /\ UNCHANGED << maxReconnects, loop, known, buffer, life, network, session, alive,
                    faults >>

\* Identify opens a session and is answered with READY.
AnswerIdentify ==
    /\ upstream.op = "identify" /\ session < MaxSessions
    /\ Send([op |-> "ready", s |-> 1, session |-> session + 1])
    /\ session' = session + 1 /\ alive' = TRUE /\ log' = << >> /\ cursor' = 1
    /\ upstream' = Nothing
    /\ UNCHANGED << maxReconnects, loop, known, buffer, life, link, produced, faults >>

\* Resume of a live session: the messages after seq follow.
AnswerResume ==
    /\ upstream.op = "resume" /\ alive /\ upstream.session = session
    /\ Send([op |-> "resumed"])
    /\ cursor' = upstream.seq /\ upstream' = Nothing
    /\ UNCHANGED << maxReconnects, loop, known, buffer, life, link, platform, faults >>

\* Resume is refused: a session that is gone cannot be resumed; a live one may
\* be refused for now (d = TRUE) or be given up.
RefuseResume ==
    /\ upstream.op = "resume"
    /\ \/ /\ ~(alive /\ upstream.session = session)
          /\ Send([op |-> "invalid", d |-> FALSE]) /\ UNCHANGED << alive, faults >>
       \/ \E resumable \in BOOLEAN :
            /\ alive /\ Fault
            /\ Send([op |-> "invalid", d |-> resumable]) /\ alive' = resumable
    /\ upstream' = Nothing
    /\ UNCHANGED << maxReconnects, loop, known, buffer, life, link, cursor, produced,
                    session, log >>

\* The next message of the session is sent on this connection.
Push ==
    /\ link = "up" /\ cursor # 0 /\ cursor <= Len(log)
    /\ Send([op |-> "event", s |-> cursor + 1, event |-> log[cursor]])
    /\ cursor' = cursor + 1
    /\ UNCHANGED << maxReconnects, loop, known, buffer, life, link, upstream, platform,
                    faults >>

\* The gateway asks for a new connection and sends nothing more on this one.
AskReconnect ==
    /\ link = "up" /\ cursor # 0 /\ Fault
    /\ Send([op |-> "reconnect"]) /\ cursor' = 0
    /\ UNCHANGED << maxReconnects, loop, known, buffer, life, link, upstream, platform >>

\* The connection breaks; what is under way may be lost.
Break ==
    /\ link = "up" /\ Fault
    /\ link' = "down" /\ upstream' = Nothing /\ cursor' = 0 /\ wire' \in {wire, << >>}
    /\ UNCHANGED << maxReconnects, loop, known, buffer, life, platform >>

-----------------------------------------------------------------------------

RunStep ==
    \/ Fetched \/ Connected \/ ConnectFails \/ Awakes
    \/ ReadHello \/ SendHail \/ HailFails \/ ReadReady \/ ReadResumed \/ ReadEvent
    \/ PutDone \/ ReadReconnect \/ ReadInvalid \/ InvalidPauseOver \/ ReadEnd

GatewayStep ==
    \/ Produce \/ AnswerIdentify \/ AnswerResume \/ RefuseResume \/ Push
    \/ AskReconnect \/ Break

Next == RunStep \/ Take \/ Dispatched \/ CloseClient \/ RunCancelled \/ GatewayStep

\* Both tasks run when they can, on_dispatch returns, and the gateway answers
\* and delivers.  Nothing bad has to happen, and nobody has to close.
Fairness ==
    /\ WF_vars(RunStep) /\ WF_vars(Take) /\ WF_vars(Dispatched)
    /\ WF_vars(AnswerIdentify \/ AnswerResume \/ RefuseResume) /\ WF_vars(Push)

Spec == Init /\ [][Next]_vars
FairSpec == Spec /\ Fairness

-----------------------------------------------------------------------------

\* The types, and the bound on the events kept in memory.
TypeOK ==
    /\ maxReconnects \in ReconnectLimits
    /\ runPc \in {"fetch", "connect", "read", "identify", "resume", "put", "invalid",
                  "sleep", "backoff", "ended"}
    /\ inPut \in Events \cup {NoEvent}
    /\ stop \in BOOLEAN /\ alive \in BOOLEAN
    /\ lastSeq \in Nat /\ reconnectCount \in Nat /\ faults \in Nat /\ cursor \in Nat
    /\ sessionId \in Sessions \cup {NoSession}
    /\ queue \in Seq(Events) /\ Len(queue) <= QueueSize
    /\ handed \in Seq(Events)
    /\ worker \in {"get", "dispatch", "ended"}
    /\ link \in {"up", "down"}
    /\ produced \in 0 .. NumEvents /\ session \in 0 .. MaxSessions
    /\ log \in Seq(Events)

\* Received and not yet handed over, in the order of receipt.
Pipe == queue \o (IF inPut = NoEvent THEN << >> ELSE << inPut >>)

\* Nothing between the gateway's log and the adapter is lost: every event whose
\* number the client has acknowledged by _last_seq (it will never be sent again)
\* was handed over or is on its way to the worker, across any number of lost
\* connections, resumes and refusals, and while the reader is blocked.
AcknowledgedIsKept ==
    ~stop /\ runPc # "ended" /\ sessionId = session =>
        \A i \in DOMAIN log : i < lastSeq => Contains(handed \o Pipe, log[i])

\* A session id is only ever kept together with a number of that session: a
\* resume never names a number the gateway has not reached.
ResumePointIsReal ==
    /\ (sessionId = NoSession) <=> (lastSeq = 0)
    /\ sessionId = session => lastSeq <= Len(log) + 1
    /\ sessionId # NoSession => sessionId <= session

\* Without close() and without cancellation run() ends only after max_reconnects
\* failures in a row, and without a limit never.
GivesUpOnlyAtLimit ==
    [][runPc # "ended" /\ runPc' = "ended" /\ ~stop
        => \/ 0 < maxReconnects /\ maxReconnects <= reconnectCount'
           \/ RunCancelled]_vars

\* The client implements the feed it promises: in order, at most once, nothing
\* dropped before it is closed, whatever the connection does.
Feed == INSTANCE EventFeed WITH
    Capacity <- QueueSize + 1,
    pipe <- IF stop THEN << >> ELSE Pipe,
    closed <- stop
ImplementsFeed == Feed!FeedSpec

\* The faults of the environment being finite, every event of a session that is
\* not replaced by another reaches the adapter, unless the client is closed or
\* run() has ended.
EventsArrive ==
    \A e \in Events :
        Contains(log, e)
            ~> (Contains(handed, e) \/ ~Contains(log, e) \/ stop \/ runPc = "ended")

\* "qq_restapi adapter stopped", logged when close() has returned: the run loop
\* ends after it.
StopEndsRun == stop ~> runPc = "ended"

=============================================================================
