--------------------------- MODULE SendingProofs ---------------------------
(***************************************************************************)
(* Theorems of Sending for every number of sends and every token manager   *)
(* TokenManager describes.  The sends' invariant rests on the manager's:   *)
(* SendSpec implements Spec of TokenManager, whose inductive invariant     *)
(* IInv (TokenManagerProofs) is carried along.                             *)
(***************************************************************************)
EXTENDS Sending, TokenManagerProofs

\* What a send calls is an operation of the token manager, for its own task, or
\* no step of it.
LEMMA StepOfItsTask ==
  ASSUME NEW t \in Tasks, SendStep(t)
  PROVE  Step(t) \/ UNCHANGED vars
<1>1. ASSUME NEW s, Post(t, s) PROVE GetToken(t) \/ UNCHANGED vars
  BY <1>1 DEF Post
<1>2. CASE StartSend(t) \/ Answered(t) \/ AsksAgain(t)
  BY <1>1, <1>2 DEF StartSend, Answered, AsksAgain, Step
<1>3. CASE HeadersReady(t) \/ NoHeaders(t) \/ Refreshed(t) \/ NotRefreshed(t) \/ TokenStep(t)
  BY <1>3 DEF HeadersReady, NoHeaders, Refreshed, NotRefreshed, TokenStep, Step
<1>4. CASE Rejected(t) \/ RejectedAgain(t)
  BY <1>4 DEF Rejected, RejectedAgain, Step
<1>5. QED
  BY <1>2, <1>3, <1>4 DEF SendStep

\* Every step of the sends is a step of the token manager or none.
LEMMA ManagerStep == [SendNext]_allVars => [Next]_vars
BY StepOfItsTask DEF SendNext, Clock, Next, allVars, vars

\* The sender uses the token manager by its operations and at the moments they
\* allow: whatever holds of the manager holds under _post_url of sender.py.
THEOREM UsesTokenManager == SendSpec => Spec
<1>1. SendInit => Init
  BY DEF SendInit
<1>2. QED
  BY <1>1, ManagerStep, PTL DEF SendSpec, Spec

\* The manager's invariant holds in every state of the sends.
LEMMA ManagerInvariant == SendSpec => []IInv
BY UsesTokenManager, Invariant, PTL

-----------------------------------------------------------------------------

(* The shapes a step of a send can have.  The invariants below are proved
   shape by shape, not action by action. *)

\* A record that says of its send what is true so far.
Honest(s) ==
    /\ s.stage # "done" => s.shown = 0 /\ s.result = "none"
    /\ s.shown <= 1
    /\ s.result = "ok" => s.shown = 1
    /\ s.result \in {"ignored", "format", "refused"} => s.shown = 0

HonestSends == \A t \in Tasks : Honest(send[t])

\* A new POST that has not been rejected yet, or the end of the send.
Anew(s) == s \in SendRecord /\ s.rejected = Never /\ Honest(s)

\* The headers are there: a POST goes out with the cached token.
Carries(t) ==
    /\ send[t].stage = "token" \/ (send[t].stage = "refresh" /\ Receive(t))
    /\ cachedToken' \in Token
    /\ send'[t] = Carrying(send[t], cachedToken')

\* A POST was rejected and a refresh begins.
Retries(t) ==
    /\ send[t].stage = "post" /\ send[t].retry > 0 /\ Refresh(t)
    /\ send'[t] = Retrying(t)

\* A refresh brought a token too short-lived to be served.
Waits(t) ==
    /\ send[t].stage = "refresh" /\ Receive(t)
    /\ send'[t] = [send[t] EXCEPT !.stage = "token"]

\* The send itself does not move; its task may, unless it waits for headers.
Stays(t) ==
    /\ send'[t] = send[t]
    /\ ResumeRefresh(t) \/ Issue(t) \/ UNCHANGED vars \/ send[t].stage # "refresh"

Shape(t) == Anew(send'[t]) \/ Carries(t) \/ Retries(t) \/ Waits(t) \/ Stays(t)

\* The record of a task that sends nothing yet has the type of the others.
LEMMA NoSendTyped == NoSend \in SendRecord
BY DEF NoSend, SendRecord, Posts

\* A POST goes out with the cached token, or the task waits for one.
LEMMA PostShape ==
  ASSUME TypeOK, SendTypeOK, NEW t \in Tasks, NEW s \in SendRecord, Post(t, s)
  PROVE  /\ send' = [send EXCEPT ![t] = send'[t]]
         /\ \/ cachedToken \in Token /\ cachedToken' = cachedToken
               /\ send'[t] = Carrying(s, cachedToken)
            \/ send'[t] = s
BY DEF Post, Set, SendTypeOK, TypeOK, Fresh, vars

\* What follows a verdict is a new beginning or an honest end.
LEMMA ConcludedAnew ==
  ASSUME TypeOK, SendTypeOK, HonestSends, NEW t \in Tasks, send[t].stage # "done",
         NEW verdict \in Verdicts, NEW n \in {0, 1},
         n = 1 => send[t].post # "upload",
         verdict = "ok" /\ send[t].post # "upload" => n = 1,
         verdict \in {"ignored", "format", "refused"} => n = 0
  PROVE  /\ Anew(Concluded(t, verdict, n))
         /\ Concluded(t, verdict, n).stage \in {"done", "token"}
<1>1. send[t] \in SendRecord /\ send[t].shown = 0
  BY DEF SendTypeOK, HonestSends, Honest
<1>2. ASSUME NEW post \in Posts, NEW m \in {0, 1}, m = 0
      PROVE  Anew(Following(t, post, m)) /\ Following(t, post, m).stage = "token"
  <2>1. send[t].shown + m = 0
    BY <1>1, <1>2
  <2>2. Following(t, post, m) \in SendRecord
    <3>1. \A s \in SendRecord :
            [s EXCEPT !.stage = "token", !.post = post, !.shown = 0] \in SendRecord
      BY DEF SendRecord
    <3>2. QED
      BY <2>1, <3>1, NoSendTyped DEF Following
  <2>3. QED
    BY <2>1, <2>2 DEF Following, Anew, Honest, NoSend
<1>3. ASSUME NEW r \in Verdicts, NEW m \in {0, 1}, r = "ok" => m = 1,
             r \in {"ignored", "format", "refused"} => m = 0
      PROVE  Anew(Finished(t, r, m)) /\ Finished(t, r, m).stage = "done"
  <2>1. send[t].shown + m = m
    BY <1>1, <1>3
  <2>2. Finished(t, r, m) \in SendRecord
    <3>0. m \in Nat /\ r \in Verdicts \cup {"none"}
      BY <1>3
    <3>1. ASSUME NEW s \in SendRecord
          PROVE  [s EXCEPT !.stage = "done", !.result = r, !.shown = m] \in SendRecord
      BY <3>0 DEF SendRecord
    <3>2. QED
      BY <2>1, <3>1, NoSendTyped DEF Finished
  <2>3. QED
    BY <1>3, <2>1, <2>2 DEF Finished, Anew, Honest, NoSend
<1>4. CASE Downgrades(t, verdict)
  <2>1. Concluded(t, verdict, n) = Following(t, "plain", n)
    BY <1>4 DEF Concluded
  <2>2. n = 0
    BY <1>4 DEF Downgrades
  <2>3. QED
    BY <1>2, <2>1, <2>2 DEF Posts
<1>5. CASE ~Downgrades(t, verdict) /\ send[t].post = "upload"
  BY <1>2, <1>3, <1>5 DEF Concluded, Posts, Verdicts
<1>6. CASE ~Downgrades(t, verdict) /\ send[t].post # "upload"
  BY <1>3, <1>6 DEF Concluded
<1>7. QED
  BY <1>4, <1>5, <1>6

\* The first POST of a message that has had no POST yet begins anew.
LEMMA PostAnew ==
  ASSUME TypeOK, SendTypeOK, NEW t \in Tasks, NEW s, Anew(s), s.stage = "token", Post(t, s)
  PROVE  Anew(send'[t])
<1>1. ASSUME cachedToken \in Token, send'[t] = Carrying(s, cachedToken)
      PROVE  Anew(send'[t])
  BY <1>1 DEF Anew, Honest, Carrying, SendRecord
<1>2. QED
  BY <1>1, PostShape DEF Anew

\* What a caller may ask for is a message without a POST.
LEMMA RequestsAnew == \A s \in Requests : Anew(s) /\ s.stage = "token"
<1>1. ASSUME NEW post \in Posts, NEW fallback \in BOOLEAN
      PROVE  LET s == [NoSend EXCEPT !.stage = "token", !.post = post, !.fallback = fallback]
             IN  Anew(s) /\ s.stage = "token"
  <2>1. \A r \in SendRecord :
          [r EXCEPT !.stage = "token", !.post = post, !.fallback = fallback] \in SendRecord
    BY DEF SendRecord
  <2>2. [NoSend EXCEPT !.stage = "token", !.post = post, !.fallback = fallback] \in SendRecord
    BY <2>1, NoSendTyped
  <2>3. QED
    BY <2>2 DEF Anew, Honest, NoSend
<1>2. ASSUME NEW post \in Posts
      PROVE  LET s == [NoSend EXCEPT !.stage = "token", !.post = post]
             IN  Anew(s) /\ s.stage = "token"
  <2>1. \A r \in SendRecord : [r EXCEPT !.stage = "token", !.post = post] \in SendRecord
    BY DEF SendRecord
  <2>2. [NoSend EXCEPT !.stage = "token", !.post = post] \in SendRecord
    BY <2>1, NoSendTyped
  <2>3. QED
    BY <2>2 DEF Anew, Honest, NoSend
<1>3. QED
  BY <1>1, <1>2 DEF Requests, Posts

\* Every step of a send has one of the shapes and leaves the other sends alone.
LEMMA StepShape ==
  ASSUME TypeOK, SendTypeOK, HonestSends, NEW t \in Tasks, SendStep(t)
  PROVE  /\ Shape(t)
         /\ \A u \in Tasks \ {t} : send'[u] = send[u]
         /\ DOMAIN send' = Tasks /\ send' = [send EXCEPT ![t] = send'[t]]
<1> USE DEF Shape
<1>0. ASSUME NEW s, Set(t, s)
      PROVE  /\ send'[t] = s
             /\ \A u \in Tasks \ {t} : send'[u] = send[u]
             /\ DOMAIN send' = Tasks /\ send' = [send EXCEPT ![t] = send'[t]]
  BY <1>0 DEF Set, SendTypeOK
<1>a. ASSUME Receive(t) PROVE cachedToken' \in Token
  BY <1>a DEF Receive, TypeOK
<1>b. ASSUME send[t].stage # "done"
      PROVE  Anew(Concluded(t, "doubtful", 0)) /\ Anew(Concluded(t, "refused", 0))
  BY <1>b, ConcludedAnew DEF Verdicts
<1>c. ASSUME UNCHANGED send
      PROVE  /\ \A u \in Tasks : send'[u] = send[u]
             /\ DOMAIN send' = Tasks /\ send' = [send EXCEPT ![t] = send'[t]]
  BY <1>c DEF SendTypeOK
<1>d. ASSUME NEW s, Post(t, s)
      PROVE  \E r : Set(t, r)
  BY <1>d DEF Post
<1>1. CASE StartSend(t)
  BY <1>0, <1>1, <1>d, RequestsAnew, PostAnew DEF StartSend
<1>2. CASE HeadersReady(t)
  <2>1. cachedToken' \in Token
    BY <1>2, <1>a DEF HeadersReady, ResumeFresh, Fresh, TypeOK
  <2>2. send[t].stage = "token" /\ Set(t, Carrying(send[t], cachedToken'))
    BY <1>2 DEF HeadersReady
  <2>3. Carries(t)
    BY <1>0, <2>1, <2>2 DEF Carries
  <2>4. QED
    BY <1>0, <2>2, <2>3
<1>3. CASE NoHeaders(t)
  BY <1>0, <1>3, <1>b DEF NoHeaders
<1>4. CASE AsksAgain(t)
  <2>1. send[t] \in SendRecord /\ send[t].stage = "token" /\ Post(t, send[t])
    BY <1>4 DEF AsksAgain, SendTypeOK
  <2>2. CASE /\ cachedToken \in Token /\ cachedToken' = cachedToken
             /\ send'[t] = Carrying(send[t], cachedToken)
    BY <1>0, <1>d, <2>1, <2>2 DEF Carries
  <2>3. CASE send'[t] = send[t]
    BY <1>0, <1>d, <2>1, <2>3 DEF Stays
  <2>4. QED
    BY <2>1, <2>2, <2>3, PostShape
<1>5. CASE Answered(t)
  <2>1. PICK a \in Answers(t) :
          LET s == Concluded(t, a.verdict, a.n) IN
          \/ s.stage = "done" /\ Set(t, s) /\ UNCHANGED vars
          \/ s.stage = "token" /\ Post(t, s)
    BY <1>5 DEF Answered
  <2>2. Anew(Concluded(t, a.verdict, a.n))
    BY <1>5, ConcludedAnew DEF Answered, Answers
  <2>3. QED
    BY <1>0, <1>d, <2>1, <2>2, PostAnew
<1>6. CASE Rejected(t)
  BY <1>0, <1>6 DEF Rejected, Retries
<1>7. CASE RejectedAgain(t)
  BY <1>0, <1>7, <1>b DEF RejectedAgain
<1>8. CASE Refreshed(t)
  <2>1. CASE Fresh'
    BY <1>0, <1>8, <1>a, <2>1 DEF Refreshed, Carries
  <2>2. CASE ~Fresh'
    BY <1>0, <1>8, <2>2 DEF Refreshed, Waits
  <2>3. QED
    BY <2>1, <2>2
<1>9. CASE NotRefreshed(t)
  BY <1>0, <1>9, <1>b DEF NotRefreshed
<1>10. CASE TokenStep(t)
  BY <1>10, <1>c DEF TokenStep, Stays
<1>11. QED
  BY <1>1, <1>2, <1>3, <1>4, <1>5, <1>6, <1>7, <1>8, <1>9, <1>10 DEF SendStep

-----------------------------------------------------------------------------

\* A step keeps the types of the sends and what their records say of them.
LEMMA HonestStep ==
  ASSUME TypeOK, SendTypeOK, HonestSends, [SendNext]_allVars
  PROVE  SendTypeOK' /\ HonestSends'
<1>1. ASSUME NEW t \in Tasks, SendStep(t) PROVE SendTypeOK' /\ HonestSends'
  <2>1. /\ Shape(t) /\ send' = [send EXCEPT ![t] = send'[t]]
        /\ \A u \in Tasks \ {t} : send'[u] = send[u]
    BY <1>1, StepShape
  <2>2. send[t] \in SendRecord /\ Honest(send[t])
    BY DEF SendTypeOK, HonestSends
  <2>3. send'[t] \in SendRecord /\ Honest(send'[t])
    <3>1. CASE Anew(send'[t])
      BY <3>1 DEF Anew
    <3>2. CASE Carries(t)
      <4>1. /\ send[t].stage # "done" /\ cachedToken' \in Token
            /\ send'[t] = Carrying(send[t], cachedToken')
        BY <3>2 DEF Carries
      <4>2. QED
        BY <2>2, <4>1 DEF Carrying, Honest, SendRecord
    <3>3. CASE Retries(t)
      <4>1. /\ send[t].stage = "post" /\ send[t].retry > 0
            /\ send'[t] = Retrying(t) /\ now \in Nat
        BY <3>3 DEF Retries, TypeOK
      <4>2. send[t].retry = 1
        BY <2>2, <4>1 DEF SendRecord
      <4>3. Retrying(t) \in SendRecord
        <5>1. \A r \in SendRecord :
                [r EXCEPT !.stage = "refresh", !.retry = 0, !.carried = NoToken,
                          !.rejected = now] \in SendRecord
          BY <4>1 DEF SendRecord
        <5>2. send[t].retry - 1 = 0
          BY <4>2
        <5>3. QED
          BY <2>2, <5>1, <5>2 DEF Retrying
      <4>4. QED
        BY <2>2, <4>1, <4>3 DEF Retrying, Honest, SendRecord
    <3>4. CASE Waits(t)
      <4>1. send[t].stage = "refresh" /\ send'[t] = [send[t] EXCEPT !.stage = "token"]
        BY <3>4 DEF Waits
      <4>2. QED
        BY <2>2, <4>1 DEF Honest, SendRecord
    <3>5. CASE Stays(t)
      BY <2>2, <3>5 DEF Stays
    <3>6. QED
      BY <2>1, <3>1, <3>2, <3>3, <3>4, <3>5 DEF Shape
  <2>4. QED
    BY <2>1, <2>3 DEF SendTypeOK, HonestSends
<1>2. CASE UNCHANGED send
  BY <1>2 DEF SendTypeOK, HonestSends
<1>3. QED
  BY <1>1, <1>2 DEF SendNext, Clock, allVars

\* What the records say of their sends holds in every state.
LEMMA HonestyHolds == SendSpec => [](SendTypeOK /\ HonestSends)
<1>1. SendInit => SendTypeOK /\ HonestSends
  BY NoSendTyped DEF SendInit, SendTypeOK, HonestSends, Honest, NoSend
<1>2. IInv => TypeOK
  BY DEF IInv
<1>3. QED
  BY <1>1, <1>2, HonestStep, ManagerInvariant, PTL DEF SendSpec

\* The type invariant of the sends; with it the retries of _post_url: the count
\* is never below zero.
THEOREM SendTypesCorrect == SendSpec => []SendTypeOK
BY HonestyHolds, PTL

\* No send shows two messages, whatever the API answers to its POSTs.
THEOREM NothingShownTwice == SendSpec => []ShownAtMostOnce
<1>1. HonestSends => ShownAtMostOnce
  BY DEF HonestSends, Honest, ShownAtMostOnce
<1>2. QED
  BY <1>1, HonestyHolds, PTL

\* The SendResult a caller gets tells whether its message was shown.
THEOREM ResultsAreTrue == SendSpec => []ResultIsTrue
<1>1. HonestSends => ResultIsTrue
  BY DEF HonestSends, Honest, ResultIsTrue
<1>2. QED
  BY <1>1, HonestyHolds, PTL

-----------------------------------------------------------------------------

(* The strengthening of RetryCarriesNewToken: a send that was rejected keeps
   ahead of its rejection through the refresh, the cache and the headers. *)

\* A rejection lies in the past.
RejectedBefore == \A t \in Tasks :
    send[t].rejected # Never => send[t].rejected <= now

\* The refresh of a send was asked for after its rejection.
AskedSince == \A t \in Tasks :
    send[t].stage = "refresh" /\ pc[t] = "post"
        => send[t].rejected <= request[t].sent

\* A send that waits for headers after a rejection finds a newer token cached.
CachedSince == \A t \in Tasks :
    send[t].stage = "token" /\ send[t].rejected # Never
        => cachedToken # NoToken /\ send[t].rejected <= cachedToken.issued

RetryInv ==
    /\ SendTypeOK /\ HonestSends
    /\ RejectedBefore
    /\ AskedSince
    /\ CachedSince
    /\ RetryCarriesNewToken

\* The same for one send.
KeepsAhead(t) ==
    /\ send[t].rejected # Never => send[t].rejected <= now
    /\ send[t].stage = "refresh" /\ pc[t] = "post"
        => send[t].rejected <= request[t].sent
    /\ send[t].stage = "token" /\ send[t].rejected # Never
        => cachedToken # NoToken /\ send[t].rejected <= cachedToken.issued
    /\ send[t].stage = "post" /\ send[t].rejected # Never
        => send[t].carried # NoToken /\ send[t].rejected <= send[t].carried.issued

\* The clock of the manager never goes back.
LEMMA TimeMovesForward ==
  ASSUME IInv, [Next]_vars
  PROVE  now \in Nat /\ now' \in Nat /\ now <= now'
<1>1. now' = now \/ now' = now + 1
  BY DEF Next, Step, Tick, GetToken, Refresh, ResumeFresh, ResumeRefresh, Issue,
     Receive, Fail, vars
<1>2. now \in Nat
  BY DEF IInv, TypeOK
<1>3. QED
  BY <1>1, <1>2

\* The operations of one task leave the others where they are.
LEMMA OtherTasksStay ==
  ASSUME TypeOK, NEW t \in Tasks, Step(t) \/ UNCHANGED vars, NEW u \in Tasks, u # t
  PROVE  pc'[u] = pc[u] /\ request'[u] = request[u]
<1>1. ASSUME EnterLock(t) PROVE pc'[u] = pc[u] /\ request'[u] = request[u]
  BY <1>1 DEF EnterLock, SendRequest, TypeOK
<1>2. QED
  BY <1>1 DEF Step, GetToken, Refresh, ResumeFresh, ResumeRefresh, SendRequest, Issue,
     Receive, Fail, vars, TypeOK

\* A send that does not move keeps ahead while its task does not move either,
\* asks the server or gets its token issued: the cache only moves forward.
LEMMA StillAhead ==
  ASSUME IInv, IInv', [Next]_vars, NEW u \in Tasks, send[u] \in SendRecord,
         KeepsAhead(u), send'[u] = send[u],
         send[u].stage = "refresh" /\ pc'[u] = "post" =>
            \/ pc[u] = "post" /\ request'[u].sent = request[u].sent
            \/ request'[u].sent = now
  PROVE  KeepsAhead(u)'
<1>1. send[u].rejected \in Nat \cup {Never}
  BY DEF SendRecord
<1>2. send[u].rejected <= now
  <2>1. now \in Nat
    BY DEF IInv, TypeOK
  <2>2. QED
    BY <1>1, <2>1 DEF KeepsAhead, Never
<1>3. now \in Nat /\ now' \in Nat /\ now <= now'
  BY TimeMovesForward
<1>4. send'[u].rejected # Never => send'[u].rejected <= now'
  BY <1>1, <1>2, <1>3
<1>5. send'[u].stage = "refresh" /\ pc'[u] = "post" => send'[u].rejected <= request'[u].sent
  BY <1>2 DEF KeepsAhead
<1>6. ASSUME send[u].stage = "token", send[u].rejected # Never
      PROVE  cachedToken' # NoToken /\ send[u].rejected <= cachedToken'.issued
  <2>1. cachedToken # NoToken /\ send[u].rejected <= cachedToken.issued
    BY <1>6 DEF KeepsAhead
  <2>2. cachedToken' # NoToken /\ cachedToken'.issued >= cachedToken.issued
    BY <2>1, CacheMovesForward
  <2>3. cachedToken.issued \in Nat /\ cachedToken'.issued \in Nat
    BY <2>1, <2>2 DEF IInv, TypeOK, Token
  <2>4. QED
    BY <1>1, <1>6, <2>1, <2>2, <2>3
<1>7. QED
  BY <1>4, <1>5, <1>6 DEF KeepsAhead

\* A reply brings a token issued after its request was sent.
LEMMA ReplyIsNew ==
  ASSUME IInv, NEW t \in Tasks, Receive(t), send[t] \in SendRecord, KeepsAhead(t),
         send[t].stage = "refresh"
  PROVE  cachedToken' # NoToken /\ send[t].rejected <= cachedToken'.issued
<1>1. pc[t] = "post" /\ request[t].issued # NoToken /\ cachedToken' = request[t].issued
  BY DEF Receive
<1>2. request[t].sent <= request[t].issued.issued
  BY <1>1 DEF IInv, RequestTimed
<1>3. send[t].rejected <= request[t].sent
  BY <1>1 DEF KeepsAhead
<1>4. send[t].rejected \in Nat \cup {Never}
  BY DEF SendRecord
<1>5. request[t].issued \in Token /\ request[t].sent \in Nat
  BY <1>1 DEF IInv, TypeOK
<1>6. request[t].issued.issued \in Nat
  BY <1>5 DEF Token
<1>7. QED
  BY <1>1, <1>2, <1>3, <1>4, <1>5, <1>6 DEF Never

\* Every shape of a step keeps its send ahead of its rejection.
LEMMA ShapeKeepsAhead ==
  ASSUME IInv, IInv', [Next]_vars, NEW t \in Tasks, send[t] \in SendRecord,
         KeepsAhead(t), Shape(t)
  PROVE  KeepsAhead(t)'
<1> USE DEF KeepsAhead
<1>1. CASE Anew(send'[t])
  <2>1. send'[t].rejected = Never
    BY <1>1 DEF Anew
  <2>2. pc'[t] = "post" => Never <= request'[t].sent
    BY DEF IInv, TypeOK, Never
  <2>3. QED
    BY <2>1, <2>2
<1>2. CASE Carries(t)
  <2>1. /\ send'[t].stage = "post" /\ send'[t].rejected = send[t].rejected
        /\ send'[t].carried = cachedToken' /\ cachedToken' \in Token
    BY <1>2 DEF Carries, Carrying, SendRecord
  <2>2. send[t].rejected # Never =>
            cachedToken' # NoToken /\ send[t].rejected <= cachedToken'.issued
    <3>1. CASE send[t].stage = "token" /\ send[t].rejected # Never
      <4>1. cachedToken # NoToken /\ send[t].rejected <= cachedToken.issued
        BY <3>1
      <4>2. cachedToken' # NoToken /\ cachedToken'.issued >= cachedToken.issued
        BY <4>1, CacheMovesForward
      <4>3. cachedToken.issued \in Nat /\ cachedToken'.issued \in Nat
        BY <4>1, <4>2 DEF IInv, TypeOK, Token
      <4>4. send[t].rejected \in Nat
        BY <3>1 DEF SendRecord
      <4>5. QED
        BY <4>1, <4>2, <4>3, <4>4
    <3>2. CASE send[t].stage = "refresh" /\ Receive(t)
      BY <3>2, ReplyIsNew
    <3>3. QED
      BY <1>2, <3>1, <3>2 DEF Carries
  <2>3. send[t].rejected # Never => send[t].rejected <= now'
    BY TimeMovesForward DEF SendRecord
  <2>4. QED
    BY <2>1, <2>2, <2>3
<1>3. CASE Retries(t)
  <2>1. /\ send'[t].stage = "refresh" /\ send'[t].rejected = now
        /\ Refresh(t)
    BY <1>3 DEF Retries, Retrying, SendRecord
  <2>2. now' = now /\ (pc'[t] = "post" => request'[t].sent = now)
    BY <2>1 DEF Refresh, EnterLock, SendRequest, IInv, TypeOK
  <2>3. now \in Nat
    BY DEF IInv, TypeOK
  <2>4. QED
    BY <2>1, <2>2, <2>3
<1>4. CASE Waits(t)
  <2>1. /\ send'[t].stage = "token" /\ send'[t].rejected = send[t].rejected
        /\ send[t].stage = "refresh" /\ Receive(t)
    BY <1>4 DEF Waits, SendRecord
  <2>2. cachedToken' # NoToken /\ send[t].rejected <= cachedToken'.issued
    BY <2>1, ReplyIsNew
  <2>3. send[t].rejected # Never => send[t].rejected <= now'
    BY TimeMovesForward DEF SendRecord
  <2>4. QED
    BY <2>1, <2>2, <2>3
<1>5. CASE Stays(t)
  <2>1. CASE ResumeRefresh(t)
    <3>1. request'[t].sent = now
      BY <2>1 DEF ResumeRefresh, SendRequest, IInv, TypeOK
    <3>2. QED
      BY <1>5, <3>1, StillAhead DEF Stays
  <2>2. CASE Issue(t) \/ UNCHANGED vars
    <3>1. pc'[t] = pc[t] /\ request'[t].sent = request[t].sent
      BY <2>2 DEF Issue, vars, IInv, TypeOK
    <3>2. QED
      BY <1>5, <3>1, StillAhead DEF Stays
  <2>3. CASE send[t].stage # "refresh"
    BY <1>5, <2>3, StillAhead DEF Stays
  <2>4. QED
    BY <1>5, <2>1, <2>2, <2>3 DEF Stays
<1>6. QED
  BY <1>1, <1>2, <1>3, <1>4, <1>5 DEF Shape

\* The strengthening is inductive.
LEMMA RetryStep ==
  ASSUME IInv, IInv', RetryInv, [SendNext]_allVars
  PROVE  RetryInv'
<1>1. [Next]_vars
  BY ManagerStep
<1>2. SendTypeOK' /\ HonestSends'
  BY HonestStep DEF RetryInv, IInv
<1>3. \A u \in Tasks : send[u] \in SendRecord /\ KeepsAhead(u)
  BY DEF RetryInv, SendTypeOK, RejectedBefore, AskedSince, CachedSince,
     RetryCarriesNewToken, KeepsAhead
<1>4. ASSUME NEW t \in Tasks, SendStep(t), NEW u \in Tasks PROVE KeepsAhead(u)'
  <2>1. Shape(t) /\ \A v \in Tasks \ {t} : send'[v] = send[v]
    BY <1>4, StepShape DEF RetryInv, IInv
  <2>2. CASE u = t
    BY <1>1, <1>3, <2>1, <2>2, ShapeKeepsAhead
  <2>3. CASE u # t
    <3>1. Step(t) \/ UNCHANGED vars
      BY <1>4, StepOfItsTask
    <3>2. pc'[u] = pc[u] /\ request'[u] = request[u]
      BY <2>3, <3>1, OtherTasksStay DEF IInv
    <3>3. QED
      BY <1>1, <1>3, <2>1, <2>3, <3>2, StillAhead
  <2>4. QED
    BY <2>2, <2>3
<1>5. ASSUME Clock \/ UNCHANGED allVars, NEW u \in Tasks PROVE KeepsAhead(u)'
  <2>1. UNCHANGED << send, pc, request >>
    BY <1>5 DEF Clock, Tick, allVars, vars
  <2>2. QED
    BY <1>1, <1>3, <2>1, StillAhead
<1>6. \A u \in Tasks : KeepsAhead(u)'
  BY <1>4, <1>5 DEF SendNext
<1>7. QED
  BY <1>2, <1>6 DEF RetryInv, RejectedBefore, AskedSince, CachedSince,
     RetryCarriesNewToken, KeepsAhead

\* The POST repeated after code 11244 carries a token issued after the
\* rejection, for any number of sends that refresh the same cache meanwhile.
THEOREM RetriesCarryNewTokens == SendSpec => []RetryCarriesNewToken
<1>1. SendInit => RetryInv
  BY NoSendTyped DEF SendInit, RetryInv, SendTypeOK, HonestSends, Honest, RejectedBefore,
     AskedSince, CachedSince, RetryCarriesNewToken, NoSend
<1>2. RetryInv => RetryCarriesNewToken
  BY DEF RetryInv
<1>3. QED
  BY <1>1, <1>2, RetryStep, ManagerInvariant, PTL DEF SendSpec

=============================================================================
