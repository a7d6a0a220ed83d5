------------------------------ MODULE Sending ------------------------------
(***************************************************************************)
(* runtime/sender.py over runtime/token_manager.py: coroutines that send   *)
(* messages through the REST API at the same time.  _post_url fetches a    *)
(* token, posts, and when the API calls the token expired it forces a      *)
(* refresh and posts once more; send_text_prefer_markdown falls back from  *)
(* markdown to plain text, send_media uploads before it sends.             *)
(*                                                                         *)
(* A send is a task of the token manager: its steps there are the actions  *)
(* of TokenManager.  The API (external) is free in what it answers, except *)
(* that a refusal means that nothing was shown, and that a token past its  *)
(* life is never accepted.                                                 *)
(***************************************************************************)
EXTENDS TokenManager

VARIABLE
    send            \* what each task is sending

allVars == << vars, send >>

Posts == {"markdown", "plain", "upload", "media"}

\* SendResult, by what it tells the caller:
\*   "ok"       a 2xx status
\*   "ignored"  a code of _IGNORE_ERROR_CODES
\*   "format"   an error of the message itself: a code of
\*              _MARKDOWN_FALLBACK_ERROR_CODES, or a 4xx status
\*   "refused"  401, 403, 404, 405, 429, an expired token, a failed upload
\*   "doubtful" no token, no answer, a 5xx status, no JSON, a code with a 2xx
\*              status (held for audit): the message may have been shown
Verdicts == {"ok", "ignored", "format", "refused", "doubtful"}

Never == -1         \* no POST of this message was rejected

SendRecord ==
    [stage : {"idle", "token", "post", "refresh", "done"}, post : Posts,
     fallback : BOOLEAN, retry : {0, 1}, carried : Token \cup {NoToken},
     rejected : Nat \cup {Never}, shown : Nat, result : Verdicts \cup {"none"}]

NoSend == [stage |-> "idle", post |-> "plain", fallback |-> FALSE, retry |-> 1,
           carried |-> NoToken, rejected |-> Never, shown |-> 0, result |-> "none"]

\* What a caller may ask for: a text without markdown, with markdown and with
\* or without a fallback, or media.
Requests ==
    {[NoSend EXCEPT !.stage = "token", !.post = post] :
        post \in {"plain", "markdown", "upload"}}
    \cup {[NoSend EXCEPT !.stage = "token", !.post = "markdown", !.fallback = TRUE]}

SendInit == Init /\ send = [t \in Tasks |-> NoSend]

-----------------------------------------------------------------------------

Set(t, s) == send' = [send EXCEPT ![t] = s]

\* The send s of t goes out in a POST with this token.
Carrying(s, token) == [s EXCEPT !.stage = "post", !.carried = token]

\* auth_headers for the next POST of s: the cached token is there at once,
\* otherwise t goes into the token manager.
Post(t, s) ==
    \/ Fresh /\ Set(t, Carrying(s, cachedToken)) /\ UNCHANGED vars
    \/ GetToken(t) /\ Set(t, s)

\* The next POST of the same send: _post with retry=1.
Following(t, post, n) ==
    [NoSend EXCEPT !.stage = "token", !.post = post, !.shown = send[t].shown + n]

\* The send is over.
Finished(t, result, n) ==
    [NoSend EXCEPT !.stage = "done", !.result = result, !.shown = send[t].shown + n]

\* Mutant: an unclear outcome is downgraded as well.
DowngradesOnDoubt(t, verdict) ==
    send[t].post = "markdown" /\ send[t].fallback /\ verdict \in {"format", "doubtful"}

\* allow_markdown_fallback and should_downgrade_markdown_to_plain.
Downgrades(t, verdict) ==
    send[t].post = "markdown" /\ send[t].fallback /\ verdict = "format"

\* Mutant: a POST without a clear answer is simply repeated.
ConcludedByRepeating(t, verdict, n) ==
    IF Downgrades(t, verdict) THEN Following(t, "plain", n)
    ELSE IF send[t].post = "upload"
    THEN IF verdict = "ok" THEN Following(t, "media", n) ELSE Finished(t, "refused", 0)
    ELSE IF verdict = "doubtful" /\ send[t].retry > 0
    THEN [Following(t, send[t].post, n) EXCEPT !.retry = 0]
    ELSE Finished(t, verdict, n)

\* What becomes of the send when its POST has this verdict, n messages having
\* been shown by it.
Concluded(t, verdict, n) ==
    IF Downgrades(t, verdict) THEN Following(t, "plain", n)
    ELSE IF send[t].post = "upload"
    THEN IF verdict = "ok" THEN Following(t, "media", n) ELSE Finished(t, "refused", 0)
    ELSE Finished(t, verdict, n)

\* A caller sends a text, with markdown preferred or not, or media.
StartSend(t) == send[t].stage = "idle" /\ \E s \in Requests : Post(t, s)

\* get_token returns after it has waited.
HeadersReady(t) ==
    /\ send[t].stage = "token"
    /\ ResumeFresh(t) \/ Receive(t)
    /\ Set(t, Carrying(send[t], cachedToken'))

\* TokenManagerError in auth_headers.
NoHeaders(t) ==
    /\ send[t].stage = "token" /\ Fail(t)
    /\ Set(t, Concluded(t, "doubtful", 0))

\* What the API may answer to the POST of t.
Answers(t) ==
    {a \in [verdict : Verdicts, n : {0, 1}] :
        /\ a.n = 1 => send[t].post # "upload" /\ now < send[t].carried.dies
        /\ a.verdict = "ok" => now < send[t].carried.dies
        /\ a.verdict = "ok" /\ send[t].post # "upload" => a.n = 1
        /\ a.verdict \in {"ignored", "format", "refused"} => a.n = 0}

\* An answer that ends this POST: the send is over or makes its next POST.
Answered(t) ==
    /\ send[t].stage = "post"
    /\ \E a \in Answers(t) :
        LET s == Concluded(t, a.verdict, a.n) IN
        \/ s.stage = "done" /\ Set(t, s) /\ UNCHANGED vars
        \/ s.stage = "token" /\ Post(t, s)

\* Code 11244 for the second time.
RejectedAgain(t) ==
    /\ send[t].stage = "post" /\ send[t].retry = 0
    /\ Set(t, Concluded(t, "refused", 0))
    /\ UNCHANGED vars

\* Mutant: the retries are not counted.
RetryingForEver(t) ==
    [send[t] EXCEPT !.stage = "refresh", !.carried = NoToken, !.rejected = now]

\* What the send remembers over the refresh.
Retrying(t) ==
    [send[t] EXCEPT !.stage = "refresh", !.retry = @ - 1, !.carried = NoToken,
                    !.rejected = now]

\* Mutant: the token is only refreshed if it looks stale.
RejectedKeepingFresh(t) ==
    /\ send[t].stage = "post" /\ send[t].retry > 0
    /\ \/ Fresh /\ Set(t, Carrying(Retrying(t), cachedToken)) /\ UNCHANGED vars
       \/ ~Fresh /\ Refresh(t) /\ Set(t, Retrying(t))

\* Mutant: retry is counted down without being looked at.
RejectedUnguarded(t) ==
    /\ send[t].stage = "post"
    /\ Refresh(t) /\ Set(t, Retrying(t))

\* Code 11244: force a refresh.
Rejected(t) ==
    /\ send[t].stage = "post" /\ send[t].retry > 0
    /\ Refresh(t) /\ Set(t, Retrying(t))

\* refresh() returns and _post_url is entered again: it finds the token that was
\* just fetched, unless its life is too short to be served.
Refreshed(t) ==
    /\ send[t].stage = "refresh" /\ Receive(t)
    /\ Set(t, IF Fresh' THEN Carrying(send[t], cachedToken')
              ELSE [send[t] EXCEPT !.stage = "token"])

\* In that case it asks for another one.  (The event loop lets nobody in between
\* the two; a step of its own only adds interleavings.)
AsksAgain(t) ==
    /\ send[t].stage = "token" /\ pc[t] = "idle"
    /\ Post(t, send[t])

\* TokenManagerError in refresh().
NotRefreshed(t) ==
    /\ send[t].stage = "refresh" /\ Fail(t)
    /\ Set(t, Concluded(t, "doubtful", 0))

\* Steps inside the token manager.
TokenStep(t) == (ResumeRefresh(t) \/ Issue(t)) /\ UNCHANGED send

Clock == Tick /\ UNCHANGED send

SendStep(t) ==
    \/ StartSend(t) \/ HeadersReady(t) \/ NoHeaders(t) \/ AsksAgain(t)
    \/ Answered(t) \/ Rejected(t) \/ RejectedAgain(t) \/ Refreshed(t) \/ NotRefreshed(t)
    \/ TokenStep(t)

SendNext == Clock \/ \E t \in Tasks : SendStep(t)

\* The event loop runs what is ready; the POSTs end by their timeouts.
SendFairness == \A t \in Tasks :
    /\ WF_allVars(AsksAgain(t))
    /\ WF_allVars(ResumeRefresh(t) /\ UNCHANGED send)
    /\ WF_allVars(HeadersReady(t) \/ NoHeaders(t) \/ Refreshed(t) \/ NotRefreshed(t))
    /\ WF_allVars(Answered(t) \/ Rejected(t) \/ RejectedAgain(t))

SendSpec == SendInit /\ [][SendNext]_allVars
FairSendSpec == SendSpec /\ SendFairness

-----------------------------------------------------------------------------

\* Every send keeps its type; there is never more than one retry to count down.
SendTypeOK == send \in [Tasks -> SendRecord]

\* However its POSTs are retried and downgraded, a send shows at most one
\* message: a second POST is made only after one that certainly showed nothing.
ShownAtMostOnce == \A t \in Tasks : send[t].shown <= 1

\* The result tells the caller what happened: success means that the message was
\* shown, and any error but a doubtful one that it was not, whichever of the
\* POSTs the result is from.
ResultIsTrue == \A t \in Tasks :
    /\ send[t].result = "ok" => send[t].shown = 1
    /\ send[t].result \in {"ignored", "format", "refused"} => send[t].shown = 0

\* The POST that is repeated after code 11244 carries a token issued after that
\* rejection, although other sends refresh the same cache meanwhile: the one
\* retry is never wasted on the token that was just rejected.
RetryCarriesNewToken == \A t \in Tasks :
    send[t].stage = "post" /\ send[t].rejected # Never
        => send[t].carried # NoToken /\ send[t].rejected <= send[t].carried.issued

\* Every send ends, however often its tokens are rejected.
EverySendEnds == \A t \in Tasks : send[t].stage # "idle" ~> send[t].stage = "done"

=============================================================================
