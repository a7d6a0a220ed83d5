--------------------------- MODULE FullGroupReply ---------------------------
(***************************************************************************)
(* runtime/full_group_reply.py, called by the handler of full group        *)
(* messages in main.py: for every message of a group that is not addressed *)
(* to the bot, decide whether the bot replies or only records it.          *)
(*                                                                         *)
(* The framework runs one task per message.  A task is interrupted only    *)
(* while it waits for its group's lock and while it waits for the judging  *)
(* model; each action is the code between two such points.  Random draws   *)
(* and the model's verdict are nondeterministic choices.                   *)
(***************************************************************************)
EXTENDS Integers, FiniteSets, AsyncioLock

CONSTANTS
    Groups,
    NumMessages,    \* messages 1..NumMessages reach the handler in this order
    Settings,       \* the configurations considered
    MaxTime         \* bound on the modelled clock

Messages == 1 .. NumMessages
Modes == {"normal", "all_as_at", "random_reply", "smart_reply", "smart_random"}

ASSUME SettingsAssumption ==
    /\ NumMessages \in Nat /\ MaxTime \in Nat
    /\ NoTask \notin Messages
    /\ Settings \subseteq [mode : Modes, ordered : BOOLEAN,
                           maxPending : Nat, cooldown : Nat]

VARIABLES
    settings,       \* _settings(): mode, per_group_ordered_decision, ...
    now,            \* time.monotonic()
    locks,          \* _locks, the lock of every group
    pending,        \* _pending
    lastReplyAt,    \* _last_reply_at
    pc,             \* where the task of each message is suspended
    group,          \* _key: the group a message that arrived belongs to
    outcome         \* what decide returned

vars == << settings, now, locks, pending, lastReplyAt, pc, group, outcome >>

Never == -1         \* no entry in _last_reply_at

Init ==
    /\ settings \in Settings
    /\ now = 0
    /\ locks = [g \in Groups |-> FreeLock]
    /\ pending = [g \in Groups |-> 0]
    /\ lastReplyAt = [g \in Groups |-> Never]
    /\ pc = [m \in Messages |-> "new"]
    /\ group \in [Messages -> Groups]
    /\ outcome = [m \in Messages |-> "none"]

-----------------------------------------------------------------------------

QueueIsFull(g) == settings.maxPending > 0 /\ pending[g] >= settings.maxPending

InCooldown(g) ==
    /\ settings.cooldown > 0
    /\ lastReplyAt[g] # Never
    /\ now - lastReplyAt[g] < settings.cooldown

\* _decide_unlocked up to the judging model: it suspends there ("judge"), or
\* ends with a reply or without ("pass": cooldown, a miss, no provider).
FirstStep(g) ==
    CASE settings.mode = "all_as_at"    -> {"reply"}
      [] settings.mode = "random_reply" -> IF InCooldown(g) THEN {"pass"} ELSE {"reply", "pass"}
      [] settings.mode = "smart_reply"  -> {"judge", "pass"}
      [] settings.mode = "smart_random" -> IF InCooldown(g) THEN {"pass"} ELSE {"judge", "pass"}
      [] OTHER                          -> {"pass"}

\* Mutant: smart_reply trusts a cooldown check made before the judgement.
SecondStepUnchecked(g) == {"reply", "pass"}

\* _decide_unlocked after the judging model, which may say no, fail, time out
\* or answer with no valid JSON ("pass").  Only smart_reply looks at the
\* cooldown here.
SecondStep(g) ==
    IF settings.mode = "smart_reply" /\ InCooldown(g) THEN {"pass"} ELSE {"reply", "pass"}

\* decide returns; _mark_reply before a positive decision.
Conclude(m, out) ==
    /\ pc' = [pc EXCEPT ![m] = "done"]
    /\ outcome' = [outcome EXCEPT ![m] = out]
    /\ lastReplyAt' = IF out = "reply" THEN [lastReplyAt EXCEPT ![group[m]] = now]
                                       ELSE lastReplyAt

Suspend(m, where) ==
    /\ pc' = [pc EXCEPT ![m] = where]
    /\ UNCHANGED << lastReplyAt, outcome >>

SetLock(g, lock) == locks' = [locks EXCEPT ![g] = lock]

Arrives(m) ==
    /\ pc[m] = "new"
    /\ \A k \in Messages : k < m => pc[k] # "new"

\* A message that is addressed to the bot (or to everybody) never reaches the
\* controller; in mode normal it returns at once, and so it does when too many
\* messages of the group are in line.
PassesBy(m) ==
    /\ Arrives(m)
    /\ \/ Conclude(m, "directed")
       \/ settings.mode = "normal" /\ Conclude(m, "pass")
       \/ settings.mode # "normal" /\ settings.ordered /\ QueueIsFull(group[m])
            /\ Conclude(m, "full")
    /\ UNCHANGED << settings, now, locks, pending, group >>

\* Without per-group order the decision starts at once.
StartsUnordered(m) ==
    /\ Arrives(m) /\ settings.mode # "normal" /\ ~settings.ordered
    /\ \E out \in FirstStep(group[m]) :
        IF out = "judge" THEN Suspend(m, "judge") ELSE Conclude(m, out)
    /\ UNCHANGED << settings, now, locks, pending, group >>

\* With per-group order it starts at once if the lock is free ...
StartsOrdered(m) ==
    /\ Arrives(m) /\ settings.mode # "normal" /\ settings.ordered
    /\ ~QueueIsFull(group[m])
    /\ Available(locks[group[m]])
    /\ \E out \in FirstStep(group[m]) :
        IF out = "judge"
        THEN /\ Suspend(m, "judge")
             /\ SetLock(group[m], Acquired(locks[group[m]], m))
             /\ pending' = [pending EXCEPT ![group[m]] = @ + 1]
        ELSE Conclude(m, out) /\ UNCHANGED << locks, pending >>
    /\ UNCHANGED << settings, now, group >>

\* ... and lines up otherwise.
LinesUp(m) ==
    /\ Arrives(m) /\ settings.mode # "normal" /\ settings.ordered
    /\ ~QueueIsFull(group[m])
    /\ ~Available(locks[group[m]])
    /\ Suspend(m, "queue")
    /\ SetLock(group[m], Queued(locks[group[m]], m))
    /\ pending' = [pending EXCEPT ![group[m]] = @ + 1]
    /\ UNCHANGED << settings, now, group >>

\* Mutant: the counter goes down also for messages that were never counted.
LeaveUncounted(m, lock) ==
    /\ IF settings.ordered THEN SetLock(group[m], Released(lock)) ELSE UNCHANGED locks
    /\ pending' = [pending EXCEPT ![group[m]] = @ - 1]

\* The `finally` of decide and the end of `async with`: what the lock becomes
\* and what the counter becomes once m has left.
Leave(m, lock) ==
    IF settings.ordered
    THEN /\ SetLock(group[m], Released(lock))
         /\ pending' = [pending EXCEPT ![group[m]] = @ - 1]
    ELSE UNCHANGED << locks, pending >>

\* The released lock goes to the message that has waited longest.
Resumes(m) ==
    LET lock == locks[group[m]] IN
    /\ Wakes(lock, m)
    /\ \E out \in FirstStep(group[m]) :
        IF out = "judge"
        THEN /\ Suspend(m, "judge")
             /\ SetLock(group[m], Resumed(lock, m))
             /\ UNCHANGED pending
        ELSE Conclude(m, out) /\ Leave(m, Resumed(lock, m))
    /\ UNCHANGED << settings, now, group >>

\* The judging model answers, fails or times out.
Judged(m) ==
    /\ pc[m] = "judge"
    /\ \E out \in SecondStep(group[m]) : Conclude(m, out)
    /\ Leave(m, locks[group[m]])
    /\ UNCHANGED << settings, now, group >>

\* Mutant: no try/finally around the decision.
JudgeCancelledLeaking(m) ==
    /\ pc[m] = "judge"
    /\ Conclude(m, "raised")
    /\ SetLock(group[m], Released(locks[group[m]]))
    /\ UNCHANGED << settings, now, group, pending >>

\* Mutant: the lock is not released on that path.
JudgeCancelledHolding(m) ==
    /\ pc[m] = "judge"
    /\ Conclude(m, "raised")
    /\ pending' = [pending EXCEPT ![group[m]] = @ - 1]
    /\ UNCHANGED << settings, now, group, locks >>

\* A CancelledError out of the provider's client is no Exception: it leaves
\* decide through its `finally`, and the handler with it.
JudgeCancelled(m) ==
    /\ pc[m] = "judge"
    /\ Conclude(m, "raised")
    /\ Leave(m, locks[group[m]])
    /\ UNCHANGED << settings, now, group >>

Tick ==
    /\ now < MaxTime
    /\ now' = now + 1
    /\ UNCHANGED << settings, locks, pending, lastReplyAt, pc, group, outcome >>

Step(m) ==
    \/ PassesBy(m) \/ StartsUnordered(m) \/ StartsOrdered(m) \/ LinesUp(m)
    \/ Resumes(m) \/ Judged(m) \/ JudgeCancelled(m)

Terminated == now = MaxTime /\ \A m \in Messages : pc[m] = "done"
Done == Terminated /\ UNCHANGED vars

Next == Tick \/ Done \/ \E m \in Messages : Step(m)

\* The event loop runs the waiter that a release wakes; wait_for ends the
\* judgement after smart_judge_timeout_seconds.
Fairness == \A m \in Messages :
    WF_vars(Resumes(m)) /\ WF_vars(Judged(m) \/ JudgeCancelled(m))

Spec == Init /\ [][Next]_vars
FairSpec == Spec /\ Fairness

-----------------------------------------------------------------------------

\* The types, in particular a counter that never goes below zero.
TypeOK ==
    /\ settings \in Settings
    /\ now \in Nat
    /\ locks \in [Groups -> [holder : Messages \cup {NoTask}, waiters : Seq(Messages)]]
    /\ pending \in [Groups -> Nat]
    /\ lastReplyAt \in [Groups -> Nat \cup {Never}]
    /\ pc \in [Messages -> {"new", "queue", "judge", "done"}]
    /\ group \in [Messages -> Groups]
    /\ outcome \in [Messages ->
                    {"none", "directed", "full", "pass", "reply", "raised"}]

\* The messages of group g whose task is inside the ordered part of decide.
InLine(g) == {m \in Messages : group[m] = g /\ pc[m] \in {"queue", "judge"}}

\* With per-group order, no two messages of a group are with the judging model
\* together: whoever is there holds the lock of its group.
OneDecisionPerGroup ==
    settings.ordered =>
        \A m \in Messages : pc[m] = "judge" => locks[group[m]].holder = m

\* With per-group order the messages of a group are decided in the order in
\* which they arrived, also when a judgement is cancelled or times out and when
\* newcomers arrive between a release and the moment the woken task runs.
DecidedInOrder ==
    settings.ordered =>
        \A m, n \in Messages :
            group[m] = group[n] /\ m < n /\ pc[m] \in {"queue", "judge"}
                => outcome[n] \notin {"reply", "pass", "raised"} /\ pc[n] # "judge"

\* The counter behind max_pending_per_group is the number of tasks really in
\* line, on every way out of decide, and that number stays within the bound.
PendingIsTheLine ==
    settings.ordered =>
        \A g \in Groups :
            /\ pending[g] = Cardinality(InLine(g))
            /\ settings.maxPending > 0 => pending[g] <= settings.maxPending

\* m is answered in this step although its group had a reply less than a
\* cooldown ago.
TooSoon(m) == outcome[m] # "reply" /\ outcome'[m] = "reply" /\ InCooldown(group[m])

\* Two replies of a group are at least a cooldown apart, in every mode that has
\* a cooldown: smart_reply checks after the judgement, smart_random needs the
\* per-group order because it checks only before it.
RepliesKeepCooldown ==
    [][settings.mode # "all_as_at" /\ (settings.ordered \/ settings.mode # "smart_random")
        => \A m \in Messages : ~TooSoon(m)]_vars

\* What docs/full_group_reply_modes.md says of smart_cooldown_seconds, with no
\* condition on per_group_ordered_decision: after a reply the group gets no
\* other for that long.
DocumentedCooldown ==
    [][settings.mode \in {"smart_reply", "smart_random"}
        => \A m \in Messages : ~TooSoon(m)]_vars

\* Every message that reached the handler gets its decision: no wakeup is lost
\* and no leaked lock or counter keeps a group silent.
EveryMessageIsDecided == \A m \in Messages : pc[m] # "new" ~> pc[m] = "done"

=============================================================================
