------------------------ MODULE FullGroupReplyProofs ------------------------
(***************************************************************************)
(* Theorems of FullGroupReply for every set of groups, number of messages  *)
(* and set of configurations.                                              *)
(*                                                                         *)
(* What a message does to the line of its group is one of five moves;      *)
(* every step of decide is shown to be one of them, and the invariants of  *)
(* the line are proved of the moves.                                       *)
(***************************************************************************)
EXTENDS FullGroupReply, FiniteSetTheorems, TLAPS

Lock == [holder : Messages \cup {NoTask}, waiters : Seq(Messages)]

Inside == {"queue", "judge"}

\* A message passes without entering the line.
Passed(m) ==
    /\ Arrives(m) /\ pc' = [pc EXCEPT ![m] = "done"]
    /\ UNCHANGED << locks, pending >>

\* It enters the line: with room, and at the free lock or behind the others.
Entered(m, where, lock) ==
    /\ Arrives(m) /\ pc' = [pc EXCEPT ![m] = where]
    /\ locks' = [locks EXCEPT ![group[m]] = lock]
    /\ pending' = [pending EXCEPT ![group[m]] = @ + 1]
    /\ settings.ordered /\ ~QueueIsFull(group[m])
    /\ \/ where = "judge" /\ Available(locks[group[m]])
            /\ lock = Acquired(locks[group[m]], m)
       \/ where = "queue" /\ lock = Queued(locks[group[m]], m)

\* It is the first in line, gets the lock and is judged.
Admitted(m) ==
    /\ Wakes(locks[group[m]], m)
    /\ pc' = [pc EXCEPT ![m] = "judge"]
    /\ locks' = [locks EXCEPT ![group[m]] = Resumed(@, m)]
    /\ UNCHANGED pending

\* It leaves the line, from its head or as the holder of the lock.
LeftLine(m) ==
    /\ settings.ordered
    /\ pc' = [pc EXCEPT ![m] = "done"]
    /\ pending' = [pending EXCEPT ![group[m]] = @ - 1]
    /\ \/ /\ Wakes(locks[group[m]], m)
          /\ locks' = [locks EXCEPT ![group[m]] = Released(Resumed(@, m))]
       \/ /\ pc[m] = "judge"
          /\ locks' = [locks EXCEPT ![group[m]] = Released(@)]

\* Without order it is judged beside any other.
Alone(m) ==
    /\ ~settings.ordered
    /\ \/ Arrives(m) /\ pc' = [pc EXCEPT ![m] = "judge"]
       \/ pc[m] = "judge" /\ pc' = [pc EXCEPT ![m] = "done"]
    /\ UNCHANGED << locks, pending >>

Moves(m) ==
    \/ Passed(m) \/ Admitted(m) \/ LeftLine(m) \/ Alone(m)
    \/ \E where \in Inside : \E lock \in Lock : Entered(m, where, lock)

-----------------------------------------------------------------------------
(* The inductive invariant. *)

\* The tables have their types; of pending only that it holds integers.
LineTypes ==
    /\ settings \in Settings
    /\ now \in Nat
    /\ locks \in [Groups -> Lock]
    /\ pending \in [Groups -> Int]
    /\ lastReplyAt \in [Groups -> Nat \cup {Never}]
    /\ pc \in [Messages -> {"new", "queue", "judge", "done"}]
    /\ group \in [Messages -> Groups]
    /\ outcome \in [Messages ->
                    {"none", "directed", "full", "pass", "reply", "raised"}]

\* Without order nobody touches the locks and the counters.
LineUnused == ~settings.ordered =>
    \A g \in Groups : locks[g] = FreeLock /\ pending[g] = 0

HolderIsJudged == \A g \in Groups :
    locks[g].holder # NoTask =>
        group[locks[g].holder] = g /\ pc[locks[g].holder] = "judge"

WaitersQueue == \A g \in Groups : \A i \in DOMAIN locks[g].waiters :
    LET m == locks[g].waiters[i] IN group[m] = g /\ pc[m] = "queue"

QueuedWait == \A m \in Messages : pc[m] = "queue" =>
    \E i \in DOMAIN locks[group[m]].waiters : locks[group[m]].waiters[i] = m

\* The line is in the order of arrival, its holder in front.
LineInOrder == \A g \in Groups :
    /\ \A i, j \in DOMAIN locks[g].waiters :
        i < j => locks[g].waiters[i] < locks[g].waiters[j]
    /\ locks[g].holder # NoTask => \A i \in DOMAIN locks[g].waiters :
        locks[g].holder < locks[g].waiters[i]

ArrivedInOrder == \A m, n \in Messages : m < n /\ pc[m] = "new" => pc[n] = "new"

Line ==
    /\ OneDecisionPerGroup
    /\ LineUnused
    /\ HolderIsJudged
    /\ WaitersQueue
    /\ QueuedWait
    /\ LineInOrder
    /\ ArrivedInOrder

Undecided == \A m \in Messages : pc[m] # "done" => outcome[m] = "none"

NormalIsIdle == settings.mode = "normal" => \A m \in Messages : pc[m] \in {"new", "done"}

OnlySmartJudges == \A m \in Messages :
    pc[m] = "judge" => settings.mode \in {"smart_reply", "smart_random"}

\* While smart_random judges a message its group has no reply in the cooldown.
CooldownIsHeld ==
    settings.ordered /\ settings.mode = "smart_random" =>
        \A m \in Messages : pc[m] = "judge" => ~InCooldown(group[m])

IInv ==
    /\ LineTypes
    /\ Line
    /\ PendingIsTheLine
    /\ Undecided
    /\ NormalIsIdle
    /\ OnlySmartJudges
    /\ DecidedInOrder
    /\ CooldownIsHeld

-----------------------------------------------------------------------------

\* Every step of one message is a move, and keeps the configuration.
LEMMA StepMoves ==
  ASSUME LineTypes, Line, NEW m \in Messages, Step(m)
  PROVE  Moves(m) /\ UNCHANGED << settings, now, group >>
<1> USE SettingsAssumption DEF LineTypes, Moves
<1>1. group[m] \in Groups /\ locks[group[m]] \in Lock
  OBVIOUS
<1>2. CASE PassesBy(m)
  BY <1>2 DEF PassesBy, Arrives, Conclude, Passed
<1>3. CASE StartsUnordered(m)
  BY <1>3 DEF StartsUnordered, Arrives, Conclude, Suspend, Passed, Alone
<1>4. CASE StartsOrdered(m)
  <2>1. Acquired(locks[group[m]], m) \in Lock
    BY <1>1 DEF Acquired, Lock
  <2>2. Passed(m) \/ Entered(m, "judge", Acquired(locks[group[m]], m))
    BY <1>4 DEF StartsOrdered, Arrives, Conclude, Suspend, SetLock, Passed, Entered
  <2>3. QED
    BY <1>4, <2>1, <2>2 DEF StartsOrdered, Inside
<1>5. CASE LinesUp(m)
  <2>1. Append(locks[group[m]].waiters, m) \in Seq(Messages)
    BY <1>1 DEF Lock
  <2>2. Queued(locks[group[m]], m) \in Lock
    BY <1>1, <2>1 DEF Queued, Lock
  <2>3. Entered(m, "queue", Queued(locks[group[m]], m))
    BY <1>5 DEF LinesUp, Arrives, Suspend, SetLock, Entered
  <2>4. QED
    BY <1>5, <2>2, <2>3 DEF LinesUp, Inside
<1>6. CASE Resumes(m)
  <2>1. settings.ordered
    BY <1>1, <1>6 DEF Resumes, Wakes, Line, LineUnused, FreeLock
  <2>2. Admitted(m) \/ LeftLine(m)
    BY <1>1, <1>6, <2>1
      DEF Resumes, Leave, Suspend, Conclude, SetLock, Admitted, LeftLine
  <2>3. QED
    BY <1>6, <2>2 DEF Resumes
<1>7. CASE Judged(m)
  BY <1>1, <1>7 DEF Judged, Leave, Conclude, SetLock, LeftLine, Alone
<1>8. CASE JudgeCancelled(m)
  BY <1>1, <1>8 DEF JudgeCancelled, Leave, Conclude, SetLock, LeftLine, Alone
<1>9. QED
  BY <1>2, <1>3, <1>4, <1>5, <1>6, <1>7, <1>8 DEF Step

\* The waiter that a release wakes is the first of its group's line.
LEMMA WokenIsQueued ==
  ASSUME LineTypes, Line, NEW m \in Messages, Wakes(locks[group[m]], m)
  PROVE  pc[m] = "queue"
<1> DEFINE w == locks[group[m]].waiters
<1>1. group[m] \in Groups /\ w \in Seq(Messages)
  BY DEF LineTypes, Lock
<1>2. 1 \in DOMAIN w /\ w[1] = m
  BY <1>1 DEF Wakes
<1>3. QED
  BY <1>1, <1>2 DEF Line, WaitersQueue

\* Every move keeps the tables of the line typed and the line in order.
LEMMA MovesKeepLine ==
  ASSUME LineTypes, Line, NEW m \in Messages, Moves(m),
         UNCHANGED << settings, now, group >>
  PROVE  /\ Line'
         /\ locks' \in [Groups -> Lock] /\ pending' \in [Groups -> Int]
         /\ pc' \in [Messages -> {"new", "queue", "judge", "done"}]
<1> DEFINE g == group[m]
<1> USE SettingsAssumption DEF LineTypes
<1>1. /\ g \in Groups /\ locks[g] \in Lock
      /\ \A h \in Groups : locks[h] \in Lock
      /\ NoTask \notin Messages
  OBVIOUS
<1>2. locks' \in [Groups -> Lock]
  <2>1. Wakes(locks[g], m) => Tail(locks[g].waiters) \in Seq(Messages)
    BY <1>1 DEF Wakes, Lock
  <2>2. Wakes(locks[g], m) => Resumed(locks[g], m) \in Lock
    BY <2>1 DEF Resumed, Lock
  <2>3. \A lock \in Lock : Released(lock) \in Lock
    BY DEF Released, Lock
  <2>4. QED
    BY <1>1, <2>2, <2>3 DEF Moves, Passed, Entered, Admitted, LeftLine, Alone
<1>3. /\ pending' \in [Groups -> Int]
       /\ pc' \in [Messages -> {"new", "queue", "judge", "done"}]
  BY <1>1 DEF Moves, Passed, Entered, Admitted, LeftLine, Alone, Inside
<1>4. SUFFICES Line'
  BY <1>2, <1>3
<1>5. ArrivedInOrder'
  <2>1. pc[m] = "new" => Arrives(m)
    <3>1. Wakes(locks[g], m) => pc[m] = "queue"
      BY <1>1, WokenIsQueued
    <3>2. QED
      BY <3>1 DEF Moves, Passed, Entered, Admitted, LeftLine, Alone
  <2>2. \A k \in Messages : k # m => pc'[k] = pc[k]
    BY DEF Moves, Passed, Entered, Admitted, LeftLine, Alone
  <2>3. pc'[m] # "new"
    BY DEF Moves, Passed, Entered, Admitted, LeftLine, Alone, Inside
  <2>4. QED
    BY <2>1, <2>2, <2>3 DEF Arrives, Line, ArrivedInOrder
<1>6. CASE Passed(m)
  BY <1>5, <1>6
    DEF Passed, Arrives, Line, OneDecisionPerGroup, LineUnused, HolderIsJudged, WaitersQueue,
        QueuedWait, LineInOrder, Lock
<1>7. CASE Alone(m)
  <2>1. locks' = locks /\ pending' = pending /\ \A h \in Groups : locks[h] = FreeLock
    BY <1>7 DEF Alone, Line, LineUnused
  <2>2. pc[m] # "queue" /\ \A k \in Messages : pc'[k] = "queue" => pc[k] = "queue"
    BY <1>7 DEF Alone, Arrives
  <2>3. QED
    BY <1>5, <1>7, <2>1, <2>2
      DEF Alone, Line, OneDecisionPerGroup, LineUnused, HolderIsJudged, WaitersQueue,
          QueuedWait, LineInOrder, FreeLock
<1>8. ASSUME NEW where \in Inside, NEW lock \in Lock, Entered(m, where, lock)
      PROVE  Line'
  <2>1. /\ pc[m] = "new" /\ settings.ordered
        /\ locks' = [locks EXCEPT ![g] = lock]
        /\ pc' = [pc EXCEPT ![m] = where]
    BY <1>8 DEF Entered, Arrives
  <2>2. CASE where = "judge" /\ Available(locks[g]) /\ lock = Acquired(locks[g], m)
    <3>1. lock.holder = m /\ lock.waiters = << >> /\ locks[g].holder = NoTask
          /\ locks[g].waiters = << >>
      BY <1>1, <2>2 DEF Available, Acquired, Lock
    <3>2. QED
      BY <1>1, <1>5, <2>1, <2>2, <3>1
        DEF Line, OneDecisionPerGroup, LineUnused, HolderIsJudged, WaitersQueue,
            QueuedWait, LineInOrder, Lock
  <2>3. CASE where = "queue" /\ lock = Queued(locks[g], m)
    <3> DEFINE w == locks[g].waiters
    <3>1. lock.holder = locks[g].holder /\ lock.waiters = Append(w, m) /\ w \in Seq(Messages)
      BY <1>1, <2>3 DEF Queued, Lock
    <3>2. /\ DOMAIN lock.waiters = DOMAIN w \cup {Len(w) + 1}
          /\ \A i \in DOMAIN w : lock.waiters[i] = w[i] /\ i < Len(w) + 1
          /\ lock.waiters[Len(w) + 1] = m
      BY <1>1, <3>1
    <3> HIDE DEF w
    <3>3. OneDecisionPerGroup' /\ LineUnused' /\ HolderIsJudged'
      BY <1>1, <2>1, <2>3, <3>1
        DEF Line, OneDecisionPerGroup, LineUnused, HolderIsJudged, Lock
    <3>4. WaitersQueue'
      <4>1. \A h \in Groups : \A i \in DOMAIN locks[h].waiters :
              /\ locks[h].waiters[i] \in Messages \ {m}
              /\ group[locks[h].waiters[i]] = h /\ pc[locks[h].waiters[i]] = "queue"
        BY <1>1, <2>1 DEF Line, WaitersQueue, Lock
      <4>2. \A k \in Messages \ {m} : pc'[k] = pc[k]
        BY <2>1
      <4>3. \A h \in Groups \ {g} : locks'[h] = locks[h]
        BY <2>1
      <4>4. locks'[g].waiters = lock.waiters /\ pc'[m] = "queue"
        BY <1>1, <2>1, <2>3
      <4>5. \A i \in DOMAIN locks'[g].waiters :
              group[locks'[g].waiters[i]] = g /\ pc'[locks'[g].waiters[i]] = "queue"
        <5>1. \A i \in DOMAIN w : w[i] \in Messages \ {m} /\ group[w[i]] = g /\ pc[w[i]] = "queue"
          BY <1>1, <4>1 DEF w
        <5>2. \A i \in DOMAIN lock.waiters :
                group[lock.waiters[i]] = g /\ pc'[lock.waiters[i]] = "queue"
          BY <3>2, <4>2, <4>4, <5>1
        <5>3. QED
          BY <4>4, <5>2
      <4>6. QED
        BY <4>1, <4>2, <4>3, <4>5 DEF WaitersQueue
    <3>5. QueuedWait'
      BY <1>1, <2>1, <2>3, <3>2 DEF Line, QueuedWait, Lock, w
    <3>6. \A k \in Messages : pc[k] \in Inside => k < m
      BY <1>8 DEF Entered, Arrives, Inside, Line, ArrivedInOrder, Messages
    <3>7. LineInOrder'
      <4>1. \A i \in DOMAIN w : w[i] \in Messages /\ pc[w[i]] = "queue"
        BY <1>1, <3>1 DEF Line, WaitersQueue, w
      <4>2. \A i \in DOMAIN w : w[i] < m
        BY <3>6, <4>1 DEF Inside
      <4>3. locks[g].holder # NoTask => locks[g].holder < m
        BY <1>1, <3>6 DEF Line, HolderIsJudged, Lock, Inside
      <4>4. \A i, j \in DOMAIN lock.waiters : i < j => lock.waiters[i] < lock.waiters[j]
        <5>1. Len(w) \in Nat /\ DOMAIN w = 1 .. Len(w)
          BY <3>1
        <5>2. \A i, j \in DOMAIN w : i < j => w[i] < w[j]
          BY <1>1 DEF Line, LineInOrder, w
        <5>3. QED
          BY <3>2, <4>2, <5>1, <5>2
      <4>5. lock.holder # NoTask => \A i \in DOMAIN lock.waiters : lock.holder < lock.waiters[i]
        BY <1>1, <3>1, <3>2, <4>3 DEF Line, LineInOrder, w
      <4>6. QED
        BY <1>1, <2>1, <4>4, <4>5 DEF Line, LineInOrder
    <3>8. QED
      BY <1>5, <3>3, <3>4, <3>5, <3>7 DEF Line
  <2>4. QED
    BY <1>8, <2>2, <2>3 DEF Entered
<1>9. ASSUME Wakes(locks[g], m), NEW lock \in Lock,
             lock.waiters = Tail(locks[g].waiters), lock.holder \in {m, NoTask},
             locks' = [locks EXCEPT ![g] = lock],
             pc' = [pc EXCEPT ![m] = IF lock.holder = m THEN "judge" ELSE "done"],
             settings.ordered
      PROVE  Line'
  <2> DEFINE w == locks[g].waiters
             v == lock.waiters
  <2>1. w \in Seq(Messages) /\ w # << >> /\ w[1] = m /\ locks[g].holder = NoTask
    BY <1>1, <1>9 DEF Wakes, Lock
  <2>2. /\ v \in Seq(Messages) /\ Len(w) \in Nat /\ DOMAIN w = 1 .. Len(w)
        /\ DOMAIN v = 1 .. (Len(w) - 1)
        /\ \A i \in DOMAIN v : i + 1 \in DOMAIN w /\ v[i] = w[i + 1]
    BY <1>9, <2>1
  <2>3. \A i \in DOMAIN w : w[i] \in Messages /\ group[w[i]] = g /\ pc[w[i]] = "queue"
    BY <1>1, <2>1 DEF Line, WaitersQueue
  <2>4. \A i, j \in DOMAIN w : i < j => w[i] < w[j]
    BY <1>1 DEF Line, LineInOrder
  <2>5. locks'[g].waiters = v /\ locks'[g].holder = lock.holder
        /\ \A h \in Groups \ {g} : locks'[h] = locks[h]
    BY <1>1, <1>9
  <2> HIDE DEF w, v
  <2>6. \A i \in DOMAIN v : v[i] \in Messages /\ group[v[i]] = g /\ pc[v[i]] = "queue"
                            /\ m < v[i] /\ v[i] # m
    <3>1. SUFFICES ASSUME NEW i \in DOMAIN v
                   PROVE  v[i] \in Messages /\ group[v[i]] = g /\ pc[v[i]] = "queue"
                          /\ m < v[i] /\ v[i] # m
      OBVIOUS
    <3>2. i + 1 \in DOMAIN w /\ 1 \in DOMAIN w /\ 1 < i + 1 /\ v[i] = w[i + 1]
      BY <2>1, <2>2
    <3>3. m < v[i] /\ v[i] \in Messages
      BY <2>1, <2>3, <2>4, <3>2
    <3>4. QED
      BY <2>3, <3>2, <3>3 DEF Messages
  <2>7. pc[m] = "queue" /\ \A k \in Messages \ {m} : pc'[k] = pc[k]
    BY <1>9, WokenIsQueued
  <2>8. \A h \in Groups : locks[h].holder # m
    BY <1>1, <2>7 DEF Line, HolderIsJudged, Lock
  <2>9. OneDecisionPerGroup'
    BY <1>1, <1>9, <2>1, <2>5, <2>7 DEF Line, OneDecisionPerGroup
  <2>10. LineUnused'
    BY <1>9 DEF LineUnused
  <2>11. HolderIsJudged'
    BY <1>1, <1>9, <2>5, <2>7, <2>8 DEF Line, HolderIsJudged, Lock
  <2>12. WaitersQueue'
    <3>1. \A i \in DOMAIN v : group[v[i]] = g /\ pc'[v[i]] = "queue"
      BY <2>6, <2>7
    <3>2. \A h \in Groups \ {g} : \A i \in DOMAIN locks[h].waiters :
            LET k == locks[h].waiters[i] IN group[k] = h /\ pc'[k] = "queue"
      <4>1. SUFFICES ASSUME NEW h \in Groups \ {g}, NEW i \in DOMAIN locks[h].waiters
                     PROVE  /\ group[locks[h].waiters[i]] = h
                            /\ pc'[locks[h].waiters[i]] = "queue"
        OBVIOUS
      <4>2. locks[h].waiters[i] \in Messages
        BY <1>1 DEF Lock
      <4>3. group[locks[h].waiters[i]] = h /\ pc[locks[h].waiters[i]] = "queue"
        BY DEF Line, WaitersQueue
      <4>4. QED
        BY <2>7, <4>2, <4>3
    <3>3. QED
      BY <2>5, <3>1, <3>2 DEF WaitersQueue
  <2>13. QueuedWait'
    <3>1. SUFFICES ASSUME NEW k \in Messages, pc'[k] = "queue"
                   PROVE  \E i \in DOMAIN locks'[group[k]].waiters :
                            locks'[group[k]].waiters[i] = k
      BY DEF QueuedWait
    <3>2. k # m /\ pc[k] = "queue"
      BY <1>9, <2>7, <3>1
    <3>3. PICK i \in DOMAIN locks[group[k]].waiters : locks[group[k]].waiters[i] = k
      BY <3>2 DEF Line, QueuedWait
    <3>4. CASE group[k] = g
      <4>1. i \in DOMAIN w /\ w[i] = k /\ i # 1
        BY <2>1, <3>2, <3>3, <3>4 DEF w
      <4>2. i - 1 \in DOMAIN v /\ v[i - 1] = k
        BY <2>2, <4>1
      <4>3. QED
        BY <2>5, <3>4, <4>2
    <3>5. CASE group[k] # g
      BY <2>5, <3>3, <3>5
    <3>6. QED
      BY <3>4, <3>5
  <2>14. LineInOrder'
    <3>1. \A i, j \in DOMAIN v : i < j => v[i] < v[j]
      BY <2>2, <2>4
    <3>2. lock.holder # NoTask => \A i \in DOMAIN v : lock.holder < v[i]
      BY <1>9, <2>6
    <3>3. QED
      BY <2>5, <3>1, <3>2 DEF Line, LineInOrder
  <2>15. QED
    BY <1>5, <2>9, <2>10, <2>11, <2>12, <2>13, <2>14 DEF Line
<1>10. CASE Admitted(m)
  <2>1. Resumed(locks[g], m) \in Lock
    BY <1>1, <1>10 DEF Admitted, Wakes, Resumed, Lock
  <2>2. settings.ordered
    BY <1>1, <1>10 DEF Admitted, Wakes, Line, LineUnused, FreeLock
  <2>3. QED
    BY <1>1, <1>9, <1>10, <2>1, <2>2 DEF Admitted, Resumed
<1>11. CASE /\ LeftLine(m) /\ Wakes(locks[g], m)
           /\ locks' = [locks EXCEPT ![g] = Released(Resumed(@, m))]
  <2> DEFINE freed == Released(Resumed(locks[g], m))
  <2>1. Tail(locks[g].waiters) \in Seq(Messages)
    BY <1>1, <1>11 DEF Wakes, Lock
  <2>2. Resumed(locks[g], m) \in Lock
    BY <2>1 DEF Resumed, Lock
  <2>3. /\ freed \in Lock /\ freed.waiters = Tail(locks[g].waiters)
        /\ freed.holder = NoTask /\ freed.holder # m
    BY <1>1, <2>2 DEF Resumed, Released, Lock
  <2>4. /\ pc' = [pc EXCEPT ![m] = "done"] /\ settings.ordered
        /\ locks' = [locks EXCEPT ![g] = freed]
    BY <1>1, <1>11 DEF LeftLine
  <2> HIDE DEF freed
  <2>5. pc' = [pc EXCEPT ![m] = IF freed.holder = m THEN "judge" ELSE "done"]
    BY <2>3, <2>4
  <2>6. QED
    BY <1>9, <1>11, <2>3, <2>4, <2>5
<1>12. CASE /\ LeftLine(m) /\ pc[m] = "judge"
           /\ locks' = [locks EXCEPT ![g] = Released(@)]
  <2>1. locks[g].holder = m
    BY <1>12 DEF LeftLine, Line, OneDecisionPerGroup
  <2>2. locks'[g].holder = NoTask /\ locks'[g].waiters = locks[g].waiters
        /\ \A h \in Groups \ {g} : locks'[h] = locks[h]
    BY <1>1, <1>12 DEF Released, Lock
  <2>3. pc'[m] = "done" /\ pc[m] = "judge" /\ settings.ordered
        /\ \A k \in Messages \ {m} : pc'[k] = pc[k]
    BY <1>12 DEF LeftLine
  <2>4. \A h \in Groups \ {g} : locks[h].holder # m
    BY <1>1 DEF Line, HolderIsJudged
  <2>5. \A h \in Groups : \A i \in DOMAIN locks[h].waiters : locks[h].waiters[i] \in Messages \ {m}
    BY <1>1, <2>3 DEF Line, WaitersQueue, Lock
  <2>6. OneDecisionPerGroup' /\ LineUnused'
    BY <1>1, <2>1, <2>2, <2>3 DEF Line, OneDecisionPerGroup, LineUnused
  <2>7. HolderIsJudged'
    <3>1. SUFFICES ASSUME NEW h \in Groups, locks'[h].holder # NoTask
                   PROVE  /\ group[locks'[h].holder] = h
                          /\ pc'[locks'[h].holder] = "judge"
      BY DEF HolderIsJudged
    <3>2. h # g /\ locks'[h] = locks[h] /\ locks[h].holder \in Messages \ {m}
      BY <1>1, <2>2, <2>4, <3>1 DEF Lock
    <3>3. group[locks[h].holder] = h /\ pc[locks[h].holder] = "judge"
      BY <3>1, <3>2 DEF Line, HolderIsJudged
    <3>4. QED
      BY <2>3, <3>2, <3>3
  <2>8. WaitersQueue'
    BY <1>1, <2>2, <2>3, <2>5 DEF Line, WaitersQueue
  <2>9. QueuedWait'
    BY <1>1, <2>2, <2>3 DEF Line, QueuedWait
  <2>10. LineInOrder'
    BY <1>1, <2>2 DEF Line, LineInOrder
  <2>11. QED
    BY <1>5, <2>6, <2>7, <2>8, <2>9, <2>10 DEF Line
<1>13. QED
  BY <1>6, <1>7, <1>8, <1>10, <1>11, <1>12 DEF Moves, LeftLine

\* The messages in line are finitely many.
LEMMA LineIsFinite == \A g \in Groups : IsFiniteSet(InLine(g))
<1>1. IsFiniteSet(Messages)
  BY FS_Interval, SettingsAssumption DEF Messages
<1>2. QED
  BY <1>1, FS_Subset DEF InLine

\* Every move keeps the counter of the group equal to its line.
LEMMA MovesKeepCount ==
  ASSUME LineTypes, Line, PendingIsTheLine, NEW m \in Messages, Moves(m),
         UNCHANGED << settings, now, group >>
  PROVE  PendingIsTheLine'
<1> DEFINE g == group[m]
<1> USE SettingsAssumption DEF LineTypes
<1>1. g \in Groups
  OBVIOUS
<1>2. SUFFICES ASSUME settings.ordered, NEW h \in Groups
               PROVE  /\ pending'[h] = Cardinality(InLine(h)')
                      /\ settings.maxPending > 0 => pending'[h] <= settings.maxPending
  BY DEF PendingIsTheLine
<1>3. /\ pending[h] = Cardinality(InLine(h))
      /\ settings.maxPending > 0 => pending[h] <= settings.maxPending
      /\ IsFiniteSet(InLine(h)) /\ Cardinality(InLine(h)) \in Nat
  BY <1>2, LineIsFinite, FS_CardinalityType DEF PendingIsTheLine
<1>4. settings.maxPending \in Nat
  OBVIOUS
<1>5. CASE h # g \/ Passed(m) \/ Admitted(m)
  <2>1. pending'[h] = pending[h]
    BY <1>1, <1>2, <1>5 DEF Moves, Passed, Entered, Admitted, LeftLine, Alone
  <2>2. \A k \in Messages \ {m} : pc'[k] = pc[k]
    BY DEF Moves, Passed, Entered, Admitted, LeftLine, Alone
  <2>3. h = g => (pc[m] \in Inside <=> pc'[m] \in Inside)
    BY <1>5, WokenIsQueued DEF Passed, Admitted, Arrives, Inside
  <2>4. InLine(h)' = InLine(h)
    BY <2>2, <2>3 DEF InLine, Inside
  <2>5. QED
    BY <1>3, <2>1, <2>4
<1>6. ASSUME h = g, NEW where \in Inside, NEW lock \in Lock, Entered(m, where, lock)
      PROVE  /\ pending'[h] = Cardinality(InLine(h)')
             /\ settings.maxPending > 0 => pending'[h] <= settings.maxPending
  <2>1. pending'[h] = pending[h] + 1
    BY <1>1, <1>6 DEF Entered
  <2>2. InLine(h)' = InLine(h) \cup {m} /\ m \notin InLine(h)
    BY <1>6 DEF Entered, Arrives, InLine, Inside
  <2>3. Cardinality(InLine(h)') = Cardinality(InLine(h)) + 1
    BY <1>3, <2>2, FS_AddElement
  <2>4. settings.maxPending > 0 => pending[h] < settings.maxPending
    BY <1>3, <1>4, <1>6 DEF Entered, QueueIsFull
  <2>5. QED
    BY <1>3, <1>4, <2>1, <2>3, <2>4
<1>7. CASE h = g /\ LeftLine(m)
  <2>1. pending'[h] = pending[h] - 1
    BY <1>1, <1>7 DEF LeftLine
  <2>2. pc[m] \in Inside
    BY <1>7, WokenIsQueued DEF LeftLine, Inside
  <2>3. InLine(h)' = InLine(h) \ {m} /\ m \in InLine(h)
    BY <1>7, <2>2 DEF LeftLine, InLine, Inside
  <2>4. Cardinality(InLine(h)') = Cardinality(InLine(h)) - 1
    BY <1>3, <2>3, FS_RemoveElement
  <2>5. QED
    BY <1>3, <1>4, <2>1, <2>4
<1>8. QED
  BY <1>2, <1>5, <1>6, <1>7 DEF Moves, Alone

\* The remaining tables keep their types.
LEMMA DecisionsTyped ==
  ASSUME LineTypes, NEW m \in Messages, Step(m)
  PROVE  /\ lastReplyAt' \in [Groups -> Nat \cup {Never}]
         /\ outcome' \in [Messages ->
                {"none", "directed", "full", "pass", "reply", "raised"}]
<1>1. \A g \in Groups : FirstStep(g) \subseteq {"judge", "reply", "pass"}
  BY DEF FirstStep
<1>2. \A g \in Groups : SecondStep(g) \subseteq {"reply", "pass"}
  BY DEF SecondStep
<1>3. group[m] \in Groups
  BY DEF LineTypes
<1>4. \A out \in {"none", "directed", "full", "pass", "reply", "raised"} :
        Conclude(m, out) =>
            /\ lastReplyAt' \in [Groups -> Nat \cup {Never}]
            /\ outcome' \in [Messages ->
                {"none", "directed", "full", "pass", "reply", "raised"}]
  BY DEF Conclude, LineTypes
<1>5. (\E where \in Inside : Suspend(m, where)) =>
            /\ lastReplyAt' \in [Groups -> Nat \cup {Never}]
            /\ outcome' \in [Messages ->
                {"none", "directed", "full", "pass", "reply", "raised"}]
  BY DEF Suspend, LineTypes
<1>6. QED
  BY <1>1, <1>2, <1>3, <1>4, <1>5
    DEF Step, PassesBy, StartsUnordered, StartsOrdered, LinesUp, Resumes, Judged,
        JudgeCancelled, Inside

\* What a step of m leaves alone, and that its decision is made at most once.
LEMMA OthersUntouched ==
  ASSUME LineTypes, Line, Undecided, NEW m \in Messages, Step(m)
  PROVE  /\ \A k \in Messages \ {m} : pc'[k] = pc[k] /\ outcome'[k] = outcome[k]
         /\ pc[m] # "done" /\ pc'[m] # "new"
         /\ pc'[m] # "done" => outcome'[m] = "none"
<1>1. Moves(m)
  BY StepMoves
<1>2. Wakes(locks[group[m]], m) => pc[m] = "queue"
  BY WokenIsQueued
<1>3. \A k \in Messages \ {m} : pc'[k] = pc[k]
  BY <1>1 DEF Moves, Passed, Entered, Admitted, LeftLine, Alone, LineTypes
<1>4. pc[m] # "done" /\ pc'[m] # "new"
  BY <1>1, <1>2 DEF Moves, Passed, Entered, Admitted, LeftLine, Alone, LineTypes, Inside,
                    Arrives
<1>5. \/ \E out \in {"directed", "full", "pass", "reply", "raised"} : Conclude(m, out)
      \/ \E where \in Inside : Suspend(m, where)
  BY DEF Step, PassesBy, StartsUnordered, StartsOrdered, LinesUp, Resumes, Judged,
         JudgeCancelled, Inside, FirstStep, SecondStep
<1>6. QED
  BY <1>3, <1>4, <1>5 DEF Conclude, Suspend, LineTypes, Undecided, Inside

\* A message that is decided in this step, or goes to the judging model, was not
\* preceded by one that is still in line.
LEMMA StepInOrder ==
  ASSUME IInv, NEW m \in Messages, Step(m) PROVE DecidedInOrder'
<1> USE DEF IInv
<1>1. Moves(m) /\ UNCHANGED << settings, now, group >>
  BY StepMoves
<1>2. /\ \A k \in Messages \ {m} : pc'[k] = pc[k] /\ outcome'[k] = outcome[k]
      /\ pc[m] # "done"
  BY OthersUntouched
<1>3. SUFFICES ASSUME settings.ordered, NEW k \in Messages, NEW n \in Messages,
                      group[k] = group[n], k < n, pc'[k] \in Inside
               PROVE  outcome'[n] \notin {"reply", "pass", "raised"} /\ pc'[n] # "judge"
  BY <1>1 DEF DecidedInOrder, Inside
<1>4. CASE k = m
  <2>1. pc[m] = "new" \/ pc[m] \in Inside
    BY <1>2, <1>4 DEF LineTypes, Inside
  <2>2. n # m
    BY <1>3, <1>4 DEF Messages
  <2>3. CASE pc[m] = "new"
    BY <1>2, <1>3, <1>4, <2>2, <2>3 DEF Line, ArrivedInOrder, Undecided
  <2>4. CASE pc[m] \in Inside
    BY <1>2, <1>3, <1>4, <2>2, <2>4 DEF DecidedInOrder, Inside
  <2>5. QED
    BY <2>1, <2>3, <2>4
<1>5. CASE n = m
  <2>1. k # m /\ pc[k] \in Inside
    BY <1>2, <1>3, <1>5 DEF Messages
  <2>2. ~Available(locks[group[m]])
    <3>1. pc[k] = "judge" => locks[group[m]].holder # NoTask
      BY <1>3, <1>5, SettingsAssumption DEF Line, OneDecisionPerGroup
    <3>2. pc[k] = "queue" => locks[group[m]].waiters # << >>
      BY <1>3, <1>5 DEF Line, QueuedWait
    <3>3. QED
      BY <2>1, <3>1, <3>2 DEF Available, Inside
  <2>3. ~Wakes(locks[group[m]], m)
    <3>1. SUFFICES ASSUME Wakes(locks[group[m]], m) PROVE FALSE
      OBVIOUS
    <3> DEFINE w == locks[group[m]].waiters
    <3>2. w \in Seq(Messages) /\ 1 \in DOMAIN w /\ w[1] = m /\ locks[group[m]].holder = NoTask
      BY <3>1 DEF Wakes, LineTypes, Lock
    <3>3. pc[k] # "judge"
      BY <1>3, <1>5, <3>2, SettingsAssumption DEF Line, OneDecisionPerGroup
    <3>4. PICK i \in DOMAIN w : w[i] = k
      BY <1>3, <1>5, <2>1, <3>3 DEF Inside, Line, QueuedWait
    <3>5. i # 1 => m < k
      <4>1. i # 1 => 1 < i
        BY <3>2, <3>4
      <4>2. group[m] \in Groups
        BY DEF LineTypes
      <4>3. QED
        BY <3>2, <3>4, <4>1, <4>2 DEF Line, LineInOrder
    <3>6. QED
      BY <1>3, <1>5, <2>1, <3>2, <3>4, <3>5 DEF Messages
  <2>4. pc[m] # "judge"
    BY <1>3, <1>5, <2>1 DEF DecidedInOrder, Inside
  <2>5. settings.mode # "normal"
    BY <2>1 DEF NormalIsIdle, Inside
  <2>6. PassesBy(m) \/ LinesUp(m)
    BY <1>3, <2>2, <2>3, <2>4
      DEF Step, StartsUnordered, StartsOrdered, Resumes, Judged, JudgeCancelled
  <2>7. QED
    BY <1>2, <1>5, <2>5, <2>6
      DEF PassesBy, LinesUp, Arrives, Conclude, Suspend, LineTypes, Undecided
<1>6. CASE k # m /\ n # m
  BY <1>2, <1>3, <1>6 DEF DecidedInOrder, Inside
<1>7. QED
  BY <1>4, <1>5, <1>6

\* smart_random keeps its check of the cooldown valid during the judgement:
\* nobody else of the group can reply meanwhile.
LEMMA StepHoldsCooldown ==
  ASSUME IInv, NEW m \in Messages, Step(m) PROVE CooldownIsHeld'
<1> USE SettingsAssumption DEF IInv
<1>1. Moves(m) /\ UNCHANGED << settings, now, group >>
  BY StepMoves
<1>2. \A k \in Messages \ {m} : pc'[k] = pc[k]
  BY OthersUntouched
<1>3. SUFFICES ASSUME settings.ordered, settings.mode = "smart_random",
                      NEW k \in Messages, pc'[k] = "judge"
               PROVE  ~InCooldown(group[k])'
  BY <1>1 DEF CooldownIsHeld
<1>4. CASE k = m
  <2>1. \/ StartsOrdered(m) /\ "judge" \in FirstStep(group[m])
        \/ Resumes(m) /\ "judge" \in FirstStep(group[m])
    BY <1>3, <1>4
      DEF Step, PassesBy, StartsUnordered, StartsOrdered, LinesUp, Resumes, Judged,
          JudgeCancelled, Conclude, Suspend, LineTypes
  <2>2. ~InCooldown(group[m])
    BY <1>3, <2>1 DEF FirstStep
  <2>3. lastReplyAt' = lastReplyAt
    BY <1>3, <1>4, <2>1
      DEF StartsOrdered, Resumes, Conclude, Suspend, LineTypes
  <2>4. QED
    BY <1>1, <1>4, <2>2, <2>3 DEF InCooldown
<1>5. CASE k # m
  <2>1. pc[k] = "judge" /\ ~InCooldown(group[k])
    BY <1>2, <1>3, <1>5 DEF CooldownIsHeld
  <2>2. locks[group[k]].holder = k
    BY <1>3, <2>1 DEF Line, OneDecisionPerGroup
  <2>3. group[m] = group[k] =>
            /\ ~Available(locks[group[m]]) /\ ~Wakes(locks[group[m]], m)
            /\ pc[m] # "judge"
    BY <1>3, <1>5, <2>2 DEF Available, Wakes, Line, OneDecisionPerGroup
  <2>4. group[m] = group[k] => PassesBy(m) \/ LinesUp(m)
    BY <1>3, <2>3 DEF Step, StartsUnordered, StartsOrdered, Resumes, Judged, JudgeCancelled
  <2>5. lastReplyAt'[group[k]] = lastReplyAt[group[k]]
    <3>1. CASE group[m] = group[k]
      BY <2>4, <3>1 DEF PassesBy, LinesUp, Conclude, Suspend
    <3>2. CASE group[m] # group[k]
      BY <3>2
        DEF Step, PassesBy, StartsUnordered, StartsOrdered, LinesUp, Resumes, Judged,
            JudgeCancelled, Conclude, Suspend, LineTypes
    <3>3. QED
      BY <3>1, <3>2
  <2>6. QED
    BY <1>1, <2>1, <2>5 DEF InCooldown
<1>6. QED
  BY <1>4, <1>5

\* Every step of decide and of the handler keeps the invariant.
LEMMA InvariantStep == IInv /\ [Next]_vars => IInv'
<1> SUFFICES ASSUME IInv, [Next]_vars PROVE IInv'
  OBVIOUS
<1> USE SettingsAssumption DEF IInv
<1>1. CASE UNCHANGED vars
  <2>1. LineTypes'
    BY <1>1 DEF vars, LineTypes
  <2>2. Line'
    BY <1>1
      DEF vars, Line, OneDecisionPerGroup, LineUnused, HolderIsJudged, WaitersQueue,
          QueuedWait, LineInOrder, ArrivedInOrder
  <2>3. PendingIsTheLine' /\ Undecided' /\ NormalIsIdle' /\ OnlySmartJudges'
        /\ DecidedInOrder'
    BY <1>1
      DEF vars, PendingIsTheLine, InLine, Undecided, NormalIsIdle, OnlySmartJudges,
          DecidedInOrder
  <2>4. CooldownIsHeld'
    BY <1>1 DEF vars, CooldownIsHeld, InCooldown
  <2>5. QED
    BY <2>1, <2>2, <2>3, <2>4
<1>2. CASE Tick
  <2>1. UNCHANGED << settings, locks, pending, lastReplyAt, pc, group, outcome >>
        /\ now' = now + 1
    BY <1>2 DEF Tick
  <2>2. LineTypes'
    BY <2>1 DEF LineTypes
  <2>3. /\ Line' /\ PendingIsTheLine' /\ Undecided' /\ DecidedInOrder'
        /\ NormalIsIdle' /\ OnlySmartJudges'
    BY <2>1
      DEF Line, OneDecisionPerGroup, LineUnused, HolderIsJudged,
          WaitersQueue, QueuedWait, LineInOrder, ArrivedInOrder, PendingIsTheLine, InLine,
          Undecided, NormalIsIdle, OnlySmartJudges, DecidedInOrder
  <2>4. \A g \in Groups : ~InCooldown(g) => ~InCooldown(g)'
    <3>1. \A g \in Groups : lastReplyAt[g] \in Int
      BY DEF LineTypes, Never
    <3>2. settings.cooldown \in Nat /\ now \in Nat
      BY DEF LineTypes
    <3>3. QED
      BY <2>1, <3>1, <3>2 DEF InCooldown
  <2>5. CooldownIsHeld'
    BY <2>1, <2>4 DEF CooldownIsHeld, LineTypes
  <2>6. QED
    BY <2>2, <2>3, <2>5
<1>3. ASSUME NEW m \in Messages, Step(m) PROVE IInv'
  <2>1. Moves(m) /\ UNCHANGED << settings, now, group >>
    BY <1>3, StepMoves
  <2>2. LineTypes'
    BY <1>3, <2>1, MovesKeepLine, DecisionsTyped DEF LineTypes
  <2>3. Line' /\ PendingIsTheLine'
    BY <2>1, MovesKeepLine, MovesKeepCount
  <2>4. Undecided'
    BY <1>3, OthersUntouched DEF Undecided
  <2>5. NormalIsIdle'
    <3>1. SUFFICES ASSUME settings.mode = "normal", NEW k \in Messages
                   PROVE  pc'[k] \in {"new", "done"}
      BY <2>1 DEF NormalIsIdle
    <3>2. k # m => pc'[k] \in {"new", "done"}
      BY <1>3, <3>1, OthersUntouched DEF NormalIsIdle
    <3>3. ~Wakes(locks[group[m]], m) /\ pc[m] # "judge"
      BY <3>1, WokenIsQueued DEF NormalIsIdle
    <3>4. PassesBy(m)
      BY <1>3, <3>1, <3>3
        DEF Step, StartsUnordered, StartsOrdered, LinesUp, Resumes, Judged, JudgeCancelled
    <3>5. QED
      BY <3>2, <3>4 DEF PassesBy, Conclude, LineTypes
  <2>6. OnlySmartJudges'
    <3>1. SUFFICES ASSUME NEW k \in Messages, pc'[k] = "judge"
                   PROVE  settings.mode \in {"smart_reply", "smart_random"}
      BY <2>1 DEF OnlySmartJudges
    <3>2. CASE pc[k] = "judge"
      BY <3>2 DEF OnlySmartJudges
    <3>3. CASE pc[k] # "judge"
      <4>1. k = m
        BY <1>3, <3>1, <3>3, OthersUntouched
      <4>2. "judge" \in FirstStep(group[m])
        BY <1>3, <3>1, <3>3, <4>1
          DEF Step, PassesBy, StartsUnordered, StartsOrdered, LinesUp, Resumes, Judged,
              JudgeCancelled, Conclude, Suspend, LineTypes
      <4>3. QED
        BY <4>2 DEF FirstStep
    <3>4. QED
      BY <3>2, <3>3
  <2>7. DecidedInOrder' /\ CooldownIsHeld'
    BY <1>3, StepInOrder, StepHoldsCooldown
  <2>8. QED
    BY <2>2, <2>3, <2>4, <2>5, <2>6, <2>7
<1>4. QED
  BY <1>1, <1>2, <1>3 DEF Next, Done

\* The invariant holds of every run of the controller.
LEMMA InvariantHolds == Spec => []IInv
<1>1. Init => IInv
  <2> SUFFICES ASSUME Init PROVE IInv
    OBVIOUS
  <2> USE SettingsAssumption DEF Init
  <2>1. LineTypes
    BY DEF LineTypes, Lock, FreeLock
  <2>2. Line
    BY DEF Line, OneDecisionPerGroup, LineUnused, HolderIsJudged,
           WaitersQueue, QueuedWait, LineInOrder, ArrivedInOrder, FreeLock
  <2>3. \A g \in Groups : InLine(g) = {}
    BY DEF InLine
  <2>4. PendingIsTheLine
    <3>1. settings.maxPending \in Nat
      BY <2>1 DEF LineTypes
    <3>2. Cardinality({}) = 0
      BY FS_EmptySet
    <3>3. \A g \in Groups : pending[g] = 0 /\ Cardinality(InLine(g)) = 0
      BY <2>3, <3>2
    <3>4. QED
      BY <3>1, <3>3 DEF PendingIsTheLine
  <2>5. Undecided /\ NormalIsIdle /\ OnlySmartJudges /\ DecidedInOrder /\ CooldownIsHeld
    BY DEF Undecided, NormalIsIdle, OnlySmartJudges, DecidedInOrder, CooldownIsHeld
  <2>6. QED
    BY <2>1, <2>2, <2>4, <2>5 DEF IInv
<1>2. QED
  BY <1>1, InvariantStep, PTL DEF Spec

-----------------------------------------------------------------------------

\* decide keeps its tables typed, and the counter of a group never goes below
\* zero, whichever way the tasks leave.
THEOREM TypeCorrect == Spec => []TypeOK
<1>1. IInv => TypeOK
  <2> SUFFICES ASSUME IInv PROVE TypeOK
    OBVIOUS
  <2>1. ASSUME NEW g \in Groups PROVE pending[g] \in Nat
    <3>1. CASE settings.ordered
      BY <3>1, LineIsFinite, FS_CardinalityType DEF IInv, PendingIsTheLine
    <3>2. CASE ~settings.ordered
      BY <3>2 DEF IInv, Line, LineUnused
    <3>3. QED
      BY <3>1, <3>2
  <2>2. pending \in [Groups -> Nat]
    BY <2>1 DEF IInv, LineTypes
  <2>3. QED
    BY <2>2 DEF IInv, LineTypes, TypeOK, Lock
<1>2. QED
  BY <1>1, InvariantHolds, PTL

\* The lock of a group admits one judgement at a time.
THEOREM OneJudgement == Spec => []OneDecisionPerGroup
<1>1. IInv => OneDecisionPerGroup
  BY DEF IInv, Line
<1>2. QED
  BY <1>1, InvariantHolds, PTL

\* With per-group order, messages are decided in the order of arrival.
THEOREM ArrivalOrderIsDecisionOrder == Spec => []DecidedInOrder
<1>1. IInv => DecidedInOrder
  BY DEF IInv
<1>2. QED
  BY <1>1, InvariantHolds, PTL

\* The counter of max_pending_per_group counts the line and respects its bound.
THEOREM CounterIsExact == Spec => []PendingIsTheLine
<1>1. IInv => PendingIsTheLine
  BY DEF IInv
<1>2. QED
  BY <1>1, InvariantHolds, PTL

\* Replies are a cooldown apart, in smart_random only with per-group order.
THEOREM CooldownIsKept == Spec => RepliesKeepCooldown
<1> DEFINE Covered == settings.mode # "all_as_at"
                        /\ (settings.ordered \/ settings.mode # "smart_random")
<1>1. IInv /\ [Next]_vars =>
        [Covered => \A m \in Messages : ~TooSoon(m)]_vars
  <2> SUFFICES ASSUME IInv, Next, Covered, NEW m \in Messages, TooSoon(m) PROVE FALSE
    OBVIOUS
  <2>1. Step(m)
    <3>1. outcome'[m] # outcome[m]
      BY DEF TooSoon
    <3>2. PICK k \in Messages : Step(k)
      BY <3>1 DEF Next, Tick, Done, vars
    <3>3. QED
      BY <3>1, <3>2, OthersUntouched DEF IInv
  <2>2. outcome'[m] = "reply" /\ outcome[m] # "reply" /\ InCooldown(group[m])
    BY DEF TooSoon
  <2>3. ~PassesBy(m) /\ ~LinesUp(m) /\ ~JudgeCancelled(m)
    BY <2>2
      DEF PassesBy, LinesUp, JudgeCancelled, Conclude, Suspend, IInv, LineTypes
  <2>4. CASE StartsUnordered(m) \/ StartsOrdered(m) \/ Resumes(m)
    BY <2>2, <2>4
      DEF StartsUnordered, StartsOrdered, Resumes, FirstStep, Conclude, Suspend, IInv,
          LineTypes
  <2>5. CASE Judged(m)
    <3>1. "reply" \in SecondStep(group[m]) /\ pc[m] = "judge"
      BY <2>2, <2>5 DEF Judged, Conclude, IInv, LineTypes
    <3>2. QED
      BY <2>2, <3>1 DEF SecondStep, IInv, CooldownIsHeld, OnlySmartJudges
  <2>6. QED
    BY <2>1, <2>3, <2>4, <2>5 DEF Step
<1>2. QED
  BY <1>1, InvariantHolds, PTL DEF Spec, RepliesKeepCooldown

=============================================================================
