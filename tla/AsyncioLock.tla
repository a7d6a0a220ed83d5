---------------------------- MODULE AsyncioLock ----------------------------
(***************************************************************************)
(* asyncio.Lock as the plugin uses it (`async with lock:` in               *)
(* runtime/token_manager.py and runtime/full_group_reply.py): a lock that  *)
(* is handed over in the order of the calls to acquire().                  *)
(*                                                                         *)
(* Two facts of the library matter to the plugin.  acquire() on a lock     *)
(* that is free and has no waiter returns without yielding to the event    *)
(* loop.  A newcomer never overtakes: while there are waiters it queues    *)
(* behind them, also in the gap between release() and the moment the woken *)
(* waiter runs.                                                            *)
(***************************************************************************)
EXTENDS Sequences

CONSTANT NoTask     \* the holder of a free lock

FreeLock == [holder |-> NoTask, waiters |-> << >>]

\* Mutant: acquire() looks at the queue and forgets the holder.
AvailableIgnoresHolder(lock) == lock.waiters = << >>

\* Mutant: a newcomer takes the lock before the waiter that was woken.
AvailableBarging(lock) == lock.holder = NoTask

\* acquire() would return at once.
Available(lock) == lock.holder = NoTask /\ lock.waiters = << >>

Acquired(lock, t) == [lock EXCEPT !.holder = t]

Queued(lock, t) == [lock EXCEPT !.waiters = Append(@, t)]

\* The lock was released and t is the waiter it wakes.
Wakes(lock, t) ==
    /\ lock.holder = NoTask
    /\ lock.waiters # << >>
    /\ Head(lock.waiters) = t

Resumed(lock, t) == [holder |-> t, waiters |-> Tail(lock.waiters)]

Released(lock) == [lock EXCEPT !.holder = NoTask]

=============================================================================
