----------------------------- MODULE EventFeed -----------------------------
(***************************************************************************)
(* What adapters/ws_client.py promises the adapter's on_dispatch callback, *)
(* whatever the connection does: a bounded buffer of the events that were  *)
(* received, handed over one by one, in the order of the gateway, each at  *)
(* most once, and none dropped before the client is closed.                *)
(***************************************************************************)
EXTENDS Integers, Sequences

CONSTANTS
    Events,         \* the gateway's events, numbered in their order
    Capacity        \* events received and not handed over, at most

VARIABLES
    pipe,           \* received, not yet handed over
    handed,         \* given to on_dispatch
    closed          \* close() was called

feedVars == << pipe, handed, closed >>

FeedInit ==
    /\ pipe = << >>
    /\ handed = << >>
    /\ closed = FALSE

\* A new event follows every event received before.
Accept(e) ==
    /\ ~closed /\ Len(pipe) < Capacity
    /\ \A i \in DOMAIN pipe : pipe[i] < e
    /\ \A i \in DOMAIN handed : handed[i] < e
    /\ pipe' = Append(pipe, e)
    /\ UNCHANGED << handed, closed >>

HandOver ==
    /\ ~closed /\ pipe # << >>
    /\ handed' = Append(handed, Head(pipe))
    /\ pipe' = Tail(pipe)
    /\ UNCHANGED closed

\* Closing abandons what was not handed over.
Close ==
    /\ ~closed
    /\ closed' = TRUE
    /\ pipe' = << >>
    /\ UNCHANGED handed

FeedNext == HandOver \/ Close \/ \E e \in Events : Accept(e)

FeedSpec == FeedInit /\ [][FeedNext]_feedVars

=============================================================================
