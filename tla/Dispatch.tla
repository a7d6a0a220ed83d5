------------------------------ MODULE Dispatch ------------------------------
(***************************************************************************)
(* runtime/dispatch.py: what happens to an event between the two adapters  *)
(* and AstrBot.  The gateway's worker brings events one after the other,   *)
(* the webhook server one task per request, and the platform may deliver   *)
(* an event more than once and through both.  handle_qq_payload drops      *)
(* duplicates, records the event, answers the events that are no messages  *)
(* and commits the messages to the framework's queue.                      *)
(*                                                                         *)
(* mark_duplicate holds its lock without an await inside, so everything up *)
(* to the database call is one step; after it the task is suspended at the *)
(* database, at the conversation manager and at the REST API.              *)
(***************************************************************************)
EXTENDS Integers, FiniteSets, Sequences

CONSTANTS
    Events,
    KindsOfEvents,  \* the assignments of kinds to events considered
    NumDeliveries,  \* deliveries 1..NumDeliveries, in the order they arrive
    Ttl, MaxKeys,   \* _DEDUP_TTL_SECONDS, _DEDUP_MAX_KEYS
    MaxTime,        \* bound on the modelled clock
    NoEvent

Deliveries == 1 .. NumDeliveries

(* What parse_event and the configuration make of an event:                *)
(*   "message"   a message to the bot                                      *)
(*   "ambient"   a group message that does not mention the bot             *)
(*   "anonymous" a message with no event id and no message id              *)
(*   "homeless"  a message of no known session                             *)
(*   "logged"    a relation event that is only recorded                    *)
(*   "answered"  a relation event with a configured reply                  *)
(*   "system"    any other event                                           *)
(*   "ignored"   what the parser says to ignore                            *)
Kinds == {"message", "ambient", "anonymous", "homeless", "logged", "answered",
          "system", "ignored"}

ASSUME DispatchAssumption ==
    /\ KindsOfEvents \subseteq [Events -> Kinds]
    /\ NumDeliveries \in Nat /\ MaxTime \in Nat
    /\ Ttl \in Nat \ {0} /\ MaxKeys \in Nat \ {0}
    /\ NoEvent \notin Events

VARIABLES
    kind,           \* the kind of every event
    now,            \* time.monotonic()
    seen,           \* _DEDUP_CACHE._seen: keys with their expiries
    pc,             \* where the task of each delivery is suspended
    event,          \* what it delivers
    source,         \* "wss" or "webhook"
    committed,      \* the deliveries committed to the framework, in order
    greeted,        \* the deliveries that were answered with the welcome
    conversation,   \* whether the framework has a conversation for the session
    accepts,        \* history: what passed the cache, and when
    failed          \* history: the deliveries whose task was ended by Fails

vars == << kind, now, seen, pc, event, source, committed, greeted,
           conversation, accepts, failed >>

Init ==
    /\ kind \in KindsOfEvents
    /\ now = 0
    /\ seen = {}
    /\ pc = [d \in Deliveries |-> "coming"]
    /\ event = [d \in Deliveries |-> NoEvent]
    /\ source = [d \in Deliveries |-> "webhook"]
    /\ committed = << >> /\ greeted = {}
    /\ conversation = FALSE
    /\ accepts = << >> /\ failed = {}

-----------------------------------------------------------------------------
(* _TTLSeenCache *)

\* Mutant: an event without ids gets the empty key.
KeyedAlways(e) == TRUE

\* _dedup_key: events without any id have no key and are never duplicates.
Keyed(e) == kind[e] # "anonymous"

IsDuplicate(e) ==
    Keyed(e) /\ \E entry \in seen : entry.key = e /\ entry.expires > now

\* self._seen[key] = now + ttl.
Stored(e) == {entry \in seen : entry.key # e} \cup {[key |-> e, expires |-> now + Ttl]}

\* Mutant: the entry that came last goes (popitem).
Newest(entries) ==
    {entry \in entries : \A other \in entries : other.expires <= entry.expires}

\* min(self._seen, key=self._seen.get): a tie of two expiries is one of the
\* clock's ticks here, and either may go.
Oldest(entries) ==
    {entry \in entries : \A other \in entries : entry.expires <= other.expires}

\* _cleanup: the expired entries go, then the oldest if there are too many; one
\* store never overfills the cache by more than one entry.
Cleaned(entries) ==
    LET fresh == {entry \in entries : entry.expires > now}
    IN  IF Cardinality(fresh) <= MaxKeys THEN {fresh}
        ELSE {fresh \ {entry} : entry \in Oldest(fresh)}

-----------------------------------------------------------------------------
(* handle_qq_payload *)

\* Mutant: the adapter starts a task per event and does not wait for it.
GatewayFreeAlways == TRUE

\* The worker of the gateway awaits one event before it takes the next.
GatewayFree ==
    \A d \in Deliveries : source[d] = "wss" => pc[d] \in {"coming", "done"}

\* A delivery reaches an adapter: parsed, checked against the cache, and
\* suspended at the database unless it ends here.
Deliver(d, e, src) ==
    /\ pc[d] = "coming" /\ \A c \in Deliveries : c < d => pc[c] # "coming"
    /\ src = "wss" => GatewayFree
    /\ event' = [event EXCEPT ![d] = e]
    /\ source' = [source EXCEPT ![d] = src]
    /\ IF kind[e] = "ignored" \/ IsDuplicate(e)
       THEN /\ pc' = [pc EXCEPT ![d] = "done"]
            /\ UNCHANGED << seen, accepts >>
       ELSE /\ seen' \in IF Keyed(e) THEN Cleaned(Stored(e)) ELSE {seen}
            /\ accepts' = Append(accepts, [event |-> e, at |-> now])
            /\ pc' = [pc EXCEPT ![d] = IF kind[e] = "homeless" THEN "done" ELSE "record"]
    /\ UNCHANGED << kind, now, committed, greeted, conversation, failed >>

Ends(d) == pc' = [pc EXCEPT ![d] = "done"]

\* commit_event and the end of handle_qq_payload.
Commits(d) ==
    /\ Ends(d)
    /\ committed' = IF kind[event[d]] \in {"message", "ambient", "anonymous"}
                    THEN Append(committed, d) ELSE committed

\* record_event returns; it logs its own failures.  Then the relation events
\* are consumed here; whatever is left goes through the welcome check, but for
\* the messages that do not mention the bot and where no welcome is configured.
RecordDone(d) ==
    /\ pc[d] = "record"
    /\ CASE kind[event[d]] = "logged" -> Ends(d) /\ UNCHANGED committed
         [] kind[event[d]] = "answered" ->
                pc' = [pc EXCEPT ![d] = "reply"] /\ UNCHANGED committed
         [] kind[event[d]] \in {"message", "anonymous", "system"} ->
                \/ pc' = [pc EXCEPT ![d] = "lookup"] /\ UNCHANGED committed
                \/ Commits(d)
         [] OTHER -> Commits(d)
    /\ UNCHANGED << kind, now, seen, event, source, greeted, conversation, accepts,
                    failed >>

\* handle_relation_event: its reply was sent or failed.
ReplyDone(d) ==
    /\ pc[d] = "reply"
    /\ Ends(d)
    /\ UNCHANGED << kind, now, seen, event, source, committed, greeted,
                    conversation, accepts, failed >>

\* handle_new_user_welcome: with a conversation there is nothing to do.
LookupFinds(d) ==
    /\ pc[d] = "lookup" /\ conversation
    /\ Commits(d)
    /\ UNCHANGED << kind, now, seen, event, source, greeted, conversation,
                    accepts, failed >>

\* Mutant: the welcome waits until there is a conversation.
LookupRetries(d) == pc[d] = "lookup" /\ UNCHANGED vars

\* Without one, or when the manager fails, the welcome is sent.
LookupMisses(d) ==
    /\ pc[d] = "lookup"
    /\ pc' = [pc EXCEPT ![d] = "greet"]
    /\ UNCHANGED << kind, now, seen, event, source, committed, greeted,
                    conversation, accepts, failed >>

\* The welcome was sent or refused; the message goes on to the framework.
GreetDone(d) ==
    /\ pc[d] = "greet"
    /\ greeted' = greeted \cup {d}
    /\ Commits(d)
    /\ UNCHANGED << kind, now, seen, event, source, conversation, accepts, failed >>

\* An exception (no target for the reply) or the cancellation of the gateway's
\* worker ends the task where it is; both adapters log it and go on.
Fails(d) ==
    /\ \/ pc[d] \in {"reply", "greet"}
       \/ source[d] = "wss" /\ pc[d] \in {"record", "lookup"}
    /\ Ends(d)
    /\ failed' = failed \cup {d}
    /\ UNCHANGED << kind, now, seen, event, source, committed, greeted,
                    conversation, accepts >>

\* The framework's pipeline opens a conversation for a message it got.
OpenConversation ==
    /\ ~conversation /\ committed # << >>
    /\ conversation' = TRUE
    /\ UNCHANGED << kind, now, seen, pc, event, source, committed, greeted,
                    accepts, failed >>

Tick ==
    /\ now < MaxTime
    /\ now' = now + 1
    /\ UNCHANGED << kind, seen, pc, event, source, committed, greeted,
                    conversation, accepts, failed >>

Process(d) ==
    RecordDone(d) \/ ReplyDone(d) \/ LookupFinds(d) \/ LookupMisses(d) \/ GreetDone(d)
        \/ Fails(d)

Next ==
    \/ \E d \in Deliveries, e \in Events, src \in {"wss", "webhook"} : Deliver(d, e, src)
    \/ \E d \in Deliveries : Process(d)
    \/ OpenConversation
    \/ Tick

\* The database, the conversation manager and the REST API answer.
Fairness == \A d \in Deliveries : WF_vars(Process(d))

Spec == Init /\ [][Next]_vars
FairSpec == Spec /\ Fairness

-----------------------------------------------------------------------------

\* The types, and the cache as a dict of the events that have a key: none twice,
\* and never more of them than its bound.
TypeOK ==
    /\ kind \in KindsOfEvents
    /\ now \in Nat
    /\ seen \subseteq [key : {e \in Events : kind[e] # "anonymous"}, expires : Nat]
    /\ \A entry, other \in seen : entry.key = other.key => entry = other
    /\ Cardinality(seen) <= MaxKeys
    /\ pc \in [Deliveries -> {"coming", "record", "reply", "lookup", "greet", "done"}]
    /\ event \in [Deliveries -> Events \cup {NoEvent}]
    /\ source \in [Deliveries -> {"wss", "webhook"}]
    /\ committed \in Seq(Deliveries)
    /\ greeted \subseteq Deliveries
    /\ conversation \in BOOLEAN
    /\ accepts \in Seq([event : Events, at : Nat])
    /\ failed \subseteq Deliveries

\* The accepts before j that pushed the i-th one towards eviction.
OthersBetween(i, j) ==
    {accepts[k].event : k \in {k \in 1 .. j - 1 :
        /\ k # i /\ accepts[k].at >= accepts[i].at
        /\ Keyed(accepts[k].event) /\ accepts[k].event # accepts[i].event}}

\* An event is processed a second time only when its first delivery lies a whole
\* TTL back, or when at least MaxKeys other events came in since: overflow
\* forgets the oldest events, never a recent one, and the two entries (WSS and
\* webhook) share one memory.
RepeatOnlyAfterTtlOrOverflow ==
    \A i, j \in DOMAIN accepts :
        i < j /\ accepts[i].event = accepts[j].event /\ Keyed(accepts[i].event) =>
            \/ accepts[j].at >= accepts[i].at + Ttl
            \/ Cardinality(OthersBetween(i, j)) >= MaxKeys

\* The task of delivery c has the message, has handed it over, or lost it to a
\* failure that was logged.
CarriesOn(c) ==
    \/ pc[c] \in {"record", "lookup", "greet"}
    \/ \E i \in DOMAIN committed : committed[i] = c
    \/ c \in failed

\* No message is swallowed by the memory for duplicates: when the task of a
\* message is over, the framework has got that message, from this delivery or
\* from the one that it repeats, or that other task is still on its way to the
\* framework, or it failed.  Messages without any id are never taken for one
\* another: each of them has to be handed over itself.
NoMessageIsSwallowed ==
    \A d \in Deliveries :
        pc[d] = "done" /\ kind[event[d]] \in {"message", "ambient", "anonymous"} =>
            \E c \in Deliveries :
                /\ event[c] = event[d] /\ (kind[event[d]] = "anonymous" => c = d)
                /\ CarriesOn(c)

\* What the gateway delivers in order reaches the framework in order, although
\* each event waits for the database and perhaps for a welcome in between.
GatewayOrderKept ==
    \A i, j \in DOMAIN committed :
        i < j /\ source[committed[i]] = "wss" /\ source[committed[j]] = "wss"
            => committed[i] < committed[j]

\* Every delivery is processed to its end.
EveryDeliveryEnds == \A d \in Deliveries : pc[d] # "coming" ~> pc[d] = "done"

\* The docstring of handle_new_user_welcome: the welcome answers the first
\* interaction of a new user, so that there is only one of them.
WelcomeOnFirstInteraction == Cardinality(greeted) <= 1

=============================================================================
