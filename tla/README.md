# Verification of astrbot_plugin_qq_restapi

TLA+ models of the plugin (the AstrBot platform adapter for the QQ bot REST API): its
concurrent parts, its parser, its streaming and its caches. TLC runs check them on small
instances; TLAPS proofs establish their main safety properties for all values of the
constants. Paths are relative to `src/`.

The whole plugin runs on one asyncio event loop. A coroutine is interrupted only at an
`await` that really suspends, so throughout **an action is the code of one task between
two suspensions**. Entering an `asyncio.Lock` that is free and has no waiters does not
suspend, and neither does an `await` of a coroutine that returns at once; the models
respect both.

## 1. The system

| Component | State | Operations | Interacts with |
|---|---|---|---|
| Token manager `runtime/token_manager.py` | cached token, its local expiry, one lock | `get_token`, `refresh`, `auth_headers` | called by the sender and the gateway client; the token server |
| REST sender `runtime/sender.py` | none of its own; a call lives over up to four POSTs | `send_*`, `upload_media*`, `recall_message` | token manager, HTTP pool, QQ API |
| Gateway client `adapters/ws_client.py` | session id, last sequence number, bounded queue of events, failure counter, stop flag, two tasks | `run`, `_dispatch_worker`, `close` | gateway (websocket), token manager, the adapter's callback |
| Adapters `adapters/qq_restapi_adapter.py`, `qq_restapi_webhook_*.py` | the client; an HTTP server with a task per request | `run`, `terminate`, `_on_dispatch`, callback | dispatch; the host |
| Dispatch `runtime/dispatch.py` | deduplication cache shared by both adapters | `handle_qq_payload`, `mark_duplicate` | parser, database, automatic events, the framework's queue |
| Automatic events `runtime/auto_events.py` | none | relation events, first welcome | sender, conversation manager |
| Full-group replies `runtime/full_group_reply.py`, handler in `main.py` | per group: lock, counter of messages in line, time of the last reply | `decide` | judging model, conversation manager, the event's history |
| Event object `runtime/qq_restapi_event.py` | flags per event (history stored, ...) | replies, streaming, history | sender, conversation manager, `last_message_cache` |
| Event storage `db/*`, `runtime/db_service.py` | SQLite tables | `record_event`: several upserts, one transaction each | dispatch |
| Parser and scenes `runtime/message_parser.py`, `utils/scene.py` | none | `parse_event`, `resolve_scene` | dispatch, commands |
| Templates `runtime/template_registry.py`, `template_store.py` | registry cache by file times, body cache | register, resolve, load | event object, public API |
| HTTP pool, last-message cache `runtime/httpx_pool.py`, `last_message_cache.py` | one client; one entry per session | get, close; set, get | sender, event object |
| Glue `public_api.py`, `runtime/framework_compat.py`, `context.py`, `core/qq/*` | none | re-exports | other plugins |

The hard behaviours: many tasks refreshing one token while it expires at two clocks;
a message that must not be sent twice although its POST may have failed at any point;
a connection that breaks between receiving an event and handing it over; the same event
arriving through two adapters while earlier ones are still suspended; decisions about a
group's messages made by a slow model that times out and is cancelled; a history that is
read, extended and written back by overlapping events; transactions that look before they
hold the write lock; a generated text cut into messages in the middle of its generation;
files edited while they are being cached. PROJECT.json lists
every hazard found, at its line, with the property that guards it.

What makes each component correct:

* **Token manager**: one request at a time, no dead token served, no needless refresh,
  the cache never goes backwards, no caller stuck.
* **Sender**: one message shown per send at most, a result that is true, a retry that is
  not wasted on the rejected token, every send ends.
* **Gateway client**: to the adapter it is an in-order, at-most-once, bounded feed, and an
  event the client has acknowledged is not lost while it runs.
* **Dispatch**: no event processed twice within the TTL unless the cache overflowed with
  *other* events, no message lost as a duplicate of one that never arrives, the gateway's
  order kept up to the framework.
* **Full-group replies**: decisions in the order of arrival, an exact counter, replies a
  cooldown apart, a decision for every message.
* **Event object**: what a call records is in the history once, a reply records nothing
  where it could see that another has, and the answer is in the right conversation, after
  its message; a streamed answer arrives whole and is cut
  where it may be cut, however the model chops it up.
* **Event storage**: after any conflicts, failures and cancellations the committed
  database has no key twice, no dangling reference, and all or nothing of an event; nobody
  waits for the lock for ever.
* **Parser and scenes**: a row never mixes two people; replies and commands of an event go
  to the same chat.
* **Templates**: the registry that is returned is the merge of the registered files as they
  were during the call, whichever cache it comes from.

## 2. Modules

| Module | Models | Built on |
|---|---|---|
| `AsyncioLock` | `asyncio.Lock` as the plugin uses it (external) | |
| `TokenManager` | `TokenManager` of token_manager.py, the token server, the clock | `AsyncioLock` |
| `Sending` | `_post_url`, the markdown fallback, upload then send | EXTENDS `TokenManager`: a send is a task of it |
| `FullGroupReply` | `decide`, `_decide_unlocked`, `_judge` | `AsyncioLock` |
| `GatewayClient` | `run`, `_dispatch_worker`, `close`, cancellation, the gateway | refines `EventFeed` |
| `EventFeed` | the abstract promise of the gateway client | |
| `Dispatch` | `handle_qq_payload`, `_TTLSeenCache`, the handlers it awaits | |
| `EventParsing` | `parse_event`, the target of a reply, `resolve_scene` (operators) | |
| `EventStore` | `record_event`, its upserts and transactions, SQLite | EXTENDS `EventParsing` |
| `Streaming` | `send_streaming`, `_find_safe_streaming_split_index` | |
| `EventReplies` | replies and ambient messages of a chat, the conversation manager | EXTENDS `Streaming` |
| `Templates` | template_registry.py, template_store.py, an editor of the files | |
| `*Proofs` | theorems of the module they are named after | |
| `MC*`, `*.cfg` | instances for TLC | |

### TokenManager
`cachedToken`, `expiresAt`, `lock` are `_cached_token`, `_expires_at`, `_refresh_lock`;
`pc`, `op` and `request` say where each task is suspended. `GetToken` and `Refresh` are the
calls up to the first suspension, `ResumeFresh`/`ResumeRefresh` a waiter that got the lock
(the second check of `get_token`), `Receive` and `Fail` the two ways out of
`_refresh_unlocked`. `Issue` (external) is the moment at which the server issues the token:
its life starts there, while the manager counts from the receipt. `ExpiresIn` is the
clamp of `expires_in` to at least one second. Every error path (credentials, transport,
HTTP status, unusable reply) is `Fail`: they differ only in the text of the exception.

### Sending
`send[t]` is what a coroutine is sending: `post` is the kind of POST, `retry` the parameter
of `_post_url`, `carried` the token in the headers, `rejected` and `shown` are history.
`Rejected` is code 11244 with a retry left: a forced refresh and `_post_url` once more.
`Concluded` is what the callers make of the result: `should_downgrade_markdown_to_plain`
and the fallback of `send_text_prefer_markdown`; the second POST of `send_media` after a
successful upload. The API's answer is one of five verdicts, which are the classes the
code tells apart; its freedom is limited to this: a definite refusal (an ignored code, an
error of the message, 401, 403, ...) shows nothing, and a dead token is never accepted.
A 2xx answer with a code (held for audit) is a "doubtful" verdict, like a timeout.

### FullGroupReply
Messages 1..N reach the handler in this order. `PassesBy`, `StartsUnordered`,
`StartsOrdered`, `LinesUp` are the four ways `decide` begins; `Resumes` is the waiter that
gets the lock; `Judged` and `JudgeCancelled` end a judgement. `Leave` is the `finally` and
the exit of `async with`. `FirstStep`/`SecondStep` are `_decide_unlocked` before and after
the judging model in each mode; draws and verdicts are nondeterministic.

### GatewayClient and EventFeed
`runPc` is the await at which `run()` is suspended (fetching the URL, connecting, reading,
identify or resume waiting for a token, a blocked `put`, the pauses). `lastSeq`,
`sessionId`, `reconnectCount`, `queue` are the fields of the client; `inPut` is the event a
blocked `put` holds; `handed` is what `on_dispatch` got. The gateway and the network are
external: they number messages, answer or refuse identify and resume, ask for a reconnect,
invalidate sessions, and break the connection with or without the messages under way.
`EventFeed` promises a bounded buffer handed over in order, each event at most once,
dropped only by closing; the refinement maps `queue` and `inPut` to its pipe.

### Dispatch
`seen` is `_TTLSeenCache`'s dictionary as a set of keys with their expiries. Two entries
with one expiry are two calls within one tick of the model's clock, so `Oldest`, the
`min()` of `_cleanup`, may pick either (`Cleaned` is the set of possible results). `Deliver` is everything from the adapter to the first real suspension (parsing, the
duplicate check, the mark); `RecordDone`, `ReplyDone`, `LookupFinds`/`LookupMisses`,
`GreetDone` are the continuations after the database, the reply to a relation event, the
conversation manager and the welcome. `Fails` is an exception where none is caught or the
cancellation of the worker; `failed` is a history variable that notes whom it hit. Eight kinds of events stand for what parser and configuration
can make of one. Where no welcome is configured, a message is committed without the
lookup: both are possible in every state.

### EventParsing and EventStore
A payload is a record of the identifiers in it; `EventData` is what `parse_event` goes on
with when the event data holds another dictionary. Each of the constructors
(`GroupMessage`, `Interaction`, `Recall`, ...) is what one branch of `parse_event` makes of
it: scene, sender, union id, raw id, session; `SwapIds` and the two settings included.
`Parse` has the branches that can make a message, `Notice` the others.
`Target` is where the event's replies go, `ResolveScene` where commands go. `Documented`
(external) is what the platform's documentation says of an event's identifiers, for the
events that become messages (`docs/qq官方平台文档`, the field tables under `event.md` of
groups, friends and messages, and `msg-btn.md` for buttons).

In `EventStore` an event is in `look` before the SELECT of an upsert, in `write` before its
INSERT, UPDATE or nothing, in `commit` at the end. `Plan` is the set of tables the event
writes, `First` their order, `RowOf` the row of each. The database is external: a
transaction sees what is committed until its first change takes the only write lock; from
then on it sees and changes `view`, which COMMIT puts in place of `db`. `Conflict` is the
IntegrityError of an INSERT whose row came into being after the SELECT. `Fails` is a busy
database, an I/O error or a cancellation, and all three end in `RollBack`. A row holds the
events that wrote it (`by`) instead of its descriptive columns.

### Streaming and EventReplies
The text is a sequence of characters, one for each class the scanner tells apart
(`NoChar` is what it finds before the text and behind it); an answer is a sequence of
components, each a text or an image or a voice.
`SplitIndex` goes with `Scan` over the text, which is one turn of the loop of
`_find_safe_streaming_split_index` (escapes, fences, code, links, runs of markers with
their flanking rules). `ReadsText`, `PostsSegment`, `ReadsOn`, `PostsRest` and `PostsMedia`
are the stretches of `send_streaming` between two suspensions.

A *call* of `EventReplies` is one of `send()` or of a reply method (`Replies`), or the call
of `store_incoming_history_if_needed` by the handler of full group messages, which has the
name of its message. All calls run side by side, those of one event as well: nothing in the
code serialises them (a handler may leave a task behind, or gather two replies). `step` is
the next await of a call (find, create, read, write, pair). `Posted` is a reply after its
POST, where `_store_history_if_needed` looks at its two guards; `WithConversation` is the
place, one or two awaits later, where it looks whether the handler has stored the message;
`MarksEvent` sets the mark when all is written. `stored` and `incoming` are
`_qq_restapi_history_stored` and `_incoming_history_cid`, `llm` is `provider_request` and
whether the framework has recorded the model's answer. `Writes` puts the extended *copy* in
place of what is there by now; `erased` notes whose entries that took away. Two more
history variables serve the properties: an entry names the call that wrote it (`by`), and a
call notes who had recorded something of its event when it looked (`after`). The
conversation manager is external; `add_message_pair` and the framework's own recording of a
model's answer are taken to be atomic. One run has both halves: an initial state has
either an answer to stream or messages that reply, never both, since a streamed answer is
recorded by the framework.

### Templates
`registered`, `sourceCache`, `registry`, `signature` and `bodies` are the module globals. A
call goes one look at a file at a time: `Sign` (a stat of `_build_signature`), `Stat` and
`Read` (the stat and the read of `_load_source_registry`), `Give`, `Resolve`, `Open`,
`Retry`, `Search` (what the callers do with the registry). `EditRegistry` and `EditText`
are an editor, who may act between any two of these. `seen` is what each file has said
since the load began.

## 3. The runs

| Run | Question | Instance | Distinct states |
|---|---|---|---|
| `token_manager` | safety and termination of the cache and its lock | 3 tasks, margin 2 = timeout 2, lifetimes 0, 2, 5, clock to 5 | 206 856 |
| `sending` | sends over the token manager | 2 sends, margin 1 = timeout 1, lifetimes 1, 3, clock to 2 | 303 271 |
| `full_group_reply` | order, counter, cooldown, termination | 4 messages, 2 groups, every mode with and without order, 2 places in line, cooldown 2, clock to 2 | 329 002 |
| `gateway_client` | nothing lost, refinement of the feed | 4 events, queue of 1, 3 faults, 4 sessions, no reconnect limit or 2 | 66 682 |
| `dispatch` | deduplication without loss, order, termination | 3 deliveries of 3 events through both adapters, TTL 2, cache of 1, clock to 2 | 843 019 |
| `event_store` | consistency, identities, targets, termination | 3 events at once: 5 choices of users and scenes that meet, and one of every other kind next to a message and a probe; all 4 settings | 31 822 |
| `event_replies` | history of overlapping events; streamed answers | 2 messages of one chat, 2 replies to one of them and 1 to the other, all at any time, 2 conversations, 3 pairs of kinds; every text of up to 4 characters of 6 classes and 8 longer ones, cut in every place, and 2 with media | 2 088 073 |
| `templates` | freshness of the registry under edits | 2 sources, 1 name, 1 id, 1 edit of each file | 2 551 956 |
| `full_group_reply_documented` | the documented cooldown (violated) | mode smart_random without order | |
| `gateway_client_stop` | does `close()` end `run()`? (violated) | no faults, queue of 1 | |
| `dispatch_welcome` | is the welcome sent once? (violated) | 2 messages of one new user | |
| `event_store_buttons` | does a click reach the bot? (violated) | a click in a group, a private chat or a guild | |

Why the bounds are enough. *Token manager*: three tasks give a holder, a waiter and a
newcomer between release and wakeup; the lifetimes lie below the clamp, at the margin and
above it; the clock allows a token to be fetched, served and to expire. *Sending*: two
sends suffice for one to refresh between another's rejection and its retry; lifetime 1 is
never served from the cache, 3 is. *Full-group replies*: three messages in one group give a
judged one, a waiter and a refused one, and a fourth comes after the counter went down; the
clock passes the end of a cooldown. *Gateway*: a queue of one blocks the reader at the
second event; three faults are enough for a break, a refused resume and a second break in
the new session, or for a failure counter that reaches its limit. *Dispatch*: three deliveries give an
event, one that evicts it and its redelivery; with a cache of one and TTL 2 both overflow
and expiry happen. *Event store*: three transactions give a holder of the lock, one whose
SELECT is out of date and one that has not begun; each choice of payloads is a way for keys
to coincide. *Event replies*: two messages are an overlapping read and write-back; two
replies of one event, overlapping or one after the other, are the race for its flag, in
which both write; two conversations are the user's switch in between.
A text of four characters opens, fills and closes each construct; the longer ones nest
them. *Templates*: the shipped source and one plugin's, each registered, unregistered and
edited in every place of a load; a second name would be an independent copy of the first.

The bounds in the specifications themselves are `MaxTime` (clocks), `MaxSessions`,
`MaxFaults`, `MaxWire` and `NumEvents` (gateway), `NumMessages`, `NumDeliveries`,
`MaxConversations`, `MaxEdits`. Deadlock is checked in `full_group_reply`,
`token_manager`, `event_store` (whose end is the explicit step `Done`) and `templates`; the
other systems stop when their finite input is used up, so `CHECK_DEADLOCK FALSE` is set
there.

### Fairness
Weak fairness only, on what the environment owes the code. The event loop runs a ready
task. The token POST and the judgement end by their timeouts, so `Receive \/ Fail` and
`Judged \/ JudgeCancelled` are fair, never one of the two alone. The database, the
conversation manager and the REST calls answer or raise. The gateway answers identify and
resume and delivers. SQLite serves each connection in turn, so the steps of an event's
recording are fair, its failing is not. Nothing is fair that starts work: no task has to call, no event has to
arrive, no fault has to happen or not happen. An *unfair* point of the code: `_judge`
awaits the recent history before its timeout starts, with the group's lock held; the model
takes the manager to answer there.

### Where the code does not do what is said of it
* `docs/full_group_reply_modes.md:85` gives the cooldown for smart_reply and smart_random
  alike. smart_random checks it only before awaiting the model, so with
  `per_group_ordered_decision` off two messages judged side by side are both answered
  (`DocumentedCooldown`). With the order on, the cooldown holds, and this is proved.
* `close()` does not end `run()` (`StopEndsRun`): a reader blocked in `put` on the full
  queue waits for a worker that was cancelled, and a connection being opened is not closed.
  The adapter logs "adapter stopped" all the same.
* The welcome of a new user's first interaction is sent again for every message that
  arrives before the framework has opened a conversation (`WelcomeOnFirstInteraction`).
* The click on a button does not become a text message, which
  `docs/qq_restapi_modernization_review.md:574` (and `:153`) says it does. The event data has
  a dictionary under `data`, and `message_parser.py:223` goes on with that dictionary alone,
  in which there is neither a session nor a user (`ButtonsReachTheBot`).

Met while modelling, without a run of their own:

* `docs/full_group_reply_modes.md:12` has every message of a group in the history. An
  overlapping write-back erases entries (`erased` in `EventReplies`).
* `_qq_restapi_history_stored` is looked at before the first await of
  `_store_history_if_needed` (`qq_restapi_event.py:334`) and set after the last (`:377`,
  `:385`): replies of one event that overlap write a pair each. `EntriesOnce` therefore says
  what the flag does achieve. It forbids the second answer to a reply that looked after the
  first was recorded, and a second copy of the message to one that was still to learn its
  conversation when the message was stored.
* The other two writers of a message do not look for replies: a handler that stores an
  ambient message after an early reply writes it a second time, and the framework records
  its pair beside that of a reply sent before `provider_request` was set.
* `reply()` and its kind record an answer whose POST failed; `send()` does not.
* Media of a streamed answer overtake the text that waits in the buffer, and a segment
  whose POST fails is gone.
* With the default settings `_swap_ids` stores the id of the scene as `union_openid` when the
  event carries none, so one person can have several identity rows, against
  `docs/database-architecture.md:132` (one id across scenes). `UsersAreKeptApart` holds: no
  row has two people.
* An event that loses the race for a first row is rolled back with its log entry. Foreign
  keys are declared and never enforced; `StoreIsConsistent` shows that none dangles.
* The body of a template is cached for ever, while `README.md:18` and `:30` promise hot
  reloading; for the registry it holds.
* For events that are not messages, `resolve_scene` and the target of a reply differ; no
  command is run for them.

## 4. What is proved

For every number of tasks, messages and groups, every configuration, every set of
lifetimes, every payload and every text (41 theorems resting on 244 lemmas):

* **TokenManagerProofs**: `TypeCorrect`, `OneRequestAtATime`, `CachedHitsAreLive`,
  `GetTokenReplacesOnlyStale`, `TokensAreStoredInOrder`. Only `SingleFlight` is inductive
  alone. What the cache promises depends on *when* the request that filled it was sent, so
  `IInv` adds: a POST is no older than its timeout and its token was issued during it
  (`RequestTimed`); the local expiry is ahead of the server's by at most that delay, or is
  the clamp's one second (`ExpiryBounded`); whoever is asking asked after the cached token
  was issued (`CacheOlderThanRequests`); `get_token` asks only while the token is stale
  (`StaleWhileAsking`). The assumption is `Timeout <= Margin` (10 s per phase of the
  request against 60 s) with a positive margin.
* **SendingProofs**: `UsesTokenManager` shows that the sends implement `TokenManager`'s
  `Spec`, so `IInv` holds under them. Every step of a send has one of five *shapes* (a new
  POST or the end, a POST that gets its token, a rejection, a refresh that brought too
  short a token, no move), and `ShownAtMostOnce`, `ResultIsTrue` and the types follow shape
  by shape from what a record says of its send (`Honest`). `RetryCarriesNewToken` needs
  `RetryInv`: the refresh was asked for after the rejection, hence its token was issued
  after it, and from then on the cache holds that token or a later one
  (`CacheMovesForward`), whoever else refreshes.
* **FullGroupReplyProofs**: `TypeCorrect`, `OneJudgement`, `ArrivalOrderIsDecisionOrder`,
  `CounterIsExact`, `CooldownIsKept`. Each step of `decide` is one of five *moves* on the
  line of a group (passing, entering, being admitted, leaving, judged beside the line
  without order). The invariant says that holder and waiters of a lock are exactly the
  messages of its group in line, sorted by arrival (`Line`). The counter follows from how
  each move changes the set of messages in line; the cooldown from `CooldownIsHeld`: while
  smart_random judges under the lock, no other message of the group can be answered.

* **DispatchProofs**: `RepeatsAreRare`, `MessagesArrive`, `GatewayOrder` and the types
  with the bound of the cache. The inductive part of the first (`InvCache`) says of *every*
  accept of the past that it is in the cache with its expiry, or expired, or followed by
  `MaxKeys` other events. Evicting the oldest keeps that, because whatever stays in a full
  cache came after it. `InvTasks` has at most one task of the gateway suspended. What is
  dropped as a duplicate (`NoMessageIsSwallowed`) is safe because of what `InvMessages` adds:
  every key in the cache stands for a delivery that still carries the message, has committed
  it or has failed, so whoever finds the key may stop. Eviction only takes keys away, and a
  task that carries a message never ends without committing it or failing.
* **GatewayClientProofs**: `NothingAcknowledgedIsLost`, `ResumePoint`, `GivesUpAtLimit`, and
  `ClientImplementsFeed`, the refinement of `EventFeed`. The message at place i of the wire
  has number `Offset + i`, where the offset depends on whether a session begins, resumes or
  goes on (`InvWire`); what the client received comes before what is still to come of the
  session, and below `lastSeq` nothing is missing (`InvLog`). `InvLink` says in which phase of
  a connection something can be under way at all.
* **EventStoreProofs**: `StoreTypesCorrect` and `DatabaseConsistent`, for which the parser is
  never looked into, and `UsersApart` and `OneTarget`, which are about it (below). `StoreInv` has the committed database and the view of the
  writer both consistent, the view covering what is committed; a row that an event has found
  or written is there for it, since no row is ever deleted; the log is written last.
* **EventRepliesProofs**: `NothingTwice` and `NothingIsMissing`, and of the streamed answer
  `WholeStream`, `CutsAnyway`, `SplitExtends` (below). A copy that a call holds
  between reading and writing back is as good as a conversation, so the invariant speaks of
  every history `Kept` anywhere. Since the replies of one event may overlap, it goes by who
  wrote an entry: an entry that stands anywhere was `Wrote` by a call that has recorded (so a
  call that has not can add it), stands once in each history that has it, and all of these
  are of one conversation (`OnceAt`). `Fits` relates the record of a call to the marks of its
  event: a reply under way had seen no reply recorded, and has `after = {}` if it is about to
  write the message. An answer comes after its message (`OrderAt`) and what was recorded is
  there (`KeptAt`), unless a write-back erased something of it. Each action that writes is
  shown to be one way to add entries to a kept history (`Adds`), and `AddsKeep` is proved
  once for all of them.
* **TemplatesProofs**: `RegistryFresh` and the types. A modification time identifies a
  content: what was read after a time was noted is what the file says as long as it still
  has that time (`InvSources`, `Known`). A cached registry keeps a witness of what each source
  said; as far as its signature has been found again during a call, that witness is what
  the files said during the call (`InvCached`), and a merge under way has one up to its
  place in the loop (`InvLoading`).

### The parser and the rows of users
`StoreInv` says of every row that each event that wrote it asked for exactly this row. What
`UsersApart` adds is about `parse_event` alone: branch by branch, an event that writes a
row of a user asks for it under an identifier in `NamesOf` its payload (`UserColumns`), so
two events that wrote one row share an identifier (`RowNames`). `OneTarget` goes through
the branches that can make a message (`SameTarget`): the others are rejected or of type
"other" (`NoticesAreNotCommitted`), and so is whatever hides its identifiers in an inner
dictionary (`HiddenIsNotCommitted`). Both rest on `PlatformAssumption`: events carry the
identifiers `Documented` lists, and two payloads that name their users by one identifier
mean one person. The second half is what openids are: each scene numbers its users, and
neither two scenes nor two people share a number. The code cannot make either true, so both
are assumptions on the constant, and TLC evaluates them on the payloads of the runs.

### The stream
`WholeStream` needs no strengthening but the types (`InvStream`); its work is in lemmas on
`FlattenSeq`, `Strip` and concatenation. `CutsAnyway` does. Its argument:

1. *What follows an end does not matter.* A run of markers is judged by the characters on
   both sides of it. If it comes before the end of a sentence that `SplitIndex` finds, both
   are there already, so the states of the scanner on a text and on a longer one agree up to
   that end (`ScanSame`, `FindsFirst`). What is found is the last of a run of ends, and this
   run alone can be longer in the longer text.
2. Hence `SplitExtends`: with more text, the cut stays or moves within the run, and in the
   second case the rest of the run is a cut of its own behind the first.
3. `CutStep` says the same of the cuts of the whole text from some position on, and
   `InvCuts` carries it through the stream: the cuts made so far and those of the rest of
   the text are the ones of the whole text, except some within a run; the buffer and what
   is not yet generated are that rest; while more is read, no end is left in the buffer.

The scanner, the cuts and `FlattenSeq` are recursive functions. Their values are not
proved by the library's induction, which takes an operator as a parameter; a set of numbers
is used in its place: the least number for which a claim fails (`Least`), or a set of
positions closed under successor (`Upward`). `Answers` may be any set of sequences of
components (`RepliesAssumption`), so the texts are of any length and over any characters.

### What is only model-checked
The liveness properties (`EveryCallReturns`, `EverySendEnds`, `EveryMessageIsDecided`,
`EventsArrive`, `EveryDeliveryEnds`, `EveryRecordEnds`), since the prover does not handle
`ENABLED`, and the four violations, which are counterexamples. Every invariant and every
action property of a passing run has a theorem.

## 5. Assumptions and what is left out

* The framework does not cancel a task that waits in line for a lock. A cancelled judgement
  is modelled.
* A request ends within its timeout. httpx applies `timeout=10` per phase, so the true
  bound of a slow request is a few times that, still below the margin of 60.
* `close()` is called once; the heartbeat changes no state of the client and is left out.
* The HTTP layer of the webhook (signature, validation) is a function of one request.
* The event table of `auto_events.py`, texts, prompts, payloads, keyboards and endpoints
  are data no property depends on.
* `recall_message` is one DELETE without a retry; `httpx_pool.aclose` has no caller.
* Each edit of a registry has a modification time of its own, files are not deleted, the
  shipped registry exists and every entry names a file. (A file that is deleted and comes
  back with its old time would be served from the cache.)
* The framework's own write of a model's answer into the history is one step.
* Events carry the identifiers that the platform documents for their type, and an identifier
  names one person (`PlatformAssumption`).
* `_resolve_registry_path` gives a directory that has no registry file yet no path at all, and
  such a source stays empty until it is registered again; `Templates` has only sources whose
  file exists when they are registered.
* `send_streaming` with `use_fallback=False` collects the whole answer and sends it once; the
  model has the other branch.
* A source registered before the first load comes before the shipped one, whose entries
  then win; `Register` allows it in every order.

### Not modelled
* Payloads, keyboards, ARK cards, image beds and markdown rendering: text of one request.
  Of an answer with several images only the first is sent; no property is about it.
* Sends after a delay and recalls: one request without a retry and without state.
* The heartbeat of the gateway: it sends, and nothing looks at what comes back.
* The signature check and the validation answer of the webhook: functions of one request.
* `httpx_pool` and `last_message_cache`: a client made once under a lock, a dictionary with
  one writer per key; `aclose` has no caller.
* Commands, configuration, opening and closing of the database in `main.py`; the re-exports
  of `public_api.py`, `framework_compat.py`, `context.py` and `core/qq/`.

## 6. How the parts compose

`Sending` runs on `TokenManager`, `EventStore` on `EventParsing`, `EventReplies` next to
`Streaming` in one chat; the gateway client is used by dispatch only through what
`EventFeed` promises (in order, at most once), which is how `Dispatch` takes its deliveries
from the gateway: one at a time. Dispatch hands over to the full-group controller and to
the event's history through the framework's queue, whose order is that of `committed`;
since the controller promises nothing about the history once `decide` has returned,
`EventReplies` lets the messages of a chat overlap in every way, which includes every order
the controller can produce.
