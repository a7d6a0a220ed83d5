---------------------------- MODULE EventReplies ----------------------------
(***************************************************************************)
(* runtime/qq_restapi_event.py: what replies and unanswered group messages *)
(* leave in the conversation history, for the messages of one chat.  The   *)
(* messages are handled at the same time, and so are the replies to one    *)
(* message: nothing serialises the calls of an event.  Each of them awaits *)
(* the framework's conversation manager (external) at every step; a        *)
(* history is read, extended and written back by two different calls.  A   *)
(* streamed answer (Streaming) is the framework's to record.               *)
(***************************************************************************)
EXTENDS Streaming, FiniteSets

CONSTANTS
    Messages,           \* the events of the chat
    Replies,            \* the calls of send() and of the reply methods
    Of,                 \* the event that each of them answers
    Framework,          \* the framework, which records the model's answers
    Kinds,              \* the possible kinds: functions from Messages
    Answers,            \* the possible streamed answers; << >>: none
    MaxConversations    \* bounds UserResets

\* A message of a group that is not for the bot, one with the wake prefix,
\* and any other event (mentions, private chats).
MessageKinds == {"ambient", "prefixed", "direct"}

ASSUME RepliesAssumption ==
    /\ \A kinds \in Kinds : kinds \in [Messages -> MessageKinds]
    /\ Of \in [Replies -> Messages] /\ Replies \cap Messages = {}
    /\ Framework \notin Replies \cup Messages
    /\ MaxConversations \in Nat \ {0}
    /\ Answers \subseteq Seq(Components)

\* The call of the handler that stores a message has the name of the message.
Calls == Replies \cup Messages
MessageOf(c) == IF c \in Replies THEN Of[c] ELSE c

VARIABLES
    convs,          \* the conversations of the chat: a sequence of histories
    current,        \* the one in use; 0: none
    kind,           \* the kind of each message
    event,          \* the marks of each event
    call,           \* where each call is
    erased          \* history: messages of which a write-back erased an entry

replyVars == << convs, current, kind, event, call, erased >>
allVars == << replyVars, streamVars >>

\* An entry also tells who wrote it, which the history in the code does not.
Entry(role, m, by) == [role |-> role, of |-> m, by |-> by]
User(m, by) == Entry("user", m, by)
Assistant(m, by) == Entry("assistant", m, by)
Pair(m, by) == << User(m, by), Assistant(m, by) >>
Entries == [role : {"user", "assistant"}, of : Messages, by : Calls \cup {Framework}]

\* stored and incoming are _qq_restapi_history_stored and _incoming_history_cid;
\* llm tells whether provider_request is set, and the model's answer recorded.
EventRecord == [stored : BOOLEAN, incoming : Nat, llm : {"no", "asked", "recorded"}]

NewEvent == [stored |-> FALSE, incoming |-> 0, llm |-> "no"]

\* step: what the call awaits next, or how it has ended.  after is a history: who
\* had recorded something of the event when the call looked at its marks.
CallRecord ==
    [step : {"coming", "find", "create", "read", "write", "pair", "recorded", "over"},
     cid : Nat, copy : Seq(Entries), after : SUBSET (Calls \cup {Framework})]

NewCall == [step |-> "coming", cid |-> 0, copy |-> << >>, after |-> {}]

Init ==
    /\ convs = << >> /\ current = 0 /\ erased = {}
    /\ kind \in Kinds
    /\ event = [m \in Messages |-> NewEvent]
    /\ call = [c \in Calls |-> NewCall]
    /\ answer \in Answers
    /\ stream = IF answer = << >> THEN NoStream ELSE NewStream(answer)

-----------------------------------------------------------------------------

Becomes(c, k) == call' = [call EXCEPT ![c] = k]

\* A call that has ended without recording.
Ended == [NewCall EXCEPT !.step = "over"]

\* Who has recorded something of the event m, or is sure to: the framework as
\* soon as the model is asked.
Recorders(m) ==
    {c \in Calls : MessageOf(c) = m /\ call[c].step = "recorded"}
        \cup (IF event[m].llm = "no" THEN {} ELSE {Framework})

\* A handler, or a task that it has left behind, has posted an answer.  send()
\* records a text that went out, reply() and its kind record in any case; neither
\* does when the model answers or a reply of the event is already recorded.
Posted(r) ==
    /\ call[r].step = "coming"
    /\ \/ Becomes(r, Ended)
       \/ /\ event[Of[r]].llm = "no" /\ ~event[Of[r]].stored
          /\ Becomes(r, [NewCall EXCEPT !.step = "find", !.after = Recorders(Of[r])])
    /\ UNCHANGED << convs, current, kind, event, erased >>

\* qq_restapi_full_group_history: an ambient message that gets no reply is
\* stored; one with the prefix is left to the framework, and so is one that
\* the controller wants answered.
HandlerRuns(m) ==
    /\ call[m].step = "coming"
    /\ \/ Becomes(m, Ended) /\ event' = [event EXCEPT ![m].llm = "asked"]
       \/ /\ kind[m] = "ambient"
          /\ Becomes(m, [NewCall EXCEPT !.step = "find"]) /\ UNCHANGED event
       \/ kind[m] # "ambient" /\ Becomes(m, Ended) /\ UNCHANGED event
    /\ UNCHANGED << convs, current, kind, erased >>

-----------------------------------------------------------------------------

\* Mutant: the answer goes to the conversation that is in use by now.
WithCurrentConversation(c, cid) ==
    [call[c] EXCEPT !.cid = cid, !.step = IF c \in Messages \/ event[MessageOf(c)].incoming # 0
                                          THEN "read" ELSE "pair"]

\* Where the entry goes, once the conversation in use is known: the reply to
\* a stored message goes to the conversation of the message.  Here the reply
\* looks for the first time whether the handler has stored the message.
WithConversation(c, cid) ==
    LET m == MessageOf(c)
        k == [call[c] EXCEPT !.after = @ \cup (Recorders(m) \cap {m})]
    IN  IF c \in Messages THEN [call[c] EXCEPT !.cid = cid, !.step = "read"]
        ELSE IF event[m].incoming # 0
             THEN [k EXCEPT !.cid = event[m].incoming, !.step = "read"]
             ELSE [k EXCEPT !.cid = cid, !.step = "pair"]

\* Mutant: no conversation is opened for a chat that has none.
FindsOnly(c) ==
    /\ call[c].step = "find"
    /\ Becomes(c, WithConversation(c, current))
    /\ UNCHANGED << convs, current, kind, event, erased >>

\* get_curr_conversation_id.
Finds(c) ==
    /\ call[c].step = "find"
    /\ Becomes(c, IF current = 0 THEN [call[c] EXCEPT !.step = "create"]
                                 ELSE WithConversation(c, current))
    /\ UNCHANGED << convs, current, kind, event, erased >>

\* new_conversation, which becomes the one in use.
Creates(c) ==
    /\ call[c].step = "create"
    /\ convs' = Append(convs, << >>)
    /\ current' = Len(convs) + 1
    /\ Becomes(c, WithConversation(c, Len(convs) + 1))
    /\ UNCHANGED << kind, event, erased >>

\* get_conversation.
Reads(c) ==
    /\ call[c].step = "read"
    /\ Becomes(c, [call[c] EXCEPT !.step = "write", !.copy = convs[call[c].cid]])
    /\ UNCHANGED << convs, current, kind, event, erased >>

\* Mutant: the flag is set only where the pair is written.
MarksWithPair(c) ==
    IF c \in Messages THEN [event[c] EXCEPT !.incoming = call[c].cid]
    ELSE [event[Of[c]] EXCEPT !.stored = @ \/ call[c].step = "pair"]

\* The mark that a call leaves at its event when it has recorded.
MarksEvent(c) ==
    IF c \in Messages THEN [event[c] EXCEPT !.incoming = call[c].cid]
    ELSE [event[Of[c]] EXCEPT !.stored = TRUE]

Records(c) ==
    /\ event' = [event EXCEPT ![MessageOf(c)] = MarksEvent(c)]
    /\ Becomes(c, [call[c] EXCEPT !.step = "recorded", !.cid = 0, !.copy = << >>])

\* What the call adds to the history that it has read.
Written(c) == IF c \in Messages THEN User(c, c) ELSE Assistant(Of[c], c)

\* update_conversation puts the extended copy in place of what is there by now.
Writes(c) ==
    LET k == call[c]
    IN  /\ k.step = "write"
        /\ convs' = [convs EXCEPT ![k.cid] = Append(k.copy, Written(c))]
        /\ erased' = erased \cup {entry.of : entry \in ToSet(convs[k.cid]) \ ToSet(k.copy)}
        /\ Records(c)
        /\ UNCHANGED << current, kind >>

\* add_message_pair (external): both entries at once.
AddsPair(c) ==
    /\ call[c].step = "pair"
    /\ convs' = [convs EXCEPT ![call[c].cid] = @ \o Pair(MessageOf(c), c)]
    /\ Records(c)
    /\ UNCHANGED << current, kind, erased >>

\* An exception of the conversation manager is swallowed.
Fails(c) ==
    /\ call[c].step \in {"find", "create", "read", "write", "pair"}
    /\ Becomes(c, Ended)
    /\ UNCHANGED << convs, current, kind, event, erased >>

\* The model has answered: the framework records the pair (external; taken to
\* be atomic).
Ends(m) ==
    /\ event[m].llm = "asked"
    /\ IF current = 0
       THEN convs' = Append(convs, Pair(m, Framework)) /\ current' = Len(convs) + 1
       ELSE convs' = [convs EXCEPT ![current] = @ \o Pair(m, Framework)] /\ UNCHANGED current
    /\ event' = [event EXCEPT ![m].llm = "recorded"]
    /\ UNCHANGED << kind, call, erased >>

\* The user of the chat starts a new conversation.
UserResets ==
    /\ current # 0 /\ Len(convs) < MaxConversations
    /\ convs' = Append(convs, << >>)
    /\ current' = Len(convs) + 1
    /\ UNCHANGED << kind, event, call, erased >>

GoesOn(c) == Finds(c) \/ Creates(c) \/ Reads(c) \/ Writes(c) \/ AddsPair(c) \/ Fails(c)

Handles ==
    \/ \E r \in Replies : Posted(r)
    \/ \E m \in Messages : HandlerRuns(m) \/ Ends(m)
    \/ \E c \in Calls : GoesOn(c)
    \/ UserResets

\* A chat whose answer is streamed, or one whose handlers reply.
Next ==
    \/ stream = NoStream /\ Handles /\ UNCHANGED streamVars
    \/ Streams /\ UNCHANGED replyVars

Spec == Init /\ [][Next]_allVars

-----------------------------------------------------------------------------

\* Types; the conversation of a stored message exists.
TypeOK ==
    /\ convs \in Seq(Seq(Entries)) /\ current \in 0 .. Len(convs)
    /\ event \in [Messages -> EventRecord]
    /\ call \in [Calls -> CallRecord]
    /\ \A m \in Messages : event[m].incoming \in 0 .. Len(convs)
    /\ \A c \in Calls :
          /\ call[c].cid \in 0 .. Len(convs)
          /\ call[c].step \in {"read", "write", "pair"} => call[c].cid # 0
    /\ erased \subseteq Messages

\* Where entries are, as pairs of a conversation and a position in it.
Places == UNION {{c} \X DOMAIN convs[c] : c \in DOMAIN convs}
EntryAt(p) == convs[p[1]][p[2]]

\* No call puts what it writes into the history twice, wherever the histories are
\* copied; and what a reply writes, the answer or the message with it, stands
\* beside another one of the same event only if the two calls overlapped: had
\* the other been recorded when this one looked (_store_history_if_needed looks
\* for replies before its first await, for the stored message after it has the
\* conversation), it would have written nothing.  The handler and the framework
\* do not look for replies, and write theirs in any case.
EntriesOnce ==
    \A p, q \in Places :
        /\ EntryAt(p) = EntryAt(q) => p = q
        /\ /\ EntryAt(p).by \in Replies
           /\ EntryAt(q).role = EntryAt(p).role /\ EntryAt(q).of = EntryAt(p).of
           => EntryAt(q).by \notin call[EntryAt(p).by].after

\* What is recorded stays: the message is in its conversation, each recorded
\* reply is somewhere, and every answer follows the message in its conversation,
\* even when another conversation has come into use in between.  Only an
\* overlapping write-back takes entries away.
HistoryIsComplete ==
    \A m \in Messages \ erased :
        /\ event[m].incoming # 0 => User(m, m) \in ToSet(convs[event[m].incoming])
        /\ \A r \in Replies : Of[r] = m /\ call[r].step = "recorded" =>
              \E p \in Places : EntryAt(p) = Assistant(m, r)
        /\ \A p \in Places : EntryAt(p).role = "assistant" /\ EntryAt(p).of = m =>
              \E q \in Places :
                 q[1] = p[1] /\ q[2] < p[2] /\ EntryAt(q).role = "user" /\ EntryAt(q).of = m

=============================================================================
