---------------------------- MODULE EventParsing ----------------------------
(***************************************************************************)
(* runtime/message_parser.py and utils/scene.py: the kind, the scene, the  *)
(* session and the user that an event of the platform gets, and the chat   *)
(* its replies go to.  Texts, mentions and attachments are left out.       *)
(*                                                                         *)
(* A payload is a record of the identifiers in the event data (None where  *)
(* the field is missing or empty; a field that has several names is one):  *)
(*   t      the type of the event                                          *)
(*   uid    the user, in the numbering of the scene; union: union_openid   *)
(*   op     the operator of a management event                             *)
(*   group, guild, channel                                                 *)
(*   chat   of a button event: chat_type and scene, or the probe of type   *)
(*          13; None otherwise                                             *)
(*   inner  the event data has a dictionary under data or event_data that  *)
(*          holds none of these (what the pressed button answers)          *)
(* and, for the properties alone, who: the human being behind uid (or op). *)
(***************************************************************************)
EXTENDS Naturals, Sequences

CONSTANT None       \* no identifier; also the empty string

Or(a, b) == IF a # None THEN a ELSE b

\* What parse_event goes on with: a dictionary found inside the event data
\* replaces it, whatever else the data holds.
EventData(p) ==
    IF p.inner
    THEN [t |-> p.t, uid |-> None, union |-> None, op |-> None, group |-> None,
          guild |-> None, channel |-> None,
          chat |-> IF p.chat = "probe" THEN "probe" ELSE None]
    ELSE p

\* The platform (external): which identifiers it documents for the events that
\* become messages; a button event carries its answer under data.
Documented(p) ==
    LET Is(types) == p.t \in types
        InGroup == Is({"GROUP_AT_MESSAGE_CREATE", "GROUP_MESSAGE_CREATE",
                       "GROUP_ADD_ROBOT", "GROUP_DEL_ROBOT"})
    IN  /\ InGroup => p.group # None
        /\ InGroup \/ Is({"C2C_MESSAGE_CREATE", "FRIEND_ADD", "FRIEND_DEL"}) =>
              p.guild = None /\ p.channel = None
        /\ Is({"GROUP_ADD_ROBOT", "GROUP_DEL_ROBOT"}) => p.uid = None
        /\ Is({"AT_MESSAGE_CREATE", "MESSAGE_CREATE"}) => p.channel # None
        /\ Is({"DIRECT_MESSAGE_CREATE"}) => p.guild # None
        /\ Is({"INTERACTION_CREATE"}) => p.inner

\* The identifiers by which a payload names its user.
NamesOf(p) == {p.union, Or(p.uid, p.op)} \ {None}

-----------------------------------------------------------------------------
(* The users of an event and the message made of it.                        *)

Users(sender, union, raw) == [sender |-> sender, union |-> union, raw |-> raw]
Nobody == Users(None, None, None)

\* _swap_ids: with the setting on, the union id names the sender, and the
\* id of the scene takes its place.
SwapIds(uid, union, use) ==
    IF use /\ union # None THEN Users(union, uid, uid)
                           ELSE Users(uid, Or(union, uid), uid)

Message(type, scene, users, group, guild, channel, session) ==
    [type |-> type, scene |-> scene, sender |-> users.sender,
     union |-> users.union, raw |-> users.raw, group |-> group, guild |-> guild,
     channel |-> channel, session |-> session, ignored |-> FALSE]

GroupMessage(d, use) ==
    Message("group", "group", SwapIds(d.uid, d.union, use.group),
            d.group, None, None, d.group)

GroupSetting(d) ==
    Message("other", "group_msg_setting", Users(d.op, None, None),
            d.group, None, None, d.group)

ChannelMessage(d, use) ==
    Message("group", "channel", SwapIds(d.uid, d.union, use.channel),
            d.channel, d.guild, d.channel, d.channel)

DirectMessage(d, use) ==
    LET users == SwapIds(d.uid, d.union, use.group)
    IN  Message("friend", "c2c", users, None, None, None, users.sender)

ChannelDirectMessage(d, use) ==
    LET users == SwapIds(d.uid, d.union, use.channel)
    IN  Message("friend", "channel_dm", users, None, d.guild, d.channel,
                Or(d.guild, users.sender))

\* A button: no union_openid and no raw id are set.
Interaction(d) ==
    LET user == Users(d.uid, None, None)
    IN  CASE d.chat = "probe" ->
               [Message("group", None, Nobody, None, None, None, None)
                    EXCEPT !.ignored = TRUE]
          [] d.chat = "group" \/ (d.chat \notin {"probe", "c2c"} /\ d.group # None) ->
               Message("group", "group", user, d.group, None, None, d.group)
          [] OTHER ->
               Message("friend", "c2c", user, None, None, None, d.uid)

Reaction(d) ==
    Message("other", "reaction", Users(d.uid, None, d.uid),
            None, d.guild, d.channel, Or(d.channel, d.guild))

Audit(d) ==
    Message("other", "audit", Nobody, None, d.guild, d.channel, Or(d.channel, d.guild))

RobotMoved(d) ==
    Message("group", "group", Users(d.op, d.op, d.op), d.group, None, None, d.group)

\* Mutant: the operator is taken for the member.
OperatorMoved(d) ==
    Message("other", "group", Users(d.op, d.op, d.op), d.group, None, None, d.group)

MemberMoved(d) ==
    Message("other", "group", Users(d.uid, d.uid, d.uid), d.group, None, None, d.group)

FriendChanged(d) ==
    Message("friend", "c2c", Users(d.uid, d.uid, d.uid), None, None, None, d.uid)

GuildChanged(d) ==
    Message("other", "guild", Users(d.op, None, None), None, d.guild, None, d.guild)

ChannelChanged(d) ==
    Message("other", "channel_event", Users(d.op, None, None),
            None, d.guild, d.channel, Or(d.channel, d.guild))

GuildMember(d) ==
    Message("other", "guild_member", Users(d.uid, d.union, d.uid),
            None, d.guild, None, d.guild)

Forum(d) ==
    Message("other", "forum", Users(d.uid, None, d.uid),
            None, d.guild, d.channel, Or(d.channel, d.guild))

Recall(d) ==
    Message("other",
            IF d.t = "PUBLIC_MESSAGE_DELETE" THEN "channel_recall" ELSE "channel_dm_recall",
            Users(d.op, None, None), None, d.guild, d.channel, Or(d.channel, d.guild))

Subscription(d) ==
    Message("other", "subscribe", Users(d.uid, d.union, d.uid), None, None, None, d.uid)

Audio(d) ==
    Message("other", "audio", Users(Or(d.uid, d.op), d.union, d.uid),
            None, d.guild, d.channel, Or(d.channel, d.guild))

Unknown == Message("group", None, Nobody, None, None, None, None)

ForumEvents ==
    {"OPEN_FORUM_THREAD_CREATE", "OPEN_FORUM_THREAD_UPDATE", "OPEN_FORUM_THREAD_DELETE",
     "OPEN_FORUM_POST_CREATE", "OPEN_FORUM_POST_DELETE",
     "OPEN_FORUM_REPLY_CREATE", "OPEN_FORUM_REPLY_DELETE"}

AudioEvents ==
    {"AUDIO_START", "AUDIO_FINISH", "AUDIO_ON_MIC", "AUDIO_OFF_MIC",
     "AUDIO_OR_LIVE_CHANNEL_MEMBER_ENTER", "AUDIO_OR_LIVE_CHANNEL_MEMBER_EXIT"}

\* parse_event, for what the platform reports without a message for the bot.
Notice(d) ==
    LET Is(types) == d.t \in types
    IN  CASE Is({"GROUP_MSG_REJECT", "GROUP_MSG_RECEIVE"}) -> GroupSetting(d)
          [] Is({"MESSAGE_REACTION_ADD", "MESSAGE_REACTION_REMOVE"}) -> Reaction(d)
          [] Is({"MESSAGE_AUDIT_PASS", "MESSAGE_AUDIT_REJECT"}) -> Audit(d)
          [] Is({"GROUP_MEMBER_ADD", "GROUP_MEMBER_REMOVE"}) -> MemberMoved(d)
          [] Is({"GUILD_CREATE", "GUILD_UPDATE", "GUILD_DELETE"}) -> GuildChanged(d)
          [] Is({"CHANNEL_CREATE", "CHANNEL_UPDATE", "CHANNEL_DELETE"}) -> ChannelChanged(d)
          [] Is({"GUILD_MEMBER_ADD", "GUILD_MEMBER_UPDATE", "GUILD_MEMBER_REMOVE"}) ->
               GuildMember(d)
          [] Is(ForumEvents) -> Forum(d)
          [] Is({"PUBLIC_MESSAGE_DELETE", "DIRECT_MESSAGE_DELETE"}) -> Recall(d)
          [] Is({"SUBSCRIBE_MESSAGE_STATUS", "C2C_MSG_REJECT", "C2C_MSG_RECEIVE"}) ->
               Subscription(d)
          [] Is(AudioEvents) -> Audio(d)
          [] OTHER -> Unknown

\* parse_event, with the settings use_union_id_for_group and _for_channel.
Parse(p, use) ==
    LET d == EventData(p)
        Is(types) == d.t \in types
    IN  CASE Is({"GROUP_AT_MESSAGE_CREATE", "GROUP_MESSAGE_CREATE"}) -> GroupMessage(d, use)
          [] Is({"AT_MESSAGE_CREATE", "MESSAGE_CREATE"}) -> ChannelMessage(d, use)
          [] Is({"C2C_MESSAGE_CREATE"}) -> DirectMessage(d, use)
          [] Is({"DIRECT_MESSAGE_CREATE"}) -> ChannelDirectMessage(d, use)
          [] Is({"INTERACTION_CREATE"}) -> Interaction(d)
          [] Is({"GROUP_ADD_ROBOT", "GROUP_DEL_ROBOT"}) -> RobotMoved(d)
          [] Is({"FRIEND_ADD", "FRIEND_DEL"}) -> FriendChanged(d)
          [] OTHER -> Notice(d)

-----------------------------------------------------------------------------
(* Dispatch: what becomes of the message.                                   *)

\* _ensure_session_id: the first identifier the message has.
Session(m) == Or(m.session, Or(m.group, Or(m.channel, Or(m.guild, m.sender))))

\* handle_qq_payload goes on with the event: neither a probe nor a message
\* without a session.
Accepted(m) == ~m.ignored /\ (m.type = "other" \/ Session(m) # None)

\* _should_commit_to_astrbot.
Committed(m) == Accepted(m) /\ m.type \in {"group", "friend"}

-----------------------------------------------------------------------------
(* The chat an answer goes to.                                              *)

Chat(scene, id) == [scene |-> scene, id |-> id]

\* Mutant: a private chat of a guild is answered in the channel it came from.
ChannelTarget(m) ==
    CASE m.channel # None -> Chat("channel", m.channel)
      [] m.channel = None /\ m.guild # None -> Chat("channel_dm", m.guild)
      [] m.channel = None /\ m.guild = None /\ m.group # None -> Chat("group", m.group)
      [] OTHER -> Chat("c2c", m.sender)

\* _target_from_message_obj: used by the replies of the event.
Target(m) ==
    CASE m.scene = "channel_dm" -> Chat("channel_dm", m.guild)
      [] m.scene = "channel" -> Chat("channel", m.channel)
      [] m.scene = "group" -> Chat("group", m.group)
      [] m.scene = "c2c" -> Chat("c2c", m.sender)
      [] OTHER ->
           CASE m.guild # None -> Chat("channel_dm", m.guild)
             [] m.channel # None -> Chat("channel", m.channel)
             [] m.group # None -> Chat("group", m.group)
             [] OTHER -> Chat("c2c", m.sender)

\* resolve_scene: used by commands.  It reads the identifiers of the channel
\* from the payload, those of the group and the user from the message.  (A
\* dm_id of its own, which the platform's events do not have, is left out.)
ResolveScene(p, m) ==
    IF m.type = "friend" /\ p.guild # None THEN Chat("channel_dm", p.guild)
    ELSE IF p.channel # None THEN Chat("channel", p.channel)
    ELSE IF m.group # None THEN Chat("group", m.group)
    ELSE IF p.guild # None THEN Chat("channel_dm", p.guild)
    ELSE IF m.sender # None THEN Chat("c2c", m.sender)
    ELSE Chat("error", None)

=============================================================================
