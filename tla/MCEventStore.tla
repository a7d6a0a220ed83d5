---------------------------- MODULE MCEventStore ----------------------------
(* Instances of EventStore for TLC. *)
EXTENDS EventStore, TLC

CONSTANTS e1, e2, e3

MCEvents == {e1, e2, e3}

Payload(fields) ==
    fields @@ [uid |-> None, union |-> None, op |-> None, group |-> None, guild |-> None,
               channel |-> None, chat |-> None, inner |-> FALSE, who |-> None]

\* Two people: ann, known to the bot's friends as "ann", to the group as
\* "ann-m" and to guilds as "ann-r"; bob likewise.
AnnC2C == Payload([t |-> "C2C_MESSAGE_CREATE", uid |-> "ann", union |-> "ann", who |-> "ann"])
AnnGroup == Payload([t |-> "GROUP_MESSAGE_CREATE", uid |-> "ann-m", union |-> "ann",
                     group |-> "G", who |-> "ann"])
AnnGroupBare == [AnnGroup EXCEPT !.union = None]
AnnChannel == Payload([t |-> "AT_MESSAGE_CREATE", uid |-> "ann-r", union |-> "ann",
                       guild |-> "U", channel |-> "C", who |-> "ann"])
AnnChannelBare == [AnnChannel EXCEPT !.union = None]
AnnDirect == [AnnChannel EXCEPT !.t = "DIRECT_MESSAGE_CREATE"]
BobGroup == [AnnGroup EXCEPT !.uid = "bob-m", !.union = "bob", !.who = "bob"]
BobChannel == [AnnChannel EXCEPT !.uid = "bob-r", !.union = "bob", !.who = "bob"]

AnnJoins == Payload([t |-> "GROUP_MEMBER_ADD", uid |-> "ann-m", op |-> "bob-m",
                     group |-> "G", who |-> "ann"])
BobAddsBot == Payload([t |-> "GROUP_ADD_ROBOT", op |-> "bob-m", group |-> "G", who |-> "bob"])
AnnInGuild == Payload([t |-> "GUILD_MEMBER_ADD", uid |-> "ann-r", op |-> "bob-r",
                       guild |-> "U", who |-> "ann"])
AnnTalks == Payload([t |-> "AUDIO_START", uid |-> "ann-r", union |-> "ann", op |-> "bob-r",
                     guild |-> "U", channel |-> "C", who |-> "ann"])

Click(fields) ==
    fields @@ Payload([t |-> "INTERACTION_CREATE", inner |-> TRUE, who |-> "ann"])

\* One of every other kind.
Others ==
    {Payload([t |-> t, op |-> "bob-m", group |-> "G", who |-> "bob"]) :
        t \in {"GROUP_MSG_REJECT", "GROUP_DEL_ROBOT"}}
    \cup {Payload([t |-> t, uid |-> "ann", who |-> "ann"]) :
        t \in {"FRIEND_ADD", "C2C_MSG_REJECT"}}
    \cup {Payload([t |-> t, uid |-> "ann-r", guild |-> "U", channel |-> "C", who |-> "ann"]) :
        t \in {"MESSAGE_REACTION_ADD", "OPEN_FORUM_POST_CREATE", "MESSAGE_AUDIT_PASS"}}
    \cup {Payload([t |-> t, op |-> "bob-r", guild |-> "U", channel |-> "C", who |-> "bob"]) :
        t \in {"GUILD_UPDATE", "CHANNEL_CREATE", "PUBLIC_MESSAGE_DELETE",
               "DIRECT_MESSAGE_DELETE", "AUDIO_START"}}
    \cup {AnnJoins, BobAddsBot, AnnInGuild, AnnTalks, AnnGroupBare, AnnDirect,
          Payload([t |-> "RESUMED"])}

Probe == Click([chat |-> "probe"])

Buttons == {Click([chat |-> "group", group |-> "G", uid |-> "ann-m"]),
            Click([chat |-> "c2c", uid |-> "ann"]),
            Click([chat |-> "guild", guild |-> "U", channel |-> "C"])}

Delivered(p, q, r) == e1 :> p @@ e2 :> q @@ e3 :> r

\* First events of one person in several scenes, of two persons in one scene,
\* with and without union ids; then every kind next to a message.
MCPayloads ==
    {Delivered(AnnC2C, AnnC2C, AnnChannel),
     Delivered(AnnGroup, AnnGroupBare, AnnDirect),
     Delivered(AnnChannelBare, AnnChannel, BobChannel),
     Delivered(BobGroup, AnnJoins, BobAddsBot),
     Delivered(AnnInGuild, AnnTalks, AnnDirect)}
    \cup {Delivered(p, AnnC2C, Probe) : p \in Others}

MCButtons == {Delivered(p, AnnC2C, Probe) : p \in Buttons}

=============================================================================
