--------------------------- MODULE MCEventReplies ---------------------------
(* Instances of EventReplies for TLC. *)
EXTENDS EventReplies

CONSTANTS m1, m2, r1, r2, r3

MCMessages == {m1, m2}

\* Two replies to one message, which may overlap, and one to the other.
MCReplies == {r1, r2, r3}
MCOf == [r \in MCReplies |-> IF r = r3 THEN m2 ELSE m1]

Chat(a, b) == [m \in MCMessages |-> IF m = m1 THEN a ELSE b]

MCKinds == {Chat("ambient", "ambient"), Chat("ambient", "direct"), Chat("prefixed", "direct")}

\* Every text of up to 4 characters, and some in which a construct has to be
\* closed before the sentence may end.
Short == UNION {[1 .. n -> {"a", ".", "*", Tick, "[", "]"}] : n \in 1 .. 4}

Long == {<< "a", ".", "?", ".", "a", "!" >>,
         << "*", "*", "a", ".", "*", "*", "a", "." >>,
         << Tick, Tick, Tick, ".", Tick, Tick, Tick, "." >>,
         << "[", "a", ".", "]", "(", ".", ")", "?" >>,
         << "[", "a", "]", " ", "*", ".", "a", "*", "." >>,
         << "_", "a", "_", "a", "_", ".", "~", "~", "." >>,
         << "a", " ", "*", " ", ".", " ", "a", " " >>,
         << Backslash, "*", ".", Tick, Backslash, Tick, ".", Tick, "." >>}

\* The ways to cut a text in two, and the text in one piece or character by
\* character.
Chopped(text) ==
    {<< Text(SubSeq(text, 1, n)), Text(SubSeq(text, n + 1, Len(text))) >> :
        n \in 1 .. Len(text) - 1}
    \cup {<< Text(text) >>, [i \in DOMAIN text |-> Text(<< text[i] >>)]}

WithMedia ==
    {<< Text(<< "a", "." >>), Media("image"), Text(<< "a", " " >>) >>,
     << Text(<< "*", "a" >>), Media("image"), Text(<< "*", "." >>), Media("voice") >>}

MCAnswers ==
    {<< >>} \cup WithMedia \cup UNION {Chopped(text) : text \in Short \cup Long}

=============================================================================
