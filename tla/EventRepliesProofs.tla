------------------------- MODULE EventRepliesProofs -------------------------
(***************************************************************************)
(* Theorems about EventReplies, for any number of messages, conversations  *)
(* and replies, which may overlap in any way.  A copy of a history that a  *)
(* call holds between reading and writing back is as good as a             *)
(* conversation: it may become one.  The invariants therefore speak of     *)
(* every history that is kept anywhere.                                    *)
(*                                                                         *)
(* The second part is about Streaming, for every answer and every way to   *)
(* chop it up.  What the recursive functions of the scanner, of the cuts   *)
(* and of FlattenSeq compute is proved from the least number for which it  *)
(* would be wrong.                                                         *)
(***************************************************************************)
EXTENDS EventReplies, FiniteSetTheorems, SequenceTheorems, WellFoundedInduction, TLAPS

Writers == Calls \cup {Framework}

\* What is true of the record k of the call c, with the event record e, while
\* there are n conversations.  A reply that has looked at the marks has found no
\* reply and no model; at a stored message it goes on with reading, and a
\* message once stored stays so.
Fits(c, k, e, n) ==
    /\ k \in CallRecord /\ k.cid \in 0 .. n
    /\ k.step \in {"read", "write", "pair"} => k.cid # 0
    /\ c \in Messages =>
          /\ e.incoming # 0 <=> k.step = "recorded"
          /\ k.step = "coming" => e.llm = "no"
          /\ k.step # "pair"
    /\ c \in Replies =>
          /\ k.after \subseteq {Of[c]}
          /\ k.after # {} => e.incoming # 0
          /\ k.step = "recorded" => e.stored
          /\ k.step \in {"read", "write"} => e.incoming = k.cid
          /\ k.step = "pair" => k.after = {}

InvTypes ==
    /\ convs \in Seq(Seq(Entries)) /\ current \in 0 .. Len(convs)
    /\ erased \subseteq Messages
    /\ event \in [Messages -> EventRecord] /\ call \in [Calls -> CallRecord]
    /\ \A m \in Messages : event[m].incoming \in 0 .. Len(convs)
    /\ \A c \in Calls : Fits(c, call[c], event[MessageOf(c)], Len(convs))

\* The history s is a conversation of number c, or a copy that will become it.
Kept(c, s) ==
    \/ c \in DOMAIN convs /\ s = convs[c]
    \/ \E d \in Calls : call[d].step = "write" /\ c = call[d].cid /\ s = call[d].copy

In(s, x) == \E i \in DOMAIN s : s[i] = x
Once(s, x) == \A i, j \in DOMAIN s : s[i] = x /\ s[j] = x => i = j

Absent(x) == \A c, s : Kept(c, s) => ~In(s, x)

\* All histories with x are of one conversation, each has it once.
OnlyOnce(x) ==
    /\ \A c, s : Kept(c, s) => Once(s, x)
    /\ \A c, s, d, r : Kept(c, s) /\ Kept(d, r) /\ In(s, x) /\ In(r, x) => c = d

\* The entry x may have been written: its writer has recorded.  The handler
\* writes no answer, and a reply writes no message beside one it knows of.
Wrote(x) ==
    \/ x.by = Framework /\ event[x.of].llm = "recorded"
    \/ /\ x.by \in Calls /\ call[x.by].step = "recorded" /\ MessageOf(x.by) = x.of
       /\ x.by \in Messages => x.role = "user"
       /\ x.by \in Replies /\ x.role = "user" => call[x.by].after = {}

OnceAt(x) == OnlyOnce(x) /\ (~Wrote(x) => Absent(x))

\* Every answer to m in the history s follows the message.
Follows(s, m) ==
    \A i \in DOMAIN s : s[i].role = "assistant" /\ s[i].of = m =>
        \E j \in DOMAIN s : j < i /\ s[j].role = "user" /\ s[j].of = m

OrderAt(m) == \A c, s : Kept(c, s) => Follows(s, m)

\* What was recorded is there, also in the copy to which an answer is added.
KeptAt(m) ==
    /\ event[m].incoming # 0 => In(convs[event[m].incoming], User(m, m))
    /\ \A r \in Replies : Of[r] = m =>
          /\ call[r].step = "recorded" => \E c \in DOMAIN convs : In(convs[c], Assistant(m, r))
          /\ call[r].step = "write" => In(call[r].copy, User(m, m))

Inv ==
    /\ InvTypes
    /\ \A x \in Entries : OnceAt(x)
    /\ \A m \in Messages \ erased : OrderAt(m) /\ KeptAt(m)

-----------------------------------------------------------------------------
(* The calls and their records.                                             *)

\* Whose call is whose.
LEMMA CallFacts ==
    /\ \A m \in Messages : m \in Calls /\ m \notin Replies /\ MessageOf(m) = m
    /\ \A r \in Replies : r \in Calls /\ r \notin Messages /\ MessageOf(r) = Of[r]
    /\ \A r \in Replies : Of[r] \in Messages
    /\ \A c \in Calls : MessageOf(c) \in Messages /\ c # Framework
  BY RepliesAssumption DEF Calls, MessageOf

\* What fits goes on fitting with more conversations and the same or more marks.
LEMMA FitsMore ==
    ASSUME NEW c, NEW k, NEW e, NEW f, NEW n \in Nat, NEW p \in Nat, n <= p,
           Fits(c, k, e, n), f.incoming = e.incoming, e.stored => f.stored,
           c \in Messages /\ k.step = "coming" => f.llm = e.llm
    PROVE  Fits(c, k, f, p)
<1>1. k.cid \in 0 .. p
  BY DEF Fits
<1> QED
  BY <1>1 DEF Fits

\* Every call has its types and marks.
LEMMA CallFits ==
    ASSUME Inv, NEW c \in Calls
    PROVE  /\ Fits(c, call[c], event[MessageOf(c)], Len(convs)) /\ call[c] \in CallRecord
           /\ MessageOf(c) \in Messages /\ event[MessageOf(c)] \in EventRecord
           /\ InvTypes /\ Len(convs) \in Nat
  BY CallFacts DEF Inv, InvTypes

\* The record of a call that starts, or is over without having recorded.
LEMMA EmptyRecord ==
    ASSUME NEW step \in {"coming", "find", "over"},
           NEW after \in SUBSET (Calls \cup {Framework})
    PROVE  LET k == [step |-> step, cid |-> 0, copy |-> << >>, after |-> after]
           IN  k \in CallRecord /\ k.step = step /\ k.cid = 0 /\ k.after = after
<1>1. 0 \in Nat /\ << >> \in Seq(Entries)
  OBVIOUS
<1> QED
  BY <1>1 DEF CallRecord

\* The records that the steps take from NewCall.
LEMMA NewCallIs ==
    /\ NewCall = [step |-> "coming", cid |-> 0, copy |-> << >>, after |-> {}]
    /\ Ended = [step |-> "over", cid |-> 0, copy |-> << >>, after |-> {}]
    /\ [NewCall EXCEPT !.step = "find"] = [step |-> "find", cid |-> 0, copy |-> << >>, after |-> {}]
    /\ \A after : [NewCall EXCEPT !.step = "find", !.after = after]
                    = [step |-> "find", cid |-> 0, copy |-> << >>, after |-> after]
<1>1. PICK none : none = {}
  OBVIOUS
<1>2. NewCall = [step |-> "coming", cid |-> 0, copy |-> << >>, after |-> none]
  BY <1>1 DEF NewCall
<1>3. ASSUME NEW after
      PROVE  [NewCall EXCEPT !.step = "find", !.after = after]
                = [step |-> "find", cid |-> 0, copy |-> << >>, after |-> after]
  <2>1. PICK k : k = [step |-> "find", cid |-> 0, copy |-> << >>, after |-> none]
    OBVIOUS
  <2>2. k = [NewCall EXCEPT !.step = "find"]
    BY <1>2, <2>1
  <2>3. [k EXCEPT !.after = after] = [step |-> "find", cid |-> 0, copy |-> << >>, after |-> after]
    BY <2>1
  <2>4. [[NewCall EXCEPT !.step = "find"] EXCEPT !.after = after]
           = [NewCall EXCEPT !.step = "find", !.after = after]
    OBVIOUS
  <2> QED
    BY <2>2, <2>3, <2>4
<1>4. Ended = [step |-> "over", cid |-> 0, copy |-> << >>, after |-> none]
  BY <1>2 DEF Ended
<1>5. [NewCall EXCEPT !.step = "find"]
         = [step |-> "find", cid |-> 0, copy |-> << >>, after |-> none]
  BY <1>2
<1> QED
  BY <1>1, <1>2, <1>3, <1>4, <1>5

\* A call that is over fits, if a handler's has not recorded.
LEMMA EndedFits ==
    ASSUME NEW c \in Calls, NEW e, NEW n \in Nat, c \in Messages => e.incoming = 0
    PROVE  Fits(c, Ended, e, n) /\ Ended.step = "over"
<1>1. /\ Ended \in CallRecord /\ Ended.step = "over" /\ Ended.cid = 0 /\ Ended.after = {}
  BY EmptyRecord, NewCallIs
<1> QED
  BY <1>1 DEF Fits

\* A call starts with the search for the conversation.
LEMMA FindFits ==
    ASSUME NEW c \in Calls, NEW e, NEW n \in Nat, NEW after \in SUBSET (Calls \cup {Framework}),
           c \in Messages => e.incoming = 0,
           c \in Replies => after \subseteq {Of[c]} /\ (after # {} => e.incoming # 0)
    PROVE  LET k == [step |-> "find", cid |-> 0, copy |-> << >>, after |-> after]
           IN  Fits(c, k, e, n) /\ k.step = "find"
<1> PICK k : k = [step |-> "find", cid |-> 0, copy |-> << >>, after |-> after]
  OBVIOUS
<1>1. k \in CallRecord /\ k.step = "find" /\ k.cid = 0 /\ k.after = after
  BY EmptyRecord
<1>2. Fits(c, k, e, n)
  BY <1>1 DEF Fits
<1> QED
  BY <1>1, <1>2

\* The event m has a stored message exactly when its handler's call has recorded;
\* of the calls with a mark only that one can be there before the first reply.
LEMMA RecordersAre ==
    ASSUME InvTypes, NEW m \in Messages
    PROVE  /\ event[m].incoming # 0 <=> call[m].step = "recorded"
           /\ Recorders(m) \in SUBSET (Calls \cup {Framework})
           /\ Recorders(m) \cap {m} = IF event[m].incoming # 0 THEN {m} ELSE {}
           /\ event[m].llm = "no" /\ ~event[m].stored =>
                 Recorders(m) \subseteq {m} /\ (Recorders(m) # {} => event[m].incoming # 0)
<1>1. event[m].incoming # 0 <=> call[m].step = "recorded"
  BY CallFacts DEF InvTypes, Fits
<1>2. Recorders(m) \in SUBSET (Calls \cup {Framework})
  BY DEF Recorders
<1>3. m \in Recorders(m) <=> event[m].incoming # 0
  BY <1>1, CallFacts DEF Recorders
<1>4. ASSUME event[m].llm = "no", ~event[m].stored, NEW c \in Recorders(m) PROVE c = m
  <2>1. c \in Calls /\ MessageOf(c) = m /\ call[c].step = "recorded"
    BY <1>4 DEF Recorders
  <2>2. c \notin Replies
    BY <1>4, <2>1, CallFacts DEF InvTypes, Fits
  <2> QED
    BY <2>1, <2>2 DEF MessageOf
<1> QED
  BY <1>1, <1>2, <1>3, <1>4

\* What a call becomes when it knows the conversation: no write is next, for it
\* has to read first.
LEMMA WithConversationIs ==
    ASSUME Inv, NEW c \in Calls, NEW n \in Nat, NEW cid \in Nat, Len(convs) <= n,
           call[c].step \in {"find", "create"}, cid \in 1 .. n
    PROVE  LET f == WithConversation(c, cid)
           IN  Fits(c, f, event[MessageOf(c)], n) /\ f.step \in {"read", "pair"}
<1> PICK k : k = call[c]
  OBVIOUS
<1> PICK m : m = MessageOf(c)
  OBVIOUS
<1> PICK e : e = event[m]
  OBVIOUS
<1>1. /\ k \in CallRecord /\ m \in Messages /\ e \in EventRecord /\ InvTypes
      /\ Fits(c, k, e, Len(convs))
  BY CallFits
<1>2. Recorders(m) \cap {m} = IF e.incoming # 0 THEN {m} ELSE {}
  BY <1>1, RecordersAre
<1>3. CASE c \in Messages
  <2>1. PICK f : f = [k EXCEPT !.cid = cid, !.step = "read"]
    OBVIOUS
  <2>2. f \in CallRecord /\ f.cid = cid /\ f.step = "read"
    BY <1>1, <2>1 DEF CallRecord
  <2>3. Fits(c, f, e, n)
    BY <1>1, <1>3, <2>2, CallFacts DEF Fits
  <2>4. WithConversation(c, cid) = f
    BY <1>3, <2>1 DEF WithConversation
  <2> QED
    BY <2>2, <2>3, <2>4
<1>4. CASE c \notin Messages /\ e.incoming # 0
  <2>1. PICK after : after = k.after \cup {m}
    OBVIOUS
  <2>2. PICK f : f = [[k EXCEPT !.after = after] EXCEPT !.cid = e.incoming, !.step = "read"]
    OBVIOUS
  <2>3. c \in Replies /\ m = Of[c] /\ k.after \subseteq {m}
    BY <1>1, <1>4, CallFacts DEF Calls, Fits
  <2>4. after = {m} /\ after \in SUBSET (Calls \cup {Framework})
    BY <1>1, <2>1, <2>3, CallFacts
  <2>5. e.incoming \in Nat /\ e.incoming \in 0 .. n
    BY <1>1 DEF InvTypes, EventRecord
  <2>6. /\ f \in CallRecord /\ f.cid = e.incoming /\ f.step = "read" /\ f.after = {m}
    BY <1>1, <2>2, <2>4, <2>5 DEF CallRecord
  <2>7. Fits(c, f, e, n)
    BY <1>4, <2>3, <2>5, <2>6 DEF Fits
  <2>8. WithConversation(c, cid) = f
    BY <1>2, <1>4, <2>1, <2>2 DEF WithConversation
  <2> QED
    BY <2>6, <2>7, <2>8
<1>5. CASE c \notin Messages /\ e.incoming = 0
  <2>1. PICK f : f = [[k EXCEPT !.after = k.after] EXCEPT !.cid = cid, !.step = "pair"]
    OBVIOUS
  <2>2. c \in Replies /\ k.after = {}
    BY <1>1, <1>5 DEF Calls, Fits
  <2>3. f \in CallRecord /\ f.cid = cid /\ f.step = "pair" /\ f.after = {}
    BY <1>1, <2>1, <2>2 DEF CallRecord
  <2>4. Fits(c, f, e, n)
    BY <1>5, <2>2, <2>3 DEF Fits
  <2>5. k.after \cup (Recorders(m) \cap {m}) = k.after
    BY <1>2, <1>5
  <2>6. WithConversation(c, cid) = f
    BY <1>5, <2>1, <2>5 DEF WithConversation
  <2> QED
    BY <2>3, <2>4, <2>6
<1> QED
  BY <1>3, <1>4, <1>5

\* What is left of a call that has recorded.
LEMMA RecordedIs ==
    ASSUME NEW k \in CallRecord
    PROVE  LET f == [k EXCEPT !.step = "recorded", !.cid = 0, !.copy = << >>]
           IN  /\ f \in CallRecord /\ f.step = "recorded" /\ f.cid = 0 /\ f.after = k.after
<1>1. 0 \in Nat /\ << >> \in Seq(Entries)
  OBVIOUS
<1> QED
  BY <1>1 DEF CallRecord

-----------------------------------------------------------------------------
(* Sequences with more entries.                                             *)

\* The entries of m by the writer w.
LEMMA EntryFacts ==
    ASSUME NEW m \in Messages, NEW w \in Writers
    PROVE  /\ User(m, w) \in Entries /\ Assistant(m, w) \in Entries
           /\ User(m, w).of = m /\ User(m, w).by = w /\ User(m, w).role = "user"
           /\ Assistant(m, w).of = m /\ Assistant(m, w).by = w
           /\ Assistant(m, w).role = "assistant" /\ User(m, w) # Assistant(m, w)
  BY DEF User, Assistant, Entry, Entries, Writers

\* What is in a history that is extended is in the old part or in the new one.
LEMMA JoinedIn ==
    ASSUME NEW t \in Seq(Entries), NEW u \in Seq(Entries), NEW x
    PROVE  In(t \o u, x) <=> In(t, x) \/ In(u, x)
<1> DEFINE s == t \o u
<1>1. /\ \A i \in DOMAIN t : i \in DOMAIN s /\ s[i] = t[i]
      /\ \A j \in DOMAIN u : Len(t) + j \in DOMAIN s /\ s[Len(t) + j] = u[j]
      /\ \A i \in DOMAIN s :
            i \in DOMAIN t \/ (i - Len(t) \in DOMAIN u /\ s[i] = u[i - Len(t)])
  OBVIOUS
<1> HIDE DEF s
<1>2. In(s, x) <=> In(t, x) \/ In(u, x)
  BY <1>1 DEF In
<1> QED
  BY <1>2 DEF s

\* An entry of one of two parts, once in each, is once in the whole.
LEMMA JoinedOnce ==
    ASSUME NEW t \in Seq(Entries), NEW u \in Seq(Entries), NEW x,
           Once(t, x), Once(u, x), ~In(t, x) \/ ~In(u, x)
    PROVE  Once(t \o u, x)
<1> DEFINE s == t \o u
<1>1. /\ \A i \in DOMAIN t : i \in DOMAIN s /\ s[i] = t[i]
      /\ \A i \in DOMAIN s :
            i \in DOMAIN t \/ (i - Len(t) \in DOMAIN u /\ s[i] = u[i - Len(t)])
      /\ Len(t) \in Nat /\ DOMAIN s \subseteq Nat
  OBVIOUS
<1> SUFFICES ASSUME NEW i \in DOMAIN s, NEW j \in DOMAIN s, s[i] = x, s[j] = x
             PROVE  i = j
  BY DEF Once
<1> HIDE DEF s
<1>2. CASE In(t, x)
  <2>1. i \in DOMAIN t /\ j \in DOMAIN t
    BY <1>1, <1>2 DEF In
  <2> QED
    BY <1>1, <2>1 DEF Once
<1>3. CASE ~In(t, x)
  <2>1. /\ i - Len(t) \in DOMAIN u /\ u[i - Len(t)] = x
        /\ j - Len(t) \in DOMAIN u /\ u[j - Len(t)] = x
    BY <1>1, <1>3 DEF In
  <2>2. i - Len(t) = j - Len(t)
    BY <2>1 DEF Once
  <2> QED
    BY <1>1, <2>2
<1> QED
  BY <1>2, <1>3

\* Answers that follow their messages go on doing so when a history is extended.
LEMMA JoinedFollows ==
    ASSUME NEW t \in Seq(Entries), NEW u \in Seq(Entries), NEW m \in Messages, NEW w \in Writers,
           Follows(t, m), Follows(u, m) \/ In(t, User(m, w))
    PROVE  Follows(t \o u, m)
<1> DEFINE s == t \o u
<1>1. /\ \A i \in DOMAIN t : i \in DOMAIN s /\ s[i] = t[i]
      /\ \A j \in DOMAIN u : Len(t) + j \in DOMAIN s /\ s[Len(t) + j] = u[j]
      /\ \A i \in DOMAIN s :
            i \in DOMAIN t \/ (i - Len(t) \in DOMAIN u /\ s[i] = u[i - Len(t)])
      /\ DOMAIN t = 1 .. Len(t) /\ Len(t) \in Nat /\ DOMAIN u \subseteq Nat \ {0}
      /\ DOMAIN s \subseteq Nat
  OBVIOUS
<1> SUFFICES ASSUME NEW i \in DOMAIN s, s[i].role = "assistant", s[i].of = m
             PROVE  \E j \in DOMAIN s : j < i /\ s[j].role = "user" /\ s[j].of = m
  BY DEF Follows
<1> HIDE DEF s
<1>2. CASE i \in DOMAIN t
  <2>1. t[i].role = "assistant" /\ t[i].of = m
    BY <1>1, <1>2
  <2>2. PICK j \in DOMAIN t : j < i /\ t[j].role = "user" /\ t[j].of = m
    BY <1>2, <2>1 DEF Follows
  <2> QED
    BY <1>1, <2>2
<1>3. CASE i \notin DOMAIN t /\ In(t, User(m, w))
  <2>1. PICK j \in DOMAIN t : t[j] = User(m, w)
    BY <1>3 DEF In
  <2>2. j < i
    BY <1>1, <1>3, <2>1
  <2> QED
    BY <1>1, <2>1, <2>2, EntryFacts
<1>4. CASE i \notin DOMAIN t /\ Follows(u, m)
  <2>1. i - Len(t) \in DOMAIN u /\ u[i - Len(t)].role = "assistant" /\ u[i - Len(t)].of = m
    BY <1>1, <1>4
  <2>2. PICK j \in DOMAIN u : j < i - Len(t) /\ u[j].role = "user" /\ u[j].of = m
    BY <1>4, <2>1 DEF Follows
  <2>3. Len(t) + j \in DOMAIN s /\ Len(t) + j < i /\ s[Len(t) + j] = u[j]
    BY <1>1, <2>2
  <2> QED
    BY <2>2, <2>3
<1> QED
  BY <1>2, <1>3, <1>4

\* What w may add to a history on behalf of m.
Additions(m, w) == {<< User(m, w) >>, << Assistant(m, w) >>, Pair(m, w)}

\* What one write adds is about one event: its message, its answer, or both in
\* this order.
LEMMA AdditionFacts ==
    ASSUME NEW m \in Messages, NEW w \in Writers, NEW u \in Additions(m, w)
    PROVE  /\ u \in Seq(Entries)
           /\ \A x : Once(u, x)
           /\ \A x : In(u, x) => x = User(m, w) \/ x = Assistant(m, w)
           /\ u # << User(m, w) >> => In(u, Assistant(m, w))
           /\ u # << Assistant(m, w) >> => In(u, User(m, w)) /\ Follows(u, m)
           /\ u = << Assistant(m, w) >> => In(u, Assistant(m, w)) /\ ~In(u, User(m, w))
           /\ u = Pair(m, w) => In(u, Assistant(m, w))
           /\ u = << User(m, w) >> => ~In(u, Assistant(m, w))
           /\ \A n \in Messages \ {m} : Follows(u, n)
<1>1. /\ User(m, w) \in Entries /\ Assistant(m, w) \in Entries
      /\ User(m, w).of = m /\ User(m, w).role = "user"
      /\ Assistant(m, w).of = m /\ Assistant(m, w).role = "assistant"
      /\ User(m, w) # Assistant(m, w)
  BY EntryFacts
<1>2. CASE u = << User(m, w) >>
  <2>1. u \in Seq(Entries) /\ DOMAIN u = {1} /\ u[1] = User(m, w)
    BY <1>1, <1>2
  <2>2. u # << Assistant(m, w) >> /\ u # Pair(m, w)
    BY <1>1, <1>2 DEF Pair
  <2> QED
    BY <1>1, <1>2, <2>1, <2>2 DEF In, Once, Follows
<1>3. CASE u = << Assistant(m, w) >>
  <2>1. u \in Seq(Entries) /\ DOMAIN u = {1} /\ u[1] = Assistant(m, w)
    BY <1>1, <1>3
  <2>2. u # << User(m, w) >> /\ u # Pair(m, w)
    BY <1>1, <1>3 DEF Pair
  <2> QED
    BY <1>1, <1>3, <2>1, <2>2 DEF In, Once, Follows
<1>4. CASE u = Pair(m, w)
  <2>1. /\ u \in Seq(Entries) /\ DOMAIN u = {1, 2}
        /\ u[1] = User(m, w) /\ u[2] = Assistant(m, w)
    BY <1>1, <1>4 DEF Pair
  <2>2. u # << User(m, w) >> /\ u # << Assistant(m, w) >>
    BY <1>1, <1>4 DEF Pair
  <2>3. 1 < 2
    OBVIOUS
  <2> QED
    BY <1>1, <2>1, <2>2, <2>3 DEF In, Once, Follows
<1> QED
  BY <1>2, <1>3, <1>4 DEF Additions

-----------------------------------------------------------------------------
(* What the steps do to the histories.                                      *)

\* Nothing is written: at most a history is copied, a new one begun.
Quiet ==
    /\ \A c, s : Kept(c, s)' => Kept(c, s) \/ s = << >>
    /\ \A c \in DOMAIN convs : c \in DOMAIN convs' /\ convs'[c] = convs[c]
    /\ erased' = erased
    /\ \A m \in Messages : event'[m].incoming = event[m].incoming
    /\ \A x \in Entries : Wrote(x) => Wrote(x)'
    /\ \A r \in Replies :
          /\ call'[r].step = "recorded" => call[r].step = "recorded"
          /\ Of[r] \notin erased /\ call'[r].step = "write" =>
                In(call'[r].copy, User(Of[r], Of[r]))

\* On behalf of m the entries u by w are added to the history t of conversation
\* k, which may be a copy; what others have added to it since is erased.
Adds(m, w, k, t, u) ==
    /\ u \in Additions(m, w) /\ t \in Seq(Entries)
    /\ k \in DOMAIN convs' /\ convs'[k] = t \o u
    /\ Kept(k, t) \/ t = << >>
    /\ \A c, s : Kept(c, s)' => Kept(c, s) \/ (c = k /\ s = t \o u)
    /\ \A c \in DOMAIN convs, x \in Entries :
          /\ c \in DOMAIN convs'
          /\ In(convs[c], x) => In(convs'[c], x) \/ x.of \in erased'
    /\ erased \subseteq erased'
    /\ \A x \in Entries :
          /\ Wrote(x) => Wrote(x)'
          /\ In(u, x) => ~Wrote(x) /\ Wrote(x)'
    /\ u = << Assistant(m, w) >> /\ m \notin erased => In(t, User(m, m))
    /\ \A n \in Messages :
          \/ event'[n].incoming = event[n].incoming
          \/ n = m /\ event'[n].incoming = k /\ In(u, User(m, m))
    /\ \A r \in Replies :
          /\ call'[r].step = "recorded" =>
                call[r].step = "recorded" \/ (Of[r] = m /\ In(u, Assistant(m, r)))
          /\ call'[r].step = "write" => call'[r] = call[r]

\* Where nothing is written, entries are where they were.
LEMMA QuietOnce ==
    ASSUME Quiet, NEW x
    PROVE  /\ Absent(x) => Absent(x)'
           /\ OnlyOnce(x) => OnlyOnce(x)'
<1>1. \A c, s : Kept(c, s)' => Kept(c, s) \/ s = << >>
  BY DEF Quiet
<1>2. ~In(<< >>, x) /\ Once(<< >>, x)
  BY DEF In, Once
<1>3. ASSUME Absent(x) PROVE Absent(x)'
  BY <1>1, <1>2, <1>3 DEF Absent
<1>4. ASSUME OnlyOnce(x) PROVE OnlyOnce(x)'
  BY <1>1, <1>2, <1>4 DEF OnlyOnce
<1> QED
  BY <1>3, <1>4

\* Where nothing is written, the invariant holds on as soon as the types do.
LEMMA QuietKeeps ==
    ASSUME Inv, Quiet, InvTypes'
    PROVE  Inv'
<1>1. ASSUME NEW x \in Entries PROVE OnceAt(x)'
  BY QuietOnce DEF Inv, OnceAt, Quiet
<1>2. ASSUME NEW m \in Messages \ erased PROVE OrderAt(m)'
  <2>1. Follows(<< >>, m)
    BY DEF Follows
  <2>2. \A c, s : Kept(c, s)' => Kept(c, s) \/ s = << >>
    BY DEF Quiet
  <2>3. OrderAt(m)
    BY DEF Inv
  <2> QED
    BY <2>1, <2>2, <2>3 DEF OrderAt
<1>3. ASSUME NEW m \in Messages \ erased PROVE KeptAt(m)'
  <2>1. KeptAt(m)
    BY DEF Inv
  <2>2. event[m].incoming # 0 => event[m].incoming \in DOMAIN convs
    BY DEF Inv, InvTypes
  <2> QED
    BY <2>1, <2>2 DEF KeptAt, Quiet
<1> QED
  BY <1>1, <1>2, <1>3 DEF Inv, Quiet

\* A write puts nothing into a history but what it adds, and that once.
LEMMA AddsOnce ==
    ASSUME NEW m \in Messages, NEW w \in Writers, NEW k, NEW t, NEW u, Adds(m, w, k, t, u), NEW x
    PROVE  /\ Absent(x) /\ ~In(u, x) => Absent(x)'
           /\ OnlyOnce(x) /\ ~In(u, x) => OnlyOnce(x)'
           /\ Absent(x) => OnlyOnce(x)'
<1> DEFINE s2 == t \o u
<1>1. /\ u \in Additions(m, w) /\ t \in Seq(Entries)
      /\ Kept(k, t) \/ t = << >>
      /\ \A c, s : Kept(c, s)' => Kept(c, s) \/ (c = k /\ s = s2)
  BY DEF Adds
<1>2. u \in Seq(Entries) /\ Once(u, x)
  BY <1>1, AdditionFacts
<1>3. In(s2, x) <=> In(t, x) \/ In(u, x)
  BY <1>1, <1>2, JoinedIn
<1>4. Once(t, x) /\ (~In(t, x) \/ ~In(u, x)) => Once(s2, x)
  BY <1>1, <1>2, JoinedOnce
<1>5. ~In(<< >>, x) /\ Once(<< >>, x)
  BY DEF In, Once
<1> HIDE DEF s2
<1>6. ASSUME Absent(x), ~In(u, x) PROVE Absent(x)'
  <2>1. ~In(t, x)
    BY <1>1, <1>5, <1>6 DEF Absent
  <2> QED
    BY <1>1, <1>3, <1>6, <2>1 DEF Absent
<1>7. ASSUME OnlyOnce(x), ~In(u, x) PROVE OnlyOnce(x)'
  <2>1. Once(t, x)
    BY <1>1, <1>5, <1>7 DEF OnlyOnce
  <2>2. Once(s2, x)
    BY <1>4, <1>7, <2>1
  <2>3. \A c, s : Kept(c, s)' => Once(s, x)
    BY <1>1, <1>7, <2>2 DEF OnlyOnce
  <2>4. \A c, s : Kept(c, s)' /\ In(s, x) => \E r : Kept(c, r) /\ In(r, x)
    <3> SUFFICES ASSUME NEW c, NEW s, Kept(c, s)', In(s, x)
                 PROVE  \E r : Kept(c, r) /\ In(r, x)
      OBVIOUS
    <3>1. CASE Kept(c, s)
      BY <3>1
    <3>2. CASE c = k /\ s = s2
      <4>1. In(t, x)
        BY <1>3, <1>7, <3>2
      <4>2. Kept(k, t)
        BY <1>1, <1>5, <4>1
      <4> QED
        BY <3>2, <4>1, <4>2
    <3> QED
      BY <1>1, <3>1, <3>2
  <2>5. \A c, s, d, r : Kept(c, s) /\ Kept(d, r) /\ In(s, x) /\ In(r, x) => c = d
    BY <1>7 DEF OnlyOnce
  <2>6. \A c, s, d, r : Kept(c, s)' /\ Kept(d, r)' /\ In(s, x) /\ In(r, x) => c = d
    BY <2>4, <2>5
  <2> QED
    BY <2>3, <2>6 DEF OnlyOnce
<1>8. ASSUME Absent(x) PROVE OnlyOnce(x)'
  <2>1. ~In(t, x) /\ Once(t, x)
    BY <1>1, <1>5, <1>8 DEF Absent, In, Once
  <2>2. Once(s2, x)
    BY <1>4, <2>1
  <2>3. \A c, s : Kept(c, s) => Once(s, x) /\ ~In(s, x)
    BY <1>8 DEF Absent, In, Once
  <2>4. \A c, s : Kept(c, s)' => Once(s, x) /\ (In(s, x) => c = k)
    BY <1>1, <2>2, <2>3
  <2> QED
    BY <2>4 DEF OnlyOnce
<1> QED
  BY <1>6, <1>7, <1>8

\* A write keeps the invariant as soon as the types hold on.
LEMMA AddsKeep ==
    ASSUME Inv, InvTypes', NEW m \in Messages, NEW w \in Writers, NEW k, NEW t, NEW u,
           Adds(m, w, k, t, u)
    PROVE  Inv'
<1>1. /\ u \in Additions(m, w) /\ t \in Seq(Entries) /\ erased \subseteq erased'
      /\ k \in DOMAIN convs' /\ convs'[k] = t \o u
      /\ Kept(k, t) \/ t = << >>
      /\ \A c, s : Kept(c, s)' => Kept(c, s) \/ (c = k /\ s = t \o u)
      /\ \A c \in DOMAIN convs, x \in Entries :
            /\ c \in DOMAIN convs'
            /\ In(convs[c], x) => In(convs'[c], x) \/ x.of \in erased'
  BY DEF Adds
<1>2. /\ u \in Seq(Entries)
      /\ u = << Assistant(m, w) >> \/ Follows(u, m)
      /\ \A n \in Messages \ {m} : Follows(u, n)
  BY <1>1, AdditionFacts
<1>3. ASSUME NEW x \in Entries PROVE OnceAt(x)'
  <2>1. OnceAt(x)
    BY DEF Inv
  <2>2. /\ Wrote(x) => Wrote(x)'
        /\ In(u, x) => ~Wrote(x) /\ Wrote(x)'
    BY DEF Adds
  <2>3. /\ Absent(x) /\ ~In(u, x) => Absent(x)'
        /\ OnlyOnce(x) /\ ~In(u, x) => OnlyOnce(x)'
        /\ Absent(x) => OnlyOnce(x)'
    BY AddsOnce
  <2> QED
    BY <2>1, <2>2, <2>3 DEF OnceAt
<1>4. ASSUME NEW n \in Messages \ erased' PROVE OrderAt(n)'
  <2>1. OrderAt(n)
    BY <1>1 DEF Inv
  <2>2. Follows(u, n) \/ In(t, User(n, n))
    <3>1. u = << Assistant(m, w) >> /\ m \notin erased => In(t, User(m, m))
      BY DEF Adds
    <3> QED
      BY <1>1, <1>2, <3>1
  <2>3. Follows(t, n)
    <3>1. Follows(<< >>, n)
      BY DEF Follows
    <3> QED
      BY <1>1, <2>1, <3>1 DEF OrderAt
  <2>4. Follows(t \o u, n)
    <3>1. n \in Messages /\ n \in Writers
      BY CallFacts DEF Writers
    <3> QED
      BY <1>1, <1>2, <2>2, <2>3, <3>1, JoinedFollows
  <2> QED
    BY <1>1, <2>1, <2>4 DEF OrderAt
<1>5. ASSUME NEW n \in Messages \ erased' PROVE KeptAt(n)'
  <2>1. KeptAt(n)
    BY <1>1 DEF Inv
  <2>2. n \in Writers /\ User(n, n) \in Entries /\ User(n, n).of = n
    BY CallFacts, EntryFacts DEF Writers
  <2>3. event'[n].incoming # 0 => In(convs'[event'[n].incoming], User(n, n))
    <3>1. CASE event'[n].incoming = event[n].incoming
      <4>1. event[n].incoming # 0 => event[n].incoming \in DOMAIN convs
        BY DEF Inv, InvTypes
      <4> QED
        BY <1>1, <1>5, <2>1, <2>2, <3>1, <4>1 DEF KeptAt
    <3>2. CASE n = m /\ event'[n].incoming = k /\ In(u, User(m, m))
      <4>1. In(t \o u, User(m, m))
        BY <1>1, <1>2, <3>2, JoinedIn
      <4> QED
        BY <1>1, <3>2, <4>1
    <3> QED
      BY <3>1, <3>2 DEF Adds
  <2>4. ASSUME NEW r \in Replies, Of[r] = n, call'[r].step = "recorded"
        PROVE  \E c \in DOMAIN convs' : In(convs'[c], Assistant(n, r))
    <3>1. CASE call[r].step = "recorded"
      <4>1. PICK c \in DOMAIN convs : In(convs[c], Assistant(n, r))
        BY <2>1, <2>4, <3>1 DEF KeptAt
      <4>2. r \in Writers
        BY CallFacts DEF Writers
      <4>3. Assistant(n, r) \in Entries /\ Assistant(n, r).of = n
        BY <4>2, EntryFacts
      <4> QED
        BY <1>1, <1>5, <4>1, <4>3
    <3>2. CASE n = m /\ In(u, Assistant(m, r))
      <4>1. In(t \o u, Assistant(m, r))
        BY <1>1, <1>2, <3>2, JoinedIn
      <4> QED
        BY <1>1, <3>2, <4>1
    <3> QED
      BY <2>4, <3>1, <3>2 DEF Adds
  <2>5. ASSUME NEW r \in Replies, Of[r] = n, call'[r].step = "write"
        PROVE  In(call'[r].copy, User(n, n))
    <3>1. call'[r] = call[r]
      BY <2>5 DEF Adds
    <3> QED
      BY <2>1, <2>5, <3>1 DEF KeptAt
  <2> QED
    BY <2>3, <2>4, <2>5 DEF KeptAt
<1> QED
  BY <1>3, <1>4, <1>5 DEF Inv

-----------------------------------------------------------------------------
(* The steps.                                                               *)

\* The invariant holds before any event.
LEMMA RepliesInit == Init => Inv
<1> SUFFICES ASSUME Init PROVE Inv
  OBVIOUS
<1>1. NewEvent \in EventRecord /\ NewEvent.incoming = 0 /\ NewEvent.llm = "no" /\ 0 \in Nat
  BY DEF NewEvent, EventRecord
<1>2. NewCall \in CallRecord /\ NewCall.step = "coming" /\ NewCall.cid = 0 /\ NewCall.after = {}
  BY EmptyRecord, NewCallIs
<1>3. /\ \A m \in Messages : event[m] = NewEvent
      /\ \A c \in Calls : call[c] = NewCall
  BY DEF Init
<1>4. convs = << >> /\ Len(convs) = 0 /\ current = 0 /\ erased = {}
  BY DEF Init
<1>5. InvTypes
  <2>1. event \in [Messages -> EventRecord] /\ call \in [Calls -> CallRecord]
    BY <1>1, <1>2 DEF Init
  <2>2. convs \in Seq(Seq(Entries)) /\ current \in 0 .. Len(convs)
    BY <1>4
  <2>3. \A c \in Calls : Fits(c, NewCall, NewEvent, 0)
    BY <1>1, <1>2 DEF Fits
  <2> QED
    BY <1>1, <1>3, <1>4, <2>1, <2>2, <2>3, CallFacts DEF InvTypes
<1>6. \A c, s : ~Kept(c, s)
  BY <1>2, <1>3, <1>4 DEF Kept
<1>7. \A x \in Entries : OnceAt(x)
  BY <1>6 DEF OnceAt, Absent, OnlyOnce
<1>8. ASSUME NEW m \in Messages PROVE OrderAt(m) /\ KeptAt(m)
  BY <1>1, <1>2, <1>3, <1>6, CallFacts DEF OrderAt, KeptAt
<1> QED
  BY <1>5, <1>7, <1>8 DEF Inv

\* The types and marks hold on when the call that moves has them, and no event
\* but one whose handler has not recorded yet gets a conversation.
LEMMA TypesKeep ==
    ASSUME InvTypes, NEW c \in Calls, NEW k, Becomes(c, k),
           event' \in [Messages -> EventRecord],
           Fits(c, k, event'[MessageOf(c)], Len(convs')),
           \A m \in Messages :
              /\ event[m].stored => event'[m].stored
              /\ event'[m].llm = event[m].llm \/ c = m
              /\ event'[m].incoming \in 0 .. Len(convs')
              /\ event'[m].incoming = event[m].incoming
                    \/ (c = m /\ event[m].incoming = 0),
           convs' \in Seq(Seq(Entries)), Len(convs) <= Len(convs'),
           current' \in 0 .. Len(convs'), erased' \subseteq Messages
    PROVE  InvTypes' /\ call'[c] = k /\ \A d \in Calls \ {c} : call'[d] = call[d]
<1>1. call'[c] = k /\ \A d \in Calls \ {c} : call'[d] = call[d]
  BY DEF InvTypes, Becomes
<1>2. call' \in [Calls -> CallRecord]
  BY DEF InvTypes, Becomes, Fits
<1>3. Len(convs) \in Nat /\ Len(convs') \in Nat
  BY DEF InvTypes
<1>4. ASSUME NEW d \in Calls PROVE Fits(d, call'[d], event'[MessageOf(d)], Len(convs'))
  <2>1. CASE d = c
    BY <1>1, <2>1
  <2>2. CASE d # c
    <3>1. call'[d] = call[d] /\ Fits(d, call[d], event[MessageOf(d)], Len(convs))
      BY <1>1, <2>2 DEF InvTypes
    <3>2. MessageOf(d) \in Messages
      BY CallFacts
    <3>3. CASE event'[MessageOf(d)].incoming = event[MessageOf(d)].incoming
      <4>1. d \in Messages => event'[MessageOf(d)].llm = event[MessageOf(d)].llm
        BY <2>2, <3>2, CallFacts
      <4>2. event[MessageOf(d)].stored => event'[MessageOf(d)].stored
        BY <3>2
      <4>3. Fits(d, call[d], event'[MessageOf(d)], Len(convs'))
        BY <1>3, <3>1, <3>3, <4>1, <4>2, FitsMore
      <4> QED
        BY <3>1, <4>3
    <3>4. CASE c = MessageOf(d) /\ event[c].incoming = 0
      <4>1. d \in Replies
        BY <2>2, <3>4, CallFacts DEF Calls
      <4>2. call[d].step \notin {"read", "write"} /\ call[d].after = {}
        BY <3>1, <3>4, <4>1 DEF Fits
      <4>3. event[c].stored => event'[c].stored
        BY <3>2, <3>4
      <4>4. call[d].cid \in 0 .. Len(convs')
        BY <1>3, <3>1 DEF Fits
      <4> QED
        BY <3>1, <3>4, <4>1, <4>2, <4>3, <4>4, CallFacts DEF Fits
    <3> QED
      BY <3>2, <3>3, <3>4
  <2> QED
    BY <2>1, <2>2
<1> QED
  BY <1>1, <1>2, <1>4 DEF InvTypes

\* What was written stays written while no call that has recorded moves.
LEMMA WroteStays ==
    ASSUME NEW x \in Entries, Wrote(x),
           \A m \in Messages : event[m].llm = "recorded" => event'[m].llm = "recorded",
           \A d \in Calls : call'[d] = call[d] \/ call[d].step # "recorded"
    PROVE  Wrote(x)'
<1>1. x.of \in Messages
  BY DEF Entries
<1>2. CASE x.by = Framework /\ event[x.of].llm = "recorded"
  BY <1>1, <1>2 DEF Wrote
<1>3. CASE x.by \in Calls /\ call[x.by].step = "recorded"
  <2>1. call'[x.by] = call[x.by]
    BY <1>3
  <2> QED
    BY <1>3, <2>1, CallFacts DEF Wrote
<1> QED
  BY <1>2, <1>3 DEF Wrote

\* The invariant holds on when at most an empty conversation is added, no call
\* comes to have recorded and nobody takes a new copy.
LEMMA QuietSteps ==
    ASSUME Inv, InvTypes', erased' = erased,
           convs' = convs \/ convs' = Append(convs, << >>),
           \A m \in Messages :
              /\ event'[m].incoming = event[m].incoming
              /\ event[m].llm = "recorded" => event'[m].llm = "recorded",
           \A d \in Calls :
              \/ call'[d] = call[d]
              \/ call[d].step # "recorded" /\ call'[d].step \notin {"write", "recorded"}
    PROVE  Inv'
<1>1. InvTypes
  BY DEF Inv
<1>2. /\ \A c \in DOMAIN convs : c \in DOMAIN convs' /\ convs'[c] = convs[c]
      /\ \A c \in DOMAIN convs' : c \in DOMAIN convs \/ convs'[c] = << >>
  <2>1. CASE convs' = convs
    BY <2>1
  <2>2. CASE convs' = Append(convs, << >>)
    BY <1>1, <2>2 DEF InvTypes
  <2> QED
    BY <2>1, <2>2
<1>3. \A c, s : Kept(c, s)' => Kept(c, s) \/ s = << >>
  <2> SUFFICES ASSUME NEW c, NEW s, Kept(c, s)' PROVE Kept(c, s) \/ s = << >>
    OBVIOUS
  <2>1. CASE c \in DOMAIN convs' /\ s = convs'[c]
    BY <1>2, <2>1 DEF Kept
  <2>2. CASE \E d \in Calls : call'[d].step = "write" /\ c = call'[d].cid /\ s = call'[d].copy
    <3>1. PICK d \in Calls : call'[d].step = "write" /\ c = call'[d].cid /\ s = call'[d].copy
      BY <2>2
    <3>2. call'[d] = call[d]
      BY <3>1
    <3> QED
      BY <3>1, <3>2 DEF Kept
  <2> QED
    BY <2>1, <2>2 DEF Kept
<1>4. \A x \in Entries : Wrote(x) => Wrote(x)'
  BY WroteStays
<1>5. ASSUME NEW r \in Replies
      PROVE  /\ call'[r].step = "recorded" => call[r].step = "recorded"
             /\ Of[r] \notin erased /\ call'[r].step = "write" =>
                   In(call'[r].copy, User(Of[r], Of[r]))
  <2>1. r \in Calls /\ Of[r] \in Messages
    BY CallFacts
  <2>2. CASE call'[r] = call[r]
    BY <2>1, <2>2 DEF Inv, KeptAt
  <2>3. CASE call'[r].step \notin {"write", "recorded"}
    BY <2>3
  <2> QED
    BY <2>1, <2>2, <2>3
<1>6. Quiet
  BY <1>2, <1>3, <1>4, <1>5 DEF Quiet
<1> QED
  BY <1>6, QuietKeeps

\* The same for one call whose step leaves the histories alone.
LEMMA QuietOne ==
    ASSUME Inv, NEW c \in Calls, NEW k, Becomes(c, k), UNCHANGED << convs, current, erased >>,
           Fits(c, k, event[MessageOf(c)], Len(convs)),
           call[c].step # "recorded", k.step \notin {"write", "recorded"},
           event' \in [Messages -> EventRecord],
           \A m \in Messages :
              /\ event'[m].stored = event[m].stored /\ event'[m].incoming = event[m].incoming
              /\ event'[m].llm = event[m].llm
                    \/ (c = m /\ k.step # "coming" /\ event[m].llm # "recorded")
    PROVE  Inv'
<1>1. InvTypes /\ Len(convs) \in Nat /\ MessageOf(c) \in Messages
  BY CallFits
<1>2. /\ convs' \in Seq(Seq(Entries)) /\ Len(convs') = Len(convs)
      /\ current' \in 0 .. Len(convs') /\ erased' \subseteq Messages
      /\ \A m \in Messages : event[m].incoming \in 0 .. Len(convs')
  BY <1>1 DEF InvTypes
<1>3. Fits(c, k, event'[MessageOf(c)], Len(convs'))
  BY <1>1, <1>2, FitsMore, CallFacts
<1>4. InvTypes' /\ call'[c] = k /\ \A d \in Calls \ {c} : call'[d] = call[d]
  <2>1. Len(convs) <= Len(convs')
    BY <1>1, <1>2
  <2> QED
    BY <1>1, <1>2, <1>3, <2>1, TypesKeep
<1> QED
  BY <1>4, QuietSteps

\* A reply is posted.
LEMMA PostedKeeps == ASSUME Inv, NEW r \in Replies, Posted(r) PROVE Inv'
<1>1. /\ r \in Calls /\ r \notin Messages /\ MessageOf(r) = Of[r] /\ Of[r] \in Messages
      /\ InvTypes /\ Len(convs) \in Nat
  BY CallFacts, CallFits
<1>2. call[r].step = "coming" /\ UNCHANGED << convs, current, event, erased >>
  BY DEF Posted
<1>3. event' \in [Messages -> EventRecord]
  BY <1>1, <1>2 DEF InvTypes
<1>4. CASE Becomes(r, Ended)
  <2>1. Fits(r, Ended, event[Of[r]], Len(convs)) /\ Ended.step = "over"
    BY <1>1, EndedFits
  <2> QED
    BY <1>1, <1>2, <1>3, <1>4, <2>1, QuietOne
<1>5. CASE /\ event[Of[r]].llm = "no" /\ ~event[Of[r]].stored
           /\ Becomes(r, [NewCall EXCEPT !.step = "find", !.after = Recorders(Of[r])])
  <2>1. PICK after \in SUBSET (Calls \cup {Framework}) : after = Recorders(Of[r])
    BY <1>1, RecordersAre
  <2>2. after \subseteq {Of[r]} /\ (after # {} => event[Of[r]].incoming # 0)
    BY <1>1, <1>5, <2>1, RecordersAre
  <2>3. PICK k : k = [step |-> "find", cid |-> 0, copy |-> << >>, after |-> after]
    OBVIOUS
  <2>4. Becomes(r, k)
    BY <1>5, <2>1, <2>3, NewCallIs
  <2>5. Fits(r, k, event[Of[r]], Len(convs)) /\ k.step = "find"
    BY <1>1, <2>2, <2>3, FindFits
  <2> QED
    BY <1>1, <1>2, <1>3, <2>4, <2>5, QuietOne
<1> QED
  BY <1>4, <1>5 DEF Posted

\* The full-group handler gets the event.
LEMMA HandlerRunsKeeps == ASSUME Inv, NEW m \in Messages, HandlerRuns(m) PROVE Inv'
<1>1. /\ m \in Calls /\ m \notin Replies /\ MessageOf(m) = m
      /\ InvTypes /\ Len(convs) \in Nat /\ event[m] \in EventRecord
  BY CallFacts, CallFits
<1>2. call[m].step = "coming" /\ UNCHANGED << convs, current, erased >>
  BY DEF HandlerRuns
<1>3. event[m].incoming = 0
  BY <1>1, <1>2, RecordersAre
<1>4. event \in [Messages -> EventRecord]
  BY <1>1 DEF InvTypes
<1>5. CASE Becomes(m, Ended)
  <2>1. Fits(m, Ended, event[m], Len(convs)) /\ Ended.step = "over"
    BY <1>1, <1>3, EndedFits
  <2>2. event[m].llm = "no"
    BY <1>1, <1>2 DEF InvTypes, Fits
  <2>3. event' = event \/ event' = [event EXCEPT ![m].llm = "asked"]
    BY DEF HandlerRuns
  <2>4. /\ event' \in [Messages -> EventRecord]
        /\ \A n \in Messages :
              /\ event'[n].stored = event[n].stored /\ event'[n].incoming = event[n].incoming
              /\ event'[n].llm = event[n].llm \/ n = m
    BY <1>4, <2>3 DEF EventRecord
  <2> QED
    BY <1>1, <1>2, <1>5, <2>1, <2>2, <2>4, QuietOne
<1>6. CASE UNCHANGED event /\ Becomes(m, [NewCall EXCEPT !.step = "find"])
  <2>1. PICK none \in SUBSET (Calls \cup {Framework}) : none = {}
    OBVIOUS
  <2>2. PICK k : k = [step |-> "find", cid |-> 0, copy |-> << >>, after |-> none]
    OBVIOUS
  <2>3. Becomes(m, k)
    BY <1>6, <2>1, <2>2, NewCallIs
  <2>4. Fits(m, k, event[m], Len(convs)) /\ k.step = "find"
    BY <1>1, <1>3, <2>1, <2>2, FindFits
  <2> QED
    BY <1>1, <1>2, <1>4, <1>6, <2>3, <2>4, QuietOne
<1> QED
  BY <1>5, <1>6 DEF HandlerRuns

\* The conversation manager answers: the call has its conversation, or none is
\* open.
LEMMA FindsKeeps == ASSUME Inv, NEW c \in Calls, Finds(c) PROVE Inv'
<1>1. /\ Fits(c, call[c], event[MessageOf(c)], Len(convs)) /\ call[c] \in CallRecord
      /\ InvTypes /\ Len(convs) \in Nat
  BY CallFits
<1>2. /\ call[c].step = "find" /\ UNCHANGED << convs, current, event, erased >>
      /\ event' \in [Messages -> EventRecord]
  BY <1>1 DEF Finds, InvTypes
<1>3. CASE current = 0
  <2>1. PICK k : k = [call[c] EXCEPT !.step = "create"]
    OBVIOUS
  <2>2. /\ k \in CallRecord /\ k.step = "create" /\ k.cid = call[c].cid
        /\ k.after = call[c].after
    BY <1>1, <2>1 DEF CallRecord
  <2>3. Fits(c, k, event[MessageOf(c)], Len(convs))
    BY <1>1, <1>2, <2>2 DEF Fits
  <2>4. Becomes(c, k)
    BY <1>3, <2>1 DEF Finds
  <2> QED
    BY <1>2, <2>2, <2>3, <2>4, QuietOne
<1>4. CASE current # 0
  <2>1. PICK cid \in Nat : cid = current /\ cid \in 1 .. Len(convs)
    BY <1>1, <1>4 DEF InvTypes
  <2>2. PICK k : k = WithConversation(c, cid)
    OBVIOUS
  <2>3. Fits(c, k, event[MessageOf(c)], Len(convs)) /\ k.step \in {"read", "pair"}
    BY <1>1, <1>2, <2>1, <2>2, WithConversationIs
  <2>4. Becomes(c, k)
    BY <1>4, <2>1, <2>2 DEF Finds
  <2> QED
    BY <1>2, <2>3, <2>4, QuietOne
<1> QED
  BY <1>3, <1>4

\* The conversation manager raises.
LEMMA FailsKeeps == ASSUME Inv, NEW c \in Calls, Fails(c) PROVE Inv'
<1>1. /\ Fits(c, call[c], event[MessageOf(c)], Len(convs))
      /\ InvTypes /\ Len(convs) \in Nat
  BY CallFits
<1>2. /\ call[c].step \in {"find", "create", "read", "write", "pair"}
      /\ Becomes(c, Ended) /\ UNCHANGED << convs, current, event, erased >>
      /\ event' \in [Messages -> EventRecord]
  BY <1>1 DEF Fails, InvTypes
<1>3. c \in Messages => event[MessageOf(c)].incoming = 0
  BY <1>1, <1>2 DEF Fits
<1>4. Fits(c, Ended, event[MessageOf(c)], Len(convs)) /\ Ended.step = "over"
  BY <1>1, <1>3, EndedFits
<1> QED
  BY <1>2, <1>4, QuietOne

\* The user starts a new conversation, which is empty.
LEMMA UserResetsKeeps == ASSUME Inv, UserResets PROVE Inv'
<1>1. InvTypes
  BY DEF Inv
<1>2. /\ convs' = Append(convs, << >>) /\ current' = Len(convs) + 1
      /\ event' = event /\ call' = call /\ erased' = erased
  BY DEF UserResets
<1>3. /\ convs' \in Seq(Seq(Entries)) /\ Len(convs') = Len(convs) + 1
      /\ Len(convs) \in Nat /\ Len(convs) <= Len(convs')
  <2>1. << >> \in Seq(Entries)
    OBVIOUS
  <2> QED
    BY <1>1, <1>2, <2>1 DEF InvTypes
<1>4. ASSUME NEW c \in Calls PROVE Fits(c, call'[c], event'[MessageOf(c)], Len(convs'))
  <2>1. Fits(c, call[c], event[MessageOf(c)], Len(convs))
    BY <1>1 DEF InvTypes
  <2>2. Fits(c, call[c], event[MessageOf(c)], Len(convs) + 1)
    BY <1>3, <2>1, FitsMore
  <2> QED
    BY <1>2, <1>3, <2>2
<1>5. \A m \in Messages : event'[m].incoming \in 0 .. Len(convs')
  BY <1>1, <1>2, <1>3 DEF InvTypes
<1>6. InvTypes'
  BY <1>1, <1>2, <1>3, <1>4, <1>5 DEF InvTypes
<1> QED
  BY <1>2, <1>6, QuietSteps

\* A new conversation is opened for the call; it is empty and becomes current.
LEMMA CreatesKeeps == ASSUME Inv, NEW c \in Calls, Creates(c) PROVE Inv'
<1>1. /\ Fits(c, call[c], event[MessageOf(c)], Len(convs))
      /\ InvTypes /\ Len(convs) \in Nat
  BY CallFits
<1>2. PICK cid \in Nat : cid = Len(convs) + 1
  BY <1>1
<1>3. PICK k : k = WithConversation(c, cid)
  OBVIOUS
<1>4. /\ call[c].step = "create" /\ convs' = Append(convs, << >>) /\ current' = cid
      /\ Becomes(c, k) /\ erased' = erased /\ event' = event
  BY <1>2, <1>3 DEF Creates
<1>5. /\ convs' \in Seq(Seq(Entries)) /\ Len(convs') = cid
      /\ Len(convs) <= Len(convs') /\ current' \in 0 .. Len(convs')
      /\ erased' \subseteq Messages /\ event' \in [Messages -> EventRecord]
      /\ \A m \in Messages : event'[m].incoming \in 0 .. Len(convs')
  <2>1. << >> \in Seq(Entries)
    OBVIOUS
  <2> QED
    BY <1>1, <1>2, <1>4, <2>1 DEF InvTypes
<1>6. Fits(c, k, event[MessageOf(c)], cid) /\ k.step \in {"read", "pair"}
  <2>1. cid \in 1 .. cid /\ Len(convs) <= cid
    BY <1>1, <1>2
  <2> QED
    BY <1>3, <1>4, <2>1, WithConversationIs
<1>7. InvTypes' /\ call'[c] = k /\ \A d \in Calls \ {c} : call'[d] = call[d]
  BY <1>1, <1>4, <1>5, <1>6, TypesKeep
<1> QED
  BY <1>4, <1>6, <1>7, QuietSteps

\* The copy that is read of a conversation in which the message was recorded
\* has the message.
LEMMA ReadsKeeps == ASSUME Inv, NEW c \in Calls, Reads(c) PROVE Inv'
<1>1. /\ Fits(c, call[c], event[MessageOf(c)], Len(convs)) /\ call[c] \in CallRecord
      /\ InvTypes /\ Len(convs) \in Nat /\ MessageOf(c) \in Messages
  BY CallFits
<1>2. PICK cid : cid = call[c].cid
  OBVIOUS
<1>3. PICK t : t = convs[cid]
  OBVIOUS
<1>4. PICK k : k = [call[c] EXCEPT !.step = "write", !.copy = t]
  OBVIOUS
<1>5. /\ call[c].step = "read" /\ Becomes(c, k)
      /\ convs' = convs /\ current' = current /\ erased' = erased /\ event' = event
  BY <1>2, <1>3, <1>4 DEF Reads
<1>6. cid \in DOMAIN convs /\ t \in Seq(Entries)
  <2>1. cid \in 1 .. Len(convs)
    BY <1>1, <1>2, <1>5 DEF Fits
  <2> QED
    BY <1>1, <1>3, <2>1 DEF InvTypes
<1>7. /\ k \in CallRecord /\ k.step = "write" /\ k.copy = t
      /\ k.cid = cid /\ k.after = call[c].after
  BY <1>1, <1>2, <1>4, <1>6 DEF CallRecord
<1>8. Fits(c, k, event[MessageOf(c)], Len(convs))
  BY <1>1, <1>2, <1>5, <1>7 DEF Fits
<1>9. InvTypes' /\ call'[c] = k /\ \A d \in Calls \ {c} : call'[d] = call[d]
  BY <1>1, <1>5, <1>8, TypesKeep DEF InvTypes
<1>10. \A h, s : Kept(h, s)' => Kept(h, s)
  <2> SUFFICES ASSUME NEW h, NEW s, Kept(h, s)' PROVE Kept(h, s)
    OBVIOUS
  <2>1. CASE h \in DOMAIN convs' /\ s = convs'[h]
    BY <1>5, <2>1 DEF Kept
  <2>2. CASE \E d \in Calls : call'[d].step = "write" /\ h = call'[d].cid /\ s = call'[d].copy
    <3>1. PICK d \in Calls : call'[d].step = "write" /\ h = call'[d].cid /\ s = call'[d].copy
      BY <2>2
    <3>2. CASE d = c
      BY <1>3, <1>6, <1>7, <1>9, <3>1, <3>2 DEF Kept
    <3>3. CASE d # c
      BY <1>9, <3>1, <3>3 DEF Kept
    <3> QED
      BY <3>2, <3>3
  <2> QED
    BY <2>1, <2>2 DEF Kept
<1>11. \A x \in Entries : Wrote(x) => Wrote(x)'
  <2>1. \A d \in Calls : call'[d] = call[d] \/ call[d].step # "recorded"
    BY <1>5, <1>9
  <2> QED
    BY <1>5, <2>1, WroteStays
<1>12. ASSUME NEW r \in Replies
       PROVE  /\ call'[r].step = "recorded" => call[r].step = "recorded"
              /\ Of[r] \notin erased /\ call'[r].step = "write" =>
                    In(call'[r].copy, User(Of[r], Of[r]))
  <2>1. r \in Calls /\ Of[r] \in Messages /\ MessageOf(r) = Of[r]
    BY CallFacts
  <2>2. CASE r = c
    <3>1. call'[r].step = "write" /\ call'[r].copy = t
      BY <1>7, <1>9, <2>2
    <3>2. event[Of[r]].incoming = cid /\ cid # 0
      BY <1>1, <1>2, <1>5, <2>1, <2>2 DEF Fits
    <3>3. Of[r] \notin erased => In(convs[cid], User(Of[r], Of[r]))
      BY <2>1, <3>2 DEF Inv, KeptAt
    <3> QED
      BY <1>3, <3>1, <3>3
  <2>3. CASE r # c
    <3>1. call'[r] = call[r]
      BY <1>9, <2>1, <2>3
    <3> QED
      BY <2>1, <3>1 DEF Inv, KeptAt
  <2> QED
    BY <2>2, <2>3
<1>13. Quiet
  BY <1>5, <1>10, <1>11, <1>12 DEF Quiet
<1> QED
  BY <1>9, <1>13, QuietKeeps

\* A call records: its event gets its mark, and nobody loses one.
LEMMA RecordsMarks ==
    ASSUME Inv, NEW c \in Calls, Records(c), call[c].step \in {"write", "pair"},
           convs' \in Seq(Seq(Entries)), Len(convs') = Len(convs), current' = current,
           erased' \subseteq Messages
    PROVE  /\ InvTypes'
           /\ call'[c].step = "recorded" /\ call'[c].after = call[c].after
           /\ \A d \in Calls \ {c} : call'[d] = call[d]
           /\ \A x \in Entries : Wrote(x) => Wrote(x)'
           /\ \A n \in Messages :
                 \/ event'[n].incoming = event[n].incoming
                 \/ n = c /\ event'[n].incoming = call[c].cid
<1> PICK m : m = MessageOf(c)
  OBVIOUS
<1> PICK e : e = event[m]
  OBVIOUS
<1> PICK n : n = Len(convs)
  OBVIOUS
<1>1. /\ Fits(c, call[c], e, n) /\ call[c] \in CallRecord
      /\ InvTypes /\ n \in Nat /\ m \in Messages /\ e \in EventRecord
  BY CallFits
<1>2. PICK k : k = [call[c] EXCEPT !.step = "recorded", !.cid = 0, !.copy = << >>]
  OBVIOUS
<1>3. k \in CallRecord /\ k.step = "recorded" /\ k.cid = 0 /\ k.after = call[c].after
  BY <1>1, <1>2, RecordedIs
<1>4. PICK f : f = MarksEvent(c)
  OBVIOUS
<1>5. /\ f \in EventRecord /\ f.llm = e.llm /\ (e.stored => f.stored)
      /\ c \in Messages => /\ f.incoming = call[c].cid /\ f.incoming # 0
                           /\ f.incoming \in 0 .. n /\ e.incoming = 0 /\ m = c
      /\ c \in Replies => f.stored = TRUE /\ f.incoming = e.incoming
  <2>1. CASE c \in Messages
    <3>1. call[c].cid \in Nat /\ call[c].cid \in 0 .. n /\ call[c].cid # 0 /\ e.incoming = 0
      BY <1>1, <2>1 DEF Fits, CallRecord
    <3>2. f = [e EXCEPT !.incoming = call[c].cid] /\ m = c /\ c \notin Replies
      BY <1>4, <2>1, CallFacts DEF MarksEvent
    <3> QED
      BY <1>1, <3>1, <3>2 DEF EventRecord
  <2>2. CASE c \in Replies
    <3>1. f = [e EXCEPT !.stored = TRUE] /\ c \notin Messages
      BY <1>4, <2>2, CallFacts DEF MarksEvent
    <3> QED
      BY <1>1, <2>2, <3>1 DEF EventRecord
  <2> QED
    BY <2>1, <2>2 DEF Calls
<1>6. Fits(c, k, f, n)
  BY <1>1, <1>3, <1>5 DEF Fits
<1>7. Becomes(c, k) /\ event' = [event EXCEPT ![m] = f]
  BY <1>2, <1>4 DEF Records
<1>8. /\ event' \in [Messages -> EventRecord] /\ event'[m] = f
      /\ \A l \in Messages \ {m} : event'[l] = event[l]
  BY <1>1, <1>5, <1>7 DEF InvTypes
<1>9. \A l \in Messages :
         /\ event[l].stored => event'[l].stored
         /\ event'[l].llm = event[l].llm
         /\ event'[l].incoming \in 0 .. n
         /\ event'[l].incoming = event[l].incoming
               \/ (c = l /\ event[l].incoming = 0 /\ event'[l].incoming = call[c].cid)
  BY <1>1, <1>5, <1>8 DEF InvTypes, Calls
<1>10. InvTypes' /\ call'[c] = k /\ \A d \in Calls \ {c} : call'[d] = call[d]
  <2>1. Len(convs) <= Len(convs') /\ current' \in 0 .. Len(convs')
    BY <1>1 DEF InvTypes
  <2> QED
    BY <1>1, <1>6, <1>7, <1>8, <1>9, <2>1, TypesKeep
<1>11. \A x \in Entries : Wrote(x) => Wrote(x)'
  <2>1. \A d \in Calls : call'[d] = call[d] \/ call[d].step # "recorded"
    BY <1>10
  <2> QED
    BY <1>9, <2>1, WroteStays
<1> QED
  BY <1>3, <1>9, <1>10, <1>11

\* A call replaces a history by one that was kept somewhere, extended by its
\* entries.
LEMMA RecordsKeeps ==
    ASSUME Inv, NEW c \in Calls, Records(c), call[c].step \in {"write", "pair"},
           NEW m \in Messages, m = MessageOf(c),
           NEW k \in DOMAIN convs, k = call[c].cid, NEW t \in Seq(Entries), Kept(k, t),
           NEW u \in Additions(m, c),
           c \in Messages => u = << User(m, c) >>,
           c \in Replies => u = << Assistant(m, c) >> \/ (u = Pair(m, c) /\ call[c].after = {}),
           u = << Assistant(m, c) >> /\ m \notin erased => In(t, User(m, m)),
           convs' = [convs EXCEPT ![k] = t \o u], current' = current,
           erased \subseteq erased', erased' \subseteq Messages,
           \A x \in Entries : In(convs[k], x) => In(t, x) \/ x.of \in erased'
    PROVE  Inv'
<1>1. c \in Writers /\ InvTypes /\ c # Framework
  BY CallFacts DEF Writers, Inv
<1>2. /\ u \in Seq(Entries)
      /\ \A x : In(u, x) => x = User(m, c) \/ x = Assistant(m, c)
      /\ u # << User(m, c) >> => In(u, Assistant(m, c))
      /\ u # << Assistant(m, c) >> => In(u, User(m, c))
      /\ u = << Assistant(m, c) >> => In(u, Assistant(m, c)) /\ ~In(u, User(m, c))
      /\ u = Pair(m, c) => In(u, Assistant(m, c))
      /\ u = << User(m, c) >> => ~In(u, Assistant(m, c))
  BY <1>1, AdditionFacts
<1>3. PICK s2 \in Seq(Entries) : s2 = t \o u
  <2>1. u \in Seq(Entries)
    BY <1>2
  <2>2. t \o u \in Seq(Entries)
    BY <2>1
  <2> QED
    BY <2>2
<1>4. /\ convs' \in Seq(Seq(Entries)) /\ Len(convs') = Len(convs)
      /\ DOMAIN convs' = DOMAIN convs /\ convs'[k] = s2
      /\ \A h \in DOMAIN convs : h # k => convs'[h] = convs[h]
  BY <1>1, <1>3 DEF InvTypes
<1>5. /\ InvTypes'
      /\ call'[c].step = "recorded" /\ call'[c].after = call[c].after
      /\ \A d \in Calls \ {c} : call'[d] = call[d]
      /\ \A x \in Entries : Wrote(x) => Wrote(x)'
      /\ \A n \in Messages :
            event'[n].incoming = event[n].incoming \/ (n = c /\ event'[n].incoming = k)
  BY <1>4, RecordsMarks
<1>6. \A h, s : Kept(h, s)' => Kept(h, s) \/ (h = k /\ s = s2)
  <2> SUFFICES ASSUME NEW h, NEW s, Kept(h, s)' PROVE Kept(h, s) \/ (h = k /\ s = s2)
    OBVIOUS
  <2>1. CASE h \in DOMAIN convs' /\ s = convs'[h]
    BY <1>4, <2>1 DEF Kept
  <2>2. CASE \E d \in Calls : call'[d].step = "write" /\ h = call'[d].cid /\ s = call'[d].copy
    <3>1. PICK d \in Calls : call'[d].step = "write" /\ h = call'[d].cid /\ s = call'[d].copy
      BY <2>2
    <3>2. call'[d] = call[d]
      BY <1>5, <3>1
    <3> QED
      BY <3>1, <3>2 DEF Kept
  <2> QED
    BY <2>1, <2>2 DEF Kept
<1>7. ASSUME NEW h \in DOMAIN convs, NEW x \in Entries, In(convs[h], x)
      PROVE  In(convs'[h], x) \/ x.of \in erased'
  <2>1. CASE h # k
    BY <1>4, <1>7, <2>1
  <2>2. CASE h = k
    <3>1. In(t, x) => In(s2, x)
      BY <1>2, <1>3, JoinedIn
    <3> QED
      BY <1>4, <1>7, <2>2, <3>1
  <2> QED
    BY <2>1, <2>2
<1>8. ASSUME NEW x \in Entries, In(u, x) PROVE ~Wrote(x) /\ Wrote(x)'
  <2>1. x.by = c /\ x.of = m
    BY <1>1, <1>2, <1>8, EntryFacts
  <2>2. ~Wrote(x)
    BY <1>1, <2>1 DEF Wrote
  <2>3. x.by \in Messages => x.role = "user"
    BY <1>1, <1>2, <1>8, <2>1, EntryFacts
  <2>4. x.by \in Replies /\ x.role = "user" => call[c].after = {}
    <3>1. x.role = "user" => x = User(m, c)
      BY <1>1, <1>2, <1>8, EntryFacts
    <3> QED
      BY <1>2, <1>8, <2>1, <3>1
  <2> QED
    BY <1>5, <2>1, <2>2, <2>3, <2>4 DEF Wrote
<1>9. \A n \in Messages :
         \/ event'[n].incoming = event[n].incoming
         \/ n = m /\ event'[n].incoming = k /\ In(u, User(m, m))
  <2>1. c \in Messages => c = m /\ u = << User(m, m) >>
    BY CallFacts
  <2>2. c \in Messages => In(u, User(m, m))
    BY <1>2, <2>1, <1>1, EntryFacts
  <2> QED
    BY <1>5, <2>1, <2>2
<1>10. ASSUME NEW r \in Replies
       PROVE  /\ call'[r].step = "recorded" =>
                    call[r].step = "recorded" \/ (Of[r] = m /\ In(u, Assistant(m, r)))
              /\ call'[r].step = "write" => call'[r] = call[r]
  <2>1. r \in Calls
    BY CallFacts
  <2>2. CASE r # c
    BY <1>5, <2>1, <2>2
  <2>3. CASE r = c
    <3>1. Of[r] = m /\ u # << User(m, c) >>
      BY <1>1, <1>2, <2>3, CallFacts
    <3> QED
      BY <1>2, <1>5, <2>3, <3>1
  <2> QED
    BY <2>2, <2>3
<1>11. Adds(m, c, k, t, u)
  BY <1>3, <1>4, <1>5, <1>6, <1>7, <1>8, <1>9, <1>10 DEF Adds
<1> QED
  BY <1>1, <1>5, <1>11, AddsKeep

\* A copy that was read, with its addition, is written back.
LEMMA WritesKeeps == ASSUME Inv, NEW c \in Calls, Writes(c) PROVE Inv'
<1> PICK m : m = MessageOf(c)
  OBVIOUS
<1>1. /\ Fits(c, call[c], event[m], Len(convs)) /\ call[c] \in CallRecord
      /\ InvTypes /\ Len(convs) \in Nat /\ m \in Messages /\ c \in Writers
  BY CallFits DEF Writers
<1>2. call[c].step = "write" /\ Records(c) /\ current' = current
  BY DEF Writes
<1>3. PICK k \in DOMAIN convs : k = call[c].cid
  <2>1. call[c].cid \in 1 .. Len(convs)
    BY <1>1, <1>2 DEF Fits
  <2> QED
    BY <1>1, <2>1 DEF InvTypes
<1>4. PICK t \in Seq(Entries) : t = call[c].copy
  BY <1>1 DEF CallRecord
<1>5. PICK w : w = Written(c)
  OBVIOUS
<1>6. /\ c \in Messages => w = User(m, c)
      /\ c \in Replies => w = Assistant(m, c)
  BY <1>5, CallFacts DEF Written
<1>7. w \in Entries /\ << w >> \in Additions(m, c) /\ Append(t, w) = t \o << w >>
  <2>1. w \in Entries
    BY <1>1, <1>6, EntryFacts DEF Calls
  <2>2. << w >> \in Additions(m, c)
    BY <1>6 DEF Additions, Calls
  <2> QED
    BY <2>1, <2>2
<1>8. /\ convs' = [convs EXCEPT ![k] = t \o << w >>]
      /\ erased' = erased \cup {entry.of : entry \in ToSet(convs[k]) \ ToSet(t)}
  BY <1>3, <1>4, <1>5, <1>7 DEF Writes
<1>9. erased \subseteq erased' /\ erased' \subseteq Messages
  <2>1. \A x \in ToSet(convs[k]) : x.of \in Messages
    <3>1. convs[k] \in Seq(Entries)
      BY <1>1 DEF InvTypes
    <3>2. \A i \in DOMAIN convs[k] : convs[k][i] \in Entries
      BY <3>1
    <3>3. \A x \in Entries : x.of \in Messages
      BY DEF Entries
    <3> QED
      BY <3>2, <3>3 DEF ToSet
  <2> QED
    BY <1>1, <1>8, <2>1 DEF InvTypes
<1>10. \A x \in Entries : In(convs[k], x) => In(t, x) \/ x.of \in erased'
  BY <1>8 DEF In, ToSet
<1>11. Kept(k, t)
  BY <1>2, <1>3, <1>4 DEF Kept
<1>12. << w >> = << Assistant(m, c) >> /\ m \notin erased => In(t, User(m, m))
  <2> SUFFICES ASSUME << w >> = << Assistant(m, c) >>, m \notin erased PROVE In(t, User(m, m))
    OBVIOUS
  <2>1. w = Assistant(m, c)
    OBVIOUS
  <2>2. c \in Replies
    BY <1>1, <1>6, <2>1, EntryFacts DEF Calls
  <2>3. Of[c] = m /\ KeptAt(m)
    BY <1>1, <2>2, CallFacts DEF Inv
  <2> QED
    BY <1>2, <1>4, <2>2, <2>3 DEF KeptAt
<1> PICK u \in Additions(m, c) : u = << w >>
  BY <1>7
<1>13. /\ c \in Messages => u = << User(m, c) >>
       /\ c \in Replies => u = << Assistant(m, c) >>
  BY <1>6
<1> QED
  BY <1>1, <1>2, <1>3, <1>8, <1>9, <1>10, <1>11, <1>12, <1>13, RecordsKeeps

\* A message and its answer are added as a pair.
LEMMA AddsPairKeeps == ASSUME Inv, NEW c \in Calls, AddsPair(c) PROVE Inv'
<1> PICK m : m = MessageOf(c)
  OBVIOUS
<1>1. /\ Fits(c, call[c], event[m], Len(convs)) /\ call[c] \in CallRecord
      /\ InvTypes /\ Len(convs) \in Nat /\ m \in Messages /\ c \in Writers
  BY CallFits DEF Writers
<1>2. call[c].step = "pair" /\ Records(c) /\ current' = current /\ erased' = erased
  BY DEF AddsPair
<1>3. PICK k \in DOMAIN convs : k = call[c].cid
  <2>1. call[c].cid \in 1 .. Len(convs)
    BY <1>1, <1>2 DEF Fits
  <2> QED
    BY <1>1, <2>1 DEF InvTypes
<1>4. PICK t \in Seq(Entries) : t = convs[k]
  BY <1>1 DEF InvTypes
<1>5. PICK u \in Additions(m, c) : u = Pair(m, c)
  BY DEF Additions
<1>6. convs' = [convs EXCEPT ![k] = t \o u]
  BY <1>3, <1>4, <1>5 DEF AddsPair
<1>7. Kept(k, t) /\ erased \subseteq erased' /\ erased' \subseteq Messages
  BY <1>1, <1>2, <1>4 DEF Kept, InvTypes
<1>8. c \notin Messages /\ call[c].after = {}
  BY <1>1, <1>2 DEF Fits, Calls
<1>9. u # << Assistant(m, c) >>
  BY <1>1, <1>5, EntryFacts DEF Pair
<1>10. \A x \in Entries : In(convs[k], x) => In(t, x) \/ x.of \in erased'
  BY <1>4
<1> QED
  BY <1>1, <1>2, <1>3, <1>5, <1>6, <1>7, <1>8, <1>9, <1>10, RecordsKeeps

\* The framework's pair opens a conversation where there is none.
LEMMA EndsKeeps == ASSUME Inv, NEW m \in Messages, Ends(m) PROVE Inv'
<1>1. /\ m \in Calls /\ MessageOf(m) = m /\ m \notin Replies /\ Framework \notin Calls
      /\ Framework \in Writers /\ Fits(m, call[m], event[m], Len(convs))
      /\ InvTypes /\ Len(convs) \in Nat /\ event[m] \in EventRecord
  BY CallFits, CallFacts DEF Writers
<1>2. PICK u \in Additions(m, Framework) : u = Pair(m, Framework)
  BY DEF Additions
<1>3. /\ u \in Seq(Entries)
      /\ \A x : In(u, x) => x = User(m, Framework) \/ x = Assistant(m, Framework)
      /\ u # << Assistant(m, Framework) >>
  BY <1>1, <1>2, AdditionFacts, EntryFacts DEF Pair
<1>4. /\ event[m].llm = "asked" /\ event' = [event EXCEPT ![m].llm = "recorded"]
      /\ call' = call /\ erased' = erased
  BY DEF Ends
<1>5. /\ event' \in [Messages -> EventRecord]
      /\ \A n \in Messages : /\ event'[n].stored = event[n].stored
                             /\ event'[n].incoming = event[n].incoming
                             /\ event'[n].llm = IF n = m THEN "recorded" ELSE event[n].llm
  BY <1>1, <1>4 DEF InvTypes, EventRecord
<1>6. PICK k \in DOMAIN convs', t \in Seq(Entries) :
         /\ convs'[k] = t \o u
         /\ (Kept(k, t) \/ t = << >>)
         /\ convs' \in Seq(Seq(Entries)) /\ Len(convs) <= Len(convs')
         /\ current' \in 0 .. Len(convs')
         /\ \A h \in DOMAIN convs : h \in DOMAIN convs' /\ (h # k => convs'[h] = convs[h])
         /\ \A h \in DOMAIN convs' : h \in DOMAIN convs \/ h = k
         /\ k \in DOMAIN convs => t = convs[k]
  <2>1. CASE current = 0
    <3>1. convs' = Append(convs, u) /\ current' = Len(convs) + 1
      BY <1>2, <2>1 DEF Ends
    <3>2. PICK n \in Nat : n = Len(convs) + 1
      BY <1>1
    <3>3. /\ convs' \in Seq(Seq(Entries)) /\ Len(convs') = n /\ convs'[n] = u
          /\ DOMAIN convs' = 1 .. n /\ DOMAIN convs = 1 .. Len(convs)
          /\ \A h \in DOMAIN convs : convs'[h] = convs[h]
      BY <1>1, <1>3, <3>1, <3>2 DEF InvTypes
    <3>4. << >> \o u = u /\ << >> \in Seq(Entries)
      BY <1>3
    <3>5. /\ n \in DOMAIN convs' /\ n \notin DOMAIN convs /\ DOMAIN convs \subseteq DOMAIN convs'
          /\ \A h \in DOMAIN convs' : h \in DOMAIN convs \/ h = n
          /\ Len(convs) <= Len(convs') /\ current' \in 0 .. Len(convs')
      BY <1>1, <3>1, <3>2, <3>3
    <3> QED
      BY <3>3, <3>4, <3>5
  <2>2. CASE current # 0
    <3>1. PICK n \in DOMAIN convs : n = current
      BY <1>1, <2>2 DEF InvTypes
    <3>2. PICK r \in Seq(Entries) : r = convs[n]
      BY <1>1 DEF InvTypes
    <3>3. convs' = [convs EXCEPT ![n] = r \o u] /\ current' = current
      BY <1>2, <2>2, <3>1, <3>2 DEF Ends
    <3>4. PICK s2 \in Seq(Entries) : s2 = r \o u
      <4>1. u \in Seq(Entries)
        BY <1>3
      <4>2. r \o u \in Seq(Entries)
        BY <4>1
      <4> QED
        BY <4>2
    <3>5. /\ convs' \in Seq(Seq(Entries)) /\ Len(convs') = Len(convs) /\ convs'[n] = s2
          /\ DOMAIN convs' = DOMAIN convs
          /\ \A h \in DOMAIN convs : h # n => convs'[h] = convs[h]
          /\ current' \in 0 .. Len(convs') /\ Len(convs) <= Len(convs')
      BY <1>1, <3>3, <3>4 DEF InvTypes
    <3>6. Kept(n, r)
      BY <3>2 DEF Kept
    <3> QED
      BY <3>2, <3>4, <3>5, <3>6
  <2> QED
    BY <2>1, <2>2
<1>7. InvTypes'
  <2>1. Becomes(m, call[m])
    BY <1>1, <1>4 DEF InvTypes, Becomes
  <2>2. call[m].step # "coming"
    BY <1>1, <1>4 DEF Fits
  <2>3. Fits(m, call[m], event'[m], Len(convs'))
    <3>1. Len(convs') \in Nat
      BY <1>6
    <3> QED
      BY <1>1, <1>5, <1>6, <2>2, <3>1, FitsMore
  <2>4. /\ erased' \subseteq Messages
        /\ \A n \in Messages : event'[n].incoming \in 0 .. Len(convs')
    BY <1>1, <1>4, <1>5, <1>6 DEF InvTypes
  <2> QED
    BY <1>1, <1>5, <1>6, <2>1, <2>3, <2>4, TypesKeep
<1> PICK s2 : s2 = t \o u
  OBVIOUS
<1>8. \A h, s : Kept(h, s)' => Kept(h, s) \/ (h = k /\ s = s2)
  <2>1. \A h, s : h \in DOMAIN convs' /\ s = convs'[h] => Kept(h, s) \/ (h = k /\ s = s2)
    BY <1>6 DEF Kept
  <2> QED
    BY <1>4, <2>1 DEF Kept
<1>9. ASSUME NEW h \in DOMAIN convs, NEW x \in Entries, In(convs[h], x)
      PROVE  In(convs'[h], x)
  <2>1. In(t, x) => In(t \o u, x)
    BY <1>3, JoinedIn
  <2> QED
    BY <1>6, <1>9, <2>1
<1>10. \A x \in Entries : Wrote(x) => Wrote(x)'
  BY <1>4, <1>5, WroteStays
<1>11. ASSUME NEW x \in Entries, In(u, x) PROVE ~Wrote(x) /\ Wrote(x)'
  <2>1. x.by = Framework /\ x.of = m
    BY <1>1, <1>3, <1>11, EntryFacts
  <2> QED
    BY <1>1, <1>4, <1>5, <2>1 DEF Wrote
<1>12. ASSUME NEW r \in Replies PROVE call'[r] = call[r]
  BY <1>4
<1>13. Adds(m, Framework, k, t, u)
  BY <1>3, <1>4, <1>5, <1>6, <1>8, <1>9, <1>10, <1>11, <1>12 DEF Adds
<1> QED
  BY <1>1, <1>7, <1>13, AddsKeep

\* Every step keeps the invariant.
LEMMA RepliesStep == Inv /\ [Next]_allVars => Inv'
<1> SUFFICES ASSUME Inv, [Next]_allVars PROVE Inv'
  OBVIOUS
<1>1. CASE UNCHANGED replyVars
  BY <1>1 DEF replyVars, Inv, InvTypes, Fits, OnceAt, OrderAt, KeptAt, Absent, OnlyOnce, Kept,
              Wrote, MessageOf
<1>2. CASE Handles
  <2>1. ASSUME NEW r \in Replies, Posted(r) PROVE Inv'
    BY <2>1, PostedKeeps
  <2>2. ASSUME NEW m \in Messages, HandlerRuns(m) \/ Ends(m) PROVE Inv'
    BY <2>2, HandlerRunsKeeps, EndsKeeps
  <2>3. ASSUME NEW c \in Calls, GoesOn(c) PROVE Inv'
    BY <2>3, FindsKeeps, CreatesKeeps, ReadsKeeps, WritesKeeps, AddsPairKeeps, FailsKeeps
       DEF GoesOn
  <2> QED
    BY <1>2, <2>1, <2>2, <2>3, UserResetsKeeps DEF Handles
<1>3. CASE UNCHANGED allVars
  BY <1>1, <1>3 DEF allVars
<1> QED
  BY <1>1, <1>2, <1>3 DEF Next

-----------------------------------------------------------------------------

\* The invariant of every state: types, every entry once, answers after their
\* messages, in the conversations and in every copy of one.
THEOREM RepliesInvHolds == Spec => []Inv
<1> QED
  BY RepliesInit, RepliesStep, PTL DEF Spec

\* Types of the calls and of the conversations, and no call names a conversation
\* that does not exist.
THEOREM RepliesTypesCorrect == Spec => []TypeOK
<1>1. Inv => TypeOK
  BY DEF Inv, InvTypes, TypeOK, Fits
<1> QED
  BY <1>1, RepliesInvHolds, PTL

\* The places hold what stands in the conversations.
LEMMA PlaceFacts ==
    /\ \A p \in Places : /\ p = << p[1], p[2] >> /\ p[1] \in DOMAIN convs
                         /\ p[2] \in DOMAIN convs[p[1]] /\ EntryAt(p) = convs[p[1]][p[2]]
    /\ \A c \in DOMAIN convs : \A i \in DOMAIN convs[c] :
          << c, i >> \in Places /\ EntryAt(<< c, i >>) = convs[c][i]
  BY DEF Places, EntryAt

\* What stands at a place is an entry, and has been written.
LEMMA PlaceWrote ==
    ASSUME Inv, NEW p \in Places
    PROVE  /\ EntryAt(p) \in Entries /\ Wrote(EntryAt(p)) /\ OnlyOnce(EntryAt(p))
           /\ Kept(p[1], convs[p[1]]) /\ In(convs[p[1]], EntryAt(p))
<1>1. /\ p[1] \in DOMAIN convs /\ p[2] \in DOMAIN convs[p[1]]
      /\ EntryAt(p) = convs[p[1]][p[2]]
  BY PlaceFacts
<1>2. convs[p[1]] \in Seq(Entries)
  BY <1>1 DEF Inv, InvTypes
<1>3. EntryAt(p) \in Entries
  BY <1>1, <1>2
<1>4. Kept(p[1], convs[p[1]]) /\ In(convs[p[1]], EntryAt(p))
  BY <1>1 DEF Kept, In
<1>5. OnceAt(EntryAt(p))
  BY <1>3 DEF Inv
<1> QED
  BY <1>3, <1>4, <1>5 DEF OnceAt, Absent

\* For any number of messages, conversations and replies, in whatever way the
\* replies overlap and whatever fails: no entry is there twice, and a reply that
\* comes after another has been recorded, or after the message, adds none of its
\* own beside it.
THEOREM NothingTwice == Spec => []EntriesOnce
<1>1. ASSUME Inv, NEW p \in Places, NEW q \in Places, EntryAt(p) = EntryAt(q)
      PROVE  p = q
  <2>1. /\ p = << p[1], p[2] >> /\ q = << q[1], q[2] >>
        /\ p[2] \in DOMAIN convs[p[1]] /\ convs[p[1]][p[2]] = EntryAt(p)
        /\ q[2] \in DOMAIN convs[q[1]] /\ convs[q[1]][q[2]] = EntryAt(p)
    BY <1>1, PlaceFacts
  <2>2. /\ OnlyOnce(EntryAt(p))
        /\ Kept(p[1], convs[p[1]]) /\ In(convs[p[1]], EntryAt(p))
        /\ Kept(q[1], convs[q[1]]) /\ In(convs[q[1]], EntryAt(p))
    BY <1>1, PlaceWrote
  <2>3. p[1] = q[1]
    BY <2>2 DEF OnlyOnce
  <2>4. Once(convs[p[1]], EntryAt(p))
    BY <2>2 DEF OnlyOnce
  <2>5. p[2] = q[2]
    BY <2>1, <2>3, <2>4 DEF Once
  <2> QED
    BY <2>1, <2>3, <2>5
<1>2. ASSUME Inv, NEW p \in Places, NEW q \in Places,
             EntryAt(p).by \in Replies,
             EntryAt(q).role = EntryAt(p).role, EntryAt(q).of = EntryAt(p).of
      PROVE  EntryAt(q).by \notin call[EntryAt(p).by].after
  <2> PICK x \in Entries : x = EntryAt(p) /\ Wrote(x)
    BY <1>2, PlaceWrote
  <2> PICK y \in Entries : y = EntryAt(q) /\ Wrote(y)
    BY <1>2, PlaceWrote
  <2>1. x.by \in Replies /\ x.by # Framework /\ x.by \in Calls /\ Of[x.by] = x.of
    BY <1>2, CallFacts DEF Wrote
  <2>2. call[x.by].after \subseteq {x.of}
    BY <1>2, <2>1 DEF Inv, InvTypes, Fits
  <2>3. ASSUME y.by \in call[x.by].after PROVE FALSE
    <3>1. y.by \in Messages /\ y.by # Framework
      BY <2>2, <2>3, CallFacts DEF Entries
    <3>2. x.role = "user"
      BY <1>2, <3>1 DEF Wrote
    <3>3. call[x.by].after = {}
      BY <2>1, <3>2 DEF Wrote
    <3> QED
      BY <2>3, <3>3
  <2> QED
    BY <2>3
<1>3. Inv => EntriesOnce
  BY <1>1, <1>2 DEF EntriesOnce
<1> QED
  BY <1>3, RepliesInvHolds, PTL

\* Likewise, what was recorded and not erased by an overlapping write-back is
\* there, and no answer without its message before it.
THEOREM NothingIsMissing == Spec => []HistoryIsComplete
<1>1. ASSUME Inv PROVE HistoryIsComplete
  <2> SUFFICES ASSUME NEW m \in Messages \ erased
               PROVE  /\ event[m].incoming # 0 =>
                            User(m, m) \in ToSet(convs[event[m].incoming])
                      /\ \A r \in Replies : Of[r] = m /\ call[r].step = "recorded" =>
                            \E p \in Places : EntryAt(p) = Assistant(m, r)
                      /\ \A p \in Places :
                            EntryAt(p).role = "assistant" /\ EntryAt(p).of = m =>
                               \E q \in Places :
                                  /\ q[1] = p[1] /\ q[2] < p[2]
                                  /\ EntryAt(q).role = "user" /\ EntryAt(q).of = m
    BY DEF HistoryIsComplete
  <2>1. KeptAt(m) /\ OrderAt(m)
    BY <1>1 DEF Inv
  <2>2. event[m].incoming # 0 => User(m, m) \in ToSet(convs[event[m].incoming])
    BY <2>1 DEF KeptAt, In, ToSet
  <2>3. ASSUME NEW r \in Replies, Of[r] = m, call[r].step = "recorded"
        PROVE  \E p \in Places : EntryAt(p) = Assistant(m, r)
    <3>1. PICK c \in DOMAIN convs : In(convs[c], Assistant(m, r))
      BY <2>1, <2>3 DEF KeptAt
    <3>2. PICK i \in DOMAIN convs[c] : convs[c][i] = Assistant(m, r)
      BY <3>1 DEF In
    <3> QED
      BY <3>2, PlaceFacts
  <2>4. ASSUME NEW p \in Places, EntryAt(p).role = "assistant", EntryAt(p).of = m
        PROVE  \E q \in Places : /\ q[1] = p[1] /\ q[2] < p[2]
                                 /\ EntryAt(q).role = "user" /\ EntryAt(q).of = m
    <3>1. /\ p[1] \in DOMAIN convs /\ p[2] \in DOMAIN convs[p[1]]
          /\ EntryAt(p) = convs[p[1]][p[2]]
      BY PlaceFacts
    <3>2. Follows(convs[p[1]], m)
      BY <2>1, <3>1 DEF OrderAt, Kept
    <3>3. PICK j \in DOMAIN convs[p[1]] :
             j < p[2] /\ convs[p[1]][j].role = "user" /\ convs[p[1]][j].of = m
      BY <2>4, <3>1, <3>2 DEF Follows
    <3>4. PICK q : q = << p[1], j >>
      OBVIOUS
    <3>5. q \in Places /\ EntryAt(q) = convs[p[1]][j] /\ q[1] = p[1] /\ q[2] = j
      BY <3>1, <3>4, PlaceFacts
    <3> QED
      BY <3>3, <3>5
  <2> QED
    BY <2>2, <2>3, <2>4
<1> QED
  BY <1>1, RepliesInvHolds, PTL

-----------------------------------------------------------------------------
(* Induction over numbers: of the numbers with a property, one is least.    *)

\* Every set of natural numbers that is not empty has a least element.
LEMMA Least == ASSUME NEW T \in SUBSET Nat, T # {} PROVE \E n \in T : \A k \in T : n <= k
<1> DEFINE R == {ss \in Nat \X Nat : ss[1] < ss[2]}
<1>1. IsWellFoundedOn(R, Nat)
  BY NatLessThanWellFounded DEF OpToRel
<1> HIDE DEF R
<1>2. PICK n \in T : \A k \in T : ~(<< k, n >> \in R)
  BY <1>1, WFMin
<1>3. \A k \in T : ~(k < n)
  BY <1>2 DEF R
<1> QED
  BY <1>3

\* A set of numbers up to n that holds with every number the next one, and the
\* first, holds all.
LEMMA Upward ==
    ASSUME NEW a \in Int, NEW n \in Int, NEW S, a <= n => a \in S,
           \A i \in a .. n - 1 : i \in S => i + 1 \in S
    PROVE  a .. n \subseteq S
<1> DEFINE T == {k \in Nat : a + k <= n /\ a + k \notin S}
<1>1. SUFFICES ASSUME T # {} PROVE FALSE
  <2>1. ASSUME T = {}, NEW i \in a .. n PROVE i \in S
    <3>1. i - a \in Nat /\ a + (i - a) = i /\ i <= n
      OBVIOUS
    <3>2. i - a \notin T
      BY <2>1
    <3> QED
      BY <3>1, <3>2
  <2> QED
    BY <2>1
<1>2. PICK k \in T : \A j \in T : k <= j
  BY <1>1, Least
<1>3. k \in Nat /\ a + k <= n /\ a + k \notin S /\ k # 0
  BY <1>2
<1>4. k - 1 \in Nat /\ k - 1 \notin T /\ a + (k - 1) <= n
  BY <1>2, <1>3
<1>5. a + (k - 1) \in S /\ a + (k - 1) \in a .. n - 1 /\ (a + (k - 1)) + 1 = a + k
  BY <1>3, <1>4
<1> QED
  BY <1>3, <1>5

-----------------------------------------------------------------------------
(* FlattenSeq, the concatenation of a sequence of sequences.                *)

\* The function by which FlattenSeq is defined.
Flattens(f, ss) ==
    f = [i \in 1 .. Len(ss) |-> IF i = 1 THEN ss[i] ELSE f[i - 1] \o ss[i]]

\* There is such a function.
LEMMA FlattenExists ==
    ASSUME NEW A, NEW ss \in Seq(Seq(A))
    PROVE  \E f : Flattens(f, ss)
<1> DEFINE F(f, n) == f = [i \in 1 .. n |-> IF i = 1 THEN ss[i] ELSE f[i - 1] \o ss[i]]
           S == {n \in Nat : \E f : F(f, n)}
<1>1. 0 \in S
  <2> DEFINE f == [i \in 1 .. 0 |-> ss[i]]
  <2>1. F(f, 0)
    OBVIOUS
  <2> QED
    BY <2>1
<1>2. ASSUME NEW n \in Nat, n \in S PROVE n + 1 \in S
  <2>1. PICK f : F(f, n)
    BY <1>2
  <2> DEFINE g == [i \in 1 .. n + 1 |->
                      IF i <= n THEN f[i] ELSE IF i = 1 THEN ss[i] ELSE f[i - 1] \o ss[i]]
  <2>2. \A i \in 1 .. n : f[i] = IF i = 1 THEN ss[i] ELSE f[i - 1] \o ss[i]
    BY <2>1
  <2>6. \A i \in 1 .. n : g[i] = f[i]
    OBVIOUS
  <2>7. n + 1 \in 1 .. n + 1 => g[n + 1] = IF n + 1 = 1 THEN ss[n + 1] ELSE f[n] \o ss[n + 1]
    OBVIOUS
  <2>3. \A i \in 1 .. n + 1 : i # 1 => i - 1 \in 1 .. n
    OBVIOUS
  <2>4. \A i \in 1 .. n + 1 : g[i] = IF i = 1 THEN ss[i] ELSE g[i - 1] \o ss[i]
    BY <2>2, <2>3
  <2>5. F(g, n + 1)
    BY <2>4
  <2> HIDE DEF F, g
  <2> QED
    BY <2>5
<1> HIDE DEF S
<1>3. 0 .. Len(ss) \subseteq S
  <2>1. Len(ss) \in Int /\ 0 \in Int
    OBVIOUS
  <2>2. \A i \in 0 .. Len(ss) - 1 : i \in S => i + 1 \in S
    BY <1>2
  <2> QED
    BY <1>1, <2>1, <2>2, Upward
<1>4. Len(ss) \in S
  BY <1>3
<1> QED
  BY <1>4 DEF S, Flattens

\* What FlattenSeq computes.
LEMMA FlattenIs ==
    ASSUME NEW A, NEW ss \in Seq(Seq(A)), ss # << >>
    PROVE  \E f : /\ FlattenSeq(ss) = f[Len(ss)]
                  /\ f[1] = ss[1]
                  /\ \A i \in 2 .. Len(ss) : f[i] = f[i - 1] \o ss[i]
<1> DEFINE f == CHOOSE g : Flattens(g, ss)
<1>1. Flattens(f, ss)
  BY FlattenExists
<1>2. FlattenSeq(ss) = f[Len(ss)]
  BY DEF FlattenSeq, Flattens
<1> HIDE DEF f
<1>3. Len(ss) \in Nat /\ Len(ss) # 0
  BY EmptySeq, SeqEqual
<1>4. \A i \in 1 .. Len(ss) : f[i] = IF i = 1 THEN ss[i] ELSE f[i - 1] \o ss[i]
  BY <1>1 DEF Flattens
<1>5. f[1] = ss[1]
  BY <1>3, <1>4
<1>6. \A i \in 2 .. Len(ss) : i \in 1 .. Len(ss) /\ i # 1
  BY <1>3
<1>7. \A i \in 2 .. Len(ss) : f[i] = f[i - 1] \o ss[i]
  BY <1>4, <1>6
<1> QED
  BY <1>2, <1>5, <1>7

\* Nothing but the elements of the parts is in it.
LEMMA FlattenInSeq ==
    ASSUME NEW A, NEW ss \in Seq(Seq(A)) PROVE FlattenSeq(ss) \in Seq(A)
<1>1. CASE ss = << >>
  <2>1. << >> \in Seq(A)
    BY EmptySeq
  <2> QED
    BY <1>1, <2>1 DEF FlattenSeq
<1>2. CASE ss # << >>
  <2>1. PICK f : /\ FlattenSeq(ss) = f[Len(ss)]
                 /\ f[1] = ss[1]
                 /\ \A i \in 2 .. Len(ss) : f[i] = f[i - 1] \o ss[i]
    BY <1>2, FlattenIs
  <2> DEFINE S == {i \in Int : f[i] \in Seq(A)}
  <2>2. Len(ss) \in Nat /\ Len(ss) # 0 /\ \A i \in 1 .. Len(ss) : ss[i] \in Seq(A)
    BY <1>2, EmptySeq, ElementOfSeq
  <2>3. 1 \in S
    BY <2>1, <2>2
  <2>4. ASSUME NEW i \in 1 .. Len(ss) - 1, i \in S PROVE i + 1 \in S
    <3>1. i + 1 \in 2 .. Len(ss) /\ i + 1 \in 1 .. Len(ss) /\ (i + 1) - 1 = i
      BY <2>2
    <3>2. f[i + 1] = f[i] \o ss[i + 1]
      BY <2>1, <3>1
    <3>3. f[i] \in Seq(A) /\ ss[i + 1] \in Seq(A)
      BY <2>2, <2>4, <3>1
    <3>4. f[i] \o ss[i + 1] \in Seq(A)
      BY <3>3, ConcatProperties
    <3>5. i + 1 \in Int /\ f[i + 1] \in Seq(A)
      BY <3>1, <3>2, <3>4
    <3> QED
      BY <3>5
  <2> HIDE DEF S
  <2>5. 1 .. Len(ss) \subseteq S
    <3>1. \A i \in 1 .. Len(ss) - 1 : i \in S => i + 1 \in S
      BY <2>4
    <3>2. 1 \in Int /\ Len(ss) \in Int
      BY <2>2
    <3> QED
      BY <2>3, <3>1, <3>2, Upward
  <2>6. Len(ss) \in S
    BY <2>2, <2>5
  <2> QED
    BY <2>1, <2>6 DEF S
<1> QED
  BY <1>1, <1>2

\* One part more.
LEMMA FlattenAppend ==
    ASSUME NEW A, NEW ss \in Seq(Seq(A)), NEW s \in Seq(A)
    PROVE  FlattenSeq(Append(ss, s)) = FlattenSeq(ss) \o s
<1> DEFINE tt == Append(ss, s)
           n == Len(ss)
<1>1. /\ tt \in Seq(Seq(A)) /\ tt # << >> /\ n \in Nat /\ Len(tt) = n + 1
      /\ tt[n + 1] = s /\ \A i \in 1 .. n : tt[i] = ss[i]
  BY AppendProperties, LenProperties
<1> HIDE DEF tt, n
<1>2. PICK g : /\ FlattenSeq(tt) = g[Len(tt)]
               /\ g[1] = tt[1]
               /\ \A i \in 2 .. Len(tt) : g[i] = g[i - 1] \o tt[i]
  BY <1>1, FlattenIs
<1>3. CASE ss = << >>
  <2>1. n = 0
    BY <1>3, EmptySeq DEF n
  <2>2. FlattenSeq(tt) = s
    BY <1>1, <1>2, <2>1
  <2>3. FlattenSeq(ss) = << >>
    BY <1>3 DEF FlattenSeq
  <2>4. << >> \o s = s
    BY ConcatEmptySeq
  <2> QED
    BY <2>2, <2>3, <2>4 DEF tt
<1>4. CASE ss # << >>
  <2>1. PICK f : /\ FlattenSeq(ss) = f[n]
                 /\ f[1] = ss[1]
                 /\ \A i \in 2 .. n : f[i] = f[i - 1] \o ss[i]
    BY <1>4, FlattenIs DEF n
  <2>2. n # 0
    BY <1>4, EmptySeq DEF n
  <2> DEFINE S == {i \in Int : f[i] = g[i]}
  <2>3. 1 \in S
    BY <1>1, <1>2, <2>1, <2>2
  <2>4. ASSUME NEW i \in 1 .. n - 1, i \in S PROVE i + 1 \in S
    <3>1. /\ i + 1 \in 2 .. n /\ i + 1 \in 2 .. Len(tt) /\ (i + 1) - 1 = i
          /\ i + 1 \in 1 .. n
      BY <1>1
    <3>2. f[i + 1] = f[i] \o ss[i + 1] /\ g[i + 1] = g[i] \o tt[i + 1]
      BY <1>2, <2>1, <3>1
    <3>3. ss[i + 1] = tt[i + 1] /\ f[i] = g[i]
      BY <1>1, <2>4, <3>1
    <3>4. i + 1 \in Int /\ f[i + 1] = g[i + 1]
      BY <3>1, <3>2, <3>3
    <3> QED
      BY <3>4
  <2> HIDE DEF S
  <2>5. 1 .. n \subseteq S
    <3>1. \A i \in 1 .. n - 1 : i \in S => i + 1 \in S
      BY <2>4
    <3>2. 1 \in Int /\ n \in Int
      BY <1>1
    <3> QED
      BY <2>3, <3>1, <3>2, Upward
  <2>6. n \in S
    BY <1>1, <2>2, <2>5
  <2>7. f[n] = g[n]
    BY <2>6 DEF S
  <2>8. n + 1 \in 2 .. Len(tt) /\ (n + 1) - 1 = n
    BY <1>1, <2>2
  <2>9. g[n + 1] = g[n] \o s
    BY <1>1, <1>2, <2>8
  <2> QED
    BY <1>1, <1>2, <2>1, <2>7, <2>9 DEF tt
<1> QED
  BY <1>3, <1>4

\* FlattenSeq is a homomorphism.
LEMMA FlattenConcat ==
    ASSUME NEW A, NEW ss \in Seq(Seq(A)), NEW tt \in Seq(Seq(A))
    PROVE  FlattenSeq(ss \o tt) = FlattenSeq(ss) \o FlattenSeq(tt)
<1> DEFINE n == Len(tt)
           Part(i) == SubSeq(tt, 1, i)
           S == {i \in Int :
                   /\ Part(i) \in Seq(Seq(A))
                   /\ FlattenSeq(ss \o Part(i)) = FlattenSeq(ss) \o FlattenSeq(Part(i))}
<1>1. n \in Nat /\ \A i \in 1 .. n : tt[i] \in Seq(A)
  BY LenProperties, ElementOfSeq
<1>2. FlattenSeq(ss) \in Seq(A)
  BY FlattenInSeq
<1>3. 0 \in S
  <2>1. Part(0) = << >>
    BY SubSeqEmpty
  <2>2. << >> \in Seq(Seq(A)) /\ ss \o << >> = ss /\ FlattenSeq(<< >>) = << >>
    BY EmptySeq, ConcatEmptySeq DEF FlattenSeq
  <2>3. FlattenSeq(ss) \o << >> = FlattenSeq(ss)
    BY <1>2, ConcatEmptySeq
  <2>4. /\ Part(0) \in Seq(Seq(A))
        /\ FlattenSeq(ss \o Part(0)) = FlattenSeq(ss) \o FlattenSeq(Part(0))
    BY <2>1, <2>2, <2>3
  <2> QED
    BY <2>4
<1>4. ASSUME NEW i \in 0 .. n - 1, i \in S PROVE i + 1 \in S
  <2> DEFINE s == tt[i + 1]
             u == Part(i)
  <2>1. i + 1 \in 1 .. n /\ (i + 1) - 1 = i /\ 1 \in 1 .. n
    BY <1>1
  <2>2. s \in Seq(A) /\ u \in Seq(Seq(A))
    BY <1>1, <1>4, <2>1
  <2>3. FlattenSeq(ss \o u) = FlattenSeq(ss) \o FlattenSeq(u)
    BY <1>4
  <2>4. Part(i + 1) = u \o << s >>
    <3>1. i + 1 \in 1 .. n
      BY <2>1
    <3> QED
      BY <2>1, SubSeqRecursiveSecond
  <2> HIDE DEF s, u, Part
  <2>5. u \o << s >> = Append(u, s) /\ Append(u, s) \in Seq(Seq(A))
    BY <2>2, AppendIsConcat, AppendProperties
  <2>6. ss \o u \in Seq(Seq(A))
    BY <2>2, ConcatProperties
  <2>7. ss \o Append(u, s) = Append(ss \o u, s)
    <3> DEFINE v == << s >>
    <3>1. v \in Seq(Seq(A))
      BY <2>2
    <3>2. Append(ss \o u, s) = (ss \o u) \o v /\ Append(u, s) = u \o v
      BY <2>2, <2>6, AppendIsConcat
    <3> HIDE DEF v
    <3>3. (ss \o u) \o v = ss \o (u \o v)
      <4> DEFINE B == Seq(A)
      <4>1. ss \in Seq(B) /\ u \in Seq(B) /\ v \in Seq(B)
        BY <2>2, <3>1
      <4> HIDE DEF B
      <4> QED
        BY <4>1, ConcatAssociative
    <3> QED
      BY <3>2, <3>3
  <2>8. FlattenSeq(Append(ss \o u, s)) = FlattenSeq(ss \o u) \o s
    BY <2>2, <2>6, FlattenAppend
  <2>9. FlattenSeq(Append(u, s)) = FlattenSeq(u) \o s /\ FlattenSeq(u) \in Seq(A)
    BY <2>2, FlattenAppend, FlattenInSeq
  <2>10. (FlattenSeq(ss) \o FlattenSeq(u)) \o s = FlattenSeq(ss) \o (FlattenSeq(u) \o s)
    <3> DEFINE x == FlattenSeq(ss)
               y == FlattenSeq(u)
    <3>1. x \in Seq(A) /\ y \in Seq(A) /\ s \in Seq(A)
      BY <1>2, <2>2, <2>9
    <3> HIDE DEF x, y
    <3>2. (x \o y) \o s = x \o (y \o s)
      BY <3>1, ConcatAssociative
    <3> QED
      BY <3>2 DEF x, y
  <2>11. i + 1 \in Int
    BY <2>1
  <2>12. Part(i + 1) = Append(u, s)
    BY <2>4, <2>5
  <2>13. FlattenSeq(ss \o Part(i + 1)) = FlattenSeq(ss) \o FlattenSeq(Part(i + 1))
    BY <2>3, <2>7, <2>8, <2>9, <2>10, <2>12
  <2>14. Part(i + 1) \in Seq(Seq(A))
    BY <2>5, <2>12
  <2> QED
    BY <2>11, <2>13, <2>14
<1> HIDE DEF S
<1>5. 0 .. n \subseteq S
  <2>1. \A i \in 0 .. n - 1 : i \in S => i + 1 \in S
    BY <1>4
  <2>2. 0 \in Int /\ n \in Int
    BY <1>1
  <2> QED
    BY <1>3, <2>1, <2>2, Upward
<1>6. n \in S /\ Part(n) = tt
  BY <1>1, <1>5, SubSeqFull
<1> QED
  BY <1>6 DEF S

-----------------------------------------------------------------------------
(* The scanner.                                                             *)

\* A character is there, or it is the empty one.
LEMMA AtIs ==
    ASSUME NEW text \in Seq(STRING), NEW i \in Int
    PROVE  /\ i \in 1 .. Len(text) => At(text, i) = text[i]
           /\ i \notin 1 .. Len(text) => At(text, i) = NoChar
<1>1. DOMAIN text = 1 .. Len(text)
  BY LenProperties
<1> QED
  BY <1>1 DEF At

\* The length of a run, as RunIn chooses it.
IsRun(n, text, i, set) ==
    /\ n \in 1 .. Len(text) - i + 1
    /\ \A k \in 0 .. n - 1 : text[i + k] \in set
    /\ At(text, i + n) \notin set

\* A run ends, at the end of the text at the latest.
LEMMA RunExists ==
    ASSUME NEW text \in Seq(STRING), NEW i \in 1 .. Len(text), NEW set,
           text[i] \in set, NoChar \notin set
    PROVE  IsRun(RunIn(text, i, set), text, i, set)
<1>1. Len(text) \in Nat
  BY LenProperties
<1> DEFINE T == {n \in Nat : n # 0 /\ At(text, i + n) \notin set}
<1>2. Len(text) - i + 1 \in T
  <2>1. Len(text) - i + 1 \in Nat /\ Len(text) - i + 1 # 0
        /\ i + (Len(text) - i + 1) = Len(text) + 1
    BY <1>1
  <2>2. Len(text) + 1 \in Int /\ Len(text) + 1 \notin 1 .. Len(text)
    BY <1>1
  <2>3. At(text, Len(text) + 1) = NoChar
    BY <2>2, AtIs
  <2> QED
    BY <2>1, <2>3
<1>3. PICK n \in T : \A k \in T : n <= k
  <2>1. T \in SUBSET Nat /\ T # {}
    BY <1>2
  <2> HIDE DEF T
  <2> QED
    BY <2>1, Least
<1>4. n \in 1 .. Len(text) - i + 1 /\ At(text, i + n) \notin set
  <2>1. n \in Nat /\ n # 0 /\ At(text, i + n) \notin set
    BY <1>3
  <2>2. n <= Len(text) - i + 1
    BY <1>2, <1>3
  <2> QED
    BY <1>1, <2>1, <2>2
<1>5. ASSUME NEW k \in 0 .. n - 1 PROVE text[i + k] \in set
  <2>1. CASE k = 0
    BY <2>1, i + 0 = i
  <2>2. CASE k # 0
    <3>1. k \notin T /\ k \in Nat
      BY <1>3, <1>4
    <3>2. At(text, i + k) \in set
      BY <2>2, <3>1
    <3>3. i + k \in 1 .. Len(text)
      BY <1>1, <1>4
    <3> QED
      BY <3>2, <3>3, AtIs
  <2> QED
    BY <2>1, <2>2
<1>6. IsRun(n, text, i, set)
  BY <1>4, <1>5 DEF IsRun
<1>7. RunIn(text, i, set) =
        CHOOSE m \in 1 .. Len(text) - i + 1 :
            /\ \A k \in 0 .. m - 1 : text[i + k] \in set
            /\ At(text, i + m) \notin set
  BY DEF RunIn
<1> HIDE DEF T
<1> QED
  BY <1>6, <1>7 DEF IsRun

\* It has one length only.
LEMMA RunUnique ==
    ASSUME NEW text \in Seq(STRING), NEW i \in 1 .. Len(text), NEW set, NoChar \notin set,
           NEW n, NEW m, IsRun(n, text, i, set), IsRun(m, text, i, set)
    PROVE  n = m
<1>1. Len(text) \in Nat
  BY LenProperties
<1>2. ASSUME NEW a, NEW b, IsRun(a, text, i, set), IsRun(b, text, i, set), a < b
      PROVE  FALSE
  <2>1. a \in 0 .. b - 1 /\ i + a \in 1 .. Len(text)
    BY <1>1, <1>2 DEF IsRun
  <2>2. text[i + a] \in set /\ At(text, i + a) \notin set
    BY <1>2, <2>1 DEF IsRun
  <2> QED
    BY <2>1, <2>2, AtIs
<1>3. n \in Int /\ m \in Int
  BY <1>1 DEF IsRun
<1>4. ~(n < m) /\ ~(m < n)
  BY <1>2
<1> QED
  BY <1>3, <1>4

\* What belongs to a text that goes on after the end of a sentence at e: before
\* e it is as if the text ended there.
LEMMA RunSame ==
    ASSUME NEW Y \in Seq(STRING), NEW X \in Seq(STRING), Len(Y) <= Len(X),
           \A j \in 1 .. Len(Y) : X[j] = Y[j],
           NEW e \in 1 .. Len(Y), Y[e] \in SplitChars,
           NEW i \in 1 .. e - 1, Y[i] \in Markup
    PROVE  /\ Run(X, i) = Run(Y, i)
           /\ At(X, i - 1) = At(Y, i - 1)
           /\ At(X, i + Run(X, i)) = At(Y, i + Run(Y, i))
<1> DEFINE n == Run(Y, i)
           set == {Y[i]}
<1>1. Len(X) \in Nat /\ Len(Y) \in Nat /\ i \in 1 .. Len(Y) /\ i \in 1 .. Len(X)
  BY LenProperties
<1>2. NoChar \notin set /\ Y[e] \notin set /\ Y[i] \in set
  BY DEF Markup, SplitChars, Tick, Backslash, NoChar
<1>3. Run(X, i) = RunIn(X, i, set) /\ n = RunIn(Y, i, set) /\ X[i] \in set
  BY <1>1 DEF Run
<1> HIDE DEF n, set
<1>4. IsRun(n, Y, i, set)
  BY <1>1, <1>2, <1>3, RunExists
<1>5. n \in Nat /\ n # 0 /\ i + n <= e
  <2>1. n \in Nat /\ n # 0
    BY <1>1, <1>4 DEF IsRun
  <2>2. ASSUME e < i + n PROVE FALSE
    <3>1. e - i \in 0 .. n - 1 /\ i + (e - i) = e
      BY <1>1, <2>1, <2>2
    <3> QED
      BY <1>2, <1>4, <3>1 DEF IsRun
  <2> QED
    BY <1>1, <2>1, <2>2
<1>6. i + n \in 1 .. Len(Y) /\ i + n \in 1 .. Len(X)
  BY <1>1, <1>5
<1>7. At(X, i + n) = At(Y, i + n)
  BY <1>6, AtIs
<1>8. IsRun(n, X, i, set)
  <2>1. n \in 1 .. Len(X) - i + 1
    BY <1>1, <1>5, <1>6
  <2>2. ASSUME NEW k \in 0 .. n - 1 PROVE X[i + k] \in set
    <3>1. i + k \in 1 .. Len(Y)
      BY <1>1, <1>5
    <3> QED
      BY <1>4, <3>1 DEF IsRun
  <2>3. At(X, i + n) \notin set
    BY <1>4, <1>7 DEF IsRun
  <2> QED
    BY <2>1, <2>2, <2>3 DEF IsRun
<1>9. IsRun(RunIn(X, i, set), X, i, set)
  BY <1>1, <1>2, <1>3, RunExists
<1>10. Run(X, i) = n
  BY <1>1, <1>2, <1>3, <1>8, <1>9, RunUnique
<1>11. At(X, i - 1) = At(Y, i - 1)
  <2>1. i - 1 \in Int
    BY <1>1
  <2>2. CASE i - 1 \in 1 .. Len(Y)
    <3>1. i - 1 \in 1 .. Len(X)
      BY <1>1, <2>2
    <3> QED
      BY <2>1, <2>2, <3>1, AtIs
  <2>3. CASE i - 1 \notin 1 .. Len(Y)
    <3>1. i - 1 \notin 1 .. Len(X)
      BY <1>1, <2>3
    <3> QED
      BY <2>1, <2>3, <3>1, AtIs
  <2> QED
    BY <2>2, <2>3
<1> QED
  BY <1>7, <1>10, <1>11 DEF n

\* All that is needed of the state of the scanner: which fields it has.
Fields == {"found", "skip", "escaped", "fence", "code", "pending", "dest", "label", "open"}
IsScanner(s) == DOMAIN s = Fields

\* The scanner starts with all its fields and without an answer.
LEMMA ScannerIs == IsScanner(Scanner) /\ Scanner.found = 0
  BY DEF IsScanner, Scanner, Fields

\* A run of markers leaves found alone.
LEMMA MarkedIs ==
    ASSUME NEW text, NEW s, NEW i, IsScanner(s)
    PROVE  IsScanner(Marked(text, s, i)) /\ Marked(text, s, i).found = s.found
  BY DEF IsScanner, Marked, Fields

\* So does what is inside code.
LEMMA InCodeIs ==
    ASSUME NEW text, NEW s, NEW i, NEW field \in {"fence", "code"}, IsScanner(s)
    PROVE  IsScanner(InCode(text, s, i, field)) /\ InCode(text, s, i, field).found = s.found
  BY DEF IsScanner, InCode, Fields

\* What a step of the scanner may do to found.
Keeps(text, s, t, i) ==
    /\ IsScanner(t)
    /\ \/ t.found = s.found
       \/ text[i] \in SplitChars /\ t.found = i + RunIn(text, i, SplitChars) - 1

\* Outside code only the end of a sentence sets found.
LEMMA ProseIs ==
    ASSUME NEW text, NEW s, NEW i, IsScanner(s)
    PROVE  Keeps(text, s, Prose(text, s, i), i)
<1> DEFINE ch == text[i]
<1>1. CASE s.dest > 0
  BY <1>1 DEF Keeps, IsScanner, Prose, Fields
<1>2. CASE ~(s.dest > 0) /\ ch \in {"[", "]"}
  BY <1>2 DEF Keeps, IsScanner, Prose, Fields, SplitChars
<1>3. CASE ~(s.dest > 0) /\ ch \notin {"[", "]"} /\ (s.label > 0 \/ ch \in {"*", "_", "~"})
  BY <1>3, MarkedIs DEF Keeps, Prose
<1>4. CASE ~(s.dest > 0) /\ ch \notin {"[", "]"} /\ ~(s.label > 0) /\ ch \notin {"*", "_", "~"}
  <2>1. CASE ch \in SplitChars /\ \A span \in Spans : ~s.open[span]
    <3>1. Prose(text, s, i) = [s EXCEPT !.found = i + RunIn(text, i, SplitChars) - 1]
      BY <1>4, <2>1 DEF Prose
    <3> QED
      BY <2>1, <3>1 DEF Keeps, IsScanner, Fields
  <2>2. CASE ~(ch \in SplitChars /\ \A span \in Spans : ~s.open[span])
    <3>1. Prose(text, s, i) = s
      BY <1>4, <2>2 DEF Prose
    <3> QED
      BY <3>1 DEF Keeps
  <2> QED
    BY <2>1, <2>2
<1> QED
  BY <1>1, <1>2, <1>3, <1>4

\* A step sets found at the end of a sentence only, and does nothing once it is set.
LEMMA ScanIs ==
    ASSUME NEW text, NEW s, NEW i, IsScanner(s)
    PROVE  /\ Keeps(text, s, Scan(text, s, i), i)
           /\ s.found > 0 => Scan(text, s, i) = s
<1> DEFINE ch == text[i]
<1>1. CASE s.found > 0
  BY <1>1 DEF Keeps, Scan
<1>2. CASE ~(s.found > 0) /\ (s.skip > 0 \/ s.escaped \/ ch = Backslash)
  BY <1>2 DEF Keeps, IsScanner, Scan, Fields
<1>3. CASE ~(s.found > 0) /\ ~(s.skip > 0 \/ s.escaped \/ ch = Backslash)
           /\ (s.fence > 0 \/ s.code > 0)
  BY <1>3, InCodeIs DEF Keeps, Scan
<1>4. CASE ~(s.found > 0) /\ ~(s.skip > 0 \/ s.escaped \/ ch = Backslash)
           /\ ~(s.fence > 0 \/ s.code > 0) /\ ch = Tick
  BY <1>4 DEF Keeps, IsScanner, Scan, Fields
<1>5. CASE ~(s.found > 0) /\ ~(s.skip > 0 \/ s.escaped \/ ch = Backslash)
           /\ ~(s.fence > 0 \/ s.code > 0) /\ ch # Tick /\ s.pending /\ ch \in Blank \cup {"("}
  BY <1>5 DEF Keeps, IsScanner, Scan, Fields
<1>6. CASE ~(s.found > 0) /\ ~(s.skip > 0 \/ s.escaped \/ ch = Backslash)
           /\ ~(s.fence > 0 \/ s.code > 0) /\ ch # Tick
           /\ ~(s.pending /\ ch \in Blank \cup {"("})
  <2> DEFINE t == [s EXCEPT !.pending = FALSE]
  <2>1. Scan(text, s, i) = Prose(text, t, i)
    BY <1>6 DEF Scan
  <2>2. IsScanner(t) /\ t.found = s.found
    BY DEF IsScanner, Fields
  <2> HIDE DEF t
  <2>3. Keeps(text, t, Prose(text, t, i), i)
    BY <2>2, ProseIs
  <2> QED
    BY <1>6, <2>1, <2>2, <2>3 DEF Keeps
<1> QED
  BY <1>1, <1>2, <1>3, <1>4, <1>5, <1>6

\* What a step of the scanner looks at in the text, apart from the end of a run
\* of ends of sentences, is the same in two texts.
SameView(X, Y, i) ==
    /\ X[i] = Y[i]
    /\ X[i] \in Markup =>
          /\ Run(X, i) = Run(Y, i)
          /\ At(X, i - 1) = At(Y, i - 1)
          /\ At(X, i + Run(X, i)) = At(Y, i + Run(Y, i))

\* Both steps find the end of a sentence, if not the same.
BothFind(X, Y, t, u, i) ==
    /\ X[i] \in SplitChars
    /\ t.found = i + RunIn(X, i, SplitChars) - 1
    /\ u.found = i + RunIn(Y, i, SplitChars) - 1

\* What Marked makes of what it sees.
MarkedBy(s, ch, run, canOpen, canClose) ==
    LET moved(span, times) == Advanced(s.open[span], times, canOpen, canClose)
        strong == CASE ch = "~" -> "strike"
                    [] ch = "*" -> "strong*"
                    [] ch = "_" -> "strong_"
        em == IF ch = "*" THEN "em*" ELSE "em_"
        doubled == [s.open EXCEPT ![strong] = moved(strong, run \div 2)]
    IN  [s EXCEPT !.skip = run - 1,
                  !.open = IF ch = "~" THEN doubled
                           ELSE [doubled EXCEPT ![em] = moved(em, run % 2)]]

\* A run of markers is read alike in two texts that look alike there.
LEMMA MarkedSame ==
    ASSUME NEW X, NEW Y, NEW s, NEW i, SameView(X, Y, i), X[i] \in Markup
    PROVE  Marked(X, s, i) = Marked(Y, s, i)
<1>1. Run(X, i) = Run(Y, i) /\ X[i] = Y[i]
  BY DEF SameView
<1>2. CanOpen(X, i, Run(X, i)) = CanOpen(Y, i, Run(Y, i))
  BY DEF CanOpen, SameView
<1>3. CanClose(X, i, Run(X, i)) = CanClose(Y, i, Run(Y, i))
  BY DEF CanClose, SameView
<1>4. \A text : Marked(text, s, i) =
          MarkedBy(s, text[i], Run(text, i), CanOpen(text, i, Run(text, i)),
                   CanClose(text, i, Run(text, i)))
  BY Zenon DEF Marked, MarkedBy
<1> QED
  BY <1>1, <1>2, <1>3, <1>4, Zenon

\* So is what is outside code, except that a run of ends of sentences may be longer
\* in one of them.
LEMMA ProseSame ==
    ASSUME NEW X, NEW Y, NEW s, NEW i, SameView(X, Y, i), IsScanner(s)
    PROVE  \/ Prose(X, s, i) = Prose(Y, s, i)
           \/ BothFind(X, Y, Prose(X, s, i), Prose(Y, s, i), i)
<1> DEFINE ch == X[i]
<1>1. X[i] = Y[i]
  BY DEF SameView
<1>2. CASE s.dest > 0 \/ ch \in {"[", "]"} \/ s.label > 0
  <2>1. CASE s.dest > 0
    BY <1>1, <2>1 DEF Prose
  <2>2. CASE ~(s.dest > 0) /\ ch \in {"[", "]"}
    <3>1. CASE ch = "["
      BY <1>1, <2>2, <3>1 DEF Prose
    <3>2. CASE ch = "]" /\ s.label > 0
      BY <1>1, <2>2, <3>2 DEF Prose
    <3>3. CASE ch = "]" /\ ~(s.label > 0)
      BY <1>1, <2>2, <3>3 DEF Prose, SplitChars
    <3> QED
      BY <2>2, <3>1, <3>2, <3>3
  <2>3. CASE ~(s.dest > 0) /\ ch \notin {"[", "]"} /\ s.label > 0
    BY <1>1, <2>3 DEF Prose
  <2> QED
    BY <1>2, <2>1, <2>2, <2>3
<1>3. CASE ~(s.dest > 0 \/ ch \in {"[", "]"} \/ s.label > 0) /\ ch \in {"*", "_", "~"}
  <2>1. X[i] \in Markup
    BY <1>3 DEF Markup
  <2>2. Marked(X, s, i) = Marked(Y, s, i)
    BY <2>1, MarkedSame
  <2> QED
    BY <1>1, <1>3, <2>2 DEF Prose
<1>4. CASE ~(s.dest > 0 \/ ch \in {"[", "]"} \/ s.label > 0) /\ ch \notin {"*", "_", "~"}
  <2>1. CASE ch \in SplitChars /\ \A span \in Spans : ~s.open[span]
    <3>1. Prose(X, s, i) = [s EXCEPT !.found = i + RunIn(X, i, SplitChars) - 1]
      BY <1>4, <2>1 DEF Prose
    <3>2. Prose(Y, s, i) = [s EXCEPT !.found = i + RunIn(Y, i, SplitChars) - 1]
      BY <1>1, <1>4, <2>1 DEF Prose
    <3> QED
      BY <2>1, <3>1, <3>2 DEF BothFind, IsScanner, Fields
  <2>2. CASE ~(ch \in SplitChars /\ \A span \in Spans : ~s.open[span])
    <3>1. Prose(X, s, i) = s
      BY <1>4, <2>2 DEF Prose
    <3>2. Prose(Y, s, i) = s
      BY <1>1, <1>4, <2>2 DEF Prose
    <3> QED
      BY <3>1, <3>2
  <2> QED
    BY <2>1, <2>2
<1> QED
  BY <1>2, <1>3, <1>4

\* Where a step sees the same in two texts it does the same, or ends both.
LEMMA ScanSame ==
    ASSUME NEW X, NEW Y, NEW s, NEW i, SameView(X, Y, i), IsScanner(s)
    PROVE  \/ Scan(X, s, i) = Scan(Y, s, i)
           \/ BothFind(X, Y, Scan(X, s, i), Scan(Y, s, i), i)
<1> DEFINE ch == X[i]
<1>1. X[i] = Y[i]
  BY DEF SameView
<1>2. CASE s.found > 0 \/ s.skip > 0 \/ s.escaped \/ ch = Backslash
  BY <1>1, <1>2 DEF Scan
<1>3. CASE ~(s.found > 0 \/ s.skip > 0 \/ s.escaped \/ ch = Backslash)
           /\ (s.fence > 0 \/ s.code > 0 \/ ch = Tick)
  <2>1. CASE ch # Tick
    BY <1>1, <1>3, <2>1 DEF Scan, InCode
  <2>2. CASE ch = Tick
    <3>1. Run(X, i) = Run(Y, i)
      BY <2>2 DEF SameView, Markup
    <3> QED
      BY <1>1, <1>3, <2>2, <3>1 DEF Scan, InCode
  <2> QED
    BY <2>1, <2>2
<1>4. CASE ~(s.found > 0 \/ s.skip > 0 \/ s.escaped \/ ch = Backslash)
           /\ ~(s.fence > 0 \/ s.code > 0 \/ ch = Tick)
  <2>1. CASE s.pending /\ ch \in Blank \cup {"("}
    BY <1>1, <1>4, <2>1 DEF Scan
  <2>2. CASE ~(s.pending /\ ch \in Blank \cup {"("})
    <3> DEFINE t == [s EXCEPT !.pending = FALSE]
    <3>1. Scan(X, s, i) = Prose(X, t, i)
      BY <1>4, <2>2 DEF Scan
    <3>2. Scan(Y, s, i) = Prose(Y, t, i)
      BY <1>1, <1>4, <2>2 DEF Scan
    <3>3. IsScanner(t)
      BY DEF IsScanner, Fields
    <3> HIDE DEF t
    <3> QED
      BY <3>1, <3>2, <3>3, ProseSame
  <2> QED
    BY <2>1, <2>2
<1> QED
  BY <1>2, <1>3, <1>4

\* An end of a sentence at the beginning is found at once.
LEMMA FindsFirst ==
    ASSUME NEW text, text[1] \in SplitChars
    PROVE  Scan(text, Scanner, 1).found = 1 + RunIn(text, 1, SplitChars) - 1
<1>1. /\ text[1] \notin {Backslash, Tick, "[", "]", "*", "_", "~"}
  BY DEF SplitChars, Backslash, Tick
<1> DEFINE t == [Scanner EXCEPT !.pending = FALSE]
<1>2. /\ Scanner.found = 0 /\ Scanner.skip = 0 /\ Scanner.escaped = FALSE
      /\ Scanner.fence = 0 /\ Scanner.code = 0 /\ Scanner.pending = FALSE
      /\ ~(0 > 0)
  BY DEF Scanner
<1>3. Scan(text, Scanner, 1) = Prose(text, t, 1)
  BY <1>1, <1>2 DEF Scan
<1>4. /\ t.dest = 0 /\ t.label = 0 /\ \A span \in Spans : t.open[span] = FALSE
      /\ IsScanner(t) /\ ~(0 > 0)
  BY DEF Scanner, IsScanner, Fields
<1> HIDE DEF t
<1>5. Prose(text, t, 1) = [t EXCEPT !.found = 1 + RunIn(text, 1, SplitChars) - 1]
  BY <1>1, <1>4 DEF Prose
<1>6. Prose(text, t, 1).found = 1 + RunIn(text, 1, SplitChars) - 1
  BY <1>4, <1>5 DEF IsScanner, Fields
<1> QED
  BY <1>3, <1>6

\* The states of the scanner, the n-th after the n-th character.
Scans(f, n, text) == f = [i \in 0 .. n |-> IF i = 0 THEN Scanner ELSE Scan(text, f[i - 1], i)]

\* There are such states.
LEMMA ScanExists == ASSUME NEW text, NEW n \in Nat PROVE \E f : Scans(f, n, text)
<1> DEFINE S == {k \in Int : \E f : Scans(f, k, text)}
<1>1. 0 \in S
  <2> DEFINE f == [i \in 0 .. 0 |-> Scanner]
  <2>1. f = [i \in 0 .. 0 |-> IF i = 0 THEN Scanner ELSE Scan(text, f[i - 1], i)]
    OBVIOUS
  <2>2. Scans(f, 0, text)
    BY <2>1, Zenon DEF Scans
  <2> QED
    BY <2>2
<1>2. ASSUME NEW k \in 0 .. n - 1, k \in S PROVE k + 1 \in S
  <2>1. PICK f : Scans(f, k, text)
    BY <1>2
  <2>2. \A i \in 0 .. k : f[i] = IF i = 0 THEN Scanner ELSE Scan(text, f[i - 1], i)
    BY <2>1 DEF Scans
  <2> DEFINE g == [i \in 0 .. k + 1 |-> IF i <= k THEN f[i] ELSE Scan(text, f[k], i)]
  <2>3. \A i \in 0 .. k : g[i] = f[i]
    OBVIOUS
  <2>4. g[k + 1] = Scan(text, f[k], k + 1) /\ (k + 1) - 1 = k /\ k + 1 # 0
    OBVIOUS
  <2>5. ASSUME NEW i \in 0 .. k + 1
        PROVE  g[i] = IF i = 0 THEN Scanner ELSE Scan(text, g[i - 1], i)
    <3>1. CASE i = k + 1
      <4>1. g[i - 1] = f[k]
        BY <2>3, <2>4, <3>1
      <4> HIDE DEF g
      <4> QED
        BY <2>4, <3>1, <4>1
    <3>2. CASE i # k + 1
      <4>1. i \in 0 .. k /\ (i # 0 => i - 1 \in 0 .. k)
        BY <3>2
      <4>2. g[i] = f[i] /\ (i # 0 => g[i - 1] = f[i - 1])
        BY <2>3, <4>1
      <4> HIDE DEF g
      <4> QED
        BY <2>2, <4>1, <4>2
    <3> QED
      BY <3>1, <3>2
  <2>6. g = [i \in 0 .. k + 1 |-> g[i]]
    OBVIOUS
  <2> HIDE DEF g
  <2>7. g = [i \in 0 .. k + 1 |-> IF i = 0 THEN Scanner ELSE Scan(text, g[i - 1], i)]
    BY <2>5, <2>6
  <2>8. Scans(g, k + 1, text)
    BY <2>7, Zenon DEF Scans
  <2> QED
    BY <2>8
<1> HIDE DEF S
<1>3. 0 .. n \subseteq S
  <2>1. \A i \in 0 .. n - 1 : i \in S => i + 1 \in S
    BY <1>2
  <2> QED
    BY <1>1, <2>1, Upward
<1>4. n \in S
  BY <1>3
<1> QED
  BY <1>4 DEF S

\* SplitIndex reads the last of these states; in each of them found is a
\* position in the text, and once it is one it stays.
Scanning(f, text) ==
    /\ f[0] = Scanner
    /\ \A i \in 1 .. Len(text) : f[i] = Scan(text, f[i - 1], i)
    /\ \A i \in 0 .. Len(text) : IsScanner(f[i]) /\ f[i].found \in 0 .. Len(text)
    /\ \A i, j \in 0 .. Len(text) : i <= j /\ f[i].found > 0 => f[j].found = f[i].found
    /\ SplitIndex(text) = f[Len(text)].found

\* The scanner goes through the text from its first character to its last.
LEMMA ScanningIs == ASSUME NEW text \in Seq(STRING) PROVE \E f : Scanning(f, text)
<1> DEFINE n == Len(text)
           f == CHOOSE g : Scans(g, n, text)
<1>1. n \in Nat
  BY LenProperties
<1>2. Scans(f, n, text)
  BY <1>1, ScanExists
<1>3. SplitIndex(text) = f[Len(text)].found
  BY Zenon DEF SplitIndex, Scans
<1> HIDE DEF f
<1>4. \A i \in 0 .. n : f[i] = IF i = 0 THEN Scanner ELSE Scan(text, f[i - 1], i)
  BY <1>2 DEF Scans
<1>5. f[0] = Scanner
  BY <1>1, <1>4
<1>6. \A i \in 1 .. n : f[i] = Scan(text, f[i - 1], i)
  <2>1. \A i \in 1 .. n : i \in 0 .. n /\ i # 0
    BY <1>1
  <2> QED
    BY <1>4, <2>1
<1> DEFINE S == {i \in Int : IsScanner(f[i]) /\ f[i].found \in 0 .. n}
<1>7. 0 \in S
  BY <1>1, <1>5, ScannerIs
<1>8. ASSUME NEW i \in 0 .. n - 1, i \in S PROVE i + 1 \in S
  <2>1. i + 1 \in 1 .. n /\ (i + 1) - 1 = i
    BY <1>1
  <2>2. f[i + 1] = Scan(text, f[i], i + 1)
    BY <1>6, <2>1
  <2>3. Keeps(text, f[i], f[i + 1], i + 1)
    BY <1>8, <2>2, ScanIs
  <2>4. CASE f[i + 1].found = f[i].found
    BY <1>8, <2>1, <2>3, <2>4 DEF Keeps
  <2>5. CASE f[i + 1].found # f[i].found
    <3> DEFINE r == RunIn(text, i + 1, SplitChars)
    <3>1. text[i + 1] \in SplitChars /\ f[i + 1].found = (i + 1) + r - 1
      BY <2>3, <2>5 DEF Keeps
    <3>2. IsRun(r, text, i + 1, SplitChars)
      <4>1. NoChar \notin SplitChars
        BY DEF NoChar, SplitChars
      <4> QED
        BY <2>1, <3>1, <4>1, RunExists
    <3>3. r \in 1 .. n - (i + 1) + 1
      BY <3>2 DEF IsRun
    <3> HIDE DEF r
    <3>4. f[i + 1].found \in 0 .. n
      BY <1>1, <2>1, <3>1, <3>3
    <3> QED
      BY <2>1, <2>3, <3>4 DEF Keeps
  <2> QED
    BY <2>4, <2>5
<1> HIDE DEF S
<1>9. 0 .. n \subseteq S
  <2>1. \A i \in 0 .. n - 1 : i \in S => i + 1 \in S
    BY <1>8
  <2> QED
    BY <1>1, <1>7, <2>1, Upward
<1>10. \A i \in 0 .. n : IsScanner(f[i]) /\ f[i].found \in 0 .. n
  BY <1>9 DEF S
<1>11. ASSUME NEW i \in 0 .. n, NEW j \in 0 .. n, i <= j, f[i].found > 0
       PROVE  f[j].found = f[i].found
  <2> DEFINE U == {k \in Int : f[k].found = f[i].found}
  <2>1. i \in U
    BY <1>1
  <2>2. ASSUME NEW k \in i .. j - 1, k \in U PROVE k + 1 \in U
    <3>1. k + 1 \in 1 .. n /\ (k + 1) - 1 = k /\ k \in 0 .. n
      BY <1>1
    <3>2. f[k + 1] = Scan(text, f[k], k + 1) /\ IsScanner(f[k])
      BY <1>6, <1>10, <3>1
    <3>3. f[k].found > 0
      BY <1>11, <2>2
    <3>4. f[k + 1] = f[k]
      BY <3>2, <3>3, ScanIs
    <3> QED
      BY <2>2, <3>1, <3>4
  <2> HIDE DEF U
  <2>3. i .. j \subseteq U
    <3>1. \A k \in i .. j - 1 : k \in U => k + 1 \in U
      BY <2>2
    <3>2. i \in Int /\ j \in Int
      BY <1>1
    <3> QED
      BY <2>1, <3>1, <3>2, Upward
  <2>4. j \in U
    BY <1>1, <1>11, <2>3
  <2> QED
    BY <2>4 DEF U
<1>12. Scanning(f, text)
  BY <1>3, <1>5, <1>6, <1>10, <1>11 DEF Scanning
<1> QED
  BY <1>12

\* What SplitIndex returns is a position in the text, or 0.
LEMMA SplitIn == ASSUME NEW text \in Seq(STRING) PROVE SplitIndex(text) \in 0 .. Len(text)
<1>1. PICK f : Scanning(f, text)
  BY ScanningIs
<1>2. Len(text) \in 0 .. Len(text)
  BY LenProperties
<1> QED
  BY <1>1, <1>2 DEF Scanning

\* The index that SplitIndex finds is the end of a run of ends of sentences that
\* starts where the scanner first finds one.
LEMMA FirstFound ==
    ASSUME NEW text \in Seq(STRING), NEW f, Scanning(f, text), SplitIndex(text) # 0
    PROVE  \E e \in 1 .. Len(text) :
              /\ \A j \in 0 .. e - 1 : f[j].found = 0
              /\ text[e] \in SplitChars
              /\ SplitIndex(text) = e + RunIn(text, e, SplitChars) - 1
              /\ f[e].found = SplitIndex(text)
<1> DEFINE n == Len(text)
           T == {i \in Nat : i <= n /\ f[i].found # 0}
<1>1. n \in Nat
  BY LenProperties
<1>2. n \in T
  BY <1>1 DEF Scanning
<1>3. PICK e \in T : \A k \in T : e <= k
  <2>1. T \in SUBSET Nat /\ T # {}
    BY <1>2
  <2> HIDE DEF T
  <2> QED
    BY <2>1, Least
<1>4. e \in 0 .. n /\ f[e].found # 0
  BY <1>1, <1>3
<1>5. \A j \in 0 .. e - 1 : f[j].found = 0
  <2> SUFFICES ASSUME NEW j \in 0 .. e - 1 PROVE f[j].found = 0
    OBVIOUS
  <2>1. j \in Nat /\ j <= n /\ ~(e <= j)
    BY <1>1, <1>4
  <2> QED
    BY <1>3, <2>1
<1> HIDE DEF T
<1>6. e \in 1 .. n /\ e - 1 \in 0 .. n /\ e - 1 \in 0 .. e - 1
  <2>1. e # 0
    BY <1>4, ScannerIs DEF Scanning
  <2> QED
    BY <1>1, <1>4, <2>1
<1>7. f[e] = Scan(text, f[e - 1], e) /\ IsScanner(f[e - 1])
  BY <1>6 DEF Scanning
<1>8. Keeps(text, f[e - 1], f[e], e)
  BY <1>7, ScanIs
<1>9. text[e] \in SplitChars /\ f[e].found = e + RunIn(text, e, SplitChars) - 1
  BY <1>4, <1>5, <1>6, <1>8 DEF Keeps
<1>10. f[n].found = f[e].found
  <2>1. f[e].found > 0
    BY <1>4 DEF Scanning
  <2>2. e \in 0 .. n /\ n \in 0 .. n /\ e <= n
    BY <1>1, <1>4
  <2> QED
    BY <2>1, <2>2 DEF Scanning
<1>11. SplitIndex(text) = f[n].found
  BY DEF Scanning
<1> QED
  BY <1>5, <1>6, <1>9, <1>10, <1>11

\* A text in which SplitIndex finds the end of a sentence has one.
LEMMA SplitHasEnd ==
    ASSUME NEW text \in Seq(STRING), SplitIndex(text) # 0
    PROVE  \E i \in DOMAIN text : text[i] \in SplitChars
<1>1. PICK f : Scanning(f, text)
  BY ScanningIs
<1>2. PICK e \in 1 .. Len(text) : text[e] \in SplitChars
  BY <1>1, FirstFound
<1> QED
  BY <1>2, LenProperties

\* The beginning of a text decides where the text is cut: at the same place, or
\* later in the same run of ends of sentences, and then what is left of the text
\* after the beginning is cut there as well.
THEOREM SplitExtends ==
    ASSUME NEW Y \in Seq(STRING), NEW Z \in Seq(STRING), SplitIndex(Y) # 0
    PROVE  LET X == Y \o Z
               k == SplitIndex(Y)
               l == SplitIndex(X)
           IN  /\ k <= l
               /\ l # k => /\ X[k + 1] \in SplitChars
                           /\ SplitIndex(SubSeq(X, k + 1, Len(X))) = l - k
<1> DEFINE X == Y \o Z
           k == SplitIndex(Y)
           l == SplitIndex(X)
<1>1. /\ X \in Seq(STRING) /\ Len(X) \in Nat /\ Len(Y) \in Nat /\ Len(Y) <= Len(X)
      /\ \A j \in 1 .. Len(Y) : X[j] = Y[j]
  <2>1. Len(Z) \in Nat /\ Len(Y) \in Nat
    BY LenProperties
  <2>2. X \in Seq(STRING) /\ Len(X) = Len(Y) + Len(Z)
    BY ConcatProperties
  <2>3. \A j \in 1 .. Len(Y) : X[j] = Y[j]
    BY <2>1, ConcatProperties
  <2> QED
    BY <2>1, <2>2, <2>3
<1>2. PICK f : Scanning(f, Y)
  BY ScanningIs
<1>3. PICK e \in 1 .. Len(Y) :
              /\ \A j \in 0 .. e - 1 : f[j].found = 0
              /\ Y[e] \in SplitChars
              /\ k = e + RunIn(Y, e, SplitChars) - 1
              /\ f[e].found = k
  BY <1>2, FirstFound
<1> HIDE DEF X
<1>4. PICK g : Scanning(g, X)
  BY <1>1, ScanningIs
<1>5. X[e] = Y[e] /\ NoChar \notin SplitChars /\ e \in 1 .. Len(X)
  BY <1>1 DEF NoChar, SplitChars
<1> DEFINE r == RunIn(Y, e, SplitChars)
           q == RunIn(X, e, SplitChars)
<1>6. IsRun(r, Y, e, SplitChars) /\ IsRun(q, X, e, SplitChars)
  BY <1>1, <1>3, <1>5, RunExists
<1> HIDE DEF k, l, r, q
<1> DEFINE S == {i \in Int : f[i] = g[i]}
<1>7. 0 .. e - 1 \subseteq S
  <2>1. 0 \in S
    BY <1>2, <1>4 DEF Scanning
  <2>2. ASSUME NEW i \in 0 .. (e - 1) - 1, i \in S PROVE i + 1 \in S
    <3>1. i + 1 \in 1 .. e - 1 /\ i + 1 \in 1 .. Len(Y) /\ i + 1 \in 1 .. Len(X)
          /\ (i + 1) - 1 = i /\ i \in 0 .. e - 1 /\ i + 1 \in 0 .. e - 1 /\ i \in 0 .. Len(Y)
      BY <1>1
    <3>2. f[i + 1] = Scan(Y, f[i], i + 1) /\ g[i + 1] = Scan(X, f[i], i + 1) /\ IsScanner(f[i])
      BY <1>2, <1>4, <2>2, <3>1 DEF Scanning
    <3>3. SameView(X, Y, i + 1)
      <4>1. X[i + 1] = Y[i + 1]
        BY <1>1, <3>1
      <4>2. ASSUME X[i + 1] \in Markup
            PROVE  /\ Run(X, i + 1) = Run(Y, i + 1)
                   /\ At(X, (i + 1) - 1) = At(Y, (i + 1) - 1)
                   /\ At(X, (i + 1) + Run(X, i + 1)) = At(Y, (i + 1) + Run(Y, i + 1))
        BY <1>1, <1>3, <3>1, <4>1, <4>2, RunSame
      <4> QED
        BY <4>1, <4>2 DEF SameView
    <3>4. CASE Scan(X, f[i], i + 1) = Scan(Y, f[i], i + 1)
      BY <3>1, <3>2, <3>4
    <3>5. CASE BothFind(X, Y, Scan(X, f[i], i + 1), Scan(Y, f[i], i + 1), i + 1)
      <4> DEFINE m == RunIn(Y, i + 1, SplitChars)
      <4>1. Y[i + 1] \in SplitChars /\ f[i + 1].found = (i + 1) + m - 1
        BY <3>2, <3>3, <3>5 DEF BothFind, SameView
      <4>2. IsRun(m, Y, i + 1, SplitChars)
        BY <1>5, <3>1, <4>1, RunExists
      <4> HIDE DEF m
      <4>3. m \in Nat /\ m # 0
        BY <1>1, <3>1, <4>2 DEF IsRun
      <4>4. f[i + 1].found = 0
        BY <1>3, <3>1
      <4> QED
        BY <3>1, <4>1, <4>3, <4>4
    <3> QED
      BY <3>2, <3>3, <3>4, <3>5, ScanSame
  <2> HIDE DEF S
  <2>3. \A i \in 0 .. (e - 1) - 1 : i \in S => i + 1 \in S
    BY <2>2
  <2>4. 0 \in Int /\ e - 1 \in Int
    BY <1>1
  <2> QED
    BY <2>1, <2>3, <2>4, Upward
<1>8. g[e].found = e + q - 1
  <2>1. e - 1 \in 0 .. e - 1 /\ e - 1 \in 0 .. Len(Y)
    BY <1>1
  <2>2. f[e] = Scan(Y, f[e - 1], e) /\ g[e] = Scan(X, f[e - 1], e) /\ IsScanner(f[e - 1])
    <3>1. f[e - 1] = g[e - 1]
      BY <1>7, <2>1
    <3> QED
      BY <1>2, <1>4, <1>5, <2>1, <3>1 DEF Scanning
  <2>3. X[e] \notin Markup
    BY <1>3, <1>5 DEF SplitChars, Markup, Tick, Backslash
  <2>4. SameView(X, Y, e)
    BY <1>5, <2>3 DEF SameView
  <2>5. CASE BothFind(X, Y, Scan(X, f[e - 1], e), Scan(Y, f[e - 1], e), e)
    BY <2>2, <2>5 DEF BothFind, q
  <2>6. CASE Scan(X, f[e - 1], e) = Scan(Y, f[e - 1], e)
    <3>1. g[e].found = k /\ f[e - 1].found = 0
      BY <1>3, <2>1, <2>2, <2>6
    <3>2. k # 0
      BY DEF k
    <3>3. Keeps(X, f[e - 1], g[e], e)
      BY <2>2, ScanIs
    <3> QED
      BY <3>1, <3>2, <3>3 DEF Keeps, q
  <2> QED
    BY <2>2, <2>4, <2>5, <2>6, ScanSame
<1>9. q \in Nat /\ q # 0 /\ r \in Nat /\ r # 0
  BY <1>1, <1>6 DEF IsRun
<1>10. l = e + q - 1
  <2>1. g[e].found > 0
    BY <1>8, <1>9
  <2>2. e \in 0 .. Len(X) /\ Len(X) \in 0 .. Len(X) /\ e <= Len(X)
    BY <1>1, <1>5
  <2> QED
    BY <1>4, <1>8, <2>1, <2>2 DEF Scanning, l
<1>11. k = e + r - 1
  BY <1>3 DEF r
<1>12. r <= q
  <2>1. ASSUME q < r PROVE FALSE
    <3>1. q \in 0 .. r - 1 /\ e + q \in 1 .. Len(Y) /\ e + q \in 1 .. Len(X)
      BY <1>1, <1>6, <1>9, <2>1 DEF IsRun
    <3>2. Y[e + q] \in SplitChars
      BY <1>6, <3>1 DEF IsRun
    <3>3. At(X, e + q) \notin SplitChars
      BY <1>6 DEF IsRun
    <3>4. At(X, e + q) = Y[e + q]
      BY <1>1, <3>1, AtIs
    <3> QED
      BY <3>2, <3>3, <3>4
  <2> QED
    BY <1>9, <2>1
<1>13. k <= l
  BY <1>9, <1>10, <1>11, <1>12
<1>14. ASSUME l # k
       PROVE  X[k + 1] \in SplitChars /\ SplitIndex(SubSeq(X, k + 1, Len(X))) = l - k
  <2> DEFINE W == SubSeq(X, k + 1, Len(X))
             n == Len(X)
  <2>1. /\ k + 1 = e + r /\ r \in 0 .. q - 1 /\ q - r \in Nat /\ q - r # 0
        /\ l - k = q - r /\ e + q - 1 \in 1 .. n /\ k \in Nat /\ k + 1 \in 1 .. n
    BY <1>1, <1>5, <1>6, <1>9, <1>10, <1>11, <1>12, <1>14 DEF IsRun
  <2>2. X[k + 1] \in SplitChars
    BY <1>6, <2>1 DEF IsRun
  <2>3. W \in Seq(STRING) /\ Len(W) = n - k /\ \A j \in 1 .. n - k : W[j] = X[k + j]
    <3>1. \A j \in k + 1 .. n : X[j] \in STRING
      BY <1>1, <2>1, ElementOfSeq
    <3>2. W \in Seq(STRING) /\ Len(W) = n - (k + 1) + 1
      BY <1>1, <2>1, <3>1, SubSeqProperties
    <3>3. \A j \in 1 .. n - (k + 1) + 1 : W[j] = X[k + 1 + j - 1]
      BY <1>1, <2>1, <3>1, SubSeqProperties
    <3>4. \A j \in 1 .. n - k : j \in 1 .. n - (k + 1) + 1 /\ k + 1 + j - 1 = k + j
      BY <1>1, <2>1
    <3>5. n - (k + 1) + 1 = n - k
      BY <1>1, <2>1
    <3> QED
      BY <3>2, <3>3, <3>4, <3>5
  <2> HIDE DEF W, n
  <2>4. W[1] = X[k + 1] /\ 1 \in 1 .. Len(W) /\ Len(W) \in Nat
    BY <1>1, <2>1, <2>3 DEF n
  <2>5. IsRun(q - r, W, 1, SplitChars)
    <3>1. q - r \in 1 .. Len(W) - 1 + 1
      BY <1>1, <1>9, <1>10, <1>11, <2>1, <2>3 DEF n
    <3>2. ASSUME NEW j \in 0 .. (q - r) - 1 PROVE W[1 + j] \in SplitChars
      <4> PICK d \in Nat : d = n /\ e + q - 1 <= d
        BY <1>1, <2>1 DEF n
      <4>2. e \in Nat /\ q \in Nat /\ r \in Nat /\ k = e + r - 1 /\ j \in 0 .. (q - r) - 1
        BY <1>1, <1>9, <1>11
      <4>3. 1 + j \in 1 .. d - k /\ k + (1 + j) = e + (r + j) /\ r + j \in 0 .. q - 1
        BY <4>2
      <4>1. 1 + j \in 1 .. n - k /\ k + (1 + j) = e + (r + j) /\ r + j \in 0 .. q - 1
        BY <4>3
      <4> QED
        BY <1>6, <2>3, <4>1 DEF IsRun
    <3>3. At(W, 1 + (q - r)) = At(X, e + q)
      <4>1. 1 + (q - r) \in Int /\ e + q \in Int /\ k + (1 + (q - r)) = e + q
        BY <1>1, <1>9, <2>1
      <4>2. CASE e + q \in 1 .. Len(X)
        <5>1. 1 + (q - r) \in 1 .. n - k
          BY <1>1, <1>9, <2>1, <4>1, <4>2 DEF n
        <5> QED
          BY <2>3, <4>1, <4>2, <5>1, <1>1, AtIs
      <4>3. CASE e + q \notin 1 .. Len(X)
        <5>1. 1 + (q - r) \notin 1 .. n - k
          BY <1>1, <1>9, <2>1, <4>1, <4>3 DEF n
        <5> QED
          BY <2>3, <4>1, <4>3, <5>1, <1>1, AtIs
      <4> QED
        BY <4>2, <4>3
    <3>4. At(W, 1 + (q - r)) \notin SplitChars
      BY <1>6, <3>3 DEF IsRun
    <3> QED
      BY <3>1, <3>2, <3>4 DEF IsRun
  <2>6. IsRun(RunIn(W, 1, SplitChars), W, 1, SplitChars)
    BY <1>5, <2>2, <2>3, <2>4, RunExists
  <2>7. RunIn(W, 1, SplitChars) = q - r
    BY <1>5, <2>3, <2>4, <2>5, <2>6, RunUnique
  <2>8. PICK h : Scanning(h, W)
    BY <2>3, ScanningIs
  <2>9. h[1].found = q - r
    <3>1. h[0] = Scanner /\ h[1] = Scan(W, h[1 - 1], 1)
      BY <2>4, <2>8 DEF Scanning
    <3>2. h[1] = Scan(W, Scanner, 1)
      BY <3>1
    <3> QED
      BY <2>1, <2>2, <2>4, <2>7, <3>2, FindsFirst
  <2>10. SplitIndex(W) = q - r
    <3>1. 1 \in 0 .. Len(W) /\ Len(W) \in 0 .. Len(W) /\ 1 <= Len(W)
      BY <2>4
    <3>2. h[1].found > 0
      BY <2>1, <2>9
    <3> QED
      BY <2>8, <2>9, <3>1, <3>2 DEF Scanning
  <2> QED
    BY <2>1, <2>2, <2>10 DEF W, n
<1> QED
  BY <1>13, <1>14 DEF X, k, l

-----------------------------------------------------------------------------
(* The texts and the media of a sequence of components.                     *)

\* Each element of s replaced by the sequence that g makes of it.
Mapped(g, s) == [i \in DOMAIN s |-> g[s[i]]]

\* g maps what is in A into C.
Maps(g, A, C) == g \in [A -> C]

\* Such a sequence has the length of s.
LEMMA MappedIs ==
    ASSUME NEW A, NEW C, NEW g, Maps(g, A, C), NEW s \in Seq(A)
    PROVE  /\ Mapped(g, s) \in Seq(C) /\ Len(Mapped(g, s)) = Len(s)
           /\ \A i \in 1 .. Len(s) : Mapped(g, s)[i] = g[s[i]]
<1>1. Len(s) \in Nat /\ DOMAIN s = 1 .. Len(s) /\ \A i \in 1 .. Len(s) : s[i] \in A
  BY LenProperties, ElementOfSeq
<1>2. Mapped(g, s) = [i \in 1 .. Len(s) |-> g[s[i]]]
  BY <1>1 DEF Mapped
<1>3. \A i \in 1 .. Len(s) : g[s[i]] \in C
  BY <1>1 DEF Maps
<1> QED
  BY <1>1, <1>2, <1>3

\* Concatenation, while it does not matter what the elements are mapped to.
LEMMA MappedConcat ==
    ASSUME NEW A, NEW C, NEW g, Maps(g, A, C), NEW s \in Seq(A), NEW t \in Seq(A)
    PROVE  Mapped(g, s \o t) = Mapped(g, s) \o Mapped(g, t)
<1> DEFINE u == Mapped(g, s)
           v == Mapped(g, t)
           w == Mapped(g, s \o t)
<1>1. /\ u \in Seq(C) /\ Len(u) = Len(s) /\ \A i \in 1 .. Len(s) : u[i] = g[s[i]]
      /\ v \in Seq(C) /\ Len(v) = Len(t) /\ \A i \in 1 .. Len(t) : v[i] = g[t[i]]
  BY MappedIs
<1>2. /\ s \o t \in Seq(A) /\ Len(s \o t) = Len(s) + Len(t)
      /\ \A i \in 1 .. Len(s) + Len(t) : (s \o t)[i] = IF i <= Len(s) THEN s[i] ELSE t[i - Len(s)]
      /\ Len(s) \in Nat /\ Len(t) \in Nat
  BY ConcatProperties, LenProperties
<1> HIDE DEF w
<1>3. /\ w \in Seq(C) /\ Len(w) = Len(s) + Len(t)
      /\ \A i \in 1 .. Len(s) + Len(t) : w[i] = g[(s \o t)[i]]
  <2> DEFINE st == s \o t
  <2>1. st \in Seq(A)
    BY <1>2
  <2>3. Len(st) = Len(s) + Len(t)
    BY <1>2
  <2> HIDE DEF st
  <2>2. /\ Mapped(g, st) \in Seq(C) /\ Len(Mapped(g, st)) = Len(st)
        /\ \A i \in 1 .. Len(st) : Mapped(g, st)[i] = g[st[i]]
    BY <2>1, MappedIs
  <2> QED
    BY <2>2, <2>3 DEF st, w
<1> HIDE DEF u, v, w
<1>4. w = u \o v
  <2>1. /\ u \o v \in Seq(C) /\ Len(u \o v) = Len(s) + Len(t)
        /\ \A i \in 1 .. Len(s) + Len(t) :
              (u \o v)[i] = IF i <= Len(s) THEN u[i] ELSE v[i - Len(s)]
    <3>1. u \in Seq(C) /\ v \in Seq(C)
      BY <1>1
    <3>2. /\ u \o v \in Seq(C) /\ Len(u \o v) = Len(u) + Len(v)
          /\ \A i \in 1 .. Len(u) + Len(v) :
                (u \o v)[i] = IF i <= Len(u) THEN u[i] ELSE v[i - Len(u)]
      BY <3>1, ConcatProperties
    <3> QED
      BY <1>1, <3>2
  <2>2. ASSUME NEW i \in 1 .. Len(s) + Len(t) PROVE w[i] = (u \o v)[i]
    <3>1. CASE i <= Len(s)
      <4>1. i \in 1 .. Len(s)
        BY <1>2, <3>1
      <4> QED
        BY <1>1, <1>2, <1>3, <2>1, <3>1, <4>1
    <3>2. CASE ~(i <= Len(s))
      <4>1. i - Len(s) \in 1 .. Len(t)
        BY <1>2, <3>2
      <4>2. w[i] = g[t[i - Len(s)]] /\ (u \o v)[i] = v[i - Len(s)]
        BY <1>2, <1>3, <2>1, <3>2
      <4> QED
        BY <1>1, <4>1, <4>2
    <3> QED
      BY <3>1, <3>2
  <2> QED
    BY <1>3, <2>1, <2>2, SeqEqual
<1> QED
  BY <1>4 DEF u, v, w

\* FlattenSeq of it is a homomorphism.
LEMMA MapConcat ==
    ASSUME NEW A, NEW B, NEW g, Maps(g, A, Seq(B)), NEW s \in Seq(A), NEW t \in Seq(A)
    PROVE  FlattenSeq(Mapped(g, s \o t))
               = FlattenSeq(Mapped(g, s)) \o FlattenSeq(Mapped(g, t))
<1> DEFINE C == Seq(B)
           u == Mapped(g, s)
           v == Mapped(g, t)
<1>1. Maps(g, A, C)
  OBVIOUS
<1> HIDE DEF C
<1>2. u \in Seq(C) /\ v \in Seq(C) /\ Mapped(g, s \o t) = u \o v
  BY <1>1, MappedIs, MappedConcat
<1> HIDE DEF u, v
<1>3. FlattenSeq(u \o v) = FlattenSeq(u) \o FlattenSeq(v)
  BY <1>2, FlattenConcat DEF C
<1> QED
  BY <1>2, <1>3 DEF u, v

\* One element.
LEMMA MapOne ==
    ASSUME NEW A, NEW B, NEW g, Maps(g, A, Seq(B)), NEW x \in A
    PROVE  FlattenSeq(Mapped(g, << x >>)) = g[x]
<1> DEFINE s == << x >>
           u == Mapped(g, s)
           none == << >>
<1>1. s \in Seq(A) /\ Len(s) = 1 /\ s[1] = x
  OBVIOUS
<1>2. u \in Seq(Seq(B)) /\ Len(u) = 1 /\ u[1] = g[x]
  <2> DEFINE C == Seq(B)
  <2>1. Maps(g, A, C)
    OBVIOUS
  <2> HIDE DEF C, s
  <2>2. u \in Seq(C) /\ Len(u) = 1 /\ u[1] = g[x]
    <3>1. 1 \in 1 .. Len(s)
      BY <1>1
    <3> QED
      BY <1>1, <2>1, <3>1, MappedIs
  <2> QED
    BY <2>2 DEF C
<1>3. g[x] \in Seq(B)
  BY DEF Maps
<1>4. none \in Seq(Seq(B)) /\ Len(none) = 0
  BY EmptySeq
<1> HIDE DEF u, s
<1>5. u # none
  <2>1. Len(u) # Len(none)
    BY <1>2, <1>4
  <2> QED
    BY <2>1, Zenon
<1>6. PICK f : FlattenSeq(u) = f[Len(u)] /\ f[1] = u[1]
  BY <1>2, <1>5, FlattenIs
<1> QED
  BY <1>2, <1>6 DEF u, s

\* No element.
LEMMA MapNone == ASSUME NEW g PROVE FlattenSeq(Mapped(g, << >>)) = << >>
<1>1. Mapped(g, << >>) = << >>
  BY DEF Mapped
<1> QED
  BY <1>1 DEF FlattenSeq

\* Elements of which nothing is left.
LEMMA MapAllEmpty ==
    ASSUME NEW A, NEW B, NEW g, Maps(g, A, Seq(B)), NEW s \in Seq(A),
           \A i \in 1 .. Len(s) : g[s[i]] = << >>
    PROVE  FlattenSeq(Mapped(g, s)) = << >>
<1> DEFINE n == Len(s)
           Part(i) == SubSeq(s, 1, i)
           S == {i \in Int : Part(i) \in Seq(A) /\ FlattenSeq(Mapped(g, Part(i))) = << >>}
<1>1. n \in Nat /\ \A i \in 1 .. n : s[i] \in A
  BY LenProperties, ElementOfSeq
<1>2. 0 \in S
  <2>1. Part(0) = << >>
    BY SubSeqEmpty
  <2>2. << >> \in Seq(A)
    BY EmptySeq
  <2>3. FlattenSeq(Mapped(g, << >>)) = << >>
    BY MapNone
  <2>4. Part(0) \in Seq(A) /\ FlattenSeq(Mapped(g, Part(0))) = << >>
    BY <2>1, <2>2, <2>3
  <2> HIDE DEF Part
  <2> QED
    BY <2>4
<1>3. ASSUME NEW i \in 0 .. n - 1, i \in S PROVE i + 1 \in S
  <2> DEFINE x == s[i + 1]
             u == Part(i)
             v == << x >>
  <2>1. i + 1 \in 1 .. n /\ (i + 1) - 1 = i /\ 1 \in 1 .. n
    BY <1>1
  <2>2. x \in A /\ u \in Seq(A) /\ v \in Seq(A)
    BY <1>1, <1>3, <2>1
  <2>3. Part(i + 1) = u \o v
    BY <2>1, SubSeqRecursiveSecond
  <2>4. FlattenSeq(Mapped(g, u)) = << >> /\ g[x] = << >>
    BY <1>3, <2>1
  <2>5. FlattenSeq(Mapped(g, v)) = << >>
    BY <2>2, <2>4, MapOne
  <2> HIDE DEF x, u, v, Part
  <2>6. FlattenSeq(Mapped(g, u \o v)) = << >> \o << >>
    <3>1. FlattenSeq(Mapped(g, u \o v)) = FlattenSeq(Mapped(g, u)) \o FlattenSeq(Mapped(g, v))
      BY <2>2, MapConcat
    <3> QED
      BY <2>4, <2>5, <3>1
  <2>7. << >> \in Seq(B)
    BY EmptySeq
  <2>8. << >> \o << >> = << >>
    BY <2>7, ConcatEmptySeq
  <2>9. u \o v \in Seq(A)
    BY <2>2, ConcatProperties
  <2>10. i + 1 \in Int
    BY <2>1
  <2> QED
    BY <2>3, <2>6, <2>8, <2>9, <2>10
<1> HIDE DEF S
<1>4. 0 .. n \subseteq S
  <2>1. \A i \in 0 .. n - 1 : i \in S => i + 1 \in S
    BY <1>3
  <2>2. 0 \in Int /\ n \in Int
    BY <1>1
  <2> QED
    BY <1>1, <1>2, <2>1, <2>2, Upward
<1>5. n \in S /\ Part(n) = s
  BY <1>1, <1>4, SubSeqFull
<1> QED
  BY <1>5 DEF S

\* Joined, Solid and MediaOf are such maps.
TextOf == [c \in Components |-> c.text]
SolidOf == [ch \in STRING |-> IF ch \in Blank THEN << >> ELSE << ch >>]
MediumOf == [c \in Components |-> IF c.kind \in MediaKinds THEN << c >> ELSE << >>]

\* A sequence of one element.
LEMMA OneInSeq == ASSUME NEW A, NEW x \in A PROVE << x >> \in Seq(A)
  OBVIOUS

\* Their domains and ranges.
LEMMA MapsAre ==
    /\ Maps(TextOf, Components, Seq(STRING))
    /\ Maps(SolidOf, STRING, Seq(STRING))
    /\ Maps(MediumOf, Components, Seq(Components))
<1>1. \A c \in Components : c.text \in Seq(STRING)
  <2>1. << >> \in Seq(STRING)
    BY EmptySeq
  <2> QED
    BY <2>1 DEF Components
<1>2. Maps(TextOf, Components, Seq(STRING))
  BY <1>1 DEF Maps, TextOf
<1>3. \A ch \in STRING : (IF ch \in Blank THEN << >> ELSE << ch >>) \in Seq(STRING)
  <2> TAKE ch \in STRING
  <2>1. << ch >> \in Seq(STRING)
    BY OneInSeq
  <2>2. << >> \in Seq(STRING)
    BY EmptySeq
  <2> QED
    BY <2>1, <2>2
<1>4. Maps(SolidOf, STRING, Seq(STRING))
  BY <1>3 DEF Maps, SolidOf
<1>5. \A c \in Components : (IF c.kind \in MediaKinds THEN << c >> ELSE << >>) \in Seq(Components)
  <2> TAKE c \in Components
  <2>1. << c >> \in Seq(Components) /\ << >> \in Seq(Components)
    BY EmptySeq
  <2> QED
    BY <2>1
<1>6. Maps(MediumOf, Components, Seq(Components))
  BY <1>5 DEF Maps, MediumOf
<1> QED
  BY <1>2, <1>4, <1>6

\* Joined by such a map.
LEMMA JoinedIs ==
    ASSUME NEW s \in Seq(Components) PROVE Joined(s) = FlattenSeq(Mapped(TextOf, s))
<1>1. \A i \in DOMAIN s : s[i] \in Components
  BY LenProperties, ElementOfSeq
<1>2. Mapped(TextOf, s) = [i \in DOMAIN s |-> s[i].text]
  BY <1>1 DEF Mapped, TextOf
<1> QED
  BY <1>2 DEF Joined

\* Solid by such a map.
LEMMA SolidIs ==
    ASSUME NEW s \in Seq(STRING) PROVE Solid(s) = FlattenSeq(Mapped(SolidOf, s))
<1>1. \A i \in DOMAIN s : s[i] \in STRING
  BY LenProperties, ElementOfSeq
<1>2. Mapped(SolidOf, s) = [i \in DOMAIN s |-> IF s[i] \in Blank THEN << >> ELSE << s[i] >>]
  BY <1>1 DEF Mapped, SolidOf
<1> QED
  BY <1>2 DEF Solid

\* MediaOf by such a map.
LEMMA MediaIs ==
    ASSUME NEW s \in Seq(Components) PROVE MediaOf(s) = FlattenSeq(Mapped(MediumOf, s))
<1>1. \A i \in DOMAIN s : s[i] \in Components
  BY LenProperties, ElementOfSeq
<1>2. Mapped(MediumOf, s) =
        [i \in DOMAIN s |-> IF s[i].kind \in MediaKinds THEN << s[i] >> ELSE << >>]
  BY <1>1 DEF Mapped, MediumOf
<1> QED
  BY <1>2 DEF MediaOf

\* The image of a sequence under such a map.
LEMMA MapInSeq ==
    ASSUME NEW A, NEW B, NEW g, Maps(g, A, Seq(B)), NEW s \in Seq(A)
    PROVE  FlattenSeq(Mapped(g, s)) \in Seq(B)
<1> DEFINE C == Seq(B)
<1>1. Maps(g, A, C)
  OBVIOUS
<1> HIDE DEF C
<1>2. Mapped(g, s) \in Seq(C)
  BY <1>1, MappedIs
<1> QED
  BY <1>2, FlattenInSeq DEF C

\* The text of a sequence of components in two parts.
LEMMA JoinedParts ==
    ASSUME NEW s \in Seq(Components), NEW t \in Seq(Components)
    PROVE  Joined(s) \in Seq(STRING) /\ Joined(s \o t) = Joined(s) \o Joined(t)
<1>1. s \o t \in Seq(Components)
  BY ConcatProperties
<1>2. Joined(s) = FlattenSeq(Mapped(TextOf, s)) /\ Joined(t) = FlattenSeq(Mapped(TextOf, t))
  BY JoinedIs
<1>3. Joined(s \o t) = FlattenSeq(Mapped(TextOf, s \o t))
  BY <1>1, JoinedIs
<1>4. FlattenSeq(Mapped(TextOf, s)) \in Seq(STRING)
  BY MapsAre, MapInSeq
<1>5. FlattenSeq(Mapped(TextOf, s \o t))
          = FlattenSeq(Mapped(TextOf, s)) \o FlattenSeq(Mapped(TextOf, t))
  BY MapsAre, MapConcat
<1> QED
  BY <1>2, <1>3, <1>4, <1>5

\* A text in two parts, without its spaces.
LEMMA SolidParts ==
    ASSUME NEW s \in Seq(STRING), NEW t \in Seq(STRING)
    PROVE  Solid(s) \in Seq(STRING) /\ Solid(s \o t) = Solid(s) \o Solid(t)
<1>1. s \o t \in Seq(STRING)
  BY ConcatProperties
<1>2. Solid(s) = FlattenSeq(Mapped(SolidOf, s)) /\ Solid(t) = FlattenSeq(Mapped(SolidOf, t))
  BY SolidIs
<1>3. Solid(s \o t) = FlattenSeq(Mapped(SolidOf, s \o t))
  BY <1>1, SolidIs
<1>4. FlattenSeq(Mapped(SolidOf, s)) \in Seq(STRING)
  BY MapsAre, MapInSeq
<1>5. FlattenSeq(Mapped(SolidOf, s \o t))
          = FlattenSeq(Mapped(SolidOf, s)) \o FlattenSeq(Mapped(SolidOf, t))
  BY MapsAre, MapConcat
<1> QED
  BY <1>2, <1>3, <1>4, <1>5

\* The media of a sequence of components in two parts.
LEMMA MediaParts ==
    ASSUME NEW s \in Seq(Components), NEW t \in Seq(Components)
    PROVE  MediaOf(s) \in Seq(Components) /\ MediaOf(s \o t) = MediaOf(s) \o MediaOf(t)
<1>1. s \o t \in Seq(Components)
  BY ConcatProperties
<1>2. MediaOf(s) = FlattenSeq(Mapped(MediumOf, s)) /\ MediaOf(t) = FlattenSeq(Mapped(MediumOf, t))
  BY MediaIs
<1>3. MediaOf(s \o t) = FlattenSeq(Mapped(MediumOf, s \o t))
  BY <1>1, MediaIs
<1>4. FlattenSeq(Mapped(MediumOf, s)) \in Seq(Components)
  BY MapsAre, MapInSeq
<1>5. FlattenSeq(Mapped(MediumOf, s \o t))
          = FlattenSeq(Mapped(MediumOf, s)) \o FlattenSeq(Mapped(MediumOf, t))
  BY MapsAre, MapConcat
<1> QED
  BY <1>2, <1>3, <1>4, <1>5

\* Nothing has no text and no media.
LEMMA NoneJoined == Joined(<< >>) = << >> /\ Solid(<< >>) = << >> /\ MediaOf(<< >>) = << >>
<1>1. << >> \in Seq(Components) /\ << >> \in Seq(STRING)
  BY EmptySeq
<1>2. FlattenSeq(Mapped(TextOf, << >>)) = << >> /\ FlattenSeq(Mapped(SolidOf, << >>)) = << >>
      /\ FlattenSeq(Mapped(MediumOf, << >>)) = << >>
  BY MapNone
<1> QED
  BY <1>1, <1>2, JoinedIs, SolidIs, MediaIs

\* The text and the media of one component; an image or a voice has no text.
LEMMA OneJoined ==
    ASSUME NEW c \in Components
    PROVE  /\ c.text \in Seq(STRING) /\ Joined(<< c >>) = c.text
           /\ MediaOf(<< c >>) = IF c.kind \in MediaKinds THEN << c >> ELSE << >>
           /\ c.kind \in MediaKinds => c.text = << >>
<1>1. << c >> \in Seq(Components)
  OBVIOUS
<1>2. FlattenSeq(Mapped(TextOf, << c >>)) = TextOf[c]
  BY MapsAre, MapOne
<1>3. FlattenSeq(Mapped(MediumOf, << c >>)) = MediumOf[c]
  BY MapsAre, MapOne
<1>4. TextOf[c] = c.text /\ TextOf[c] \in Seq(STRING)
  BY MapsAre DEF TextOf, Maps
<1>5. MediumOf[c] = IF c.kind \in MediaKinds THEN << c >> ELSE << >>
  BY DEF MediumOf
<1>6. c.kind \in MediaKinds => c.text = << >>
  BY DEF Components, MediaKinds
<1>7. Joined(<< c >>) = TextOf[c]
  BY <1>1, <1>2, JoinedIs
<1>8. MediaOf(<< c >>) = MediumOf[c]
  BY <1>1, <1>3, MediaIs
<1> QED
  BY <1>4, <1>5, <1>6, <1>7, <1>8

\* Of blanks nothing is left.
LEMMA SolidBlank ==
    ASSUME NEW s \in Seq(STRING), \A i \in 1 .. Len(s) : s[i] \in Blank
    PROVE  Solid(s) = << >>
<1>1. \A i \in 1 .. Len(s) : SolidOf[s[i]] = << >>
  BY ElementOfSeq DEF SolidOf
<1>2. FlattenSeq(Mapped(SolidOf, s)) = << >>
  BY <1>1, MapsAre, MapAllEmpty
<1> QED
  BY <1>2, SolidIs

-----------------------------------------------------------------------------
(* Texts that are cut, and what send() strips.                             *)

\* What follows the n-th character of a text.
From(text, n) == SubSeq(text, n + 1, Len(text))

\* A text cut after its n-th character.
LEMMA CutIs ==
    ASSUME NEW text \in Seq(STRING), NEW n \in 0 .. Len(text)
    PROVE  /\ SubSeq(text, 1, n) \in Seq(STRING) /\ Len(SubSeq(text, 1, n)) = n
           /\ From(text, n) \in Seq(STRING) /\ Len(From(text, n)) = Len(text) - n
           /\ text = SubSeq(text, 1, n) \o From(text, n)
           /\ \A i \in 1 .. n : SubSeq(text, 1, n)[i] = text[i]
           /\ \A i \in 1 .. Len(text) - n : From(text, n)[i] = text[n + i]
<1>1. Len(text) \in Nat /\ \A i \in 1 .. Len(text) : text[i] \in STRING
  BY LenProperties, ElementOfSeq
<1> DEFINE u == SubSeq(text, 1, n)
           v == From(text, n)
<1>2. u \in Seq(STRING) /\ Len(u) = n /\ \A i \in 1 .. n : u[i] = text[i]
  <2>1. \A i \in 1 .. n : text[i] \in STRING
    BY <1>1
  <2>2. /\ u \in Seq(STRING) /\ Len(u) = IF 1 <= n THEN n - 1 + 1 ELSE 0
        /\ \A i \in 1 .. n - 1 + 1 : u[i] = text[1 + i - 1]
    BY <1>1, <2>1, SubSeqProperties
  <2>3. n - 1 + 1 = n /\ \A i \in 1 .. n : 1 + i - 1 = i
    BY <1>1
  <2> QED
    BY <1>1, <2>2, <2>3
<1>3. /\ v \in Seq(STRING) /\ Len(v) = Len(text) - n
      /\ \A i \in 1 .. Len(text) - n : v[i] = text[n + i]
  <2> DEFINE m == n + 1
             k == Len(text)
  <2>1. \A i \in m .. k : text[i] \in STRING
    BY <1>1
  <2>2. m \in Int /\ k \in Int
    BY <1>1
  <2>3. v = SubSeq(text, m, k)
    BY DEF From
  <2> HIDE DEF m, k, v
  <2>4. /\ v \in Seq(STRING) /\ Len(v) = IF m <= k THEN k - m + 1 ELSE 0
        /\ \A i \in 1 .. k - m + 1 : v[i] = text[m + i - 1]
    BY <2>1, <2>2, <2>3, SubSeqProperties
  <2>5. k - m + 1 = Len(text) - n /\ (~(m <= k) => Len(text) - n = 0)
    BY <1>1 DEF m, k
  <2>6. \A i \in 1 .. Len(text) - n : m + i - 1 = n + i
    BY <1>1 DEF m
  <2> QED
    BY <2>4, <2>5, <2>6
<1>4. text = u \o v
  <2> HIDE DEF u, v
  <2>1. /\ u \o v \in Seq(STRING) /\ Len(u \o v) = Len(u) + Len(v)
        /\ \A i \in 1 .. Len(u) + Len(v) :
              (u \o v)[i] = IF i <= Len(u) THEN u[i] ELSE v[i - Len(u)]
    BY <1>2, <1>3, ConcatProperties
  <2>2. Len(u) + Len(v) = Len(text)
    BY <1>1, <1>2, <1>3
  <2>3. ASSUME NEW i \in 1 .. Len(text) PROVE text[i] = (u \o v)[i]
    <3>1. CASE i <= n
      <4>1. i \in 1 .. n
        BY <1>1, <3>1
      <4> QED
        BY <1>2, <2>1, <2>2, <3>1, <4>1
    <3>2. CASE ~(i <= n)
      <4>1. i - n \in 1 .. Len(text) - n /\ n + (i - n) = i
        BY <1>1, <3>2
      <4>2. (u \o v)[i] = v[i - n]
        BY <1>2, <2>1, <2>2, <3>2
      <4> QED
        BY <1>3, <4>1, <4>2
    <3> QED
      BY <3>1, <3>2
  <2> DEFINE w == u \o v
  <2>4. w \in Seq(STRING) /\ Len(w) = Len(text) /\ \A i \in 1 .. Len(text) : text[i] = w[i]
    BY <2>1, <2>2, <2>3
  <2> HIDE DEF w
  <2>5. text = w
    BY <2>4, SeqEqual
  <2> QED
    BY <2>5 DEF w
<1> QED
  BY <1>2, <1>3, <1>4

\* The part of a text from its character i to its character j, when all that is
\* before and behind it is blank, is all of the text that is not blank.
LEMMA SolidMiddle ==
    ASSUME NEW text \in Seq(STRING), NEW i \in 1 .. Len(text), NEW j \in i .. Len(text),
           \A k \in 1 .. Len(text) : k < i \/ k > j => text[k] \in Blank
    PROVE  SubSeq(text, i, j) \in Seq(STRING) /\ Solid(SubSeq(text, i, j)) = Solid(text)
<1> DEFINE a == SubSeq(text, 1, i - 1)
           b == SubSeq(text, i, j)
           c == From(text, j)
           ab == SubSeq(text, 1, j)
<1>1. Len(text) \in Nat
  BY LenProperties
<1>2. i - 1 \in 0 .. Len(text) /\ j \in 0 .. Len(text)
  BY <1>1
<1>3. /\ a \in Seq(STRING) /\ Len(a) = i - 1 /\ \A k \in 1 .. i - 1 : a[k] = text[k]
  BY <1>2, CutIs
<1>4. /\ ab \in Seq(STRING) /\ Len(ab) = j /\ \A k \in 1 .. j : ab[k] = text[k]
      /\ c \in Seq(STRING) /\ Len(c) = Len(text) - j /\ text = ab \o c
      /\ \A k \in 1 .. Len(text) - j : c[k] = text[j + k]
  BY <1>2, CutIs
<1>5. b \in Seq(STRING)
  <2>1. \A k \in i .. j : text[k] \in STRING
    BY <1>1, ElementOfSeq
  <2> QED
    BY <1>1, <2>1, SubSeqProperties
<1>6. ab = a \o b
  <2>1. 1 \in 1 .. Len(text) + 1 /\ i - 1 \in 1 - 1 .. Len(text) /\ j \in i - 1 .. Len(text)
    BY <1>1
  <2>2. SubSeq(text, 1, i - 1) \o SubSeq(text, (i - 1) + 1, j) = SubSeq(text, 1, j)
    BY <2>1, ConcatAdjacentSubSeq
  <2>3. (i - 1) + 1 = i
    BY <1>1
  <2> QED
    BY <2>2, <2>3
<1>7. Solid(a) = << >>
  <2>1. \A k \in 1 .. Len(a) : a[k] \in Blank
    <3>1. \A k \in 1 .. i - 1 : k \in 1 .. Len(text) /\ k < i
      BY <1>1
    <3> QED
      BY <1>3, <3>1
  <2> HIDE DEF a
  <2> QED
    BY <1>3, <2>1, SolidBlank
<1>8. Solid(c) = << >>
  <2>1. \A k \in 1 .. Len(c) : c[k] \in Blank
    <3>1. \A k \in 1 .. Len(text) - j : j + k \in 1 .. Len(text) /\ j + k > j
      BY <1>1
    <3> QED
      BY <1>4, <3>1
  <2> HIDE DEF c
  <2> QED
    BY <1>4, <2>1, SolidBlank
<1> HIDE DEF a, b, c, ab
<1>9. Solid(text) = (<< >> \o Solid(b)) \o << >>
  <2>1. Solid(text) = Solid(ab) \o Solid(c)
    BY <1>4, SolidParts
  <2>2. Solid(ab) = Solid(a) \o Solid(b)
    BY <1>3, <1>5, <1>6, SolidParts
  <2> QED
    BY <1>7, <1>8, <2>1, <2>2
<1>10. (<< >> \o Solid(b)) \o << >> = Solid(b)
  BY <1>5, SolidParts, ConcatEmptySeq
<1> QED
  BY <1>5, <1>9, <1>10 DEF b

\* A set of numbers up to n has a greatest element.
LEMMA Greatest ==
    ASSUME NEW n \in Nat, NEW T \in SUBSET (0 .. n), T # {}
    PROVE  \E m \in T : \A k \in T : m >= k
<1> DEFINE U == {k \in Nat : k <= n /\ n - k \in T}
<1>1. U # {}
  <2>1. PICK k \in T : TRUE
    OBVIOUS
  <2>2. n - k \in Nat /\ n - k <= n /\ n - (n - k) = k
    BY <2>1
  <2>3. n - k \in U
    BY <2>1, <2>2
  <2> QED
    BY <2>3
<1>2. PICK u \in U : \A k \in U : u <= k
  <2>1. U \in SUBSET Nat
    OBVIOUS
  <2> HIDE DEF U
  <2> QED
    BY <1>1, <2>1, Least
<1>3. n - u \in T /\ u \in Nat /\ u <= n
  BY <1>2
<1>4. ASSUME NEW k \in T PROVE n - u >= k
  <2>1. k \in 0 .. n
    OBVIOUS
  <2>2. n - k \in Nat /\ n - k <= n /\ n - (n - k) = k
    BY <2>1
  <2>3. n - k \in U
    BY <2>2
  <2>4. u <= n - k
    BY <1>2, <2>3
  <2> QED
    BY <1>3, <2>1, <2>4
<1> QED
  BY <1>3, <1>4

\* send() strips nothing but blanks.
LEMMA SolidStrip ==
    ASSUME NEW text \in Seq(STRING)
    PROVE  Strip(text) \in Seq(STRING) /\ Solid(Strip(text)) = Solid(text)
<1> DEFINE solid == {i \in DOMAIN text : text[i] \notin Blank}
           low == CHOOSE i \in solid : \A j \in solid : i <= j
           high == CHOOSE i \in solid : \A j \in solid : i >= j
<1>1. Len(text) \in Nat /\ DOMAIN text = 1 .. Len(text)
  BY LenProperties
<1>2. CASE solid = {}
  <2>1. Strip(text) = << >>
    BY <1>2 DEF Strip
  <2>2. \A i \in 1 .. Len(text) : text[i] \in Blank
    BY <1>1, <1>2
  <2>3. Solid(text) = << >>
    BY <2>2, SolidBlank
  <2>4. << >> \in Seq(STRING) /\ Solid(<< >>) = << >>
    BY EmptySeq, NoneJoined
  <2> QED
    BY <2>1, <2>3, <2>4
<1>3. CASE solid # {}
  <2>1. Strip(text) = SubSeq(text, low, high)
    BY <1>3 DEF Strip
  <2>2. \E i \in solid : \A j \in solid : i <= j
    <3>1. solid \in SUBSET Nat
      BY <1>1
    <3> HIDE DEF solid
    <3> QED
      BY <1>3, <3>1, Least
  <2>3. \E i \in solid : \A j \in solid : i >= j
    <3>1. solid \in SUBSET (0 .. Len(text))
      BY <1>1
    <3> HIDE DEF solid
    <3> QED
      BY <1>1, <1>3, <3>1, Greatest
  <2>4. low \in solid /\ \A j \in solid : low <= j
    <3> HIDE DEF solid
    <3> QED
      BY <2>2
  <2>5. high \in solid /\ \A j \in solid : high >= j
    <3> HIDE DEF solid
    <3> QED
      BY <2>3
  <2> HIDE DEF low, high
  <2>6. low \in 1 .. Len(text) /\ high \in low .. Len(text)
    BY <1>1, <2>4, <2>5
  <2>7. \A k \in 1 .. Len(text) : k < low \/ k > high => text[k] \in Blank
    <3> SUFFICES ASSUME NEW k \in 1 .. Len(text), k < low \/ k > high, text[k] \notin Blank
                 PROVE  FALSE
      OBVIOUS
    <3>1. k \in solid
      BY <1>1
    <3>2. low <= k /\ high >= k
      BY <2>4, <2>5, <3>1
    <3> QED
      BY <1>1, <2>6, <3>2
  <2> HIDE DEF solid
  <2>8. /\ SubSeq(text, low, high) \in Seq(STRING)
        /\ Solid(SubSeq(text, low, high)) = Solid(text)
    BY <2>6, <2>7, SolidMiddle
  <2> QED
    BY <2>1, <2>8
<1> QED
  BY <1>2, <1>3

\* What the next component adds.
LEMMA Generated ==
    ASSUME NEW s \in Seq(Components), s # << >>
    PROVE  /\ Head(s) \in Components /\ Tail(s) \in Seq(Components)
           /\ Joined(s) = Head(s).text \o Joined(Tail(s))
           /\ MediaOf(s) = MediaOf(<< Head(s) >>) \o MediaOf(Tail(s))
<1> DEFINE c == Head(s)
           t == Tail(s)
           u == << c >>
<1>1. c \in Components /\ t \in Seq(Components)
  BY HeadTailProperties
<1>2. s = u \o t
  <2>1. Len(s) \in Nat /\ Len(s) # 0
    BY EmptySeq
  <2>2. 1 \in 1 .. Len(s) /\ Len(s) \in 1 .. Len(s)
    BY <2>1
  <2>3. SubSeq(s, 1, Len(s)) = << s[1] >> \o SubSeq(s, 1 + 1, Len(s))
    BY <2>2, SubSeqRecursiveFirst
  <2>4. SubSeq(s, 1, Len(s)) = s /\ SubSeq(s, 2, Len(s)) = t
    BY SubSeqFull, TailIsSubSeq
  <2>5. s[1] = c
    <3>1. Len(s) \in 1 .. Len(s)
      BY <2>2
    <3>2. Head(SubSeq(s, 1, Len(s))) = s[1]
      BY <2>2, HeadTailOfSubSeq
    <3> QED
      BY <2>4, <3>2
  <2>6. SubSeq(s, 1 + 1, Len(s)) = SubSeq(s, 2, Len(s))
    OBVIOUS
  <2> QED
    BY <2>3, <2>4, <2>5, <2>6
<1> HIDE DEF c, t
<1>3. u \in Seq(Components)
  BY <1>1, OneInSeq
<1> HIDE DEF u
<1>4. Joined(s) = Joined(u) \o Joined(t) /\ MediaOf(s) = MediaOf(u) \o MediaOf(t)
  BY <1>1, <1>2, <1>3, JoinedParts, MediaParts
<1>5. Joined(u) = c.text
  BY <1>1, OneJoined DEF u
<1> QED
  BY <1>1, <1>4, <1>5 DEF c, t, u

\* What is posted.
LEMMA Appended ==
    ASSUME NEW s \in Seq(Components), NEW c \in Components
    PROVE  /\ Append(s, c) \in Seq(Components)
           /\ Joined(Append(s, c)) = Joined(s) \o c.text
           /\ MediaOf(Append(s, c)) = MediaOf(s) \o MediaOf(<< c >>)
<1> DEFINE u == << c >>
<1>1. u \in Seq(Components) /\ Append(s, c) = s \o u /\ Append(s, c) \in Seq(Components)
  BY OneInSeq, AppendIsConcat, AppendProperties
<1>2. Joined(u) = c.text
  BY OneJoined
<1> HIDE DEF u
<1>3. Joined(s \o u) = Joined(s) \o Joined(u) /\ MediaOf(s \o u) = MediaOf(s) \o MediaOf(u)
  BY <1>1, JoinedParts, MediaParts
<1> QED
  BY <1>1, <1>2, <1>3 DEF u

\* A segment is posted without the spaces around it, which is all that it loses.
LEMMA SegmentIs ==
    ASSUME NEW s \in Seq(Components), NEW text \in Seq(STRING)
    PROVE  LET t == Append(s, Text(Strip(text)))
           IN  /\ t \in Seq(Components)
               /\ Solid(Joined(t)) = Solid(Joined(s)) \o Solid(text)
               /\ MediaOf(t) = MediaOf(s)
<1> DEFINE c == Text(Strip(text))
           t == Append(s, c)
<1>1. Strip(text) \in Seq(STRING) /\ Solid(Strip(text)) = Solid(text)
  BY SolidStrip
<1>2. c \in Components /\ c.text = Strip(text) /\ c.kind \notin MediaKinds
  BY <1>1 DEF Text, Components, MediaKinds
<1> HIDE DEF c
<1>3. /\ t \in Seq(Components) /\ Joined(t) = Joined(s) \o c.text
      /\ MediaOf(t) = MediaOf(s) \o MediaOf(<< c >>)
  BY <1>2, Appended
<1>4. MediaOf(<< c >>) = << >>
  BY <1>2, OneJoined
<1>5. MediaOf(s) \o << >> = MediaOf(s)
  BY MediaParts, ConcatEmptySeq
<1>6. Joined(s) \in Seq(STRING)
  BY JoinedParts
<1> HIDE DEF t
<1>7. Solid(Joined(t)) = Solid(Joined(s)) \o Solid(text)
  <2> DEFINE a == Joined(s)
             b == Strip(text)
  <2>1. a \in Seq(STRING) /\ b \in Seq(STRING)
    BY <1>1, <1>6
  <2>2. Joined(t) = a \o b
    BY <1>2, <1>3
  <2> HIDE DEF a, b
  <2>3. Solid(a \o b) = Solid(a) \o Solid(b)
    BY <2>1, SolidParts
  <2> QED
    BY <1>1, <2>2, <2>3 DEF a, b
<1> QED
  BY <1>3, <1>4, <1>5, <1>7 DEF t, c

-----------------------------------------------------------------------------
(* No character and no medium is lost.                                     *)

\* Types of the stream.
StreamRecord ==
    [stage : {"read", "split"} \cup Over, rest : Seq(Components), buffer : Seq(STRING),
     out : Seq(Components), cuts : SUBSET Int]

\* Types and StreamIsWhole, which no step disturbs.
InvStream == answer \in Seq(Components) /\ stream \in StreamRecord /\ StreamIsWhole

\* Before the answer is generated, all of it is still to come.
LEMMA StreamInit == Init => InvStream
<1> SUFFICES ASSUME Init PROVE InvStream
  OBVIOUS
<1>1. answer \in Seq(Components)
  BY RepliesAssumption DEF Init
<1>2. << >> \in Seq(Components) /\ << >> \in Seq(STRING)
  BY EmptySeq
<1>3. CASE answer = << >>
  <2>1. stream = [stage |-> "none", rest |-> << >>, buffer |-> << >>, out |-> << >>, cuts |-> {}]
    BY <1>3 DEF Init, NoStream, NewStream
  <2>2. stream \in StreamRecord
    BY <1>2, <2>1 DEF StreamRecord, Over
  <2>3. stream.stage = "none"
    BY <2>1
  <2> QED
    BY <1>1, <2>2, <2>3 DEF InvStream, StreamIsWhole
<1>4. CASE answer # << >>
  <2>1. stream = [stage |-> "read", rest |-> answer, buffer |-> << >>, out |-> << >>, cuts |-> {}]
    BY <1>4 DEF Init, NewStream
  <2>2. stream \in StreamRecord
    BY <1>1, <1>2, <2>1 DEF StreamRecord
  <2>3. stream.out = << >> /\ stream.buffer = << >> /\ stream.rest = answer
    BY <2>1
  <2>4. Joined(answer) \in Seq(STRING) /\ MediaOf(answer) \in Seq(Components)
    BY <1>1, JoinedParts, MediaParts
  <2>5. Solid(Joined(answer)) \in Seq(STRING)
    BY <2>4, SolidParts
  <2>6. Solid(Joined(<< >>)) = << >> /\ Solid(<< >>) = << >> /\ MediaOf(<< >>) = << >>
    BY NoneJoined
  <2>7. /\ << >> \o << >> \o Solid(Joined(answer)) = Solid(Joined(answer))
        /\ << >> \o MediaOf(answer) = MediaOf(answer)
    BY <1>2, <2>4, <2>5, ConcatEmptySeq
  <2>8. StreamIsWhole
    BY <2>3, <2>6, <2>7 DEF StreamIsWhole
  <2> QED
    BY <1>1, <2>2, <2>8 DEF InvStream
<1> QED
  BY <1>3, <1>4

\* No step of the stream loses, repeats or moves a character that is not blank, or a
\* medium.
LEMMA StreamNext == InvStream /\ [Next]_allVars => InvStream'
<1> SUFFICES ASSUME InvStream, [Next]_allVars PROVE InvStream'
  OBVIOUS
<1> DEFINE s == stream
           t == stream'
<1>1. /\ answer \in Seq(Components) /\ s \in StreamRecord /\ StreamIsWhole
      /\ s.rest \in Seq(Components) /\ s.buffer \in Seq(STRING) /\ s.out \in Seq(Components)
      /\ s.stage \in {"read", "split"} \cup Over /\ s.cuts \in SUBSET Int
  BY DEF InvStream, StreamRecord
<1>2. CASE UNCHANGED streamVars
  BY <1>1, <1>2 DEF streamVars, InvStream, StreamIsWhole
<1>3. CASE Streams
  <2>1. answer' = answer
    BY <1>3 DEF Streams, ReadsText, PostsMedia, PostsSegment, ReadsOn, PostsRest, Aborts
  <2> DEFINE a == Solid(Joined(s.out))
             b == Solid(s.buffer)
             c == Solid(Joined(s.rest))
             whole == Solid(Joined(answer))
  <2>2. Joined(s.out) \in Seq(STRING) /\ Joined(s.rest) \in Seq(STRING)
    BY <1>1, JoinedParts
  <2>3. a \in Seq(STRING) /\ b \in Seq(STRING) /\ c \in Seq(STRING)
    BY <1>1, <2>2, SolidParts
  <2>4. s.stage \notin {"none", "aborted"}
            => a \o b \o c = whole /\ MediaOf(s.out) \o MediaOf(s.rest) = MediaOf(answer)
    BY <1>1 DEF StreamIsWhole
  <2>5. CASE ReadsText
    <3> DEFINE h == Head(s.rest)
               new == h.text
               r == Tail(s.rest)
               x == s.buffer \o new
               g == IF \E i \in DOMAIN x : x[i] \in SplitChars THEN "split" ELSE "read"
    <3>1. s.stage = "read" /\ s.rest # << >> /\ h.kind = "text"
          /\ t = [s EXCEPT !.rest = r, !.buffer = x, !.stage = g]
      BY <2>5, Zenon DEF ReadsText
    <3>2. h \in Components /\ r \in Seq(Components) /\ Joined(s.rest) = new \o Joined(r)
          /\ MediaOf(s.rest) = MediaOf(<< h >>) \o MediaOf(r)
      BY <1>1, <3>1, Generated
    <3>3. new \in Seq(STRING) /\ MediaOf(<< h >>) = << >>
      <4>1. h.kind \notin MediaKinds
        BY <3>1 DEF MediaKinds
      <4> HIDE DEF h
      <4> QED
        BY <3>2, <4>1, OneJoined
    <3>4. x \in Seq(STRING)
      BY <1>1, <3>3, ConcatProperties
    <3>5. g \in {"read", "split"}
      OBVIOUS
    <3>6. Joined(r) \in Seq(STRING) /\ MediaOf(r) \in Seq(Components)
      BY <3>2, JoinedParts, MediaParts
    <3> HIDE DEF h, new, r, x, g
    <3>7. t \in StreamRecord /\ t.rest = r /\ t.buffer = x /\ t.out = s.out
          /\ t.stage \in {"read", "split"}
      BY <1>1, <3>1, <3>2, <3>4, <3>5 DEF StreamRecord
    <3>8. Solid(x) = b \o Solid(new) /\ Solid(new) \in Seq(STRING)
      BY <1>1, <3>3, SolidParts DEF x
    <3>9. c = Solid(new) \o Solid(Joined(r)) /\ Solid(Joined(r)) \in Seq(STRING)
      BY <3>2, <3>3, <3>6, SolidParts
    <3>10. (a \o (b \o Solid(new))) \o Solid(Joined(r))
               = (a \o b) \o (Solid(new) \o Solid(Joined(r)))
      <4> DEFINE A == STRING
                 d == Solid(new)
                 e == Solid(Joined(r))
      <4>1. a \in Seq(A) /\ b \in Seq(A) /\ d \in Seq(A) /\ e \in Seq(A)
        BY <2>3, <3>8, <3>9
      <4> HIDE DEF A, a, b, d, e
      <4>2. (a \o (b \o d)) \o e = (a \o b) \o (d \o e)
        <5> DEFINE f == a \o b
        <5>1. f \in Seq(A) /\ f \o d = a \o (b \o d)
          BY <4>1, ConcatProperties, ConcatAssociative
        <5> HIDE DEF f
        <5>2. f \in Seq(A) /\ d \in Seq(A) /\ e \in Seq(A)
          BY <4>1, <5>1
        <5>3. (f \o d) \o e = f \o (d \o e)
          BY <5>2, ConcatAssociative
        <5> QED
          BY <5>1, <5>3 DEF f
      <4> QED
        BY <4>2 DEF d, e
    <3>11. a \o Solid(x) \o Solid(Joined(r)) = whole
      BY <2>4, <3>1, <3>8, <3>9, <3>10
    <3>12. MediaOf(s.rest) = MediaOf(r)
      BY <3>2, <3>3, <3>6, ConcatEmptySeq
    <3>13. StreamIsWhole'
      BY <2>1, <2>4, <3>1, <3>7, <3>11, <3>12 DEF StreamIsWhole
    <3> QED
      BY <1>1, <2>1, <3>7, <3>13 DEF InvStream
  <2>6. CASE PostsMedia
    <3> DEFINE h == Head(s.rest)
               r == Tail(s.rest)
               o == Append(s.out, h)
    <3>1. s.stage = "read" /\ s.rest # << >> /\ h.kind \in MediaKinds
          /\ t = [s EXCEPT !.rest = r, !.out = o]
      BY <2>6 DEF PostsMedia
    <3>2. h \in Components /\ r \in Seq(Components) /\ Joined(s.rest) = h.text \o Joined(r)
          /\ MediaOf(s.rest) = MediaOf(<< h >>) \o MediaOf(r)
      BY <1>1, <3>1, Generated
    <3>3. h.text = << >> /\ MediaOf(<< h >>) = << h >> /\ << h >> \in Seq(Components)
      <4> HIDE DEF h
      <4> QED
        BY <3>1, <3>2, OneJoined, OneInSeq
    <3>4. o \in Seq(Components) /\ Joined(o) = Joined(s.out) \o h.text
          /\ MediaOf(o) = MediaOf(s.out) \o MediaOf(<< h >>)
      BY <1>1, <3>2, Appended
    <3>5. Joined(r) \in Seq(STRING) /\ MediaOf(r) \in Seq(Components)
          /\ MediaOf(s.out) \in Seq(Components)
      BY <1>1, <3>2, JoinedParts, MediaParts
    <3> HIDE DEF h, r, o
    <3>6. Joined(s.rest) = Joined(r) /\ Joined(o) = Joined(s.out)
      BY <2>2, <3>2, <3>3, <3>4, <3>5, ConcatEmptySeq
    <3>7. t \in StreamRecord /\ t.rest = r /\ t.buffer = s.buffer /\ t.out = o
          /\ t.stage = "read"
      BY <1>1, <3>1, <3>2, <3>4 DEF StreamRecord
    <3> DEFINE m == << h >>
    <3>8. MediaOf(o) = MediaOf(s.out) \o m /\ MediaOf(s.rest) = m \o MediaOf(r)
          /\ m \in Seq(Components)
      BY <3>2, <3>3, <3>4
    <3> HIDE DEF m
    <3>9. (MediaOf(s.out) \o m) \o MediaOf(r) = MediaOf(s.out) \o (m \o MediaOf(r))
      BY <3>5, <3>8, ConcatAssociative
    <3>10. MediaOf(o) \o MediaOf(r) = MediaOf(s.out) \o MediaOf(s.rest)
      BY <3>8, <3>9
    <3>11. StreamIsWhole'
      BY <2>1, <2>4, <3>1, <3>6, <3>7, <3>10 DEF StreamIsWhole
    <3> QED
      BY <1>1, <2>1, <3>7, <3>11 DEF InvStream
  <2>7. CASE PostsSegment
    <3> DEFINE k == SplitIndex(s.buffer)
               x == SubSeq(s.buffer, 1, k)
               y == From(s.buffer, k)
               o == Append(s.out, Text(Strip(x)))
               n == Behind(s) + k
               q == s.cuts \cup {n}
    <3>1. s.stage = "split" /\ t = [s EXCEPT !.out = o, !.cuts = q, !.buffer = y]
      BY <2>7, Zenon DEF PostsSegment, From
    <3>2. k \in 0 .. Len(s.buffer)
      BY <1>1, SplitIn
    <3>3. x \in Seq(STRING) /\ y \in Seq(STRING) /\ s.buffer = x \o y
      BY <1>1, <3>2, CutIs
    <3>4. o \in Seq(Components) /\ Solid(Joined(o)) = a \o Solid(x)
          /\ MediaOf(o) = MediaOf(s.out)
      <4> HIDE DEF x
      <4> QED
        BY <1>1, <3>3, SegmentIs
    <3>5. n \in Int
      <4>1. Joined(answer) \in Seq(STRING)
        BY <1>1, JoinedParts
      <4>2. Len(Joined(answer)) \in Int /\ Len(Joined(s.rest)) \in Int /\ Len(s.buffer) \in Int
        BY <1>1, <2>2, <4>1, LenProperties
      <4> HIDE DEF k
      <4> QED
        BY <3>2, <4>2 DEF Behind
    <3> HIDE DEF k, x, y, o, n
    <3>6. q \in SUBSET Int
      BY <1>1, <3>5
    <3> HIDE DEF q
    <3>7. t \in StreamRecord /\ t.rest = s.rest /\ t.buffer = y /\ t.out = o
          /\ t.stage = "split"
      BY <1>1, <3>1, <3>3, <3>4, <3>6 DEF StreamRecord
    <3>8. b = Solid(x) \o Solid(y) /\ Solid(x) \in Seq(STRING) /\ Solid(y) \in Seq(STRING)
      BY <3>3, SolidParts
    <3>9. ((a \o Solid(x)) \o Solid(y)) \o c = (a \o (Solid(x) \o Solid(y))) \o c
      <4> DEFINE d == Solid(x)
                 e == Solid(y)
      <4>1. a \in Seq(STRING) /\ d \in Seq(STRING) /\ e \in Seq(STRING)
        BY <2>3, <3>8
      <4> HIDE DEF a, d, e
      <4>2. (a \o d) \o e = a \o (d \o e)
        BY <4>1, ConcatAssociative
      <4> QED
        BY <4>2 DEF d, e
    <3>10. Solid(Joined(o)) \o Solid(y) \o c = whole
      BY <2>4, <3>1, <3>4, <3>8, <3>9
    <3>11. StreamIsWhole'
      BY <2>1, <2>4, <3>1, <3>4, <3>7, <3>10 DEF StreamIsWhole
    <3> QED
      BY <1>1, <2>1, <3>7, <3>11 DEF InvStream
  <2>8. CASE ReadsOn
    <3>1. s.stage = "split" /\ t = [s EXCEPT !.stage = "read"]
      BY <2>8 DEF ReadsOn
    <3>2. t \in StreamRecord /\ t.rest = s.rest /\ t.buffer = s.buffer /\ t.out = s.out
          /\ t.stage = "read"
      BY <1>1, <3>1 DEF StreamRecord
    <3>3. StreamIsWhole'
      BY <2>1, <2>4, <3>1, <3>2 DEF StreamIsWhole
    <3> QED
      BY <1>1, <2>1, <3>2, <3>3 DEF InvStream
  <2>9. CASE PostsRest
    <3> DEFINE x == s.buffer
               o == IF Strip(x) = << >> THEN s.out ELSE Append(s.out, Text(Strip(x)))
    <3>1. s.stage = "read" /\ s.rest = << >>
          /\ t = [s EXCEPT !.stage = "done", !.buffer = << >>, !.out = o]
      BY <2>9 DEF PostsRest
    <3>2. << >> \in Seq(STRING) /\ Solid(<< >>) = << >>
      BY EmptySeq, NoneJoined
    <3>3. o \in Seq(Components) /\ Solid(Joined(o)) = a \o b /\ MediaOf(o) = MediaOf(s.out)
      <4>1. CASE Strip(x) = << >>
        <5>1. b = << >>
          BY <1>1, <3>2, <4>1, SolidStrip
        <5> QED
          BY <1>1, <2>3, <4>1, <5>1, ConcatEmptySeq
      <4>2. CASE Strip(x) # << >>
        <5>1. o = Append(s.out, Text(Strip(x)))
          BY <4>2
        <5> QED
          BY <1>1, <5>1, SegmentIs
      <4> QED
        BY <4>1, <4>2
    <3> HIDE DEF o
    <3>4. t \in StreamRecord /\ t.rest = s.rest /\ t.buffer = << >> /\ t.out = o
          /\ t.stage = "done"
      BY <1>1, <3>1, <3>2, <3>3 DEF StreamRecord, Over
    <3>5. a \o b \in Seq(STRING)
      BY <2>3, ConcatProperties
    <3>6. Solid(Joined(o)) \o << >> \o c = a \o b \o c
      BY <3>3, <3>5, ConcatEmptySeq
    <3>7. StreamIsWhole'
      BY <2>1, <2>4, <3>1, <3>2, <3>3, <3>4, <3>6 DEF StreamIsWhole
    <3> QED
      BY <1>1, <2>1, <3>4, <3>7 DEF InvStream
  <2>10. CASE Aborts
    <3>1. t = [s EXCEPT !.stage = "aborted"]
      BY <2>10 DEF Aborts
    <3>2. t \in StreamRecord /\ t.stage = "aborted"
      BY <1>1, <3>1 DEF StreamRecord, Over
    <3>3. StreamIsWhole'
      BY <3>2 DEF StreamIsWhole
    <3> QED
      BY <1>1, <2>1, <3>2, <3>3 DEF InvStream
  <2> QED
    BY <1>3, <2>5, <2>6, <2>7, <2>8, <2>9, <2>10 DEF Streams
<1> QED
  BY <1>2, <1>3 DEF Next, allVars, streamVars

\* StreamIsWhole, for every answer: whatever send_streaming has posted, buffered and not
\* yet received is the answer, spaces aside, until an exception ends the stream.
THEOREM WholeStream == Spec => []StreamIsWhole
<1>1. InvStream => StreamIsWhole
  BY DEF InvStream
<1> QED
  BY <1>1, StreamInit, StreamNext, PTL DEF Spec

-----------------------------------------------------------------------------
(* Where the text is cut.                                                  *)

\* The function by which WholeCuts is defined, from m on.
CutsFrom(f, text, m) ==
    f = [n \in m .. Len(text) |->
            LET index == SplitIndex(SubSeq(text, n + 1, Len(text)))
            IN  IF index = 0 THEN {} ELSE {n + index} \cup f[n + index]]

\* The cuts behind each position of a text that arrives in one piece.
CutsOf(text) == CHOOSE f : CutsFrom(f, text, 0)

\* The cut at n, if there is one, and those behind it.
NextCuts(f, text, n) ==
    IF SplitIndex(From(text, n)) = 0 THEN {}
    ELSE {n + SplitIndex(From(text, n))} \cup f[n + SplitIndex(From(text, n))]

\* The same with NextCuts.
LEMMA CutsFromIs ==
    ASSUME NEW f, NEW text, NEW m
    PROVE  CutsFrom(f, text, m) <=> f = [n \in m .. Len(text) |-> NextCuts(f, text, n)]
  BY DEF CutsFrom, NextCuts, From

\* There is such a function: each cut is behind the last one.
LEMMA CutsExist == ASSUME NEW text \in Seq(STRING) PROVE \E f : CutsFrom(f, text, 0)
<1> DEFINE len == Len(text)
           S == {k \in Int : \E f : CutsFrom(f, text, len - k)}
<1>1. len \in Nat
  BY LenProperties
<1>2. \A n \in 0 .. len : SplitIndex(From(text, n)) \in 0 .. len - n
  <2> TAKE n \in 0 .. len
  <2> DEFINE u == From(text, n)
  <2>1. u \in Seq(STRING) /\ Len(u) = len - n
    BY CutIs
  <2> HIDE DEF u
  <2>2. SplitIndex(u) \in 0 .. Len(u)
    BY <2>1, SplitIn
  <2> QED
    BY <2>1, <2>2 DEF u
<1> HIDE DEF len
<1>3. 0 \in S
  <2> DEFINE f == [n \in len .. len |-> {}]
  <2>1. ASSUME NEW n \in len .. len PROVE f[n] = NextCuts(f, text, n)
    <3>1. n = len /\ len \in 0 .. len
      BY <1>1
    <3>2. SplitIndex(From(text, len)) \in 0 .. len - len
      BY <1>2, <3>1
    <3>3. SplitIndex(From(text, n)) = 0
      BY <1>1, <3>1, <3>2
    <3>4. NextCuts(f, text, n) = {}
      BY <3>3 DEF NextCuts
    <3> QED
      BY <3>4
  <2>2. f = [n \in len .. len |-> f[n]]
    OBVIOUS
  <2> HIDE DEF f
  <2>3. f = [n \in len .. len |-> NextCuts(f, text, n)]
    BY <2>1, <2>2
  <2>4. CutsFrom(f, text, len)
    BY <2>3, CutsFromIs DEF len
  <2>5. len - 0 = len
    BY <1>1
  <2> QED
    BY <2>4, <2>5
<1>4. ASSUME NEW k \in 0 .. len - 1, k \in S PROVE k + 1 \in S
  <2> DEFINE m == len - k
             l == len - (k + 1)
  <2>1. l \in 0 .. len /\ m = l + 1 /\ m \in 0 .. len /\ k + 1 \in Int
    BY <1>1
  <2>2. PICK f : CutsFrom(f, text, m)
    BY <1>4
  <2> HIDE DEF m
  <2>3. f = [n \in m .. len |-> NextCuts(f, text, n)]
    BY <2>2, CutsFromIs DEF len
  <2> HIDE DEF l
  <2> DEFINE g == [n \in l .. len |-> IF n = l THEN NextCuts(f, text, l) ELSE f[n]]
  <2>4. \A n \in m .. len : g[n] = f[n]
    BY <1>1, <2>1
  <2>5. g[l] = NextCuts(f, text, l) /\ l \in l .. len
    BY <1>1, <2>1
  <2>6. g = [n \in l .. len |-> g[n]]
    OBVIOUS
  <2> HIDE DEF g
  <2>7. ASSUME NEW n \in l .. len PROVE NextCuts(g, text, n) = NextCuts(f, text, n)
    <3> DEFINE i == SplitIndex(From(text, n))
    <3>1. n \in 0 .. len
      BY <1>1, <2>1
    <3>2. i \in 0 .. len - n
      BY <1>2, <3>1
    <3> HIDE DEF i
    <3>3. i # 0 => n + i \in m .. len
      BY <1>1, <2>1, <3>1, <3>2
    <3>4. i # 0 => g[n + i] = f[n + i]
      BY <2>4, <3>3
    <3> QED
      BY <3>4 DEF NextCuts, i
  <2>8. \A n \in l .. len : g[n] = NextCuts(g, text, n)
    <3> TAKE n \in l .. len
    <3>1. CASE n = l
      BY <2>5, <2>7, <3>1
    <3>2. CASE n # l
      <4>1. n \in m .. len
        BY <1>1, <2>1, <3>2
      <4> QED
        BY <2>3, <2>4, <2>7, <4>1
    <3> QED
      BY <3>1, <3>2
  <2>9. g = [n \in l .. len |-> NextCuts(g, text, n)]
    BY <2>6, <2>8
  <2>10. CutsFrom(g, text, l)
    BY <2>9, CutsFromIs DEF len
  <2> QED
    BY <2>1, <2>10 DEF l
<1> HIDE DEF S
<1>5. 0 .. len \subseteq S
  <2>1. \A k \in 0 .. len - 1 : k \in S => k + 1 \in S
    BY <1>4
  <2>2. 0 \in Int /\ len \in Int
    BY <1>1
  <2> QED
    BY <1>3, <2>1, <2>2, Upward
<1>6. len \in S /\ len - len = 0
  BY <1>1, <1>5
<1> QED
  BY <1>6 DEF S

\* The cuts of a text that arrives in one piece.
LEMMA CutsAre ==
    ASSUME NEW text \in Seq(STRING)
    PROVE  /\ WholeCuts(text) = CutsOf(text)[0]
           /\ \A n \in 0 .. Len(text) : CutsOf(text)[n] = NextCuts(CutsOf(text), text, n)
<1>1. WholeCuts(text) = CutsOf(text)[0]
  BY Zenon DEF WholeCuts, CutsOf, CutsFrom
<1>2. CutsFrom(CutsOf(text), text, 0)
  BY CutsExist DEF CutsOf
<1> DEFINE f == CutsOf(text)
<1> HIDE DEF f
<1>3. f = [n \in 0 .. Len(text) |-> NextCuts(f, text, n)]
  BY <1>2, CutsFromIs DEF f
<1>4. \A n \in 0 .. Len(text) : f[n] = NextCuts(f, text, n)
  BY <1>3
<1> QED
  BY <1>1, <1>4 DEF f

\* The first part of a text cut off somewhere.
LEMMA FromConcat ==
    ASSUME NEW Y \in Seq(STRING), NEW Z \in Seq(STRING), NEW k \in 0 .. Len(Y)
    PROVE  From(Y \o Z, k) = From(Y, k) \o Z
<1> DEFINE X == Y \o Z
           u == From(X, k)
           v == From(Y, k)
           w == v \o Z
<1>1. Len(Y) \in Nat /\ Len(Z) \in Nat
  BY LenProperties
<1>2. /\ X \in Seq(STRING) /\ Len(X) = Len(Y) + Len(Z)
      /\ \A i \in 1 .. Len(Y) + Len(Z) : X[i] = IF i <= Len(Y) THEN Y[i] ELSE Z[i - Len(Y)]
  BY ConcatProperties
<1> HIDE DEF X
<1>3. k \in 0 .. Len(X)
  BY <1>1, <1>2
<1>4. /\ u \in Seq(STRING) /\ Len(u) = Len(X) - k
      /\ \A i \in 1 .. Len(X) - k : u[i] = X[k + i]
  BY <1>2, <1>3, CutIs
<1>5. /\ v \in Seq(STRING) /\ Len(v) = Len(Y) - k
      /\ \A i \in 1 .. Len(Y) - k : v[i] = Y[k + i]
  BY CutIs
<1> HIDE DEF u, v
<1>6. /\ w \in Seq(STRING) /\ Len(w) = Len(v) + Len(Z)
      /\ \A i \in 1 .. Len(v) + Len(Z) : w[i] = IF i <= Len(v) THEN v[i] ELSE Z[i - Len(v)]
  BY <1>5, ConcatProperties
<1> HIDE DEF w
<1>7. Len(u) = Len(w)
  BY <1>1, <1>2, <1>4, <1>5, <1>6
<1>8. ASSUME NEW i \in 1 .. Len(u) PROVE u[i] = w[i]
  <2>1. /\ i \in 1 .. Len(X) - k /\ k + i \in 1 .. Len(Y) + Len(Z)
        /\ i \in 1 .. Len(v) + Len(Z)
    BY <1>1, <1>2, <1>4, <1>5
  <2>2. u[i] = IF k + i <= Len(Y) THEN Y[k + i] ELSE Z[k + i - Len(Y)]
    BY <1>2, <1>4, <2>1
  <2>3. w[i] = IF i <= Len(v) THEN v[i] ELSE Z[i - Len(v)]
    BY <1>6, <2>1
  <2>4. CASE i <= Len(v)
    <3>1. k + i <= Len(Y) /\ i \in 1 .. Len(Y) - k
      BY <1>1, <1>5, <2>1, <2>4
    <3> QED
      BY <1>5, <2>2, <2>3, <2>4, <3>1
  <2>5. CASE ~(i <= Len(v))
    <3>1. ~(k + i <= Len(Y)) /\ i - Len(v) = k + i - Len(Y)
      BY <1>1, <1>5, <2>1, <2>5
    <3> QED
      BY <2>2, <2>3, <2>5, <3>1
  <2> QED
    BY <2>4, <2>5
<1>9. u = w
  BY <1>4, <1>6, <1>7, <1>8, SeqEqual
<1> QED
  BY <1>9 DEF u, v, w, X

\* What follows the k-th character of what follows the n-th.
LEMMA FromFrom ==
    ASSUME NEW text \in Seq(STRING), NEW n \in 0 .. Len(text), NEW k \in 0 .. Len(text) - n
    PROVE  From(From(text, n), k) = From(text, n + k)
<1> DEFINE t == From(text, n)
           u == From(t, k)
           v == From(text, n + k)
<1>1. Len(text) \in Nat
  BY LenProperties
<1>2. /\ t \in Seq(STRING) /\ Len(t) = Len(text) - n
      /\ \A i \in 1 .. Len(text) - n : t[i] = text[n + i]
  BY CutIs
<1> HIDE DEF t
<1>3. k \in 0 .. Len(t) /\ n + k \in 0 .. Len(text)
  BY <1>1, <1>2
<1>4. /\ u \in Seq(STRING) /\ Len(u) = Len(t) - k
      /\ \A i \in 1 .. Len(t) - k : u[i] = t[k + i]
  BY <1>2, <1>3, CutIs
<1>5. /\ v \in Seq(STRING) /\ Len(v) = Len(text) - (n + k)
      /\ \A i \in 1 .. Len(text) - (n + k) : v[i] = text[(n + k) + i]
  BY <1>3, CutIs
<1> HIDE DEF u, v
<1>6. Len(u) = Len(v)
  BY <1>1, <1>2, <1>4, <1>5
<1>7. ASSUME NEW i \in 1 .. Len(u) PROVE u[i] = v[i]
  <2>1. /\ i \in 1 .. Len(t) - k /\ k + i \in 1 .. Len(text) - n
        /\ i \in 1 .. Len(text) - (n + k) /\ n + (k + i) = (n + k) + i
    BY <1>1, <1>2, <1>4
  <2> QED
    BY <1>2, <1>4, <1>5, <2>1
<1>8. u = v
  BY <1>4, <1>5, <1>6, <1>7, SeqEqual
<1> QED
  BY <1>8 DEF t, u, v

\* Cutting off what SplitIndex finds in the part Y of a text that follows its
\* n-th character makes a cut of the whole text, or one before an end of a
\* sentence that leaves the cuts of the whole text where they are.
LEMMA CutStep ==
    ASSUME NEW text \in Seq(STRING), NEW n \in 0 .. Len(text),
           NEW Y \in Seq(STRING), NEW Z \in Seq(STRING), Y \o Z = From(text, n),
           SplitIndex(Y) # 0
    PROVE  LET f == CutsOf(text)
               m == n + SplitIndex(Y)
           IN  /\ m \in 0 .. Len(text) /\ From(Y, SplitIndex(Y)) \o Z = From(text, m)
               /\ \/ f[n] = {m} \cup f[m]
                  \/ f[n] = f[m] /\ At(text, m + 1) \in SplitChars
<1> DEFINE X == Y \o Z
           k == SplitIndex(Y)
           l == SplitIndex(X)
           f == CutsOf(text)
           m == n + k
<1>1. Len(text) \in Nat /\ Len(Y) \in Nat /\ Len(Z) \in Nat
  BY LenProperties
<1>2. X \in Seq(STRING) /\ Len(X) = Len(Y) + Len(Z)
  BY ConcatProperties
<1>3. /\ X = From(text, n) /\ Len(X) = Len(text) - n
      /\ \A i \in 1 .. Len(text) - n : X[i] = text[n + i]
  BY CutIs
<1>4. k \in 0 .. Len(Y) /\ k # 0
  BY SplitIn
<1>5. /\ k <= l
      /\ l # k => X[k + 1] \in SplitChars /\ SplitIndex(SubSeq(X, k + 1, Len(X))) = l - k
  BY SplitExtends
<1>6. From(X, k) = From(Y, k) \o Z
  BY <1>4, FromConcat
<1> HIDE DEF X
<1>7. l \in 0 .. Len(X)
  BY <1>2, SplitIn
<1>8. l # k => SplitIndex(From(X, k)) = l - k
  BY <1>5 DEF From
<1> HIDE DEF k, l
<1>9. m \in 0 .. Len(text) /\ k \in 0 .. Len(text) - n
  BY <1>1, <1>2, <1>3, <1>4
<1>10. From(X, k) = From(text, m)
  BY <1>3, <1>9, FromFrom
<1> HIDE DEF m
<1>11. f[n] = NextCuts(f, text, n) /\ f[m] = NextCuts(f, text, m)
  BY <1>9, CutsAre
<1> HIDE DEF f
<1>12. l # 0 /\ SplitIndex(From(text, n)) = l
  BY <1>3, <1>4, <1>5, <1>7 DEF l
<1>13. f[n] = {n + l} \cup f[n + l]
  BY <1>11, <1>12 DEF NextCuts
<1>14. CASE l = k
  BY <1>6, <1>9, <1>10, <1>13, <1>14 DEF m, k, f
<1>15. CASE l # k
  <2>1. SplitIndex(From(text, m)) = l - k /\ l - k # 0
    BY <1>4, <1>7, <1>8, <1>10, <1>15
  <2>2. m + (l - k) = n + l
    BY <1>4, <1>7 DEF m
  <2>3. f[m] = {n + l} \cup f[n + l]
    BY <1>11, <2>1, <2>2 DEF NextCuts
  <2>4. k + 1 \in 1 .. Len(text) - n /\ m + 1 \in 1 .. Len(text) /\ n + (k + 1) = m + 1
    BY <1>1, <1>3, <1>4, <1>5, <1>7, <1>15 DEF m
  <2>5. At(text, m + 1) = X[k + 1]
    BY <1>3, <2>4, AtIs
  <2>6. At(text, m + 1) \in SplitChars
    BY <1>5, <1>15, <2>5
  <2>7. f[n] = f[m]
    BY <1>13, <2>3
  <2> QED
    BY <1>6, <1>9, <1>10, <2>6, <2>7 DEF m, k, f
<1> QED
  BY <1>14, <1>15

\* The cuts made so far and those that are still to come are the ones of the
\* whole text, except for some before an end of a sentence.
CutsSoFar(cuts, n, text) ==
    /\ WholeCuts(text) \subseteq cuts \cup CutsOf(text)[n]
    /\ CutsOf(text)[n] \subseteq WholeCuts(text)
    /\ \A cut \in cuts \ WholeCuts(text) : At(text, cut + 1) \in SplitChars

\* The buffer and what is not generated are the rest of the text; when more text
\* is to come there is no end of a sentence in the buffer.
InvCuts ==
    /\ stream.stage \in {"read", "split"} =>
          /\ Behind(stream) \in 0 .. Len(Joined(answer))
          /\ stream.buffer \o Joined(stream.rest) = From(Joined(answer), Behind(stream))
          /\ CutsSoFar(stream.cuts, Behind(stream), Joined(answer))
          /\ stream.stage = "read" => SplitIndex(stream.buffer) = 0
    /\ CutsIgnoreChunks

\* No cut is made before a text is generated.
LEMMA CutsInit == Init => InvCuts
<1> SUFFICES ASSUME Init PROVE InvCuts
  OBVIOUS
<1>1. answer \in Seq(Components)
  BY RepliesAssumption DEF Init
<1>2. CASE answer = << >>
  <2>1. stream = [stage |-> "none", rest |-> << >>, buffer |-> << >>, out |-> << >>, cuts |-> {}]
    BY <1>2 DEF Init, NoStream, NewStream
  <2> QED
    BY <2>1 DEF InvCuts, CutsIgnoreChunks
<1>3. CASE answer # << >>
  <2> DEFINE text == Joined(answer)
             none == << >>
  <2>1. stream = [stage |-> "read", rest |-> answer, buffer |-> none, out |-> << >>, cuts |-> {}]
    BY <1>3 DEF Init, NewStream
  <2>2. stream.stage = "read" /\ stream.rest = answer /\ stream.buffer = none /\ stream.cuts = {}
    BY <2>1
  <2>3. text \in Seq(STRING)
    BY <1>1, JoinedParts
  <2>4. none \in Seq(STRING) /\ Len(none) = 0 /\ none \o text = text
    BY <2>3, EmptySeq, ConcatEmptySeq
  <2> HIDE DEF none
  <2>5. Len(text) \in Nat
    BY <2>3, LenProperties
  <2>6. Behind(stream) = 0
    BY <2>2, <2>4, <2>5 DEF Behind
  <2>7. From(text, 0) = text
    BY <2>3, <2>5, SubSeqFull DEF From
  <2>8. SplitIndex(none) = 0
    <3>1. SplitIndex(none) \in 0 .. Len(none)
      BY <2>4, SplitIn
    <3> QED
      BY <2>4, <3>1
  <2>9. CutsSoFar({}, 0, text)
    BY <2>3, CutsAre DEF CutsSoFar
  <2>10. 0 \in 0 .. Len(text)
    BY <2>5
  <2>11. stream.stage # "done"
    BY <2>2
  <2> HIDE DEF text
  <2> QED
    BY <2>2, <2>4, <2>6, <2>7, <2>8, <2>9, <2>10, <2>11 DEF InvCuts, CutsIgnoreChunks, text
<1> QED
  BY <1>2, <1>3

\* Every step of the stream leaves the cuts where those of the whole text are.
LEMMA CutsNext == InvStream /\ InvCuts /\ [Next]_allVars => InvCuts'
<1> SUFFICES ASSUME InvStream, InvCuts, [Next]_allVars PROVE InvCuts'
  OBVIOUS
<1> DEFINE s == stream
           t == stream'
           text == Joined(answer)
           Z == Joined(s.rest)
           b == Behind(s)
<1>1. /\ answer \in Seq(Components) /\ s \in StreamRecord
      /\ s.rest \in Seq(Components) /\ s.buffer \in Seq(STRING)
  BY DEF InvStream, StreamRecord
<1>2. text \in Seq(STRING) /\ Z \in Seq(STRING)
  BY <1>1, JoinedParts
<1>3. Len(text) \in Nat /\ Len(Z) \in Nat /\ Len(s.buffer) \in Nat
  BY <1>1, <1>2, LenProperties
<1>4. s.stage \in {"read", "split"} =>
          /\ b \in 0 .. Len(text) /\ s.buffer \o Z = From(text, b)
          /\ CutsSoFar(s.cuts, b, text)
          /\ s.stage = "read" => SplitIndex(s.buffer) = 0
  BY DEF InvCuts
<1>5. b = Len(text) - Len(Z) - Len(s.buffer)
  BY DEF Behind
<1>6. CASE UNCHANGED streamVars
  BY <1>6 DEF streamVars, InvCuts, CutsIgnoreChunks, Behind
<1>7. CASE Streams
  <2>1. answer' = answer
    BY <1>7 DEF Streams, ReadsText, PostsMedia, PostsSegment, ReadsOn, PostsRest, Aborts
  <2>2. ASSUME t.stage \in {"read", "split"},
               Len(text) - Len(Joined(t.rest)) - Len(t.buffer) \in 0 .. Len(text),
               t.buffer \o Joined(t.rest)
                   = From(text, Len(text) - Len(Joined(t.rest)) - Len(t.buffer)),
               CutsSoFar(t.cuts, Len(text) - Len(Joined(t.rest)) - Len(t.buffer), text),
               t.stage = "read" => SplitIndex(t.buffer) = 0
        PROVE  InvCuts'
    BY <2>1, <2>2, Zenon DEF InvCuts, CutsIgnoreChunks, Behind
  <2> HIDE DEF Z
  <2>3. CASE ReadsText
    <3> DEFINE h == Head(s.rest)
               new == h.text
               r == Tail(s.rest)
               y == Joined(r)
               x == s.buffer \o new
               g == IF \E i \in DOMAIN x : x[i] \in SplitChars THEN "split" ELSE "read"
    <3>1. s.stage = "read" /\ s.rest # << >> /\ t = [s EXCEPT !.rest = r, !.buffer = x, !.stage = g]
      BY <2>3, Zenon DEF ReadsText
    <3>2. h \in Components /\ r \in Seq(Components) /\ Z = new \o y
      BY <1>1, <3>1, Generated DEF Z
    <3>3. new \in Seq(STRING) /\ y \in Seq(STRING)
      <4> HIDE DEF h, r
      <4> QED
        BY <3>2, OneJoined, JoinedParts
    <3>4. x \in Seq(STRING) /\ Len(x) = Len(s.buffer) + Len(new)
      BY <1>1, <3>3, ConcatProperties
    <3>5. g = "read" => SplitIndex(x) = 0
      <4>1. g = "read" => ~ \E i \in DOMAIN x : x[i] \in SplitChars
        OBVIOUS
      <4> HIDE DEF g, x
      <4> QED
        BY <3>4, <4>1, SplitHasEnd
    <3>6. g \in {"read", "split"}
      OBVIOUS
    <3>7. t.rest = r /\ t.buffer = x /\ t.stage = g /\ t.cuts = s.cuts
      <4> HIDE DEF r, x, g
      <4> QED
        BY <1>1, <3>1 DEF StreamRecord
    <3>8. Len(Z) = Len(new) + Len(y) /\ Len(new) \in Nat /\ Len(y) \in Nat
      BY <3>2, <3>3, ConcatProperties, LenProperties
    <3>9. x \o y = s.buffer \o Z
      <4> DEFINE a == s.buffer
      <4>1. a \in Seq(STRING) /\ new \in Seq(STRING) /\ y \in Seq(STRING)
        BY <1>1, <3>3
      <4> HIDE DEF a, new, y
      <4>2. (a \o new) \o y = a \o (new \o y)
        BY <4>1, ConcatAssociative
      <4> QED
        BY <3>2, <4>2 DEF a
    <3> HIDE DEF h, new, r, x, g
    <3>10. Len(text) - Len(y) - Len(x) = b
      BY <1>3, <1>5, <3>4, <3>8
    <3>11. Joined(t.rest) = y
      BY <3>7
    <3> HIDE DEF y
    <3> QED
      BY <1>4, <2>2, <3>1, <3>5, <3>6, <3>7, <3>9, <3>10, <3>11
  <2>4. CASE PostsMedia
    <3> DEFINE h == Head(s.rest)
               r == Tail(s.rest)
               y == Joined(r)
    <3>1. s.stage = "read" /\ s.rest # << >> /\ h.kind \in MediaKinds
          /\ t = [s EXCEPT !.rest = r, !.out = Append(@, h)]
      BY <2>4 DEF PostsMedia
    <3>2. h \in Components /\ r \in Seq(Components) /\ Z = h.text \o y
      BY <1>1, <3>1, Generated DEF Z
    <3>3. h.text = << >> /\ y \in Seq(STRING)
      <4> HIDE DEF h, r
      <4> QED
        BY <3>1, <3>2, OneJoined, JoinedParts
    <3>4. Z = y
      <4> HIDE DEF y
      <4> QED
        BY <3>2, <3>3, ConcatEmptySeq
    <3>5. t.rest = r /\ t.buffer = s.buffer /\ t.stage = "read" /\ t.cuts = s.cuts
      <4> HIDE DEF r, h
      <4> QED
        BY <1>1, <3>1 DEF StreamRecord
    <3> HIDE DEF h, r
    <3>6. Joined(t.rest) = Z
      BY <3>4, <3>5
    <3> QED
      BY <1>4, <1>5, <2>2, <3>1, <3>5, <3>6
  <2>5. CASE PostsSegment
    <3> DEFINE k == SplitIndex(s.buffer)
               y == From(s.buffer, k)
               o == Append(s.out, Text(Strip(SubSeq(s.buffer, 1, k))))
               m == b + k
               q == s.cuts \cup {m}
    <3>1. s.stage = "split" /\ k > 0 /\ t = [s EXCEPT !.out = o, !.cuts = q, !.buffer = y]
      BY <2>5, Zenon DEF PostsSegment, From
    <3>2. t.rest = s.rest /\ t.buffer = y /\ t.stage = "split" /\ t.cuts = q
      <4> HIDE DEF o, q, y, k
      <4> QED
        BY <1>1, <3>1 DEF StreamRecord
    <3>3. k \in 0 .. Len(s.buffer) /\ k # 0
      BY <1>1, <3>1, SplitIn
    <3>4. b \in 0 .. Len(text) /\ s.buffer \o Z = From(text, b) /\ CutsSoFar(s.cuts, b, text)
      BY <1>4, <3>1
    <3> DEFINE f == CutsOf(text)
    <3>5. /\ m \in 0 .. Len(text) /\ y \o Z = From(text, m)
          /\ \/ f[b] = {m} \cup f[m]
             \/ f[b] = f[m] /\ At(text, m + 1) \in SplitChars
      <4> DEFINE u == s.buffer
      <4>1. u \in Seq(STRING) /\ SplitIndex(u) # 0 /\ b \in 0 .. Len(text)
            /\ u \o Z = From(text, b)
        BY <1>1, <3>3, <3>4
      <4> HIDE DEF u, text, b
      <4>2. LET m1 == b + SplitIndex(u)
            IN  /\ m1 \in 0 .. Len(text) /\ From(u, SplitIndex(u)) \o Z = From(text, m1)
                /\ \/ CutsOf(text)[b] = {m1} \cup CutsOf(text)[m1]
                   \/ CutsOf(text)[b] = CutsOf(text)[m1] /\ At(text, m1 + 1) \in SplitChars
        BY <1>2, <4>1, CutStep
      <4> QED
        BY <4>2 DEF u
    <3>6. Len(y) = Len(s.buffer) - k
      <4>1. k \in 0 .. Len(s.buffer)
        BY <3>3
      <4> QED
        BY <1>1, <4>1, CutIs
    <3>7. Joined(t.rest) = Z
      BY <3>2 DEF Z
    <3> HIDE DEF k, y, o
    <3>8. Len(text) - Len(Z) - Len(y) = m
      BY <1>3, <1>5, <3>3, <3>4, <3>6
    <3> HIDE DEF b, text, m, f
    <3>9. CutsSoFar(q, m, text)
      <4> DEFINE whole == WholeCuts(text)
      <4>1. /\ whole \subseteq s.cuts \cup f[b] /\ f[b] \subseteq whole
            /\ \A cut \in s.cuts \ whole : At(text, cut + 1) \in SplitChars
        BY <3>4 DEF CutsSoFar, f
      <4> HIDE DEF whole
      <4>2. /\ whole \subseteq q \cup f[m] /\ f[m] \subseteq whole
            /\ \A cut \in q \ whole : At(text, cut + 1) \in SplitChars
        <5>1. CASE f[b] = {m} \cup f[m]
          BY <4>1, <5>1
        <5>2. CASE f[b] = f[m] /\ At(text, m + 1) \in SplitChars
          BY <4>1, <5>2
        <5> QED
          BY <3>5, <5>1, <5>2
      <4> QED
        BY <4>2 DEF CutsSoFar, f, whole
    <3> HIDE DEF q
    <3>10. "split" # "read" /\ t.stage \in {"read", "split"}
      BY <3>2
    <3> QED
      BY <2>2, <3>2, <3>5, <3>7, <3>8, <3>9, <3>10
  <2>6. CASE ReadsOn
    <3>1. s.stage = "split" /\ SplitIndex(s.buffer) = 0 /\ t = [s EXCEPT !.stage = "read"]
      BY <2>6 DEF ReadsOn
    <3>2. t.rest = s.rest /\ t.buffer = s.buffer /\ t.stage = "read" /\ t.cuts = s.cuts
      BY <1>1, <3>1 DEF StreamRecord
    <3>3. Joined(t.rest) = Z
      BY <3>2 DEF Z
    <3> QED
      BY <1>4, <1>5, <2>2, <3>1, <3>2, <3>3
  <2>7. CASE PostsRest
    <3> DEFINE o == IF Strip(s.buffer) = << >> THEN s.out
                    ELSE Append(s.out, Text(Strip(s.buffer)))
               f == CutsOf(text)
               none == << >>
    <3>1. s.stage = "read" /\ s.rest = none
          /\ t = [s EXCEPT !.stage = "done", !.buffer = none, !.out = o]
      BY <2>7 DEF PostsRest
    <3>2. t.stage = "done" /\ t.cuts = s.cuts
      <4> HIDE DEF o, none
      <4> QED
        BY <1>1, <3>1 DEF StreamRecord
    <3>3. b \in 0 .. Len(text) /\ s.buffer \o Z = From(text, b) /\ CutsSoFar(s.cuts, b, text)
          /\ SplitIndex(s.buffer) = 0
      BY <1>4, <3>1
    <3>4. Z = none
      BY <3>1, NoneJoined DEF Z
    <3>5. SplitIndex(From(text, b)) = 0
      <4>1. s.buffer \o none = s.buffer
        BY <1>1, ConcatEmptySeq
      <4> HIDE DEF none, text, b
      <4> QED
        BY <3>3, <3>4, <4>1
    <3> HIDE DEF o, none, b
    <3>6. f[b] = {}
      <4>1. f[b] = NextCuts(f, text, b)
        BY <1>2, <3>3, CutsAre
      <4> QED
        BY <3>5, <4>1 DEF NextCuts
    <3> HIDE DEF text
    <3>7. /\ WholeCuts(text) \subseteq s.cuts
          /\ \A cut \in s.cuts \ WholeCuts(text) : At(text, cut + 1) \in SplitChars
      BY <3>3, <3>6 DEF CutsSoFar
    <3>8. CutsIgnoreChunks'
      BY <2>1, <3>2, <3>7 DEF CutsIgnoreChunks, text
    <3>9. t.stage \notin {"read", "split"}
      BY <3>2
    <3> QED
      BY <3>8, <3>9 DEF InvCuts
  <2>8. CASE Aborts
    <3>1. t = [s EXCEPT !.stage = "aborted"]
      BY <2>8 DEF Aborts
    <3>2. t.stage = "aborted"
      BY <1>1, <3>1 DEF StreamRecord
    <3>3. t.stage \notin {"read", "split", "done"}
      BY <3>2
    <3> QED
      BY <3>3 DEF InvCuts, CutsIgnoreChunks
  <2> QED
    BY <1>7, <2>3, <2>4, <2>5, <2>6, <2>7, <2>8 DEF Streams
<1> QED
  BY <1>6, <1>7 DEF Next, allVars, streamVars

\* CutsIgnoreChunks, for every answer and every way to generate it piece by piece:
\* _find_safe_streaming_split_index, called on a buffer that is not all of the text,
\* cuts where it would cut the whole text, runs of ends of sentences aside.
THEOREM CutsAnyway == Spec => []CutsIgnoreChunks
<1>1. InvCuts => CutsIgnoreChunks
  BY DEF InvCuts
<1>2. Init => InvStream /\ InvCuts
  BY StreamInit, CutsInit
<1>3. (InvStream /\ InvCuts) /\ [Next]_allVars => (InvStream /\ InvCuts)'
  BY StreamNext, CutsNext
<1> QED
  BY <1>1, <1>2, <1>3, PTL DEF Spec

=============================================================================
