----------------------------- MODULE EventStore -----------------------------
(***************************************************************************)
(* db/service.py and db/repository.py: record_event writes what an event   *)
(* says about its user, the scene, the guild and the channel, and a line   *)
(* of the log, in one transaction of an SQLite database.  Several events   *)
(* are recorded at the same time, each through a connection of its own.    *)
(*                                                                         *)
(* The database (external): a SELECT before the first change of a          *)
(* transaction sees what is committed; the first INSERT or UPDATE takes    *)
(* the only write lock, which is held until COMMIT or ROLLBACK; an INSERT  *)
(* of a key that exists by then raises IntegrityError.  Foreign keys are   *)
(* not enforced (no PRAGMA foreign_keys).                                  *)
(***************************************************************************)
EXTENDS EventParsing, FiniteSets

CONSTANTS
    Events,         \* what is delivered
    PayloadsOf,     \* the possible assignments of payloads to events
    NoEvent         \* nobody writes

ASSUME StoreAssumption == NoEvent \notin Events

\* The platform (external) sends what it documents, and what names one person
\* in some numbering names nobody else in any.
ASSUME PlatformAssumption ==
    \A delivered \in PayloadsOf : \A e, f \in Events :
        /\ Documented(delivered[e])
        /\ NamesOf(delivered[e]) \cap NamesOf(delivered[f]) # {} =>
              delivered[e].who = delivered[f].who

VARIABLES
    use,            \* use_union_id_for_group and use_union_id_for_channel
    payload,        \* the payload of each event
    stage,          \* where each event is in record_event
    todo,           \* the tables that an event has still to write
    found,          \* the row its last SELECT returned: {} or {row}
    writer,         \* the event whose transaction holds the write lock
    view,           \* the database as that transaction sees it
    db              \* the committed database, a set of rows

storeVars == << use, payload, stage, todo, found, writer, view, db >>

Stages == {"new", "look", "write", "commit", "logged", "dropped", "ignored"}
Underway == {"look", "write", "commit"}

-----------------------------------------------------------------------------
(* What an event writes.                                                    *)

Tables == {"identity", "scene", "guild", "channel", "log"}

Parsed(e) == Parse(payload[e], use)

\* _resolve_user_ids: in a group or a private chat the sender stands in for
\* a missing union id.
UnionOf(m) == IF m.scene \in {"group", "c2c"} THEN Or(m.union, Or(m.sender, m.raw))
                                              ELSE m.union

RawOf(m) == Or(m.raw, Or(m.sender, UnionOf(m)))

\* What tells two users apart in a scene: the unique index of its type.
Place(m) ==
    CASE m.scene = "group" -> << m.group >>
      [] m.scene = "channel" -> << m.guild, m.channel >>
      [] m.scene = "channel_dm" -> << m.guild >>
      [] OTHER -> << >>

\* The conditions of record_event, table by table.
Writes(m, table) ==
    CASE table = "identity" -> UnionOf(m) # None
      [] table = "scene" ->
           /\ m.scene \in {"c2c", "group", "channel", "channel_dm"}
           /\ RawOf(m) # None
           /\ \A i \in DOMAIN Place(m) : Place(m)[i] # None
      [] table = "guild" -> m.guild # None
      [] table = "channel" -> m.guild # None /\ m.channel # None
      [] OTHER -> TRUE      \* the log

Plan(m) == {table \in Tables : Writes(m, table)}

\* The order of the upserts.
First(tables) ==
    IF "identity" \in tables THEN "identity"
    ELSE IF "scene" \in tables THEN "scene"
    ELSE IF "guild" \in tables THEN "guild"
    ELSE IF "channel" \in tables THEN "channel"
    ELSE "log"

Row(table, key, ref, e) == [table |-> table, key |-> key, ref |-> ref, by |-> {e}]

\* The rows that an event would insert, as its upserts build them; ref is the
\* key of the row that the new one refers to.
IdentityRow(e, m) == Row("identity", << UnionOf(m) >>, None, e)
SceneRow(e, m) == Row("scene", << m.scene, RawOf(m) >> \o Place(m), UnionOf(m), e)
GuildRow(e, m) == Row("guild", << m.guild >>, None, e)
ChannelRow(e, m) == Row("channel", << m.channel >>, m.guild, e)
LogRow(e) == Row("log", << e >>, None, e)

RowOf(e, m, table) ==
    CASE table = "identity" -> IdentityRow(e, m)
      [] table = "scene" -> SceneRow(e, m)
      [] table = "guild" -> GuildRow(e, m)
      [] table = "channel" -> ChannelRow(e, m)
      [] OTHER -> LogRow(e)

Wanted(e, table) == RowOf(e, Parsed(e), table)

SameRow(r, s) == r.table = s.table /\ r.key = s.key

Existing(rows, row) == {r \in rows : SameRow(r, row)}

\* _apply_updates: a value of its own that differs from what the SELECT read is
\* written over what is in the row by now; None is not.
Updated(row, read, wanted) ==
    [table |-> row.table, key |-> row.key, by |-> row.by \cup wanted.by,
     ref |-> IF wanted.ref \in {None, read.ref} THEN row.ref ELSE wanted.ref]

-----------------------------------------------------------------------------

Init ==
    /\ use \in [group : BOOLEAN, channel : BOOLEAN]
    /\ payload \in PayloadsOf
    /\ stage = [e \in Events |-> "new"]
    /\ todo = [e \in Events |-> {}]
    /\ found = [e \in Events |-> {}]
    /\ writer = NoEvent
    /\ view = {}
    /\ db = {}

\* The rows that e sees.
Visible(e) == IF writer = e THEN view ELSE db

\* Rows no longer needed are forgotten.
Ends(e, how) ==
    /\ stage' = [stage EXCEPT ![e] = how]
    /\ todo' = [todo EXCEPT ![e] = {}]
    /\ found' = [found EXCEPT ![e] = {}]

Unlock == writer' = NoEvent /\ view' = {}

\* Mutants: each upsert in a transaction of its own; the lock left behind.
CommitsBehind(e) ==
    /\ Ends(e, "dropped")
    /\ IF writer = e THEN db' = view /\ Unlock ELSE UNCHANGED << writer, view, db >>
    /\ UNCHANGED << use, payload >>

LocksBehind(e) ==
    /\ Ends(e, "dropped")
    /\ UNCHANGED << use, payload, writer, view, db >>

\* session.begin() ends in a ROLLBACK; record_event swallows the exception.
RollBack(e) ==
    /\ Ends(e, "dropped")
    /\ IF writer = e THEN Unlock ELSE UNCHANGED << writer, view >>
    /\ UNCHANGED << use, payload, db >>

\* What comes next: the log is written without a SELECT.
Turn(tables) ==
    IF tables = {} THEN "commit" ELSE IF First(tables) = "log" THEN "write" ELSE "look"

\* handle_qq_payload, up to record_event.
Arrives(e) ==
    /\ stage[e] = "new"
    /\ IF Accepted(Parsed(e))
       THEN /\ stage' = [stage EXCEPT ![e] = Turn(Plan(Parsed(e)))]
            /\ todo' = [todo EXCEPT ![e] = Plan(Parsed(e))]
       ELSE /\ stage' = [stage EXCEPT ![e] = "ignored"]
            /\ UNCHANGED todo
    /\ UNCHANGED << use, payload, found, writer, view, db >>

\* The SELECT of the next upsert.
Look(e) ==
    /\ stage[e] = "look"
    /\ stage' = [stage EXCEPT ![e] = "write"]
    /\ found' = [found EXCEPT ![e] = Existing(Visible(e), Wanted(e, First(todo[e])))]
    /\ UNCHANGED << use, payload, todo, writer, view, db >>

Advance(e) ==
    /\ todo' = [todo EXCEPT ![e] = @ \ {First(@)}]
    /\ stage' = [stage EXCEPT ![e] = Turn(todo[e] \ {First(todo[e])})]
    /\ found' = [found EXCEPT ![e] = {}]

\* The transaction of e changes the rows it sees.
Changes(e, rows) ==
    /\ writer \in {NoEvent, e}
    /\ writer' = e
    /\ view' = rows
    /\ Advance(e)
    /\ UNCHANGED << use, payload, db >>

\* The INSERT of a row the SELECT did not find.
Insert(e) ==
    LET wanted == Wanted(e, First(todo[e]))
    IN  /\ stage[e] = "write" /\ found[e] = {}
        /\ Existing(Visible(e), wanted) = {}
        /\ Changes(e, Visible(e) \cup {wanted})

\* Somebody else has inserted the row in the meantime: IntegrityError.
Conflict(e) ==
    /\ stage[e] = "write" /\ found[e] = {}
    /\ writer \in {NoEvent, e}
    /\ Existing(Visible(e), Wanted(e, First(todo[e]))) # {}
    /\ RollBack(e)

\* The UPDATE of the row that was found.
Update(e) ==
    LET wanted == Wanted(e, First(todo[e]))
    IN  /\ stage[e] = "write"
        /\ \E read \in found[e] :
             Changes(e, {IF SameRow(r, wanted) THEN Updated(r, read, wanted) ELSE r :
                            r \in Visible(e)})

\* The row was last seen in the same second and nothing differs: no UPDATE.
Unchanged(e) ==
    /\ stage[e] = "write"
    /\ \E read \in found[e] : Wanted(e, First(todo[e])).ref \in {None, read.ref}
    /\ Advance(e)
    /\ UNCHANGED << use, payload, writer, view, db >>

Commit(e) ==
    /\ stage[e] = "commit"
    /\ db' = view
    /\ Unlock
    /\ Ends(e, "logged")
    /\ UNCHANGED << use, payload >>

\* The lock is not free in time, the disk fails, the task is cancelled.
Fails(e) == stage[e] \in Underway /\ RollBack(e)

Records(e) ==
    Arrives(e) \/ Look(e) \/ Insert(e) \/ Conflict(e) \/ Update(e) \/ Unchanged(e) \/ Commit(e)

Done == (\A e \in Events : stage[e] \in {"logged", "dropped", "ignored"}) /\ UNCHANGED storeVars

StoreNext == Done \/ \E e \in Events : Records(e) \/ Fails(e)

StoreSpec == Init /\ [][StoreNext]_storeVars

\* The database serves each connection in turn.
FairStoreSpec == StoreSpec /\ \A e \in Events : WF_storeVars(Records(e))

-----------------------------------------------------------------------------

Logged == {e \in Events : stage[e] = "logged"}

\* Types; every row is one that the events named in it ask for, and only the
\* holder of the lock has a database of its own.
TypeOK ==
    /\ use \in [group : BOOLEAN, channel : BOOLEAN]
    /\ stage \in [Events -> Stages]
    /\ \A e \in Events : todo[e] \subseteq Tables /\ Cardinality(found[e]) <= 1
    /\ \A r \in db \cup view \cup UNION {found[e] : e \in Events} :
          /\ r.table \in Tables /\ r.by # {}
          /\ \A e \in r.by : e \in Events /\ SameRow(r, Wanted(e, r.table))
    /\ writer \in {e \in Events : stage[e] \in Underway} \cup {NoEvent}
    /\ writer = NoEvent => view = {}
    /\ \A e \in Events : stage[e] = "commit" => writer = e

\* The database after any number of conflicts, failures and cancellations:
\* no key twice, no reference to a row that is not there (SQLite enforces
\* none), nothing of an event that is not in the log, and for an event of the
\* log everything it had to write.
StoreIsConsistent ==
    /\ \A r, s \in db : SameRow(r, s) => r = s
    /\ \A r \in db :
          /\ r.table = "scene" /\ r.ref # None =>
                \E s \in db : s.table = "identity" /\ s.key = << r.ref >>
          /\ r.table = "channel" =>
                \E s \in db : s.table = "guild" /\ s.key = << r.ref >>
          /\ r.by \subseteq Logged
    /\ \A e \in Logged, table \in Tables :
          Writes(Parsed(e), table) => Existing(db, Wanted(e, table)) # {}

\* No row mixes two people: the identity and the scene that an event writes
\* to are never those of an operator, or of somebody whose number in another
\* scene stands in the wrong column.
UsersAreKeptApart ==
    \A r \in db : r.table \in {"identity", "scene"} =>
        \A e, f \in r.by : payload[e].who = payload[f].who

\* The replies of an event and the commands it runs go to the same chat.
TargetsAgree ==
    \A e \in Events : stage[e] # "new" /\ Committed(Parsed(e)) =>
        ResolveScene(payload[e], Parsed(e)) = Target(Parsed(e))

\* Nobody waits for the write lock for ever.
EveryRecordEnds ==
    \A e \in Events : stage[e] \in Underway ~> stage[e] \in {"logged", "dropped"}

\* Documented (docs/qq_restapi_modernization_review.md:574): the click on a
\* button becomes a text message for the bot.
ButtonsReachTheBot ==
    \A e \in Events :
        payload[e].t = "INTERACTION_CREATE" /\ payload[e].chat # "probe" =>
            stage[e] # "ignored"

=============================================================================
