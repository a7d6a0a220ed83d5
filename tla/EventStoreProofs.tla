-------------------------- MODULE EventStoreProofs --------------------------
(***************************************************************************)
(* Proofs about EventStore, for any number of events and any interleaving  *)
(* of their transactions, conflicts and failures: the types, the           *)
(* consistency of the database and, for payloads that keep to              *)
(* PlatformAssumption, that no row mixes two people and that replies and   *)
(* commands go to the same chat.                                           *)
(***************************************************************************)
EXTENDS EventStore, FiniteSetTheorems, TLAPS

(***************************************************************************)
(* The inductive invariant.  The predicates on rows take the payloads p    *)
(* and the settings u as parameters, which no step changes.                *)
(***************************************************************************)

\* The row of an event for a table.
Asks(p, u, e, table) == RowOf(e, Parse(p[e], u), table)

Has(rows, row) == \E r \in rows : SameRow(r, row)

Covers(new, old) == \A r \in old : Has(new, r)

RowOK(p, u, r) ==
    /\ r.table \in Tables /\ r.by # {}
    /\ \A e \in r.by :
          /\ e \in Events /\ SameRow(r, Asks(p, u, e, r.table))
          /\ Writes(Parse(p[e], u), r.table)

\* What a row refers to is there.
RefersTo(rows, table, ref) ==
    /\ table = "scene" /\ ref # None =>
          \E s \in rows : s.table = "identity" /\ s.key = << ref >>
    /\ table = "channel" => \E s \in rows : s.table = "guild" /\ s.key = << ref >>

\* A database that is consistent, written by the events of a set.
Good(p, u, rows, writers) ==
    /\ \A r, s \in rows : SameRow(r, s) => r = s
    /\ \A r \in rows :
          RowOK(p, u, r) /\ RefersTo(rows, r.table, r.ref) /\ r.by \subseteq writers

\* The types, and who has the lock.
InvTypes ==
    /\ use \in [group : BOOLEAN, channel : BOOLEAN]
    /\ stage \in [Events -> Stages]
    /\ todo \in [Events -> SUBSET Tables]
    /\ DOMAIN found = Events
    /\ writer \in {e \in Events : stage[e] \in Underway} \cup {NoEvent}
    /\ writer = NoEvent => view = {}

\* How far an event is: the log comes last, and whoever is about to commit
\* has written it.
Stepping(p, u, e, stg, left, seen, holder) ==
    /\ stg \in {"commit", "logged"} => left = {}
    /\ stg = "commit" => holder = e
    /\ stg \in {"look", "write"} => "log" \in left /\ left \subseteq Plan(Parse(p[e], u))
    /\ stg = "look" => First(left) # "log"
    /\ seen # {} => stg = "write" /\ First(left) # "log"

InvSteps ==
    \A e \in Events : Stepping(payload, use, e, stage[e], todo[e], found[e], writer)

\* The committed database, and the one that the transaction sees.
InvData ==
    /\ Good(payload, use, db, Logged)
    /\ writer # NoEvent =>
          Good(payload, use, view, Logged \cup {writer}) /\ Covers(view, db)

\* What an event has written or found is there for it.
Sees(p, u, e, stg, left, seen, rows) ==
    /\ stg \in Underway \cup {"logged"} =>
          \A table \in Plan(Parse(p[e], u)) \ left : Has(rows, Asks(p, u, e, table))
    /\ \A r \in seen :
          RowOK(p, u, r) /\ SameRow(r, Asks(p, u, e, First(left))) /\ Has(rows, r)
    /\ \A r, s \in seen : r = s

InvSeen ==
    \A e \in Events : Sees(payload, use, e, stage[e], todo[e], found[e], Visible(e))

StoreInv == InvTypes /\ InvSteps /\ InvData /\ InvSeen

-----------------------------------------------------------------------------
(* Rows and tables.                                                         *)

\* First takes a table that is left, after those it refers to and the log last.
LEMMA FirstFacts ==
    ASSUME NEW S \in SUBSET Tables, S # {}
    PROVE  /\ First(S) \in S
           /\ First(S) = "scene" => "identity" \notin S
           /\ First(S) = "channel" => "guild" \notin S
           /\ First(S) = "log" => S = {"log"}
  BY DEF First, Tables

\* The parts of the rows that refer to one another.
LEMMA RowFacts ==
    ASSUME NEW e, NEW m, NEW table \in Tables
    PROVE  /\ RowOf(e, m, table).table = table
           /\ RowOf(e, m, table).by = {e}
           /\ table = "identity" => RowOf(e, m, table).key = << UnionOf(m) >>
           /\ table = "scene" => RowOf(e, m, table).ref = UnionOf(m)
           /\ table = "guild" => RowOf(e, m, table).key = << m.guild >>
           /\ table = "channel" => RowOf(e, m, table).ref = m.guild
  BY DEF RowOf, IdentityRow, SceneRow, GuildRow, ChannelRow, LogRow, Row, Tables

\* An event that writes a row writes what the row refers to.
LEMMA PlanFacts ==
    ASSUME NEW m
    PROVE  /\ Plan(m) \subseteq Tables /\ "log" \in Plan(m)
           /\ "scene" \in Plan(m) /\ UnionOf(m) # None => "identity" \in Plan(m)
           /\ "channel" \in Plan(m) => "guild" \in Plan(m) /\ m.guild # None
  BY DEF Plan, Writes, Tables

\* Rows that are covered stay.
LEMMA HasMono ==
    ASSUME NEW new, NEW old, Covers(new, old), NEW row, Has(old, row)
    PROVE  Has(new, row)
  BY DEF Covers, Has, SameRow

\* A database covers itself.
LEMMA CoversSelf == ASSUME NEW rows PROVE Covers(rows, rows)
  BY DEF Covers, Has, SameRow

\* More writers allow the same rows.
LEMMA GoodMono ==
    ASSUME NEW p, NEW u, NEW rows, NEW S, NEW T, Good(p, u, rows, S), S \subseteq T
    PROVE  Good(p, u, rows, T)
  BY DEF Good

\* Once an event has written the tables before, the row it writes next
\* refers to a row that is there.
LEMMA RefIsThere ==
    ASSUME NEW p, NEW u, NEW e, NEW rows,
           NEW left \in SUBSET Plan(Parse(p[e], u)), left # {},
           \A table \in Plan(Parse(p[e], u)) \ left : Has(rows, Asks(p, u, e, table))
    PROVE  RefersTo(rows, First(left), Asks(p, u, e, First(left)).ref)
<1> DEFINE m == Parse(p[e], u)
           t == First(left)
<1>1. /\ left \subseteq Tables /\ t \in left /\ t \in Plan(m) /\ t \in Tables
      /\ t = "scene" => "identity" \notin left
      /\ t = "channel" => "guild" \notin left
  BY FirstFacts, PlanFacts
<1>2. CASE t = "scene" /\ UnionOf(m) # None
  <2>1. "identity" \in Plan(m) \ left
    BY <1>1, <1>2, PlanFacts
  <2>2. Has(rows, Asks(p, u, e, "identity"))
    BY <2>1
  <2>3. /\ Asks(p, u, e, "identity").table = "identity"
        /\ Asks(p, u, e, "identity").key = << UnionOf(m) >>
        /\ Asks(p, u, e, "scene").ref = UnionOf(m)
    BY RowFacts DEF Asks, Tables
  <2> QED
    BY <2>2, <2>3, <1>2 DEF Has, SameRow, RefersTo
<1>3. CASE t = "channel"
  <2>1. "guild" \in Plan(m) \ left
    BY <1>1, <1>3, PlanFacts
  <2>2. Has(rows, Asks(p, u, e, "guild"))
    BY <2>1
  <2>3. /\ Asks(p, u, e, "guild").table = "guild"
        /\ Asks(p, u, e, "guild").key = << m.guild >>
        /\ Asks(p, u, e, "channel").ref = m.guild
    BY RowFacts DEF Asks, Tables
  <2> QED
    BY <2>2, <2>3, <1>3 DEF Has, SameRow, RefersTo
<1>4. CASE t = "scene" /\ UnionOf(m) = None
  <2>1. Asks(p, u, e, "scene").ref = UnionOf(m)
    BY RowFacts DEF Asks, Tables
  <2> QED
    BY <1>4, <2>1 DEF RefersTo
<1>5. CASE t \notin {"scene", "channel"}
  BY <1>5 DEF RefersTo
<1> QED
  BY <1>2, <1>3, <1>4, <1>5

\* An INSERT keeps a database consistent.
LEMMA InsertGood ==
    ASSUME NEW p, NEW u, NEW rows, NEW writers, Good(p, u, rows, writers),
           NEW e \in Events, e \in writers, NEW table \in Plan(Parse(p[e], u)),
           ~Has(rows, Asks(p, u, e, table)),
           RefersTo(rows, table, Asks(p, u, e, table).ref)
    PROVE  Good(p, u, rows \cup {Asks(p, u, e, table)}, writers)
<1> DEFINE w == Asks(p, u, e, table)
           new == rows \cup {w}
<1>1. w.table = table /\ w.by = {e} /\ table \in Tables /\ Writes(Parse(p[e], u), table)
  BY RowFacts DEF Asks, Plan
<1>2. RowOK(p, u, w) /\ w.by \subseteq writers
  BY <1>1 DEF RowOK, SameRow
<1>3. \A r \in rows : ~SameRow(r, w) /\ ~SameRow(w, r)
  BY DEF Has, SameRow
<1>4. \A t, ref : RefersTo(rows, t, ref) => RefersTo(new, t, ref)
  BY DEF RefersTo
<1>5. \A r, s \in new : SameRow(r, s) => r = s
  BY <1>3 DEF Good
<1>6. \A r \in new : RowOK(p, u, r) /\ r.by \subseteq writers
  BY <1>2 DEF Good
<1>7. \A r \in new : RefersTo(new, r.table, r.ref)
  BY <1>4, <1>1 DEF Good
<1> QED
  BY <1>5, <1>6, <1>7 DEF Good

\* An UPDATE keeps a database consistent, whatever was read before.
LEMMA UpdateGood ==
    ASSUME NEW p, NEW u, NEW rows, NEW writers, Good(p, u, rows, writers),
           NEW e \in Events, e \in writers, NEW table \in Plan(Parse(p[e], u)), NEW read,
           RefersTo(rows, table, Asks(p, u, e, table).ref)
    PROVE  LET w == Asks(p, u, e, table)
               new == {IF SameRow(r, w) THEN Updated(r, read, w) ELSE r : r \in rows}
           IN  Good(p, u, new, writers) /\ Covers(new, rows)
<1> DEFINE w == Asks(p, u, e, table)
           After(r) == IF SameRow(r, w) THEN Updated(r, read, w) ELSE r
           new == {After(r) : r \in rows}
<1>1. w.table = table /\ w.by = {e} /\ table \in Tables /\ Writes(Parse(p[e], u), table)
  BY RowFacts DEF Asks, Plan
<1>2. ASSUME NEW r \in rows
      PROVE  /\ After(r).table = r.table /\ After(r).key = r.key
             /\ After(r).by = r.by \/ (After(r).by = r.by \cup {e} /\ SameRow(r, w))
             /\ After(r).ref = r.ref \/ (After(r).ref = w.ref /\ r.table = table)
  BY <1>1 DEF Updated, SameRow
<1> HIDE DEF After, w
<1>3. Covers(new, rows)
  BY <1>2 DEF Covers, Has, SameRow
<1>4. \A t, ref : RefersTo(rows, t, ref) => RefersTo(new, t, ref)
  BY <1>2 DEF RefersTo
<1>5. \A r, s \in new : SameRow(r, s) => r = s
  BY <1>2 DEF Good, SameRow
<1>6. ASSUME NEW r \in rows
      PROVE  RowOK(p, u, After(r)) /\ After(r).by \subseteq writers
  <2>1. RowOK(p, u, r) /\ r.by \subseteq writers
    BY DEF Good
  <2>2. After(r).table \in Tables /\ After(r).by # {} /\ After(r).by \subseteq writers
    BY <2>1, <1>2 DEF RowOK
  <2>3. ASSUME NEW f \in After(r).by
        PROVE  /\ f \in Events /\ SameRow(After(r), Asks(p, u, f, After(r).table))
               /\ Writes(Parse(p[f], u), After(r).table)
    <3>1. CASE f \in r.by
      BY <3>1, <2>1, <1>2 DEF RowOK, SameRow
    <3>2. CASE f \notin r.by
      <4>1. f = e /\ SameRow(r, w)
        BY <3>2, <1>2
      <4> QED
        BY <4>1, <1>1, <1>2 DEF SameRow, w
    <3> QED
      BY <3>1, <3>2
  <2> QED
    BY <2>2, <2>3 DEF RowOK
<1>7. ASSUME NEW r \in rows
      PROVE  RefersTo(new, After(r).table, After(r).ref)
  <2>1. RefersTo(rows, r.table, r.ref)
    BY DEF Good
  <2>2. RefersTo(rows, table, w.ref)
    BY DEF w
  <2> QED
    BY <2>1, <2>2, <1>2, <1>4
<1>8. Good(p, u, new, writers)
  BY <1>5, <1>6, <1>7 DEF Good
<1> QED
  BY <1>3, <1>8 DEF After, w

-----------------------------------------------------------------------------
(* The steps.                                                               *)

\* The model's rows in the terms of the invariant.
LEMMA WantedIs ==
    \A e, table : Wanted(e, table) = Asks(payload, use, e, table)
  BY DEF Wanted, Parsed, Asks

\* The initial state.
LEMMA StoreInit == Init => StoreInv
<1> SUFFICES ASSUME Init PROVE StoreInv
  OBVIOUS
<1>1. InvTypes
  BY DEF Init, InvTypes, Stages
<1>2. InvSteps
  BY DEF Init, InvSteps, Stepping
<1>3. InvData
  BY DEF Init, InvData, Good
<1>4. InvSeen
  BY DEF Init, InvSeen, Sees, Underway
<1> QED
  BY <1>1, <1>2, <1>3, <1>4 DEF StoreInv

\* The database that an event sees is consistent, and may be added to.
LEMMA VisibleGood ==
    ASSUME StoreInv, NEW e \in Events, writer \in {NoEvent, e}
    PROVE  Good(payload, use, Visible(e), Logged \cup {e}) /\ Covers(Visible(e), db)
<1>1. CASE writer = e
  BY <1>1, StoreAssumption DEF StoreInv, InvData, Visible
<1>2. CASE writer # e
  BY <1>2, GoodMono, CoversSelf DEF StoreInv, InvData, Visible
<1> QED
  BY <1>1, <1>2

\* What the next upsert of an event refers to is there.
LEMMA NextRefers ==
    ASSUME StoreInv, NEW e \in Events, stage[e] = "write"
    PROVE  /\ First(todo[e]) \in todo[e]
           /\ First(todo[e]) \in Plan(Parse(payload[e], use))
           /\ First(todo[e]) = "log" => todo[e] = {"log"}
           /\ RefersTo(Visible(e), First(todo[e]), Asks(payload, use, e, First(todo[e])).ref)
<1> DEFINE plan == Plan(Parse(payload[e], use))
<1>1. todo[e] # {} /\ todo[e] \in SUBSET plan /\ todo[e] \in SUBSET Tables
  BY DEF StoreInv, InvSteps, Stepping, InvTypes
<1>2. \A table \in plan \ todo[e] : Has(Visible(e), Asks(payload, use, e, table))
  BY DEF StoreInv, InvSeen, Sees, Underway
<1>3. RefersTo(Visible(e), First(todo[e]), Asks(payload, use, e, First(todo[e])).ref)
  BY <1>1, <1>2, RefIsThere
<1> QED
  BY <1>1, <1>3, FirstFacts

\* After an upsert of an event its steps are in order; only the log, which is
\* always inserted, leads to the commit.
LEMMA AdvanceSteps ==
    ASSUME StoreInv, NEW e \in Events, stage[e] = "write", Advance(e),
           UNCHANGED << use, payload >>, writer' \in {writer, e},
           writer \in {NoEvent, e} \/ writer' = writer,
           First(todo[e]) = "log" => writer' = e
    PROVE  /\ InvSteps' /\ stage'[e] \in {"look", "write", "commit"}
           /\ stage' \in [Events -> Stages] /\ todo' \in [Events -> SUBSET Tables]
           /\ DOMAIN found' = Events /\ Logged' = Logged
<1> DEFINE left == todo[e] \ {First(todo[e])}
<1>1. /\ stage' = [stage EXCEPT ![e] = Turn(left)]
      /\ todo' = [todo EXCEPT ![e] = left]
      /\ found' = [found EXCEPT ![e] = {}]
  BY DEF Advance
<1>2. /\ todo[e] \in SUBSET Tables /\ "log" \in todo[e]
      /\ todo[e] \subseteq Plan(Parse(payload[e], use))
      /\ First(todo[e]) \in todo[e]
      /\ First(todo[e]) = "log" => todo[e] = {"log"}
  BY FirstFacts DEF StoreInv, InvTypes, InvSteps, Stepping
<1>3. /\ left = {} => First(todo[e]) = "log" /\ Turn(left) = "commit"
      /\ left # {} => "log" \in left /\ Turn(left) \in {"look", "write"}
      /\ Turn(left) = "look" => First(left) # "log"
      /\ Turn(left) \in Stages
  BY <1>2 DEF Turn, Stages
<1>4. stage'[e] = Turn(left) /\ todo'[e] = left /\ found'[e] = {}
  BY <1>1 DEF StoreInv, InvTypes
<1>5. ASSUME NEW f \in Events
      PROVE  Stepping(payload, use, f, stage'[f], todo'[f], found'[f], writer')
  <2>1. CASE f = e
    BY <2>1, <1>2, <1>3, <1>4 DEF Stepping
  <2>2. CASE f # e
    <3>1. /\ stage'[f] = stage[f] /\ todo'[f] = todo[f] /\ found'[f] = found[f]
          /\ Stepping(payload, use, f, stage[f], todo[f], found[f], writer)
      BY <2>2, <1>1 DEF StoreInv, InvTypes, InvSteps
    <3>2. writer = f => writer' = f
      BY <2>2, StoreAssumption
    <3> QED
      BY <3>1, <3>2 DEF Stepping
  <2> QED
    BY <2>1, <2>2
<1>6. InvSteps'
  BY <1>5 DEF InvSteps
<1>7. stage' \in [Events -> Stages] /\ todo' \in [Events -> SUBSET Tables]
  BY <1>1, <1>2, <1>3 DEF StoreInv, InvTypes
<1>8. DOMAIN found' = Events
  BY <1>1 DEF StoreInv, InvTypes
<1>9. Logged' = Logged
  BY <1>1, <1>3, <1>4 DEF Logged, StoreInv, InvTypes
<1> QED
  BY <1>3, <1>4, <1>6, <1>7, <1>8, <1>9

\* A change of the transaction's database that is consistent, keeps what is
\* there and holds the row of the upsert.
LEMMA ChangesKeep ==
    ASSUME StoreInv, NEW e \in Events, stage[e] = "write", NEW rows, Changes(e, rows),
           Good(payload, use, rows, Logged \cup {e}), Covers(rows, Visible(e)),
           Has(rows, Asks(payload, use, e, First(todo[e])))
    PROVE  StoreInv'
<1> USE DEF Changes
<1>1. /\ writer \in {NoEvent, e} /\ writer' = e /\ view' = rows /\ Advance(e)
      /\ use' = use /\ payload' = payload /\ db' = db
  OBVIOUS
<1>2. /\ InvSteps' /\ stage'[e] \in Underway /\ Logged' = Logged
      /\ stage' \in [Events -> Stages] /\ todo' \in [Events -> SUBSET Tables]
      /\ DOMAIN found' = Events
  BY <1>1, AdvanceSteps DEF Underway
<1>3. InvTypes'
  BY <1>1, <1>2, StoreAssumption DEF StoreInv, InvTypes
<1>4. InvData'
  <2>1. Covers(rows, db)
    BY <1>1, VisibleGood, HasMono DEF Covers
  <2> QED
    BY <2>1, <1>1, <1>2 DEF StoreInv, InvData
<1>5. ASSUME NEW f \in Events
      PROVE  Sees(payload, use, f, stage'[f], todo'[f], found'[f], Visible(f)')
  <2>1. CASE f = e
    <3>1. Visible(f)' = rows
      BY <2>1, <1>1 DEF Visible
    <3>2. todo'[e] = todo[e] \ {First(todo[e])} /\ found'[e] = {}
      BY <1>1 DEF Advance, StoreInv, InvTypes
    <3>3. \A table \in Plan(Parse(payload[e], use)) \ todo[e] :
             Has(rows, Asks(payload, use, e, table))
      BY HasMono DEF StoreInv, InvSeen, Sees, Underway
    <3> QED
      BY <2>1, <3>1, <3>2, <3>3 DEF Sees
  <2>2. CASE f # e
    <3>1. stage'[f] = stage[f] /\ todo'[f] = todo[f] /\ found'[f] = found[f]
      BY <2>2, <1>1 DEF Advance, StoreInv, InvTypes
    <3>2. Visible(f)' = Visible(f)
      BY <2>2, <1>1, StoreAssumption DEF Visible
    <3> QED
      BY <3>1, <3>2 DEF StoreInv, InvSeen
  <2> QED
    BY <2>1, <2>2
<1>6. InvSeen'
  BY <1>1, <1>5 DEF InvSeen
<1> QED
  BY <1>2, <1>3, <1>4, <1>6 DEF StoreInv


\* A step of an event that leaves the database and the lock alone.
LEMMA LocalKeep ==
    ASSUME StoreInv, NEW e \in Events, UNCHANGED << use, payload, writer, view, db >>,
           stage' \in [Events -> Stages], todo' \in [Events -> SUBSET Tables],
           DOMAIN found' = Events, Logged' = Logged,
           stage[e] \in Underway => stage'[e] \in Underway,
           \A f \in Events \ {e} :
              stage'[f] = stage[f] /\ todo'[f] = todo[f] /\ found'[f] = found[f],
           Stepping(payload, use, e, stage'[e], todo'[e], found'[e], writer),
           Sees(payload, use, e, stage'[e], todo'[e], found'[e], Visible(e))
    PROVE  StoreInv'
<1>1. InvTypes'
  BY DEF StoreInv, InvTypes
<1>2. InvSteps'
  <2>1. ASSUME NEW f \in Events
        PROVE  Stepping(payload, use, f, stage'[f], todo'[f], found'[f], writer)
    BY DEF StoreInv, InvSteps
  <2> QED
    BY <2>1 DEF InvSteps
<1>3. InvData'
  BY DEF StoreInv, InvData
<1>4. InvSeen'
  <2>1. ASSUME NEW f \in Events
        PROVE  Sees(payload, use, f, stage'[f], todo'[f], found'[f], Visible(f))
    BY DEF StoreInv, InvSeen
  <2>2. \A f : Visible(f)' = Visible(f)
    BY DEF Visible
  <2> QED
    BY <2>1, <2>2 DEF InvSeen
<1> QED
  BY <1>1, <1>2, <1>3, <1>4 DEF StoreInv

\* An event arrives: it has everything still to write, or is ignored.
LEMMA ArrivesKeep == ASSUME StoreInv, NEW e \in Events, Arrives(e) PROVE StoreInv'
<1> DEFINE plan == Plan(Parse(payload[e], use))
<1>1. /\ stage[e] = "new" /\ found' = found /\ found[e] = {}
      /\ UNCHANGED << use, payload, writer, view, db >>
  BY DEF Arrives, StoreInv, InvSteps, Stepping
<1>2. plan \in SUBSET Tables /\ "log" \in plan
  BY PlanFacts
<1>3. /\ Turn(plan) \in {"look", "write"}
      /\ Turn(plan) = "look" => First(plan) # "log"
  BY <1>2 DEF Turn
<1>4. CASE Accepted(Parsed(e))
  <2>1. /\ stage' = [stage EXCEPT ![e] = Turn(plan)]
        /\ todo' = [todo EXCEPT ![e] = plan]
    BY <1>4 DEF Arrives, Parsed
  <2>2. stage'[e] = Turn(plan) /\ todo'[e] = plan /\ found'[e] = {}
    BY <1>1, <2>1 DEF StoreInv, InvTypes
  <2>3. stage' \in [Events -> Stages] /\ todo' \in [Events -> SUBSET Tables]
    BY <2>1, <1>2, <1>3 DEF StoreInv, InvTypes, Stages
  <2>4. Logged' = Logged
    BY <2>1, <1>1, <1>3, <2>2 DEF Logged, StoreInv, InvTypes
  <2>5. \A f \in Events \ {e} :
           stage'[f] = stage[f] /\ todo'[f] = todo[f] /\ found'[f] = found[f]
    BY <2>1, <1>1 DEF StoreInv, InvTypes
  <2>6. Stepping(payload, use, e, stage'[e], todo'[e], found'[e], writer)
    BY <1>2, <1>3, <2>2 DEF Stepping
  <2>7. Sees(payload, use, e, stage'[e], todo'[e], found'[e], Visible(e))
    BY <2>2 DEF Sees
  <2>8. stage[e] \notin Underway /\ DOMAIN found' = Events
    BY <1>1 DEF Underway, StoreInv, InvTypes
  <2> QED
    BY <1>1, <2>3, <2>4, <2>5, <2>6, <2>7, <2>8, LocalKeep
<1>5. CASE ~Accepted(Parsed(e))
  <2>1. stage' = [stage EXCEPT ![e] = "ignored"] /\ todo' = todo
    BY <1>5 DEF Arrives
  <2>2. stage'[e] = "ignored" /\ found'[e] = {}
    BY <1>1, <2>1 DEF StoreInv, InvTypes
  <2>3. stage' \in [Events -> Stages] /\ todo' \in [Events -> SUBSET Tables]
    BY <2>1 DEF StoreInv, InvTypes, Stages
  <2>4. Logged' = Logged
    BY <2>1, <1>1, <2>2 DEF Logged, StoreInv, InvTypes
  <2>5. \A f \in Events \ {e} :
           stage'[f] = stage[f] /\ todo'[f] = todo[f] /\ found'[f] = found[f]
    BY <2>1, <1>1 DEF StoreInv, InvTypes
  <2>6. Stepping(payload, use, e, stage'[e], todo'[e], found'[e], writer)
    BY <2>2 DEF Stepping
  <2>7. Sees(payload, use, e, stage'[e], todo'[e], found'[e], Visible(e))
    BY <2>2 DEF Sees, Underway
  <2>8. stage[e] \notin Underway /\ DOMAIN found' = Events
    BY <1>1 DEF Underway, StoreInv, InvTypes
  <2> QED
    BY <1>1, <2>3, <2>4, <2>5, <2>6, <2>7, <2>8, LocalKeep
<1> QED
  BY <1>4, <1>5

\* A SELECT finds the row of the upsert, if it is there, and only that.
LEMMA LookKeeps == ASSUME StoreInv, NEW e \in Events, Look(e) PROVE StoreInv'
<1> DEFINE w == Asks(payload, use, e, First(todo[e]))
           hits == Existing(Visible(e), w)
<1>1. /\ stage[e] = "look" /\ UNCHANGED << use, payload, todo, writer, view, db >>
      /\ stage' = [stage EXCEPT ![e] = "write"]
      /\ found' = [found EXCEPT ![e] = hits]
  BY WantedIs DEF Look
<1>2. stage'[e] = "write" /\ found'[e] = hits /\ todo'[e] = todo[e]
  BY <1>1 DEF StoreInv, InvTypes
<1>3. /\ stage' \in [Events -> Stages] /\ todo' \in [Events -> SUBSET Tables]
      /\ DOMAIN found' = Events
  BY <1>1 DEF StoreInv, InvTypes, Stages
<1>4. Logged' = Logged
  BY <1>1, <1>2 DEF Logged, StoreInv, InvTypes
<1>5. \A f \in Events \ {e} :
         stage'[f] = stage[f] /\ todo'[f] = todo[f] /\ found'[f] = found[f]
  BY <1>1 DEF StoreInv, InvTypes
<1>6. Stepping(payload, use, e, stage'[e], todo'[e], found'[e], writer)
  BY <1>1, <1>2 DEF StoreInv, InvSteps, Stepping
<1>7. Sees(payload, use, e, stage'[e], todo'[e], found'[e], Visible(e))
  <2>1. \/ Good(payload, use, Visible(e), Logged)
        \/ Good(payload, use, Visible(e), Logged \cup {writer})
    BY StoreAssumption DEF StoreInv, InvData, Visible
  <2>2. \A r \in Visible(e) : RowOK(payload, use, r)
    BY <2>1 DEF Good
  <2>3. \A r, s \in Visible(e) : SameRow(r, s) => r = s
    BY <2>1 DEF Good
  <2>4. \A r \in hits : r \in Visible(e) /\ SameRow(r, w) /\ Has(Visible(e), r)
    BY DEF Existing, Has, SameRow
  <2>5. \A r, s \in hits : r = s
    BY <2>3, <2>4 DEF SameRow
  <2>6. Sees(payload, use, e, stage[e], todo[e], found[e], Visible(e))
    BY DEF StoreInv, InvSeen
  <2> QED
    BY <1>1, <1>2, <2>2, <2>4, <2>5, <2>6 DEF Sees, Underway
<1>8. stage'[e] \in Underway
  BY <1>2 DEF Underway
<1> QED
  BY <1>1, <1>3, <1>4, <1>5, <1>6, <1>7, <1>8, LocalKeep

\* An INSERT.
LEMMA InsertKeeps == ASSUME StoreInv, NEW e \in Events, Insert(e) PROVE StoreInv'
<1> DEFINE t == First(todo[e])
           w == Asks(payload, use, e, t)
           rows == Visible(e) \cup {w}
<1>1. /\ stage[e] = "write" /\ Existing(Visible(e), w) = {} /\ Changes(e, rows)
      /\ writer \in {NoEvent, e}
  BY WantedIs DEF Insert, Changes
<1>2. ~Has(Visible(e), w)
  BY <1>1 DEF Existing, Has
<1>3. Good(payload, use, Visible(e), Logged \cup {e})
  BY <1>1, VisibleGood
<1>4. t \in Plan(Parse(payload[e], use)) /\ RefersTo(Visible(e), t, w.ref)
  BY <1>1, NextRefers
<1>5. Good(payload, use, rows, Logged \cup {e})
  BY <1>2, <1>3, <1>4, InsertGood
<1>6. Covers(rows, Visible(e)) /\ Has(rows, w)
  BY DEF Covers, Has, SameRow
<1> QED
  BY <1>1, <1>5, <1>6, ChangesKeep

\* An UPDATE.
LEMMA UpdateKeeps == ASSUME StoreInv, NEW e \in Events, Update(e) PROVE StoreInv'
<1> DEFINE t == First(todo[e])
           w == Asks(payload, use, e, t)
           Rows(read) == {IF SameRow(r, w) THEN Updated(r, read, w) ELSE r : r \in Visible(e)}
<1>1. PICK read \in found[e] : Changes(e, Rows(read))
  BY WantedIs DEF Update
<1>2. stage[e] = "write" /\ writer \in {NoEvent, e}
  BY <1>1 DEF Update, Changes
<1>3. Good(payload, use, Visible(e), Logged \cup {e})
  BY <1>2, VisibleGood
<1>4. t \in Plan(Parse(payload[e], use)) /\ RefersTo(Visible(e), t, w.ref)
  BY <1>2, NextRefers
<1>5. Good(payload, use, Rows(read), Logged \cup {e}) /\ Covers(Rows(read), Visible(e))
  BY <1>3, <1>4, UpdateGood
<1>6. Has(Visible(e), w)
  BY DEF StoreInv, InvSeen, Sees, Has, SameRow
<1>7. Has(Rows(read), w)
  BY <1>5, <1>6, HasMono
<1> QED
  BY <1>1, <1>2, <1>5, <1>7, ChangesKeep


\* An UPDATE that has nothing to change.
LEMMA UnchangedKeeps == ASSUME StoreInv, NEW e \in Events, Unchanged(e) PROVE StoreInv'
<1> DEFINE t == First(todo[e])
<1>1. /\ stage[e] = "write" /\ Advance(e) /\ found[e] # {}
      /\ UNCHANGED << use, payload, writer, view, db >>
  BY DEF Unchanged
<1>2. t # "log" /\ Has(Visible(e), Asks(payload, use, e, t))
  BY <1>1 DEF StoreInv, InvSteps, Stepping, InvSeen, Sees, Has, SameRow
<1>3. /\ InvSteps' /\ stage'[e] \in Underway /\ Logged' = Logged
      /\ stage' \in [Events -> Stages] /\ todo' \in [Events -> SUBSET Tables]
      /\ DOMAIN found' = Events
  BY <1>1, <1>2, AdvanceSteps DEF Underway, StoreInv, InvTypes
<1>4. todo'[e] = todo[e] \ {t} /\ found'[e] = {}
  BY <1>1 DEF Advance, StoreInv, InvTypes
<1>5. \A f \in Events \ {e} :
         stage'[f] = stage[f] /\ todo'[f] = todo[f] /\ found'[f] = found[f]
  BY <1>1 DEF Advance, StoreInv, InvTypes
<1>6. Sees(payload, use, e, stage'[e], todo'[e], found'[e], Visible(e))
  BY <1>1, <1>2, <1>4 DEF StoreInv, InvSeen, Sees, Underway
<1>7. Stepping(payload, use, e, stage'[e], todo'[e], found'[e], writer)
  BY <1>1, <1>3 DEF InvSteps
<1> QED
  BY <1>1, <1>3, <1>5, <1>6, <1>7, LocalKeep

\* The COMMIT: what the transaction sees becomes the database, with the event
\* in the log; the others still see what they have seen before.
LEMMA CommitKeeps == ASSUME StoreInv, NEW e \in Events, Commit(e) PROVE StoreInv'
<1>1. /\ stage[e] = "commit" /\ db' = view /\ writer' = NoEvent /\ view' = {}
      /\ use' = use /\ payload' = payload
      /\ stage' = [stage EXCEPT ![e] = "logged"] /\ todo' = [todo EXCEPT ![e] = {}]
      /\ found' = [found EXCEPT ![e] = {}]
  BY DEF Commit, Unlock, Ends
<1>2. writer = e /\ todo[e] = {} /\ e # NoEvent
  BY <1>1, StoreAssumption DEF StoreInv, InvSteps, Stepping
<1>3. stage'[e] = "logged" /\ todo'[e] = {} /\ found'[e] = {}
  BY <1>1 DEF StoreInv, InvTypes
<1>4. \A f \in Events \ {e} :
         stage'[f] = stage[f] /\ todo'[f] = todo[f] /\ found'[f] = found[f]
  BY <1>1 DEF StoreInv, InvTypes
<1>5. InvTypes'
  BY <1>1 DEF StoreInv, InvTypes, Stages
<1>6. InvSteps'
  <2>1. ASSUME NEW f \in Events
        PROVE  Stepping(payload, use, f, stage'[f], todo'[f], found'[f], writer')
    <3>1. CASE f = e
      BY <3>1, <1>3 DEF Stepping
    <3>2. CASE f # e
      BY <3>2, <1>2, <1>4 DEF StoreInv, InvSteps, Stepping
    <3> QED
      BY <3>1, <3>2
  <2> QED
    BY <2>1, <1>1 DEF InvSteps
<1>7. Logged' = Logged \cup {e}
  BY <1>3, <1>4 DEF Logged
<1>8. Covers(view, db) /\ Good(payload, use, view, Logged \cup {e})
  BY <1>2 DEF StoreInv, InvData
<1>9. InvData'
  BY <1>1, <1>7, <1>8 DEF InvData
<1>10. InvSeen'
  <2>1. ASSUME NEW f \in Events
        PROVE  Sees(payload, use, f, stage'[f], todo'[f], found'[f], view)
    <3>1. CASE f = e
      BY <3>1, <1>1, <1>2, <1>3 DEF StoreInv, InvSeen, Sees, Visible, Underway
    <3>2. CASE f # e
      <4>1. Sees(payload, use, f, stage[f], todo[f], found[f], db)
        BY <3>2, <1>2 DEF StoreInv, InvSeen, Visible
      <4> QED
        BY <4>1, <3>2, <1>4, <1>8, HasMono DEF Sees
    <3> QED
      BY <3>1, <3>2
  <2>2. \A f \in Events : Visible(f)' = view
    BY <1>1, StoreAssumption DEF Visible
  <2> QED
    BY <2>1, <2>2, <1>1 DEF InvSeen
<1> QED
  BY <1>5, <1>6, <1>9, <1>10 DEF StoreInv

\* A ROLLBACK: the database is as it was, and nothing of the event is left.
LEMMA RollBackKeeps ==
    ASSUME StoreInv, NEW e \in Events, stage[e] \in Underway, RollBack(e)
    PROVE  StoreInv'
<1>1. /\ use' = use /\ payload' = payload /\ db' = db
      /\ stage' = [stage EXCEPT ![e] = "dropped"] /\ todo' = [todo EXCEPT ![e] = {}]
      /\ found' = [found EXCEPT ![e] = {}]
  BY DEF RollBack, Ends
<1>2. \/ writer = e /\ writer' = NoEvent /\ view' = {}
      \/ writer # e /\ writer' = writer /\ view' = view
  BY DEF RollBack, Unlock
<1>3. stage'[e] = "dropped" /\ todo'[e] = {} /\ found'[e] = {}
  BY <1>1 DEF StoreInv, InvTypes
<1>4. \A f \in Events \ {e} :
         stage'[f] = stage[f] /\ todo'[f] = todo[f] /\ found'[f] = found[f]
  BY <1>1 DEF StoreInv, InvTypes
<1>5. InvTypes'
  <2>1. /\ stage' \in [Events -> Stages] /\ todo' \in [Events -> SUBSET Tables]
        /\ DOMAIN found' = Events
    BY <1>1 DEF StoreInv, InvTypes, Stages
  <2>2. writer' \in {f \in Events : stage'[f] \in Underway} \cup {NoEvent}
    BY <1>2, <1>4 DEF StoreInv, InvTypes
  <2>3. writer' = NoEvent => view' = {}
    BY <1>2 DEF StoreInv, InvTypes
  <2> QED
    BY <2>1, <2>2, <2>3, <1>1 DEF StoreInv, InvTypes
<1>6. InvSteps'
  <2>1. ASSUME NEW f \in Events
        PROVE  Stepping(payload, use, f, stage'[f], todo'[f], found'[f], writer')
    <3>1. CASE f = e
      BY <3>1, <1>3 DEF Stepping
    <3>2. CASE f # e
      BY <3>2, <1>2, <1>4 DEF StoreInv, InvSteps, Stepping
    <3> QED
      BY <3>1, <3>2
  <2> QED
    BY <2>1, <1>1 DEF InvSteps
<1>7. Logged' = Logged
  BY <1>3, <1>4 DEF Logged, Underway
<1>8. InvData'
  BY <1>1, <1>2, <1>7 DEF StoreInv, InvData
<1>9. InvSeen'
  <2>1. ASSUME NEW f \in Events
        PROVE  Sees(payload, use, f, stage'[f], todo'[f], found'[f], Visible(f)')
    <3>1. CASE f = e
      BY <3>1, <1>3 DEF Sees, Underway
    <3>2. CASE f # e
      <4>1. Visible(f)' = Visible(f)
        BY <3>2, <1>1, <1>2, StoreAssumption DEF Visible
      <4> QED
        BY <4>1, <3>2, <1>4 DEF StoreInv, InvSeen
    <3> QED
      BY <3>1, <3>2
  <2> QED
    BY <2>1, <1>1 DEF InvSeen
<1> QED
  BY <1>5, <1>6, <1>8, <1>9 DEF StoreInv

\* Every step of the specification keeps the invariant.
LEMMA StoreStep == StoreInv /\ [StoreNext]_storeVars => StoreInv'
<1> SUFFICES ASSUME StoreInv, [StoreNext]_storeVars PROVE StoreInv'
  OBVIOUS
<1>1. CASE UNCHANGED storeVars
  BY <1>1 DEF storeVars, StoreInv, InvTypes, InvSteps, InvData, InvSeen, Logged, Visible
<1>2. ASSUME NEW e \in Events, Records(e) PROVE StoreInv'
  <2>1. CASE Arrives(e)
    BY <2>1, ArrivesKeep
  <2>2. CASE Look(e)
    BY <2>2, LookKeeps
  <2>3. CASE Insert(e)
    BY <2>3, InsertKeeps
  <2>4. CASE Conflict(e)
    BY <2>4, RollBackKeeps DEF Conflict, Underway
  <2>5. CASE Update(e)
    BY <2>5, UpdateKeeps
  <2>6. CASE Unchanged(e)
    BY <2>6, UnchangedKeeps
  <2>7. CASE Commit(e)
    BY <2>7, CommitKeeps
  <2> QED
    BY <1>2, <2>1, <2>2, <2>3, <2>4, <2>5, <2>6, <2>7 DEF Records
<1>3. ASSUME NEW e \in Events, Fails(e) PROVE StoreInv'
  BY <1>3, RollBackKeeps DEF Fails
<1> QED
  BY <1>1, <1>2, <1>3 DEF StoreNext, Done

-----------------------------------------------------------------------------

\* EventStore.StoreInv holds in every state of the specification.
THEOREM StoreInvHolds == StoreSpec => []StoreInv
  BY StoreInit, StoreStep, PTL DEF StoreSpec

\* Types of record_event: rows that the events named in them ask for, one
\* transaction at a time with a database of its own, which it holds whenever
\* it is about to commit.
THEOREM StoreTypesCorrect == StoreSpec => []TypeOK
<1>1. StoreInv => TypeOK
  <2> SUFFICES ASSUME StoreInv PROVE TypeOK
    OBVIOUS
  <2>1. ASSUME NEW e \in Events PROVE Cardinality(found[e]) <= 1
    <3>1. \A r, s \in found[e] : r = s
      BY DEF StoreInv, InvSeen, Sees
    <3>2. CASE found[e] = {}
      BY <3>2, FS_EmptySet
    <3>3. CASE found[e] # {}
      <4>1. PICK r : found[e] = {r}
        BY <3>1, <3>3
      <4> QED
        BY <4>1, FS_Singleton
    <3> QED
      BY <3>2, <3>3
  <2>2. ASSUME NEW r \in db \cup view \cup UNION {found[e] : e \in Events}
        PROVE  RowOK(payload, use, r)
    <3>1. CASE r \in db
      BY <3>1 DEF StoreInv, InvData, Good
    <3>2. CASE r \in view
      BY <3>2 DEF StoreInv, InvTypes, InvData, Good
    <3>3. CASE \E e \in Events : r \in found[e]
      BY <3>3 DEF StoreInv, InvSeen, Sees
    <3> QED
      BY <2>2, <3>1, <3>2, <3>3
  <2>3. \A e \in Events : todo[e] \subseteq Tables
    BY DEF StoreInv, InvTypes
  <2>4. \A e \in Events : stage[e] = "commit" => writer = e
    BY DEF StoreInv, InvSteps, Stepping
  <2> QED
    BY <2>1, <2>2, <2>3, <2>4, WantedIs DEF TypeOK, RowOK, StoreInv, InvTypes
<1> QED
  BY <1>1, StoreInvHolds, PTL

\* The database is consistent whatever transactions conflict, fail or are
\* cancelled: no key twice, no dangling reference, nothing of an event that is
\* not in the log and everything of one that is.
THEOREM DatabaseConsistent == StoreSpec => []StoreIsConsistent
<1>1. StoreInv => StoreIsConsistent
  <2> SUFFICES ASSUME StoreInv PROVE StoreIsConsistent
    OBVIOUS
  <2>1. Good(payload, use, db, Logged)
    BY DEF StoreInv, InvData
  <2>2. ASSUME NEW e \in Logged, NEW table \in Tables, Writes(Parsed(e), table)
        PROVE  Existing(db, Wanted(e, table)) # {}
    <3>1. /\ e \in Events /\ stage[e] = "logged" /\ todo[e] = {} /\ writer # e
      BY StoreAssumption DEF Logged, StoreInv, InvSteps, Stepping, InvTypes, Underway
    <3>2. table \in Plan(Parse(payload[e], use)) \ todo[e]
      BY <2>2, <3>1 DEF Plan, Parsed
    <3>3. Has(db, Asks(payload, use, e, table))
      BY <3>1, <3>2 DEF StoreInv, InvSeen, Sees, Visible
    <3> QED
      BY <3>3, WantedIs DEF Has, Existing
  <2> QED
    BY <2>1, <2>2 DEF StoreIsConsistent, Good, RefersTo
<1> QED
  BY <1>1, StoreInvHolds, PTL

-----------------------------------------------------------------------------
(* The parser, as far as the two properties about users and chats need it:  *)
(* they hold of every payload that keeps to PlatformAssumption.             *)

\* What the parser goes on with is the payload, or nothing but its type.
LEMMA EventDataIs ==
    ASSUME NEW p
    PROVE  /\ ~p.inner => EventData(p) = p
           /\ p.inner => LET d == EventData(p)
                         IN  /\ d.t = p.t /\ d.uid = None /\ d.union = None /\ d.op = None
                             /\ d.group = None /\ d.guild = None /\ d.channel = None
           /\ EventData(p).t = p.t
  BY DEF EventData

\* The branch of parse_event for an event that becomes a message.
LEMMA ParseIs ==
    ASSUME NEW p, NEW u
    PROVE  LET d == EventData(p)
               m == Parse(p, u)
               Is(types) == p.t \in types
           IN  \/ m = GroupMessage(d, u) /\ Is({"GROUP_AT_MESSAGE_CREATE", "GROUP_MESSAGE_CREATE"})
               \/ m = ChannelMessage(d, u) /\ Is({"AT_MESSAGE_CREATE", "MESSAGE_CREATE"})
               \/ m = DirectMessage(d, u) /\ Is({"C2C_MESSAGE_CREATE"})
               \/ m = ChannelDirectMessage(d, u) /\ Is({"DIRECT_MESSAGE_CREATE"})
               \/ m = Interaction(d) /\ Is({"INTERACTION_CREATE"})
               \/ m = RobotMoved(d) /\ Is({"GROUP_ADD_ROBOT", "GROUP_DEL_ROBOT"})
               \/ m = FriendChanged(d) /\ Is({"FRIEND_ADD", "FRIEND_DEL"})
               \/ m = Notice(d)
  BY EventDataIs DEF Parse

\* The branch for any other event.
LEMMA NoticeIs ==
    ASSUME NEW d
    PROVE  Notice(d) \in {GroupSetting(d), Reaction(d), Audit(d), GuildChanged(d),
                          ChannelChanged(d), GuildMember(d), Forum(d), Recall(d),
                          Subscription(d), Audio(d), MemberMoved(d), Unknown}
  BY DEF Notice

\* An event is stored under no identifier but those of its user.
LEMMA UserColumns ==
    ASSUME NEW p, NEW u, Documented(p)
    PROVE  LET m == Parse(p, u)
           IN  /\ UnionOf(m) # None => UnionOf(m) \in NamesOf(p)
               /\ m.scene \in {"c2c", "group", "channel", "channel_dm"} /\ RawOf(m) # None
                     => RawOf(m) \in NamesOf(p)
<1> DEFINE d == EventData(p)
           m == Parse(p, u)
<1>1. /\ d.union \in NamesOf(p) \cup {None} /\ d.uid \in NamesOf(p) \cup {None}
      /\ Or(d.uid, d.op) \in NamesOf(p) \cup {None}
      /\ p.t \in {"GROUP_ADD_ROBOT", "GROUP_DEL_ROBOT"} => d.op \in NamesOf(p) \cup {None}
  <2>1. CASE p.inner
    BY <2>1, EventDataIs DEF Or
  <2>2. CASE ~p.inner
    BY <2>2, EventDataIs DEF Or, NamesOf, Documented
  <2> QED
    BY <2>1, <2>2
<1> HIDE DEF d
<1>2. CASE m \in {GroupMessage(d, u), ChannelMessage(d, u), DirectMessage(d, u),
                  ChannelDirectMessage(d, u)}
  BY <1>1, <1>2 DEF GroupMessage, ChannelMessage, DirectMessage, ChannelDirectMessage,
       SwapIds, Users, Message, UnionOf, RawOf, Or
<1>3. CASE m = Interaction(d)
  BY <1>1, <1>3 DEF Interaction, Nobody, Users, Message, UnionOf, RawOf, Or
<1>4. CASE m = RobotMoved(d) /\ p.t \in {"GROUP_ADD_ROBOT", "GROUP_DEL_ROBOT"}
  BY <1>1, <1>4 DEF RobotMoved, Users, Message, UnionOf, RawOf, Or
<1>5. CASE m \in {MemberMoved(d), FriendChanged(d)}
  BY <1>1, <1>5 DEF MemberMoved, FriendChanged, Users, Message, UnionOf, RawOf, Or
<1>6. CASE m \in {GroupSetting(d), Reaction(d), Audit(d), GuildChanged(d)}
  BY <1>1, <1>6 DEF GroupSetting, Reaction, Audit, GuildChanged, Users, Nobody, Message,
       UnionOf, RawOf, Or
<1>7. CASE m \in {ChannelChanged(d), GuildMember(d), Forum(d), Recall(d)}
  BY <1>1, <1>7 DEF ChannelChanged, GuildMember, Forum, Recall, Users, Message, UnionOf, RawOf, Or
<1>8. CASE m \in {Subscription(d), Audio(d), Unknown}
  BY <1>1, <1>8 DEF Subscription, Audio, Unknown, Users, Nobody, Message, UnionOf, RawOf, Or
<1>9. m = Notice(d) => m \in {GroupSetting(d), Reaction(d), Audit(d), GuildChanged(d),
                              ChannelChanged(d), GuildMember(d), Forum(d), Recall(d),
                              Subscription(d), Audio(d), MemberMoved(d), Unknown}
  BY NoticeIs
<1> QED
  BY <1>2, <1>3, <1>4, <1>5, <1>6, <1>7, <1>8, <1>9, ParseIs DEF d

\* A row of a user is kept under an identifier of each event that wrote it.
LEMMA RowNames ==
    ASSUME NEW p, NEW u, NEW e, NEW f, NEW table \in {"identity", "scene"},
           Documented(p[e]), Documented(p[f]),
           Writes(Parse(p[e], u), table), Writes(Parse(p[f], u), table),
           SameRow(Asks(p, u, e, table), Asks(p, u, f, table))
    PROVE  NamesOf(p[e]) \cap NamesOf(p[f]) # {}
<1> DEFINE m == Parse(p[e], u)
           n == Parse(p[f], u)
<1>1. CASE table = "identity"
  <2>1. UnionOf(m) = UnionOf(n)
    BY <1>1 DEF SameRow, Asks, RowOf, IdentityRow, Row
  <2>2. UnionOf(m) # None
    BY <1>1 DEF Writes
  <2> QED
    BY <2>1, <2>2, UserColumns
<1>2. CASE table = "scene"
  <2>1. << m.scene, RawOf(m) >> \o Place(m) = << n.scene, RawOf(n) >> \o Place(n)
    BY <1>2 DEF SameRow, Asks, RowOf, SceneRow, Row
  <2>2. \A x : Place(x) \in {<< x.group >>, << x.guild, x.channel >>, << x.guild >>, << >>}
    BY DEF Place
  <2>3. \A x : Place(x) \in Seq({x.group, x.guild, x.channel})
    <3>1. \A a, b, c : /\ << >> \in Seq({a, b, c}) /\ << a >> \in Seq({a, b, c})
                       /\ << b >> \in Seq({a, b, c}) /\ << b, c >> \in Seq({a, b, c})
      OBVIOUS
    <3> QED
      BY <2>2, <3>1
  <2>4. RawOf(m) = RawOf(n)
    BY <2>1, <2>3
  <2>5. RawOf(m) # None /\ m.scene \in {"c2c", "group", "channel", "channel_dm"}
    BY <1>2 DEF Writes
  <2>6. RawOf(n) # None /\ n.scene \in {"c2c", "group", "channel", "channel_dm"}
    BY <1>2 DEF Writes
  <2> QED
    BY <2>4, <2>5, <2>6, UserColumns
<1> QED
  BY <1>1, <1>2

\* No step changes a payload.
LEMMA PayloadsStay == StoreSpec => [](payload \in PayloadsOf)
<1>1. Init => payload \in PayloadsOf
  BY DEF Init
<1>2. payload \in PayloadsOf /\ [StoreNext]_storeVars => (payload \in PayloadsOf)'
  <2>1. [StoreNext]_storeVars => payload' = payload
    BY DEF StoreNext, Done, storeVars, Records, Arrives, Look, Insert, Conflict, Update,
         Unchanged, Commit, Fails, RollBack, Changes
  <2> QED
    BY <2>1
<1> QED
  BY <1>1, <1>2, PTL DEF StoreSpec

\* Nothing that parse_event makes of any other event becomes a message.
LEMMA NoticesAreNotCommitted == ASSUME NEW d PROVE ~Committed(Notice(d))
<1> DEFINE m == Notice(d)
<1>1. m \in {GroupSetting(d), Reaction(d), Audit(d), GuildChanged(d), ChannelChanged(d),
             GuildMember(d), Forum(d), Recall(d), Subscription(d), Audio(d), MemberMoved(d)}
         => m.type = "other"
  BY DEF GroupSetting, Reaction, Audit, GuildChanged, ChannelChanged, GuildMember, Forum,
       Recall, Subscription, Audio, MemberMoved, Message
<1>2. m = Unknown => ~Accepted(m)
  BY DEF Unknown, Nobody, Users, Message, Accepted, Session, Or
<1> QED
  BY <1>1, <1>2, NoticeIs DEF Committed

\* An event whose data hides its identifiers is dropped.
LEMMA HiddenIsNotCommitted ==
    ASSUME NEW p, NEW u, p.inner PROVE ~Committed(Parse(p, u))
<1> DEFINE d == EventData(p)
           m == Parse(p, u)
<1>1. /\ d.uid = None /\ d.union = None /\ d.op = None
      /\ d.group = None /\ d.guild = None /\ d.channel = None
  BY EventDataIs
<1> HIDE DEF d
<1>2. CASE m \in {GroupMessage(d, u), ChannelMessage(d, u), DirectMessage(d, u),
                  ChannelDirectMessage(d, u)}
  BY <1>1, <1>2 DEF GroupMessage, ChannelMessage, DirectMessage, ChannelDirectMessage,
       SwapIds, Users, Message, Committed, Accepted, Session, Or
<1>3. CASE m = Interaction(d)
  BY <1>1, <1>3 DEF Interaction, Nobody, Users, Message, Committed, Accepted, Session, Or
<1>4. CASE m \in {RobotMoved(d), FriendChanged(d)}
  BY <1>1, <1>4 DEF RobotMoved, FriendChanged, Users, Message, Committed, Accepted, Session, Or
<1> QED
  BY <1>2, <1>3, <1>4, ParseIs, NoticesAreNotCommitted DEF d

\* The two resolvers agree on every message.
LEMMA SameTarget ==
    ASSUME NEW p, NEW u, Documented(p), Committed(Parse(p, u))
    PROVE  ResolveScene(p, Parse(p, u)) = Target(Parse(p, u))
<1> DEFINE m == Parse(p, u)
<1>1. ~p.inner /\ EventData(p) = p /\ Accepted(m) /\ p.t # "INTERACTION_CREATE"
  BY HiddenIsNotCommitted, EventDataIs DEF Committed, Documented
<1>2. CASE m = GroupMessage(p, u) /\ p.t \in {"GROUP_AT_MESSAGE_CREATE", "GROUP_MESSAGE_CREATE"}
  <2>1. p.group # None /\ p.guild = None /\ p.channel = None
    BY <1>2 DEF Documented
  <2> QED
    BY <1>2, <2>1 DEF GroupMessage, Message, ResolveScene, Target
<1>3. CASE m = ChannelMessage(p, u) /\ p.t \in {"AT_MESSAGE_CREATE", "MESSAGE_CREATE"}
  <2>1. p.channel # None
    BY <1>3 DEF Documented
  <2> QED
    BY <1>3, <2>1 DEF ChannelMessage, Message, ResolveScene, Target
<1>4. CASE m = DirectMessage(p, u) /\ p.t \in {"C2C_MESSAGE_CREATE"}
  <2>1. p.guild = None /\ p.channel = None
    BY <1>4 DEF Documented
  <2>2. m.sender # None
    BY <1>1, <1>4 DEF DirectMessage, Message, Accepted, Session, Or
  <2> QED
    BY <1>4, <2>1, <2>2 DEF DirectMessage, Message, ResolveScene, Target
<1>5. CASE m = ChannelDirectMessage(p, u) /\ p.t \in {"DIRECT_MESSAGE_CREATE"}
  <2>1. p.guild # None
    BY <1>5 DEF Documented
  <2> QED
    BY <1>5, <2>1 DEF ChannelDirectMessage, Message, ResolveScene, Target
<1>6. CASE m = RobotMoved(p) /\ p.t \in {"GROUP_ADD_ROBOT", "GROUP_DEL_ROBOT"}
  <2>1. p.group # None /\ p.guild = None /\ p.channel = None
    BY <1>6 DEF Documented
  <2> QED
    BY <1>6, <2>1 DEF RobotMoved, Message, ResolveScene, Target
<1>7. CASE m = FriendChanged(p) /\ p.t \in {"FRIEND_ADD", "FRIEND_DEL"}
  <2>1. p.guild = None /\ p.channel = None
    BY <1>7 DEF Documented
  <2>2. m.sender # None
    BY <1>1, <1>7 DEF FriendChanged, Message, Users, Accepted, Session, Or
  <2> QED
    BY <1>7, <2>1, <2>2 DEF FriendChanged, Message, ResolveScene, Target
<1> QED
  BY <1>1, <1>2, <1>3, <1>4, <1>5, <1>6, <1>7, ParseIs, NoticesAreNotCommitted

\* No row of the database mixes two people, whatever is delivered, in whatever
\* order the transactions run and whichever settings are on.
THEOREM UsersApart == StoreSpec => []UsersAreKeptApart
<1>1. StoreInv /\ payload \in PayloadsOf => UsersAreKeptApart
  <2> SUFFICES ASSUME StoreInv, payload \in PayloadsOf,
                      NEW r \in db, r.table \in {"identity", "scene"},
                      NEW e \in r.by, NEW f \in r.by
               PROVE  payload[e].who = payload[f].who
    BY DEF UsersAreKeptApart
  <2>1. RowOK(payload, use, r)
    BY DEF StoreInv, InvData, Good
  <2>2. /\ e \in Events /\ Writes(Parse(payload[e], use), r.table)
        /\ f \in Events /\ Writes(Parse(payload[f], use), r.table)
    BY <2>1 DEF RowOK
  <2>3. SameRow(Asks(payload, use, e, r.table), Asks(payload, use, f, r.table))
    BY <2>1 DEF RowOK, SameRow
  <2>4. Documented(payload[e]) /\ Documented(payload[f])
    BY <2>2, PlatformAssumption
  <2>5. NamesOf(payload[e]) \cap NamesOf(payload[f]) # {}
    BY <2>2, <2>3, <2>4, RowNames
  <2> QED
    BY <2>2, <2>5, PlatformAssumption
<1> QED
  BY <1>1, StoreInvHolds, PayloadsStay, PTL

\* The commands and the replies of every event that is committed go to the
\* same chat.
THEOREM OneTarget == StoreSpec => []TargetsAgree
<1>1. payload \in PayloadsOf => TargetsAgree
  <2> SUFFICES ASSUME payload \in PayloadsOf, NEW e \in Events, Committed(Parsed(e))
               PROVE  ResolveScene(payload[e], Parsed(e)) = Target(Parsed(e))
    BY DEF TargetsAgree
  <2>1. Documented(payload[e])
    BY PlatformAssumption
  <2> QED
    BY <2>1, SameTarget DEF Parsed
<1> QED
  BY <1>1, PayloadsStay, PTL

=============================================================================
