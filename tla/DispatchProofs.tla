--------------------------- MODULE DispatchProofs ---------------------------
(***************************************************************************)
(* Proofs about Dispatch, for any number of events and deliveries and any  *)
(* bounds of the cache: the types, that no message is lost as a duplicate, *)
(* the order of what is committed, and that an event is processed again    *)
(* only after the TTL or when enough other events came in since.           *)
(***************************************************************************)
EXTENDS Dispatch, FiniteSetTheorems, TLAPS

Accepts == [event : Events, at : Nat]

Suspended == {"record", "reply", "lookup", "greet"}

Messages == {"message", "ambient", "anonymous"}

-----------------------------------------------------------------------------
(* The cache.  The predicates take the kinds k as a parameter, which no    *)
(* step changes.                                                           *)

HasKey(k, e) == k[e] # "anonymous"

\* OthersBetween, of any history.
Between(k, acc, i, j) ==
    {acc[x].event : x \in {x \in 1 .. j - 1 :
        /\ x # i /\ acc[x].at >= acc[i].at
        /\ HasKey(k, acc[x].event) /\ acc[x].event # acc[i].event}}

\* The events that came since the i-th accept.
Since(k, acc, i) == Between(k, acc, i, Len(acc) + 1)

\* The cache is a bounded dict.
InvDict(k, sn) ==
    /\ sn \subseteq [key : {e \in Events : HasKey(k, e)}, expires : Nat]
    /\ \A entry, other \in sn : entry.key = other.key => entry = other
    /\ IsFiniteSet(sn)

\* Every entry stems from an accept.
Stems(acc, sn) ==
    \A entry \in sn : \E i \in DOMAIN acc :
        acc[i].event = entry.key /\ acc[i].at + Ttl = entry.expires

\* An accept is remembered, or long ago, or followed by many others.
Kept(k, acc, sn, t, i) ==
    \/ acc[i].at + Ttl <= t
    \/ \E entry \in sn : entry.key = acc[i].event /\ acc[i].at + Ttl <= entry.expires
    \/ Cardinality(Since(k, acc, i)) >= MaxKeys

Remembers(k, acc, sn, t) ==
    \A i \in DOMAIN acc : HasKey(k, acc[i].event) => Kept(k, acc, sn, t, i)

InvCache ==
    /\ kind \in KindsOfEvents /\ now \in Nat
    /\ accepts \in Seq(Accepts)
    /\ \A i \in DOMAIN accepts : accepts[i].at <= now
    /\ InvDict(kind, seen) /\ Cardinality(seen) <= MaxKeys
    /\ Stems(accepts, seen)
    /\ Remembers(kind, accepts, seen, now)
    /\ RepeatOnlyAfterTtlOrOverflow

\* The events between two accepts are finitely many.
LEMMA BetweenFinite ==
    ASSUME NEW k, NEW acc, NEW i, NEW j \in Int
    PROVE  IsFiniteSet(Between(k, acc, i, j))
<1> DEFINE S == {x \in 1 .. j - 1 :
                    /\ x # i /\ acc[x].at >= acc[i].at
                    /\ HasKey(k, acc[x].event) /\ acc[x].event # acc[i].event}
           f == [x \in S |-> acc[x].event]
<1>1. IsFiniteSet(S)
  <2>1. IsFiniteSet(1 .. j - 1)
    BY FS_Interval
  <2> QED
    BY <2>1, FS_Subset
<1>2. f \in Surjection(S, Between(k, acc, i, j))
  BY DEF Surjection, Between
<1> QED
  BY <1>1, <1>2, FS_Surjection

\* A later accept leaves the events between two accepts alone ...
LEMMA BetweenKept ==
    ASSUME NEW k, NEW acc \in Seq(Accepts), NEW a \in Accepts,
           NEW i \in 1 .. Len(acc), NEW j \in 1 .. Len(acc) + 1
    PROVE  Between(k, Append(acc, a), i, j) = Between(k, acc, i, j)
<1>1. \A x \in 1 .. Len(acc) : Append(acc, a)[x] = acc[x]
  OBVIOUS
<1>2. \A x \in 1 .. j - 1 : x \in 1 .. Len(acc)
  OBVIOUS
<1> QED
  BY <1>1, <1>2 DEF Between

\* ... and takes nothing from those that came since one.
LEMMA SinceGrows ==
    ASSUME NEW k, NEW acc \in Seq(Accepts), NEW a \in Accepts, NEW i \in 1 .. Len(acc)
    PROVE  /\ Since(k, acc, i) \subseteq Since(k, Append(acc, a), i)
           /\ Cardinality(Since(k, acc, i)) <= Cardinality(Since(k, Append(acc, a), i))
           /\ Cardinality(Since(k, acc, i)) \in Nat
<1> DEFINE new == Append(acc, a)
<1>1. Len(new) = Len(acc) + 1 /\ Len(acc) \in Nat
  OBVIOUS
<1>2. Since(k, acc, i) = Between(k, new, i, Len(acc) + 1)
  BY <1>1, BetweenKept DEF Since
<1>3. Between(k, new, i, Len(acc) + 1) \subseteq Between(k, new, i, Len(acc) + 2)
  BY <1>1 DEF Between
<1>4. Since(k, acc, i) \subseteq Since(k, new, i)
  BY <1>1, <1>2, <1>3 DEF Since
<1>5. IsFiniteSet(Since(k, new, i))
  BY <1>1, BetweenFinite DEF Since
<1>6. /\ IsFiniteSet(Since(k, acc, i))
      /\ Cardinality(Since(k, acc, i)) <= Cardinality(Since(k, new, i))
  BY <1>4, <1>5, FS_Subset
<1> QED
  BY <1>4, <1>6, FS_CardinalityType

\* What is stored: a dict with the key of the event, at most one entry longer.
LEMMA StoredFacts ==
    ASSUME InvCache, NEW e \in Events, Keyed(e)
    PROVE  /\ InvDict(kind, Stored(e)) /\ Cardinality(Stored(e)) <= MaxKeys + 1
           /\ \A entry \in Stored(e) : entry \in seen \/ entry = [key |-> e, expires |-> now + Ttl]
           /\ \A entry \in seen : entry \in Stored(e) \/ entry.key = e
           /\ [key |-> e, expires |-> now + Ttl] \in Stored(e)
<1> DEFINE entry == [key |-> e, expires |-> now + Ttl]
           rest == {r \in seen : r.key # e}
<1>1. Stored(e) = rest \cup {entry}
  BY DEF Stored
<1>2. now \in Nat /\ Ttl \in Nat /\ MaxKeys \in Nat /\ HasKey(kind, e)
  BY DispatchAssumption DEF InvCache, Keyed, HasKey
<1>3. IsFiniteSet(rest) /\ Cardinality(rest) <= Cardinality(seen)
  BY FS_Subset DEF InvCache, InvDict
<1>4. IsFiniteSet(seen) /\ Cardinality(seen) \in Nat /\ Cardinality(rest) \in Nat
  BY <1>3, FS_CardinalityType DEF InvCache, InvDict
<1>5. IsFiniteSet(Stored(e)) /\ Cardinality(Stored(e)) <= MaxKeys + 1
  <2>1. /\ IsFiniteSet(rest \cup {entry})
        /\ \/ Cardinality(rest \cup {entry}) = Cardinality(rest)
           \/ Cardinality(rest \cup {entry}) = Cardinality(rest) + 1
    BY <1>3, FS_AddElement
  <2>2. Cardinality(seen) <= MaxKeys
    BY DEF InvCache
  <2> QED
    BY <1>1, <1>2, <1>3, <1>4, <2>1, <2>2
<1>6. Stored(e) \subseteq [key : {f \in Events : HasKey(kind, f)}, expires : Nat]
  BY <1>1, <1>2 DEF InvCache, InvDict
<1>7. \A r, s \in Stored(e) : r.key = s.key => r = s
  BY <1>1 DEF InvCache, InvDict
<1> QED
  BY <1>1, <1>5, <1>6, <1>7 DEF InvDict

\* What is left after the cleaning: all that is fresh, or all but one that
\* expires first when there are more than MaxKeys of them.
LEMMA CleanedFacts ==
    ASSUME NEW entries, NEW new \in Cleaned(entries),
           NEW fresh, fresh = {entry \in entries : entry.expires > now}
    PROVE  \/ new = fresh /\ Cardinality(fresh) <= MaxKeys
           \/ /\ ~(Cardinality(fresh) <= MaxKeys)
              /\ \E first \in fresh :
                    /\ new = fresh \ {first}
                    /\ \A entry \in fresh : first.expires <= entry.expires
<1>1. CASE Cardinality(fresh) <= MaxKeys
  BY <1>1 DEF Cleaned
<1>2. CASE ~(Cardinality(fresh) <= MaxKeys)
  BY <1>2 DEF Cleaned, Oldest
<1> QED
  BY <1>1, <1>2

\* The entries that stay when the first is evicted are events that came since.
LEMMA EvictedIsOverrun ==
    ASSUME NEW k, NEW acc \in Seq(Accepts), NEW entries, InvDict(k, entries),
           Stems(acc, entries), Cardinality(entries) > MaxKeys,
           NEW first \in entries, \A entry \in entries : first.expires <= entry.expires,
           NEW i \in DOMAIN acc, acc[i].event = first.key,
           acc[i].at + Ttl <= first.expires
    PROVE  Cardinality(Since(k, acc, i)) >= MaxKeys
<1> DEFINE rest == entries \ {first}
           f == [entry \in rest |-> entry.key]
<1>1. MaxKeys \in Nat /\ Ttl \in Nat
  BY DispatchAssumption
<1>2. IsFiniteSet(rest) /\ Cardinality(rest) \in Nat /\ Cardinality(rest) >= MaxKeys
  <2>1. IsFiniteSet(rest) /\ Cardinality(rest) = Cardinality(entries) - 1
    BY FS_RemoveElement DEF InvDict
  <2>2. Cardinality(rest) \in Nat /\ Cardinality(entries) \in Nat
    BY <2>1, FS_CardinalityType DEF InvDict
  <2> QED
    BY <1>1, <2>1, <2>2
<1>3. ASSUME NEW entry \in rest PROVE entry.key \in Since(k, acc, i)
  <2>1. PICK x \in DOMAIN acc : acc[x].event = entry.key /\ acc[x].at + Ttl = entry.expires
    BY DEF Stems
  <2>2. entry.key # first.key /\ HasKey(k, entry.key)
    BY DEF InvDict
  <2>3. acc[x] \in Accepts /\ acc[i] \in Accepts /\ x \in 1 .. Len(acc) /\ Len(acc) \in Nat
    OBVIOUS
  <2>4. entry.expires \in Nat /\ first.expires \in Nat /\ first.expires <= entry.expires
    BY DEF InvDict
  <2>5. acc[x].at >= acc[i].at
    BY <1>1, <2>1, <2>3, <2>4 DEF Accepts
  <2>6. x \in 1 .. (Len(acc) + 1) - 1
    BY <2>3
  <2> QED
    BY <2>1, <2>2, <2>5, <2>6 DEF Since, Between
<1>4. f \in Injection(rest, Since(k, acc, i))
  BY <1>3 DEF Injection, IsInjective, InvDict
<1>5. IsFiniteSet(Since(k, acc, i))
  BY BetweenFinite DEF Since
<1>6. /\ Cardinality(rest) <= Cardinality(Since(k, acc, i))
      /\ Cardinality(Since(k, acc, i)) \in Nat
  BY <1>4, <1>5, FS_Injection, FS_CardinalityType
<1> QED
  BY <1>1, <1>2, <1>6


\* An event with a key that is no duplicate passes the cache.
LEMMA AcceptKeeps ==
    ASSUME InvCache, NEW e \in Events, Keyed(e), ~IsDuplicate(e),
           seen' \in Cleaned(Stored(e)), accepts' = Append(accepts, [event |-> e, at |-> now]),
           UNCHANGED << kind, now >>
    PROVE  InvCache'
<1> DEFINE a == [event |-> e, at |-> now]
           acc == Append(accepts, a)
           mid == Stored(e)
           own == [key |-> e, expires |-> now + Ttl]
           fresh == {entry \in mid : entry.expires > now}
<1>1. /\ now \in Nat /\ Ttl \in Nat /\ MaxKeys \in Nat /\ a \in Accepts
      /\ accepts \in Seq(Accepts) /\ Len(accepts) \in Nat
      /\ acc \in Seq(Accepts) /\ Len(acc) = Len(accepts) + 1
      /\ DOMAIN accepts = 1 .. Len(accepts) /\ DOMAIN acc = 1 .. Len(acc)
  BY DispatchAssumption DEF InvCache, Accepts
<1>2. acc[Len(acc)] = a /\ \A i \in 1 .. Len(accepts) : acc[i] = accepts[i] /\ acc[i] \in Accepts
  BY <1>1
<1>3. \A i \in DOMAIN acc : acc[i].at <= now
  BY <1>1, <1>2 DEF InvCache
<1>4. \A i \in DOMAIN acc : i = Len(acc) \/ i \in 1 .. Len(accepts)
  BY <1>1
<1>5. Stems(acc, mid)
  <2>1. ASSUME NEW entry \in mid
        PROVE  \E i \in DOMAIN acc : acc[i].event = entry.key /\ acc[i].at + Ttl = entry.expires
    <3>1. CASE entry \in seen
      BY <3>1, <1>1, <1>2 DEF InvCache, Stems
    <3>2. CASE entry = own
      BY <3>2, <1>1, <1>2
    <3> QED
      BY <3>1, <3>2, StoredFacts
  <2> QED
    BY <2>1 DEF Stems
<1>6. ASSUME NEW i \in DOMAIN acc, HasKey(kind, acc[i].event)
      PROVE  Kept(kind, acc, mid, now, i)
  <2>1. CASE i = Len(acc)
    <3>1. own \in mid /\ own.key = acc[i].event /\ acc[i].at + Ttl <= own.expires
      BY <2>1, <1>1, <1>2, StoredFacts
    <3> QED
      BY <3>1 DEF Kept
  <2>2. CASE i \in 1 .. Len(accepts)
    <3>1. Kept(kind, accepts, seen, now, i) /\ acc[i] = accepts[i]
      BY <1>1, <1>2, <1>6, <2>2 DEF InvCache, Remembers
    <3>2. CASE accepts[i].at + Ttl <= now
      BY <3>1, <3>2 DEF Kept
    <3>3. CASE \E entry \in seen :
                  entry.key = accepts[i].event /\ accepts[i].at + Ttl <= entry.expires
      <4>1. PICK entry \in seen :
                  entry.key = accepts[i].event /\ accepts[i].at + Ttl <= entry.expires
        BY <3>3
      <4>2. CASE entry \in mid
        BY <4>1, <4>2, <3>1 DEF Kept
      <4>3. CASE entry.key = e
        <5>1. own \in mid /\ own.key = acc[i].event /\ acc[i].at + Ttl <= own.expires
          <6>1. own \in mid /\ own.key = acc[i].event
            BY <4>1, <4>3, <3>1, StoredFacts
          <6>2. acc[i].at \in Nat /\ acc[i].at <= now
            BY <1>2, <1>3, <2>2 DEF Accepts
          <6> QED
            BY <6>1, <6>2, <1>1
        <5> QED
          BY <5>1 DEF Kept
      <4> QED
        BY <4>1, <4>2, <4>3, StoredFacts
    <3>4. CASE Cardinality(Since(kind, accepts, i)) >= MaxKeys
      <4>1. /\ Cardinality(Since(kind, accepts, i)) <= Cardinality(Since(kind, acc, i))
            /\ Since(kind, accepts, i) \subseteq Since(kind, acc, i)
            /\ Cardinality(Since(kind, accepts, i)) \in Nat
        BY <1>1, <2>2, SinceGrows
      <4>2. Cardinality(Since(kind, acc, i)) \in Nat
        BY <1>1, BetweenFinite, FS_CardinalityType DEF Since
      <4>3. Cardinality(Since(kind, acc, i)) >= MaxKeys
        BY <4>1, <4>2, <3>4, <1>1
      <4> QED
        BY <4>3 DEF Kept
    <3> QED
      BY <3>1, <3>2, <3>3, <3>4 DEF Kept
  <2> QED
    BY <1>4, <2>1, <2>2
<1>7. /\ InvDict(kind, fresh) /\ Stems(acc, fresh)
      /\ Cardinality(fresh) <= MaxKeys + 1 /\ Cardinality(fresh) \in Nat
  <2>1. InvDict(kind, mid) /\ Cardinality(mid) <= MaxKeys + 1
    BY StoredFacts
  <2>2. IsFiniteSet(fresh) /\ Cardinality(fresh) <= Cardinality(mid)
    BY <2>1, FS_Subset DEF InvDict
  <2>3. Cardinality(fresh) \in Nat /\ Cardinality(mid) \in Nat
    BY <2>1, <2>2, FS_CardinalityType DEF InvDict
  <2>4. InvDict(kind, fresh)
    BY <2>1, <2>2 DEF InvDict
  <2> QED
    BY <1>1, <1>5, <2>1, <2>2, <2>3, <2>4 DEF Stems
<1>8. ASSUME NEW i \in DOMAIN acc, HasKey(kind, acc[i].event)
      PROVE  Kept(kind, acc, fresh, now, i)
  <2>1. acc[i].at \in Nat /\ \A entry \in mid : entry.expires \in Nat
    <3>1. acc[i] \in Accepts
      BY <1>1, <1>2, <1>4
    <3>2. mid \subseteq [key : {f \in Events : HasKey(kind, f)}, expires : Nat]
      BY StoredFacts DEF InvDict
    <3> QED
      BY <3>1, <3>2 DEF Accepts
  <2> QED
    BY <1>1, <1>6, <1>8, <2>1 DEF Kept
<1>9. /\ InvDict(kind, seen') /\ Stems(acc, seen') /\ Cardinality(seen') <= MaxKeys
      /\ Remembers(kind, acc, seen', now)
  <2>1. CASE seen' = fresh /\ Cardinality(fresh) <= MaxKeys
    BY <2>1, <1>7, <1>8 DEF Remembers
  <2>2. ASSUME Cardinality(fresh) > MaxKeys, NEW first \in fresh,
               seen' = fresh \ {first}, \A entry \in fresh : first.expires <= entry.expires
        PROVE  /\ InvDict(kind, seen') /\ Stems(acc, seen') /\ Cardinality(seen') <= MaxKeys
               /\ Remembers(kind, acc, seen', now)
    <3>1. IsFiniteSet(seen') /\ Cardinality(seen') = Cardinality(fresh) - 1
      BY <2>2, <1>7, FS_RemoveElement DEF InvDict
    <3>2. Cardinality(seen') <= MaxKeys
      BY <3>1, <1>1, <1>7
    <3>3. InvDict(kind, seen') /\ Stems(acc, seen')
      BY <3>1, <2>2, <1>7 DEF InvDict, Stems
    <3>4. ASSUME NEW i \in DOMAIN acc, HasKey(kind, acc[i].event)
          PROVE  Kept(kind, acc, seen', now, i)
      <4>1. CASE acc[i].event = first.key /\ acc[i].at + Ttl <= first.expires
        <5>1. Cardinality(Since(kind, acc, i)) >= MaxKeys
          BY <4>1, <2>2, <1>1, <1>7, EvictedIsOverrun
        <5> QED
          BY <5>1 DEF Kept
      <4>2. CASE ~(acc[i].event = first.key /\ acc[i].at + Ttl <= first.expires)
        BY <4>2, <2>2, <1>8, <3>4 DEF Kept
      <4> QED
        BY <4>1, <4>2
    <3> QED
      BY <3>2, <3>3, <3>4 DEF Remembers
  <2>3. ~(Cardinality(fresh) <= MaxKeys) => Cardinality(fresh) > MaxKeys
    BY <1>1, <1>7
  <2>4. \/ seen' = fresh /\ Cardinality(fresh) <= MaxKeys
        \/ /\ ~(Cardinality(fresh) <= MaxKeys)
           /\ \E first \in fresh :
                 /\ seen' = fresh \ {first}
                 /\ \A entry \in fresh : first.expires <= entry.expires
    BY CleanedFacts
  <2> QED
    BY <2>1, <2>2, <2>3, <2>4
<1>10. RepeatOnlyAfterTtlOrOverflow'
  <2>1. ASSUME NEW i \in DOMAIN acc, NEW j \in DOMAIN acc, i < j,
               acc[i].event = acc[j].event, HasKey(kind, acc[i].event)
        PROVE  \/ acc[j].at >= acc[i].at + Ttl
               \/ Cardinality(Between(kind, acc, i, j)) >= MaxKeys
    <3>1. i \in 1 .. Len(accepts) /\ j \in 1 .. Len(accepts) + 1
      BY <1>1, <2>1
    <3>2. Between(kind, acc, i, j) = Between(kind, accepts, i, j) /\ acc[i] = accepts[i]
      BY <1>1, <1>2, <3>1, BetweenKept
    <3>3. CASE j \in 1 .. Len(accepts)
      <4>1. \/ accepts[j].at >= accepts[i].at + Ttl
            \/ Cardinality(Between(kind, accepts, i, j)) >= MaxKeys
        BY <1>1, <1>2, <2>1, <3>1, <3>2, <3>3
           DEF InvCache, RepeatOnlyAfterTtlOrOverflow, OthersBetween, Between, Keyed, HasKey
      <4> QED
        BY <4>1, <1>2, <3>2, <3>3
    <3>4. CASE j = Len(accepts) + 1
      <4>1. acc[j] = a /\ accepts[i].event = e
        BY <3>2, <3>4, <1>1, <1>2, <2>1
      <4>2. Kept(kind, accepts, seen, now, i)
        BY <3>1, <3>2, <1>1, <2>1 DEF InvCache, Remembers
      <4>3. Between(kind, acc, i, j) = Since(kind, accepts, i)
        BY <3>2, <3>4 DEF Since
      <4>4. accepts[i].at \in Nat /\ \A entry \in seen : entry.expires \in Nat
        BY <1>2, <3>1 DEF Accepts, InvCache, InvDict
      <4>5. CASE \E entry \in seen :
                    entry.key = accepts[i].event /\ accepts[i].at + Ttl <= entry.expires
        BY <4>1, <4>4, <4>5, <3>2, <1>1 DEF IsDuplicate
      <4> QED
        BY <4>1, <4>2, <4>3, <4>4, <4>5, <3>2, <1>1 DEF Kept
    <3> QED
      BY <1>1, <3>1, <3>3, <3>4
  <2>2. \A i, j : OthersBetween(i, j)' = Between(kind, acc, i, j)
    BY DEF OthersBetween, Between, Keyed, HasKey
  <2>3. \A f : Keyed(f)' <=> HasKey(kind, f)
    BY DEF Keyed, HasKey
  <2> QED
    BY <2>1, <2>2, <2>3 DEF RepeatOnlyAfterTtlOrOverflow
<1> QED
  BY <1>1, <1>3, <1>9, <1>10 DEF InvCache


\* An event without a key passes the cache and leaves it alone.
LEMMA KeylessKeeps ==
    ASSUME InvCache, NEW e \in Events, ~Keyed(e),
           accepts' = Append(accepts, [event |-> e, at |-> now]),
           UNCHANGED << kind, now, seen >>
    PROVE  InvCache'
<1> DEFINE a == [event |-> e, at |-> now]
           acc == Append(accepts, a)
<1>1. /\ now \in Nat /\ Ttl \in Nat /\ MaxKeys \in Nat /\ a \in Accepts
      /\ accepts \in Seq(Accepts) /\ Len(accepts) \in Nat
      /\ acc \in Seq(Accepts) /\ Len(acc) = Len(accepts) + 1
      /\ DOMAIN accepts = 1 .. Len(accepts) /\ DOMAIN acc = 1 .. Len(acc)
  BY DispatchAssumption DEF InvCache, Accepts
<1>2. acc[Len(acc)] = a /\ \A i \in 1 .. Len(accepts) : acc[i] = accepts[i]
  BY <1>1
<1>3. \A i \in DOMAIN acc : i = Len(acc) \/ i \in 1 .. Len(accepts)
  BY <1>1
<1>4. \A i \in DOMAIN acc : acc[i].at <= now
  BY <1>1, <1>2, <1>3 DEF InvCache
<1>5. Stems(acc, seen)
  BY <1>1, <1>2 DEF InvCache, Stems
<1>6. ASSUME NEW i \in DOMAIN acc, HasKey(kind, acc[i].event)
      PROVE  i \in 1 .. Len(accepts) /\ Kept(kind, acc, seen, now, i)
  <2>1. i \in 1 .. Len(accepts)
    BY <1>2, <1>3, <1>6 DEF Keyed, HasKey
  <2>2. Kept(kind, accepts, seen, now, i) /\ acc[i] = accepts[i]
    BY <1>1, <1>2, <1>6, <2>1 DEF InvCache, Remembers
  <2>3. /\ Cardinality(Since(kind, accepts, i)) <= Cardinality(Since(kind, acc, i))
        /\ Cardinality(Since(kind, accepts, i)) \in Nat
    BY <1>1, <2>1, SinceGrows
  <2>4. Cardinality(Since(kind, acc, i)) \in Nat
    BY <1>1, BetweenFinite, FS_CardinalityType DEF Since
  <2>5. Cardinality(Since(kind, accepts, i)) >= MaxKeys =>
           Cardinality(Since(kind, acc, i)) >= MaxKeys
    BY <1>1, <2>3, <2>4
  <2> QED
    BY <2>1, <2>2, <2>5 DEF Kept
<1>7. RepeatOnlyAfterTtlOrOverflow'
  <2>1. ASSUME NEW i \in DOMAIN acc, NEW j \in DOMAIN acc, i < j,
               acc[i].event = acc[j].event, HasKey(kind, acc[i].event)
        PROVE  \/ acc[j].at >= acc[i].at + Ttl
               \/ Cardinality(Between(kind, acc, i, j)) >= MaxKeys
    <3>1. i \in 1 .. Len(accepts) /\ j \in 1 .. Len(accepts)
      BY <1>6, <2>1
    <3>2. Between(kind, acc, i, j) = Between(kind, accepts, i, j)
      BY <1>1, <3>1, BetweenKept
    <3>3. \A x, y : OthersBetween(x, y) = Between(kind, accepts, x, y)
      BY DEF OthersBetween, Between, Keyed, HasKey
    <3> QED
      BY <1>1, <1>2, <2>1, <3>1, <3>2, <3>3
         DEF InvCache, RepeatOnlyAfterTtlOrOverflow, Keyed, HasKey
  <2>2. \A i, j : OthersBetween(i, j)' = Between(kind, acc, i, j)
    BY DEF OthersBetween, Between, Keyed, HasKey
  <2>3. \A f : Keyed(f)' <=> HasKey(kind, f)
    BY DEF Keyed, HasKey
  <2> QED
    BY <2>1, <2>2, <2>3 DEF RepeatOnlyAfterTtlOrOverflow
<1> QED
  BY <1>1, <1>4, <1>5, <1>6, <1>7 DEF InvCache, Remembers

\* Time passes, or nothing happens to the cache at all.
LEMMA TickKeeps ==
    ASSUME InvCache, now' \in Nat, now <= now', UNCHANGED << kind, seen, accepts >>
    PROVE  InvCache'
<1>1. /\ now \in Nat /\ Ttl \in Nat /\ accepts \in Seq(Accepts)
      /\ \A i \in DOMAIN accepts : accepts[i].at <= now
  BY DispatchAssumption DEF InvCache
<1>2. \A i \in DOMAIN accepts : accepts[i].at \in Nat
  <2>1. \A i \in DOMAIN accepts : accepts[i] \in Accepts
    BY <1>1
  <2> QED
    BY <2>1 DEF Accepts
<1>3. \A i \in DOMAIN accepts : accepts[i].at <= now'
  BY <1>1, <1>2
<1>4. Remembers(kind, accepts, seen, now')
  BY <1>1, <1>2 DEF InvCache, Remembers, Kept
<1>5. RepeatOnlyAfterTtlOrOverflow'
  BY DEF InvCache, RepeatOnlyAfterTtlOrOverflow, OthersBetween, Keyed
<1> QED
  BY <1>3, <1>4, <1>5 DEF InvCache

-----------------------------------------------------------------------------
(* The tasks.                                                               *)

\* The deliveries come in order, and the gateway's one after the other; what
\* is committed is a finished delivery of a message, in that order.
InvTasks ==
    /\ pc \in [Deliveries -> {"coming", "record", "reply", "lookup", "greet", "done"}]
    /\ event \in [Deliveries -> Events \cup {NoEvent}]
    /\ source \in [Deliveries -> {"wss", "webhook"}]
    /\ committed \in Seq(Deliveries)
    /\ greeted \subseteq Deliveries /\ conversation \in BOOLEAN
    /\ \A c, d \in Deliveries : c < d /\ pc[c] = "coming" => pc[d] = "coming"
    /\ \A c, d \in Deliveries :
          c < d /\ source[c] = "wss" /\ source[d] = "wss" /\ pc[d] # "coming"
             => pc[c] = "done"
    /\ \A i \in DOMAIN committed :
          pc[committed[i]] = "done" /\ kind[event[committed[i]]] \in Messages
    /\ \A i, j \in DOMAIN committed : committed[i] = committed[j] => i = j
    /\ GatewayOrderKept

\* Behind every remembered message there is a delivery that carries it on, so
\* that what is dropped as its duplicate is not lost.
InvMessages ==
    /\ failed \subseteq {c \in Deliveries : pc[c] = "done"}
    /\ \A c \in Deliveries : pc[c] = "reply" => kind[event[c]] = "answered"
    /\ \A entry \in seen : kind[entry.key] \in Messages =>
          \E c \in Deliveries : event[c] = entry.key /\ CarriesOn(c)
    /\ NoMessageIsSwallowed

Inv == InvCache /\ InvTasks /\ InvMessages

\* The initial state.
LEMMA DispatchInit == Init => Inv
<1> SUFFICES ASSUME Init PROVE Inv
  OBVIOUS
<1>1. InvCache
  <2>1. seen = {} /\ accepts = << >> /\ now = 0 /\ kind \in KindsOfEvents
    BY DEF Init
  <2>2. MaxKeys \in Nat
    BY DispatchAssumption
  <2>3. InvDict(kind, seen) /\ Cardinality(seen) <= MaxKeys
    BY <2>1, <2>2, FS_EmptySet DEF InvDict
  <2>4. Remembers(kind, accepts, seen, now) /\ Stems(accepts, seen)
    BY <2>1 DEF Remembers, Stems
  <2>5. RepeatOnlyAfterTtlOrOverflow
    BY <2>1 DEF RepeatOnlyAfterTtlOrOverflow
  <2> QED
    BY <2>1, <2>3, <2>4, <2>5 DEF InvCache
<1>2. InvTasks
  <2>1. committed = << >> /\ committed \in Seq(Deliveries) /\ DOMAIN committed = {}
    BY DEF Init
  <2>2. GatewayOrderKept
    BY <2>1 DEF GatewayOrderKept
  <2>3. \A d \in Deliveries : pc[d] = "coming" /\ source[d] = "webhook"
    BY DEF Init
  <2> QED
    BY <2>1, <2>2, <2>3 DEF Init, InvTasks
<1>3. InvMessages
  BY DEF Init, InvMessages, NoMessageIsSwallowed
<1> QED
  BY <1>1, <1>2, <1>3 DEF Inv

\* What a suspended task does when it goes on.
Resumes(d) ==
    /\ pc[d] \in Suspended
    /\ \E next \in Suspended \cup {"done"} : pc' = [pc EXCEPT ![d] = next]
    /\ \/ committed' = committed
       \/ /\ committed' = Append(committed, d)
          /\ pc' = [pc EXCEPT ![d] = "done"] /\ kind[event[d]] \in Messages
    /\ greeted' \in {greeted, greeted \cup {d}}
    /\ UNCHANGED << kind, now, seen, event, source, conversation, accepts >>

\* Every step of a suspended task is one of those.
LEMMA ProcessResumes == ASSUME NEW d \in Deliveries, Process(d) PROVE Resumes(d)
<1> USE DEF Resumes, Suspended, Messages, Ends, Commits
<1>1. CASE RecordDone(d)
  <2>1. CASE kind[event[d]] = "logged"
    BY <1>1, <2>1 DEF RecordDone
  <2>2. CASE kind[event[d]] = "answered"
    BY <1>1, <2>2 DEF RecordDone
  <2>3. CASE kind[event[d]] \in {"message", "anonymous", "system"}
    BY <1>1, <2>3 DEF RecordDone
  <2>4. CASE kind[event[d]] \notin {"logged", "answered", "message", "anonymous", "system"}
    BY <1>1, <2>4 DEF RecordDone
  <2> QED
    BY <2>1, <2>2, <2>3, <2>4
<1>2. CASE ReplyDone(d)
  BY <1>2 DEF ReplyDone
<1>3. CASE LookupFinds(d)
  BY <1>3 DEF LookupFinds
<1>4. CASE LookupMisses(d)
  BY <1>4 DEF LookupMisses
<1>5. CASE GreetDone(d)
  BY <1>5 DEF GreetDone
<1>6. CASE Fails(d)
  BY <1>6 DEF Fails
<1> QED
  BY <1>1, <1>2, <1>3, <1>4, <1>5, <1>6 DEF Process

\* Going on keeps the order of the deliveries and of what is committed.
LEMMA ResumesKeep == ASSUME Inv, NEW d \in Deliveries, Resumes(d) PROVE InvTasks'
<1>1. PICK next \in Suspended \cup {"done"} : pc' = [pc EXCEPT ![d] = next]
  BY DEF Resumes
<1>2. /\ pc[d] \in Suspended
      /\ UNCHANGED << kind, event, source, conversation >>
      /\ \A c \in Deliveries : pc'[c] = IF c = d THEN next ELSE pc[c]
  BY <1>1 DEF Resumes, Inv, InvTasks
<1>3. /\ pc' \in [Deliveries -> {"coming", "record", "reply", "lookup", "greet", "done"}]
      /\ greeted' \subseteq Deliveries
  BY <1>1 DEF Resumes, Inv, InvTasks, Suspended
<1>4. \A a, b \in Deliveries : a < b /\ pc'[a] = "coming" => pc'[b] = "coming"
  BY <1>2 DEF Inv, InvTasks, Suspended
<1>5. \A a, b \in Deliveries :
         a < b /\ source[a] = "wss" /\ source[b] = "wss" /\ pc'[b] # "coming"
            => pc'[a] = "done"
  BY <1>2 DEF Inv, InvTasks, Suspended
<1>6. CASE committed' = committed
  <2>1. \A i \in DOMAIN committed : pc'[committed[i]] = "done"
    BY <1>2 DEF Inv, InvTasks, Suspended
  <2> QED
    BY <1>2, <1>3, <1>4, <1>5, <1>6, <2>1 DEF Inv, InvTasks, GatewayOrderKept
<1>7. CASE committed' = Append(committed, d) /\ next = "done" /\ kind[event[d]] \in Messages
  <2>1. /\ committed \in Seq(Deliveries) /\ committed' \in Seq(Deliveries)
        /\ Len(committed) \in Nat /\ DOMAIN committed = 1 .. Len(committed)
        /\ DOMAIN committed' = 1 .. Len(committed) + 1
        /\ committed'[Len(committed) + 1] = d
        /\ \A i \in 1 .. Len(committed) : committed'[i] = committed[i]
    BY <1>7 DEF Inv, InvTasks
  <2>2. \A i \in 1 .. Len(committed) : committed[i] \in Deliveries /\ committed[i] # d
    BY <1>2, <2>1 DEF Inv, InvTasks, Suspended
  <2>3. \A i \in DOMAIN committed' :
           pc'[committed'[i]] = "done" /\ kind[event[committed'[i]]] \in Messages
    <3>1. ASSUME NEW i \in 1 .. Len(committed)
          PROVE  pc'[committed'[i]] = "done" /\ kind[event[committed'[i]]] \in Messages
      BY <1>2, <2>1, <2>2 DEF Inv, InvTasks
    <3> QED
      BY <3>1, <1>2, <1>7, <2>1
  <2>4. \A i, j \in DOMAIN committed' : committed'[i] = committed'[j] => i = j
    BY <2>1, <2>2 DEF Inv, InvTasks
  <2>5. GatewayOrderKept'
    <3>1. ASSUME NEW i \in DOMAIN committed', NEW j \in DOMAIN committed', i < j,
                 source[committed'[i]] = "wss", source[committed'[j]] = "wss"
          PROVE  committed'[i] < committed'[j]
      <4>1. i \in 1 .. Len(committed) /\ committed'[i] = committed[i]
        BY <2>1, <3>1
      <4>2. CASE j \in 1 .. Len(committed)
        BY <4>1, <4>2, <2>1, <3>1 DEF Inv, InvTasks, GatewayOrderKept
      <4>3. CASE j = Len(committed) + 1
        <5>1. /\ committed[i] \in Deliveries /\ committed[i] # d /\ committed'[j] = d
              /\ pc[committed[i]] = "done"
          BY <4>1, <4>3, <2>1, <2>2 DEF Inv, InvTasks
        <5>2. ~(d < committed[i])
          BY <5>1, <4>1, <3>1, <1>2 DEF Inv, InvTasks, Suspended
        <5> QED
          BY <4>1, <5>1, <5>2 DEF Deliveries
      <4> QED
        BY <2>1, <4>2, <4>3
    <3> QED
      BY <3>1, <1>2 DEF GatewayOrderKept
  <2> QED
    BY <1>2, <1>3, <1>4, <1>5, <2>1, <2>3, <2>4, <2>5 DEF Inv, InvTasks
<1>8. \/ committed' = committed
      \/ committed' = Append(committed, d) /\ next = "done" /\ kind[event[d]] \in Messages
  <2>1. pc'[d] = next
    BY <1>2
  <2> QED
    BY <2>1 DEF Resumes, Inv, InvTasks
<1> QED
  BY <1>6, <1>7, <1>8

\* A delivery reaches its adapter when those before it have, and over the
\* gateway when those before it are done.
LEMMA DeliverKeeps ==
    ASSUME Inv, NEW d \in Deliveries, NEW e \in Events, NEW src \in {"wss", "webhook"},
           Deliver(d, e, src)
    PROVE  InvTasks'
<1>1. PICK next \in {"record", "done"} : pc' = [pc EXCEPT ![d] = next]
  BY DEF Deliver
<1>2. /\ pc[d] = "coming" /\ \A c \in Deliveries : c < d => pc[c] # "coming"
      /\ src = "wss" => \A c \in Deliveries : source[c] = "wss" => pc[c] \in {"coming", "done"}
      /\ event' = [event EXCEPT ![d] = e] /\ source' = [source EXCEPT ![d] = src]
      /\ UNCHANGED << kind, committed, greeted, conversation >>
  BY DEF Deliver, GatewayFree
<1>3. \A c \in Deliveries :
         /\ pc'[c] = IF c = d THEN next ELSE pc[c]
         /\ source'[c] = IF c = d THEN src ELSE source[c]
         /\ event'[c] = IF c = d THEN e ELSE event[c]
  BY <1>1, <1>2 DEF Inv, InvTasks
<1>4. /\ pc' \in [Deliveries -> {"coming", "record", "reply", "lookup", "greet", "done"}]
      /\ event' \in [Deliveries -> Events \cup {NoEvent}]
      /\ source' \in [Deliveries -> {"wss", "webhook"}]
  BY <1>1, <1>2 DEF Inv, InvTasks
<1>5. \A a, b \in Deliveries : a < b /\ pc'[a] = "coming" => pc'[b] = "coming"
  BY <1>2, <1>3 DEF Inv, InvTasks
<1>6. ASSUME NEW a \in Deliveries, NEW b \in Deliveries, a < b,
             source'[a] = "wss", source'[b] = "wss", pc'[b] # "coming"
      PROVE  pc'[a] = "done"
  <2>1. CASE b = d
    BY <2>1, <1>2, <1>3, <1>6 DEF Deliveries
  <2>2. CASE a = d
    <3>1. pc[b] = "coming"
      BY <2>2, <1>2, <1>6 DEF Inv, InvTasks
    <3> QED
      BY <3>1, <2>2, <1>3, <1>6 DEF Deliveries
  <2>3. CASE a # d /\ b # d
    BY <2>3, <1>3, <1>6 DEF Inv, InvTasks
  <2> QED
    BY <2>1, <2>2, <2>3
<1>7. \A i \in DOMAIN committed : committed[i] \in Deliveries /\ committed[i] # d
  BY <1>2 DEF Inv, InvTasks
<1>8. GatewayOrderKept'
  BY <1>2, <1>3, <1>7 DEF Inv, InvTasks, GatewayOrderKept
<1>9. \A i \in DOMAIN committed :
         pc'[committed[i]] = "done" /\ kind[event'[committed[i]]] \in Messages
  BY <1>3, <1>7 DEF Inv, InvTasks
<1> QED
  BY <1>2, <1>4, <1>5, <1>6, <1>8, <1>9 DEF Inv, InvTasks

\* A task that carries on a message goes on doing so until it has committed the
\* message or failed; only the answered events are in a reply.
LEMMA ProcessCarries ==
    ASSUME Inv, NEW d \in Deliveries, Process(d)
    PROVE  /\ failed' \subseteq {c \in Deliveries : c \in failed \/ (c = d /\ pc'[c] = "done")}
           /\ failed \subseteq failed'
           /\ pc'[d] = "reply" => kind[event[d]] = "answered"
           /\ kind[event[d]] \in Messages =>
                 \/ pc'[d] \in {"lookup", "greet"}
                 \/ committed' = Append(committed, d)
                 \/ d \in failed'
<1>1. /\ failed \subseteq Deliveries
      /\ \A x : [pc EXCEPT ![d] = x][d] = x
      /\ pc[d] = "reply" => kind[event[d]] = "answered"
  BY DEF Inv, InvTasks, InvMessages
<1> USE <1>1 DEF Messages, Ends, Commits
<1>2. CASE RecordDone(d)
  BY <1>2 DEF RecordDone
<1>3. CASE ReplyDone(d)
  BY <1>3 DEF ReplyDone
<1>4. CASE LookupFinds(d)
  BY <1>4 DEF LookupFinds
<1>5. CASE LookupMisses(d)
  BY <1>5 DEF LookupMisses
<1>6. CASE GreetDone(d)
  BY <1>6 DEF GreetDone
<1>7. CASE Fails(d)
  BY <1>7 DEF Fails
<1> QED
  BY <1>2, <1>3, <1>4, <1>5, <1>6, <1>7 DEF Process

\* A task that goes on loses no message.
LEMMA ProcessKeepsMessages ==
    ASSUME Inv, NEW d \in Deliveries, Process(d)
    PROVE  InvMessages'
<1>1. /\ pc[d] \in Suspended
      /\ UNCHANGED << kind, seen, event >>
      /\ \A c \in Deliveries \ {d} : pc'[c] = pc[c]
      /\ committed' = committed \/ committed' = Append(committed, d)
      /\ pc'[d] \in Suspended \cup {"done"}
  BY ProcessResumes DEF Resumes, Inv, InvTasks
<1>2. /\ failed' \subseteq {c \in Deliveries : c \in failed \/ (c = d /\ pc'[c] = "done")}
      /\ failed \subseteq failed'
      /\ pc'[d] = "reply" => kind[event[d]] = "answered"
      /\ kind[event[d]] \in Messages =>
            \/ pc'[d] \in {"lookup", "greet"}
            \/ committed' = Append(committed, d)
            \/ d \in failed'
  BY ProcessCarries
<1>3. failed' \subseteq {c \in Deliveries : pc'[c] = "done"}
  BY <1>1, <1>2 DEF Inv, InvMessages, Suspended
<1>4. \A c \in Deliveries : pc'[c] = "reply" => kind'[event'[c]] = "answered"
  BY <1>1, <1>2 DEF Inv, InvMessages
<1>5. /\ \A i \in DOMAIN committed : i \in DOMAIN committed' /\ committed'[i] = committed[i]
      /\ committed' = Append(committed, d) => \E i \in DOMAIN committed' : committed'[i] = d
  <2>1. committed \in Seq(Deliveries)
    BY DEF Inv, InvTasks
  <2>2. /\ \A i \in DOMAIN committed :
              i \in DOMAIN Append(committed, d) /\ Append(committed, d)[i] = committed[i]
        /\ Len(committed) + 1 \in DOMAIN Append(committed, d)
        /\ Append(committed, d)[Len(committed) + 1] = d
    BY <2>1
  <2> QED
    BY <1>1, <2>2
<1>6. ASSUME NEW c \in Deliveries, CarriesOn(c), kind[event[c]] \in Messages
      PROVE  CarriesOn(c)'
  <2>1. CASE c = d
    BY <2>1, <1>2, <1>5, <1>6 DEF CarriesOn
  <2>2. CASE c # d
    BY <2>2, <1>1, <1>2, <1>5, <1>6 DEF CarriesOn
  <2> QED
    BY <2>1, <2>2
<1>7. ASSUME NEW entry \in seen', kind'[entry.key] \in Messages
      PROVE  \E c \in Deliveries : event'[c] = entry.key /\ CarriesOn(c)'
  <2>1. PICK c \in Deliveries : event[c] = entry.key /\ CarriesOn(c)
    BY <1>1, <1>7 DEF Inv, InvMessages
  <2> QED
    BY <2>1, <1>1, <1>6, <1>7
<1>8. ASSUME NEW c \in Deliveries, pc'[c] = "done", kind'[event'[c]] \in Messages
      PROVE  \E b \in Deliveries :
                event'[b] = event'[c] /\ (kind'[event'[c]] = "anonymous" => b = c) /\ CarriesOn(b)'
  <2>1. CASE c = d
    <3>1. CarriesOn(d)'
      BY <2>1, <1>1, <1>2, <1>5, <1>8 DEF CarriesOn
    <3> QED
      BY <2>1, <3>1
  <2>2. CASE c # d
    <3>1. PICK b \in Deliveries :
             event[b] = event[c] /\ (kind[event[c]] = "anonymous" => b = c) /\ CarriesOn(b)
      BY <2>2, <1>1, <1>8 DEF Inv, InvMessages, NoMessageIsSwallowed, Messages
    <3>2. CarriesOn(b)'
      BY <3>1, <1>1, <1>6, <1>8
    <3> QED
      BY <3>1, <3>2, <1>1 DEF Keyed
  <2> QED
    BY <2>1, <2>2
<1>9. NoMessageIsSwallowed'
  BY <1>8 DEF NoMessageIsSwallowed, Messages
<1> QED
  BY <1>3, <1>4, <1>7, <1>9 DEF InvMessages

\* What a delivery drops as a duplicate another one carries on.
LEMMA DeliverKeepsMessages ==
    ASSUME Inv, NEW d \in Deliveries, NEW e \in Events, NEW src \in {"wss", "webhook"},
           Deliver(d, e, src)
    PROVE  InvMessages'
<1>1. /\ pc[d] = "coming" /\ pc'[d] \in {"record", "done"} /\ event'[d] = e
      /\ \A c \in Deliveries \ {d} : pc'[c] = pc[c] /\ event'[c] = event[c]
      /\ UNCHANGED << kind, committed, failed >>
      /\ pc'[d] = "record" \/ kind[e] \in {"ignored", "homeless"} \/ IsDuplicate(e)
  BY DEF Deliver, Inv, InvTasks
<1>2. ~CarriesOn(d)
  BY <1>1 DEF CarriesOn, Inv, InvTasks, InvMessages
<1>3. \A c \in Deliveries \ {d} : CarriesOn(c)' <=> CarriesOn(c)
  BY <1>1 DEF CarriesOn
<1>4. failed' \subseteq {c \in Deliveries : pc'[c] = "done"}
  BY <1>1 DEF Inv, InvMessages
<1>5. \A c \in Deliveries : pc'[c] = "reply" => kind'[event'[c]] = "answered"
  BY <1>1 DEF Inv, InvMessages
<1>6. ASSUME NEW entry \in seen, kind[entry.key] \in Messages
      PROVE  \E c \in Deliveries : event'[c] = entry.key /\ CarriesOn(c)'
  <2>1. PICK c \in Deliveries : event[c] = entry.key /\ CarriesOn(c)
    BY <1>6 DEF Inv, InvMessages
  <2> QED
    BY <2>1, <1>1, <1>2, <1>3
<1>7. ASSUME NEW entry \in seen', kind'[entry.key] \in Messages
      PROVE  \E c \in Deliveries : event'[c] = entry.key /\ CarriesOn(c)'
  <2>1. CASE entry \in seen
    BY <2>1, <1>1, <1>6, <1>7
  <2>2. CASE entry \notin seen
    <3>1. /\ Keyed(e) /\ seen' \in Cleaned(Stored(e))
          /\ pc'[d] = "record" \/ kind[e] = "homeless"
      BY <2>2, <1>1 DEF Deliver, Inv, InvTasks
    <3>2. entry \in Stored(e)
      BY <3>1 DEF Cleaned
    <3>3. entry.key = e
      BY <3>2, <2>2 DEF Stored
    <3>4. CarriesOn(d)' /\ event'[d] = entry.key
      BY <3>1, <3>3, <1>1, <1>7 DEF CarriesOn, Messages
    <3> QED
      BY <3>4
  <2> QED
    BY <2>1, <2>2
<1>8. ASSUME NEW c \in Deliveries, pc'[c] = "done", kind'[event'[c]] \in Messages
      PROVE  \E b \in Deliveries :
                event'[b] = event'[c] /\ (kind'[event'[c]] = "anonymous" => b = c) /\ CarriesOn(b)'
  <2>1. CASE c = d
    <3>1. IsDuplicate(e)
      BY <2>1, <1>1, <1>8 DEF Messages
    <3>2. PICK entry \in seen : entry.key = e /\ Keyed(e)
      BY <3>1 DEF IsDuplicate
    <3>3. kind[entry.key] \in Messages
      BY <3>2, <2>1, <1>1, <1>8
    <3>4. PICK b \in Deliveries : event'[b] = entry.key /\ CarriesOn(b)'
      BY <3>3, <1>6
    <3> QED
      BY <3>2, <3>4, <2>1, <1>1 DEF Keyed
  <2>2. CASE c # d
    <3>1. PICK b \in Deliveries :
             event[b] = event[c] /\ (kind[event[c]] = "anonymous" => b = c) /\ CarriesOn(b)
      BY <2>2, <1>1, <1>8 DEF Inv, InvMessages, NoMessageIsSwallowed, Messages
    <3> QED
      BY <3>1, <2>2, <1>1, <1>2, <1>3 DEF Keyed
  <2> QED
    BY <2>1, <2>2
<1>9. NoMessageIsSwallowed'
  BY <1>8 DEF NoMessageIsSwallowed, Messages
<1> QED
  BY <1>4, <1>5, <1>7, <1>9 DEF InvMessages

\* Every step of the specification keeps the invariant.
LEMMA DispatchStep == Inv /\ [Next]_vars => Inv'
<1> SUFFICES ASSUME Inv, [Next]_vars PROVE Inv'
  OBVIOUS
<1>1. ASSUME NEW d \in Deliveries, NEW e \in Events, NEW src \in {"wss", "webhook"},
             Deliver(d, e, src)
      PROVE  Inv'
  <2>1. InvCache'
    <3>1. kind' = kind /\ now' = now /\ InvCache
      BY <1>1 DEF Deliver, Inv
    <3>2. CASE kind[e] = "ignored" \/ IsDuplicate(e)
      BY <3>1, <3>2, <1>1, TickKeeps DEF Deliver, InvCache
    <3>3. CASE ~(kind[e] = "ignored" \/ IsDuplicate(e)) /\ Keyed(e)
      BY <3>1, <3>3, <1>1, AcceptKeeps DEF Deliver
    <3>4. CASE ~(kind[e] = "ignored" \/ IsDuplicate(e)) /\ ~Keyed(e)
      BY <3>1, <3>4, <1>1, KeylessKeeps DEF Deliver
    <3> QED
      BY <3>2, <3>3, <3>4
  <2> QED
    BY <2>1, <1>1, DeliverKeeps, DeliverKeepsMessages DEF Inv
<1>2. ASSUME NEW d \in Deliveries, Process(d) PROVE Inv'
  <2>1. Resumes(d)
    BY <1>2, ProcessResumes
  <2>2. InvCache'
    BY <2>1, TickKeeps DEF Resumes, Inv, InvCache
  <2> QED
    BY <2>1, <2>2, <1>2, ResumesKeep, ProcessKeepsMessages DEF Inv
<1>3. ASSUME UNCHANGED << kind, seen, pc, event, source, committed, greeted, failed >>,
             conversation' \in BOOLEAN
      PROVE  InvTasks' /\ InvMessages'
  <2>1. InvTasks'
    BY <1>3 DEF Inv, InvTasks, GatewayOrderKept
  <2>2. InvMessages'
    BY <1>3 DEF Inv, InvMessages, NoMessageIsSwallowed, CarriesOn, Keyed
  <2> QED
    BY <2>1, <2>2
<1>4. CASE OpenConversation
  <2>1. InvCache'
    BY <1>4, TickKeeps DEF OpenConversation, Inv, InvCache
  <2> QED
    BY <2>1, <1>3, <1>4 DEF OpenConversation, Inv
<1>5. CASE Tick
  <2>1. now' \in Nat /\ now <= now'
    BY <1>5 DEF Tick, Inv, InvCache
  <2>2. InvCache'
    BY <2>1, <1>5, TickKeeps DEF Tick, Inv
  <2> QED
    BY <2>2, <1>3, <1>5 DEF Tick, Inv, InvTasks
<1>6. CASE UNCHANGED vars
  <2>1. InvCache'
    BY <1>6, TickKeeps DEF vars, Inv, InvCache
  <2> QED
    BY <2>1, <1>3, <1>6 DEF vars, Inv, InvTasks
<1> QED
  BY <1>1, <1>2, <1>4, <1>5, <1>6 DEF Next

-----------------------------------------------------------------------------

\* Dispatch's invariant holds in every state of the specification.
THEOREM DispatchInvHolds == Spec => []Inv
  BY DispatchInit, DispatchStep, PTL DEF Spec

\* Types of the dispatch: the cache is a dict of events with a key that never
\* outgrows its bound.
THEOREM DispatchTypesCorrect == Spec => []TypeOK
<1>1. Inv => TypeOK
  BY DEF Inv, InvCache, InvDict, InvTasks, InvMessages, HasKey, Accepts, TypeOK
<1> QED
  BY <1>1, DispatchInvHolds, PTL

\* An event is processed again only after the TTL or after MaxKeys others,
\* whatever the deliveries, their order and the bounds of the cache.
THEOREM RepeatsAreRare == Spec => []RepeatOnlyAfterTtlOrOverflow
<1>1. Inv => RepeatOnlyAfterTtlOrOverflow
  BY DEF Inv, InvCache
<1> QED
  BY <1>1, DispatchInvHolds, PTL

\* The memory for duplicates swallows no message: whatever is dropped, another
\* delivery carries on, unless its task failed.
THEOREM MessagesArrive == Spec => []NoMessageIsSwallowed
<1>1. Inv => NoMessageIsSwallowed
  BY DEF Inv, InvMessages
<1> QED
  BY <1>1, DispatchInvHolds, PTL

\* What the gateway delivers in order reaches the framework in order.
THEOREM GatewayOrder == Spec => []GatewayOrderKept
<1>1. Inv => GatewayOrderKept
  BY DEF Inv, InvTasks
<1> QED
  BY <1>1, DispatchInvHolds, PTL

=============================================================================
