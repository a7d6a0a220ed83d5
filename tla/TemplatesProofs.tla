-------------------------- MODULE TemplatesProofs ---------------------------
(***************************************************************************)
(* Theorems about Templates, for any number of template directories, names *)
(* and edits.  A modification time stands for the content that was there   *)
(* under it: as long as the time that was noted is the time of the file,   *)
(* what was read after noting it is what the file says.                    *)
(***************************************************************************)
EXTENDS Templates, SequenceTheorems, TLAPS

Files == [mtime : Nat, says : Contents]
Signs == Seq(Sources \X Nat)
Phases == {"idle", "sign", "stat", "read", "got"}
CallRecord ==
    [phase : Phases, want : Wants, force : BOOLEAN, key : Keys \cup {None},
     resolved : Keys \cup {None}, next : Nat, signs : Signs, mtime : Nat, merged : Registries]

InvTypes ==
    /\ registered \in Seq(Sources) /\ IsInjective(registered)
    /\ sourceCache \in [Sources -> {None} \cup Files]
    /\ registry \in Registries \cup {None}
    /\ signature \in Signs
    /\ files \in [Sources -> Files]
    /\ seen \in [Sources -> SUBSET Contents]
    /\ call \in CallRecord

InvBodies ==
    /\ texts \in [Sources -> [Ids -> 0 .. MaxEdits + 1]]
    /\ bodies \in [Keys -> {None} \cup Bodies]
    /\ \A k \in Keys : bodies[k] # None =>
          bodies[k] \in Bodies /\ bodies[k].version <= texts[bodies[k].root][bodies[k].id]

\* What was read of a file under its present modification time is its content.
InvSources ==
    \A s \in Sources : sourceCache[s] # None =>
        /\ s \in Registered /\ sourceCache[s] \in Files
        /\ sourceCache[s].mtime <= files[s].mtime
        /\ sourceCache[s].mtime = files[s].mtime => sourceCache[s].says = files[s].says

\* The signatures are of the sources in their order, and of the past.
Signed(signs) ==
    \A i \in 1 .. Len(signs) :
        signs[i][1] = registered[i] /\ signs[i][2] <= files[registered[i]].mtime

InvCall ==
    /\ call.phase \in {"sign", "stat", "read"} =>
          call.next \in 1 .. Len(registered) /\ Signed(call.signs)
    /\ call.phase = "sign" => Len(call.signs) = call.next - 1 /\ call.merged = Nothing
    /\ call.phase \in {"stat", "read"} => Len(call.signs) = Len(registered)
    /\ call.phase = "read" => call.mtime <= files[This].mtime
    /\ call.phase = "got" => registry \in Registries
    /\ call.phase # "idle" => \A s \in Sources : files[s].says \in seen[s]
    /\ registry # None => Len(signature) = Len(registered) /\ Signed(signature)

\* What source i is taken to say is its content, if its file is still the one
\* that was signed.
Known(says, signs, i) ==
    signs[i][2] = files[registered[i]].mtime => says[registered[i]] = files[registered[i]].says

Current(says, i) == says[registered[i]] \in seen[registered[i]]

\* The registry that is being put together, as far as the loop has come.
InvLoading ==
    call.phase \in {"stat", "read"} =>
        \E says \in [Sources -> Contents] :
          /\ \A n \in Names : Decided(says, call.next - 1, n, call.merged[n])
          /\ \A i \in 1 .. call.next - 1 : Current(says, i) /\ Known(says, call.signs, i)

\* The cached registry; so far as the signature has been found again, it is up
\* to date.
InvCached ==
    registry # None =>
        \E says \in [Sources -> Contents] :
          /\ \A n \in Names : Decided(says, Len(registered), n, registry[n])
          /\ \A i \in 1 .. Len(registered) :
                /\ Known(says, signature, i)
                /\ call.phase = "sign" /\ i \in 1 .. Len(call.signs) /\ call.signs[i] = signature[i]
                      => Current(says, i)

InvFresh ==
    call.phase = "got" =>
        \E says \in [Sources -> Contents] :
          /\ \A n \in Names : Decided(says, Len(registered), n, registry[n])
          /\ \A i \in 1 .. Len(registered) : Current(says, i)

Inv == InvTypes /\ InvBodies /\ InvSources /\ InvCall /\ InvLoading /\ InvCached /\ InvFresh

-----------------------------------------------------------------------------

\* The registry without entries is a content and a registry.
LEMMA NothingTypes == Nothing \in Contents /\ Nothing \in Registries
  BY DEF Nothing, Contents, Registries

\* The record of no call has its type.
LEMMA IdleType == Idle \in CallRecord /\ Idle.phase = "idle"
<1>1. << >> \in Signs /\ 0 \in Nat /\ FALSE \in BOOLEAN
  BY DEF Signs
<1>2. "idle" \in Phases /\ "registry" \in Wants
  BY DEF Phases, Wants
<1> QED
  BY <1>1, <1>2, NothingTypes DEF Idle, CallRecord

\* The invariant holds before anything is registered or loaded.
LEMMA TemplatesInit == Init => Inv
<1> SUFFICES ASSUME Init PROVE Inv
  OBVIOUS
<1>1. /\ registered = << >> /\ registry = None /\ signature = << >> /\ call = Idle
      /\ sourceCache = [s \in Sources |-> None] /\ bodies = [k \in Keys |-> None]
      /\ seen = Unread
      /\ files \in [Sources -> [mtime : {1}, says : Contents] \cup [mtime : {0}, says : {Nothing}]]
      /\ texts \in [Sources -> [Ids -> {0, 1}]]
  BY DEF Init
<1>2. InvTypes
  <2>1. registered \in Seq(Sources) /\ IsInjective(registered) /\ signature \in Signs
    BY <1>1 DEF IsInjective, Signs
  <2>2. files \in [Sources -> Files]
    <3>1. [mtime : {1}, says : Contents] \cup [mtime : {0}, says : {Nothing}] \subseteq Files
      BY NothingTypes DEF Files
    <3> QED
      BY <1>1, <3>1
  <2>3. seen \in [Sources -> SUBSET Contents]
    BY <1>1 DEF Unread
  <2>4. sourceCache \in [Sources -> {None} \cup Files]
    BY <1>1
  <2> QED
    BY <1>1, <2>1, <2>2, <2>3, <2>4, IdleType DEF InvTypes
<1>3. InvBodies
  <2>1. {0, 1} \subseteq 0 .. MaxEdits + 1
    BY TemplatesAssumption
  <2>2. texts \in [Sources -> [Ids -> 0 .. MaxEdits + 1]]
    BY <1>1, <2>1
  <2> QED
    BY <1>1, <2>2 DEF InvBodies
<1>4. InvSources
  BY <1>1 DEF InvSources
<1>5. call.phase = "idle" /\ registry = None
  BY <1>1, IdleType
<1> QED
  BY <1>2, <1>3, <1>4, <1>5 DEF Inv, InvCall, InvLoading, InvCached, InvFresh

-----------------------------------------------------------------------------
(* Registration.                                                            *)

\* Without one of its elements a list of sources names each source once, and all
\* the others are still in it.
LEMMA RemovedFacts ==
    ASSUME NEW s \in Seq(Sources), IsInjective(s), NEW i \in DOMAIN s
    PROVE  LET t == RemoveAt(s, i)
           IN  /\ t \in Seq(Sources) /\ IsInjective(t)
               /\ \A x \in ToSet(s) : x # s[i] => x \in ToSet(t)
<1> DEFINE t == RemoveAt(s, i)
<1>1. /\ i \in 1 .. Len(s) /\ DOMAIN s = 1 .. Len(s) /\ Len(s) \in Nat
      /\ \A j \in 1 .. Len(s) : s[j] \in Sources
  OBVIOUS
<1>2. /\ t \in Seq(Sources) /\ DOMAIN t = 1 .. Len(s) - 1
      /\ \A j \in 1 .. Len(s) - 1 : t[j] = IF j < i THEN s[j] ELSE s[j + 1]
  <2> DEFINE u == SubSeq(s, 1, i - 1)
             v == SubSeq(s, i + 1, Len(s))
  <2>1. /\ u \in Seq(Sources) /\ Len(u) = i - 1 /\ \A j \in 1 .. i - 1 : u[j] = s[j]
    BY <1>1
  <2>2. /\ v \in Seq(Sources) /\ Len(v) = Len(s) - i
        /\ \A j \in 1 .. Len(s) - i : v[j] = s[i + j]
    <3>1. i + 1 \in Int /\ Len(s) \in Int /\ \A j \in i + 1 .. Len(s) : s[j] \in Sources
      BY <1>1
    <3>2. /\ v \in Seq(Sources)
          /\ Len(v) = IF i + 1 <= Len(s) THEN Len(s) - (i + 1) + 1 ELSE 0
          /\ \A j \in 1 .. Len(s) - (i + 1) + 1 : v[j] = s[i + 1 + j - 1]
      BY <3>1, SubSeqProperties
    <3> HIDE DEF v
    <3>3. Len(v) = Len(s) - i
      BY <1>1, <3>2
    <3>4. ASSUME NEW j \in 1 .. Len(s) - i PROVE v[j] = s[i + j]
      <4>1. i + 1 + j - 1 = i + j /\ j \in 1 .. Len(s) - (i + 1) + 1
        BY <1>1
      <4>2. v[j] = s[i + 1 + j - 1]
        BY <3>2, <4>1
      <4> QED
        BY <4>1, <4>2
    <3> QED
      BY <3>2, <3>3, <3>4
  <2> HIDE DEF u, v
  <2>3. /\ u \o v \in Seq(Sources) /\ Len(u \o v) = Len(u) + Len(v)
        /\ \A j \in 1 .. Len(u) + Len(v) :
              (u \o v)[j] = IF j <= Len(u) THEN u[j] ELSE v[j - Len(u)]
    BY <2>1, <2>2, ConcatProperties
  <2>4. t = u \o v
    BY DEF RemoveAt, u, v
  <2>5. Len(u) + Len(v) = Len(s) - 1
    BY <1>1, <2>1, <2>2
  <2> HIDE DEF t
  <2>6. t \in Seq(Sources) /\ DOMAIN t = 1 .. Len(s) - 1
    BY <2>3, <2>4, <2>5
  <2>7. ASSUME NEW j \in 1 .. Len(s) - 1 PROVE t[j] = IF j < i THEN s[j] ELSE s[j + 1]
    <3>1. t[j] = IF j <= i - 1 THEN u[j] ELSE v[j - (i - 1)]
      BY <2>1, <2>3, <2>4, <2>5
    <3>2. CASE j < i
      <4>1. j \in 1 .. i - 1 /\ j <= i - 1
        BY <1>1, <3>2
      <4> QED
        BY <2>1, <3>1, <3>2, <4>1
    <3>3. CASE ~(j < i)
      <4>1. j - (i - 1) \in 1 .. Len(s) - i /\ ~(j <= i - 1) /\ i + (j - (i - 1)) = j + 1
        BY <1>1, <3>3
      <4> QED
        BY <2>2, <3>1, <3>3, <4>1
    <3> QED
      BY <3>2, <3>3
  <2> QED
    BY <2>6, <2>7
<1> HIDE DEF t
<1>3. IsInjective(t)
  <2> SUFFICES ASSUME NEW a \in DOMAIN t, NEW b \in DOMAIN t, t[a] = t[b] PROVE a = b
    BY DEF IsInjective
  <2>1. \A j, k \in DOMAIN s : s[j] = s[k] => j = k
    BY DEF IsInjective
  <2> QED
    BY <1>1, <1>2, <2>1
<1>4. ASSUME NEW j \in DOMAIN s, s[j] # s[i] PROVE \E a \in DOMAIN t : t[a] = s[j]
  <2>1. CASE j < i
    <3>1. j \in DOMAIN t /\ t[j] = s[j]
      BY <1>1, <1>2, <2>1
    <3> QED
      BY <3>1
  <2>2. CASE j > i
    <3>1. j - 1 \in DOMAIN t /\ t[j - 1] = s[j]
      BY <1>1, <1>2, <2>2
    <3> QED
      BY <3>1
  <2> QED
    BY <1>1, <1>4, <2>1, <2>2
<1>5. \A x \in ToSet(s) : x # s[i] => x \in ToSet(t)
  BY <1>4 DEF ToSet
<1> QED
  BY <1>2, <1>3, <1>5 DEF t

\* A source that is added is in the list, and each source is there once.
LEMMA AddedFacts ==
    ASSUME NEW s \in Sources, registered \in Seq(Sources), IsInjective(registered)
    PROVE  /\ Added(s) \in Seq(Sources) /\ IsInjective(Added(s))
           /\ Registered \cup {s} \subseteq ToSet(Added(s))
<1>1. CASE s \in Registered
  BY <1>1 DEF Added, Registered
<1>2. CASE s \notin Registered
  <2> DEFINE t == Append(registered, s)
             n == Len(registered)
  <2>1. Added(s) = t
    BY <1>2 DEF Added
  <2>2. /\ t \in Seq(Sources) /\ DOMAIN t = 1 .. n + 1 /\ t[n + 1] = s /\ n \in Nat
        /\ DOMAIN registered = 1 .. n /\ \A i \in 1 .. n : t[i] = registered[i]
    OBVIOUS
  <2> HIDE DEF t, n
  <2>3. \A i \in 1 .. n : t[i] # s
    BY <1>2, <2>2 DEF Registered, ToSet
  <2>4. \A i, j \in 1 .. n : t[i] = t[j] => i = j
    BY <2>2 DEF IsInjective
  <2>5. \A i \in DOMAIN t : i \in 1 .. n \/ i = n + 1
    BY <2>2
  <2>6. IsInjective(t)
    BY <2>2, <2>3, <2>4, <2>5 DEF IsInjective
  <2>7. Registered \cup {s} \subseteq ToSet(t)
    <3>1. n + 1 \in DOMAIN t /\ \A i \in DOMAIN registered : i \in DOMAIN t
      BY <2>2
    <3> QED
      BY <2>2, <3>1 DEF Registered, ToSet
  <2> QED
    BY <2>1, <2>2, <2>6, <2>7
<1> QED
  BY <1>1, <1>2

\* What a change of the registrations must leave behind.
Renewed ==
    /\ registered' \in Seq(Sources) /\ IsInjective(registered')
    /\ sourceCache' \in [Sources -> {None} \cup Files]
    /\ \A s \in Sources : sourceCache'[s] # None =>
          sourceCache'[s] = sourceCache[s] /\ s \in ToSet(registered')
    /\ registry' = None /\ signature' = << >>

\* A registration leaves behind what Renewed says.
LEMMA RegistersRenews ==
    ASSUME InvTypes, InvSources, NEW s \in Sources, Registers(s)
    PROVE  Renewed /\ s \in ToSet(registered')
<1>1. /\ registered' \in Seq(Sources) /\ IsInjective(registered')
      /\ Registered \cup {s} \subseteq ToSet(registered')
  BY AddedFacts DEF InvTypes, Registers
<1>2. /\ sourceCache' = [sourceCache EXCEPT ![s] = None] /\ registry' = None /\ signature' = << >>
  BY DEF Registers, Invalidated
<1> QED
  BY <1>1, <1>2 DEF Renewed, InvTypes, InvSources

\* The caches of the sources are as good after a registration as before.
LEMMA RenewedSources ==
    ASSUME InvSources, Renewed, files' = files
    PROVE  InvSources'
  BY DEF InvSources, Renewed, Registered

\* Registering and unregistering between calls.
LEMMA RenewedKeeps ==
    ASSUME Inv, Renewed, call.phase = "idle", UNCHANGED << bodies, call, disk, seen >>
    PROVE  Inv'
<1>1. InvTypes'
  <2>1. << >> \in Signs
    BY DEF Signs
  <2> QED
    BY <2>1 DEF Inv, InvTypes, Renewed, disk
<1>2. InvBodies'
  BY DEF Inv, InvBodies, disk
<1>3. InvSources'
  BY RenewedSources DEF Inv, disk
<1>4. call'.phase = "idle" /\ registry' = None
  BY DEF Renewed
<1> QED
  BY <1>1, <1>2, <1>3, <1>4 DEF Inv, InvCall, InvLoading, InvCached, InvFresh

\* A plugin registers its directory.
LEMMA RegisterKeeps == ASSUME Inv, NEW s \in Sources, Register(s) PROVE Inv'
<1>1. Renewed
  BY RegistersRenews DEF Inv, Register
<1> QED
  BY <1>1, RenewedKeeps DEF Register

\* A plugin's directory is unregistered.
LEMMA UnregisterKeeps == ASSUME Inv, NEW s \in Sources, Unregister(s) PROVE Inv'
<1>1. PICK i \in DOMAIN registered : registered[i] = s /\ registered' = RemoveAt(registered, i)
  BY DEF Unregister, Removes
<1>2. /\ registered' \in Seq(Sources) /\ IsInjective(registered')
      /\ \A x \in Registered : x # s => x \in ToSet(registered')
  BY <1>1, RemovedFacts DEF Inv, InvTypes, Registered
<1>3. Renewed
  BY <1>2 DEF Inv, InvTypes, InvSources, Renewed, Unregister, Invalidated
<1> QED
  BY <1>3, RenewedKeeps DEF Unregister

-----------------------------------------------------------------------------
(* A load of the registry.                                                  *)

\* A load begins, or the cached registry is found good.
LEMMA LoadsKeeps ==
    ASSUME Inv, NEW want \in Wants, NEW force \in BOOLEAN, NEW key \in Keys \cup {None},
           NEW resolved \in Keys \cup {None},
           Loads(want, force, key, resolved), UNCHANGED << bodies, disk >>
    PROVE  Inv'
<1>1. /\ call' = [Idle EXCEPT !.phase = "sign", !.want = want, !.force = force, !.key = key,
                               !.resolved = resolved, !.next = 1]
      /\ seen' = [s \in Sources |-> {files[s].says}]
  BY DEF Loads
<1>2. call' \in CallRecord
  <2>1. "sign" \in Phases /\ 1 \in Nat
    BY DEF Phases
  <2> QED
    BY <1>1, <2>1, IdleType DEF CallRecord
<1>3. /\ call'.phase = "sign" /\ call'.next = 1 /\ call'.signs = << >>
      /\ call'.merged = Nothing
  BY <1>1 DEF Idle
<1>4. /\ registered' \in Seq(Sources) /\ IsInjective(registered') /\ Core \in ToSet(registered')
      /\ sourceCache' \in [Sources -> {None} \cup Files]
      /\ registry' \in Registries \cup {None} /\ signature' \in Signs
      /\ InvSources'
      /\ registry' # None => UNCHANGED << registered, registry, signature >>
  <2>1. CASE Core \in Registered
    BY <2>1 DEF Inv, InvTypes, InvSources, Loads, caches, disk, Registered
  <2>2. CASE Core \notin Registered
    <3>1. Renewed /\ Core \in ToSet(registered')
      BY <2>2, RegistersRenews, TemplatesAssumption DEF Inv, Loads
    <3>2. InvSources'
      BY <3>1, RenewedSources DEF Inv, disk
    <3>3. << >> \in Signs
      BY DEF Signs
    <3> QED
      BY <3>1, <3>2, <3>3 DEF Renewed
  <2> QED
    BY <2>1, <2>2
<1>5. InvTypes'
  BY <1>1, <1>2, <1>4 DEF Inv, InvTypes, disk, Files
<1>6. InvBodies'
  BY DEF Inv, InvBodies, disk
<1>7. InvCall'
  <2>1. 1 \in 1 .. Len(registered') /\ Len(call'.signs) = 0
    <3>1. Len(registered') \in Nat /\ DOMAIN registered' = 1 .. Len(registered')
      BY <1>4
    <3>2. DOMAIN registered' # {}
      BY <1>4 DEF ToSet
    <3> QED
      BY <1>3, <3>1, <3>2
  <2>2. \A s \in Sources : files'[s].says \in seen'[s]
    BY <1>1 DEF disk
  <2>3. registry' # None => Len(signature') = Len(registered') /\ Signed(signature)'
    BY <1>4 DEF Inv, InvCall, Signed, disk
  <2>4. Signed(call.signs)'
    BY <2>1 DEF Signed
  <2> QED
    BY <1>3, <2>1, <2>2, <2>3, <2>4 DEF InvCall
<1>8. InvCached'
  <2> SUFFICES ASSUME registry' # None PROVE InvCached'
    BY DEF InvCached
  <2>1. UNCHANGED << registered, registry, signature, files >>
    BY <1>4 DEF disk
  <2>2. Len(call'.signs) = 0
    BY <1>3
  <2>3. PICK says \in [Sources -> Contents] :
          /\ \A n \in Names : Decided(says, Len(registered), n, registry[n])
          /\ \A i \in 1 .. Len(registered) : Known(says, signature, i)
    BY <2>1 DEF Inv, InvCached
  <2> QED
    BY <2>1, <2>2, <2>3 DEF InvCached, Known, Decided
<1>9. InvLoading' /\ InvFresh'
  BY <1>3 DEF InvLoading, InvFresh
<1> QED
  BY <1>4, <1>5, <1>6, <1>7, <1>8, <1>9 DEF Inv

\* Of the signatures noted so far nothing is lost by noting one more.
LEMMA SignKeeps == ASSUME Inv, Sign PROVE Inv'
<1> PICK k : k = call.next
  OBVIOUS
<1> PICK s : s = This
  OBVIOUS
<1> PICK signs : signs = Append(call.signs, << s, files[s].mtime >>)
  OBVIOUS
<1>1. /\ call.phase = "sign" /\ k \in 1 .. Len(registered) /\ Len(call.signs) = k - 1
      /\ Signed(call.signs) /\ call \in CallRecord /\ call.signs \in Signs
      /\ registered \in Seq(Sources) /\ Len(registered) \in Nat
      /\ \A t \in Sources : files[t].says \in seen[t]
  BY DEF Inv, InvTypes, InvCall, Sign, CallRecord
<1>2. /\ UNCHANGED << registered, registry, signature, sourceCache, bodies, files, texts, seen >>
      /\ call' = [call EXCEPT !.signs = signs, !.next = Following,
                     !.phase = IF ~IsLast THEN "sign"
                               ELSE IF ~call.force /\ registry # None /\ signature = signs
                                    THEN "got" ELSE "stat"]
  BY DEF Sign, caches, disk
<1>3. s = registered[k] /\ s \in Sources /\ files[s].mtime \in Nat
  BY <1>1 DEF This, Inv, InvTypes, Files
<1>4. /\ signs \in Signs /\ Len(signs) = k
      /\ signs[k][1] = s /\ signs[k][2] = files[s].mtime
      /\ \A i \in 1 .. k - 1 : signs[i] = call.signs[i]
  <2>1. << s, files[s].mtime >> \in Sources \X Nat
    BY <1>3
  <2>2. /\ signs \in Seq(Sources \X Nat) /\ Len(signs) = k
        /\ signs[k] = << s, files[s].mtime >>
        /\ \A i \in 1 .. k - 1 : signs[i] = call.signs[i]
    BY <1>1, <2>1 DEF Signs
  <2> QED
    BY <2>2 DEF Signs
<1>5. Signed(signs)
  <2> SUFFICES ASSUME NEW i \in 1 .. Len(signs)
               PROVE  signs[i][1] = registered[i] /\ signs[i][2] <= files[registered[i]].mtime
    BY DEF Signed
  <2>1. CASE i = k
    BY <1>3, <1>4, <2>1
  <2>2. CASE i # k
    <3>1. i \in 1 .. Len(call.signs) /\ i \in 1 .. k - 1
      BY <1>1, <1>4, <2>2
    <3> QED
      BY <1>1, <1>4, <3>1 DEF Signed
  <2> QED
    BY <2>1, <2>2
<1>6. /\ call'.signs = signs /\ call'.next = Following /\ call'.phase \in {"sign", "stat", "got"}
      /\ call'.phase = "sign" => ~IsLast
      /\ call'.phase # "sign" => IsLast
      /\ call'.phase = "got" => registry # None /\ signature = signs
  BY <1>1, <1>2 DEF CallRecord
<1>7. /\ Following \in 1 .. Len(registered)
      /\ IsLast <=> k = Len(registered)
      /\ ~IsLast => Following = k + 1
      /\ IsLast => Following = 1
  BY <1>1 DEF Following, IsLast
<1>8. InvTypes'
  <2>1. call' \in CallRecord
    <3>1. Following \in Nat
      BY <1>1, <1>7
    <3>2. \A p \in {"sign", "stat", "got"} : p \in Phases
      BY DEF Phases
    <3>3. PICK p \in Phases : call' = [call EXCEPT !.signs = signs, !.next = Following, !.phase = p]
      BY <1>2, <3>2
    <3> QED
      BY <1>1, <1>4, <3>1, <3>3 DEF CallRecord
  <2> QED
    BY <1>2, <2>1 DEF Inv, InvTypes
<1>9. InvBodies' /\ InvSources'
  BY <1>2 DEF Inv, InvBodies, InvSources, Registered
<1>10. InvCall'
  <2>1. Signed(call.signs)'
    BY <1>2, <1>5, <1>6 DEF Signed
  <2>2. registry' # None => Len(signature') = Len(registered') /\ Signed(signature)'
    BY <1>2 DEF Inv, InvCall, Signed
  <2>3. call'.phase = "sign" => Len(call'.signs) = call'.next - 1 /\ call'.merged = Nothing
    <3>1. call'.merged = call.merged
      BY <1>1, <1>2 DEF CallRecord
    <3> QED
      BY <1>1, <1>4, <1>6, <1>7, <3>1 DEF Inv, InvCall
  <2>4. call'.phase = "stat" => Len(call'.signs) = Len(registered')
    BY <1>2, <1>4, <1>6, <1>7
  <2>5. call'.phase = "got" => registry' \in Registries
    BY <1>2, <1>6 DEF Inv, InvTypes
  <2> QED
    BY <1>1, <1>2, <1>6, <1>7, <2>1, <2>2, <2>3, <2>4, <2>5 DEF InvCall
<1>11. ASSUME registry # None
       PROVE  \E says \in [Sources -> Contents] :
                /\ \A n \in Names : Decided(says, Len(registered), n, registry[n])
                /\ \A i \in 1 .. Len(registered) :
                      /\ Known(says, signature, i)
                      /\ i \in 1 .. k /\ signs[i] = signature[i] => Current(says, i)
  <2>1. PICK says \in [Sources -> Contents] :
          /\ \A n \in Names : Decided(says, Len(registered), n, registry[n])
          /\ \A i \in 1 .. Len(registered) :
                /\ Known(says, signature, i)
                /\ i \in 1 .. Len(call.signs) /\ call.signs[i] = signature[i]
                      => Current(says, i)
    BY <1>1, <1>11 DEF Inv, InvCached
  <2>2. ASSUME NEW i \in 1 .. Len(registered), i \in 1 .. k, signs[i] = signature[i]
        PROVE  Current(says, i)
    <3>1. CASE i = k
      <4>1. signature[k][2] = files[registered[k]].mtime
        BY <1>3, <1>4, <2>2, <3>1
      <4>2. says[registered[k]] = files[registered[k]].says
        BY <1>1, <2>1, <4>1 DEF Known
      <4> QED
        BY <1>1, <1>3, <3>1, <4>2 DEF Current
    <3>2. CASE i # k
      <4>1. i \in 1 .. Len(call.signs) /\ i \in 1 .. k - 1
        BY <1>1, <2>2, <3>2
      <4> QED
        BY <1>4, <2>1, <2>2, <4>1
    <3> QED
      BY <3>1, <3>2
  <2> QED
    BY <2>1, <2>2
<1>12. InvCached'
  <2> SUFFICES ASSUME registry # None PROVE InvCached'
    BY <1>2 DEF InvCached
  <2>1. PICK says \in [Sources -> Contents] :
          /\ \A n \in Names : Decided(says, Len(registered), n, registry[n])
          /\ \A i \in 1 .. Len(registered) :
                /\ Known(says, signature, i)
                /\ i \in 1 .. k /\ signs[i] = signature[i] => Current(says, i)
    BY <1>11
  <2>2. \A n \in Names : Decided(says, Len(registered), n, registry[n])'
    BY <1>2, <2>1 DEF Decided
  <2>3. \A i \in 1 .. Len(registered') : Known(says, signature, i)'
    BY <1>2, <2>1 DEF Known
  <2>4. ASSUME NEW i \in 1 .. Len(registered'), i \in 1 .. Len(call'.signs),
               call'.signs[i] = signature'[i]
        PROVE  Current(says, i)'
    BY <1>2, <1>4, <1>6, <2>1, <2>4 DEF Current
  <2> QED
    BY <2>2, <2>3, <2>4 DEF InvCached
<1>13. InvFresh'
  <2> SUFFICES ASSUME call'.phase = "got" PROVE InvFresh'
    BY DEF InvFresh
  <2>1. registry # None /\ signature = signs /\ k = Len(registered)
    BY <1>6, <1>7
  <2>2. PICK says \in [Sources -> Contents] :
          /\ \A n \in Names : Decided(says, Len(registered), n, registry[n])
          /\ \A i \in 1 .. Len(registered) : Current(says, i)
    BY <1>11, <2>1
  <2>3. \A n \in Names : Decided(says, Len(registered), n, registry[n])'
    BY <1>2, <2>2 DEF Decided
  <2>4. \A i \in 1 .. Len(registered') : Current(says, i)'
    BY <1>2, <2>2 DEF Current
  <2> QED
    BY <2>3, <2>4 DEF InvFresh
<1>14. InvLoading'
  <2> SUFFICES ASSUME call'.phase = "stat" PROVE InvLoading'
    BY <1>6 DEF InvLoading
  <2>1. call'.next = 1
    BY <1>6, <1>7
  <2>2. call'.merged = Nothing
    BY <1>1, <1>2 DEF CallRecord, Inv, InvCall
  <2>3. [t \in Sources |-> Nothing] \in [Sources -> Contents]
    BY NothingTypes
  <2>4. PICK says \in [Sources -> Contents] : TRUE
    BY <2>3
  <2>5. 1 .. call'.next - 1 = {}
    BY <2>1
  <2>6. \A n \in Names : call'.merged[n] = None
    BY <2>2 DEF Nothing
  <2>7. \A n \in Names : Decided(says, call.next - 1, n, call.merged[n])'
    BY <2>5, <2>6 DEF Decided
  <2>8. \A i \in 1 .. call'.next - 1 : (Current(says, i) /\ Known(says, call.signs, i))'
    BY <2>5
  <2> QED
    BY <2>7, <2>8 DEF InvLoading
<1> QED
  BY <1>8, <1>9, <1>10, <1>12, <1>13, <1>14 DEF Inv

\* One source more: what it says of a name replaces what the ones before said.
LEMMA OverDecided ==
    ASSUME InvTypes, NEW k \in 1 .. Len(registered), NEW merged \in Registries,
           NEW x \in Contents, NEW says \in [Sources -> Contents],
           \A n \in Names : Decided(says, k - 1, n, merged[n])
    PROVE  /\ Over(merged, registered[k], x) \in Registries
           /\ \E over \in [Sources -> Contents] :
                /\ over[registered[k]] = x
                /\ \A i \in 1 .. k - 1 : over[registered[i]] = says[registered[i]]
                /\ \A n \in Names : Decided(over, k, n, Over(merged, registered[k], x)[n])
<1> PICK s \in Sources : s = registered[k]
  BY DEF InvTypes
<1> PICK over : over = [says EXCEPT ![s] = x]
  OBVIOUS
<1> PICK both : both = Over(merged, s, x)
  OBVIOUS
<1>1. /\ Len(registered) \in Nat /\ k \in Nat /\ k - 1 \in Nat
      /\ \A i \in 1 .. k - 1 : registered[i] \in Sources /\ registered[i] # s
  <2>1. /\ registered \in Seq(Sources) /\ Len(registered) \in Nat
        /\ DOMAIN registered = 1 .. Len(registered)
    BY DEF InvTypes
  <2>2. \A i, j \in DOMAIN registered : registered[i] = registered[j] => i = j
    BY DEF InvTypes, IsInjective
  <2> QED
    BY <2>1, <2>2
<1>2. /\ over \in [Sources -> Contents] /\ over[s] = x
      /\ \A i \in 1 .. k - 1 : over[registered[i]] = says[registered[i]]
  BY <1>1
<1>3. \A n \in Names : both[n] = IF x[n] # None THEN [id |-> x[n], root |-> s] ELSE merged[n]
  BY DEF Over
<1>4. both \in Registries
  <2>1. ASSUME NEW n \in Names
        PROVE  (IF x[n] # None THEN [id |-> x[n], root |-> s] ELSE merged[n])
               \in Entries \cup {None}
    <3>1. x[n] \in Ids \cup {None} /\ merged[n] \in Entries \cup {None}
      BY DEF Contents, Registries
    <3> QED
      BY <3>1 DEF Entries
  <2> QED
    BY <2>1 DEF Over, Registries
<1>5. ASSUME NEW n \in Names PROVE Decided(over, k, n, both[n])
  <2>1. CASE x[n] # None
    <3>1. k + 1 .. k = {}
      BY <1>1
    <3>2. k \in 1 .. k
      BY <1>1
    <3> QED
      BY <1>2, <1>3, <2>1, <3>1, <3>2 DEF Decided
  <2>2. CASE x[n] = None
    <3>1. both[n] = merged[n] /\ Decided(says, k - 1, n, merged[n])
      BY <1>3, <2>2
    <3>2. \A i \in 1 .. k : i \in 1 .. k - 1 \/ i = k
      BY <1>1
    <3>3. CASE merged[n] = None /\ \A i \in 1 .. k - 1 : says[registered[i]][n] = None
      BY <1>2, <2>2, <3>1, <3>2, <3>3 DEF Decided
    <3>4. CASE \E i \in 1 .. k - 1 :
                 /\ says[registered[i]][n] # None
                 /\ \A j \in i + 1 .. k - 1 : says[registered[j]][n] = None
                 /\ merged[n] = [id |-> says[registered[i]][n], root |-> registered[i]]
      <4>1. PICK i \in 1 .. k - 1 :
               /\ says[registered[i]][n] # None
               /\ \A j \in i + 1 .. k - 1 : says[registered[j]][n] = None
               /\ merged[n] = [id |-> says[registered[i]][n], root |-> registered[i]]
        BY <3>4
      <4>2. i \in 1 .. k
        BY <1>1
      <4>3. \A j \in i + 1 .. k : over[registered[j]][n] = None
        <5>1. \A j \in i + 1 .. k : (j \in i + 1 .. k - 1 /\ j \in 1 .. k - 1) \/ j = k
          BY <1>1
        <5> QED
          BY <1>2, <2>2, <4>1, <5>1
      <4>4. over[registered[i]] = says[registered[i]]
        BY <1>2
      <4> QED
        BY <3>1, <4>1, <4>2, <4>3, <4>4 DEF Decided
    <3> QED
      BY <3>1, <3>3, <3>4 DEF Decided
  <2> QED
    BY <2>1, <2>2
<1> QED
  BY <1>2, <1>4, <1>5

\* The next source has been looked at: it says what its file says.
LEMMA MergesKeeps ==
    ASSUME Inv, call.phase \in {"stat", "read"}, Merges(files[This].says), InvSources',
           sourceCache' \in [Sources -> {None} \cup Files],
           UNCHANGED << registered, bodies, files, texts, seen >>
    PROVE  Inv'
<1> PICK k : k = call.next
  OBVIOUS
<1> PICK s : s = This
  OBVIOUS
<1> PICK x : x = files[s].says
  OBVIOUS
<1> PICK both : both = Over(call.merged, s, x)
  OBVIOUS
<1>1. /\ k \in 1 .. Len(registered) /\ Len(registered) \in Nat /\ registered \in Seq(Sources)
      /\ call \in CallRecord /\ call.merged \in Registries /\ call.signs \in Signs
      /\ Len(call.signs) = Len(registered) /\ Signed(call.signs)
      /\ \A t \in Sources : files[t].says \in seen[t]
  BY DEF Inv, InvTypes, InvCall, CallRecord
<1>2. s = registered[k] /\ s \in Sources /\ x \in Contents /\ x \in seen[s]
  BY <1>1 DEF This, Inv, InvTypes, Files
<1>3. /\ call' = [call EXCEPT !.merged = IF IsLast THEN Nothing ELSE both, !.next = Following,
                              !.mtime = 0, !.phase = IF IsLast THEN "got" ELSE "stat"]
      /\ IF IsLast THEN Stored(both) ELSE UNCHANGED << registry, signature >>
  BY DEF Merges
<1>4. /\ Following \in 1 .. Len(registered)
      /\ IsLast <=> k = Len(registered)
      /\ ~IsLast => Following = k + 1
  BY <1>1 DEF Following, IsLast
<1>5. /\ both \in Registries
      /\ \E says \in [Sources -> Contents] :
            /\ \A n \in Names : Decided(says, k, n, both[n])
            /\ \A i \in 1 .. k : Current(says, i) /\ Known(says, call.signs, i)
  <2>1. PICK old \in [Sources -> Contents] :
          /\ \A n \in Names : Decided(old, k - 1, n, call.merged[n])
          /\ \A i \in 1 .. k - 1 : Current(old, i) /\ Known(old, call.signs, i)
    BY DEF Inv, InvLoading
  <2>2. /\ both \in Registries
        /\ \E says \in [Sources -> Contents] :
              /\ says[registered[k]] = x
              /\ \A i \in 1 .. k - 1 : says[registered[i]] = old[registered[i]]
              /\ \A n \in Names : Decided(says, k, n, both[n])
    <3>1. PICK merged \in Registries : merged = call.merged
      BY <1>1
    <3>2. InvTypes /\ \A n \in Names : Decided(old, k - 1, n, merged[n])
      BY <2>1, <3>1 DEF Inv
    <3>3. both = Over(merged, s, x)
      BY <3>1
    <3>4. k \in 1 .. Len(registered) /\ s = registered[k] /\ x \in Contents
      BY <1>1, <1>2
    <3> QED
      <4>1. InvTypes
        BY <3>2
      <4>2. merged \in Registries /\ x \in Contents /\ old \in [Sources -> Contents]
        BY <3>4
      <4>3. \A n \in Names : Decided(old, k - 1, n, merged[n])
        BY <3>2
      <4>4. k \in 1 .. Len(registered)
        BY <3>4
      <4>5. /\ Over(merged, registered[k], x) \in Registries
           /\ \E over \in [Sources -> Contents] :
                /\ over[registered[k]] = x
                /\ \A i \in 1 .. k - 1 : over[registered[i]] = old[registered[i]]
                /\ \A n \in Names : Decided(over, k, n, Over(merged, registered[k], x)[n])
        BY <4>1, <4>2, <4>3, <4>4, OverDecided
      <4>6. both = Over(merged, registered[k], x)
        BY <3>3, <3>4
      <4> QED
        BY <4>5, <4>6
  <2>3. PICK says \in [Sources -> Contents] :
          /\ says[registered[k]] = x
          /\ \A i \in 1 .. k - 1 : says[registered[i]] = old[registered[i]]
          /\ \A n \in Names : Decided(says, k, n, both[n])
    BY <2>2
  <2>4. \A i \in 1 .. k : i \in 1 .. k - 1 \/ i = k
    BY <1>1
  <2>5. ASSUME NEW i \in 1 .. k PROVE Current(says, i) /\ Known(says, call.signs, i)
    <3>1. CASE i = k
      BY <1>2, <2>3, <3>1 DEF Current, Known
    <3>2. CASE i \in 1 .. k - 1
      BY <2>1, <2>3, <3>2 DEF Current, Known
    <3> QED
      BY <2>4, <3>1, <3>2
  <2> QED
    BY <2>2, <2>3, <2>5
<1>6. PICK says \in [Sources -> Contents] :
        /\ \A n \in Names : Decided(says, k, n, both[n])
        /\ \A i \in 1 .. k : Current(says, i) /\ Known(says, call.signs, i)
  BY <1>5
<1>7. /\ call' \in CallRecord /\ call'.signs = call.signs /\ call'.next = Following
      /\ call'.merged = (IF IsLast THEN Nothing ELSE both)
      /\ call'.phase = (IF IsLast THEN "got" ELSE "stat")
  <2>1. PICK m \in Registries : m = IF IsLast THEN Nothing ELSE both
    BY <1>5, NothingTypes
  <2>2. PICK p \in Phases : p = IF IsLast THEN "got" ELSE "stat"
    BY DEF Phases
  <2>3. Following \in Nat
    BY <1>1, <1>4
  <2>4. call' = [call EXCEPT !.merged = m, !.next = Following, !.mtime = 0, !.phase = p]
    BY <1>3, <2>1, <2>2
  <2> QED
    BY <1>1, <2>1, <2>2, <2>3, <2>4 DEF CallRecord
<1>8. InvBodies'
  BY DEF Inv, InvBodies
<1>9. CASE IsLast
  <2>1. /\ registry' = both /\ signature' = call.signs /\ k = Len(registered)
        /\ call'.phase = "got"
    BY <1>3, <1>4, <1>7, <1>9 DEF Stored
  <2>2. InvTypes'
    BY <1>1, <1>5, <1>7, <2>1 DEF Inv, InvTypes
  <2>3. InvCall'
    <3>1. Signed(signature)'
      BY <1>1, <2>1 DEF Signed
    <3> QED
      BY <1>1, <1>5, <2>1, <3>1 DEF InvCall
  <2>4. InvLoading'
    BY <2>1 DEF InvLoading
  <2>5. \A n \in Names : Decided(says, Len(registered), n, registry[n])'
    BY <1>6, <2>1 DEF Decided
  <2>6. \A i \in 1 .. Len(registered') : Current(says, i)' /\ Known(says, signature, i)'
    BY <1>6, <2>1 DEF Current, Known
  <2>7. InvCached'
    BY <2>1, <2>5, <2>6 DEF InvCached
  <2>8. InvFresh'
    BY <2>5, <2>6 DEF InvFresh
  <2> QED
    BY <1>8, <2>2, <2>3, <2>4, <2>7, <2>8 DEF Inv
<1>10. CASE ~IsLast
  <2>1. /\ UNCHANGED << registry, signature >> /\ call'.phase = "stat" /\ call'.next = k + 1
        /\ call'.merged = both
    BY <1>3, <1>4, <1>7, <1>10
  <2>2. InvTypes'
    BY <1>7, <2>1 DEF Inv, InvTypes
  <2>3. InvCall'
    <3>1. Signed(call.signs)'
      BY <1>1, <1>7 DEF Signed
    <3>2. registry' # None => Len(signature') = Len(registered') /\ Signed(signature)'
      BY <2>1 DEF Inv, InvCall, Signed
    <3> QED
      BY <1>1, <1>4, <1>7, <2>1, <3>1, <3>2 DEF InvCall
  <2>4. InvLoading'
    <3>1. call'.next - 1 = k
      BY <1>1, <2>1
    <3>2. \A n \in Names : Decided(says, call.next - 1, n, call.merged[n])'
      BY <1>6, <2>1, <3>1 DEF Decided
    <3>3. \A i \in 1 .. call'.next - 1 : (Current(says, i) /\ Known(says, call.signs, i))'
      BY <1>6, <1>7, <3>1 DEF Current, Known
    <3> QED
      BY <3>2, <3>3 DEF InvLoading
  <2>5. InvCached'
    <3> SUFFICES ASSUME registry' # None PROVE InvCached'
      BY DEF InvCached
    <3>1. PICK old \in [Sources -> Contents] :
            /\ \A n \in Names : Decided(old, Len(registered), n, registry[n])
            /\ \A i \in 1 .. Len(registered) : Known(old, signature, i)
      BY <2>1 DEF Inv, InvCached
    <3>2. \A n \in Names : Decided(old, Len(registered), n, registry[n])'
      BY <2>1, <3>1 DEF Decided
    <3>3. \A i \in 1 .. Len(registered') : Known(old, signature, i)'
      BY <2>1, <3>1 DEF Known
    <3> QED
      BY <2>1, <3>2, <3>3 DEF InvCached
  <2>6. InvFresh'
    BY <2>1 DEF InvFresh
  <2> QED
    BY <1>8, <2>2, <2>3, <2>4, <2>5, <2>6 DEF Inv
<1> QED
  BY <1>9, <1>10

\* The time of the next source's file is looked at.
LEMMA StatKeeps == ASSUME Inv, Stat PROVE Inv'
<1> PICK s : s = This
  OBVIOUS
<1> PICK cached : cached = sourceCache[s]
  OBVIOUS
<1>1. /\ call.phase = "stat" /\ call \in CallRecord /\ registered \in Seq(Sources)
      /\ call.next \in 1 .. Len(registered) /\ Len(registered) \in Nat
      /\ UNCHANGED << registered, sourceCache, bodies, files, texts, seen >>
  BY DEF Inv, InvTypes, InvCall, Stat, disk
<1>2. s \in Sources /\ files[s] \in Files /\ files[s].mtime \in Nat
  BY <1>1 DEF This, Inv, InvTypes, Files
<1>3. InvSources' /\ sourceCache' \in [Sources -> {None} \cup Files]
  BY <1>1 DEF Inv, InvSources, InvTypes, Registered
<1>4. CASE ~call.force /\ cached # None /\ cached.mtime = files[s].mtime
  <2>1. Merges(cached.says)
    BY <1>4 DEF Stat
  <2>2. cached.says = files[s].says
    BY <1>2, <1>4 DEF Inv, InvSources
  <2> QED
    BY <1>1, <1>3, <2>1, <2>2, MergesKeeps
<1>5. CASE ~(~call.force /\ cached # None /\ cached.mtime = files[s].mtime)
  <2>1. /\ call' = [call EXCEPT !.phase = "read", !.mtime = files[s].mtime]
        /\ UNCHANGED << registry, signature >>
    BY <1>5 DEF Stat
  <2>2. "read" \in Phases
    BY DEF Phases
  <2>3. /\ call' \in CallRecord /\ call'.phase = "read" /\ call'.mtime = files[s].mtime
        /\ call'.next = call.next /\ call'.signs = call.signs /\ call'.merged = call.merged
    BY <1>1, <1>2, <2>1, <2>2 DEF CallRecord
  <2>4. InvTypes' /\ InvBodies'
    BY <1>1, <2>1, <2>3 DEF Inv, InvTypes, InvBodies
  <2>5. InvCall'
    <3>1. This' = s
      BY <1>1, <2>3 DEF This
    <3>2. Signed(call.signs)' /\ call'.next \in 1 .. Len(registered')
      BY <1>1, <2>3 DEF Signed, Inv, InvCall
    <3>3. registry' # None => Len(signature') = Len(registered') /\ Signed(signature)'
      BY <1>1, <2>1 DEF Inv, InvCall, Signed
    <3>4. Len(call'.signs) = Len(registered')
      BY <1>1, <2>3 DEF Inv, InvCall
    <3>5. call'.mtime <= files'[This'].mtime
      BY <1>1, <1>2, <2>3, <3>1
    <3>6. \A t \in Sources : files'[t].says \in seen'[t]
      BY <1>1 DEF Inv, InvCall
    <3> QED
      BY <2>3, <3>2, <3>3, <3>4, <3>5, <3>6 DEF InvCall
  <2>6. InvLoading'
    <3>1. PICK says \in [Sources -> Contents] :
            /\ \A n \in Names : Decided(says, call.next - 1, n, call.merged[n])
            /\ \A i \in 1 .. call.next - 1 : Current(says, i) /\ Known(says, call.signs, i)
      BY <1>1 DEF Inv, InvLoading
    <3>2. \A n \in Names : Decided(says, call.next - 1, n, call.merged[n])'
      BY <1>1, <2>3, <3>1 DEF Decided
    <3>3. \A i \in 1 .. call'.next - 1 : (Current(says, i) /\ Known(says, call.signs, i))'
      BY <1>1, <2>3, <3>1 DEF Current, Known
    <3> QED
      BY <3>2, <3>3 DEF InvLoading
  <2>7. InvCached'
    <3> SUFFICES ASSUME registry' # None PROVE InvCached'
      BY DEF InvCached
    <3>1. PICK says \in [Sources -> Contents] :
            /\ \A n \in Names : Decided(says, Len(registered), n, registry[n])
            /\ \A i \in 1 .. Len(registered) : Known(says, signature, i)
      BY <2>1 DEF Inv, InvCached
    <3>2. \A n \in Names : Decided(says, Len(registered), n, registry[n])'
      BY <1>1, <2>1, <3>1 DEF Decided
    <3>3. \A i \in 1 .. Len(registered') : Known(says, signature, i)'
      BY <1>1, <2>1, <3>1 DEF Known
    <3> QED
      BY <2>3, <3>2, <3>3 DEF InvCached
  <2>8. InvFresh'
    BY <2>3 DEF InvFresh
  <2> QED
    BY <1>3, <2>4, <2>5, <2>6, <2>7, <2>8 DEF Inv
<1> QED
  BY <1>4, <1>5

\* The file of the next source is read.
LEMMA ReadKeeps == ASSUME Inv, Read PROVE Inv'
<1> PICK s : s = This
  OBVIOUS
<1> PICK new : new = [mtime |-> call.mtime, says |-> files[s].says]
  OBVIOUS
<1>1. /\ call.phase = "read" /\ call \in CallRecord /\ registered \in Seq(Sources)
      /\ call.next \in 1 .. Len(registered) /\ Len(registered) \in Nat
      /\ call.mtime \in Nat /\ call.mtime <= files[s].mtime
      /\ UNCHANGED << registered, bodies, files, texts, seen >>
      /\ sourceCache' = [sourceCache EXCEPT ![s] = new] /\ Merges(files[s].says)
  BY DEF Inv, InvTypes, InvCall, CallRecord, Read, disk
<1>2. s \in Sources /\ files[s] \in Files /\ s \in Registered
  BY <1>1 DEF This, Inv, InvTypes, Registered, ToSet
<1>3. new \in Files /\ new.mtime = call.mtime /\ new.says = files[s].says
  BY <1>1, <1>2 DEF Files
<1>4. sourceCache' \in [Sources -> {None} \cup Files]
  BY <1>1, <1>3 DEF Inv, InvTypes
<1>5. InvSources'
  <2> SUFFICES ASSUME NEW t \in Sources, sourceCache'[t] # None
               PROVE  /\ t \in Registered /\ sourceCache'[t] \in Files
                      /\ sourceCache'[t].mtime <= files[t].mtime
                      /\ sourceCache'[t].mtime = files[t].mtime
                            => sourceCache'[t].says = files[t].says
    BY <1>1 DEF InvSources, Registered
  <2>1. CASE t = s
    <3>1. sourceCache'[t] = new
      BY <1>1, <1>2, <2>1 DEF Inv, InvTypes
    <3> QED
      BY <1>1, <1>2, <1>3, <2>1, <3>1
  <2>2. CASE t # s
    <3>1. sourceCache'[t] = sourceCache[t]
      BY <1>1, <2>2 DEF Inv, InvTypes
    <3> QED
      BY <3>1 DEF Inv, InvSources
  <2> QED
    BY <2>1, <2>2
<1> QED
  BY <1>1, <1>4, <1>5, MergesKeeps

-----------------------------------------------------------------------------
(* What the registry is asked for.                                          *)

\* A call ends.
LEMMA ReturnsKeeps == ASSUME Inv, Returns, UNCHANGED disk, InvBodies' PROVE Inv'
<1>1. /\ call' = Idle /\ seen' = Unread /\ call'.phase = "idle"
      /\ UNCHANGED << registered, sourceCache, registry, signature, files, texts >>
  BY IdleType DEF Returns, caches, disk
<1>2. InvTypes'
  <2>1. Unread \in [Sources -> SUBSET Contents]
    BY DEF Unread
  <2> QED
    BY <1>1, <2>1, IdleType DEF Inv, InvTypes
<1>3. InvSources'
  BY <1>1 DEF Inv, InvSources, Registered
<1>4. InvCall'
  <2>1. registry' # None => Len(signature') = Len(registered') /\ Signed(signature)'
    BY <1>1 DEF Inv, InvCall, Signed
  <2> QED
    BY <1>1, <2>1 DEF InvCall
<1>5. InvCached'
  <2> SUFFICES ASSUME registry' # None PROVE InvCached'
    BY DEF InvCached
  <2>1. PICK says \in [Sources -> Contents] :
          /\ \A n \in Names : Decided(says, Len(registered), n, registry[n])
          /\ \A i \in 1 .. Len(registered) : Known(says, signature, i)
    BY <1>1 DEF Inv, InvCached
  <2>2. \A n \in Names : Decided(says, Len(registered), n, registry[n])'
    BY <1>1, <2>1 DEF Decided
  <2>3. \A i \in 1 .. Len(registered') : Known(says, signature, i)'
    BY <1>1, <2>1 DEF Known
  <2> QED
    BY <1>1, <2>2, <2>3 DEF InvCached
<1>6. InvLoading' /\ InvFresh'
  BY <1>1 DEF InvLoading, InvFresh
<1> QED
  BY <1>2, <1>3, <1>4, <1>5, <1>6 DEF Inv

\* The registry is returned to the caller.
LEMMA GiveKeeps == ASSUME Inv, Give PROVE Inv'
<1>1. Returns /\ UNCHANGED disk
  BY DEF Give
<1>2. InvBodies'
  BY DEF Inv, InvBodies, Give, disk
<1> QED
  BY <1>1, <1>2, ReturnsKeeps

\* The body of a template is put in its cache.
LEMMA KeepsKeeps ==
    ASSUME Inv, NEW id, NEW root \in Sources, Keeps(id, root), UNCHANGED disk
    PROVE  Inv'
<1> PICK body : body = [id |-> id, root |-> root, version |-> texts[root][id]]
  OBVIOUS
<1>1. /\ Returns /\ texts' = texts
      /\ bodies' = IF id \notin Ids \/ texts[root][id] = 0 THEN bodies
                   ELSE [bodies EXCEPT ![call.key] = body, ![call.resolved] = body]
  BY DEF Keeps, disk
<1>2. CASE id \notin Ids \/ texts[root][id] = 0
  BY <1>1, <1>2, ReturnsKeeps DEF Inv, InvBodies
<1>3. CASE ~(id \notin Ids \/ texts[root][id] = 0)
  <2>1. id \in Ids /\ texts[root][id] \in 1 .. MaxEdits + 1
    <3>1. texts[root][id] \in 0 .. MaxEdits + 1 /\ MaxEdits \in Nat
      BY <1>3, TemplatesAssumption DEF Inv, InvBodies
    <3> QED
      BY <1>3, <3>1
  <2>2. body \in Bodies /\ body.id = id /\ body.root = root /\ body.version = texts[root][id]
    BY <2>1 DEF Bodies, Keys
  <2>3. /\ bodies' \in [Keys -> {None} \cup Bodies]
        /\ \A k \in Keys : bodies'[k] = bodies[k] \/ bodies'[k] = body
    BY <1>1, <1>3, <2>2 DEF Inv, InvBodies
  <2>4. body.version <= texts[body.root][body.id]
    BY <2>1, <2>2
  <2>5. InvBodies'
    BY <1>1, <2>2, <2>3, <2>4 DEF Inv, InvBodies
  <2> QED
    BY <1>1, <2>5, ReturnsKeeps
<1> QED
  BY <1>2, <1>3

\* What a registry says of a name is entries.
LEMMA EntriesOfTypes ==
    ASSUME registry \in Registries, NEW key, NEW entry \in EntriesOf(key)
    PROVE  entry \in Entries
<1>1. PICK n \in Names : registry[n] # None /\ entry = registry[n]
  BY DEF EntriesOf
<1>2. registry[n] \in Entries \cup {None}
  BY DEF Registries
<1> QED
  BY <1>1, <1>2

\* A call begins.
LEMMA AsksKeep ==
    ASSUME Inv, (\E force \in BOOLEAN : AskRegistry(force)) \/ \E key \in Keys : AskBody(key)
    PROVE  Inv'
<1>1. ASSUME NEW force \in BOOLEAN, AskRegistry(force) PROVE Inv'
  <2>1. Loads("registry", force, None, None) /\ UNCHANGED << bodies, disk >>
    BY <1>1 DEF AskRegistry
  <2> QED
    BY <2>1, LoadsKeeps DEF Wants
<1>2. ASSUME NEW key \in Keys, AskBody(key) PROVE Inv'
  <2>1. Loads("resolve", FALSE, key, None) /\ UNCHANGED << bodies, disk >>
    BY <1>2 DEF AskBody
  <2> QED
    BY <2>1, LoadsKeeps DEF Wants
<1> QED
  BY <1>1, <1>2

\* A name is looked up in the registry.
LEMMA ResolveKeeps == ASSUME Inv, Resolve PROVE Inv'
<1>1. /\ UNCHANGED << bodies, disk >> /\ registry \in Registries
      /\ call.key \in Keys \cup {None}
  BY DEF Inv, InvTypes, InvCall, CallRecord, Resolve
<1>2. PICK id \in Resolved(call.key) :
        IF bodies[id] # None THEN Returns ELSE Loads("entry", FALSE, call.key, id)
  BY DEF Resolve
<1>3. id \in Keys \cup {None}
  <2>1. CASE EntriesOf(call.key) = {}
    BY <1>1, <1>2, <2>1 DEF Resolved
  <2>2. CASE EntriesOf(call.key) # {}
    <3>1. PICK entry \in EntriesOf(call.key) : id = entry.id
      BY <1>2, <2>2 DEF Resolved
    <3>2. entry \in Entries
      BY <1>1, EntriesOfTypes
    <3> QED
      BY <3>1, <3>2 DEF Entries, Keys
  <2> QED
    BY <2>1, <2>2
<1>4. CASE bodies[id] # None
  <2>1. InvBodies'
    BY <1>1 DEF Inv, InvBodies, disk
  <2> QED
    BY <1>1, <1>2, <1>4, <2>1, ReturnsKeeps
<1>5. CASE bodies[id] = None
  <2>1. Loads("entry", FALSE, call.key, id)
    BY <1>2, <1>5
  <2>2. PICK key \in Keys \cup {None} : key = call.key
    BY <1>1
  <2> QED
    BY <1>1, <1>3, <2>1, <2>2, LoadsKeeps DEF Wants
<1> QED
  BY <1>4, <1>5

\* The text of a template is read.
LEMMA OpenKeeps == ASSUME Inv, Open PROVE Inv'
<1>1. PICK key : key = IF call.want = "entry" THEN call.key ELSE call.resolved
  OBVIOUS
<1>2. PICK entry \in EntriesOf(key) : Keeps(entry.id, entry.root)
  BY <1>1 DEF Open
<1>3. registry \in Registries /\ UNCHANGED disk
  BY DEF Inv, InvCall, Open
<1>4. entry.root \in Sources
  BY <1>3, EntriesOfTypes DEF Entries
<1> QED
  BY <1>2, <1>3, <1>4, KeepsKeeps

\* No entry has the name any more: a load for the id that it stood for.
LEMMA RetryKeeps == ASSUME Inv, Retry PROVE Inv'
<1>1. /\ Loads("retry", FALSE, call.key, call.resolved) /\ UNCHANGED << bodies, disk >>
      /\ call.key \in Keys \cup {None} /\ call.resolved \in Keys \cup {None}
  BY DEF Inv, InvTypes, CallRecord, Retry
<1>2. PICK key \in Keys \cup {None}, resolved \in Keys \cup {None} :
        key = call.key /\ resolved = call.resolved
  BY <1>1
<1> QED
  BY <1>1, <1>2, LoadsKeeps DEF Wants

\* No entry has the id either: the directories are searched for its text.
LEMMA SearchKeeps == ASSUME Inv, Search PROVE Inv'
<1>1. UNCHANGED disk /\ registered \in Seq(Sources)
  BY DEF Inv, InvTypes, Search
<1>2. CASE Returns /\ UNCHANGED bodies
  <2>1. InvBodies'
    BY <1>1, <1>2 DEF Inv, InvBodies, disk
  <2> QED
    BY <1>1, <1>2, <2>1, ReturnsKeeps
<1>3. CASE \E i \in DOMAIN registered : Keeps(call.resolved, registered[i])
  <2>1. PICK i \in DOMAIN registered : Keeps(call.resolved, registered[i])
    BY <1>3
  <2>2. PICK root \in Sources : root = registered[i]
    BY <1>1
  <2>3. PICK id : id = call.resolved
    OBVIOUS
  <2> QED
    BY <1>1, <2>1, <2>2, <2>3, KeepsKeeps
<1> QED
  BY <1>2, <1>3 DEF Search

-----------------------------------------------------------------------------
(* Somebody edits the files.                                                *)

\* A signature is of the past, so an edit can only make it out of date.
LEMMA KnownKept ==
    ASSUME NEW signs \in Signs, NEW i \in 1 .. Len(signs), NEW says, NEW s \in Sources,
           NEW new \in Files,
           registered \in Seq(Sources), Len(signs) = Len(registered),
           files \in [Sources -> Files], UNCHANGED registered,
           files' = [files EXCEPT ![s] = new], files[s].mtime < new.mtime,
           signs[i][2] <= files[registered[i]].mtime, Known(says, signs, i)
    PROVE  Known(says, signs, i)' /\ signs[i][2] <= files'[registered[i]].mtime
<1>1. registered[i] \in Sources /\ i \in DOMAIN registered /\ signs[i] \in Sources \X Nat
  BY DEF Signs
<1>2. /\ signs[i][2] \in Nat /\ files[s].mtime \in Nat /\ new.mtime \in Nat
      /\ files[registered[i]].mtime \in Nat
  BY <1>1 DEF Files
<1>3. CASE registered[i] = s
  <2>1. files'[registered[i]] = new
    BY <1>3
  <2>2. signs[i][2] < files'[registered[i]].mtime /\ signs[i][2] # files'[registered[i]].mtime
    BY <1>2, <1>3, <2>1
  <2> QED
    BY <1>2, <2>1, <2>2 DEF Known
<1>4. CASE registered[i] # s
  <2>1. files'[registered[i]] = files[registered[i]]
    BY <1>1, <1>4
  <2> QED
    BY <2>1 DEF Known
<1> QED
  BY <1>3, <1>4

\* The file of a source is edited.
LEMMA EditRegistryKeeps ==
    ASSUME Inv, NEW s \in Sources, NEW says \in Contents, EditRegistry(s, says)
    PROVE  Inv'
<1> PICK new : new = [mtime |-> files[s].mtime + 1, says |-> says]
  OBVIOUS
<1>1. /\ files' = [files EXCEPT ![s] = new]
      /\ seen' = [seen EXCEPT ![s] = IF call.phase = "idle" THEN {} ELSE @ \cup {says}]
      /\ UNCHANGED << registered, sourceCache, registry, signature, bodies, call, texts >>
      /\ files \in [Sources -> Files] /\ files[s].mtime \in Nat
      /\ registered \in Seq(Sources) /\ Len(registered) \in Nat
      /\ DOMAIN registered = 1 .. Len(registered)
  BY DEF Inv, InvTypes, Files, EditRegistry, caches
<1>2. /\ new \in Files /\ new.mtime = files[s].mtime + 1 /\ new.says = says
      /\ files[s].mtime < new.mtime
  BY <1>1 DEF Files
<1>3. /\ \A t \in Sources : files[t].mtime <= files'[t].mtime
      /\ files' \in [Sources -> Files]
  <2>1. ASSUME NEW t \in Sources PROVE files[t].mtime <= files'[t].mtime
    <3>1. files[t].mtime \in Nat /\ (t # s => files'[t] = files[t]) /\ files'[s] = new
      BY <1>1 DEF Files
    <3> QED
      BY <1>1, <1>2, <3>1
  <2> QED
    BY <1>1, <1>2, <2>1
<1>4. InvTypes'
  <2>1. seen' \in [Sources -> SUBSET Contents]
    BY <1>1 DEF Inv, InvTypes
  <2> QED
    BY <1>1, <1>3, <2>1 DEF Inv, InvTypes
<1>5. InvBodies'
  BY <1>1 DEF Inv, InvBodies
<1>6. InvSources'
  <2> SUFFICES ASSUME NEW t \in Sources, sourceCache[t] # None
               PROVE  /\ t \in Registered /\ sourceCache[t] \in Files
                      /\ sourceCache[t].mtime <= files'[t].mtime
                      /\ sourceCache[t].mtime = files'[t].mtime
                            => sourceCache[t].says = files'[t].says
    BY <1>1 DEF InvSources, Registered
  <2>1. /\ t \in Registered /\ sourceCache[t] \in Files /\ sourceCache[t].mtime \in Nat
        /\ sourceCache[t].mtime <= files[t].mtime
        /\ sourceCache[t].mtime = files[t].mtime => sourceCache[t].says = files[t].says
    BY DEF Inv, InvSources, Files
  <2>2. CASE t = s
    BY <1>1, <1>2, <2>1, <2>2
  <2>3. CASE t # s
    BY <1>1, <2>1, <2>3
  <2> QED
    BY <2>2, <2>3
<1>7. ASSUME NEW w \in [Sources -> Contents], NEW i \in 1 .. Len(registered),
             call.phase # "idle", Current(w, i)
      PROVE  Current(w, i)'
  <2>1. registered[i] \in Sources
    BY <1>1
  <2>2. seen[registered[i]] \subseteq seen'[registered[i]]
    BY <1>1, <1>7, <2>1 DEF Inv, InvTypes
  <2> QED
    BY <1>1, <1>7, <2>2 DEF Current
<1>8. ASSUME NEW signs \in Signs, Len(signs) <= Len(registered), Signed(signs)
      PROVE  \A i \in 1 .. Len(signs) :
                signs[i][1] = registered[i] /\ signs[i][2] <= files'[registered[i]].mtime
  <2> SUFFICES ASSUME NEW i \in 1 .. Len(signs)
               PROVE  signs[i][1] = registered[i] /\ signs[i][2] <= files'[registered[i]].mtime
    OBVIOUS
  <2>1. /\ Len(signs) \in Nat /\ signs[i] \in Sources \X Nat /\ i \in 1 .. Len(registered)
    BY <1>1, <1>8 DEF Signs
  <2>2. /\ signs[i][2] \in Nat /\ registered[i] \in Sources
        /\ signs[i][1] = registered[i] /\ signs[i][2] <= files[registered[i]].mtime
    BY <1>1, <1>8, <2>1 DEF Signed
  <2>3. /\ files[registered[i]].mtime \in Nat /\ files'[registered[i]].mtime \in Nat
        /\ files[registered[i]].mtime <= files'[registered[i]].mtime
    BY <1>1, <1>3, <2>2 DEF Files
  <2> QED
    BY <2>2, <2>3
<1>9. /\ call \in CallRecord /\ call.signs \in Signs /\ signature \in Signs
      /\ call.next \in Nat /\ call.mtime \in Nat
  BY DEF Inv, InvTypes, CallRecord
<1>10. InvCall'
  <2>1. call.phase \in {"sign", "stat", "read"} => Signed(call.signs)'
    <3> SUFFICES ASSUME call.phase \in {"sign", "stat", "read"} PROVE Signed(call.signs)'
      OBVIOUS
    <3>1. Len(call.signs) <= Len(registered)
      BY <1>1, <1>9 DEF Inv, InvCall
    <3> QED
      BY <1>1, <1>8, <1>9, <3>1 DEF Inv, InvCall, Signed
  <2>2. registry' # None => Len(signature') = Len(registered') /\ Signed(signature)'
    BY <1>1, <1>8, <1>9 DEF Inv, InvCall, Signed
  <2>3. call.phase = "read" => call.mtime <= files'[This'].mtime
    <3> SUFFICES ASSUME call.phase = "read" PROVE call.mtime <= files'[This'].mtime
      OBVIOUS
    <3>1. PICK t : t = This
      OBVIOUS
    <3>2. t \in Sources /\ This' = t /\ call.mtime <= files[t].mtime
      BY <1>1, <3>1 DEF Inv, InvCall, This
    <3>3. files[t].mtime \in Nat /\ files'[t].mtime \in Nat /\ files[t].mtime <= files'[t].mtime
      BY <1>1, <1>3, <3>2 DEF Files
    <3> QED
      BY <1>9, <3>2, <3>3
  <2>4. call.phase # "idle" => \A t \in Sources : files'[t].says \in seen'[t]
    <3> SUFFICES ASSUME call.phase # "idle", NEW t \in Sources
                 PROVE  files'[t].says \in seen'[t]
      OBVIOUS
    <3>1. CASE t = s
      BY <1>1, <1>2, <3>1 DEF Inv, InvTypes
    <3>2. CASE t # s
      BY <1>1, <3>2 DEF Inv, InvTypes, InvCall
    <3> QED
      BY <3>1, <3>2
  <2> QED
    BY <1>1, <2>1, <2>2, <2>3, <2>4 DEF Inv, InvCall
<1>11. InvLoading'
  <2> SUFFICES ASSUME call.phase \in {"stat", "read"} PROVE InvLoading'
    BY <1>1 DEF InvLoading
  <2>1. PICK w \in [Sources -> Contents] :
          /\ \A n \in Names : Decided(w, call.next - 1, n, call.merged[n])
          /\ \A i \in 1 .. call.next - 1 : Current(w, i) /\ Known(w, call.signs, i)
    BY DEF Inv, InvLoading
  <2>2. \A n \in Names : Decided(w, call.next - 1, n, call.merged[n])'
    BY <1>1, <2>1 DEF Decided
  <2>3. ASSUME NEW i \in 1 .. call.next - 1
        PROVE  (Current(w, i) /\ Known(w, call.signs, i))'
    <3>1. i \in 1 .. Len(registered) /\ Len(call.signs) = Len(registered) /\ Signed(call.signs)
      BY <1>1, <1>9 DEF Inv, InvCall
    <3>2. Current(w, i)'
      BY <1>7, <2>1, <3>1
    <3>3. PICK signs \in Signs : signs = call.signs
      BY <1>9
    <3>4. i \in 1 .. Len(signs) /\ Len(signs) = Len(registered) /\ Known(w, signs, i)
          /\ signs[i][2] <= files[registered[i]].mtime
      BY <2>1, <3>1, <3>3 DEF Signed
    <3>5. Known(w, signs, i)'
      BY <1>1, <1>2, <3>4, KnownKept
    <3>6. Known(w, call.signs, i)'
      BY <1>1, <3>3, <3>5
    <3> QED
      BY <3>2, <3>6
  <2>4. \A i \in 1 .. call'.next - 1 : (Current(w, i) /\ Known(w, call.signs, i))'
    BY <1>1, <2>3
  <2> QED
    BY <2>2, <2>4 DEF InvLoading
<1>12. InvCached'
  <2> SUFFICES ASSUME registry # None PROVE InvCached'
    BY <1>1 DEF InvCached
  <2>1. PICK w \in [Sources -> Contents] :
          /\ \A n \in Names : Decided(w, Len(registered), n, registry[n])
          /\ \A i \in 1 .. Len(registered) :
                /\ Known(w, signature, i)
                /\ call.phase = "sign" /\ i \in 1 .. Len(call.signs) /\ call.signs[i] = signature[i]
                      => Current(w, i)
    BY DEF Inv, InvCached
  <2>2. \A n \in Names : Decided(w, Len(registered), n, registry[n])'
    BY <1>1, <2>1 DEF Decided
  <2>3. ASSUME NEW i \in 1 .. Len(registered) PROVE Known(w, signature, i)'
    <3>1. PICK signs \in Signs : signs = signature
      BY <1>9
    <3>2. i \in 1 .. Len(signs) /\ Len(signs) = Len(registered) /\ Known(w, signs, i)
          /\ signs[i][2] <= files[registered[i]].mtime
      BY <2>1, <3>1 DEF Inv, InvCall, Signed
    <3>3. Known(w, signs, i)'
      BY <1>1, <1>2, <3>2, KnownKept
    <3> QED
      BY <1>1, <3>1, <3>3
  <2>4. ASSUME NEW i \in 1 .. Len(registered), call.phase = "sign",
               i \in 1 .. Len(call.signs), call.signs[i] = signature[i]
        PROVE  Current(w, i)'
    BY <1>7, <2>1, <2>4
  <2> QED
    BY <1>1, <2>2, <2>3, <2>4 DEF InvCached
<1>13. InvFresh'
  <2> SUFFICES ASSUME call.phase = "got" PROVE InvFresh'
    BY <1>1 DEF InvFresh
  <2>1. PICK w \in [Sources -> Contents] :
          /\ \A n \in Names : Decided(w, Len(registered), n, registry[n])
          /\ \A i \in 1 .. Len(registered) : Current(w, i)
    BY DEF Inv, InvFresh
  <2>2. \A n \in Names : Decided(w, Len(registered), n, registry[n])'
    BY <1>1, <2>1 DEF Decided
  <2>3. \A i \in 1 .. Len(registered') : Current(w, i)'
    BY <1>1, <1>7, <2>1
  <2> QED
    BY <2>2, <2>3 DEF InvFresh
<1> QED
  BY <1>4, <1>5, <1>6, <1>10, <1>11, <1>12, <1>13 DEF Inv

\* The text of a template is edited.
LEMMA EditTextKeeps ==
    ASSUME Inv, NEW s \in Sources, NEW id \in Ids, EditText(s, id)
    PROVE  Inv'
<1>1. /\ texts' = [texts EXCEPT ![s][id] = @ + 1]
      /\ texts[s][id] <= MaxEdits /\ texts \in [Sources -> [Ids -> 0 .. MaxEdits + 1]]
      /\ UNCHANGED << registered, sourceCache, registry, signature, bodies, call, files, seen >>
  BY DEF Inv, InvBodies, EditText, caches
<1>2. MaxEdits \in Nat
  BY TemplatesAssumption
<1>3. texts[s][id] \in 0 .. MaxEdits + 1 /\ texts[s][id] + 1 \in 0 .. MaxEdits + 1
  BY <1>1, <1>2
<1>4. texts' \in [Sources -> [Ids -> 0 .. MaxEdits + 1]]
  BY <1>1, <1>3
<1>5. ASSUME NEW t \in Sources, NEW d \in Ids PROVE texts[t][d] <= texts'[t][d]
  <2>1. texts[t][d] \in Nat
    BY <1>1, <1>2
  <2>2. texts'[t][d] = texts[t][d] \/ texts'[t][d] = texts[t][d] + 1
    BY <1>1
  <2> QED
    BY <2>1, <2>2
<1>6. InvBodies'
  <2>1. ASSUME NEW k \in Keys, bodies[k] # None
        PROVE  bodies[k].version <= texts'[bodies[k].root][bodies[k].id]
    <3>1. /\ bodies[k] \in Bodies
          /\ bodies[k].version <= texts[bodies[k].root][bodies[k].id]
      BY <2>1 DEF Inv, InvBodies
    <3>2. bodies[k].root \in Sources /\ bodies[k].id \in Ids /\ bodies[k].version \in Nat
      BY <1>2, <3>1 DEF Bodies
    <3> QED
      BY <1>1, <3>1, <3>2
  <2> QED
    BY <1>1, <1>4, <2>1 DEF Inv, InvBodies
<1>7. InvTypes' /\ InvSources'
  BY <1>1 DEF Inv, InvTypes, InvSources, Registered
<1>8. UNCHANGED << registered, registry, signature, call, files, seen >>
  BY <1>1
<1>9. InvCall'
  BY <1>8 DEF Inv, InvCall, This, Signed
<1>10. InvLoading'
  BY <1>8 DEF Inv, InvLoading, Known, Current, Decided
<1>11. InvCached'
  BY <1>8 DEF Inv, InvCached, Known, Current, Decided
<1>12. InvFresh'
  BY <1>8 DEF Inv, InvFresh, Current, Decided
<1> QED
  BY <1>6, <1>7, <1>9, <1>10, <1>11, <1>12 DEF Inv

-----------------------------------------------------------------------------

\* Every step keeps the invariant.
LEMMA TemplatesStep == Inv /\ [TemplatesNext]_templatesVars => Inv'
<1> SUFFICES ASSUME Inv, [TemplatesNext]_templatesVars PROVE Inv'
  OBVIOUS
<1>1. CASE UNCHANGED templatesVars
  <2>1. UNCHANGED << registered, sourceCache, registry, signature, bodies, call, files, texts,
                     seen >>
    BY <1>1 DEF templatesVars, caches, disk
  <2>2. InvTypes' /\ InvBodies' /\ InvSources'
    BY <2>1 DEF Inv, InvTypes, InvBodies, InvSources, Registered
  <2>3. InvCall'
    BY <2>1 DEF Inv, InvCall, This, Signed
  <2>4. InvLoading'
    BY <2>1 DEF Inv, InvLoading, Known, Current, Decided
  <2>5. InvCached'
    BY <2>1 DEF Inv, InvCached, Known, Current, Decided
  <2>6. InvFresh'
    BY <2>1 DEF Inv, InvFresh, Current, Decided
  <2> QED
    BY <2>2, <2>3, <2>4, <2>5, <2>6 DEF Inv
<1>2. CASE \E s \in Sources : Register(s) \/ Unregister(s)
  BY <1>2, RegisterKeeps, UnregisterKeeps
<1>3. CASE (\E force \in BOOLEAN : AskRegistry(force)) \/ \E key \in Keys : AskBody(key)
  BY <1>3, AsksKeep
<1>4. CASE Sign \/ Stat \/ Read
  BY <1>4, SignKeeps, StatKeeps, ReadKeeps
<1>5. CASE Give \/ Resolve \/ Open \/ Retry \/ Search
  BY <1>5, GiveKeeps, ResolveKeeps, OpenKeeps, RetryKeeps, SearchKeeps
<1>6. CASE \E s \in Sources, says \in Contents : EditRegistry(s, says)
  BY <1>6, EditRegistryKeeps
<1>7. CASE \E s \in Sources, id \in Ids : EditText(s, id)
  BY <1>7, EditTextKeeps
<1> QED
  BY <1>1, <1>2, <1>3, <1>4, <1>5, <1>6, <1>7 DEF TemplatesNext, Bot, Edits

\* The inductive invariant: a modification time identifies the content that
\* was read after it was noted, in both caches and during a load.
THEOREM TemplatesInvHolds == TemplatesSpec => []Inv
<1>1. Init => Inv
  BY TemplatesInit
<1>2. Inv /\ [TemplatesNext]_templatesVars => Inv'
  BY TemplatesStep
<1> QED
  BY <1>1, <1>2, PTL DEF TemplatesSpec

\* For any number of directories: the caches of a source end with its
\* registration, no cache is ahead of its file, the signature is of the
\* registered sources in their order.
THEOREM TemplatesTypesCorrect == TemplatesSpec => []TypeOK
<1>1. ASSUME Inv PROVE TypeOK
  <2>1. Registered \subseteq Sources
    BY <1>1 DEF Inv, InvTypes, Registered, ToSet
  <2>2. registry # None => [i \in DOMAIN signature |-> signature[i][1]] = registered
    <3> SUFFICES ASSUME registry # None
                 PROVE  [i \in DOMAIN signature |-> signature[i][1]] = registered
      OBVIOUS
    <3>1. /\ signature \in Signs /\ registered \in Seq(Sources)
          /\ Len(signature) = Len(registered)
          /\ \A i \in 1 .. Len(signature) : signature[i][1] = registered[i]
      BY <1>1 DEF Inv, InvTypes, InvCall, Signed
    <3>2. DOMAIN signature = 1 .. Len(signature) /\ DOMAIN registered = 1 .. Len(signature)
      BY <3>1 DEF Signs
    <3>3. registered = [i \in DOMAIN registered |-> registered[i]]
      BY <3>1
    <3> QED
      BY <3>1, <3>2, <3>3
  <2>3. \A s \in Sources : sourceCache[s] # None =>
          /\ s \in Registered
          /\ sourceCache[s].mtime <= files[s].mtime /\ sourceCache[s].says \in Contents
    BY <1>1 DEF Inv, InvSources, Files
  <2>4. call.want \in Wants /\ call.phase \in {"idle", "sign", "stat", "read", "got"}
    BY <1>1 DEF Inv, InvTypes, CallRecord, Phases
  <2> QED
    BY <1>1, <2>1, <2>2, <2>3, <2>4 DEF Inv, InvTypes, InvBodies, TypeOK
<1> QED
  BY <1>1, TemplatesInvHolds, PTL

\* Likewise: whichever cache it comes from, and whatever is edited during the
\* call, the registry that is returned is the merge of the registered sources
\* with each file as it was at some moment of the call.
THEOREM RegistryFresh == TemplatesSpec => []RegistryIsFresh
<1>1. ASSUME Inv PROVE RegistryIsFresh
  <2> SUFFICES ASSUME call.phase = "got"
               PROVE  \E says \in [Registered -> Contents] :
                        /\ \A s \in Registered : says[s] \in seen[s]
                        /\ \A n \in Names : Decided(says, Len(registered), n, registry[n])
    BY DEF RegistryIsFresh
  <2>1. PICK all \in [Sources -> Contents] :
          /\ \A n \in Names : Decided(all, Len(registered), n, registry[n])
          /\ \A i \in 1 .. Len(registered) : Current(all, i)
    BY <1>1 DEF Inv, InvFresh
  <2>2. /\ registered \in Seq(Sources) /\ Len(registered) \in Nat
        /\ DOMAIN registered = 1 .. Len(registered)
    BY <1>1 DEF Inv, InvTypes
  <2>3. PICK says : says = [s \in Registered |-> all[s]]
    OBVIOUS
  <2>4. \A i \in 1 .. Len(registered) :
          registered[i] \in Registered /\ registered[i] \in Sources
    BY <2>2 DEF Registered, ToSet
  <2>5. Registered \subseteq Sources
    BY <2>2 DEF Registered, ToSet
  <2>6. says \in [Registered -> Contents]
    BY <2>1, <2>3, <2>5
  <2>7. \A i \in 1 .. Len(registered) : says[registered[i]] = all[registered[i]]
    BY <2>3, <2>4
  <2>8. ASSUME NEW s \in Registered PROVE says[s] \in seen[s]
    <3>1. PICK i \in 1 .. Len(registered) : s = registered[i]
      BY <2>2 DEF Registered, ToSet
    <3> QED
      BY <2>1, <2>7, <3>1 DEF Current
  <2>9. ASSUME NEW n \in Names PROVE Decided(says, Len(registered), n, registry[n])
    <3>1. Decided(all, Len(registered), n, registry[n])
      BY <2>1
    <3>2. \A i \in 1 .. Len(registered), j \in Nat :
            j \in i + 1 .. Len(registered) => j \in 1 .. Len(registered)
      BY <2>2
    <3>3. CASE registry[n] = None /\ \A i \in 1 .. Len(registered) : all[registered[i]][n] = None
      BY <2>7, <3>3 DEF Decided
    <3>4. CASE \E i \in 1 .. Len(registered) :
                 /\ all[registered[i]][n] # None
                 /\ \A j \in i + 1 .. Len(registered) : all[registered[j]][n] = None
                 /\ registry[n] = [id |-> all[registered[i]][n], root |-> registered[i]]
      <4>1. PICK i \in 1 .. Len(registered) :
              /\ all[registered[i]][n] # None
              /\ \A j \in i + 1 .. Len(registered) : all[registered[j]][n] = None
              /\ registry[n] = [id |-> all[registered[i]][n], root |-> registered[i]]
        BY <3>4
      <4>2. \A j \in i + 1 .. Len(registered) : says[registered[j]][n] = None
        <5>1. \A j \in i + 1 .. Len(registered) : j \in 1 .. Len(registered)
          BY <2>2
        <5> QED
          BY <2>7, <4>1, <5>1
      <4>3. says[registered[i]] = all[registered[i]]
        BY <2>7
      <4> QED
        BY <4>1, <4>2, <4>3 DEF Decided
    <3> QED
      BY <3>1, <3>3, <3>4 DEF Decided
  <2> QED
    BY <2>6, <2>8, <2>9
<1> QED
  BY <1>1, TemplatesInvHolds, PTL

=============================================================================
