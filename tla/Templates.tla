----------------------------- MODULE Templates ------------------------------
(***************************************************************************)
(* runtime/template_registry.py and template_store.py: the registries of   *)
(* several template directories merged into one, which is cached under the *)
(* modification times of their files, and the bodies of the templates,     *)
(* which are cached for ever.  The bot calls them from one thread; the     *)
(* files are edited by somebody else, also in the middle of a call.        *)
(*                                                                         *)
(* A registry is what its file says of each name: the id of a template or  *)
(* nothing.  A broken file says nothing.                                   *)
(***************************************************************************)
EXTENDS Integers, Sequences, SequencesExt

CONSTANTS
    Sources,        \* template directories, each with its registry
    Core,           \* the one the plugin ships
    Names,          \* what templates are called
    Ids,            \* what the platform calls them
    None,
    MaxEdits        \* bounds the edits of the files

ASSUME TemplatesAssumption ==
    /\ Core \in Sources /\ None \notin Ids \cup Names \cup Sources
    /\ Ids \cap Names = {} /\ MaxEdits \in Nat

VARIABLES
    registered,     \* the keys of _SOURCE_REGISTRATIONS, in order
    sourceCache,    \* _SOURCE_CACHE: what was read of each file, and its mtime
    registry,       \* _REGISTRY_CACHE
    signature,      \* _REGISTRY_SIGNATURE
    bodies,         \* _TEMPLATE_CACHE
    call,           \* what the bot is doing
    files,          \* the registry files; mtime 0: not there
    texts,          \* the version of each body; 0: not there
    seen            \* history: what each file has said since the load began

caches == << sourceCache, registry, signature >>
disk == << files, texts >>
templatesVars == << registered, sourceCache, registry, signature, bodies, call, files, texts, seen >>

Keys == Names \cup Ids
Contents == [Names -> Ids \cup {None}]
Entries == [id : Ids, root : Sources]
Registries == [Names -> Entries \cup {None}]
Bodies == [id : Ids, root : Sources, version : 1 .. MaxEdits + 1]

Nothing == [n \in Names |-> None]
Unread == [s \in Sources |-> {}]

\* What a call is for: the registry alone, or the steps of get_template_body.
Wants == {"registry", "resolve", "entry", "retry"}

Idle == [phase |-> "idle", want |-> "registry", force |-> FALSE, key |-> None,
         resolved |-> None, next |-> 0, signs |-> << >>, mtime |-> 0, merged |-> Nothing]

Init ==
    /\ registered = << >>
    /\ sourceCache = [s \in Sources |-> None]
    /\ registry = None
    /\ signature = << >>
    /\ bodies = [k \in Keys |-> None]
    /\ call = Idle
    /\ files \in [Sources -> [mtime : {1}, says : Contents] \cup [mtime : {0}, says : {Nothing}]]
    /\ files[Core].mtime = 1
    /\ texts \in [Sources -> [Ids -> {0, 1}]]
    /\ seen = Unread

-----------------------------------------------------------------------------
(* Registration.                                                            *)

Registered == ToSet(registered)

\* _invalidate_registry_cache.
Invalidated == registry' = None /\ signature' = << >>

Added(s) == IF s \in Registered THEN registered ELSE Append(registered, s)

\* register_template_source, with a new key or another name for an old one.
Registers(s) ==
    /\ registered' = Added(s)
    /\ sourceCache' = [sourceCache EXCEPT ![s] = None]
    /\ Invalidated

Register(s) ==
    /\ call.phase = "idle"
    /\ Registers(s)
    /\ UNCHANGED << bodies, call, disk, seen >>

Removes(s) ==
    \E i \in DOMAIN registered : registered[i] = s /\ registered' = RemoveAt(registered, i)

\* Mutant: what was read of the source stays.
UnregistersOnly(s) ==
    /\ call.phase = "idle"
    /\ Removes(s)
    /\ Invalidated
    /\ UNCHANGED << sourceCache, bodies, call, disk, seen >>

\* unregister_template_source.
Unregister(s) ==
    /\ call.phase = "idle"
    /\ Removes(s)
    /\ sourceCache' = [sourceCache EXCEPT ![s] = None]
    /\ Invalidated
    /\ UNCHANGED << bodies, call, disk, seen >>

-----------------------------------------------------------------------------
(* load_registry, from one look at a file to the next.                      *)

\* _ensure_core_source, then the loop of _build_signature begins.
Loads(want, force, key, resolved) ==
    /\ IF Core \in Registered THEN UNCHANGED << registered, caches >> ELSE Registers(Core)
    /\ call' = [Idle EXCEPT !.phase = "sign", !.want = want, !.force = force, !.key = key,
                            !.resolved = resolved, !.next = 1]
    /\ seen' = [s \in Sources |-> {files[s].says}]

\* get_registry and reload_registry.
AskRegistry(force) ==
    /\ call.phase = "idle"
    /\ Loads("registry", force, None, None)
    /\ UNCHANGED << bodies, disk >>

\* The source that the loop has come to, and whether it is the last one.
This == registered[call.next]
IsLast == call.next = Len(registered)
Following == IF IsLast THEN 1 ELSE call.next + 1

\* _build_signature: the modification time of the next source.
Sign ==
    LET signs == Append(call.signs, << This, files[This].mtime >>)
        current == ~call.force /\ registry # None /\ signature = signs
    IN  /\ call.phase = "sign"
        /\ call' = [call EXCEPT !.signs = signs, !.next = Following,
                      !.phase = IF ~IsLast THEN "sign" ELSE IF current THEN "got" ELSE "stat"]
        /\ UNCHANGED << registered, caches, bodies, disk, seen >>

\* _merge_templates: a later source replaces what earlier ones say.
Over(merged, s, says) ==
    [n \in Names |-> IF says[n] # None THEN [id |-> says[n], root |-> s] ELSE merged[n]]

\* Mutant: the signature is built after the files were read.
SignedLate(merged) ==
    /\ registry' = merged
    /\ signature' = [i \in DOMAIN registered |-> << registered[i], files[registered[i]].mtime >>]

\* The end of load_registry.
Stored(merged) == registry' = merged /\ signature' = call.signs

\* The registry of the source at hand is known: the next one, or the end.
Merges(says) ==
    LET merged == Over(call.merged, This, says)
    IN  /\ call' = [call EXCEPT !.merged = IF IsLast THEN Nothing ELSE merged, !.next = Following,
                                !.mtime = 0, !.phase = IF IsLast THEN "got" ELSE "stat"]
        /\ IF IsLast THEN Stored(merged) ELSE UNCHANGED << registry, signature >>

\* _load_source_registry: the modification time, and the cached registry if
\* that is the one it was read under.
Stat ==
    LET cached == sourceCache[This]
    IN  /\ call.phase = "stat"
        /\ IF ~call.force /\ cached # None /\ cached.mtime = files[This].mtime
           THEN Merges(cached.says)
           ELSE /\ call' = [call EXCEPT !.phase = "read", !.mtime = files[This].mtime]
                /\ UNCHANGED << registry, signature >>
        /\ UNCHANGED << registered, sourceCache, bodies, disk, seen >>

\* ... and the file itself, which may have changed since.
Read ==
    /\ call.phase = "read"
    /\ sourceCache' =
          [sourceCache EXCEPT ![This] = [mtime |-> call.mtime, says |-> files[This].says]]
    /\ Merges(files[This].says)
    /\ UNCHANGED << registered, bodies, disk, seen >>

-----------------------------------------------------------------------------
(* What the registry is asked for.                                          *)

\* get_template_entry: by name, else by id.
EntriesOf(key) ==
    IF key \in Names /\ registry[key] # None THEN {registry[key]}
    ELSE {registry[n] : n \in {m \in Names : registry[m] # None /\ registry[m].id = key}}

\* resolve_template_id.
Resolved(key) == IF EntriesOf(key) = {} THEN {key} ELSE {entry.id : entry \in EntriesOf(key)}

Returns ==
    /\ call' = Idle
    /\ seen' = Unread
    /\ UNCHANGED << registered, caches >>

\* get_registry returns.
Give ==
    /\ call.phase = "got" /\ call.want = "registry"
    /\ Returns
    /\ UNCHANGED << bodies, disk >>

\* get_template_body: a body that is cached is returned at once.
AskBody(key) ==
    /\ call.phase = "idle"
    /\ bodies[key] = None
    /\ Loads("resolve", FALSE, key, None)
    /\ UNCHANGED << bodies, disk >>

\* The id the key stands for; its body may be cached.
Resolve ==
    /\ call.phase = "got" /\ call.want = "resolve"
    /\ \E id \in Resolved(call.key) :
          IF bodies[id] # None THEN Returns ELSE Loads("entry", FALSE, call.key, id)
    /\ UNCHANGED << bodies, disk >>

\* The body of id in the directory of root, under both keys.
Keeps(id, root) ==
    LET body == [id |-> id, root |-> root, version |-> texts[root][id]]
    IN  /\ Returns
        /\ bodies' = IF id \notin Ids \/ texts[root][id] = 0 THEN bodies
                     ELSE [bodies EXCEPT ![call.key] = body, ![call.resolved] = body]

\* get_template_file_info names the file.
Open ==
    /\ call.phase = "got" /\ call.want \in {"entry", "retry"}
    /\ \E entry \in EntriesOf(IF call.want = "entry" THEN call.key ELSE call.resolved) :
          Keeps(entry.id, entry.root)
    /\ UNCHANGED disk

\* No entry any more under the key: the one of the id.
Retry ==
    /\ call.phase = "got" /\ call.want = "entry"
    /\ EntriesOf(call.key) = {}
    /\ Loads("retry", FALSE, call.key, call.resolved)
    /\ UNCHANGED << bodies, disk >>

HasBody(i) == call.resolved \in Ids /\ texts[registered[i]][call.resolved] > 0

\* No entry at all: the first directory that has a file of that id.
Search ==
    /\ call.phase = "got" /\ call.want = "retry"
    /\ EntriesOf(call.resolved) = {}
    /\ \/ /\ \A i \in DOMAIN registered : ~HasBody(i)
          /\ Returns /\ UNCHANGED bodies
       \/ \E i \in DOMAIN registered :
             /\ HasBody(i) /\ \A j \in 1 .. i - 1 : ~HasBody(j)
             /\ Keeps(call.resolved, registered[i])
    /\ UNCHANGED disk

-----------------------------------------------------------------------------
(* Somebody edits the files (external).  Every edit of a registry has a     *)
(* modification time of its own; MaxEdits bounds them.                      *)

EditRegistry(s, says) ==
    /\ files[s].mtime <= MaxEdits
    /\ files' = [files EXCEPT ![s] = [mtime |-> @.mtime + 1, says |-> says]]
    /\ seen' = [seen EXCEPT ![s] = IF call.phase = "idle" THEN {} ELSE @ \cup {says}]
    /\ UNCHANGED << registered, caches, bodies, call, texts >>

EditText(s, id) ==
    /\ texts[s][id] <= MaxEdits
    /\ texts' = [texts EXCEPT ![s][id] = @ + 1]
    /\ UNCHANGED << registered, caches, bodies, call, files, seen >>

Edits == (\E s \in Sources, says \in Contents : EditRegistry(s, says))
         \/ \E s \in Sources, id \in Ids : EditText(s, id)

Bot ==
    \/ \E s \in Sources : Register(s) \/ Unregister(s)
    \/ \E force \in BOOLEAN : AskRegistry(force)
    \/ \E key \in Keys : AskBody(key)
    \/ Sign \/ Stat \/ Read \/ Give \/ Resolve \/ Open \/ Retry \/ Search

TemplatesNext == Bot \/ Edits

TemplatesSpec == Init /\ [][TemplatesNext]_templatesVars

-----------------------------------------------------------------------------

\* Types; a source that is not registered leaves nothing behind, and no cache
\* is ahead of the file it was read from.
TypeOK ==
    /\ IsInjective(registered) /\ Registered \subseteq Sources
    /\ registry \in Registries \cup {None}
    /\ \A k \in Keys : bodies[k] # None =>
          bodies[k] \in Bodies /\ bodies[k].version <= texts[bodies[k].root][bodies[k].id]
    /\ call.want \in Wants /\ call.phase \in {"idle", "sign", "stat", "read", "got"}
    /\ \A s \in Sources : sourceCache[s] # None =>
          /\ s \in Registered
          /\ sourceCache[s].mtime <= files[s].mtime /\ sourceCache[s].says \in Contents
    /\ registry # None => [i \in DOMAIN signature |-> signature[i][1]] = registered

\* What becomes of name n if the sources 1..k say what they say: the last one
\* that has the name decides.
Decided(says, k, n, entry) ==
    \/ entry = None /\ \A i \in 1 .. k : says[registered[i]][n] = None
    \/ \E i \in 1 .. k :
          /\ says[registered[i]][n] # None
          /\ \A j \in i + 1 .. k : says[registered[j]][n] = None
          /\ entry = [id |-> says[registered[i]][n], root |-> registered[i]]

\* The registry that load_registry returns, from whichever cache, is the
\* merge of the registered sources, the last that has a name deciding it,
\* with each file as it was at some moment of the call.
RegistryIsFresh ==
    call.phase = "got" =>
        \E says \in [Registered -> Contents] :
          /\ \A s \in Registered : says[s] \in seen[s]
          /\ \A n \in Names : Decided(says, Len(registered), n, registry[n])

=============================================================================
