------------------------------ MODULE CBindings ------------------------------
(***************************************************************************)
(* The C interface (leveldb/db/c.cc): the objects of the library are       *)
(* wrapped, errors are left in *errptr, and what is returned belongs to    *)
(* the client.  The client has one error variable, which it passes to      *)
(* every call and sometimes frees and clears, and makes calls in any order *)
(* that c.h allows.  The heap has a place for every string and wrapper;    *)
(* freed places are used again.                                            *)
(***************************************************************************)
EXTENDS Integers, FiniteSets, FiniteSetsExt

CONSTANTS
    Places,       \* numbers
    Failures,     \* statuses that are errors, NotFound excepted
    Null

VARIABLES
    heap,         \* place -> [kind, rep]: a text, or a wrapper and what it wraps
    errptr,       \* the client's error variable
    owned,        \* the places the client was given and has not given back
    engine,       \* the objects of the library that exist
    lastFailure,  \* the last failure since the client cleared its variable, or "OK"
    settings      \* the objects that the client's leveldb_options_t and
                  \* leveldb_readoptions_t refer to: env, cache, filter, snapshot

cVars == <<heap, errptr, owned, engine, lastFailure, settings>>

Text(what) == [kind |-> "text", rep |-> what]

CInit ==
    /\ heap = [p \in {} |-> Text("")] /\ errptr = Null /\ owned = {} /\ engine = {"env"}
    /\ lastFailure = "OK" /\ settings = {}

Statuses == {"OK"} \cup Failures
Free(h) == Places \ DOMAIN h
Put(h, p, what) == [q \in DOMAIN h \cup {p} |-> IF q = p THEN what ELSE h[q]]
Freed(h, p)     == [q \in DOMAIN h \ {p} |-> h[q]]

\* strdup into *errptr.
Dup(h, s) ==
    /\ Free(h) # {}
    /\ errptr' = Min(Free(h)) /\ heap' = Put(h, errptr', Text(s))
    /\ lastFailure' = s

\* Success leaves *errptr; a failure frees the old string first.
SaveErrorLeaking(s) ==                                 \* a defect: the old string is kept
    IF s = "OK" THEN UNCHANGED <<heap, errptr, lastFailure>> ELSE Dup(heap, s)
SaveError(s) ==
    \/ s = "OK" /\ UNCHANGED <<heap, errptr, lastFailure>>
    \/ s # "OK" /\ errptr = Null /\ Dup(heap, s)
    \/ s # "OK" /\ errptr # Null /\ Dup(Freed(heap, errptr), s)

Return(what) ==
    LET p == Min(Free(heap))
    IN  Free(heap) # {} /\ heap' = Put(heap, p, what) /\ owned' = owned \cup {p}
GiveBack(p) == heap' = Freed(heap, p) /\ owned' = owned \ {p}
Wrappers(kind) == {p \in owned : heap[p].kind = kind}
Wrap(kind, rep) == Return([kind |-> kind, rep |-> rep])
IsOpen == Wrappers("db") # {}

\* delete wrapper->rep; delete wrapper;
Delete(kind) ==
    \E p \in Wrappers(kind) : GiveBack(p) /\ engine' = engine \ {heap[p].rep}
Create(kind) ==
    Wrappers(kind) = {} /\ Wrap(kind, kind) /\ engine' = engine \cup {kind}

-----------------------------------------------------------------------------
leveldb_open(s) ==
    /\ ~IsOpen
    /\ \/ s # "OK" /\ SaveError(s) /\ UNCHANGED <<owned, engine>>
       \/ /\ s = "OK" /\ Create("db")
          /\ UNCHANGED <<errptr, lastFailure>>
    /\ UNCHANGED settings

\* A client deletes its iterators and releases its snapshots first.
leveldb_close ==
    /\ engine \cap {"iterator", "snapshot"} = {}
    /\ Delete("db")
    /\ UNCHANGED <<errptr, lastFailure, settings>>

leveldb_put(s)    == IsOpen /\ SaveError(s) /\ UNCHANGED <<owned, engine, settings>>
leveldb_delete(s) == IsOpen /\ SaveError(s) /\ UNCHANGED <<owned, engine, settings>>
leveldb_write(s)  == IsOpen /\ SaveError(s) /\ UNCHANGED <<owned, engine, settings>>

\* A key that is not there is a null result and no error.
GetSavesAll(s) == SaveError(s)                         \* a defect: NotFound is an error
GetSaves(s) ==
    IF s = "NotFound" THEN UNCHANGED <<heap, errptr, lastFailure>> ELSE SaveError(s)
leveldb_get(s) ==
    /\ IsOpen
    /\ \/ s = "OK" /\ Return(Text("value")) /\ UNCHANGED <<errptr, lastFailure>>
       \/ s # "OK" /\ GetSaves(s) /\ UNCHANGED owned
    /\ UNCHANGED <<engine, settings>>

leveldb_create_iterator ==
    /\ IsOpen /\ Create("iterator")
    /\ UNCHANGED <<errptr, lastFailure, settings>>
leveldb_iter_get_error(s) ==
    Wrappers("iterator") # {} /\ SaveError(s) /\ UNCHANGED <<owned, engine, settings>>
leveldb_iter_destroy ==
    /\ Delete("iterator")
    /\ UNCHANGED <<errptr, lastFailure, settings>>

leveldb_create_snapshot ==
    /\ IsOpen /\ Create("snapshot")
    /\ UNCHANGED <<errptr, lastFailure, settings>>
leveldb_release_snapshot ==
    /\ "snapshot" \notin settings /\ Delete("snapshot")
    /\ UNCHANGED <<errptr, lastFailure, settings>>

leveldb_property_value(found) ==
    /\ IsOpen
    /\ IF found THEN Return(Text("value")) ELSE UNCHANGED <<heap, owned>>
    /\ UNCHANGED <<errptr, engine, lastFailure, settings>>

\* The lock keeps these two from an open database: they fail then.
leveldb_destroy_db(s) == (IsOpen => s # "OK") /\ SaveError(s) /\ UNCHANGED <<owned, engine, settings>>
leveldb_repair_db(s)  == (IsOpen => s # "OK") /\ SaveError(s) /\ UNCHANGED <<owned, engine, settings>>

leveldb_free(p) ==
    /\ p \in owned /\ heap[p].kind = "text" /\ GiveBack(p)
    /\ UNCHANGED <<errptr, engine, lastFailure, settings>>

-----------------------------------------------------------------------------
(* The objects that a client makes for its options.  It takes a cache or a *)
(* filter out of the options, and closes the database, before it destroys  *)
(* them; an environment it may destroy at any time.                        *)

leveldb_cache_create_lru ==
    Create("cache") /\ UNCHANGED <<errptr, lastFailure, settings>>
leveldb_cache_destroy ==
    ~IsOpen /\ "cache" \notin settings /\ Delete("cache") /\ UNCHANGED <<errptr, lastFailure, settings>>
leveldb_filterpolicy_create_bloom ==
    Create("filter") /\ UNCHANGED <<errptr, lastFailure, settings>>
leveldb_filterpolicy_destroy ==
    ~IsOpen /\ "filter" \notin settings /\ Delete("filter") /\ UNCHANGED <<errptr, lastFailure, settings>>

\* Env::Default() is one object, of the library.
leveldb_create_default_env ==
    /\ Wrappers("env") = {} /\ Wrap("env", "env")
    /\ UNCHANGED <<errptr, engine, lastFailure, settings>>
EnvDestroyDeletes == Delete("env")                     \* a defect: is_default is not asked
EnvDestroy == UNCHANGED engine /\ \E p \in Wrappers("env") : GiveBack(p)
leveldb_env_destroy == EnvDestroy /\ UNCHANGED <<errptr, lastFailure, settings>>
leveldb_env_get_test_directory(ok) ==
    /\ Wrappers("env") # {}
    /\ IF ok THEN Return(Text("value")) ELSE UNCHANGED <<heap, owned>>
    /\ UNCHANGED <<errptr, engine, lastFailure, settings>>

\* leveldb_options_set_env, _set_cache, _set_filter_policy and
\* leveldb_readoptions_set_snapshot take the object out of the wrapper.
Set(kind) ==
    /\ \E p \in Wrappers(kind) : settings' = settings \cup {heap[p].rep}
    /\ UNCHANGED <<heap, errptr, owned, engine, lastFailure>>
\* A null, or options made anew.
Unset(kind) ==
    /\ kind \in settings /\ settings' = settings \ {kind}
    /\ UNCHANGED <<heap, errptr, owned, engine, lastFailure>>

-----------------------------------------------------------------------------
\* The client has read the error: leveldb_free(err), err = NULL.
ClientClears ==
    /\ errptr # Null
    /\ heap' = Freed(heap, errptr) /\ errptr' = Null /\ lastFailure' = "OK"
    /\ UNCHANGED <<owned, engine, settings>>

Settable == {"env", "cache", "filter", "snapshot"}

CNext ==
    \/ \E s \in Statuses : \/ leveldb_open(s) \/ leveldb_put(s) \/ leveldb_delete(s)
                           \/ leveldb_write(s) \/ leveldb_iter_get_error(s)
                           \/ leveldb_destroy_db(s) \/ leveldb_repair_db(s)
    \/ \E s \in Statuses \cup {"NotFound"} : leveldb_get(s)
    \/ \E found \in BOOLEAN : leveldb_property_value(found)
    \/ \E ok \in BOOLEAN : leveldb_env_get_test_directory(ok)
    \/ \E p \in Places : leveldb_free(p)
    \/ \E kind \in Settable : Set(kind) \/ Unset(kind)
    \/ leveldb_cache_create_lru \/ leveldb_cache_destroy
    \/ leveldb_filterpolicy_create_bloom \/ leveldb_filterpolicy_destroy
    \/ leveldb_create_default_env \/ leveldb_env_destroy
    \/ leveldb_close \/ leveldb_create_iterator \/ leveldb_iter_destroy
    \/ leveldb_create_snapshot \/ leveldb_release_snapshot \/ ClientClears

CSpec == CInit /\ [][CNext]_cVars
-----------------------------------------------------------------------------
(***************************************************************************)
(* Every variable has its type.                                            *)
(***************************************************************************)
CTypeOK ==
    /\ DOMAIN heap \subseteq Places /\ errptr \in Places \cup {Null} /\ owned \subseteq Places
    /\ engine \subseteq {"db", "iterator"} \cup Settable /\ settings \subseteq Settable
    /\ lastFailure \in Statuses

(***************************************************************************)
(* Convention (3) of c.h over any sequence of calls: *errptr is null as    *)
(* long as nothing failed since the client cleared it, and is otherwise    *)
(* the text of the last failure; a key that is not found is not one.       *)
(***************************************************************************)
LastErrorKept ==
    IF lastFailure = "OK" THEN errptr = Null
    ELSE errptr \in DOMAIN heap /\ heap[errptr] = Text(lastFailure)

(***************************************************************************)
(* What is allocated is what the client was given and the error it can     *)
(* reach, each once: SaveError frees the old text, leveldb_free and the    *)
(* destroy functions free what they are passed.                            *)
(***************************************************************************)
HeapAccountedFor ==
    /\ DOMAIN heap = owned \cup ({errptr} \ {Null})
    /\ errptr \notin owned

(***************************************************************************)
(* The objects behind the wrappers live exactly as long as the wrappers,   *)
(* but for the default environment, which always does: the options may     *)
(* keep the environment of a destroyed wrapper.                            *)
(***************************************************************************)
ObjectsLiveAsLong ==
    /\ engine = {"env"} \cup {heap[p].rep : p \in {q \in owned : heap[q].kind # "text"}}
    /\ settings \subseteq engine
=============================================================================
