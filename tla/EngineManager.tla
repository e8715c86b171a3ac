--------------------------- MODULE EngineManager ---------------------------
(***************************************************************************)
(* The engine cache of the STT service (stt/engine_manager.py) and, with   *)
(* voices for models, of the TTS service (tts/engine_manager.py): engines  *)
(* are loaded on demand outside the lock, kept in least-recently-used      *)
(* order up to a capacity, and pinned by reference counts while in use.    *)
(*                                                                         *)
(* A component to be extended by the services, whose requests take its     *)
(* steps: SttService and TtsService say when.  Each critical section of    *)
(* _lock is one action.  A request leases an engine once and loads at most *)
(* one, so an engine instance is named by the request that loaded it.      *)
(*                                                                         *)
(* Bounds: the finite sets Requests and Models.                            *)
(***************************************************************************)
EXTENDS Integers, Sequences, FiniteSets

CONSTANTS
    Requests,   \* requests to the service, and so the instances they load
    Models,     \* model or voice names
    Unloadable, \* models unload may be called for: TTS only has it, and no
                \* route of the service calls it
    MaxLoaded,  \* max_loaded_models / max_loaded_voices
    NoEngine    \* no instance

ASSUME RequestsAssumption == IsFiniteSet(Requests) /\ NoEngine \notin Requests
ASSUME MaxLoadedAssumption == MaxLoaded \in Nat \ {0}
ASSUME ModelsAssumption == IsFiniteSet(Models) /\ Unloadable \subseteq Models

VARIABLES
    lru,      \* keys of _engines, oldest first
    cached,   \* values of _engines: the instance of each model, or NoEngine
    refs,     \* _ref_counts, 0 for an absent key
    lease,    \* where each request is
    model,    \* the model it asked for
    engine,   \* the instance it was given
    pinnedIn  \* auxiliary: requests whose instance was cached when they
              \* incremented the reference count

cacheVars == <<lru, cached, refs, lease, model, engine, pinnedIn>>
leaseVars == <<model, engine, pinnedIn>>

Loaded == {m \in Models : cached[m] # NoEngine}

\* lru and cached are the two views of one OrderedDict.
OrderedDict ==
    /\ lru \in Seq(Models)
    /\ \A i, j \in DOMAIN lru : lru[i] = lru[j] => i = j
    /\ cached \in [Models -> Requests \cup {NoEngine}]
    /\ {lru[i] : i \in DOMAIN lru} = Loaded

CacheTypeOK ==
    /\ OrderedDict
    /\ refs \in [Models -> Nat]
    /\ lease \in [Requests -> {"new", "loading", "loaded", "using", "done"}]
    /\ model \in [Requests -> Models]
    /\ engine \in [Requests -> Requests \cup {NoEngine}]
    /\ pinnedIn \subseteq Requests

\* A request comes with the model it will ask for.
CacheInit ==
    /\ lru = <<>>
    /\ cached = [m \in Models |-> NoEngine]
    /\ refs = [m \in Models |-> 0]
    /\ lease = [r \in Requests |-> "new"]
    /\ model \in [Requests -> Models]
    /\ engine = [r \in Requests |-> NoEngine]
    /\ pinnedIn = {}

-----------------------------------------------------------------------------
(* The cache, all under _lock.                                             *)

\* The order without some keys: OrderedDict.pop leaves the others as they are.
Without(order, gone) ==
    LET kept[i \in 0..Len(order)] ==
            IF i = 0 THEN <<>>
            ELSE IF order[i] \in gone THEN kept[i - 1] ELSE Append(kept[i - 1], order[i])
    IN  kept[Len(order)]

MoveToEnd(order, m) == Append(Without(order, {m}), m)

Older(order, k, m) ==
    \E i, j \in DOMAIN order : i < j /\ order[i] = k /\ order[j] = m

\* _evict_if_over_capacity: as many of the unreferenced, unprotected models as
\* are over capacity, the oldest first.  protect is a set of at most one model.
Victims(order, counts, protect) ==
    LET free == {m \in Models : /\ \E i \in DOMAIN order : order[i] = m
                                /\ counts[m] = 0 /\ m \notin protect}
    IN  {m \in free : Cardinality({k \in free : Older(order, k, m)})
                          < Len(order) - MaxLoaded}

\* The cache with these entries, swept.
Sweep(order, entries, counts, protect) ==
    LET gone == Victims(order, counts, protect)
    IN  /\ lru' = Without(order, gone)
        /\ cached' = [m \in Models |-> IF m \in gone THEN NoEngine
                                       ELSE entries[m]]

-----------------------------------------------------------------------------
(* One request.                                                            *)

\* _get_or_load, first critical section: a hit.
Hit(r) ==
    /\ lease[r] = "new" /\ cached[model[r]] # NoEngine
    /\ lru' = MoveToEnd(lru, model[r])
    /\ engine' = [engine EXCEPT ![r] = cached[model[r]]]
    /\ lease' = [lease EXCEPT ![r] = "loaded"]
    /\ UNCHANGED <<cached, refs, model, pinnedIn>>

\* A miss: the engine is loaded outside the lock.
Miss(r) ==
    /\ lease[r] = "new" /\ cached[model[r]] = NoEngine
    /\ lease' = [lease EXCEPT ![r] = "loading"]
    /\ UNCHANGED <<lru, cached, refs, leaseVars>>

\* No such model, or the name was not a plain file name.
LoadFails(r) ==
    /\ lease[r] = "loading"
    /\ lease' = [lease EXCEPT ![r] = "done"]
    /\ UNCHANGED <<lru, cached, refs, leaseVars>>

OverwritingInsert(r) ==   \* mutant: the duplicate replaces what landed first
    /\ lease[r] = "loading"
    /\ LET m == model[r] IN
       /\ Sweep(MoveToEnd(lru, m), [cached EXCEPT ![m] = r], refs, {m})
       /\ engine' = [engine EXCEPT ![r] = r]
    /\ lease' = [lease EXCEPT ![r] = "loaded"]
    /\ UNCHANGED <<refs, model, pinnedIn>>

\* Second critical section: keep whichever instance landed first.
Insert(r) ==
    /\ lease[r] = "loading"
    /\ LET m    == model[r]
           kept == IF cached[m] = NoEngine THEN r ELSE cached[m]
       IN  /\ Sweep(MoveToEnd(lru, m), [cached EXCEPT ![m] = kept], refs, {m})
           /\ engine' = [engine EXCEPT ![r] = kept]
    /\ lease' = [lease EXCEPT ![r] = "loaded"]
    /\ UNCHANGED <<refs, model, pinnedIn>>

\* acquire_engine: the reference is counted in a critical section of its own.
Pin(r) ==
    /\ lease[r] = "loaded"
    /\ refs' = [refs EXCEPT ![model[r]] = @ + 1]
    /\ pinnedIn' = IF cached[model[r]] = engine[r] THEN pinnedIn \cup {r}
                   ELSE pinnedIn
    /\ lease' = [lease EXCEPT ![r] = "using"]
    /\ UNCHANGED <<lru, cached, model, engine>>

GivingLeaveUnpinned(r) ==   \* mutant: gives back a reference it never took
    /\ lease[r] = "loaded"
    /\ refs' = [refs EXCEPT ![model[r]] = @ - 1]
    /\ lease' = [lease EXCEPT ![r] = "done"]
    /\ UNCHANGED <<lru, cached, leaseVars>>

\* get_engine's caller, which never pins; or an aacquire_engine cancelled
\* while it awaited the load.
LeaveUnpinned(r) ==
    /\ lease[r] = "loaded"
    /\ lease' = [lease EXCEPT ![r] = "done"]
    /\ UNCHANGED <<lru, cached, refs, leaseVars>>

UnsweptRelease(r) ==   \* mutant: no capacity sweep on release
    /\ lease[r] = "using"
    /\ refs' = [refs EXCEPT ![model[r]] = @ - 1]
    /\ lease' = [lease EXCEPT ![r] = "done"]
    /\ UNCHANGED <<lru, cached, leaseVars>>

LeakyRelease(r) ==   \* mutant: a failed request does not give its reference back
    /\ lease[r] = "using"
    /\ \E given \in {0, 1} : refs' = [refs EXCEPT ![model[r]] = @ - given]
    /\ Sweep(lru, cached, refs', {})
    /\ lease' = [lease EXCEPT ![r] = "done"]
    /\ UNCHANGED leaseVars

\* The with block ends, normally or not: give the reference back, sweep.
Release(r) ==
    /\ lease[r] = "using"
    /\ refs' = [refs EXCEPT ![model[r]] = @ - 1]
    /\ Sweep(lru, cached, refs', {})
    /\ lease' = [lease EXCEPT ![r] = "done"]
    /\ UNCHANGED leaseVars

\* unload (TTS only).
Unload(m) ==
    /\ m \in Unloadable /\ refs[m] = 0 /\ cached[m] # NoEngine
    /\ lru' = Without(lru, {m})
    /\ cached' = [cached EXCEPT ![m] = NoEngine]
    /\ UNCHANGED <<refs, lease, leaseVars>>

LeaseStep(r) == \/ Hit(r) \/ Miss(r) \/ LoadFails(r) \/ Insert(r) \/ Pin(r)
                \/ LeaveUnpinned(r) \/ Release(r)

CacheNext == (\E r \in Requests : LeaseStep(r)) \/ (\E m \in Models : Unload(m))

CacheSpec == CacheInit /\ [][CacheNext]_cacheVars

-----------------------------------------------------------------------------
(* Correctness.                                                            *)

Users(m) == {r \in Requests : lease[r] = "using" /\ model[r] = m}

(* The counts are exactly the requests in their with blocks: no reference  *)
(* is lost or leaked, whatever the interleaving (engine_manager.py:59-68). *)
RefsMatchUsers == \A m \in Models : refs[m] = Cardinality(Users(m))

(* An instance that was in the cache when its user pinned it stays there,  *)
(* the same instance, until that user is done: no sweep, unload or late    *)
(* duplicate load removes or replaces it (engine_manager.py:99-105, 129).  *)
PinnedStaysLoaded ==
    \A r \in pinnedIn : lease[r] = "using" => cached[model[r]] = engine[r]

(* The cache exceeds its capacity only by engines in use, and by one that  *)
(* was loaded and not counted yet, or not counted at all                   *)
(* (engine_manager.py:118-132, 66-68, 105).                                *)
OverCapacityInUse ==
    Cardinality(Loaded) > MaxLoaded =>
        \A k, m \in Loaded : refs[k] = 0 /\ refs[m] = 0 => k = m

(* A sweep evicts the oldest first: what stays although nobody uses it and *)
(* nothing protects it is younger than all that goes                       *)
(* (engine_manager.py:118-132).                                            *)
OldestGoFirst ==
    \A r \in Requests : Insert(r) \/ Release(r) =>
        \A gone \in Loaded \ Loaded', k \in Loaded \cap Loaded' :
            refs'[k] = 0 /\ (Insert(r) => k # model[r]) => Older(lru, gone, k)
=============================================================================
