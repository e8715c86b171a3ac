------------------------- MODULE EngineManagerProofs -------------------------
(***************************************************************************)
(* Proofs about EngineManager, for every set of requests and models and    *)
(* every capacity: the reference counts are exact, an instance that was    *)
(* cached when it was pinned stays cached while it is used, the two views  *)
(* of the cache agree, it is over capacity only by engines in use, and it  *)
(* evicts the oldest first.  The last three are about the order of the     *)
(* cache, which Without computes by recursion over it: WFMin of the        *)
(* library gives induction over the naturals for a set.                    *)
(***************************************************************************)
EXTENDS EngineManager, FiniteSetTheorems, SequenceTheorems, WellFoundedInduction, TLAPS

\* What TypeOK says of everything but the order of the cache.
CacheTypes ==
    /\ cached \in [Models -> Requests \cup {NoEngine}]
    /\ refs \in [Models -> Nat]
    /\ lease \in [Requests -> {"new", "loading", "loaded", "using", "done"}]
    /\ model \in [Requests -> Models]
    /\ engine \in [Requests -> Requests \cup {NoEngine}]
    /\ pinnedIn \subseteq Requests

\* A request that got past loading holds an instance; the auxiliary set only
\* has requests that got past pinning.
Progress ==
    /\ \A r \in Requests : lease[r] \in {"loaded", "using"} => engine[r] # NoEngine
    /\ \A r \in pinnedIn : lease[r] \in {"using", "done"}

Counted == CacheTypes /\ RefsMatchUsers
PinInv  == Counted /\ Progress /\ PinnedStaysLoaded

-----------------------------------------------------------------------------
(* Counting.                                                               *)

\* The users of a model are finitely many.
LEMMA UsersFinite == \A m \in Models : IsFiniteSet(Users(m))
<1> TAKE m \in Models
<1>1. Users(m) \subseteq Requests
  BY DEF Users
<1> QED
  BY <1>1, FS_Subset, RequestsAssumption

\* A model somebody uses has a positive count.
LEMMA UsedIsCounted ==
    ASSUME Counted, NEW r \in Requests, lease[r] = "using"
    PROVE  refs[model[r]] # 0
<1>1. model[r] \in Models /\ refs[model[r]] = Cardinality(Users(model[r]))
  BY DEF Counted, CacheTypes, RefsMatchUsers
<1>2. IsFiniteSet(Users(model[r])) /\ r \in Users(model[r])
  BY <1>1, UsersFinite DEF Users
<1> QED
  BY <1>1, <1>2, FS_EmptySet

\* Initially no one uses anything.
LEMMA CountedInit == CacheInit => Counted
<1> SUFFICES ASSUME CacheInit PROVE Counted
  OBVIOUS
<1>1. CacheTypes
  BY DEF CacheInit, CacheTypes
<1>2. \A m \in Models : Users(m) = {}
  BY DEF CacheInit, Users
<1> QED
  BY <1>1, <1>2, FS_EmptySet DEF CacheInit, Counted, RefsMatchUsers

\* A step that leaves the users alone leaves the counts alone.
LEMMA SameUsers ==
    ASSUME Counted, CacheTypes', refs' = refs, model' = model,
           \A r \in Requests : lease'[r] = "using" <=> lease[r] = "using"
    PROVE  Counted'
<1>1. \A m \in Models : Users(m)' = Users(m)
  BY DEF Users
<1> QED
  BY <1>1 DEF Counted, RefsMatchUsers

\* Pinning adds the request to the users of its model and to no others.
LEMMA PinCounts ==
    ASSUME Counted, NEW r \in Requests, Pin(r)
    PROVE  Counted'
<1> USE DEF Pin, Counted, CacheTypes
<1> DEFINE m == model[r]
<1>1. CacheTypes'
  OBVIOUS
<1>2. ASSUME NEW k \in Models, k # m
      PROVE  refs'[k] = Cardinality(Users(k)')
  <2>1. Users(k)' = Users(k)
    BY <1>2 DEF Users
  <2> QED
    BY <1>2, <2>1 DEF RefsMatchUsers
<1>3. ASSUME NEW k \in Models, k = m
      PROVE  refs'[k] = Cardinality(Users(k)')
  <2>1. Users(k)' = Users(k) \cup {r} /\ r \notin Users(k)
    BY <1>3 DEF Users
  <2>2. Cardinality(Users(k)') = Cardinality(Users(k)) + 1
    BY <2>1, UsersFinite, FS_AddElement
  <2> QED
    BY <1>3, <2>2 DEF RefsMatchUsers
<1> QED
  BY <1>1, <1>2, <1>3 DEF RefsMatchUsers

\* The cache after a sweep: every entry is as it was or gone.
LEMMA SweepTypes ==
    ASSUME NEW order, NEW entries \in [Models -> Requests \cup {NoEngine}],
           NEW counts, NEW protect, Sweep(order, entries, counts, protect)
    PROVE  /\ cached' \in [Models -> Requests \cup {NoEngine}]
           /\ \A m \in Models :
                 cached'[m] = entries[m] \/ (cached'[m] = NoEngine /\ counts[m] = 0)
<1> DEFINE gone == Victims(order, counts, protect)
<1>1. \A m \in gone : counts[m] = 0
  BY DEF Victims
<1>2. cached' = [m \in Models |-> IF m \in gone THEN NoEngine ELSE entries[m]]
  BY DEF Sweep
<1> HIDE DEF gone
<1> QED
  BY <1>1, <1>2

\* A release removes the request from the users of its model.
LEMMA ReleaseCounts ==
    ASSUME Counted, NEW r \in Requests, Release(r)
    PROVE  Counted'
<1> DEFINE m == model[r]
<1> USE DEF Counted, CacheTypes
<1>0. /\ lease[r] = "using" /\ refs' = [refs EXCEPT ![m] = @ - 1]
      /\ lease' = [lease EXCEPT ![r] = "done"] /\ UNCHANGED leaseVars
      /\ Sweep(lru, cached, refs', {})
  BY DEF Release
<1>1. ASSUME NEW k \in Models, k # m
      PROVE  refs'[k] = Cardinality(Users(k)')
  <2>1. Users(k)' = Users(k)
    BY <1>0, <1>1 DEF Users, leaseVars
  <2> QED
    BY <1>0, <1>1, <2>1 DEF RefsMatchUsers
<1>2. ASSUME NEW k \in Models, k = m
      PROVE  refs'[k] = Cardinality(Users(k)') /\ refs'[k] \in Nat
  <2>1. Users(k)' = Users(k) \ {r} /\ r \in Users(k)
    BY <1>0, <1>2 DEF Users, leaseVars
  <2>2. /\ Cardinality(Users(k)') = Cardinality(Users(k)) - 1
        /\ IsFiniteSet(Users(k)')
    BY <2>1, UsersFinite, FS_RemoveElement
  <2>3. Cardinality(Users(k)') \in Nat
    BY <2>2, FS_CardinalityType
  <2> QED
    BY <1>0, <1>2, <2>2, <2>3 DEF RefsMatchUsers
<1>3. CacheTypes'
  <2>1. cached' \in [Models -> Requests \cup {NoEngine}]
    BY <1>0, SweepTypes
  <2> QED
    BY <1>0, <1>2, <2>1 DEF leaseVars
<1> HIDE DEF CacheTypes
<1> QED
  BY <1>1, <1>2, <1>3 DEF RefsMatchUsers

\* An insertion keeps the types and what was cached.
LEMMA InsertKeeps ==
    ASSUME CacheTypes, NEW r \in Requests, Insert(r)
    PROVE  /\ CacheTypes'
           /\ lease[r] = "loading" /\ engine'[r] # NoEngine
           /\ engine' = [engine EXCEPT ![r] = engine'[r]]
           /\ lease' = [lease EXCEPT ![r] = "loaded"]
           /\ UNCHANGED <<refs, model, pinnedIn>>
           /\ \A m \in Models : cached[m] # NoEngine =>
                 cached'[m] = cached[m] \/ (cached'[m] = NoEngine /\ refs[m] = 0)
<1> USE DEF CacheTypes
<1> DEFINE m == model[r]
           kept == IF cached[m] = NoEngine THEN r ELSE cached[m]
           entries == [cached EXCEPT ![m] = kept]
<1>1. /\ lease[r] = "loading" /\ engine' = [engine EXCEPT ![r] = kept]
      /\ lease' = [lease EXCEPT ![r] = "loaded"]
      /\ UNCHANGED <<refs, model, pinnedIn>>
      /\ Sweep(MoveToEnd(lru, m), entries, refs, {m})
  BY DEF Insert
<1>2. kept \in Requests /\ kept # NoEngine
  BY RequestsAssumption
<1>3. entries \in [Models -> Requests \cup {NoEngine}]
  BY <1>2
<1>4. \A k \in Models : cached[k] # NoEngine => entries[k] = cached[k]
  OBVIOUS
<1>5. /\ cached' \in [Models -> Requests \cup {NoEngine}]
      /\ \A k \in Models :
            cached'[k] = entries[k] \/ (cached'[k] = NoEngine /\ refs[k] = 0)
  <2> HIDE DEF m, kept, entries
  <2> QED
    BY <1>1, <1>3, SweepTypes
<1> HIDE DEF kept, entries
<1> QED
  BY <1>1, <1>2, <1>4, <1>5

\* The counts stay exact.
LEMMA CountedStep == Counted /\ [CacheNext]_cacheVars => Counted'
<1> SUFFICES ASSUME Counted, [CacheNext]_cacheVars PROVE Counted'
  OBVIOUS
<1>1. ASSUME NEW r \in Requests, Pin(r) PROVE Counted'
  BY <1>1, PinCounts
<1>2. ASSUME NEW r \in Requests, Release(r) PROVE Counted'
  BY <1>2, ReleaseCounts
<1>3. ASSUME NEW r \in Requests, Insert(r) PROVE Counted'
  BY <1>3, InsertKeeps, SameUsers DEF Counted, CacheTypes
<1>4. ASSUME NEW r \in Requests,
             Hit(r) \/ Miss(r) \/ LoadFails(r) \/ LeaveUnpinned(r)
      PROVE  Counted'
  <2>1. CacheTypes' /\ refs' = refs /\ model' = model
    BY <1>4 DEF Counted, CacheTypes, leaseVars, Hit, Miss, LoadFails, LeaveUnpinned
  <2>2. \A s \in Requests : lease'[s] = "using" <=> lease[s] = "using"
    BY <1>4 DEF Counted, CacheTypes, Hit, Miss, LoadFails, LeaveUnpinned
  <2> QED
    BY <2>1, <2>2, SameUsers
<1>5. ASSUME NEW m \in Models, Unload(m) PROVE Counted'
  BY <1>5, SameUsers DEF Unload, Counted, CacheTypes, leaseVars
<1>6. CASE UNCHANGED cacheVars
  BY <1>6, SameUsers DEF Counted, CacheTypes, cacheVars
<1> QED
  BY <1>1, <1>2, <1>3, <1>4, <1>5, <1>6 DEF CacheNext, LeaseStep

\* The counts are exactly the requests in their with blocks, for any number of
\* requests in any interleaving (acquire_engine, engine_manager.py:59-72).
THEOREM RefsMatchUsersCorrect == CacheSpec => []RefsMatchUsers
<1>1. Counted => RefsMatchUsers
  BY DEF Counted
<1> QED
  BY <1>1, CountedInit, CountedStep, PTL DEF CacheSpec

-----------------------------------------------------------------------------
(* Pins.                                                                   *)

\* PinInv is inductive: what a sweep or an unload removes has no users, and an
\* insertion never replaces an entry.
LEMMA PinInvStep == PinInv /\ [CacheNext]_cacheVars => PinInv'
<1> SUFFICES ASSUME PinInv, [CacheNext]_cacheVars PROVE Progress' /\ PinnedStaysLoaded'
  BY CountedStep DEF PinInv
<1> USE DEF PinInv, Counted, CacheTypes, Progress, PinnedStaysLoaded
<1>1. ASSUME NEW r \in Requests, Hit(r) PROVE Progress' /\ PinnedStaysLoaded'
  BY <1>1 DEF Hit
<1>2. ASSUME NEW r \in Requests, Insert(r) PROVE Progress' /\ PinnedStaysLoaded'
  BY <1>2, InsertKeeps, UsedIsCounted
<1>3. ASSUME NEW r \in Requests, Pin(r) PROVE Progress' /\ PinnedStaysLoaded'
  BY <1>3 DEF Pin
<1>4. ASSUME NEW r \in Requests, Release(r)
      PROVE  Progress' /\ PinnedStaysLoaded'
  <2>1. /\ lease[r] = "using" /\ lease' = [lease EXCEPT ![r] = "done"]
        /\ UNCHANGED <<model, engine, pinnedIn>>
    BY <1>4 DEF Release, leaseVars
  <2>2. \A m \in Models :
           cached'[m] = cached[m] \/ (cached'[m] = NoEngine /\ refs'[m] = 0)
    <3>1. /\ cached \in [Models -> Requests \cup {NoEngine}]
          /\ Sweep(lru, cached, refs', {})
      BY <1>4 DEF Release
    <3> QED
      BY <3>1, SweepTypes
  <2>3. Counted'
    BY CountedStep
  <2>4. ASSUME NEW s \in Requests, NEW m \in Models,
               lease'[s] = "using", model'[s] = m
        PROVE  refs'[m] # 0
    <3>1. refs'[m] = Cardinality(Users(m)')
      BY <2>3 DEF RefsMatchUsers
    <3>2. Users(m)' \subseteq Requests /\ s \in Users(m)'
      BY <2>4 DEF Users
    <3>3. IsFiniteSet(Users(m)')
      BY <3>2, FS_Subset, RequestsAssumption
    <3> QED
      BY <3>1, <3>2, <3>3, FS_EmptySet
  <2> QED
    BY <2>1, <2>2, <2>4
<1>5. ASSUME NEW m \in Models, Unload(m)
      PROVE  Progress' /\ PinnedStaysLoaded'
  BY <1>5, UsedIsCounted DEF Unload, leaseVars
<1>6. ASSUME NEW r \in Requests, Miss(r) \/ LoadFails(r) \/ LeaveUnpinned(r)
      PROVE  Progress' /\ PinnedStaysLoaded'
  BY <1>6 DEF Miss, LoadFails, LeaveUnpinned, leaseVars
<1>7. CASE UNCHANGED cacheVars
  BY <1>7 DEF cacheVars
<1> QED
  BY <1>1, <1>2, <1>3, <1>4, <1>5, <1>6, <1>7 DEF CacheNext, LeaseStep

\* No sweep, unload or late duplicate load takes an instance away from those
\* who pinned it while it was cached (engine_manager.py:99-105, 118-132).
THEOREM PinnedStaysLoadedCorrect == CacheSpec => []PinnedStaysLoaded
<1>1. CacheInit => PinInv
  BY CountedInit DEF CacheInit, PinInv, Progress, PinnedStaysLoaded
<1>2. PinInv => PinnedStaysLoaded
  BY DEF PinInv
<1> QED
  BY <1>1, <1>2, PinInvStep, PTL DEF CacheSpec

-----------------------------------------------------------------------------
(* The order of the cache.                                                 *)

\* Induction over the naturals, for a set in place of a predicate.
LEMMA Induction ==
    ASSUME NEW S, 0 \in S, \A n \in Nat : n \in S => n + 1 \in S
    PROVE  Nat \subseteq S
<1> SUFFICES ASSUME Nat \ S # {} PROVE FALSE
  OBVIOUS
<1> DEFINE Less == OpToRel(<, Nat)
<1>1. PICK n \in Nat \ S : \A m \in Nat \ S : <<m, n>> \notin Less
  <2>1. IsWellFoundedOn(Less, Nat)
    BY NatLessThanWellFounded
  <2> HIDE DEF Less
  <2> QED
    BY <2>1, WFMin
<1>2. n - 1 \in Nat \ S
  OBVIOUS
<1>3. <<n - 1, n>> \in Less
  BY <1>2 DEF OpToRel
<1> QED
  BY <1>1, <1>2, <1>3

\* How the sequences kept of the first 0, 1, 2, ... entries follow each other.
Filters(kept, order, gone) ==
    /\ kept[0] = <<>>
    /\ \A i \in 1..Len(order) :
          kept[i] = IF order[i] \in gone THEN kept[i - 1] ELSE Append(kept[i - 1], order[i])

\* Without is what its recursive definition says.
LEMMA WithoutEquation ==
    ASSUME NEW order \in Seq(Models), NEW gone
    PROVE  \E kept \in [0..Len(order) -> Seq(Models)] :
              Without(order, gone) = kept[Len(order)] /\ Filters(kept, order, gone)
<1> DEFINE n == Len(order)
           T == Seq(Models)
           Kept(f) == f = [i \in 0..n |->
                             IF i = 0 THEN <<>>
                             ELSE IF order[i] \in gone THEN f[i - 1]
                             ELSE Append(f[i - 1], order[i])]
           Next(i, before) == IF order[i] \in gone THEN before ELSE Append(before, order[i])
           Runs(k, f) == f[0] = <<>> /\ \A i \in 1..k : f[i] = Next(i, f[i - 1])
<1>1. n \in Nat /\ <<>> \in T
  OBVIOUS
<1>2. \A i \in 1..n : \A before \in T : Next(i, before) \in T
  OBVIOUS
<1>3. PICK f \in [0..n -> T] : Runs(n, f)
  <2> DEFINE S == {k \in Nat : k <= n => \E f \in [0..k -> T] : Runs(k, f)}
  <2>1. 0 \in S
    <3>1. [i \in 0..0 |-> <<>>] \in [0..0 -> T]
      BY <1>1
    <3>2. Runs(0, [i \in 0..0 |-> <<>>])
      OBVIOUS
    <3> QED
      BY <3>1, <3>2
  <2>2. ASSUME NEW k \in Nat, k \in S PROVE k + 1 \in S
    <3> HIDE DEF Next, Runs, n, T
    <3> SUFFICES ASSUME k + 1 <= n PROVE \E f \in [0..(k + 1) -> T] : Runs(k + 1, f)
      OBVIOUS
    <3>1. PICK f \in [0..k -> T] : Runs(k, f)
      BY <1>1, <2>2
    <3> DEFINE g == [i \in 0..(k + 1) |-> IF i <= k THEN f[i] ELSE Next(k + 1, f[k])]
    <3>2. Next(k + 1, f[k]) \in T
      BY <1>1, <1>2
    <3>3. g \in [0..(k + 1) -> T]
      BY <3>1, <3>2
    <3>4. g[0] = <<>>
      BY <3>1 DEF Runs
    <3>5. \A i \in 1..(k + 1) : g[i] = Next(i, g[i - 1])
      <4>1. \A i \in 1..(k + 1) : i <= k \/ i = k + 1
        OBVIOUS
      <4>2. \A i \in 0..(k + 1) : g[i] = IF i <= k THEN f[i] ELSE Next(k + 1, f[k])
        OBVIOUS
      <4> HIDE DEF g
      <4> QED
        BY <3>1, <4>1, <4>2 DEF Runs
    <3>6. Runs(k + 1, g)
      BY <3>4, <3>5 DEF Runs
    <3> HIDE DEF g
    <3> QED
      BY <3>3, <3>6
  <2> HIDE DEF S
  <2>3. n \in S
    BY <1>1, <2>1, <2>2, Induction
  <2> QED
    BY <1>1, <2>3 DEF S
<1>4. Kept(f)
  <2>3. \A i \in 0..n : i # 0 => i \in 1..n
    BY <1>1
  <2> HIDE DEF n, T
  <2> QED
    BY <1>3, <2>3
<1>5. PICK g : g = CHOOSE h : Kept(h)
  OBVIOUS
<1>6. Kept(g)
  BY <1>4, <1>5
<1>7. Without(order, gone) = g[n]
  BY <1>5 DEF Without
<1>8. Filters(g, order, gone)
  <2>1. 0 \in 0..n /\ \A i \in 1..n : i \in 0..n /\ i # 0
    BY <1>1
  <2> QED
    BY <1>6, <2>1 DEF Filters
<1>9. \A k \in Nat : k <= n => g[k] \in T
  <2> DEFINE S == {k \in Nat : k <= n => g[k] \in T}
  <2>1. 0 \in S
    BY <1>1, <1>8 DEF Filters
  <2>2. ASSUME NEW k \in Nat, k \in S PROVE k + 1 \in S
    <3> SUFFICES ASSUME k + 1 <= n PROVE g[k + 1] \in T
      OBVIOUS
    <3>1. k + 1 \in 1..n /\ g[k] \in T /\ order[k + 1] \in Models
      BY <1>1, <2>2
    <3>2. g[k + 1] = IF order[k + 1] \in gone THEN g[k] ELSE Append(g[k], order[k + 1])
      BY <1>8, <3>1 DEF Filters
    <3> QED
      BY <3>1, <3>2
  <2> HIDE DEF S
  <2>3. Nat \subseteq S
    BY <2>1, <2>2, Induction
  <2> QED
    BY <2>3 DEF S
<1>10. g \in [0..n -> T]
  <2>1. g = [i \in 0..n |-> g[i]]
    BY <1>6
  <2>2. \A i \in 0..n : g[i] \in T
    BY <1>1, <1>9
  <2> QED
    BY <2>1, <2>2
<1> QED
  BY <1>7, <1>8, <1>10

Keys(order) == {order[i] : i \in DOMAIN order}

\* part is the first k entries of order but for those gone, in their order.
KeptOf(part, k, order, gone) ==
    /\ \A i \in 1..Len(part) : \E x \in 1..k : order[x] = part[i] /\ order[x] \notin gone
    /\ \A x \in 1..k : order[x] \notin gone => \E i \in 1..Len(part) : part[i] = order[x]
    /\ \A i, j \in 1..Len(part) : i < j =>
          \E x, y \in 1..k : x < y /\ order[x] = part[i] /\ order[y] = part[j]

\* One more entry.
LEMMA KeepNext ==
    ASSUME NEW order, NEW gone, NEW k \in Nat, NEW old \in Seq(Models),
           NEW new \in Seq(Models), KeptOf(old, k, order, gone), order[k + 1] \in Models,
           new = IF order[k + 1] \in gone THEN old ELSE Append(old, order[k + 1])
    PROVE  KeptOf(new, k + 1, order, gone)
<1>1. \A x \in 1..(k + 1) : x \in 1..k \/ x = k + 1
  OBVIOUS
<1>2. 1..k \subseteq 1..(k + 1) /\ k + 1 \in 1..(k + 1) /\ \A x \in 1..k : x < k + 1
  OBVIOUS
<1>3. CASE order[k + 1] \in gone
  BY <1>1, <1>2, <1>3 DEF KeptOf
<1>4. CASE order[k + 1] \notin gone
  <2>1. PICK n \in Nat : n = Len(old)
    OBVIOUS
  <2>2. PICK m \in Models : m = order[k + 1] /\ m \notin gone
    BY <1>4
  <2>3. Len(new) = n + 1 /\ new[n + 1] = m /\ \A i \in 1..n : new[i] = old[i]
    BY <1>4, <2>1, <2>2
  <2>4. \A i \in 1..(n + 1) : i \in 1..n \/ i = n + 1
    OBVIOUS
  <2>5. 1..n \subseteq 1..(n + 1) /\ n + 1 \in 1..(n + 1)
    OBVIOUS
  <2>6. ASSUME NEW i \in 1..Len(new)
        PROVE  \E x \in 1..(k + 1) : order[x] = new[i] /\ order[x] \notin gone
    <3>1. CASE i \in 1..n
      BY <1>2, <2>1, <2>3, <3>1 DEF KeptOf
    <3>2. CASE i = n + 1
      BY <1>2, <2>2, <2>3, <3>2
    <3> QED
      BY <2>3, <2>4, <3>1, <3>2
  <2>7. ASSUME NEW x \in 1..(k + 1), order[x] \notin gone
        PROVE  \E i \in 1..Len(new) : new[i] = order[x]
    <3>1. CASE x \in 1..k
      BY <2>1, <2>3, <2>5, <2>7, <3>1 DEF KeptOf
    <3>2. CASE x = k + 1
      BY <2>2, <2>3, <2>5, <3>2
    <3> QED
      BY <1>1, <3>1, <3>2
  <2>8. ASSUME NEW i \in 1..Len(new), NEW j \in 1..Len(new), i < j
        PROVE  \E x, y \in 1..(k + 1) : x < y /\ order[x] = new[i] /\ order[y] = new[j]
    <3>1. CASE j \in 1..n
      <4>1. i \in 1..n /\ new[i] = old[i] /\ new[j] = old[j]
        BY <2>3, <2>8, <3>1
      <4>2. PICK x \in 1..k, y \in 1..k : x < y /\ order[x] = old[i] /\ order[y] = old[j]
        BY <2>1, <2>8, <3>1, <4>1 DEF KeptOf
      <4> QED
        BY <1>2, <4>1, <4>2
    <3>2. CASE j = n + 1
      <4>1. i \in 1..n /\ new[i] = old[i] /\ new[j] = m
        BY <2>3, <2>8, <3>2
      <4>2. PICK x \in 1..k : order[x] = old[i]
        BY <2>1, <4>1 DEF KeptOf
      <4>3. x < k + 1 /\ x \in 1..(k + 1)
        BY <1>2
      <4> QED
        BY <1>2, <2>2, <4>1, <4>2, <4>3
    <3> QED
      BY <2>3, <2>4, <3>1, <3>2
  <2> QED
    BY ONLY <2>6, <2>7, <2>8 DEF KeptOf
<1> QED
  BY <1>3, <1>4

\* Without removes the keys it is given, and nothing else, and keeps the order.
LEMMA WithoutKeeps ==
    ASSUME NEW order \in Seq(Models), NEW gone
    PROVE  /\ Without(order, gone) \in Seq(Models)
           /\ KeptOf(Without(order, gone), Len(order), order, gone)
<1>1. PICK kept \in [0..Len(order) -> Seq(Models)] :
         Without(order, gone) = kept[Len(order)] /\ Filters(kept, order, gone)
  BY WithoutEquation
<1>2. PICK n \in Nat : n = Len(order) /\ n \in 0..Len(order)
  OBVIOUS
<1> DEFINE S == {k \in Nat : k <= n => KeptOf(kept[k], k, order, gone)}
<1>3. 0 \in S
  <2>1. kept[0] = <<>>
    BY <1>1 DEF Filters
  <2>2. KeptOf(<<>>, 0, order, gone)
    BY DEF KeptOf
  <2> QED
    BY <2>1, <2>2
<1>4. ASSUME NEW k \in Nat, k \in S PROVE k + 1 \in S
  <2> SUFFICES ASSUME k + 1 <= n PROVE KeptOf(kept[k + 1], k + 1, order, gone)
    OBVIOUS
  <2>1. KeptOf(kept[k], k, order, gone)
    BY <1>2, <1>4
  <2>2. kept[k] \in Seq(Models) /\ kept[k + 1] \in Seq(Models) /\ order[k + 1] \in Models
    <3>1. k \in 0..Len(order) /\ k + 1 \in 0..Len(order) /\ k + 1 \in 1..Len(order)
      BY <1>2
    <3> QED
      BY <3>1
  <2>3. kept[k + 1] = IF order[k + 1] \in gone THEN kept[k] ELSE Append(kept[k], order[k + 1])
    BY <1>1, <1>2 DEF Filters
  <2> QED
    BY <2>1, <2>2, <2>3, KeepNext
<1>5. KeptOf(kept[n], n, order, gone)
  <2> HIDE DEF S
  <2>1. n \in S
    BY <1>3, <1>4, Induction
  <2> QED
    BY <2>1 DEF S
<1> QED
  BY <1>1, <1>2, <1>5

\* No key occurs twice.
Distinct(order) == \A i, j \in DOMAIN order : order[i] = order[j] => i = j

LEMMA WithoutDistinct ==
    ASSUME NEW order \in Seq(Models), Distinct(order), NEW gone
    PROVE  LET rest == Without(order, gone) IN
           /\ rest \in Seq(Models) /\ Distinct(rest)
           /\ Keys(rest) = Keys(order) \ gone
<1> DEFINE rest == Without(order, gone)
<1>1. rest \in Seq(Models) /\ KeptOf(rest, Len(order), order, gone)
  BY WithoutKeeps
<1> HIDE DEF rest
<1>2. DOMAIN rest = 1..Len(rest) /\ DOMAIN order = 1..Len(order) /\ Len(rest) \in Nat
  BY <1>1
<1>3. Keys(rest) = Keys(order) \ gone
  <2>1. \A i \in 1..Len(rest) : rest[i] \in Keys(order) \ gone
    BY <1>1, <1>2 DEF KeptOf, Keys
  <2>2. \A x \in 1..Len(order) : order[x] \notin gone => order[x] \in Keys(rest)
    BY <1>1, <1>2 DEF KeptOf, Keys
  <2> QED
    BY <1>2, <2>1, <2>2 DEF Keys
<1>4. ASSUME NEW i \in DOMAIN rest, NEW j \in DOMAIN rest, i < j
      PROVE  rest[i] # rest[j]
  <2>1. PICK x \in 1..Len(order), y \in 1..Len(order) :
           x < y /\ order[x] = rest[i] /\ order[y] = rest[j]
    BY <1>1, <1>2, <1>4 DEF KeptOf
  <2> QED
    BY <1>2, <2>1 DEF Distinct
<1>5. Distinct(rest)
  <2>1. \A i, j \in DOMAIN rest : i = j \/ i < j \/ j < i
    BY <1>2
  <2> QED
    BY <1>4, <2>1 DEF Distinct
<1> QED
  BY <1>1, <1>3, <1>5 DEF rest

\* Moving a key to the end, or appending a new one.
LEMMA MoveToEndDistinct ==
    ASSUME NEW order \in Seq(Models), Distinct(order), NEW m \in Models
    PROVE  LET moved == MoveToEnd(order, m) IN
           /\ moved \in Seq(Models) /\ Distinct(moved)
           /\ Keys(moved) = Keys(order) \cup {m}
<1> DEFINE rest == Without(order, {m})
<1>1. rest \in Seq(Models) /\ Distinct(rest) /\ Keys(rest) = Keys(order) \ {m}
  BY WithoutDistinct
<1> HIDE DEF rest
<1>2. PICK n \in Nat : n = Len(rest)
  BY <1>1
<1>3. PICK moved \in Seq(Models) : moved = Append(rest, m)
  BY <1>1, AppendProperties
<1>4. /\ DOMAIN moved = 1..(n + 1) /\ DOMAIN rest = 1..n
      /\ moved[n + 1] = m /\ \A i \in 1..n : moved[i] = rest[i]
  BY <1>1, <1>2, <1>3
<1>5. \A i \in 1..n : rest[i] # m
  BY <1>1, <1>4 DEF Keys
<1>6. \A i \in 1..(n + 1) : i \in 1..n \/ i = n + 1
  OBVIOUS
<1>7. 1..n \subseteq 1..(n + 1) /\ n + 1 \in 1..(n + 1)
  OBVIOUS
<1>8. Distinct(moved)
  BY <1>1, <1>4, <1>5, <1>6 DEF Distinct
<1>9. Keys(moved) = Keys(rest) \cup {m}
  BY <1>4, <1>6, <1>7 DEF Keys
<1> QED
  BY <1>1, <1>3, <1>8, <1>9 DEF MoveToEnd, rest

\* A sweep keeps the two views of the cache alike.
LEMMA SweepKeepsViews ==
    ASSUME NEW order \in Seq(Models), Distinct(order),
           NEW entries \in [Models -> Requests \cup {NoEngine}],
           Keys(order) = {m \in Models : entries[m] # NoEngine},
           NEW counts, NEW protect, Sweep(order, entries, counts, protect)
    PROVE  OrderedDict'
<1> DEFINE gone == Victims(order, counts, protect)
<1>1. lru' = Without(order, gone)
      /\ cached' = [m \in Models |-> IF m \in gone THEN NoEngine ELSE entries[m]]
  BY DEF Sweep
<1> HIDE DEF gone
<1>2. lru' \in Seq(Models) /\ Distinct(lru') /\ Keys(lru') = Keys(order) \ gone
  BY <1>1, WithoutDistinct
<1>3. Loaded' = {m \in Models : entries[m] # NoEngine} \ gone
  BY <1>1 DEF Loaded
<1> QED
  BY <1>1, <1>2, <1>3 DEF OrderedDict, Distinct, Keys

\* What a release and an insertion hand to the sweep.
LEMMA SweptBy ==
    ASSUME OrderedDict, CacheTypes, NEW r \in Requests
    PROVE  /\ Release(r) =>
                 /\ lru \in Seq(Models) /\ Distinct(lru) /\ Keys(lru) = Loaded
                 /\ cached \in [Models -> Requests \cup {NoEngine}]
                 /\ Sweep(lru, cached, refs', {})
           /\ Insert(r) => \E m \in Models, order \in Seq(Models),
                              entries \in [Models -> Requests \cup {NoEngine}] :
                 /\ m = model[r] /\ order = MoveToEnd(lru, m)
                 /\ Distinct(order) /\ Keys(order) = Loaded \cup {m}
                 /\ Keys(order) = {k \in Models : entries[k] # NoEngine}
                 /\ Sweep(order, entries, refs, {m})
<1>1. lru \in Seq(Models) /\ Distinct(lru) /\ Keys(lru) = Loaded
  BY DEF OrderedDict, Distinct, Keys
<1>2. CASE Release(r)
  BY <1>1, <1>2 DEF Release, Insert, CacheTypes
<1>3. CASE Insert(r)
  <2>1. PICK m \in Models : m = model[r]
    BY DEF CacheTypes
  <2>2. PICK kept \in Requests : /\ kept = IF cached[m] = NoEngine THEN r ELSE cached[m]
                                 /\ kept # NoEngine
    BY RequestsAssumption DEF CacheTypes
  <2>3. PICK entries \in [Models -> Requests \cup {NoEngine}] :
           entries = [cached EXCEPT ![m] = kept]
    BY DEF CacheTypes
  <2>4. PICK order \in Seq(Models) :
           order = MoveToEnd(lru, m) /\ Distinct(order) /\ Keys(order) = Loaded \cup {m}
    BY <1>1, MoveToEndDistinct
  <2>5. {k \in Models : entries[k] # NoEngine} = Loaded \cup {m}
    BY <2>2, <2>3 DEF Loaded, CacheTypes
  <2>6. Sweep(order, entries, refs, {m})
    BY <1>3, <2>1, <2>2, <2>3, <2>4 DEF Insert
  <2>7. ~Release(r)
    BY <1>3 DEF Insert, Release
  <2> QED
    BY <2>1, <2>4, <2>5, <2>6, <2>7
<1> QED
  BY <1>2, <1>3

\* Every step keeps the two views of the cache alike: no model is in the order
\* twice, or without an instance, or cached without a place in the order.
LEMMA OrderedDictStep == OrderedDict /\ CacheTypes /\ [CacheNext]_cacheVars => OrderedDict'
<1> SUFFICES ASSUME OrderedDict, CacheTypes, [CacheNext]_cacheVars PROVE OrderedDict'
  OBVIOUS
<1>1. lru \in Seq(Models) /\ Distinct(lru) /\ Keys(lru) = Loaded
  BY DEF OrderedDict, Distinct, Keys
<1>2. ASSUME NEW r \in Requests, Hit(r) PROVE OrderedDict'
  <2>1. PICK m \in Models : m = model[r] /\ m \in Loaded
    BY <1>2 DEF Hit, CacheTypes, Loaded
  <2>2. lru' = MoveToEnd(lru, m) /\ cached' = cached
    BY <1>2, <2>1 DEF Hit
  <2>3. lru' \in Seq(Models) /\ Distinct(lru') /\ Keys(lru') = Loaded \cup {m}
    BY <1>1, <2>2, MoveToEndDistinct
  <2> QED
    BY <2>1, <2>2, <2>3 DEF OrderedDict, Distinct, Keys, Loaded
<1>3. ASSUME NEW r \in Requests, Insert(r) PROVE OrderedDict'
  BY <1>3, SweptBy, SweepKeepsViews
<1>4. ASSUME NEW r \in Requests, Release(r) PROVE OrderedDict'
  <2>1. /\ lru \in Seq(Models) /\ Distinct(lru) /\ Keys(lru) = Loaded
        /\ cached \in [Models -> Requests \cup {NoEngine}]
        /\ Sweep(lru, cached, refs', {})
    BY <1>4, SweptBy
  <2>2. Keys(lru) = {m \in Models : cached[m] # NoEngine}
    BY <2>1 DEF Loaded
  <2> QED
    BY <2>1, <2>2, SweepKeepsViews
<1>5. ASSUME NEW m \in Models, Unload(m) PROVE OrderedDict'
  <2>1. lru' = Without(lru, {m}) /\ cached' = [cached EXCEPT ![m] = NoEngine]
    BY <1>5 DEF Unload
  <2>2. lru' \in Seq(Models) /\ Distinct(lru') /\ Keys(lru') = Loaded \ {m}
    BY <1>1, <2>1, WithoutDistinct
  <2>3. cached' \in [Models -> Requests \cup {NoEngine}] /\ Loaded' = Loaded \ {m}
    BY <2>1 DEF CacheTypes, Loaded
  <2> QED
    BY <2>2, <2>3 DEF OrderedDict, Distinct, Keys
<1>6. ASSUME UNCHANGED <<lru, cached>> PROVE OrderedDict'
  BY <1>6 DEF OrderedDict, Loaded
<1>7. ASSUME NEW r \in Requests, Miss(r) \/ LoadFails(r) \/ Pin(r) \/ LeaveUnpinned(r)
      PROVE  UNCHANGED <<lru, cached>>
  BY <1>7 DEF Miss, LoadFails, Pin, LeaveUnpinned
<1>8. CASE UNCHANGED cacheVars
  BY <1>6, <1>8 DEF cacheVars
<1> QED
  BY <1>2, <1>3, <1>4, <1>5, <1>6, <1>7, <1>8 DEF CacheNext, LeaseStep

LEMMA OrderedDictInit == CacheInit => OrderedDict
BY DEF CacheInit, OrderedDict, Loaded

\* The cache keeps its types: its two views agree, with no model twice in the
\* order, whatever is moved, inserted, swept or unloaded between a load and its
\* insertion (engine_manager.py:84-132), and no count goes below zero.
THEOREM CacheTypeCorrect == CacheSpec => []CacheTypeOK
<1>1. CacheInit => Counted /\ OrderedDict
  BY CountedInit, OrderedDictInit
<1>2. Counted /\ OrderedDict /\ [CacheNext]_cacheVars => (Counted /\ OrderedDict)'
  BY CountedStep, OrderedDictStep DEF Counted
<1>3. Counted /\ OrderedDict => CacheTypeOK
  BY DEF Counted, CacheTypes, CacheTypeOK
<1> QED
  BY <1>1, <1>2, <1>3, PTL DEF CacheSpec

-----------------------------------------------------------------------------
(* What a sweep evicts.                                                    *)

\* A set of naturals has a smallest one.
LEMMA Smallest ==
    ASSUME NEW S \in SUBSET Nat, S # {}
    PROVE  \E n \in S : \A m \in S : n <= m
<1> DEFINE Less == OpToRel(<, Nat)
<1>1. PICK n \in S : \A m \in S : <<m, n>> \notin Less
  <2>1. IsWellFoundedOn(Less, Nat)
    BY NatLessThanWellFounded
  <2> HIDE DEF Less
  <2> QED
    BY <2>1, WFMin
<1>2. \A m \in S : n <= m
  <2> SUFFICES ASSUME NEW m \in S, m < n PROVE FALSE
    OBVIOUS
  <2>1. m \in Nat /\ n \in Nat
    OBVIOUS
  <2>2. <<m, n>> \in Less
    BY <2>1 DEF OpToRel
  <2> QED
    BY <1>1, <2>2
<1> HIDE DEF Less
<1> QED
  BY <1>2

\* An order is as long as it has keys.
LEMMA KeysCount ==
    ASSUME NEW order \in Seq(Models), Distinct(order)
    PROVE  IsFiniteSet(Keys(order)) /\ Cardinality(Keys(order)) = Len(order)
<1>1. Len(order) \in Nat /\ DOMAIN order = 1..Len(order)
  OBVIOUS
<1>2. order \in Bijection(1..Len(order), Keys(order))
  <2>1. order \in [1..Len(order) -> Keys(order)]
    BY <1>1 DEF Keys
  <2>2. IsInjective(order)
    BY <1>1 DEF IsInjective, Distinct
  <2>3. \A m \in Keys(order) : \E i \in 1..Len(order) : order[i] = m
    BY <1>1 DEF Keys
  <2> QED
    BY <2>1, <2>2, <2>3 DEF Bijection, Injection, Surjection
<1>3. ExistsBijection(1..Len(order), Keys(order))
  BY <1>2 DEF ExistsBijection
<1>4. Cardinality(Keys(order)) = Len(order)
  BY <1>1, <1>3, FS_CountingElements
<1>5. IsFiniteSet(1..Len(order))
  BY <1>1, FS_Interval
<1> QED
  BY <1>3, <1>4, <1>5, FS_Bijection

\* Being older is a strict order of the keys.
LEMMA OlderOrders ==
    ASSUME NEW order \in Seq(Models), Distinct(order)
    PROVE  /\ \A k \in Keys(order) : ~Older(order, k, k)
           /\ \A k, m \in Keys(order) : k # m => Older(order, k, m) \/ Older(order, m, k)
           /\ \A k, m, q \in Keys(order) :
                 Older(order, k, m) /\ Older(order, m, q) => Older(order, k, q)
<1>1. DOMAIN order = 1..Len(order) /\ Len(order) \in Nat
  OBVIOUS
<1> QED
  BY <1>1 DEF Older, Keys, Distinct

Free(order, counts, protect) ==
    {m \in Keys(order) : counts[m] = 0 /\ m \notin protect}

\* A sweep leaves nothing free, or no more than the capacity; and what stays
\* of the free models is younger than what goes.
LEMMA SweepEvicts ==
    ASSUME NEW order \in Seq(Models), Distinct(order), NEW counts, NEW protect
    PROVE  LET free == Free(order, counts, protect)
               gone == Victims(order, counts, protect)
           IN  /\ gone \subseteq free
               /\ \A m \in free \ gone : \A v \in gone : Older(order, v, m)
               /\ free \ gone # {} => Cardinality(Keys(order) \ gone) <= MaxLoaded
<1> DEFINE free == Free(order, counts, protect)
           gone == Victims(order, counts, protect)
           Before(m) == {k \in free : Older(order, k, m)}
           excess == Len(order) - MaxLoaded
<1>1. free \subseteq Keys(order) /\ Keys(order) \subseteq Models
  BY DEF Free, Keys
<1>2. free = {m \in Models : /\ \E i \in DOMAIN order : order[i] = m
                             /\ counts[m] = 0 /\ m \notin protect}
  BY DEF Free, Keys
<1>3. gone = {m \in free : Cardinality(Before(m)) < excess}
  BY <1>2 DEF Victims
<1>4. IsFiniteSet(free) /\ \A m : IsFiniteSet(Before(m)) /\ Cardinality(Before(m)) \in Nat
  <2>1. IsFiniteSet(free)
    BY <1>1, KeysCount, FS_Subset
  <2>2. \A m : Before(m) \subseteq free
    OBVIOUS
  <2> HIDE DEF free, Before
  <2> QED
    BY <2>1, <2>2, FS_Subset, FS_CardinalityType
<1>5. excess \in Int
  BY MaxLoadedAssumption
<1> HIDE DEF free, gone, excess
<1>6. \A k, m \in free : Older(order, k, m) => Cardinality(Before(k)) <= Cardinality(Before(m))
  <2> SUFFICES ASSUME NEW k \in free, NEW m \in free, Older(order, k, m)
               PROVE  Cardinality(Before(k)) <= Cardinality(Before(m))
    OBVIOUS
  <2>1. Before(k) \subseteq Before(m)
    BY <1>1, OlderOrders
  <2> HIDE DEF Before
  <2> QED
    BY <1>4, <2>1, FS_Subset
<1>7. ASSUME NEW m \in free \ gone, NEW v \in gone
      PROVE  Older(order, v, m)
  <2>1. v \in free /\ v # m /\ ~(Cardinality(Before(m)) < excess) /\ Cardinality(Before(v)) < excess
    BY <1>3
  <2>2. ~Older(order, m, v)
    <3> HIDE DEF Before
    <3> QED
      BY <1>4, <1>5, <1>6, <2>1
  <2> QED
    BY <1>1, <2>1, <2>2, OlderOrders
<1>8. ASSUME free \ gone # {}
      PROVE  Cardinality(Keys(order) \ gone) <= MaxLoaded
  <2> DEFINE Places == {i \in DOMAIN order : order[i] \in free \ gone}
  <2>1. DOMAIN order = 1..Len(order) /\ Len(order) \in Nat
    OBVIOUS
  <2>2. PICK i \in Places : \A j \in Places : i <= j
    <3>1. Places \in SUBSET Nat /\ Places # {}
      BY <1>1, <1>8, <2>1 DEF Keys
    <3> HIDE DEF Places
    <3> QED
      BY <3>1, Smallest
  <2>3. PICK m \in free \ gone : m = order[i]
    OBVIOUS
  <2>4. Before(m) \subseteq gone
    <3> SUFFICES ASSUME NEW k \in free \ gone, Older(order, k, m) PROVE FALSE
      OBVIOUS
    <3>1. PICK x \in DOMAIN order, y \in DOMAIN order :
             x < y /\ order[x] = k /\ order[y] = m
      BY DEF Older
    <3>2. y = i /\ x \in Places
      BY <2>3, <3>1 DEF Distinct
    <3> QED
      BY <2>1, <2>2, <3>1, <3>2
  <2>5. ~(Cardinality(Before(m)) < excess)
    BY <1>3
  <2>6. gone \subseteq Keys(order) /\ IsFiniteSet(gone)
    <3>1. gone \subseteq Keys(order)
      BY <1>1, <1>3
    <3> QED
      BY <3>1, KeysCount, FS_Subset
  <2>7. Cardinality(Before(m)) <= Cardinality(gone) /\ Cardinality(gone) \in Nat
    <3> HIDE DEF Before
    <3> QED
      BY <2>4, <2>6, FS_Subset, FS_CardinalityType
  <2>8. Cardinality(Keys(order) \ gone) = Len(order) - Cardinality(gone)
    <3>1. Keys(order) \cap gone = gone
      BY <2>6
    <3> QED
      BY <3>1, KeysCount, FS_Difference
  <2>9. Cardinality(Before(m)) \in Nat
    BY <1>4
  <2> HIDE DEF Before
  <2> QED
    BY <2>1, <2>5, <2>7, <2>8, <2>9, MaxLoadedAssumption DEF excess
<1> QED
  BY <1>3, <1>7, <1>8 DEF free, gone

\* The sweep of a step, with the cache as a function.
LEMMA SweepEffect ==
    ASSUME NEW order \in Seq(Models), Distinct(order),
           NEW entries \in [Models -> Requests \cup {NoEngine}],
           Keys(order) = {m \in Models : entries[m] # NoEngine},
           NEW counts, NEW protect, Sweep(order, entries, counts, protect)
    PROVE  /\ Loaded' \subseteq Keys(order)
           /\ \A m \in Loaded' : counts[m] = 0 /\ m \notin protect =>
                 /\ Cardinality(Loaded') <= MaxLoaded
                 /\ \A v \in Keys(order) \ Loaded' : Older(order, v, m)
<1> DEFINE free == Free(order, counts, protect)
           gone == Victims(order, counts, protect)
<1>1. cached' = [m \in Models |-> IF m \in gone THEN NoEngine ELSE entries[m]]
  BY DEF Sweep
<1>2. /\ gone \subseteq free
      /\ \A m \in free \ gone : \A v \in gone : Older(order, v, m)
      /\ free \ gone # {} => Cardinality(Keys(order) \ gone) <= MaxLoaded
  BY SweepEvicts
<1>3. free = {m \in Keys(order) : counts[m] = 0 /\ m \notin protect}
  BY DEF Free
<1> HIDE DEF free, gone
<1>4. Loaded' = Keys(order) \ gone
  BY <1>1 DEF Loaded
<1> QED
  BY <1>2, <1>3, <1>4

\* A step that caches nothing new and gives no engine back keeps the bound.
LEMMA FewerFree ==
    ASSUME OverCapacityInUse, Loaded' \subseteq Loaded,
           \A m \in Loaded' : refs'[m] = 0 => refs[m] = 0
    PROVE  OverCapacityInUse'
<1>1. IsFiniteSet(Loaded)
  <2>1. Loaded \subseteq Models
    BY DEF Loaded
  <2> QED
    BY <2>1, FS_Subset, ModelsAssumption
<1>2. /\ Cardinality(Loaded') <= Cardinality(Loaded)
      /\ Cardinality(Loaded) \in Nat /\ Cardinality(Loaded') \in Nat
  <2>1. IsFiniteSet(Loaded') /\ Cardinality(Loaded') <= Cardinality(Loaded)
    BY <1>1, FS_Subset
  <2> QED
    BY <1>1, <2>1, FS_CardinalityType
<1> QED
  BY <1>2, MaxLoadedAssumption DEF OverCapacityInUse

LEMMA OverCapacityStep ==
    OrderedDict /\ CacheTypes /\ OverCapacityInUse /\ [CacheNext]_cacheVars
        => OverCapacityInUse'
<1> SUFFICES ASSUME OrderedDict, CacheTypes, OverCapacityInUse, [CacheNext]_cacheVars
             PROVE  OverCapacityInUse'
  OBVIOUS
<1>1. ASSUME NEW r \in Requests, Release(r) PROVE OverCapacityInUse'
  <2>1. /\ lru \in Seq(Models) /\ Distinct(lru) /\ Keys(lru) = Loaded
        /\ cached \in [Models -> Requests \cup {NoEngine}]
        /\ Sweep(lru, cached, refs', {})
    BY <1>1, SweptBy
  <2>2. /\ Loaded' \subseteq Keys(lru)
        /\ \A m \in Loaded' : refs'[m] = 0 => Cardinality(Loaded') <= MaxLoaded
    <3>1. Keys(lru) = {m \in Models : cached[m] # NoEngine}
      BY <2>1 DEF Loaded
    <3> QED
      BY <2>1, <3>1, SweepEffect
  <2>3. Cardinality(Loaded') \in Nat
    BY <2>1, <2>2, KeysCount, FS_Subset, FS_CardinalityType
  <2> QED
    BY <2>2, <2>3, MaxLoadedAssumption DEF OverCapacityInUse
<1>2. ASSUME NEW r \in Requests, Insert(r) PROVE OverCapacityInUse'
  <2>1. PICK m \in Models, order \in Seq(Models),
             entries \in [Models -> Requests \cup {NoEngine}] :
           /\ m = model[r] /\ order = MoveToEnd(lru, m)
           /\ Distinct(order) /\ Keys(order) = Loaded \cup {m}
           /\ Keys(order) = {k \in Models : entries[k] # NoEngine}
           /\ Sweep(order, entries, refs, {m})
    BY <1>2, SweptBy
  <2>2. /\ Loaded' \subseteq Keys(order)
        /\ \A k \in Loaded' : refs[k] = 0 /\ k # m => Cardinality(Loaded') <= MaxLoaded
    BY <2>1, SweepEffect
  <2>3. Cardinality(Loaded') \in Nat
    BY <2>1, <2>2, KeysCount, FS_Subset, FS_CardinalityType
  <2>4. refs' = refs
    BY <1>2 DEF Insert
  <2> QED
    BY <2>2, <2>3, <2>4, MaxLoadedAssumption DEF OverCapacityInUse
<1>3. ASSUME NEW r \in Requests, Hit(r) \/ Miss(r) \/ LoadFails(r) \/ Pin(r) \/ LeaveUnpinned(r)
      PROVE  OverCapacityInUse'
  <2>1. Loaded' = Loaded /\ \A m \in Models : refs'[m] = 0 => refs[m] = 0
    BY <1>3 DEF Hit, Miss, LoadFails, Pin, LeaveUnpinned, Loaded, CacheTypes
  <2> QED
    BY <2>1, FewerFree DEF Loaded
<1>4. ASSUME NEW m \in Models, Unload(m) PROVE OverCapacityInUse'
  <2>1. Loaded' \subseteq Loaded /\ refs' = refs
    BY <1>4 DEF Unload, Loaded, CacheTypes
  <2> QED
    BY <2>1, FewerFree
<1>5. CASE UNCHANGED cacheVars
  BY <1>5, FewerFree DEF cacheVars, Loaded
<1> QED
  BY <1>1, <1>2, <1>3, <1>4, <1>5 DEF CacheNext, LeaseStep

\* The cache holds more engines than it may only while all of them, but for one
\* just loaded, are in use (engine_manager.py:118-132).
THEOREM OverCapacityCorrect == CacheSpec => []OverCapacityInUse
<1> DEFINE Inv == Counted /\ OrderedDict /\ OverCapacityInUse
<1>1. CacheInit => Inv
  <2>1. CacheInit => Loaded = {}
    BY DEF CacheInit, Loaded
  <2> QED
    BY <2>1, CountedInit, OrderedDictInit, FS_EmptySet DEF OverCapacityInUse
<1>2. Inv /\ [CacheNext]_cacheVars => Inv'
  BY CountedStep, OrderedDictStep, OverCapacityStep DEF Counted
<1> QED
  BY <1>1, <1>2, PTL DEF CacheSpec

\* Moving a key to the end does not change which of the others is older.
LEMMA MoveKeepsOlder ==
    ASSUME NEW order \in Seq(Models), NEW m \in Models, NEW k, k # m, NEW v,
           Older(MoveToEnd(order, m), v, k)
    PROVE  Older(order, v, k)
<1>1. PICK rest \in Seq(Models) :
         rest = Without(order, {m}) /\ KeptOf(rest, Len(order), order, {m})
  BY WithoutKeeps
<1>2. PICK moved \in Seq(Models) : moved = Append(rest, m) /\ Older(moved, v, k)
  BY <1>1, AppendProperties DEF MoveToEnd
<1>3. PICK n \in Nat : n = Len(rest)
  BY <1>1
<1>4. /\ DOMAIN moved = 1..(n + 1) /\ moved[n + 1] = m
      /\ \A i \in 1..n : moved[i] = rest[i]
  BY <1>1, <1>2, <1>3
<1>5. PICK i \in 1..(n + 1), j \in 1..(n + 1) : i < j /\ moved[i] = v /\ moved[j] = k
  BY <1>2, <1>4 DEF Older
<1>6. j # n + 1
  BY <1>4, <1>5
<1>7. i \in 1..Len(rest) /\ j \in 1..Len(rest) /\ rest[i] = v /\ rest[j] = k
  BY <1>3, <1>4, <1>5, <1>6
<1>8. \E x, y \in 1..Len(order) : x < y /\ order[x] = v /\ order[y] = k
  <2>1. \A a, b \in 1..Len(rest) : a < b =>
           \E x, y \in 1..Len(order) : x < y /\ order[x] = rest[a] /\ order[y] = rest[b]
    BY <1>1 DEF KeptOf
  <2>2. i \in 1..Len(rest) /\ j \in 1..Len(rest) /\ i < j
    BY <1>5, <1>7
  <2>3. \E x, y \in 1..Len(order) : x < y /\ order[x] = rest[i] /\ order[y] = rest[j]
    BY <2>1, <2>2
  <2> QED
    BY <1>7, <2>3
<1>9. DOMAIN order = 1..Len(order)
  OBVIOUS
<1> QED
  BY <1>8, <1>9 DEF Older

LEMMA OldestGoFirstStep == OrderedDict /\ CacheTypes => OldestGoFirst
<1> SUFFICES ASSUME OrderedDict, CacheTypes, NEW r \in Requests, Insert(r) \/ Release(r),
                    NEW v \in Loaded \ Loaded', NEW k \in Loaded \cap Loaded',
                    refs'[k] = 0, Insert(r) => k # model[r]
             PROVE  Older(lru, v, k)
  BY DEF OldestGoFirst
<1>1. CASE Release(r)
  <2>1. /\ lru \in Seq(Models) /\ Distinct(lru) /\ Keys(lru) = Loaded
        /\ cached \in [Models -> Requests \cup {NoEngine}]
        /\ Sweep(lru, cached, refs', {})
    BY <1>1, SweptBy
  <2>2. \A m \in Loaded' : refs'[m] = 0 => \A w \in Keys(lru) \ Loaded' : Older(lru, w, m)
    <3>1. Keys(lru) = {m \in Models : cached[m] # NoEngine}
      BY <2>1 DEF Loaded
    <3> QED
      BY <2>1, <3>1, SweepEffect
  <2> QED
    BY <2>1, <2>2
<1>2. CASE Insert(r)
  <2>1. PICK m \in Models, order \in Seq(Models),
             entries \in [Models -> Requests \cup {NoEngine}] :
           /\ m = model[r] /\ order = MoveToEnd(lru, m)
           /\ Distinct(order) /\ Keys(order) = Loaded \cup {m}
           /\ Keys(order) = {q \in Models : entries[q] # NoEngine}
           /\ Sweep(order, entries, refs, {m})
    BY <1>2, SweptBy
  <2>2. \A q \in Loaded' : refs[q] = 0 /\ q # m =>
           \A w \in Keys(order) \ Loaded' : Older(order, w, q)
    BY <2>1, SweepEffect
  <2>3. refs' = refs
    BY <1>2 DEF Insert
  <2>4. Older(order, v, k) /\ k # m
    BY <1>2, <2>1, <2>2, <2>3
  <2> QED
    BY <2>1, <2>4, MoveKeepsOlder DEF OrderedDict
<1> QED
  BY <1>1, <1>2

\* What a sweep leaves unused in the cache is younger than what it evicts
\* (engine_manager.py:118-132).
THEOREM OldestGoFirstCorrect == CacheSpec => [][OldestGoFirst]_cacheVars
<1> DEFINE Inv == Counted /\ OrderedDict
<1>1. CacheInit => Inv
  BY CountedInit, OrderedDictInit
<1>2. Inv /\ [CacheNext]_cacheVars => Inv'
  BY CountedStep, OrderedDictStep DEF Counted
<1>3. Inv => OldestGoFirst
  BY OldestGoFirstStep DEF Counted
<1> QED
  BY <1>1, <1>2, <1>3, PTL DEF CacheSpec

=============================================================================
