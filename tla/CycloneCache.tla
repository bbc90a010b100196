---------------------------- MODULE CycloneCache ----------------------------
(***************************************************************************)
(* The cyclone track cache of ClimatologyOverlayFactory: a std::map from a *)
(* (longitude, latitude, month) hash to the track segments touching it,    *)
(* and the counting semaphore of                                           *)
(* CYCLONE_CACHE_SEMAPHORE_COUNT permits in front of it.                   *)
(*                                                                         *)
(* Routing threads call CycloneTrackCrossings, each under one permit.  The *)
(* UI thread runs BuildCycloneCache, which collects every permit one after *)
(* the other, and RenderCyclones, which takes none.  Both lookups use      *)
(* std::map::operator[], which inserts an empty bucket when the key is     *)
(* missing; a lookup is therefore two steps here (it begins and it ends),  *)
(* so that the model sees which lookups overlap.                           *)
(*                                                                         *)
(* The module starts once the factory is published: the constructor has    *)
(* returned and no further Load() runs.                                    *)
(***************************************************************************)
EXTENDS Integers, FiniteSets

CONSTANTS
    Readers,     \* threads that call CycloneTrackCrossings
    UI,          \* the OpenCPN main thread
    Permits,     \* CYCLONE_CACHE_SEMAPHORE_COUNT
    Buckets,     \* cache keys
    Tracks,      \* cyclone track segments of all six theatres
    Covers,      \* Covers[t]: the buckets segment t is filed under
    Filters,     \* settings of the cyclone page of the config dialog
    Passes,      \* Passes[f]: the segments that satisfy settings f
    Legs,        \* route legs that threads ask about
    LegBuckets,  \* LegBuckets[l]: the buckets a query for leg l scans
    LegCrosses,  \* LegCrosses[l]: the segments leg l intersects in its window
    NoFilter,    \* the cache has never been filled
    NoLeg,       \* no query, or a probe (dayrange = 0)
    MaxQueries,  \* bound: queries each thread makes
    MaxRebuilds  \* bound: setting changes the user makes

ASSUME PermitsAssumption == Permits \in Nat \ {0}
ASSUME ReadersAssumption == IsFiniteSet(Readers) /\ UI \notin Readers
ASSUME DataAssumption ==
    /\ Covers \in [Tracks -> SUBSET Buckets]
    /\ Passes \in [Filters -> SUBSET Tracks]
    /\ LegBuckets \in [Legs -> SUBSET Buckets]
    /\ LegCrosses \in [Legs -> SUBSET Tracks]
ASSUME NullAssumption == NoFilter \notin Filters /\ NoLeg \notin Legs
ASSUME BoundAssumption == MaxQueries \in Nat /\ MaxRebuilds \in Nat

VARIABLES
    semaphore,  \* permits left in m_cyclone_cache_semaphore
    cache,      \* m_cyclone_cache: a function whose domain is the map's keys
    theatres,   \* none of the six cyclone lists is empty
    enabled,    \* m_cbCyclones->IsEnabled()
    ticked,     \* m_cbCyclones->GetValue()
    filter,     \* the settings in the config dialog's controls
    built,      \* history: the settings of the last finished rebuild
    ui,         \* what the UI thread is doing
    held,       \* permits BuildCycloneCache has collected
    todo,       \* segments left to file, or buckets left to draw
    pc, leg, left, ans,  \* per thread: place, leg, buckets left, answer
    seen,       \* history, per thread: "built" when it got its permit
    access,     \* per thread: what an access in progress does to the map
    corrupt,    \* a write to the map has overlapped another access
    queries, rebuilds

uiVars == <<theatres, enabled, ticked, filter, built, ui, held, todo, rebuilds>>
readerVars == <<pc, leg, left, ans, seen, queries>>
vars == <<semaphore, cache, access, corrupt, uiVars, readerVars>>

Threads == Readers \cup {UI}

Inside(r) == pc[r] \in {"check", "scan", "look", "post"}
InsideReaders == {r \in Readers : Inside(r)}

\* What a cache filled under settings f holds.
Holding(f) == {t \in Passes[f] : Covers[t] # {}}
\* Does a rebuild under settings f find a crossing of leg l?
Crosses(l, f) ==
    \E t \in Passes[f] \cap LegCrosses[l] : Covers[t] \cap LegBuckets[l] # {}

-----------------------------------------------------------------------------
(* std::map operations                                                     *)

BucketAt(k) == IF k \in DOMAIN cache THEN cache[k] ELSE {}

\* m_cyclone_cache[hash]: a missing key is inserted with an empty list.
Touch(b) == cache' = [k \in DOMAIN cache \cup {b} |-> BucketAt(k)]

\* m_cyclone_cache[hash].push_back(t) for every bucket the segment covers.
File(t) ==
    cache' = [k \in DOMAIN cache \cup Covers[t] |->
                BucketAt(k) \cup (IF k \in Covers[t] THEN {t} ELSE {})]

\* operator[] reads the tree when the key is there and rebalances it when not.
AccessMode(b) == IF b \in DOMAIN cache THEN "read" ELSE "write"

Racing(a) ==
    \E s, t \in Threads : s # t /\ a[s] = "write" /\ a[t] # "none"

BeginAccess(t, mode) ==
    /\ access' = [access EXCEPT ![t] = mode]
    /\ corrupt' = (corrupt \/ Racing(access'))

EndAccess(t) ==
    /\ access' = [access EXCEPT ![t] = "none"]
    /\ UNCHANGED corrupt

-----------------------------------------------------------------------------
(* CycloneTrackCrossings, on a routing thread                              *)

\* A consumer that probes for the function passes dayrange 0.
Probe(r) ==
    /\ pc[r] = "idle"
    /\ queries[r] < MaxQueries
    /\ queries' = [queries EXCEPT ![r] = @ + 1]
    /\ leg' = [leg EXCEPT ![r] = NoLeg]
    /\ ans' = [ans EXCEPT ![r] = 0]
    /\ UNCHANGED <<semaphore, cache, access, corrupt, pc, left, seen, uiVars>>

Ask(r, l) ==
    /\ pc[r] = "idle"
    /\ queries[r] < MaxQueries
    /\ queries' = [queries EXCEPT ![r] = @ + 1]
    /\ pc' = [pc EXCEPT ![r] = "wait"]
    /\ leg' = [leg EXCEPT ![r] = l]
    /\ UNCHANGED <<semaphore, cache, access, corrupt, left, ans, seen, uiVars>>

Wait(r) ==
    /\ pc[r] = "wait"
    /\ semaphore > 0
    /\ semaphore' = semaphore - 1
    /\ pc' = [pc EXCEPT ![r] = "check"]
    /\ seen' = [seen EXCEPT ![r] = built]
    /\ UNCHANGED <<cache, access, corrupt, leg, left, ans, queries, uiVars>>

\* m_cyclone_cache.empty() reads the map too.
ReadsUnderAWrite == \E t \in Threads : access[t] = "write"

CheckEmpty_NoPost(r) ==
    /\ pc[r] = "check"
    /\ IF DOMAIN cache = {}
       THEN /\ pc' = [pc EXCEPT ![r] = "idle"]
            /\ ans' = [ans EXCEPT ![r] = -1]
            /\ UNCHANGED left
       ELSE /\ pc' = [pc EXCEPT ![r] = "scan"]
            /\ left' = [left EXCEPT ![r] = LegBuckets[leg[r]]]
            /\ UNCHANGED ans
    /\ corrupt' = (corrupt \/ ReadsUnderAWrite)
    /\ UNCHANGED <<semaphore, cache, access, leg, seen, queries, uiVars>>

\* An empty map answers -1.
CheckEmpty(r) ==
    /\ pc[r] = "check"
    /\ IF DOMAIN cache = {}
       THEN /\ pc' = [pc EXCEPT ![r] = "post"]
            /\ ans' = [ans EXCEPT ![r] = -1]
            /\ UNCHANGED left
       ELSE /\ pc' = [pc EXCEPT ![r] = "scan"]
            /\ left' = [left EXCEPT ![r] = LegBuckets[leg[r]]]
            /\ UNCHANGED ans
    /\ corrupt' = (corrupt \/ ReadsUnderAWrite)
    /\ UNCHANGED <<semaphore, cache, access, leg, seen, queries, uiVars>>

\* The loops over longitude, latitude and month visit the buckets in a fixed
\* order.
NextBucket(bs) == CHOOSE b \in bs : TRUE

BeginLook(r) ==
    /\ pc[r] = "scan"
    /\ left[r] # {}
    /\ BeginAccess(r, AccessMode(NextBucket(left[r])))
    /\ pc' = [pc EXCEPT ![r] = "look"]
    /\ UNCHANGED <<semaphore, cache, leg, left, ans, seen, queries, uiVars>>

\* The bucket is there now; a segment that crosses the leg ends the query.
\* Overlapping writes to a std::map are undefined behaviour: after one, a
\* lookup may find anything.
EndLook(r) ==
    LET b == NextBucket(left[r]) IN
    /\ pc[r] = "look"
    /\ Touch(b)
    /\ EndAccess(r)
    /\ \E hit \in BOOLEAN :
        /\ corrupt \/ (hit <=> BucketAt(b) \cap LegCrosses[leg[r]] # {})
        /\ IF hit
           THEN /\ pc' = [pc EXCEPT ![r] = "post"]
                /\ ans' = [ans EXCEPT ![r] = 1]
                /\ UNCHANGED left
           ELSE /\ pc' = [pc EXCEPT ![r] = "scan"]
                /\ left' = [left EXCEPT ![r] = @ \ {b}]
                /\ UNCHANGED ans
    /\ UNCHANGED <<semaphore, leg, seen, queries, uiVars>>

NoCrossing(r) ==
    /\ pc[r] = "scan"
    /\ left[r] = {}
    /\ pc' = [pc EXCEPT ![r] = "post"]
    /\ ans' = [ans EXCEPT ![r] = 0]
    /\ UNCHANGED <<semaphore, cache, access, corrupt, leg, left, seen, queries,
                   uiVars>>

Post(r) ==
    /\ pc[r] = "post"
    /\ semaphore' = semaphore + 1
    /\ pc' = [pc EXCEPT ![r] = "idle"]
    /\ left' = [left EXCEPT ![r] = {}]
    /\ UNCHANGED <<cache, access, corrupt, leg, ans, seen, queries, uiVars>>

-----------------------------------------------------------------------------
(* BuildCycloneCache, on the UI thread                                     *)

UpdateCyclones_NoRebuild(f) ==
    /\ ui = "idle"
    /\ rebuilds < MaxRebuilds
    /\ rebuilds' = rebuilds + 1
    /\ filter' = f
    /\ UNCHANGED <<semaphore, cache, access, corrupt, readerVars, theatres,
                   enabled, ticked, built, ui, held, todo>>

\* OnUpdateCyclones: a control of the cyclone page changed.
UpdateCyclones(f) ==
    /\ ui = "idle"
    /\ rebuilds < MaxRebuilds
    /\ rebuilds' = rebuilds + 1
    /\ filter' = f
    /\ ui' = IF theatres THEN "acquire" ELSE "idle"
    /\ UNCHANGED <<semaphore, cache, access, corrupt, readerVars, theatres,
                   enabled, ticked, built, held, todo>>

AcquirePermit ==
    /\ ui = "acquire"
    /\ held < Permits
    /\ semaphore > 0
    /\ semaphore' = semaphore - 1
    /\ held' = held + 1
    /\ UNCHANGED <<cache, access, corrupt, readerVars, theatres, enabled, ticked,
                   filter, built, ui, todo, rebuilds>>

Clear_OnePermit ==
    /\ ui = "acquire"
    /\ held > 0
    /\ cache' = [k \in {} |-> {}]
    /\ todo' = Passes[filter]
    /\ ui' = "fill"
    /\ BeginAccess(UI, "write")
    /\ UNCHANGED <<semaphore, readerVars, theatres, enabled, ticked, filter, built,
                   held, rebuilds>>

Clear_KeepOld ==
    /\ ui = "acquire"
    /\ held = Permits
    /\ UNCHANGED cache
    /\ todo' = Passes[filter]
    /\ ui' = "fill"
    /\ BeginAccess(UI, "write")
    /\ UNCHANGED <<semaphore, readerVars, theatres, enabled, ticked, filter, built,
                   held, rebuilds>>

Clear ==
    /\ ui = "acquire"
    /\ held = Permits
    /\ cache' = [k \in {} |-> {}]
    /\ todo' = Passes[filter]
    /\ ui' = "fill"
    /\ BeginAccess(UI, "write")
    /\ UNCHANGED <<semaphore, readerVars, theatres, enabled, ticked, filter, built,
                   held, rebuilds>>

Fill(t) ==
    /\ ui = "fill"
    /\ t \in todo
    /\ File(t)
    /\ todo' = todo \ {t}
    /\ UNCHANGED <<semaphore, access, corrupt, readerVars, theatres, enabled,
                   ticked, filter, built, ui, held, rebuilds>>

Filled ==
    /\ ui = "fill"
    /\ todo = {}
    /\ ui' = "post"
    /\ built' = filter
    /\ EndAccess(UI)
    /\ UNCHANGED <<semaphore, cache, readerVars, theatres, enabled, ticked, filter,
                   held, todo, rebuilds>>

ReleasePermit ==
    /\ ui = "post"
    /\ semaphore' = semaphore + 1
    /\ held' = held - 1
    /\ ui' = IF held = 1 THEN "idle" ELSE "post"
    /\ UNCHANGED <<cache, access, corrupt, readerVars, theatres, enabled, ticked,
                   filter, built, todo, rebuilds>>

-----------------------------------------------------------------------------
(* RenderCyclones, on the UI thread                                        *)

\* The user ticks or unticks the theatre in the main dialog.
TickCyclones ==
    /\ ui = "idle"
    /\ enabled
    /\ ticked' = ~ticked
    /\ UNCHANGED <<semaphore, cache, access, corrupt, readerVars, theatres,
                   enabled, filter, built, ui, held, todo, rebuilds>>

\* A repaint visits every bucket of the viewport.
Render(view) ==
    /\ ui = "idle"
    /\ ticked
    /\ ui' = "draw"
    /\ todo' = view
    /\ UNCHANGED <<semaphore, cache, access, corrupt, readerVars, theatres,
                   enabled, ticked, filter, built, held, rebuilds>>

BeginDraw ==
    /\ ui = "draw"
    /\ todo # {}
    /\ BeginAccess(UI, AccessMode(NextBucket(todo)))
    /\ ui' = "drawing"
    /\ UNCHANGED <<semaphore, cache, readerVars, theatres, enabled, ticked, filter,
                   built, held, todo, rebuilds>>

EndDraw ==
    /\ ui = "drawing"
    /\ Touch(NextBucket(todo))
    /\ EndAccess(UI)
    /\ todo' = todo \ {NextBucket(todo)}
    /\ ui' = "draw"
    /\ UNCHANGED <<semaphore, readerVars, theatres, enabled, ticked, filter, built,
                   held, rebuilds>>

\* Drawing that took 1200 ms or more unticks the theatre.
Rendered ==
    /\ ui = "draw"
    /\ todo = {}
    /\ ui' = "idle"
    /\ \E slow \in BOOLEAN : ticked' = ~slow
    /\ UNCHANGED <<semaphore, cache, access, corrupt, readerVars, theatres,
                   enabled, filter, built, held, todo, rebuilds>>

-----------------------------------------------------------------------------
\* The map after a finished rebuild under settings f.
FilledUnder(f) ==
    [k \in UNION {Covers[t] : t \in Passes[f]} |-> {t \in Passes[f] : k \in Covers[t]}]

\* The load that preceded may have filled the cache, or been abandoned before
\* the "cyclone cache" step, or have met an empty or unreadable theatre.
Init ==
    /\ semaphore = Permits
    /\ filter \in Filters
    /\ theatres \in BOOLEAN
    /\ built \in IF theatres THEN {filter, NoFilter} ELSE {NoFilter}
    /\ cache = IF built = NoFilter THEN [k \in {} |-> {}] ELSE FilledUnder(built)
    /\ enabled \in BOOLEAN
    /\ ticked = FALSE
    /\ ui = "idle"
    /\ held = 0
    /\ todo = {}
    /\ rebuilds = 0
    /\ pc = [r \in Readers |-> "idle"]
    /\ leg = [r \in Readers |-> NoLeg]
    /\ left = [r \in Readers |-> {}]
    /\ ans = [r \in Readers |-> 0]
    /\ seen = [r \in Readers |-> NoFilter]
    /\ queries = [r \in Readers |-> 0]
    /\ access = [t \in Threads |-> "none"]
    /\ corrupt = FALSE

InsideStep(r) == CheckEmpty(r) \/ BeginLook(r) \/ EndLook(r) \/ NoCrossing(r) \/ Post(r)

ReaderStep(r) ==
    \/ Probe(r)
    \/ \E l \in Legs : Ask(r, l)
    \/ Wait(r)
    \/ InsideStep(r)

BuildStep == AcquirePermit \/ Clear \/ (\E t \in Tracks : Fill(t)) \/ Filled \/ ReleasePermit
DrawStep == BeginDraw \/ EndDraw \/ Rendered

UIStep ==
    \/ \E f \in Filters : UpdateCyclones(f)
    \/ TickCyclones
    \/ \E view \in SUBSET Buckets : Render(view)
    \/ BuildStep
    \/ DrawStep

Next == UIStep \/ \E r \in Readers : ReaderStep(r)

Spec == Init /\ [][Next]_vars

\* A thread that has work to do is scheduled: the UI thread finishes what an
\* event started, and a thread in a query goes on with it.  The semaphore is
\* not FIFO, so nothing stronger than weak fairness is assumed of Wait.
Fairness ==
    /\ WF_vars(BuildStep \/ DrawStep)
    /\ \A r \in Readers : WF_vars(Wait(r)) /\ WF_vars(InsideStep(r))

FairSpec == Spec /\ Fairness

-----------------------------------------------------------------------------
(* Type correctness: every variable stays in its range.                    *)
TypeOK ==
    /\ semaphore \in 0..Permits
    /\ DOMAIN cache \subseteq Buckets
    /\ cache \in [DOMAIN cache -> SUBSET Tracks]
    /\ theatres \in BOOLEAN /\ enabled \in BOOLEAN /\ ticked \in BOOLEAN
    /\ filter \in Filters
    /\ built \in Filters \cup {NoFilter}
    /\ ui \in {"idle", "acquire", "fill", "post", "draw", "drawing"}
    /\ held \in 0..Permits
    /\ todo \in IF ui = "fill" THEN SUBSET Tracks ELSE SUBSET Buckets
    /\ pc \in [Readers -> {"idle", "wait", "check", "scan", "look", "post"}]
    /\ leg \in [Readers -> Legs \cup {NoLeg}]
    /\ left \in [Readers -> SUBSET Buckets]
    /\ ans \in [Readers -> {-1, 0, 1}]
    /\ seen \in [Readers -> Filters \cup {NoFilter}]
    /\ queries \in [Readers -> 0..MaxQueries]
    /\ rebuilds \in 0..MaxRebuilds
    /\ access \in [Threads -> {"none", "read", "write"}]
    /\ corrupt \in BOOLEAN

\* Every Wait of CycloneTrackCrossings and BuildCycloneCache is paired with
\* one Post on every path, the early return on an empty cache and the return
\* on a crossing included: the permits left, the builder's and one per
\* thread inside add up to the semaphore's count.
PermitsConserved ==
    semaphore + held + Cardinality(InsideReaders) = Permits

\* While BuildCycloneCache clears and fills the map no routing thread is
\* between its Wait and its Post.
BuilderExclusive ==
    ui = "fill" => InsideReaders = {}

\* What a query reads is one snapshot: from the moment a thread has its
\* permit until it gives it back, no bucket gains or loses a segment, no
\* matter what the user does to the settings.  (Buckets may appear empty.)
SnapshotStable ==
    [][(\E r \in Readers : Inside(r)) =>
           \A k \in Buckets :
               (IF k \in DOMAIN cache' THEN cache'[k] ELSE {}) = BucketAt(k)]_vars

\* The answer a thread returns is the right one for the settings in force
\* when it entered: 1 exactly for a crossing, 0 for none, -1 only when the
\* cache held no segment at all.  This holds unless two lookups raced, or
\* the cache was never filled.
AnswerMatchesSettings ==
    \A r \in Readers :
        (pc[r] = "post" /\ ~corrupt /\ seen[r] # NoFilter) =>
            CASE ans[r] = 1  -> Crosses(leg[r], seen[r])
              [] ans[r] = 0  -> ~Crosses(leg[r], seen[r])
              [] ans[r] = -1 -> Holding(seen[r]) = {}

\* Whenever the UI thread is between events, a cache that was ever filled
\* holds what the settings on the screen ask for, bucket by bucket, and
\* nothing of the settings before.
CacheReflectsSettings ==
    (ui = "idle" /\ built # NoFilter) =>
        \A k \in Buckets : BucketAt(k) = {t \in Passes[filter] : k \in Covers[t]}

\* A rebuild the user asked for ends, although routing threads compete for
\* the same permits, as long as each makes finitely many queries.
RebuildEnds == (ui = "acquire") ~> (ui = "idle")

\* Every query returns.
QueryReturns == \A r \in Readers : (pc[r] = "wait") ~> (pc[r] = "idle")
-----------------------------------------------------------------------------
(* The inductive invariant behind BuilderExclusive and SnapshotStable.     *)

\* How many permits the UI thread holds at each place of its code.
HeldByPlace ==
    /\ ui \in {"idle", "draw", "drawing"} => held = 0
    /\ ui = "fill" => held = Permits
    /\ ui = "post" => held > 0

\* A lookup in progress has a bucket to look at, and a query has a leg.
LookupsHaveTargets ==
    /\ ui = "drawing" => todo # {}
    /\ \A r \in Readers :
        /\ pc[r] = "look" => left[r] # {}
        /\ pc[r] # "idle" => leg[r] \in Legs

IInv == TypeOK /\ HeldByPlace /\ LookupsHaveTargets /\ PermitsConserved
=============================================================================
