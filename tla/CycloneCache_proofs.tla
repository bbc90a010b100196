------------------------- MODULE CycloneCache_proofs -------------------------
(***************************************************************************)
(* For any number of routing threads, permits, buckets, segments, settings *)
(* and legs: types, permit conservation, exclusion of the rebuild and the  *)
(* stability of what a query reads; and for the date window of a query,    *)
(* which days it is and which of them the buckets it scans leave out.      *)
(***************************************************************************)
EXTENDS CycloneCache, CycloneWindow, FiniteSetTheorems, TLAPS

\* The threads that hold a permit are finitely many.
LEMMA InsideFinite ==
    /\ IsFiniteSet(InsideReaders)
    /\ Cardinality(InsideReaders) \in Nat
BY ReadersAssumption, FS_Subset, FS_CardinalityType DEF InsideReaders

\* A thread that enters is counted once more.
LEMMA EnterCount ==
    ASSUME NEW r \in Readers, ~Inside(r),
           InsideReaders' = InsideReaders \cup {r}
    PROVE  Cardinality(InsideReaders)' = Cardinality(InsideReaders) + 1
<1>1. r \notin InsideReaders
  BY DEF InsideReaders
<1> QED
  BY <1>1, InsideFinite, FS_AddElement

\* A thread that leaves is counted once less.
LEMMA LeaveCount ==
    ASSUME NEW r \in Readers, Inside(r),
           InsideReaders' = InsideReaders \ {r}
    PROVE  Cardinality(InsideReaders)' = Cardinality(InsideReaders) - 1
<1>1. r \in InsideReaders
  BY DEF InsideReaders
<1> QED
  BY <1>1, InsideFinite, FS_RemoveElement

\* Picking the next bucket of a set that is not empty picks a member.
LEMMA NextBucketIn ==
    ASSUME NEW bs, bs # {}
    PROVE  NextBucket(bs) \in bs
BY DEF NextBucket

-----------------------------------------------------------------------------
(* Steps of the UI thread do not move a routing thread.                    *)

LEMMA SamePcSameInside ==
    ASSUME pc' = pc
    PROVE  InsideReaders' = InsideReaders
BY DEF InsideReaders, Inside

\* operator[] and push_back keep the map's keys and values in range.
LEMMA TouchType ==
    ASSUME TypeOK, NEW b \in Buckets, Touch(b)
    PROVE  /\ DOMAIN cache' \subseteq Buckets
           /\ cache' \in [DOMAIN cache' -> SUBSET Tracks]
BY DEF TypeOK, Touch, BucketAt

LEMMA FileType ==
    ASSUME TypeOK, NEW t \in Tracks, File(t)
    PROVE  /\ DOMAIN cache' \subseteq Buckets
           /\ cache' \in [DOMAIN cache' -> SUBSET Tracks]
BY DataAssumption DEF TypeOK, File, BucketAt

LEMMA BeginAccessType ==
    ASSUME TypeOK, NEW t \in Threads, NEW m \in {"read", "write"}, BeginAccess(t, m)
    PROVE  access' \in [Threads -> {"none", "read", "write"}] /\ corrupt' \in BOOLEAN
BY DEF TypeOK, BeginAccess, Racing

LEMMA EndAccessType ==
    ASSUME TypeOK, NEW t \in Threads, EndAccess(t)
    PROVE  access' \in [Threads -> {"none", "read", "write"}] /\ corrupt' \in BOOLEAN
BY DEF TypeOK, EndAccess

-----------------------------------------------------------------------------
LEMMA InitIInv == Init => IInv
<1> SUFFICES ASSUME Init PROVE IInv
  OBVIOUS
<1>1. TypeOK
  <2>1. DOMAIN cache \subseteq Buckets /\ cache \in [DOMAIN cache -> SUBSET Tracks]
    <3>1. CASE built = NoFilter
      BY <3>1 DEF Init
    <3>2. CASE built # NoFilter
      <4>1. built \in Filters /\ cache = FilledUnder(built)
        BY <3>2 DEF Init
      <4>2. DOMAIN cache = UNION {Covers[t] : t \in Passes[built]}
        BY <4>1 DEF FilledUnder
      <4>3. Passes[built] \subseteq Tracks /\ \A t \in Passes[built] : Covers[t] \subseteq Buckets
        BY <4>1, DataAssumption
      <4> QED
        BY <4>1, <4>2, <4>3 DEF FilledUnder
    <3> QED
      BY <3>1, <3>2
  <2>2. theatres \in BOOLEAN /\ enabled \in BOOLEAN /\ ticked \in BOOLEAN /\ corrupt \in BOOLEAN
    BY DEF Init
  <2>3. filter \in Filters /\ built \in Filters \cup {NoFilter}
    <3>1. CASE theatres
      BY <3>1 DEF Init
    <3>2. CASE ~theatres
      BY <3>2 DEF Init
    <3> QED
      BY <3>1, <3>2
  <2>4. /\ pc \in [Readers -> {"idle", "wait", "check", "scan", "look", "post"}]
        /\ leg \in [Readers -> Legs \cup {NoLeg}]
        /\ left \in [Readers -> SUBSET Buckets]
        /\ seen \in [Readers -> Filters \cup {NoFilter}]
        /\ access \in [Threads -> {"none", "read", "write"}]
    BY DEF Init
  <2>5. /\ semaphore \in 0..Permits /\ held \in 0..Permits
        /\ ans \in [Readers -> {-1, 0, 1}]
        /\ queries \in [Readers -> 0..MaxQueries]
        /\ rebuilds \in 0..MaxRebuilds
    BY PermitsAssumption, BoundAssumption DEF Init
  <2>6. ui = "idle" /\ todo = {}
    BY DEF Init
  <2> QED
    BY <2>1, <2>2, <2>3, <2>4, <2>5, <2>6 DEF TypeOK
<1>2. HeldByPlace /\ LookupsHaveTargets
  BY DEF Init, HeldByPlace, LookupsHaveTargets
<1>3. PermitsConserved
  <2>1. InsideReaders = {}
    BY DEF Init, InsideReaders, Inside
  <2> QED
    BY <2>1, FS_EmptySet, PermitsAssumption DEF Init, PermitsConserved
<1> QED
  BY <1>1, <1>2, <1>3 DEF IInv

\* A step of a routing thread that neither takes nor returns a permit.
LEMMA ReaderKeepsIInv ==
    ASSUME IInv, NEW r \in Readers,
           Probe(r) \/ (\E l \in Legs : Ask(r, l)) \/ CheckEmpty(r) \/ BeginLook(r)
           \/ EndLook(r) \/ NoCrossing(r)
    PROVE  IInv'
<1> USE DEF IInv, TypeOK, HeldByPlace, LookupsHaveTargets, uiVars
<1>1. UNCHANGED <<semaphore, held>>
  BY DEF Probe, Ask, CheckEmpty, BeginLook, EndLook, NoCrossing
<1>2. InsideReaders' = InsideReaders
  BY DEF InsideReaders, Inside, Probe, Ask, CheckEmpty, BeginLook, EndLook, NoCrossing
<1>3. PermitsConserved'
  BY <1>1, <1>2 DEF PermitsConserved
<1>4. r \in Threads
  BY DEF Threads
<1>5. CASE Probe(r)
  BY <1>3, <1>5, BoundAssumption DEF Probe
<1>6. ASSUME NEW l \in Legs, Ask(r, l) PROVE IInv'
  BY <1>3, <1>6, BoundAssumption DEF Ask
<1>7. CASE CheckEmpty(r)
  <2>1. leg[r] \in Legs
    BY <1>7 DEF CheckEmpty
  <2>2. LegBuckets[leg[r]] \in SUBSET Buckets
    BY <2>1, DataAssumption
  <2>3. corrupt' \in BOOLEAN
    BY <1>7 DEF CheckEmpty, ReadsUnderAWrite
  <2>4. /\ pc' \in [Readers -> {"idle", "wait", "check", "scan", "look", "post"}]
        /\ ans' \in [Readers -> {-1, 0, 1}]
    BY <1>7 DEF CheckEmpty
  <2>5. left' \in [Readers -> SUBSET Buckets]
    BY <1>7, <2>2 DEF CheckEmpty
  <2>6. TypeOK'
    BY <1>7, <2>3, <2>4, <2>5 DEF CheckEmpty
  <2>7. HeldByPlace' /\ LookupsHaveTargets'
    BY <1>7 DEF CheckEmpty
  <2> QED
    BY <1>3, <2>6, <2>7
<1>8. CASE BeginLook(r)
  <2>1. access' \in [Threads -> {"none", "read", "write"}] /\ corrupt' \in BOOLEAN
    BY <1>4, <1>8, BeginAccessType DEF BeginLook, AccessMode
  <2> QED
    BY <1>3, <1>8, <2>1 DEF BeginLook
<1>9. CASE EndLook(r)
  <2>1. NextBucket(left[r]) \in Buckets
    BY <1>9, NextBucketIn DEF EndLook
  <2>2. DOMAIN cache' \subseteq Buckets /\ cache' \in [DOMAIN cache' -> SUBSET Tracks]
    BY <1>9, <2>1, TouchType DEF EndLook
  <2>3. access' \in [Threads -> {"none", "read", "write"}] /\ corrupt' \in BOOLEAN
    BY <1>4, <1>9, EndAccessType DEF EndLook
  <2>4. /\ pc' \in [Readers -> {"idle", "wait", "check", "scan", "look", "post"}]
        /\ ans' \in [Readers -> {-1, 0, 1}]
        /\ left' \in [Readers -> SUBSET Buckets]
        /\ \A q \in Readers : pc'[q] = "look" => left'[q] # {}
        /\ \A q \in Readers : pc'[q] # "idle" => pc[q] # "idle"
        /\ UNCHANGED <<semaphore, leg, seen, queries, uiVars>>
    BY <1>9 DEF EndLook
  <2> QED
    BY <1>3, <2>2, <2>3, <2>4
<1>10. CASE NoCrossing(r)
  BY <1>3, <1>10 DEF NoCrossing
<1> QED
  BY <1>5, <1>6, <1>7, <1>8, <1>9, <1>10

\* Wait moves one permit from the semaphore to the thread.
LEMMA WaitKeepsIInv ==
    ASSUME IInv, NEW r \in Readers, Wait(r)
    PROVE  IInv'
<1> USE DEF IInv, TypeOK, HeldByPlace, LookupsHaveTargets, uiVars
<1>1. InsideReaders' = InsideReaders \cup {r} /\ ~Inside(r)
  BY DEF Wait, InsideReaders, Inside
<1>2. Cardinality(InsideReaders)' = Cardinality(InsideReaders) + 1
  BY <1>1, EnterCount
<1>3. PermitsConserved'
  BY <1>2, InsideFinite DEF Wait, PermitsConserved
<1>4. semaphore' \in 0..Permits
  BY PermitsAssumption DEF Wait
<1> QED
  BY <1>3, <1>4 DEF Wait

\* Post moves it back; the count shows there is room for it.
LEMMA PostKeepsIInv ==
    ASSUME IInv, NEW r \in Readers, Post(r)
    PROVE  IInv'
<1> USE DEF IInv, TypeOK, HeldByPlace, LookupsHaveTargets, uiVars
<1>1. InsideReaders' = InsideReaders \ {r} /\ Inside(r)
  BY DEF Post, InsideReaders, Inside
<1>2. Cardinality(InsideReaders)' = Cardinality(InsideReaders) - 1
  BY <1>1, LeaveCount
<1>3. PermitsConserved'
  BY <1>2, InsideFinite DEF Post, PermitsConserved
<1>4. Cardinality(InsideReaders)' \in Nat
  <2>1. IsFiniteSet(InsideReaders \ {r})
    BY InsideFinite, FS_Subset
  <2> QED
    BY <1>1, <2>1, FS_CardinalityType
<1>5. semaphore' \in 0..Permits
  BY <1>3, <1>4, PermitsAssumption DEF Post, PermitsConserved
<1> QED
  BY <1>3, <1>5 DEF Post

\* The UI thread's steps: permits move between the semaphore and "held".
LEMMA UIKeepsIInv ==
    ASSUME IInv, UIStep
    PROVE  IInv'
<1> USE DEF IInv, TypeOK, HeldByPlace, LookupsHaveTargets, readerVars
<1>1. pc' = pc
  BY DEF UIStep, BuildStep, DrawStep, UpdateCyclones, TickCyclones, Render,
         AcquirePermit, Clear, Fill, Filled, ReleasePermit, BeginDraw, EndDraw, Rendered
<1>2. InsideReaders' = InsideReaders
  BY <1>1, SamePcSameInside
<1>3. UI \in Threads
  BY DEF Threads
<1>4. ASSUME NEW f \in Filters, UpdateCyclones(f) PROVE IInv'
  BY <1>2, <1>4, PermitsAssumption, BoundAssumption DEF UpdateCyclones, PermitsConserved
<1>5. CASE TickCyclones
  BY <1>2, <1>5 DEF TickCyclones, PermitsConserved
<1>6. ASSUME NEW view \in SUBSET Buckets, Render(view) PROVE IInv'
  BY <1>2, <1>6 DEF Render, PermitsConserved
<1>7. CASE AcquirePermit
  BY <1>2, <1>7, PermitsAssumption, InsideFinite DEF AcquirePermit, PermitsConserved
<1>8. CASE Clear
  <2>1. access' \in [Threads -> {"none", "read", "write"}] /\ corrupt' \in BOOLEAN
    BY <1>3, <1>8, BeginAccessType DEF Clear
  <2>2. Passes[filter] \subseteq Tracks
    BY DataAssumption
  <2>3. DOMAIN cache' = {} /\ cache' \in [{} -> SUBSET Tracks]
    BY <1>8 DEF Clear
  <2> QED
    BY <1>2, <1>8, <2>1, <2>2, <2>3 DEF Clear, PermitsConserved
<1>9. ASSUME NEW t \in Tracks, Fill(t) PROVE IInv'
  <2>1. DOMAIN cache' \subseteq Buckets /\ cache' \in [DOMAIN cache' -> SUBSET Tracks]
    BY <1>9, FileType DEF Fill
  <2> QED
    BY <1>2, <1>9, <2>1 DEF Fill, PermitsConserved
<1>10. CASE Filled
  <2>1. access' \in [Threads -> {"none", "read", "write"}] /\ corrupt' \in BOOLEAN
    BY <1>3, <1>10, EndAccessType DEF Filled
  <2> QED
    BY <1>2, <1>10, <2>1, PermitsAssumption DEF Filled, PermitsConserved
<1>11. CASE ReleasePermit
  BY <1>2, <1>11, PermitsAssumption, InsideFinite DEF ReleasePermit, PermitsConserved
<1>12. CASE BeginDraw
  <2>1. access' \in [Threads -> {"none", "read", "write"}] /\ corrupt' \in BOOLEAN
    BY <1>3, <1>12, BeginAccessType DEF BeginDraw, AccessMode
  <2> QED
    BY <1>2, <1>12, <2>1 DEF BeginDraw, PermitsConserved
<1>13. CASE EndDraw
  <2>1. NextBucket(todo) \in Buckets
    BY <1>13, NextBucketIn DEF EndDraw
  <2>2. DOMAIN cache' \subseteq Buckets /\ cache' \in [DOMAIN cache' -> SUBSET Tracks]
    BY <1>13, <2>1, TouchType DEF EndDraw
  <2>3. access' \in [Threads -> {"none", "read", "write"}] /\ corrupt' \in BOOLEAN
    BY <1>3, <1>13, EndAccessType DEF EndDraw
  <2> QED
    BY <1>2, <1>13, <2>2, <2>3 DEF EndDraw, PermitsConserved
<1>14. CASE Rendered
  BY <1>2, <1>14 DEF Rendered, PermitsConserved
<1> QED
  BY <1>4, <1>5, <1>6, <1>7, <1>8, <1>9, <1>10, <1>11, <1>12, <1>13, <1>14
     DEF UIStep, BuildStep, DrawStep

LEMMA NextIInv == IInv /\ [Next]_vars => IInv'
<1> SUFFICES ASSUME IInv, [Next]_vars PROVE IInv'
  OBVIOUS
<1>1. CASE UIStep
  BY <1>1, UIKeepsIInv
<1>2. ASSUME NEW r \in Readers, ReaderStep(r) PROVE IInv'
  BY <1>2, ReaderKeepsIInv, WaitKeepsIInv, PostKeepsIInv DEF ReaderStep, InsideStep
<1>3. CASE UNCHANGED vars
  <2>1. InsideReaders' = InsideReaders
    BY <1>3, SamePcSameInside DEF vars, readerVars
  <2> QED
    BY <1>3, <2>1 DEF vars, uiVars, readerVars, IInv, TypeOK, HeldByPlace,
       LookupsHaveTargets, PermitsConserved
<1> QED
  BY <1>1, <1>2, <1>3 DEF Next

-----------------------------------------------------------------------------
\* The inductive invariant holds throughout.
THEOREM Inductive == Spec => []IInv
<1>1. Init => IInv
  BY InitIInv
<1>2. IInv /\ [Next]_vars => IInv'
  BY NextIInv
<1> QED
  BY <1>1, <1>2, PTL DEF Spec

\* Every variable of the cyclone cache stays in its range.
THEOREM TypeCorrect == Spec => []TypeOK
<1>1. IInv => TypeOK
  BY DEF IInv
<1> QED
  BY <1>1, Inductive, PTL

\* No path through CycloneTrackCrossings or BuildCycloneCache loses or
\* invents a permit, whatever the number of threads and permits.
THEOREM PermitConservation == Spec => []PermitsConserved
<1>1. IInv => PermitsConserved
  BY DEF IInv
<1> QED
  BY <1>1, Inductive, PTL

\* All permits in the builder's hands leave none for a thread inside.
LEMMA IInvExcludes == IInv => BuilderExclusive
<1> SUFFICES ASSUME IInv, ui = "fill" PROVE InsideReaders = {}
  BY DEF BuilderExclusive
<1>1. held = Permits /\ semaphore \in Nat /\ semaphore + held + Cardinality(InsideReaders) = Permits
  BY PermitsAssumption DEF IInv, HeldByPlace, PermitsConserved, TypeOK
<1>2. Cardinality(InsideReaders) = 0
  BY <1>1, InsideFinite, PermitsAssumption
<1> QED
  BY <1>2, InsideFinite, FS_EmptySet

\* BuildCycloneCache never clears or fills the map under a reader.
THEOREM BuilderExclusion == Spec => []BuilderExclusive
BY IInvExcludes, Inductive, PTL

\* A step during which some thread holds a permit changes no bucket's
\* segments: only Clear and Fill do, and the exclusion rules them out.
LEMMA StepKeepsSnapshot ==
    ASSUME IInv, [Next]_vars, \E r \in Readers : Inside(r)
    PROVE  \A k \in Buckets :
               (IF k \in DOMAIN cache' THEN cache'[k] ELSE {}) = BucketAt(k)
<1>1. InsideReaders # {}
  BY DEF InsideReaders
<1>2. ui # "fill"
  BY <1>1, IInvExcludes DEF BuilderExclusive
<1>3. ~Clear
  <2>1. SUFFICES ASSUME Clear PROVE FALSE
    OBVIOUS
  <2>2. held = Permits /\ semaphore \in Nat
        /\ semaphore + held + Cardinality(InsideReaders) = Permits
    BY <2>1, PermitsAssumption DEF Clear, IInv, TypeOK, PermitsConserved
  <2>3. Cardinality(InsideReaders) = 0
    BY <2>2, InsideFinite, PermitsAssumption
  <2> QED
    BY <1>1, <2>3, InsideFinite, FS_EmptySet
<1>4. cache' = cache \/ \E b : Touch(b)
  <2>1. CASE UIStep
    BY <1>2, <1>3, <2>1 DEF UIStep, BuildStep, DrawStep, UpdateCyclones, TickCyclones,
       Render, AcquirePermit, Fill, Filled, ReleasePermit, BeginDraw, EndDraw, Rendered
  <2>2. ASSUME NEW r \in Readers, ReaderStep(r) PROVE cache' = cache \/ \E b : Touch(b)
    BY <2>2 DEF ReaderStep, InsideStep, Probe, Ask, Wait, CheckEmpty, BeginLook,
       EndLook, NoCrossing, Post
  <2>3. CASE UNCHANGED vars
    BY <2>3 DEF vars
  <2> QED
    BY <2>1, <2>2, <2>3 DEF Next
<1>5. CASE cache' = cache
  BY <1>5 DEF BucketAt
<1>6. ASSUME NEW b, Touch(b)
      PROVE  \A k \in Buckets :
                 (IF k \in DOMAIN cache' THEN cache'[k] ELSE {}) = BucketAt(k)
  BY <1>6 DEF Touch, BucketAt
<1> QED
  BY <1>4, <1>5, <1>6

\* What a query reads between its Wait and its Post is one snapshot.
THEOREM SnapshotStability == Spec => SnapshotStable
<1>1. IInv /\ IInv' /\ [Next]_vars =>
        [(\E r \in Readers : Inside(r)) =>
           \A k \in Buckets :
               (IF k \in DOMAIN cache' THEN cache'[k] ELSE {}) = BucketAt(k)]_vars
  BY StepKeepsSnapshot
<1> QED
  BY <1>1, Inductive, PTL DEF Spec, SnapshotStable

-----------------------------------------------------------------------------
(* What the cache holds and what a query has seen of it.                   *)

\* The segments of bucket k under settings f.
Under(f, k) == {t \in Passes[f] : k \in Covers[t]}

\* An empty theatre leaves the cache as it is for good; otherwise the cache
\* holds the settings of the last rebuild, or is on its way to the next.
ContentsKnown ==
    /\ ~theatres => built = NoFilter /\ ui \notin {"acquire", "fill"}
    /\ ui \notin {"acquire", "fill"} /\ built # NoFilter => built = filter
    /\ ui # "fill" /\ built # NoFilter =>
        \A k \in Buckets : BucketAt(k) = Under(built, k)
    /\ ui = "fill" =>
        /\ todo \subseteq Passes[filter]
        /\ \A k \in Buckets : BucketAt(k) = Under(filter, k) \ todo

\* What is known of a query for leg l under settings f at a place of the code:
\* what was scanned did not cross it, and the answer is the right one.
Known(place, f, l, rest, answer) ==
    /\ place \in {"scan", "look"} =>
        /\ rest \subseteq LegBuckets[l]
        /\ \A k \in LegBuckets[l] \ rest : Under(f, k) \cap LegCrosses[l] = {}
    /\ place = "post" =>
        CASE answer = 1  -> Crosses(l, f)
          [] answer = 0  -> ~Crosses(l, f)
          [] answer = -1 -> Holding(f) = {}

\* A thread with a permit reads the settings it entered under.
QueryKnown(r) ==
    Inside(r) =>
        /\ seen[r] = built
        /\ ~corrupt /\ built # NoFilter => Known(pc[r], built, leg[r], left[r], ans[r])

AnswersKnown == \A r \in Readers : QueryKnown(r)

CInv == IInv /\ ContentsKnown /\ AnswersKnown

\* operator[] inserts an empty bucket, which holds what a missing one does.
LEMMA TouchKeepsBuckets ==
    ASSUME NEW b, Touch(b)
    PROVE  \A k : BucketAt(k)' = BucketAt(k)
BY DEF Touch, BucketAt

\* A step of a thread adds no segment to the cache and takes none away.
LEMMA ReaderKeepsBuckets ==
    ASSUME NEW r \in Readers, ReaderStep(r)
    PROVE  UNCHANGED uiVars /\ \A k : BucketAt(k)' = BucketAt(k)
<1>1. UNCHANGED uiVars /\ (cache' = cache \/ \E b : Touch(b))
  BY DEF ReaderStep, InsideStep, Probe, Ask, Wait, CheckEmpty, BeginLook, EndLook,
     NoCrossing, Post
<1>2. CASE cache' = cache
  BY <1>1, <1>2 DEF BucketAt
<1> QED
  BY <1>1, <1>2, TouchKeepsBuckets

\* A step that neither starts nor ends a rebuild keeps what is known of it.
LEMMA QuietKeepsContents ==
    ASSUME ContentsKnown, UNCHANGED <<theatres, built, filter>>,
           ui # "fill", ui' # "fill", ui = "acquire" <=> ui' = "acquire",
           \A k : BucketAt(k)' = BucketAt(k)
    PROVE  ContentsKnown'
<1>1. \A k : Under(built, k)' = Under(built, k)
  BY DEF Under
<1> QED
  BY <1>1 DEF ContentsKnown

LEMMA InitCInv == Init => CInv
<1> SUFFICES ASSUME Init PROVE CInv
  OBVIOUS
<1>1. IInv /\ filter \in Filters
  BY InitIInv DEF Init
<1>2. AnswersKnown
  BY DEF Init, AnswersKnown, QueryKnown, Inside
<1>3. ui = "idle" /\ (~theatres => built = NoFilter) /\ (built # NoFilter => built = filter)
  BY DEF Init
<1>4. ASSUME built # NoFilter, NEW k \in Buckets PROVE BucketAt(k) = Under(built, k)
  <2>1. cache = FilledUnder(built)
    BY <1>4 DEF Init
  <2>2. DOMAIN cache = UNION {Covers[t] : t \in Passes[built]}
    BY <2>1 DEF FilledUnder
  <2>3. CASE k \in DOMAIN cache
    BY <2>1, <2>2, <2>3 DEF FilledUnder, BucketAt, Under
  <2>4. CASE k \notin DOMAIN cache
    BY <2>2, <2>4 DEF BucketAt, Under
  <2> QED
    BY <2>3, <2>4
<1>5. ContentsKnown
  BY <1>3, <1>4 DEF ContentsKnown
<1> QED
  BY <1>1, <1>2, <1>5 DEF CInv

LEMMA UIKeepsContents ==
    ASSUME CInv, UIStep
    PROVE  ContentsKnown'
<1> USE DEF CInv
<1>1. ASSUME NEW f \in Filters, UpdateCyclones(f) PROVE ContentsKnown'
  <2>1. /\ ui = "idle" /\ ui' = IF theatres THEN "acquire" ELSE "idle"
        /\ UNCHANGED <<theatres, built, cache, todo>>
    BY <1>1 DEF UpdateCyclones
  <2>2. \A k : BucketAt(k)' = BucketAt(k)
    BY <2>1 DEF BucketAt
  <2>3. \A k : Under(built, k)' = Under(built, k)
    BY <2>1 DEF Under
  <2> QED
    BY <2>1, <2>2, <2>3 DEF ContentsKnown
<1>2. ASSUME TickCyclones \/ (\E view \in SUBSET Buckets : Render(view)) \/ AcquirePermit
             \/ ReleasePermit \/ BeginDraw \/ Rendered
      PROVE  ContentsKnown'
  <2>1. /\ UNCHANGED <<theatres, built, filter, cache>>
        /\ ui # "fill" /\ ui' # "fill" /\ (ui = "acquire" <=> ui' = "acquire")
    BY <1>2 DEF TickCyclones, Render, AcquirePermit, ReleasePermit, BeginDraw, Rendered
  <2>2. \A k : BucketAt(k)' = BucketAt(k)
    BY <2>1 DEF BucketAt
  <2> QED
    BY <2>1, <2>2, QuietKeepsContents
<1>3. CASE EndDraw
  <2>1. /\ UNCHANGED <<theatres, built, filter>>
        /\ ui # "fill" /\ ui' # "fill" /\ (ui = "acquire" <=> ui' = "acquire")
    BY <1>3 DEF EndDraw
  <2>2. \A k : BucketAt(k)' = BucketAt(k)
    BY <1>3, TouchKeepsBuckets DEF EndDraw
  <2> QED
    BY <2>1, <2>2, QuietKeepsContents
<1>4. CASE Clear
  <2>1. /\ ui = "acquire" /\ ui' = "fill" /\ todo' = Passes[filter]
        /\ cache' = [k \in {} |-> {}] /\ UNCHANGED <<theatres, filter>>
    BY <1>4 DEF Clear
  <2>2. \A k : BucketAt(k)' = {}
    BY <2>1 DEF BucketAt
  <2>3. \A k : Under(filter, k)' \ todo' = {}
    BY <2>1 DEF Under
  <2> QED
    BY <2>1, <2>2, <2>3 DEF ContentsKnown
<1>5. ASSUME NEW t \in Tracks, Fill(t) PROVE ContentsKnown'
  <2>1. /\ ui = "fill" /\ ui' = "fill" /\ t \in todo /\ todo' = todo \ {t}
        /\ UNCHANGED <<theatres, built, filter>>
    BY <1>5 DEF Fill
  <2>2. \A k : BucketAt(k)' = BucketAt(k) \cup (IF k \in Covers[t] THEN {t} ELSE {})
    BY <1>5 DEF Fill, File, BucketAt
  <2>3. \A k : Under(filter, k)' = Under(filter, k)
    BY <2>1 DEF Under
  <2>4. t \in Passes[filter]
    BY <2>1 DEF ContentsKnown
  <2>5. \A k : (Under(filter, k) \ todo) \cup (IF k \in Covers[t] THEN {t} ELSE {})
               = Under(filter, k) \ (todo \ {t})
    BY <2>1, <2>4 DEF Under
  <2> QED
    BY <2>1, <2>2, <2>3, <2>5 DEF ContentsKnown
<1>6. CASE Filled
  <2>1. /\ ui = "fill" /\ ui' = "post" /\ todo = {} /\ built' = filter
        /\ UNCHANGED <<theatres, filter, cache>>
    BY <1>6 DEF Filled
  <2>2. \A k : BucketAt(k)' = BucketAt(k)
    BY <2>1 DEF BucketAt
  <2>3. \A k : Under(built, k)' = Under(filter, k)
    BY <2>1 DEF Under
  <2> QED
    BY <2>1, <2>2, <2>3 DEF ContentsKnown
<1> QED
  BY <1>1, <1>2, <1>3, <1>4, <1>5, <1>6 DEF UIStep, BuildStep, DrawStep

\* A thread a step does not move knows what it knew, for the settings do not
\* change under it and a race is not forgotten.
LEMMA QueryKeeps ==
    ASSUME NEW r \in Readers, QueryKnown(r),
           pc'[r] = pc[r], leg'[r] = leg[r], left'[r] = left[r], ans'[r] = ans[r],
           seen'[r] = seen[r], corrupt => corrupt', built' = built \/ ~Inside(r)
    PROVE  QueryKnown(r)'
BY DEF QueryKnown, Inside

LEMMA UIKeepsAnswers ==
    ASSUME CInv, UIStep
    PROVE  AnswersKnown'
<1> SUFFICES ASSUME NEW r \in Readers PROVE QueryKnown(r)'
  BY DEF AnswersKnown
<1>1. UNCHANGED readerVars
  BY DEF UIStep, BuildStep, DrawStep, UpdateCyclones, TickCyclones, Render, AcquirePermit,
     Clear, Fill, Filled, ReleasePermit, BeginDraw, EndDraw, Rendered
<1>2. corrupt => corrupt'
  BY DEF UIStep, BuildStep, DrawStep, UpdateCyclones, TickCyclones, Render, AcquirePermit,
     Clear, Fill, Filled, ReleasePermit, BeginDraw, EndDraw, Rendered, BeginAccess, EndAccess
<1>3. built' = built \/ ui = "fill"
  BY DEF UIStep, BuildStep, DrawStep, UpdateCyclones, TickCyclones, Render, AcquirePermit,
     Clear, Fill, Filled, ReleasePermit, BeginDraw, EndDraw, Rendered
<1>4. built' = built \/ ~Inside(r)
  BY <1>3, IInvExcludes DEF CInv, BuilderExclusive, InsideReaders
<1> QED
  BY <1>1, <1>2, <1>4, QueryKeeps DEF CInv, AnswersKnown, readerVars

\* What a thread inside finds in a bucket is what its settings put there.
LEMMA InsideReadsBuilt ==
    ASSUME CInv, NEW r \in Readers, Inside(r), built # NoFilter
    PROVE  /\ built \in Filters /\ leg[r] \in Legs
           /\ \A k \in Buckets : BucketAt(k) = Under(built, k)
<1>1. ui # "fill"
  BY IInvExcludes DEF CInv, BuilderExclusive, InsideReaders
<1> QED
  BY <1>1 DEF CInv, ContentsKnown, IInv, TypeOK, LookupsHaveTargets, Inside

LEMMA QueryOutside ==
    ASSUME NEW r \in Readers, pc'[r] \in {"idle", "wait"}
    PROVE  QueryKnown(r)'
BY DEF QueryKnown, Inside

\* What a thread that scans knows.
LEMMA WhileScanning ==
    ASSUME CInv, NEW r \in Readers, pc[r] \in {"scan", "look"}
    PROVE  /\ Inside(r) /\ seen[r] = built /\ left[r] \subseteq Buckets
           /\ ~corrupt /\ built # NoFilter =>
                /\ left[r] \subseteq LegBuckets[leg[r]]
                /\ \A k \in LegBuckets[leg[r]] \ left[r] :
                    Under(built, k) \cap LegCrosses[leg[r]] = {}
                /\ \A k \in Buckets : BucketAt(k) = Under(built, k)
<1>1. Inside(r) /\ QueryKnown(r) /\ left[r] \subseteq Buckets
  BY DEF Inside, CInv, AnswersKnown, IInv, TypeOK
<1> QED
  BY <1>1, InsideReadsBuilt DEF QueryKnown, Known

LEMMA ReaderKeepsAnswers ==
    ASSUME CInv, NEW r \in Readers, ReaderStep(r)
    PROVE  AnswersKnown'
<1>1. UNCHANGED <<built, theatres, filter, ui>>
  BY ReaderKeepsBuckets DEF uiVars
<1>2. corrupt => corrupt'
  BY DEF ReaderStep, InsideStep, Probe, Ask, Wait, CheckEmpty, BeginLook, EndLook,
     NoCrossing, Post, BeginAccess, EndAccess
<1>3. r \in DOMAIN pc /\ r \in DOMAIN seen /\ r \in DOMAIN left /\ r \in DOMAIN ans
      /\ r \in DOMAIN leg
  BY DEF CInv, IInv, TypeOK
<1>4. ASSUME NEW q \in Readers, q # r PROVE QueryKnown(q)'
  <2>1. pc'[q] = pc[q] /\ leg'[q] = leg[q] /\ left'[q] = left[q] /\ ans'[q] = ans[q]
        /\ seen'[q] = seen[q]
    BY <1>4 DEF ReaderStep, InsideStep, Probe, Ask, Wait, CheckEmpty, BeginLook, EndLook,
       NoCrossing, Post, CInv, IInv, TypeOK
  <2> QED
    BY <2>1, <1>1, <1>2, QueryKeeps DEF CInv, AnswersKnown
<1>5. ASSUME Probe(r) \/ (\E l \in Legs : Ask(r, l)) \/ Post(r) PROVE QueryKnown(r)'
  <2>1. pc'[r] \in {"idle", "wait"}
    BY <1>5, <1>3 DEF Probe, Ask, Post, CInv, IInv, TypeOK
  <2> QED
    BY <2>1, QueryOutside
<1>6. ASSUME Wait(r) PROVE QueryKnown(r)'
  <2>1. pc'[r] = "check" /\ seen'[r] = built
    BY <1>3, <1>6 DEF Wait, CInv, IInv, TypeOK
  <2>2. Known(pc'[r], built', leg'[r], left'[r], ans'[r])
    BY <2>1 DEF Known
  <2> QED
    BY <1>1, <2>1, <2>2 DEF QueryKnown
<1>7. ASSUME CheckEmpty(r) PROVE QueryKnown(r)'
  <2>1. pc[r] = "check" /\ Inside(r) /\ leg' = leg /\ seen' = seen /\ seen[r] = built
    BY <1>7 DEF CheckEmpty, Inside, QueryKnown, CInv, AnswersKnown
  <2>2. ASSUME built # NoFilter PROVE Known(pc'[r], built, leg[r], left'[r], ans'[r])
    <3>1. CASE DOMAIN cache = {}
      <4>1. pc'[r] = "post" /\ ans'[r] = -1
        BY <1>3, <1>7, <3>1 DEF CheckEmpty, CInv, IInv, TypeOK
      <4>2. \A k \in Buckets : Under(built, k) = {}
        BY <2>1, <2>2, <3>1, InsideReadsBuilt DEF BucketAt
      <4>3. \A t \in Passes[built] : Covers[t] \subseteq Buckets
        BY <2>1, <2>2, InsideReadsBuilt, DataAssumption
      <4>4. Holding(built) = {}
        BY <4>2, <4>3 DEF Holding, Under
      <4> QED
        BY <4>1, <4>4 DEF Known
    <3>2. CASE DOMAIN cache # {}
      <4>1. pc'[r] = "scan" /\ left'[r] = LegBuckets[leg[r]]
        BY <1>3, <1>7, <3>2 DEF CheckEmpty, CInv, IInv, TypeOK
      <4> QED
        BY <4>1 DEF Known
    <3> QED
      BY <3>1, <3>2
  <2> QED
    BY <1>1, <2>1, <2>2 DEF QueryKnown
<1>8. ASSUME BeginLook(r) PROVE QueryKnown(r)'
  <2>1. pc[r] = "scan" /\ pc'[r] = "look" /\ leg' = leg /\ left' = left /\ seen' = seen
    BY <1>3, <1>8 DEF BeginLook, CInv, IInv, TypeOK
  <2>2. ~corrupt /\ built # NoFilter => Known("look", built, leg[r], left[r], ans'[r])
    BY <2>1, WhileScanning DEF Known
  <2> QED
    BY <1>1, <1>2, <2>1, <2>2, WhileScanning DEF QueryKnown
<1>9. ASSUME EndLook(r) PROVE QueryKnown(r)'
  <2> DEFINE b == NextBucket(left[r])
  <2>1. pc[r] = "look" /\ leg' = leg /\ seen' = seen
    BY <1>9 DEF EndLook
  <2>2. b \in left[r]
    BY <2>1, NextBucketIn DEF CInv, IInv, LookupsHaveTargets
  <2>3. PICK hit \in BOOLEAN :
            /\ corrupt \/ (hit <=> BucketAt(b) \cap LegCrosses[leg[r]] # {})
            /\ hit => pc'[r] = "post" /\ ans'[r] = 1
            /\ ~hit => pc'[r] = "scan" /\ left'[r] = left[r] \ {b}
    BY <1>3, <1>9 DEF EndLook, CInv, IInv, TypeOK
  <2>4. ASSUME ~corrupt', built # NoFilter
        PROVE  Known(pc'[r], built, leg[r], left'[r], ans'[r])
    <3> HIDE DEF b
    <3>1. /\ left[r] \subseteq LegBuckets[leg[r]]
          /\ \A k \in LegBuckets[leg[r]] \ left[r] :
                Under(built, k) \cap LegCrosses[leg[r]] = {}
          /\ hit <=> Under(built, b) \cap LegCrosses[leg[r]] # {}
      BY <1>2, <2>1, <2>2, <2>3, <2>4, WhileScanning
    <3>2. CASE hit
      <4>1. PICK t \in Under(built, b) : t \in LegCrosses[leg[r]]
        BY <3>1, <3>2
      <4>2. Crosses(leg[r], built)
        BY <2>2, <3>1, <4>1 DEF Crosses, Under
      <4>3. pc'[r] = "post" /\ ans'[r] = 1
        BY <2>3, <3>2
      <4> QED
        BY <4>2, <4>3 DEF Known
    <3>3. CASE ~hit
      BY <2>3, <3>1, <3>3 DEF Known
    <3> QED
      BY <3>2, <3>3
  <2> QED
    BY <1>1, <2>1, <2>4, WhileScanning DEF QueryKnown
<1>10. ASSUME NoCrossing(r) PROVE QueryKnown(r)'
  <2>1. pc[r] = "scan" /\ left[r] = {} /\ leg' = leg /\ seen' = seen
        /\ pc'[r] = "post" /\ ans'[r] = 0
    BY <1>3, <1>10 DEF NoCrossing, CInv, IInv, TypeOK
  <2>2. ASSUME ~corrupt', built # NoFilter
        PROVE  Known("post", built, leg[r], left'[r], 0)
    <3>1. \A k \in LegBuckets[leg[r]] : Under(built, k) \cap LegCrosses[leg[r]] = {}
      BY <1>2, <2>1, <2>2, WhileScanning
    <3> QED
      BY <3>1 DEF Known, Crosses, Under
  <2> QED
    BY <1>1, <2>1, <2>2, WhileScanning DEF QueryKnown
<1>11. QueryKnown(r)'
  BY <1>5, <1>6, <1>7, <1>8, <1>9, <1>10 DEF ReaderStep, InsideStep
<1> QED
  BY <1>4, <1>11 DEF AnswersKnown

LEMMA NextCInv == CInv /\ [Next]_vars => CInv'
<1> SUFFICES ASSUME CInv, [Next]_vars PROVE CInv'
  OBVIOUS
<1>1. IInv'
  BY NextIInv DEF CInv
<1>2. CASE UIStep
  BY <1>1, <1>2, UIKeepsContents, UIKeepsAnswers DEF CInv
<1>3. ASSUME NEW r \in Readers, ReaderStep(r) PROVE CInv'
  <2>1. ContentsKnown'
    <3>1. UNCHANGED uiVars /\ \A k : BucketAt(k)' = BucketAt(k)
      BY <1>3, ReaderKeepsBuckets
    <3>2. \A k : Under(built, k)' = Under(built, k) /\ Under(filter, k)' = Under(filter, k)
      BY <3>1 DEF Under, uiVars
    <3> QED
      BY <3>1, <3>2 DEF CInv, ContentsKnown, uiVars
  <2> QED
    BY <1>1, <1>3, <2>1, ReaderKeepsAnswers DEF CInv
<1>4. CASE UNCHANGED vars
  <2>1. UNCHANGED <<cache, corrupt, uiVars, readerVars>>
    BY <1>4 DEF vars
  <2>2. ContentsKnown'
    BY <2>1 DEF CInv, ContentsKnown, uiVars, BucketAt, Under
  <2>3. AnswersKnown'
    BY <2>1, QueryKeeps DEF CInv, AnswersKnown, uiVars, readerVars
  <2> QED
    BY <1>1, <2>2, <2>3 DEF CInv
<1> QED
  BY <1>2, <1>3, <1>4 DEF Next

LEMMA AnswersInvariant == Spec => []CInv
BY InitCInv, NextCInv, PTL DEF Spec

\* CycloneTrackCrossings answers for the settings in force when the thread
\* got its permit: 1 only for a segment that crosses the leg, 0 only when none
\* does, -1 only when those settings keep no segment.
THEOREM AnswersAreRight == Spec => []AnswerMatchesSettings
<1>1. CInv => AnswerMatchesSettings
  BY DEF CInv, AnswersKnown, QueryKnown, Inside, AnswerMatchesSettings, Known
<1> QED
  BY <1>1, AnswersInvariant, PTL

\* Between two events of the UI thread the cache BuildCycloneCache filled is
\* the one the settings in the dialog ask for.
THEOREM CacheIsCurrent == Spec => []CacheReflectsSettings
<1>1. CInv => CacheReflectsSettings
  BY DEF CInv, ContentsKnown, CacheReflectsSettings, Under
<1> QED
  BY <1>1, AnswersInvariant, PTL

-----------------------------------------------------------------------------
(* The date window: for any calendar of months of 28 to 31 days and any      *)
(* width, which buckets the loop has looked into and what it misses.         *)

\* Where bucket k comes in the loop, counted from the first.
Turn(k) == (k - MonthStart + 12) % 12

WindowTypes ==
    /\ date \in Dates
    /\ dayrange \in DayRanges
    /\ monthi \in 0..11
    /\ scanned \subseteq 0..11
    /\ done \in BOOLEAN

\* The buckets before the loop's, as long as it runs; those up to the last
\* when it is over.
ScannedInTurn ==
    /\ ~done =>
        /\ Turn(monthi) <= Turn(MonthEnd)
        /\ scanned = {k \in 0..11 : Turn(k) < Turn(monthi)}
    /\ done => scanned = {k \in 0..11 : Turn(k) <= Turn(MonthEnd)}

WindowInv == WindowTypes /\ ScannedInTurn

-----------------------------------------------------------------------------
\* A day number determines the month, but for the first of a month.
LEMMA DayNumbers ==
    ASSUME NEW d \in Dates
    PROVE  /\ d.month \in 0..11 /\ d.day \in 1..31
           /\ DayNumber(d) \in 0..364
           /\ d.day # 1 => MonthOf(DayNumber(d)) = d.month
           /\ (d.day = 1 /\ d.month # 0) =>
                /\ MonthOf(DayNumber(d)) = d.month - 1
                /\ MonthOf(DayNumber(d) + 1) = d.month
           /\ (d.day = 1 /\ d.month = 0) => MonthOf(DayNumber(d)) = 0
<1>1. PICK m \in 0..11 : d \in [month : {m}, day : 1..MonthDays[m]]
  BY DEF Dates
<1>2. d.month = m /\ d.day \in 1..31
  BY <1>1, WindowAssumption
<1>3. m \in {0, 1, 2, 3, 4, 5, 6, 7, 8, 9, 10, 11}
  OBVIOUS
<1> QED
  BY <1>2, <1>3 DEF DayNumber, MonthOf

LEMMA MonthRange == \A i \in 0..364 : MonthOf(i) \in 0..11
  BY DEF MonthOf

LEMMA MonthsInOrder ==
    ASSUME NEW i \in 0..364, NEW j \in 0..364
    PROVE  /\ MonthOf(i) \in 0..11
           /\ i <= j => MonthOf(i) <= MonthOf(j)
           /\ MonthOf(i) = MonthOf(j) => i - j < 31 /\ j - i < 31
  BY DEF MonthOf

\* Walking off the end of the year goes on at its beginning.
LEMMA RoundTheYear ==
    ASSUME NEW i \in -365..364
    PROVE  (i + 365) % 365 = IF i < 0 THEN i + 365 ELSE i
<1>1. CASE i < 0
  <2>1. i + 365 \in 0..364
    BY <1>1
  <2> QED
    BY <2>1, <1>1
<1>2. CASE i >= 0
  BY <1>2
<1> QED
  BY <1>1, <1>2

LEMMA WidthBounds ==
    ASSUME dayrange \in DayRanges
    PROVE  /\ HalfRange \in 0..182
           /\ dayrange < OneMonthFree => 2 * HalfRange < OneMonthFree
           /\ dayrange >= 365 => HalfRange = 182
  BY WindowAssumption DEF HalfRange, OneMonthFree

\* Both ends of the window are days of the year, found by going round it.
LEMMA EndsOfWindow ==
    ASSUME date \in Dates, dayrange \in DayRanges
    PROVE  /\ Day1 \in 0..364 /\ Day2 \in 0..364
           /\ Day1 = DayNumber(date) - HalfRange \/ Day1 = DayNumber(date) - HalfRange + 365
           /\ Day2 = DayNumber(date) + HalfRange \/ Day2 = DayNumber(date) + HalfRange - 365
<1> DEFINE n == DayNumber(date)
<1>1. n \in 0..364 /\ HalfRange \in 0..182
  BY DayNumbers, WidthBounds
<1> HIDE DEF n
<1>2. n - HalfRange \in -365..364 /\ n + HalfRange - 365 \in -365..364
  BY <1>1
<1>3. (n - HalfRange + 365) % 365 = IF n - HalfRange < 0 THEN n - HalfRange + 365 ELSE n - HalfRange
  BY <1>2, RoundTheYear
<1>4. n + HalfRange = (n + HalfRange - 365) + 365
  BY <1>1
<1>5. (n + HalfRange) % 365
        = IF n + HalfRange - 365 < 0 THEN n + HalfRange ELSE n + HalfRange - 365
  BY <1>2, <1>4, RoundTheYear
<1>6. Day1 = (n - HalfRange + 365) % 365 /\ Day2 = (n + HalfRange) % 365
  BY DEF Day1, Day2, n
<1>7. /\ Day1 \in 0..364 /\ Day2 \in 0..364
      /\ Day1 = n - HalfRange \/ Day1 = n - HalfRange + 365
      /\ Day2 = n + HalfRange \/ Day2 = n + HalfRange - 365
  BY <1>1, <1>3, <1>5, <1>6
<1> QED
  BY <1>7 DEF n

\* The segment test looks at the shorter way round.
LEMMA InWindowEitherWay ==
    ASSUME date \in Dates, dayrange \in DayRanges, NEW d \in Dates
    PROVE  /\ After(d) \in 0..364 /\ Before(d) \in 0..364
           /\ After(d) = IF DayNumber(d) < DayNumber(date)
                         THEN DayNumber(d) - DayNumber(date) + 365
                         ELSE DayNumber(d) - DayNumber(date)
           /\ Before(d) = IF DayNumber(date) < DayNumber(d)
                          THEN DayNumber(date) - DayNumber(d) + 365
                          ELSE DayNumber(date) - DayNumber(d)
           /\ InWindow(d) <=> After(d) <= HalfRange \/ Before(d) <= HalfRange
<1> DEFINE i == DayNumber(d)  j == DayNumber(date)
<1>1. i \in 0..364 /\ j \in 0..364 /\ HalfRange \in 0..182
  BY DayNumbers, WidthBounds
<1> HIDE DEF i, j
<1>2. i - j \in -365..364 /\ j - i \in -365..364
  BY <1>1
<1>3. /\ (i - j + 365) % 365 = IF i - j < 0 THEN i - j + 365 ELSE i - j
      /\ (j - i + 365) % 365 = IF j - i < 0 THEN j - i + 365 ELSE j - i
  BY <1>2, RoundTheYear
<1>4. Abs(i - j) \in 0..364 /\ Abs(i - j) = IF i < j THEN j - i ELSE i - j
  BY <1>1 DEF Abs
<1>5. Abs(i - j) % 365 = Abs(i - j)
  BY <1>4
<1>6. InWindow(d) <=> (IF Abs(i - j) < 365 - Abs(i - j) THEN Abs(i - j) ELSE 365 - Abs(i - j))
                        <= HalfRange
  BY <1>5 DEF InWindow, CircularDayDistance, i, j
<1>7. After(d) = (i - j + 365) % 365 /\ Before(d) = (j - i + 365) % 365
  BY DEF After, Before, i, j
<1>9. /\ After(d) \in 0..364 /\ Before(d) \in 0..364
      /\ After(d) = IF i < j THEN i - j + 365 ELSE i - j
      /\ Before(d) = IF j < i THEN j - i + 365 ELSE j - i
  BY <1>1, <1>3, <1>7
<1>8. InWindow(d) <=> After(d) <= HalfRange \/ Before(d) <= HalfRange
  <2>1. CASE i < j
    <3>1. Abs(i - j) = j - i /\ After(d) = 365 - (j - i) /\ Before(d) = j - i
      BY <1>1, <1>4, <1>9, <2>1
    <3> QED
      BY <1>1, <1>6, <2>1, <3>1
  <2>2. CASE ~(i < j)
    <3>1. Abs(i - j) = i - j /\ After(d) = i - j
          /\ (i # j => Before(d) = 365 - (i - j)) /\ (i = j => Before(d) = 0)
      BY <1>1, <1>4, <1>9, <2>2
    <3> QED
      BY <1>1, <1>6, <2>2, <3>1
  <2> QED
    BY <2>1, <2>2
<1> QED
  BY <1>8, <1>9 DEF i, j

-----------------------------------------------------------------------------
LEMMA MonthTyping ==
    ASSUME date \in Dates, dayrange \in DayRanges
    PROVE  MonthStart \in 0..11 /\ MonthEnd \in 0..11
<1>1. Day1 \in 0..364 /\ Day2 \in 0..364
  BY EndsOfWindow
<1>2. MonthOf(Day1) \in 0..11 /\ MonthOf(Day2) \in 0..11
  <2>1. ASSUME NEW k \in 0..364 PROVE MonthOf(k) \in 0..11
    BY MonthsInOrder
  <2> QED
    BY <1>1, <2>1
<1>3. 0 \in 0..11 /\ 11 \in 0..11
  OBVIOUS
<1> QED
  BY <1>2, <1>3, Zenon DEF MonthStart, MonthEnd

LEMMA Turns ==
    ASSUME WindowTypes
    PROVE  /\ \A k \in 0..11 :
                /\ Turn(k) \in 0..11
                /\ Turn(k) = IF k < MonthStart THEN k - MonthStart + 12 ELSE k - MonthStart
           /\ Turn(MonthStart) = 0
<1>1. MonthStart \in 0..11
  BY MonthTyping DEF WindowTypes
<1>2. ASSUME NEW k \in 0..11
      PROVE  Turn(k) = IF k < MonthStart THEN k - MonthStart + 12 ELSE k - MonthStart
  <2>1. CASE k < MonthStart
    <3>1. k - MonthStart + 12 \in 0..11
      BY <1>1, <2>1
    <3> QED
      BY <3>1, <2>1 DEF Turn
  <2>2. CASE k >= MonthStart
    BY <1>1, <2>2 DEF Turn
  <2> QED
    BY <1>1, <2>1, <2>2
<1> QED
  BY <1>1, <1>2

LEMMA InitWindowInv == WindowInit => WindowInv
<1> SUFFICES ASSUME WindowInit PROVE WindowInv
  OBVIOUS
<1>1. date \in Dates /\ dayrange \in DayRanges
  BY DEF WindowInit
<1>2. MonthStart \in 0..11
  BY <1>1, MonthTyping
<1>3. WindowTypes
  BY <1>2 DEF WindowInit, WindowTypes
<1>4. ScannedInTurn
  BY <1>3, <1>1, Turns, MonthTyping DEF WindowInit, ScannedInTurn
<1> QED
  BY <1>3, <1>4 DEF WindowInv

LEMMA StepWindowInv == WindowInv /\ [WindowNext]_windowVars => WindowInv'
<1> SUFFICES ASSUME WindowInv, [WindowNext]_windowVars PROVE WindowInv'
  OBVIOUS
<1>1. CASE UNCHANGED windowVars
  BY <1>1 DEF windowVars, WindowInv, WindowTypes, ScannedInTurn, Turn, MonthStart, MonthEnd,
     Day1, Day2, HalfRange
<1>2. CASE Scan
  <2>1. date' = date /\ dayrange' = dayrange
    BY <1>2 DEF Scan
  <2>2. MonthStart' = MonthStart /\ MonthEnd' = MonthEnd
    BY <2>1 DEF MonthStart, MonthEnd, Day1, Day2, HalfRange
  <2>3. \A k \in 0..11 : Turn(k)' = Turn(k)
    BY <2>2 DEF Turn
  <2>4. WindowTypes /\ ScannedInTurn
    BY DEF WindowInv
  <2>5. MonthStart \in 0..11 /\ MonthEnd \in 0..11
    BY <2>4, MonthTyping DEF WindowTypes
  <2>6. /\ monthi \in 0..11 /\ Turn(monthi) <= Turn(MonthEnd)
        /\ scanned = {k \in 0..11 : Turn(k) < Turn(monthi)}
    BY <1>2, <2>4 DEF Scan, WindowTypes, ScannedInTurn
  <2>7. (monthi + 1) % 12 = IF monthi = 11 THEN 0 ELSE monthi + 1
    BY <2>6
  <2>8. WindowTypes'
    BY <1>2, <2>4, <2>6, <2>7 DEF Scan, WindowTypes
  <2>9. \A k \in 0..11 : Turn(k) = Turn(monthi) => k = monthi
    BY <2>4, <2>5, <2>6, Turns
  <2>10. scanned' = {k \in 0..11 : Turn(k) <= Turn(monthi)}
    <3>1. scanned' = scanned \cup {monthi}
      BY <1>2 DEF Scan
    <3> QED
      BY <3>1, <2>4, <2>6, <2>9, Turns
  <2>11. CASE monthi = MonthEnd
    <3>1. done'
      BY <1>2, <2>11 DEF Scan
    <3>2. scanned' = {k \in 0..11 : Turn(k)' <= Turn(MonthEnd)'}
      BY <2>3, <2>2, <2>5, <2>10, <2>11
    <3> QED
      BY <2>8, <3>1, <3>2 DEF WindowInv, ScannedInTurn
  <2>12. CASE monthi # MonthEnd
    <3>1. ~done' /\ monthi' = (monthi + 1) % 12
      BY <1>2, <2>12 DEF Scan
    <3>2. Turn(monthi') = Turn(monthi) + 1 /\ monthi' \in 0..11
      BY <2>4, <2>5, <2>6, <2>7, <2>9, <2>12, <3>1, Turns
    <3>3. Turn(monthi') <= Turn(MonthEnd)
      BY <2>4, <2>5, <2>6, <2>9, <2>12, <3>2, Turns
    <3>4. scanned' = {k \in 0..11 : Turn(k) < Turn(monthi')}
      BY <2>4, <2>6, <2>10, <3>2, Turns
    <3>5. Turn(monthi)' = Turn(monthi') /\ Turn(MonthEnd)' = Turn(MonthEnd)
      BY <2>2 DEF Turn
    <3>6. scanned' = {k \in 0..11 : Turn(k)' < Turn(monthi)'}
      BY <2>3, <3>4, <3>5
    <3> QED
      BY <2>8, <3>1, <3>3, <3>5, <3>6 DEF WindowInv, ScannedInTurn
  <2> QED
    BY <2>11, <2>12
<1> QED
  BY <1>1, <1>2 DEF WindowNext

LEMMA WindowInvariance == WindowSpec => []WindowInv
<1> QED
  BY InitWindowInv, StepWindowInv, PTL DEF WindowSpec

\* The buckets of a finished query, without counting turns.
LEMMA BucketsScanned ==
    ASSUME WindowInv, done, NEW k \in 0..11, k \notin scanned
    PROVE  /\ MonthStart <= MonthEnd => k < MonthStart \/ k > MonthEnd
           /\ MonthStart > MonthEnd => MonthEnd < k /\ k < MonthStart
<1>1. WindowTypes /\ scanned = {j \in 0..11 : Turn(j) <= Turn(MonthEnd)}
  BY DEF WindowInv, ScannedInTurn
<1>2. MonthStart \in 0..11 /\ MonthEnd \in 0..11
  BY <1>1, MonthTyping DEF WindowTypes
<1>3. Turn(k) > Turn(MonthEnd)
  BY <1>1, <1>2, Turns
<1> QED
  BY <1>1, <1>2, <1>3, Turns

\* What a window below eleven months misses.
LEMMA OnlyTheLastDay ==
    ASSUME WindowInv, done, dayrange < OneMonthFree,
           NEW d \in Dates, InWindow(d), d.month \notin scanned
    PROVE  d.day = 1 /\ After(d) = HalfRange
<1> DEFINE n == DayNumber(d)  q == DayNumber(date)  h == HalfRange  m == d.month
           first == Day1  final == Day2
<1>1. date \in Dates /\ dayrange \in DayRanges
  BY DEF WindowInv, WindowTypes
<1>2. n \in 0..364 /\ q \in 0..364 /\ m \in 0..11 /\ d.day \in 1..31
  BY <1>1, DayNumbers
<1>3. h \in 0..182 /\ 2 * h < 334
  BY <1>1, WidthBounds DEF OneMonthFree
<1>4. /\ first \in 0..364 /\ final \in 0..364
      /\ first = q - h \/ first = q - h + 365
      /\ final = q + h \/ final = q + h - 365
  BY <1>1, EndsOfWindow
<1>5. /\ MonthStart = MonthOf(first) /\ MonthEnd = MonthOf(final)
  BY <1>1, WindowAssumption DEF MonthStart, MonthEnd, OneMonthFree
<1>6. /\ After(d) = IF n < q THEN n - q + 365 ELSE n - q
      /\ Before(d) = IF q < n THEN q - n + 365 ELSE q - n
      /\ After(d) <= h \/ Before(d) <= h
  BY <1>1, InWindowEitherWay
<1> HIDE DEF n, q, h, first, final
\* The day lies between the ends of the window, perhaps around the year.
<1>7. /\ first <= final => first <= n /\ n <= final
      /\ first > final => n <= final \/ first <= n
  BY <1>2, <1>3, <1>4, <1>6
<1>8. first > final => first - final >= 31
  BY <1>2, <1>3, <1>4
<1>9. /\ MonthOf(n) \in 0..11 /\ MonthOf(first) \in 0..11 /\ MonthOf(final) \in 0..11
      /\ first <= n => MonthOf(first) <= MonthOf(n)
      /\ n <= first => MonthOf(n) <= MonthOf(first)
      /\ final <= n => MonthOf(final) <= MonthOf(n)
      /\ n <= final => MonthOf(n) <= MonthOf(final)
      /\ first <= final => MonthOf(first) <= MonthOf(final)
      /\ first > final => MonthOf(first) > MonthOf(final)
  <2>1. n \in 0..364 /\ first \in 0..364 /\ final \in 0..364
    BY <1>2, <1>4
  <2>2. MonthOf(n) \in 0..11 /\ MonthOf(first) \in 0..11 /\ MonthOf(final) \in 0..11
    BY <2>1, MonthRange
  <2>3. first <= n => MonthOf(first) <= MonthOf(n)
    BY <2>1, MonthsInOrder
  <2>6. n <= first => MonthOf(n) <= MonthOf(first)
    BY <2>1, MonthsInOrder
  <2>7. final <= n => MonthOf(final) <= MonthOf(n)
    BY <2>1, MonthsInOrder
  <2>8. n <= final => MonthOf(n) <= MonthOf(final)
    BY <2>1, MonthsInOrder
  <2>4. /\ first <= final => MonthOf(first) <= MonthOf(final)
        /\ final <= first => MonthOf(final) <= MonthOf(first)
        /\ MonthOf(first) = MonthOf(final) => first - final < 31
    BY <2>1, MonthsInOrder
  <2>5. first > final => MonthOf(first) > MonthOf(final)
    BY <1>8, <2>1, <2>2, <2>4
  <2> QED
    BY <2>2, <2>3, <2>4, <2>5, <2>6, <2>7, <2>8
<1>10. /\ MonthOf(first) <= MonthOf(final) => m < MonthOf(first) \/ m > MonthOf(final)
       /\ MonthOf(first) > MonthOf(final) => MonthOf(final) < m /\ m < MonthOf(first)
  BY <1>2, <1>5, BucketsScanned
<1>11. MonthOf(n) # m
  BY <1>2, <1>4, <1>7, <1>9, <1>10
<1>12. d.day = 1 /\ m # 0 /\ MonthOf(n) = m - 1 /\ MonthOf(n + 1) = m
  BY <1>2, <1>11, DayNumbers DEF n
\* So it is the last day of the month before, which is the last bucket.
<1>13. MonthOf(n) = MonthOf(final) /\ n <= final
  BY <1>2, <1>4, <1>7, <1>9, <1>10, <1>12
<1>14. n = final
  <2>1. SUFFICES ASSUME n + 1 <= final PROVE FALSE
    BY <1>2, <1>4, <1>13
  <2>2. n + 1 \in 0..364
    BY <1>2, <1>4, <2>1
  <2>3. MonthOf(n + 1) <= MonthOf(final)
    <3>1. final \in 0..364 /\ n + 1 \in 0..364 /\ n + 1 <= final
      BY <1>4, <2>1, <2>2
    <3> QED
      BY <3>1, MonthsInOrder
  <2>4. MonthOf(n + 1) = MonthOf(n) + 1 /\ MonthOf(n) \in Int
    <3> DEFINE here == MonthOf(n)  there == MonthOf(n + 1)
    <3>1. here \in Int /\ m \in Int /\ here = m - 1 /\ there = m
      BY <1>2, <1>9, <1>12
    <3> HIDE DEF here, there, m
    <3>2. there = here + 1 /\ here \in Int
      BY <3>1
    <3> QED
      BY <3>2 DEF here, there
  <2> QED
    BY <1>13, <2>3, <2>4
<1>15. After(d) = h
  BY <1>2, <1>3, <1>4, <1>6, <1>14
<1> QED
  BY <1>12, <1>15 DEF h

-----------------------------------------------------------------------------
\* The window of a query of any width is the days within half the width on
\* either side of its date, around the turn of the year and whatever the
\* lengths of the months, and no others.
THEOREM WindowRoundTheYear == WindowSpec => []WindowIsCircular
<1>1. WindowInv => WindowIsCircular
  BY InWindowEitherWay DEF WindowInv, WindowTypes, WindowIsCircular
<1> QED
  BY <1>1, WindowInvariance, PTL

\* For any calendar and width: a query of a year or more sees everything, one
\* below eleven months misses at most the last day of its window, and that
\* only if it is the first of a month.
THEOREM MissedIsTheLastDay == WindowSpec => []MissesOnlyTheLastDay
<1>1. ASSUME WindowInv PROVE MissesOnlyTheLastDay
  <2> SUFFICES ASSUME done, NEW d \in Dates
               PROVE  /\ dayrange >= 365 => Seen(d)
                      /\ (dayrange < OneMonthFree /\ InWindow(d) /\ ~Seen(d))
                            => d.day = 1 /\ After(d) = HalfRange
    BY DEF MissesOnlyTheLastDay
  <2>1. date \in Dates /\ dayrange \in DayRanges
    BY <1>1 DEF WindowInv, WindowTypes
  <2>2. ASSUME dayrange >= 365 PROVE Seen(d)
    <3>1. InWindow(d)
      <4> DEFINE n == DayNumber(d)  q == DayNumber(date)
      <4>1. n \in 0..364 /\ q \in 0..364 /\ HalfRange = 182
        BY <2>1, <2>2, WidthBounds, DayNumbers
      <4>2. /\ After(d) = IF n < q THEN n - q + 365 ELSE n - q
            /\ Before(d) = IF q < n THEN q - n + 365 ELSE q - n
            /\ InWindow(d) <=> After(d) <= HalfRange \/ Before(d) <= HalfRange
        BY <2>1, InWindowEitherWay
      <4> HIDE DEF n, q
      <4> QED
        BY <4>1, <4>2
    <3>2. MonthStart = 0 /\ MonthEnd = 11
      BY <2>2 DEF MonthStart, MonthEnd
    <3>3. d.month \in 0..11
      BY DayNumbers
    <3>4. d.month \in scanned
      BY <1>1, <3>2, <3>3, BucketsScanned
    <3> QED
      BY <3>1, <3>4 DEF Seen
  <2> QED
    BY <1>1, <2>2, OnlyTheLastDay DEF Seen
<1> QED
  BY <1>1, WindowInvariance, PTL

=============================================================================
