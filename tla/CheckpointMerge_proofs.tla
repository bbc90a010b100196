----------------------- MODULE CheckpointMerge_proofs -----------------------
(***************************************************************************)
(* Proofs about the mergers, for any checkpoints, periods and arguments:   *)
(* a merged current checkpoint is that of a serial pass, and published     *)
(* files miss no unit they claim and hold each once if every checkpoint    *)
(* held what it said.  They rest on what a partition that was read goes on *)
(* to mean while builds rewrite the files, and on the sum of the first     *)
(* partitions, which is that of one interval since neighbours meet.        *)
(***************************************************************************)
EXTENDS CheckpointMerge, WellFoundedInduction, TLAPS

Sums == [Units -> Nat]
Merged == [start : Units, through : Units]
Part == [start : Units, end : Units, path : Paths]
Winds == Built["wind"]

TypeOK ==
    /\ archive \in {"current", "wind"}
    /\ sums \in [Paths -> Sums \cup {Absent}]
    /\ meta \in [Paths -> Progress \cup Merged \cup {Absent}]
    /\ mem \in [Winds -> Sums]
    /\ unit \in [Winds -> Int]
    /\ at \in [Winds -> {"off", "sums", "meta"}]
    /\ pc \in {"idle", "partition", "check", "load", "progress", "publish"}
    /\ inputs \in Seq(Paths)
    /\ parts \in Seq(Part)
    /\ total \in Sums
    /\ skewed \in BOOLEAN

Holds(f, first, last) == \A u \in first..last : f[u] >= 1

\* A checkpoint of currents holds what it says; one of winds at least that.
CheckpointKnown(p) ==
    meta[p] # Absent =>
        /\ meta[p].start <= meta[p].through
        /\ p # Target =>
            /\ p \in Built[archive]
            /\ meta[p].start = Start[p] /\ meta[p].end = End[p] /\ meta[p].through <= End[p]
        /\ archive = "current" => sums[p] = Once(meta[p].start, meta[p].through)
        /\ (archive = "wind" /\ p # Target) =>
            sums[p] \in Sums /\ Holds(sums[p], meta[p].start, meta[p].through)

\* A wind build has the sums on disk in memory, and adds the year after those
\* of its progress file.
BuildKnown(p) ==
    at[p] # "off" =>
        /\ archive = "wind"
        /\ unit[p] = IF meta[p] = Absent THEN Start[p] ELSE meta[p].through + 1
        /\ unit[p] <= End[p]
        /\ sums[p] = Absent => meta[p] = Absent
        /\ sums[p] # Absent => sums[p] = mem[p]
        /\ at[p] = "meta" => sums[p] # Absent /\ sums[p][unit[p]] >= 1

\* What a partition that was read means from then on.
PartKnown(part) ==
    /\ part.start <= part.end
    /\ archive = "current" =>
        /\ meta[part.path] # Absent /\ meta[part.path].through = meta[part.path].end
        /\ sums[part.path] = Once(part.start, part.end)
    /\ archive = "wind" =>
        /\ part.path # Target
        /\ sums[part.path] \in Sums /\ Holds(sums[part.path], part.start, part.end)

PartsKnown ==
    pc \in {"partition", "check", "load"} => \A i \in 1..Len(parts) : PartKnown(parts[i])

MergerKnown ==
    /\ pc = "idle" => inputs = <<>> /\ parts = <<>>
    /\ pc \in {"idle", "partition", "check"} => total = Zero /\ ~skewed
    /\ pc = "partition" => Len(parts) <= Len(inputs) /\ Len(inputs) > 0
    /\ pc = "check" => Len(parts) = Len(inputs) /\ Len(inputs) > 0
    /\ pc = "load" => Len(inputs) <= Len(parts) /\ Len(parts) > 0 /\ Contiguous(parts)
    /\ pc \in {"progress", "publish"} => Len(inputs) = 0 /\ Len(parts) > 0
    /\ pc = "progress" => archive = "wind"

\* The first k partitions are in the accumulator.
Added(k) ==
    /\ k = 0 => total = Zero /\ ~skewed
    /\ k > 0 =>
        /\ First <= parts[k].end
        /\ Holds(total, First, parts[k].end)
        /\ skewed \/ total = Once(First, parts[k].end)

TotalKnown ==
    pc \in {"load", "progress", "publish"} =>
        /\ Added(Len(parts) - Len(inputs))
        /\ archive = "current" => ~skewed

FilesKnown == (\A p \in Paths : CheckpointKnown(p)) /\ (\A p \in Winds : BuildKnown(p))

IInv ==
    /\ TypeOK
    /\ FilesKnown
    /\ PartsKnown
    /\ MergerKnown
    /\ TotalKnown
    /\ MergedOnce
    /\ NothingMissing

-----------------------------------------------------------------------------
LEMMA Typing ==
  /\ Zero \in Sums /\ Absent \notin Sums
  /\ \A first, last \in Int : Once(first, last) \in Sums
  /\ \A f, g \in Sums : Plus(f, g) \in Sums
  /\ Units \subseteq Int /\ \A u, v \in Units : u..v \subseteq Units
BY MergeAssumption DEF Sums, Zero, Once, Plus

LEMMA UnitsInt == \A u \in Units : u \in Int
  BY MergeAssumption

LEMMA WindsTyped ==
  /\ Winds \subseteq Paths \ {Target}
  /\ \A p \in Winds : Start[p] \in Units /\ End[p] \in Units /\ Start[p] <= End[p]
BY MergeAssumption DEF Winds

\* Sums of what is claimed count it.
LEMMA OnceHolds ==
  ASSUME NEW first \in Units, NEW last \in Units
  PROVE  Holds(Once(first, last), first, last)
BY Typing DEF Holds, Once

\* Neighbours that meet make one interval.
LEMMA OnceJoins ==
  ASSUME NEW a \in Units, NEW b \in Units, NEW c \in Units, NEW d \in Units,
         a <= b, c = b + 1, c <= d
  PROVE  Plus(Once(a, b), Once(c, d)) = Once(a, d)
<1>1. ASSUME NEW u \in Units
      PROVE  (IF u \in a..b THEN 1 ELSE 0) + (IF u \in c..d THEN 1 ELSE 0)
             = (IF u \in a..d THEN 1 ELSE 0)
  BY Typing
<1> QED
  BY <1>1 DEF Plus, Once

LEMMA HoldsJoin ==
  ASSUME NEW f \in Sums, NEW g \in Sums,
         NEW a \in Units, NEW b \in Units, NEW c \in Units, NEW d \in Units,
         c = b + 1, Holds(f, a, b), Holds(g, c, d)
  PROVE  Holds(Plus(f, g), a, d)
<1> SUFFICES ASSUME NEW u \in a..d PROVE Plus(f, g)[u] >= 1
  BY DEF Holds
<1>1. u \in Units /\ u \in Int
  BY Typing
<1>2. Plus(f, g)[u] = f[u] + g[u] /\ f[u] \in Nat /\ g[u] \in Nat
  BY <1>1 DEF Plus, Sums
<1>3. u \in a..b \/ u \in c..d
  BY <1>1, Typing
<1> QED
  BY <1>2, <1>3 DEF Holds

\* A step of the merger that leaves the files and builds alone.
LEMMA FilesStay ==
  ASSUME FilesKnown, UNCHANGED <<archive, files, builds>>
  PROVE  FilesKnown'
BY DEF FilesKnown, CheckpointKnown, BuildKnown, files, builds

LEMMA PartStays ==
  ASSUME NEW part, PartKnown(part), UNCHANGED <<archive, files>>
  PROVE  PartKnown(part)'
BY DEF PartKnown, files

\* A step of a build leaves the merger alone.
LEMMA MergerStays ==
  ASSUME IInv, UNCHANGED <<archive, merger>>
  PROVE  MergerKnown' /\ TotalKnown' /\ MergedOnce' /\ NothingMissing'
BY DEF IInv, MergerKnown, TotalKnown, Added, First, MergedOnce, NothingMissing, merger

LEMMA InitIInv == Init => IInv
<1> SUFFICES ASSUME Init PROVE IInv
  OBVIOUS
<1>1. TypeOK
  <2>1. mem \in [Winds -> Sums] /\ at \in [Winds -> {"off", "sums", "meta"}]
    BY Typing DEF Init, Winds
  <2>2. unit \in [Winds -> Int]
    BY WindsTyped, UnitsInt DEF Init, Winds
  <2>3. /\ sums \in [Paths -> Sums \cup {Absent}]
        /\ meta \in [Paths -> Progress \cup Merged \cup {Absent}]
    BY DEF Init
  <2>4. inputs \in Seq(Paths) /\ parts \in Seq(Part)
    BY DEF Init
  <2> QED
    BY <2>1, <2>2, <2>3, <2>4, Typing DEF Init, TypeOK
<1>2. FilesKnown
  BY WindsTyped DEF Init, FilesKnown, CheckpointKnown, BuildKnown, Winds
<1>3. PartsKnown /\ MergerKnown /\ TotalKnown /\ MergedOnce /\ NothingMissing
  BY DEF Init, PartsKnown, MergerKnown, TotalKnown, MergedOnce, NothingMissing
<1> QED
  BY <1>1, <1>2, <1>3 DEF IInv

-----------------------------------------------------------------------------
(* Builds                                                                  *)

\* A complete checkpoint of currents is not replaced.
LEMMA ReplaceKeeps ==
  ASSUME IInv, NEW p \in Built["current"], NEW u \in Units, ReplaceCheckpoint(p, u)
  PROVE  IInv'
<1> DEFINE said == [start |-> Start[p], end |-> End[p], through |-> u]
<1>1. /\ p \in Paths /\ p # Target /\ Start[p] \in Units /\ End[p] \in Units
      /\ u \in Int /\ Start[p] <= u /\ u <= End[p] /\ End[p] \in Int
  <2>1. p \in Paths /\ p # Target /\ Start[p] \in Units /\ End[p] \in Units
    BY MergeAssumption
  <2>2. Start[p] \in Int /\ End[p] \in Int /\ u \in Int
    BY <2>1, UnitsInt
  <2>3. u \in Start[p]..End[p]
    BY DEF ReplaceCheckpoint
  <2> QED
    BY <2>1, <2>2, <2>3
<1>2. said \in Progress /\ Once(Start[p], u) \in Sums
  BY <1>1, Typing DEF Progress
<1>3. /\ archive = "current" /\ archive' = archive
      /\ sums' = [sums EXCEPT ![p] = Once(Start[p], u)]
      /\ meta' = [meta EXCEPT ![p] = said]
      /\ UNCHANGED <<builds, merger>>
  BY DEF ReplaceCheckpoint
<1>4. said.start = Start[p] /\ said.end = End[p] /\ said.through = u
  OBVIOUS
<1> HIDE DEF said
<1>5. TypeOK'
  BY <1>2, <1>3 DEF IInv, TypeOK, builds, merger
<1>6. FilesKnown'
  <2>1. ASSUME NEW q \in Paths PROVE CheckpointKnown(q)'
    <3>1. CASE q = p
      BY <1>1, <1>3, <1>4, <3>1 DEF CheckpointKnown, IInv, TypeOK
    <3>2. CASE q # p
      BY <1>3, <3>2 DEF CheckpointKnown, IInv, TypeOK, FilesKnown
    <3> QED
      BY <3>1, <3>2
  <2>2. ASSUME NEW q \in Winds PROVE BuildKnown(q)'
    BY <1>3 DEF IInv, FilesKnown, BuildKnown, builds
  <2> QED
    BY <2>1, <2>2 DEF FilesKnown
<1>7. PartsKnown'
  <2> SUFFICES ASSUME NEW i \in 1..Len(parts), pc \in {"partition", "check", "load"}
               PROVE  PartKnown(parts[i])'
    BY <1>3 DEF PartsKnown, PartKnown, merger
  <2>1. PartKnown(parts[i]) /\ parts[i] \in Part
    BY DEF IInv, PartsKnown, TypeOK
  <2>2. parts[i].path \in Paths
    BY <2>1 DEF Part
  <2>3. parts[i].path # p
    <3> SUFFICES ASSUME parts[i].path = p PROVE FALSE
      OBVIOUS
    <3>1. meta[p] # Absent /\ meta[p].through = meta[p].end
      BY <1>3, <2>1 DEF PartKnown
    <3>2. meta[p].end = End[p]
      BY <1>1, <3>1 DEF IInv, FilesKnown, CheckpointKnown
    <3>3. u > meta[p].through
      BY <3>1 DEF ReplaceCheckpoint
    <3>4. u > End[p]
      BY <3>1, <3>2, <3>3
    <3> QED
      BY <1>1, <3>4
  <2> QED
    BY <1>3, <2>1, <2>2, <2>3 DEF PartKnown, IInv, TypeOK, merger
<1> QED
  BY <1>3, <1>5, <1>6, <1>7, MergerStays DEF IInv

\* Wind sums only grow, and so go on to hold what a partition claims.
LEMMA GrowingKeeps ==
  ASSUME IInv, archive = "wind", UNCHANGED <<archive, merger>>,
         \A p \in Paths \ {Target} : sums[p] \in Sums =>
            sums'[p] \in Sums /\ \A u \in Units : sums'[p][u] >= sums[p][u]
  PROVE  PartsKnown'
<1> SUFFICES ASSUME NEW i \in 1..Len(parts), pc \in {"partition", "check", "load"}
             PROVE  PartKnown(parts[i])'
  BY DEF PartsKnown, PartKnown, merger
<1>1. PartKnown(parts[i]) /\ parts[i] \in Part
  <2>1. PartsKnown /\ parts \in Seq(Part)
    BY DEF IInv, TypeOK
  <2> QED
    BY <2>1 DEF PartsKnown
<1>2. /\ parts[i].path \in Paths /\ parts[i].path # Target
      /\ parts[i].start \in Units /\ parts[i].end \in Units
      /\ parts[i].start <= parts[i].end
      /\ sums[parts[i].path] \in Sums
      /\ Holds(sums[parts[i].path], parts[i].start, parts[i].end)
  BY <1>1 DEF Part, PartKnown
<1> DEFINE f == sums[parts[i].path]
           g == sums'[parts[i].path]
<1>3. g \in Sums /\ \A u \in Units : g[u] >= f[u]
  BY <1>2
<1>4. f \in Sums
  BY <1>2
<1>5. Holds(g, parts[i].start, parts[i].end)
  <2> SUFFICES ASSUME NEW u \in parts[i].start..parts[i].end PROVE g[u] >= 1
    BY DEF Holds
  <2>1. u \in Units /\ f[u] >= 1
    BY <1>2, Typing DEF Holds
  <2>2. g[u] >= f[u] /\ f[u] \in Nat /\ g[u] \in Nat
    BY <1>3, <1>4, <2>1 DEF Sums
  <2> QED
    BY <2>1, <2>2
<1> QED
  BY <1>2, <1>3, <1>5 DEF PartKnown, merger

LEMMA StartKeeps ==
  ASSUME IInv, NEW p \in Winds, StartBuild(p)
  PROVE  IInv'
<1>1. /\ archive = "wind" /\ UNCHANGED <<archive, files, deaths, merger>>
      /\ at' = [at EXCEPT ![p] = "sums"]
      /\ mem' = [mem EXCEPT ![p] = IF sums[p] = Absent THEN Zero ELSE sums[p]]
      /\ unit' = [unit EXCEPT ![p] = IF meta[p] = Absent THEN Start[p] ELSE meta[p].through + 1]
  BY DEF StartBuild
<1>2. /\ p \in Paths /\ p # Target /\ Start[p] \in Units /\ End[p] \in Units
      /\ Start[p] <= End[p]
  BY WindsTyped
<1>3. meta[p] # Absent =>
        meta[p].through \in Units /\ meta[p].through < End[p] /\ sums[p] # Absent
  BY <1>1, <1>2, Typing
     DEF StartBuild, IInv, TypeOK, Progress, Merged, FilesKnown, CheckpointKnown
<1>4. meta[p] = Absent => sums[p] = Absent
  BY DEF StartBuild
<1>5. TypeOK'
  <2>1. (IF sums[p] = Absent THEN Zero ELSE sums[p]) \in Sums
    BY <1>2, Typing DEF IInv, TypeOK
  <2>2. (IF meta[p] = Absent THEN Start[p] ELSE meta[p].through + 1) \in Int
    BY <1>2, <1>3, UnitsInt
  <2> QED
    BY <1>1, <2>1, <2>2 DEF IInv, TypeOK, files, merger
<1>6. FilesKnown'
  <2>1. ASSUME NEW q \in Paths PROVE CheckpointKnown(q)'
    BY <1>1 DEF IInv, FilesKnown, CheckpointKnown, files
  <2>2. ASSUME NEW q \in Winds PROVE BuildKnown(q)'
    <3>1. CASE q = p
      <4>1. at'[p] = "sums"
        BY <1>1 DEF IInv, TypeOK
      <4>2. unit'[p] = IF meta[p] = Absent THEN Start[p] ELSE meta[p].through + 1
        BY <1>1 DEF IInv, TypeOK
      <4>3. unit'[p] <= End[p]
        BY <1>2, <1>3, <4>2, UnitsInt
      <4>4. sums[p] # Absent => mem'[p] = sums[p]
        BY <1>1 DEF IInv, TypeOK
      <4> QED
        BY <1>1, <1>3, <3>1, <4>1, <4>2, <4>3, <4>4 DEF BuildKnown, files
    <3>2. CASE q # p
      BY <1>1, <3>2 DEF IInv, TypeOK, FilesKnown, BuildKnown, files
    <3> QED
      BY <3>1, <3>2
  <2> QED
    BY <2>1, <2>2 DEF FilesKnown
<1>7. PartsKnown'
  BY <1>1 DEF IInv, PartsKnown, PartKnown, files, merger
<1> QED
  BY <1>1, <1>5, <1>6, <1>7, MergerStays DEF IInv

\* The next year of a build is one of its period.
LEMMA YearTyped ==
  ASSUME IInv, NEW p \in Winds, at[p] # "off"
  PROVE  /\ p \in Paths /\ p # Target /\ archive = "wind" /\ unit[p] \in Units
         /\ Start[p] \in Units /\ End[p] \in Units /\ unit[p] <= End[p] /\ Start[p] <= unit[p]
         /\ meta[p] # Absent => meta[p].start = Start[p] /\ meta[p].end = End[p]
                                /\ meta[p].through \in Int /\ unit[p] = meta[p].through + 1
<1>1. /\ p \in Paths /\ p # Target /\ Start[p] \in Units /\ End[p] \in Units
      /\ Start[p] <= End[p]
  BY WindsTyped
<1>2. BuildKnown(p) /\ CheckpointKnown(p) /\ unit[p] \in Int
  BY <1>1 DEF IInv, FilesKnown, TypeOK
<1>3. /\ archive = "wind" /\ unit[p] <= End[p]
      /\ unit[p] = IF meta[p] = Absent THEN Start[p] ELSE meta[p].through + 1
  BY <1>2 DEF BuildKnown
<1>4. meta[p] # Absent => meta[p].through \in Int /\ meta[p].start <= meta[p].through
                          /\ meta[p].start = Start[p] /\ meta[p].end = End[p]
  <2>1. meta[p] # Absent => meta[p].through \in Units
    BY <1>1 DEF IInv, TypeOK, Progress, Merged
  <2> QED
    BY <1>1, <1>2, <2>1, UnitsInt DEF CheckpointKnown
<1>5. Start[p] <= unit[p]
  BY <1>1, <1>3, <1>4, UnitsInt
<1>6. unit[p] \in Units
  <2>1. unit[p] \in Start[p]..End[p]
    BY <1>1, <1>2, <1>3, <1>5, UnitsInt
  <2>2. Start[p]..End[p] \subseteq Units
    BY <1>1, Typing
  <2> QED
    BY <2>1, <2>2
<1> QED
  BY <1>1, <1>3, <1>4, <1>5, <1>6

LEMMA SaveSumsKeeps ==
  ASSUME IInv, NEW p \in Winds, SaveSums(p)
  PROVE  IInv'
<1> DEFINE new == [mem[p] EXCEPT ![unit[p]] = @ + 1]
<1>1. at[p] = "sums" /\ UNCHANGED <<archive, meta, unit, deaths, merger>>
  BY DEF SaveSums
<1>2. p \in Paths /\ p # Target /\ archive = "wind" /\ unit[p] \in Units
  BY <1>1, YearTyped
<1>3. new \in Sums /\ mem[p] \in Sums
  BY <1>2 DEF IInv, TypeOK, Sums
<1>4. /\ \A u \in Units : new[u] >= mem[p][u]
      /\ new[unit[p]] >= 1
  BY <1>2, <1>3 DEF Sums
<1>5. sums' = [sums EXCEPT ![p] = new] /\ at' = [at EXCEPT ![p] = "meta"]
  BY DEF SaveSums
<1> HIDE DEF new
<1>6. sums'[p] = new /\ \A q \in Paths : q # p => sums'[q] = sums[q]
  BY <1>2, <1>5 DEF IInv, TypeOK
<1>7. mem' = [mem EXCEPT ![p] = new]
  BY <1>6 DEF SaveSums
<1>8. TypeOK'
  BY <1>1, <1>3, <1>5, <1>7 DEF IInv, TypeOK, merger
<1>9. sums[p] # Absent => sums[p] = mem[p]
  BY <1>1 DEF IInv, FilesKnown, BuildKnown
<1>10. \A q \in Paths \ {Target} : sums[q] \in Sums =>
          sums'[q] \in Sums /\ \A u \in Units : sums'[q][u] >= sums[q][u]
  <2> SUFFICES ASSUME NEW q \in Paths \ {Target}, sums[q] \in Sums
               PROVE  sums'[q] \in Sums /\ \A u \in Units : sums'[q][u] >= sums[q][u]
    OBVIOUS
  <2>1. CASE q = p
    BY <1>3, <1>4, <1>6, <1>9, <2>1, Typing
  <2>2. CASE q # p
    BY <1>6, <2>2 DEF Sums
  <2> QED
    BY <2>1, <2>2
<1>11. FilesKnown'
  <2>1. ASSUME NEW q \in Paths PROVE CheckpointKnown(q)'
    <3>1. CheckpointKnown(q)
      BY DEF IInv, FilesKnown
    <3>2. CASE q = p
      <4> SUFFICES ASSUME meta[p] # Absent
                   PROVE  Holds(new, meta[p].start, meta[p].through)
        BY <1>1, <1>2, <1>3, <1>6, <3>1, <3>2 DEF CheckpointKnown
      <4>1. Holds(sums[p], meta[p].start, meta[p].through) /\ sums[p] = mem[p]
        BY <1>2, <1>9, <3>1, <3>2, Typing DEF CheckpointKnown
      <4> SUFFICES ASSUME NEW u \in meta[p].start..meta[p].through PROVE new[u] >= 1
        BY DEF Holds
      <4>2. meta[p].start \in Units /\ meta[p].through \in Units
        BY <1>2 DEF IInv, TypeOK, Progress, Merged
      <4>3. u \in Units
        BY <4>2, Typing
      <4>4. new[u] >= mem[p][u] /\ mem[p][u] >= 1 /\ new[u] \in Nat /\ mem[p][u] \in Nat
        BY <1>3, <1>4, <4>1, <4>3 DEF Holds, Sums
      <4> QED
        BY <4>4
    <3>3. CASE q # p
      BY <1>1, <1>6, <3>1, <3>3 DEF CheckpointKnown
    <3> QED
      BY <3>2, <3>3
  <2>2. ASSUME NEW q \in Winds PROVE BuildKnown(q)'
    <3>1. BuildKnown(q) /\ q \in Paths
      BY WindsTyped DEF IInv, FilesKnown
    <3>2. CASE q = p
      <4>1. at'[p] = "meta" /\ mem'[p] = new
        BY <1>5, <1>7 DEF IInv, TypeOK
      <4> QED
        BY <1>1, <1>2, <1>3, <1>4, <1>6, <3>1, <3>2, <4>1, Typing DEF BuildKnown
    <3>3. CASE q # p
      BY <1>1, <1>5, <1>6, <1>7, <3>1, <3>3 DEF BuildKnown, IInv, TypeOK
    <3> QED
      BY <3>2, <3>3
  <2> QED
    BY <2>1, <2>2 DEF FilesKnown
<1>12. PartsKnown'
  BY <1>1, <1>2, <1>10, GrowingKeeps
<1> QED
  BY <1>1, <1>8, <1>11, <1>12, MergerStays DEF IInv

LEMMA SaveProgressKeeps ==
  ASSUME IInv, NEW p \in Winds, SaveProgress(p)
  PROVE  IInv'
<1> DEFINE said == [start |-> Start[p], end |-> End[p], through |-> unit[p]]
<1>1. at[p] = "meta" /\ UNCHANGED <<archive, sums, mem, deaths, merger>>
  BY DEF SaveProgress
<1>2. /\ p \in Paths /\ p # Target /\ archive = "wind" /\ unit[p] \in Units
      /\ Start[p] \in Units /\ End[p] \in Units /\ unit[p] <= End[p] /\ Start[p] <= unit[p]
      /\ meta[p] # Absent => meta[p].start = Start[p] /\ meta[p].end = End[p]
                             /\ meta[p].through \in Int /\ unit[p] = meta[p].through + 1
  BY <1>1, YearTyped
<1>3. said \in Progress /\ said # Absent
  BY <1>2, MergeAssumption DEF Progress
<1>4. said.start = Start[p] /\ said.end = End[p] /\ said.through = unit[p]
  OBVIOUS
<1>5. /\ meta' = [meta EXCEPT ![p] = said]
      /\ at' = [at EXCEPT ![p] = IF unit[p] = End[p] THEN "off" ELSE "sums"]
      /\ unit' = [unit EXCEPT ![p] = IF unit[p] = End[p] THEN unit[p] ELSE unit[p] + 1]
  BY DEF SaveProgress, IInv, TypeOK
<1> HIDE DEF said
<1>6. TypeOK'
  BY <1>1, <1>2, <1>3, <1>5, UnitsInt DEF IInv, TypeOK, merger
<1>7. sums[p] # Absent /\ sums[p] = mem[p] /\ sums[p][unit[p]] >= 1 /\ sums[p] \in Sums
  BY <1>1, <1>2 DEF IInv, FilesKnown, BuildKnown, TypeOK
<1>8. FilesKnown'
  <2>1. ASSUME NEW q \in Paths PROVE CheckpointKnown(q)'
    <3>1. CheckpointKnown(q)
      BY DEF IInv, FilesKnown
    <3>2. CASE q = p
      <4>1. Holds(sums[p], Start[p], unit[p])
        <5> SUFFICES ASSUME NEW u \in Start[p]..unit[p] PROVE sums[p][u] >= 1
          BY DEF Holds
        <5>1. CASE u = unit[p]
          BY <1>7, <5>1
        <5>2. CASE u # unit[p]
          <6>1. meta[p] # Absent
            BY <1>1, <1>2, <5>2, UnitsInt DEF IInv, FilesKnown, BuildKnown
          <6>2. u \in meta[p].start..meta[p].through
            BY <1>2, <5>2, <6>1, UnitsInt
          <6>3. Holds(sums[p], meta[p].start, meta[p].through)
            BY <1>2, <3>1, <3>2, <6>1 DEF CheckpointKnown
          <6> QED
            BY <6>2, <6>3 DEF Holds
        <5> QED
          BY <5>1, <5>2
      <4>2. p \in Built[archive]
        BY <1>2 DEF Winds
      <4>3. meta'[p] = said /\ UNCHANGED <<archive, sums>>
        BY <1>1, <1>2, <1>5 DEF IInv, TypeOK
      <4> QED
        BY <1>2, <1>4, <1>7, <3>2, <4>1, <4>2, <4>3 DEF CheckpointKnown
    <3>3. CASE q # p
      BY <1>1, <1>5, <3>1, <3>3 DEF CheckpointKnown, IInv, TypeOK
    <3> QED
      BY <3>2, <3>3
  <2>2. ASSUME NEW q \in Winds PROVE BuildKnown(q)'
    <3>1. BuildKnown(q) /\ q \in Paths
      BY WindsTyped DEF IInv, FilesKnown
    <3>2. CASE q = p
      <4>1. /\ meta'[p] = said
            /\ at'[p] = IF unit[p] = End[p] THEN "off" ELSE "sums"
            /\ unit'[p] = IF unit[p] = End[p] THEN unit[p] ELSE unit[p] + 1
        BY <1>2, <1>5 DEF IInv, TypeOK
      <4>2. unit[p] # End[p] => unit[p] + 1 <= End[p]
        BY <1>2, UnitsInt
      <4> QED
        BY <1>1, <1>2, <1>3, <1>4, <1>7, <3>2, <4>1, <4>2 DEF BuildKnown
    <3>3. CASE q # p
      BY <1>1, <1>5, <3>1, <3>3 DEF BuildKnown, IInv, TypeOK
    <3> QED
      BY <3>2, <3>3
  <2> QED
    BY <2>1, <2>2 DEF FilesKnown
<1>9. PartsKnown'
  BY <1>1, <1>2 DEF IInv, PartsKnown, PartKnown, merger
<1> QED
  BY <1>1, <1>6, <1>8, <1>9, MergerStays DEF IInv

LEMMA DieBuildingKeeps ==
  ASSUME IInv, NEW p \in Winds, DieBuilding(p)
  PROVE  IInv'
<1>1. at' = [at EXCEPT ![p] = "off"] /\ UNCHANGED <<archive, files, mem, unit, merger>>
  BY DEF DieBuilding
<1>2. TypeOK'
  BY <1>1 DEF IInv, TypeOK, files, merger
<1>3. FilesKnown'
  BY <1>1 DEF IInv, TypeOK, FilesKnown, CheckpointKnown, BuildKnown, files
<1>4. PartsKnown'
  BY <1>1 DEF IInv, PartsKnown, PartKnown, files, merger
<1> QED
  BY <1>1, <1>2, <1>3, <1>4, MergerStays DEF IInv

-----------------------------------------------------------------------------
(* The merger                                                              *)

\* The process ends.
LEMMA ExitKeeps ==
  ASSUME IInv, Exit, UNCHANGED <<archive, files, builds>>, MergedOnce', NothingMissing'
  PROVE  IInv'
<1>1. TypeOK'
  <2>1. inputs' \in Seq(Paths) /\ parts' \in Seq(Part) /\ total' \in Sums
    BY Typing DEF Exit
  <2> QED
    BY <2>1 DEF IInv, TypeOK, Exit, files, builds
<1>2. PartsKnown' /\ MergerKnown' /\ TotalKnown'
  BY DEF Exit, PartsKnown, MergerKnown, TotalKnown
<1>3. FilesKnown'
  BY FilesStay DEF IInv
<1> QED
  BY <1>1, <1>2, <1>3 DEF IInv

LEMMA GivesUpKeeps == IInv /\ (RejectPartition \/ Reject \/ DieMerging) => IInv'
<1> SUFFICES ASSUME IInv, RejectPartition \/ Reject \/ DieMerging PROVE IInv'
  OBVIOUS
<1>1. Exit /\ UNCHANGED <<archive, files, builds, output>>
  BY DEF RejectPartition, Reject, DieMerging
<1>2. MergedOnce' /\ NothingMissing'
  BY <1>1 DEF IInv, MergedOnce, NothingMissing
<1> QED
  BY <1>1, <1>2, ExitKeeps

LEMMA BeginKeeps ==
  ASSUME IInv, NEW args \in Arguments, Begin(args)
  PROVE  IInv'
<1>1. args \in Seq(Paths) /\ Len(args) \in Nat /\ Len(args) > 0
  <2>1. PICK n \in 1..MaxInputs : args \in [1..n -> Paths]
    BY DEF Arguments
  <2>2. n \in Nat /\ n > 0
    BY <2>1, MergeAssumption
  <2> QED
    BY <2>1, <2>2
<1>2. /\ pc = "idle" /\ pc' = "partition" /\ inputs' = args
      /\ UNCHANGED <<archive, files, builds, parts, total, output, skewed>>
  BY DEF Begin
<1>3. parts = <<>> /\ total = Zero /\ ~skewed
  BY <1>2 DEF IInv, MergerKnown
<1>4. TypeOK'
  BY <1>1, <1>2 DEF IInv, TypeOK, files, builds
<1>5. FilesKnown' /\ MergedOnce' /\ NothingMissing'
  BY <1>2, FilesStay DEF IInv, MergedOnce, NothingMissing
<1>6. PartsKnown' /\ MergerKnown' /\ TotalKnown'
  BY <1>1, <1>2, <1>3 DEF PartsKnown, MergerKnown, TotalKnown
<1> QED
  BY <1>4, <1>5, <1>6 DEF IInv

\* What _partition reads is true, and stays so.
LEMMA ReadPartitionKeeps ==
  ASSUME IInv, ReadPartition
  PROVE  IInv'
<1> DEFINE p == Unread
           part == [start |-> meta[p].start, end |-> meta[p].through, path |-> p]
<1>1. /\ pc = "partition" /\ Len(parts) < Len(inputs) /\ Mergeable(p)
      /\ parts' = Append(parts, part)
      /\ UNCHANGED <<archive, files, builds, pc, inputs, total, output, skewed>>
  BY DEF ReadPartition, Reading
<1>2. p \in Paths
  BY <1>1 DEF Unread, IInv, TypeOK
<1>3. /\ meta[p] # Absent /\ meta[p].start \in Units /\ meta[p].through \in Units
      /\ CheckpointKnown(p)
  BY <1>1, <1>2 DEF Mergeable, IInv, TypeOK, Progress, Merged, FilesKnown
<1>4. part \in Part /\ PartKnown(part)
  <2>1. part \in Part
    BY <1>2, <1>3 DEF Part
  <2>2. part.start = meta[p].start /\ part.end = meta[p].through /\ part.path = p
    OBVIOUS
  <2> HIDE DEF part
  <2>3. PartKnown(part)
    BY <1>1, <1>3, <2>2 DEF PartKnown, CheckpointKnown, Mergeable
  <2> QED
    BY <2>1, <2>3
<1> HIDE DEF part, p
<1>5. /\ parts' \in Seq(Part) /\ Len(parts') = Len(parts) + 1 /\ Len(parts) \in Nat
      /\ parts'[Len(parts) + 1] = part
      /\ \A i \in 1..Len(parts) : parts'[i] = parts[i]
  BY <1>1, <1>4 DEF IInv, TypeOK
<1>6. TypeOK'
  BY <1>1, <1>5 DEF IInv, TypeOK, files, builds
<1>7. FilesKnown' /\ MergedOnce' /\ NothingMissing'
  BY <1>1, FilesStay DEF IInv, MergedOnce, NothingMissing
<1>8. PartsKnown'
  <2> SUFFICES ASSUME NEW i \in 1..(Len(parts) + 1)
               PROVE  PartKnown(parts'[i])
    BY <1>1, <1>5 DEF PartsKnown, PartKnown, files
  <2>1. CASE i = Len(parts) + 1
    BY <1>4, <1>5, <2>1
  <2>2. CASE i # Len(parts) + 1
    BY <1>1, <1>5, <2>2 DEF IInv, PartsKnown
  <2> QED
    BY <2>1, <2>2
<1>9. MergerKnown' /\ TotalKnown'
  <2>1. Len(inputs) \in Nat
    BY DEF IInv, TypeOK
  <2> QED
    BY <1>1, <1>5, <2>1 DEF IInv, MergerKnown, TotalKnown
<1> QED
  BY <1>6, <1>7, <1>8, <1>9 DEF IInv

LEMMA PartsTyped == IInv => Len(parts) \in Nat /\ \A i \in 1..Len(parts) : parts[i] \in Part
  BY DEF IInv, TypeOK

LEMMA SortKeeps ==
  ASSUME IInv, SortPartitions
  PROVE  IInv'
<1>1. /\ pc = "partition" /\ Len(parts) = Len(inputs) /\ pc' = "check"
      /\ parts' \in Sortings(parts)
      /\ UNCHANGED <<archive, files, builds, inputs, total, output, skewed>>
  BY DEF SortPartitions
<1>2. PICK order \in [1..Len(parts) -> 1..Len(parts)] :
        parts' = [i \in 1..Len(parts) |-> parts[order[i]]]
  BY <1>1 DEF Sortings, Orders
<1>3. Len(parts) \in Nat /\ \A i \in 1..Len(parts) : parts[i] \in Part
  BY PartsTyped
<1>4. /\ parts' \in Seq(Part) /\ Len(parts') = Len(parts)
      /\ \A i \in 1..Len(parts) : \E j \in 1..Len(parts) : parts'[i] = parts[j]
  BY <1>2, <1>3
<1>5. TypeOK'
  BY <1>1, <1>4 DEF IInv, TypeOK, files, builds
<1>6. FilesKnown' /\ MergedOnce' /\ NothingMissing'
  BY <1>1, FilesStay DEF IInv, MergedOnce, NothingMissing
<1>7. PartsKnown'
  <2>1. \A j \in 1..Len(parts) : PartKnown(parts[j])
    BY <1>1 DEF IInv, PartsKnown
  <2> SUFFICES ASSUME NEW i \in 1..Len(parts) PROVE PartKnown(parts[i])'
    BY <1>4 DEF PartsKnown, PartKnown
  <2>2. PICK j \in 1..Len(parts) : parts'[i] = parts[j]
    BY <1>4
  <2> QED
    BY <1>1, <2>1, <2>2 DEF PartKnown, files
<1>8. MergerKnown' /\ TotalKnown'
  BY <1>1, <1>4 DEF IInv, MergerKnown, TotalKnown
<1> QED
  BY <1>5, <1>6, <1>7, <1>8 DEF IInv

LEMMA AcceptKeeps ==
  ASSUME IInv, Accept
  PROVE  IInv'
<1>1. /\ pc = "check" /\ pc' = "load" /\ Contiguous(parts)
      /\ UNCHANGED <<archive, files, builds, inputs, parts, total, output, skewed>>
  BY DEF Accept
<1>2. Len(parts) = Len(inputs) /\ Len(inputs) > 0 /\ total = Zero /\ ~skewed
  BY <1>1 DEF IInv, MergerKnown
<1>3. Len(inputs) \in Nat
  BY DEF IInv, TypeOK
<1>4. TypeOK'
  BY <1>1 DEF IInv, TypeOK, files, builds
<1>5. FilesKnown' /\ MergedOnce' /\ NothingMissing'
  BY <1>1, FilesStay DEF IInv, MergedOnce, NothingMissing
<1>6. PartsKnown'
  BY <1>1 DEF IInv, PartsKnown, PartKnown, files
<1>7. MergerKnown' /\ TotalKnown'
  BY <1>1, <1>2, <1>3 DEF MergerKnown, TotalKnown, Added
<1> QED
  BY <1>4, <1>5, <1>6, <1>7 DEF IInv

\* One more partition: the interval it joins grows by it.
LEMMA LoadPartKeeps ==
  ASSUME IInv, LoadPart
  PROVE  IInv'
<1> DEFINE k == Len(parts) - Len(inputs)
           part == parts[k + 1]
           f == sums[part.path]
<1>1. /\ pc = "load" /\ inputs # <<>>
      /\ total' = Plus(total, f)
      /\ skewed' = (skewed \/ f # Once(part.start, part.end))
      /\ inputs' = Tail(inputs)
      /\ UNCHANGED <<archive, files, builds, pc, parts, output>>
  BY DEF LoadPart
<1>2. /\ Len(inputs) \in Nat /\ Len(inputs) > 0 /\ Len(inputs) <= Len(parts)
      /\ Len(parts) \in Nat /\ Contiguous(parts)
      /\ Tail(inputs) \in Seq(Paths) /\ Len(Tail(inputs)) = Len(inputs) - 1
  <2>1. inputs \in Seq(Paths) /\ parts \in Seq(Part)
    BY DEF IInv, TypeOK
  <2> QED
    BY <1>1, <2>1 DEF IInv, MergerKnown
<1>3. k \in Nat /\ k + 1 \in 1..Len(parts)
  BY <1>2
<1>4. /\ part \in Part /\ PartKnown(part)
  BY <1>1, <1>3 DEF IInv, TypeOK, PartsKnown
<1>5. /\ part.start \in Units /\ part.end \in Units /\ part.path \in Paths
      /\ part.start <= part.end
  BY <1>4 DEF Part, PartKnown
<1>6. f \in Sums /\ Holds(f, part.start, part.end)
      /\ (archive = "current" => f = Once(part.start, part.end))
  <2>1. CASE archive = "current"
    <3>1. f = Once(part.start, part.end)
      BY <1>4, <2>1 DEF PartKnown
    <3>2. Once(part.start, part.end) \in Sums
      BY <1>5, Typing, UnitsInt
    <3> QED
      BY <1>5, <2>1, <3>1, <3>2, OnceHolds
  <2>2. CASE archive = "wind"
    BY <1>4, <2>2 DEF PartKnown
  <2> QED
    BY <2>1, <2>2 DEF IInv, TypeOK
<1>7. total \in Sums /\ Added(k) /\ (archive = "current" => ~skewed)
  BY <1>1 DEF IInv, TypeOK, TotalKnown
<1>8. parts[1] \in Part /\ First \in Units
  <2>1. 1 \in 1..Len(parts)
    BY <1>3
  <2> QED
    BY <2>1, PartsTyped DEF First, Part
<1> HIDE DEF f
<1>9. Plus(total, f) \in Sums
  BY <1>6, <1>7, Typing
<1>10. /\ First <= part.end
       /\ Holds(Plus(total, f), First, part.end)
       /\ skewed' \/ Plus(total, f) = Once(First, part.end)
  <2>1. CASE k = 0
    <3>1. total = Zero /\ part = parts[1] /\ First = part.start
      BY <1>7, <2>1 DEF Added, First
    <3>2. Plus(total, f) = f
      BY <1>6, <3>1 DEF Plus, Zero, Sums
    <3> QED
      BY <1>1, <1>5, <1>6, <3>1, <3>2
  <2>2. CASE k > 0
    <3>1. parts[k] \in Part /\ parts[k].end \in Units
      <4>1. k \in 1..Len(parts)
        BY <1>3, <2>2
      <4> QED
        BY <4>1, PartsTyped DEF Part
    <3>2. part.start = parts[k].end + 1
      <4>1. k \in 1..(Len(parts) - 1)
        BY <1>2, <1>3, <2>2
      <4> QED
        BY <1>2, <4>1 DEF Contiguous
    <3>3. /\ First <= parts[k].end /\ Holds(total, First, parts[k].end)
          /\ skewed \/ total = Once(First, parts[k].end)
      BY <1>7, <2>2 DEF Added
    <3>4. First <= part.end
      BY <1>5, <1>8, <3>1, <3>2, <3>3, UnitsInt
    <3>5. Holds(Plus(total, f), First, part.end)
      BY <1>5, <1>6, <1>7, <1>8, <3>1, <3>2, <3>3, HoldsJoin
    <3>6. ASSUME ~skewed' PROVE Plus(total, f) = Once(First, part.end)
      <4>1. total = Once(First, parts[k].end) /\ f = Once(part.start, part.end)
        BY <1>1, <3>3, <3>6
      <4> QED
        BY <1>5, <1>8, <3>1, <3>2, <3>3, <4>1, OnceJoins
    <3> QED
      BY <3>4, <3>5, <3>6
  <2> QED
    BY <1>3, <2>1, <2>2
<1>11. TypeOK'
  BY <1>1, <1>2, <1>9 DEF IInv, TypeOK, files, builds
<1>12. FilesKnown' /\ MergedOnce' /\ NothingMissing'
  BY <1>1, FilesStay DEF IInv, MergedOnce, NothingMissing
<1>13. PartsKnown'
  BY <1>1 DEF IInv, PartsKnown, PartKnown, files
<1>14. MergerKnown'
  BY <1>1, <1>2 DEF IInv, MergerKnown
<1>15. TotalKnown'
  <2>1. Len(parts') - Len(inputs') = k + 1
    BY <1>1, <1>2
  <2>2. archive = "current" => ~skewed'
    BY <1>1, <1>6, <1>7
  <2>3. First' = First /\ parts'[k + 1] = part
    BY <1>1 DEF First
  <2> DEFINE n == Len(parts') - Len(inputs')
  <2>4. /\ First' <= parts'[n].end
        /\ Holds(total', First', parts'[n].end)
        /\ skewed' \/ total' = Once(First', parts'[n].end)
    BY <1>1, <1>10, <2>1, <2>3
  <2>5. n > 0 /\ n # 0
    BY <1>3, <2>1
  <2> QED
    BY <1>1, <2>2, <2>4, <2>5 DEF TotalKnown, Added
<1> QED
  BY <1>11, <1>12, <1>13, <1>14, <1>15 DEF IInv

\* When all are loaded, the accumulator holds the units from the first to the
\* last.
LEMMA LoadedHolds ==
  ASSUME IInv, pc \in {"load", "progress", "publish"}, Len(inputs) = 0
  PROVE  /\ First \in Units /\ Last \in Units /\ First <= Last
         /\ Holds(total, First, Last)
         /\ skewed \/ total = Once(First, Last)
         /\ archive = "current" => ~skewed
<1>1. Len(parts) \in Nat /\ Len(parts) > 0
  BY PartsTyped DEF IInv, MergerKnown
<1>2. First \in Units /\ Last \in Units
  <2>1. parts[1] \in Part /\ parts[Len(parts)] \in Part
    BY <1>1, PartsTyped
  <2> QED
    BY <2>1 DEF First, Last, Part
<1>3. Added(Len(parts) - Len(inputs)) /\ (archive = "current" => ~skewed)
  BY DEF IInv, TotalKnown
<1>4. Len(parts) - Len(inputs) = Len(parts)
  BY <1>1
<1> QED
  BY <1>1, <1>2, <1>3, <1>4 DEF Added, Last

\* Saving: what was loaded waits to be published.
LEMMA SavedKeeps ==
  ASSUME IInv, pc \in {"load", "progress"}, Len(inputs) = 0, pc' \in {"progress", "publish"},
         pc' = "progress" => archive = "wind",
         UNCHANGED <<archive, builds, inputs, parts, total, output, skewed>>,
         TypeOK', FilesKnown'
  PROVE  IInv'
<1>1. PartsKnown' /\ MergedOnce' /\ NothingMissing'
  BY DEF IInv, PartsKnown, MergedOnce, NothingMissing
<1>2. Len(parts) > 0
  BY DEF IInv, MergerKnown
<1>3. MergerKnown'
  BY <1>2 DEF MergerKnown
<1>4. TotalKnown'
  BY DEF IInv, TotalKnown, Added, First
<1> QED
  BY <1>1, <1>3, <1>4 DEF IInv

LEMMA SaveNothingKeeps == IInv /\ SaveNothing => IInv'
<1> SUFFICES ASSUME IInv, SaveNothing PROVE IInv'
  OBVIOUS
<1>1. /\ pc = "load" /\ Len(inputs) = 0 /\ pc' = "publish"
      /\ UNCHANGED <<archive, files, builds, inputs, parts, total, output, skewed>>
  BY DEF SaveNothing, Loaded
<1>2. TypeOK'
  BY <1>1 DEF IInv, TypeOK, files, builds
<1>3. FilesKnown'
  BY <1>1, FilesStay DEF IInv
<1> QED
  BY <1>1, <1>2, <1>3, SavedKeeps

LEMMA SaveCurrentKeeps ==
  ASSUME IInv, SaveCurrent
  PROVE  IInv'
<1> DEFINE said == [start |-> First, end |-> Last, through |-> Last]
<1>1. /\ archive = "current" /\ pc = "load" /\ Len(inputs) = 0 /\ pc' = "publish"
      /\ sums' = [sums EXCEPT ![Target] = total]
      /\ meta' = [meta EXCEPT ![Target] = said]
      /\ UNCHANGED <<archive, builds, inputs, parts, total, output, skewed>>
  BY DEF SaveCurrent, Loaded
<1>2. First \in Units /\ Last \in Units /\ First <= Last /\ total = Once(First, Last)
  BY <1>1, LoadedHolds
<1>3. said \in Progress /\ said.start = First /\ said.through = Last
  BY <1>2 DEF Progress
<1> HIDE DEF said
<1>4. total \in Sums /\ Target \in Paths
  BY MergeAssumption DEF IInv, TypeOK
<1>5. TypeOK'
  BY <1>1, <1>3, <1>4 DEF IInv, TypeOK, builds
<1>6. FilesKnown'
  <2>1. ASSUME NEW q \in Paths PROVE CheckpointKnown(q)'
    <3>1. CASE q = Target
      <4>1. meta'[Target] = said /\ sums'[Target] = total
        BY <1>1, <1>4 DEF IInv, TypeOK
      <4> QED
        BY <1>1, <1>2, <1>3, <3>1, <4>1 DEF CheckpointKnown
    <3>2. CASE q # Target
      BY <1>1, <3>2 DEF IInv, TypeOK, FilesKnown, CheckpointKnown
    <3> QED
      BY <3>1, <3>2
  <2>2. ASSUME NEW q \in Winds PROVE BuildKnown(q)'
    BY <1>1 DEF IInv, FilesKnown, BuildKnown, builds
  <2> QED
    BY <2>1, <2>2 DEF FilesKnown
<1> QED
  BY <1>1, <1>5, <1>6, SavedKeeps

\* The merged wind checkpoint is no build's, and no merge takes it.
LEMMA TargetKeeps ==
  ASSUME IInv, archive = "wind", UNCHANGED <<archive, builds>>,
         \A p \in Paths \ {Target} : sums'[p] = sums[p] /\ meta'[p] = meta[p],
         meta'[Target] # Absent => meta'[Target].start <= meta'[Target].through
  PROVE  FilesKnown'
<1>1. ASSUME NEW q \in Paths PROVE CheckpointKnown(q)'
  <2>1. CASE q = Target
    BY <2>1 DEF CheckpointKnown
  <2>2. CASE q # Target
    BY <2>2 DEF IInv, FilesKnown, CheckpointKnown
  <2> QED
    BY <2>1, <2>2
<1>2. ASSUME NEW q \in Winds PROVE BuildKnown(q)'
  BY WindsTyped DEF IInv, FilesKnown, BuildKnown, builds
<1> QED
  BY <1>1, <1>2 DEF FilesKnown

LEMMA SaveWindKeeps ==
  ASSUME IInv, SaveWind
  PROVE  IInv'
<1>1. /\ archive = "wind" /\ pc = "load" /\ Len(inputs) = 0 /\ pc' = "progress"
      /\ sums' = [sums EXCEPT ![Target] = total]
      /\ UNCHANGED <<archive, meta, builds, inputs, parts, total, output, skewed>>
  BY DEF SaveWind, Loaded
<1>2. total \in Sums /\ Target \in Paths
  BY MergeAssumption DEF IInv, TypeOK
<1>3. TypeOK'
  BY <1>1, <1>2 DEF IInv, TypeOK, builds
<1>4. FilesKnown'
  <2>1. \A p \in Paths \ {Target} : sums'[p] = sums[p] /\ meta'[p] = meta[p]
    BY <1>1 DEF IInv, TypeOK
  <2>2. meta'[Target] # Absent => meta'[Target].start <= meta'[Target].through
    BY <1>1, <1>2 DEF IInv, FilesKnown, CheckpointKnown
  <2> QED
    BY <1>1, <2>1, <2>2, TargetKeeps
<1> QED
  BY <1>1, <1>3, <1>4, SavedKeeps

LEMMA SaveMergedProgressKeeps ==
  ASSUME IInv, SaveMergedProgress
  PROVE  IInv'
<1> DEFINE said == [start |-> First, through |-> Last]
<1>1. /\ pc = "progress" /\ pc' = "publish"
      /\ meta' = [meta EXCEPT ![Target] = said]
      /\ UNCHANGED <<archive, sums, builds, inputs, parts, total, output, skewed>>
  BY DEF SaveMergedProgress
<1>2. Len(inputs) = 0 /\ archive = "wind"
  BY <1>1 DEF IInv, MergerKnown
<1>3. First \in Units /\ Last \in Units /\ First <= Last /\ Target \in Paths
  BY <1>1, <1>2, LoadedHolds, MergeAssumption
<1>4. said \in Merged /\ said.start = First /\ said.through = Last
  BY <1>3 DEF Merged
<1> HIDE DEF said
<1>5. TypeOK'
  BY <1>1, <1>4 DEF IInv, TypeOK, builds
<1>6. FilesKnown'
  <2>1. \A p \in Paths \ {Target} : sums'[p] = sums[p] /\ meta'[p] = meta[p]
    BY <1>1 DEF IInv, TypeOK
  <2>2. meta'[Target] = said
    BY <1>1, <1>3 DEF IInv, TypeOK
  <2> QED
    BY <1>1, <1>2, <1>3, <1>4, <2>1, <2>2, TargetKeeps
<1> QED
  BY <1>1, <1>2, <1>5, <1>6, SavedKeeps

LEMMA PublishKeeps ==
  ASSUME IInv, Publish
  PROVE  IInv'
<1>1. /\ pc = "publish" /\ Exit /\ UNCHANGED <<archive, files, builds>>
      /\ output' = [sums |-> total, start |-> First, end |-> Last, skewed |-> skewed]
  BY DEF Publish
<1>2. Len(inputs) = 0
  BY <1>1 DEF IInv, MergerKnown
<1>3. Holds(total, First, Last) /\ (skewed \/ total = Once(First, Last))
  BY <1>1, <1>2, LoadedHolds
<1>4. MergedOnce' /\ NothingMissing'
  BY <1>1, <1>3 DEF MergedOnce, NothingMissing, Holds
<1> QED
  BY <1>1, <1>4, ExitKeeps

LEMMA NextIInv == IInv /\ [Next]_vars => IInv'
<1> SUFFICES ASSUME IInv, [Next]_vars PROVE IInv'
  OBVIOUS
<1>1. CASE UNCHANGED vars
  <2>1. TypeOK'
    BY <1>1 DEF vars, files, builds, merger, IInv, TypeOK
  <2>2. FilesKnown' /\ PartsKnown'
    BY <1>1, FilesStay DEF vars, files, merger, IInv, PartsKnown, PartKnown
  <2> QED
    BY <1>1, <2>1, <2>2, MergerStays DEF vars, IInv
<1>2. CASE Build
  BY <1>2, ReplaceKeeps, StartKeeps, SaveSumsKeeps, SaveProgressKeeps, DieBuildingKeeps
     DEF Build, Winds, ReplaceCheckpoint
<1>3. CASE Merge
  BY <1>3, BeginKeeps, ReadPartitionKeeps, SortKeeps, AcceptKeeps, GivesUpKeeps, LoadPartKeeps,
     SaveCurrentKeeps, SaveNothingKeeps, SaveWindKeeps, SaveMergedProgressKeeps, PublishKeeps
     DEF Merge
<1> QED
  BY <1>1, <1>2, <1>3 DEF Next

LEMMA AlwaysIInv == Spec => []IInv
  BY InitIInv, NextIInv, PTL DEF Spec

-----------------------------------------------------------------------------
\* D018: every checkpoint of currents, a merged one like any other, holds each
\* day from its first to its last complete one once and no other day.
THEOREM MergeLikeSerial == Spec => []MergeIsExact
<1>1. IInv => MergeIsExact
  BY DEF IInv, FilesKnown, CheckpointKnown, MergeIsExact
<1> QED
  BY <1>1, AlwaysIInv, PTL

\* D019: what a merger publishes holds each unit it claims once and no other,
\* unless a checkpoint held more than it said when it was read.
THEOREM PublishedOnce == Spec => []MergedOnce
<1>1. IInv => MergedOnce
  BY DEF IInv
<1> QED
  BY <1>1, AlwaysIInv, PTL

\* What a merger publishes misses no unit it claims, whatever the builds did
\* between its reads.
THEOREM PublishedMissesNone == Spec => []NothingMissing
<1>1. IInv => NothingMissing
  BY DEF IInv
<1> QED
  BY <1>1, AlwaysIInv, PTL

-----------------------------------------------------------------------------
(* Why comparing neighbours is enough                                      *)

\* Induction over the partitions: a set of numbers has a least one.
Less == {pair \in Nat \X Nat : pair[1] < pair[2]}

LEMMA LessWellFounded == IsWellFoundedOn(Less, Nat)
  BY NatLessThanWellFounded DEF OpToRel, Less

LEMMA LeastNatural ==
  ASSUME NEW T \in SUBSET Nat, T # {}
  PROVE  \E n \in T : \A k \in T : n <= k
<1>1. \A n \in T : n \in Nat
  OBVIOUS
<1>2. \A k, n \in Nat : k < n => <<k, n>> \in Less
  BY DEF Less
<1>3. PICK n \in T : \A k \in T : ~(<<k, n>> \in Less)
  BY LessWellFounded, WFMin
<1>4. ASSUME NEW k \in T PROVE n <= k
  <2>1. ~(k < n) /\ n \in Nat /\ k \in Nat
    BY <1>1, <1>2, <1>3
  <2> QED
    BY <2>1
<1> QED
  BY <1>4

\* Intervals sorted by where they begin, none of them empty.
InOrder(ps) ==
    /\ Len(ps) \in Nat /\ Len(ps) > 0 /\ DOMAIN ps = 1..Len(ps)
    /\ \A i \in 1..Len(ps) : ps[i].start \in Int /\ ps[i].end \in Int /\ ps[i].start <= ps[i].end
    /\ \A i, j \in 1..Len(ps) : i < j => ps[i].start <= ps[j].start

LEMMA ContiguousTile ==
  ASSUME NEW ps, InOrder(ps), Contiguous(ps)
  PROVE  Tiles(ps)
<1> DEFINE N == Len(ps)
           first == ps[1].start
           last == ps[N].end
<1>1. N \in Nat /\ N > 0 /\ DOMAIN ps = 1..N /\ 1 \in 1..N /\ N \in 1..N
  BY DEF InOrder
<1>2. /\ \A i \in 1..N : ps[i].start \in Int /\ ps[i].end \in Int /\ ps[i].start <= ps[i].end
      /\ \A i, j \in 1..N : i < j => ps[i].start <= ps[j].start
      /\ \A i \in 1..(N - 1) : ps[i + 1].start = ps[i].end + 1
  BY DEF InOrder, Contiguous
<1> HIDE DEF N
<1>3. first \in Int /\ last \in Int
  BY <1>1, <1>2
<1>4. ASSUME NEW i \in 1..N PROVE first <= ps[i].start /\ ps[i].end <= last
  <2>1. first <= ps[i].start
    <3>1. CASE i = 1
      BY <1>2, <3>1
    <3>2. CASE i # 1
      BY <1>1, <1>2, <3>2
    <3> QED
      BY <3>1, <3>2
  <2>2. ps[i].end <= last
    <3>1. CASE i = N
      BY <1>2, <3>1
    <3>2. CASE i # N
      <4>1. i \in 1..(N - 1) /\ i + 1 \in 1..N
        BY <1>1, <3>2
      <4>2. ps[i + 1].start <= ps[N].start
        BY <1>1, <1>2, <4>1
      <4> QED
        BY <1>1, <1>2, <4>1, <4>2
    <3> QED
      BY <3>1, <3>2
  <2> QED
    BY <2>1, <2>2
<1>5. ASSUME NEW t \in first..last
      PROVE  \E i \in 1..N : Owners(ps, t) = {i}
  <2> DEFINE Reach == {i \in 1..N : ps[i].end >= t}
  <2>1. t \in Int
    BY <1>3
  <2>2. N \in Reach /\ Reach \in SUBSET Nat
    BY <1>1, <1>3
  <2>3. PICK i \in Reach : \A k \in Reach : i <= k
    <3> HIDE DEF Reach
    <3> QED
      BY <2>2, LeastNatural
  <2>4. i \in 1..N /\ t <= ps[i].end
    BY <1>2, <2>1
  <2>5. \A k \in 1..N : k < i => ps[k].end < t
    BY <1>2, <2>1, <2>3, <2>4
  <2>6. ps[i].start <= t
    <3>1. CASE i = 1
      BY <1>3, <3>1
    <3>2. CASE i # 1
      <4>1. i - 1 \in 1..(N - 1) /\ i - 1 \in 1..N /\ i - 1 < i /\ (i - 1) + 1 = i
        BY <1>1, <2>4, <3>2
      <4>2. ps[i - 1].end < t /\ ps[i].start = ps[i - 1].end + 1
        BY <1>2, <2>5, <4>1
      <4> QED
        BY <1>2, <2>1, <2>4, <4>1, <4>2
    <3> QED
      BY <3>1, <3>2
  <2>7. \A k \in 1..N : i < k => t < ps[k].start
    <3> SUFFICES ASSUME NEW k \in 1..N, i < k PROVE t < ps[k].start
      OBVIOUS
    <3>1. i \in 1..(N - 1) /\ i + 1 \in 1..N
      BY <1>1, <2>4
    <3>2. ps[i + 1].start <= ps[k].start
      <4>1. i + 1 = k \/ i + 1 < k
        BY <2>4
      <4> QED
        BY <1>2, <3>1, <4>1
    <3> QED
      BY <1>2, <2>1, <2>4, <3>1, <3>2
  <2>8. \A k \in 1..N : t \in ps[k].start..ps[k].end <=> k = i
    <3> SUFFICES ASSUME NEW k \in 1..N PROVE t \in ps[k].start..ps[k].end <=> k = i
      OBVIOUS
    <3>1. k < i \/ k = i \/ i < k
      BY <2>4
    <3> QED
      BY <1>2, <2>1, <2>4, <2>5, <2>6, <2>7, <3>1
  <2> QED
    BY <1>1, <2>4, <2>8 DEF Owners
<1>6. first \in UNION {{ps[i].start, ps[i].end} : i \in DOMAIN ps}
      /\ last \in UNION {{ps[i].start, ps[i].end} : i \in DOMAIN ps}
  BY <1>1
<1> QED
  BY <1>1, <1>4, <1>5, <1>6 DEF Tiles

LEMMA TilesContiguous ==
  ASSUME NEW ps, InOrder(ps), Tiles(ps)
  PROVE  Contiguous(ps)
<1> DEFINE N == Len(ps)
<1>1. N \in Nat /\ N > 0 /\ DOMAIN ps = 1..N
  BY DEF InOrder
<1>2. /\ \A i \in 1..N : ps[i].start \in Int /\ ps[i].end \in Int /\ ps[i].start <= ps[i].end
      /\ \A i, j \in 1..N : i < j => ps[i].start <= ps[j].start
  BY DEF InOrder
<1> HIDE DEF N
<1>3. PICK first, last \in UNION {{ps[i].start, ps[i].end} : i \in DOMAIN ps} :
        /\ \A i \in 1..N : first <= ps[i].start /\ ps[i].end <= last
        /\ \A t \in first..last : \E i \in 1..N : Owners(ps, t) = {i}
  BY <1>1 DEF Tiles
<1>4. first \in Int /\ last \in Int
  BY <1>1, <1>2
<1>5. ASSUME NEW t \in first..last, NEW i \in 1..N, NEW j \in 1..N,
             t \in ps[i].start..ps[i].end, t \in ps[j].start..ps[j].end
      PROVE  i = j
  <2>1. PICK k \in 1..N : Owners(ps, t) = {k}
    BY <1>3, <1>5
  <2>2. i \in Owners(ps, t) /\ j \in Owners(ps, t)
    BY <1>1, <1>5 DEF Owners
  <2> QED
    BY <2>1, <2>2
<1>6. ASSUME NEW i \in 1..(N - 1) PROVE ps[i + 1].start = ps[i].end + 1
  <2>1. i \in 1..N /\ i + 1 \in 1..N /\ i < i + 1 /\ i # i + 1 /\ i \in Int
    BY <1>1
  <2> DEFINE a == ps[i].start
             b == ps[i].end
             c == ps[i + 1].start
             d == ps[i + 1].end
  <2>2. /\ a \in Int /\ b \in Int /\ c \in Int /\ d \in Int
        /\ a <= b /\ c <= d /\ a <= c
        /\ first <= a /\ b <= last /\ first <= c /\ d <= last
    BY <1>2, <1>3, <2>1
  <2>3. b < c
    <3> SUFFICES ASSUME c <= b PROVE FALSE
      BY <2>2
    <3>1. c \in first..last /\ c \in a..b /\ c \in c..d
      BY <1>4, <2>2
    <3> QED
      BY <1>5, <2>1, <3>1
  <2>4. c <= b + 1
    <3> SUFFICES ASSUME b + 1 < c PROVE FALSE
      BY <2>2
    <3>1. b + 1 \in first..last
      BY <1>4, <2>2
    <3>2. PICK k \in 1..N : Owners(ps, b + 1) = {k}
      BY <1>3, <3>1
    <3>3. b + 1 \in ps[k].start..ps[k].end
      <4>1. k \in Owners(ps, b + 1)
        BY <3>2
      <4> QED
        BY <4>1 DEF Owners
    <3>4. /\ ps[k].start \in Int /\ ps[k].end \in Int
          /\ ps[k].start <= b + 1 /\ b + 1 <= ps[k].end
      BY <1>2, <2>2, <3>3
    <3>5. CASE k < i
      <4>1. ps[k].start <= a
        BY <1>2, <2>1, <3>5
      <4>2. a \in first..last /\ a \in a..b /\ a \in ps[k].start..ps[k].end
        BY <1>4, <2>2, <3>4, <4>1
      <4>3. k = i
        BY <1>5, <2>1, <4>2
      <4> QED
        BY <2>1, <3>5, <4>3
    <3>6. CASE k = i
      BY <2>2, <3>4, <3>6
    <3>7. CASE i + 1 <= k
      <4>1. c <= ps[k].start
        BY <1>2, <2>1, <2>2, <3>7
      <4> QED
        BY <2>2, <3>4, <4>1
    <3>8. k < i \/ k = i \/ i + 1 <= k
      BY <2>1
    <3> QED
      BY <3>5, <3>6, <3>7, <3>8
  <2> QED
    BY <2>2, <2>3, <2>4
<1> QED
  BY <1>6 DEF Contiguous, N

\* The partitions are sorted when they are compared.
SortedThen == pc = "check" => Sorted(parts)

LEMMA NextSorted == SortedThen /\ [Next]_vars => SortedThen'
<1> SUFFICES ASSUME SortedThen, [Next]_vars PROVE SortedThen'
  OBVIOUS
<1>1. CASE SortPartitions
  BY <1>1 DEF SortedThen, SortPartitions, Sortings
<1>2. CASE UNCHANGED vars \/ Build
  BY <1>2 DEF SortedThen, vars, merger, Build, ReplaceCheckpoint, StartBuild, SaveSums,
              SaveProgress, DieBuilding
<1>3. CASE Merge /\ ~SortPartitions
  BY <1>3 DEF SortedThen, Merge, Begin, ReadPartition, Reading, RejectPartition, Exit, Accept,
              Reject, LoadPart, SaveCurrent, SaveNothing, SaveWind, SaveMergedProgress, Publish,
              DieMerging
<1> QED
  BY <1>1, <1>2, <1>3 DEF Next

\* The mergers accept exactly the partitions that tile the time they span, though
\* they compare neighbours only.
THEOREM NeighboursAreEnough == Spec => []NeighboursDecide
<1>1. Init => SortedThen
  BY DEF Init, SortedThen
<1>2. IInv /\ SortedThen => NeighboursDecide
  <2> SUFFICES ASSUME IInv, SortedThen, pc = "check" PROVE Contiguous(parts) <=> Tiles(parts)
    BY DEF NeighboursDecide
  <2>1. Len(parts) \in Nat /\ Len(parts) > 0 /\ DOMAIN parts = 1..Len(parts)
    BY DEF IInv, TypeOK, MergerKnown
  <2>2. \A i \in 1..Len(parts) :
          parts[i].start \in Int /\ parts[i].end \in Int /\ parts[i].start <= parts[i].end
    BY PartsTyped, UnitsInt DEF IInv, PartsKnown, PartKnown, Part
  <2>3. \A i, j \in 1..Len(parts) : i < j => parts[i].start <= parts[j].start
    BY <2>1, <2>2 DEF SortedThen, Sorted, Earlier
  <2> QED
    BY <2>1, <2>2, <2>3, ContiguousTile, TilesContiguous DEF InOrder
<1> QED
  BY <1>1, <1>2, NextSorted, AlwaysIInv, PTL DEF Spec
=============================================================================
