-------------------------- MODULE CheckpointMerge --------------------------
(***************************************************************************)
(* merge_current.py and merge_wind.py, next to running builds.  The two    *)
(* mergers are one algorithm over different checkpoints, so `archive' says *)
(* which of them this is:                                                  *)
(*   "current"  a checkpoint is one file, replaced atomically (module      *)
(*              OscarAcquire, seen through SerialPass); it is merged when  *)
(*              complete, and the merged one is a checkpoint like others;  *)
(*   "wind"     a checkpoint is two files, the sums and a JSON progress    *)
(*              file rewritten after them (module WindBuild); it counts    *)
(*              for the years it has processed, and a merged one has no    *)
(*              "end_year".                                                *)
(* The mergers take no lock: they read what every checkpoint says it       *)
(* holds, and later the sums of every one.  That a wind file may be cut    *)
(* off while it is rewritten is left to WindBuild: here a merge that meets *)
(* one dies.                                                               *)
(***************************************************************************)
EXTENDS Partitions, FiniteSets

CONSTANTS
    Paths,      \* checkpoints
    Units,      \* an interval of days (current) or years (wind)
    Start, End, \* Start[p], End[p]: the period the build on path p was asked for
    Built,      \* per archive: the paths a build works on
    Target,     \* --merged-checkpoint
    Absent,
    MaxInputs,  \* bound: --checkpoint options of one merge
    MaxDeaths   \* bound: wind builds that die

\* What a checkpoint says of itself.
Progress == [start : Units, end : Units, through : Units]

ASSUME MergeAssumption ==
    /\ \A a \in {"current", "wind"} :
        /\ Built[a] \subseteq Paths \ {Target}
        /\ \A p \in Built[a] : Start[p] \in Units /\ End[p] \in Units /\ Start[p] <= End[p]
    /\ Units \subseteq Int /\ \A u, v \in Units : u..v \subseteq Units
    /\ Target \in Paths
    /\ Absent \notin [Units -> Nat] /\ Absent \notin Progress
    /\ MaxInputs \in Nat /\ MaxDeaths \in Nat

VARIABLES
    archive,
    sums,     \* per path: Absent or how often each unit was added
    meta,     \* per path: Absent or [start, end, through]
    mem,      \* per wind build: its accumulator
    unit,     \* per wind build: the next year
    at,       \* per wind build: "off", "sums" or "meta": the file it writes next
    deaths,
    pc,       \* the merger's place
    inputs,   \* its --checkpoint arguments
    parts,    \* the partitions read so far, then sorted
    total,    \* the accumulator
    output,   \* the published files: Absent or [sums, start, end, skewed]
    skewed    \* history: the merger added sums that do not hold exactly what
              \* the checkpoint said when it was read

files == <<sums, meta>>
builds == <<mem, unit, at, deaths>>
merger == <<pc, inputs, parts, total, output, skewed>>
vars == <<archive, files, builds, merger>>

Zero == [u \in Units |-> 0]
Once(first, last) == [u \in Units |-> IF u \in first..last THEN 1 ELSE 0]

-----------------------------------------------------------------------------
(* Builds                                                                  *)

\* An OSCAR build has finished a month and replaces its checkpoint.
ReplaceCheckpoint(p, u) ==
    /\ archive = "current"
    /\ u \in Start[p]..End[p]
    /\ meta[p] # Absent => u > meta[p].through
    /\ sums' = [sums EXCEPT ![p] = Once(Start[p], u)]
    /\ meta' = [meta EXCEPT ![p] = [start |-> Start[p], end |-> End[p], through |-> u]]
    /\ UNCHANGED <<archive, builds, merger>>

StartBuild(p) ==
    /\ archive = "wind"
    /\ at[p] = "off"
    /\ IF meta[p] = Absent THEN sums[p] = Absent ELSE meta[p].through < End[p]
    /\ mem' = [mem EXCEPT ![p] = IF sums[p] = Absent THEN Zero ELSE sums[p]]
    /\ unit' = [unit EXCEPT ![p] = IF meta[p] = Absent THEN Start[p] ELSE meta[p].through + 1]
    /\ at' = [at EXCEPT ![p] = "sums"]
    /\ UNCHANGED <<archive, files, deaths, merger>>

SaveSums(p) ==
    /\ at[p] = "sums"
    /\ sums' = [sums EXCEPT ![p] = [mem[p] EXCEPT ![unit[p]] = @ + 1]]
    /\ mem' = [mem EXCEPT ![p] = sums'[p]]
    /\ at' = [at EXCEPT ![p] = "meta"]
    /\ UNCHANGED <<archive, meta, unit, deaths, merger>>

SaveProgress(p) ==
    /\ at[p] = "meta"
    /\ meta' = [meta EXCEPT ![p] = [start |-> Start[p], end |-> End[p], through |-> unit[p]]]
    /\ at' = [at EXCEPT ![p] = IF unit[p] = End[p] THEN "off" ELSE "sums"]
    /\ unit' = [unit EXCEPT ![p] = IF @ = End[p] THEN @ ELSE @ + 1]
    /\ UNCHANGED <<archive, sums, mem, deaths, merger>>

DieBuilding(p) ==
    /\ at[p] # "off"
    /\ deaths < MaxDeaths
    /\ deaths' = deaths + 1
    /\ at' = [at EXCEPT ![p] = "off"]
    /\ UNCHANGED <<archive, files, mem, unit, merger>>

-----------------------------------------------------------------------------
(* The merger                                                              *)

\* The process ends, and its variables with it.
Exit ==
    /\ pc' = "idle"
    /\ inputs' = <<>>
    /\ parts' = <<>>
    /\ total' = Zero
    /\ skewed' = FALSE

Begin(args) ==
    /\ pc = "idle"
    /\ inputs' = args
    /\ pc' = "partition"
    /\ UNCHANGED <<archive, files, builds, parts, total, output, skewed>>

Reading == pc = "partition" /\ Len(parts) < Len(inputs)
Unread == inputs[Len(parts) + 1]

\* A current checkpoint must be complete; a wind checkpoint must have the
\* "end_year" a merge does not write.
Mergeable_Unfinished(p) == meta[p] # Absent /\ (archive = "wind" => p # Target)
Mergeable(p) ==
    /\ meta[p] # Absent
    /\ IF archive = "current" THEN meta[p].through = meta[p].end ELSE p # Target

ReadPartition_RequestedEnd ==
    /\ Reading
    /\ Mergeable(Unread)
    /\ parts' = Append(parts, [start |-> meta[Unread].start, end |-> meta[Unread].end,
                               path |-> Unread])
    /\ UNCHANGED <<archive, files, builds, pc, inputs, total, output, skewed>>

\* _partition: what a checkpoint owns ends with the last unit it completed.
ReadPartition ==
    /\ Reading
    /\ Mergeable(Unread)
    /\ parts' = Append(parts, [start |-> meta[Unread].start, end |-> meta[Unread].through,
                               path |-> Unread])
    /\ UNCHANGED <<archive, files, builds, pc, inputs, total, output, skewed>>

RejectPartition ==
    /\ Reading
    /\ ~Mergeable(Unread)
    /\ Exit
    /\ UNCHANGED <<archive, files, builds, output>>

SortPartitions ==
    /\ pc = "partition"
    /\ Len(parts) = Len(inputs)
    /\ parts' \in Sortings(parts)
    /\ pc' = "check"
    /\ UNCHANGED <<archive, files, builds, inputs, total, output, skewed>>

Accept_Always ==
    /\ pc = "check"
    /\ pc' = "load"
    /\ UNCHANGED <<archive, files, builds, inputs, parts, total, output, skewed>>

Accept ==
    /\ pc = "check"
    /\ Contiguous(parts)
    /\ pc' = "load"
    /\ UNCHANGED <<archive, files, builds, inputs, parts, total, output, skewed>>

\* An overlap or a gap.
Reject ==
    /\ pc = "check"
    /\ ~Contiguous(parts)
    /\ Exit
    /\ UNCHANGED <<archive, files, builds, output>>

\* load_checkpoint and merge, in order; how many are left is Len(inputs).
LoadPart ==
    LET part == parts[Len(parts) - Len(inputs) + 1] IN
    /\ pc = "load"
    /\ inputs # <<>>
    /\ total' = Plus(total, sums[part.path])
    /\ skewed' = (skewed \/ sums[part.path] # Once(part.start, part.end))
    /\ inputs' = Tail(inputs)
    /\ UNCHANGED <<archive, files, builds, pc, parts, output>>

First == parts[1].start
Last == parts[Len(parts)].end
Loaded == pc = "load" /\ inputs = <<>>

\* The merged current checkpoint is one atomic file like the others.
SaveCurrent ==
    /\ archive = "current" /\ Loaded
    /\ sums' = [sums EXCEPT ![Target] = total]
    /\ meta' = [meta EXCEPT ![Target] = [start |-> First, end |-> Last, through |-> Last]]
    /\ pc' = "publish"
    /\ UNCHANGED <<archive, builds, inputs, parts, total, output, skewed>>

\* The option is not required of merge_wind.py.
SaveNothing ==
    /\ archive = "wind" /\ Loaded
    /\ pc' = "publish"
    /\ UNCHANGED <<archive, files, builds, inputs, parts, total, output, skewed>>

SaveWind ==
    /\ archive = "wind" /\ Loaded
    /\ sums' = [sums EXCEPT ![Target] = total]
    /\ pc' = "progress"
    /\ UNCHANGED <<archive, meta, builds, inputs, parts, total, output, skewed>>

SaveMergedProgress ==
    /\ pc = "progress"
    /\ meta' = [meta EXCEPT ![Target] = [start |-> First, through |-> Last]]
    /\ pc' = "publish"
    /\ UNCHANGED <<archive, sums, builds, inputs, parts, total, output, skewed>>

\* The twelve legacy files.
Publish ==
    /\ pc = "publish"
    /\ output' = [sums |-> total, start |-> First, end |-> Last, skewed |-> skewed]
    /\ Exit
    /\ UNCHANGED <<archive, files, builds>>

\* A kill, a file cut off, another grid, an overflow of the counts, a full disk.
DieMerging ==
    /\ pc # "idle"
    /\ Exit
    /\ UNCHANGED <<archive, files, builds, output>>

-----------------------------------------------------------------------------
Arguments == UNION {[1..n -> Paths] : n \in 1..MaxInputs}

Init ==
    /\ archive \in {"current", "wind"}
    /\ sums = [p \in Paths |-> Absent]
    /\ meta = [p \in Paths |-> Absent]
    /\ mem = [p \in Built["wind"] |-> Zero]
    /\ unit = [p \in Built["wind"] |-> Start[p]]
    /\ at = [p \in Built["wind"] |-> "off"]
    /\ deaths = 0
    /\ pc = "idle" /\ inputs = <<>> /\ parts = <<>> /\ total = Zero /\ skewed = FALSE
    /\ output = Absent

Build ==
    \/ \E p \in Built["current"], u \in Units : ReplaceCheckpoint(p, u)
    \/ \E p \in Built["wind"] :
        StartBuild(p) \/ SaveSums(p) \/ SaveProgress(p) \/ DieBuilding(p)

Merge ==
    \/ \E args \in Arguments : Begin(args)
    \/ ReadPartition \/ RejectPartition \/ SortPartitions \/ Accept \/ Reject
    \/ LoadPart \/ SaveCurrent \/ SaveNothing \/ SaveWind \/ SaveMergedProgress
    \/ Publish \/ DieMerging

Next == Build \/ Merge

Spec == Init /\ [][Next]_vars

-----------------------------------------------------------------------------
\* D018: a merged current checkpoint is the same as that of a serial pass: it
\* holds every day from its start to its end once, though builds went on
\* between the reads, the same checkpoint was named twice, or a merge was
\* merged.
MergeIsExact ==
    archive = "current" =>
        \A p \in Paths : meta[p] # Absent =>
            sums[p] = Once(meta[p].start, meta[p].through)

\* Comparing neighbours is enough: the sorted partitions are accepted exactly
\* when every unit between the first and the last belongs to one of them.
NeighboursDecide == pc = "check" => (Contiguous(parts) <=> Tiles(parts))

\* D019, as far as it goes: published files hold every unit from their first
\* to their last once and no other, an "intentionally partial" wind checkpoint
\* counting for what it has processed, if every checkpoint held what it said
\* when it was read.
MergedOnce ==
    output # Absent =>
        (output.skewed \/ output.sums = Once(output.start, output.end))

\* Whatever builds do meanwhile, no unit that published files claim is missing
\* in them.
NothingMissing ==
    output # Absent => \A u \in output.start..output.end : output.sums[u] >= 1
=============================================================================
