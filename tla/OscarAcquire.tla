---------------------------- MODULE OscarAcquire ----------------------------
(***************************************************************************)
(* The resumable OSCAR acquisition of the data pipeline: processes that    *)
(* run main() of oscar.py with --earthdata on one checkpoint.  Each takes  *)
(* the checkpoint's lock, loads sums and metadata, folds one month of      *)
(* granules after the other into the sums, replaces the checkpoint         *)
(* atomically after each, writes a progress sidecar, and publishes the     *)
(* legacy files when the period is complete.                               *)
(*                                                                         *)
(* A process may die between any two steps: an exception (a failed login   *)
(* or download, a file on another grid, a full disk) unwinds to main and a *)
(* kill ends it; neither leaves anything but the files below, for a        *)
(* temporary file has a name nobody reads.  A run can be started again     *)
(* any number of times, with the same or another period.                   *)
(***************************************************************************)
EXTENDS OscarCalendar

CONSTANTS
    Builders,     \* processes
    Unversioned,  \* the metadata of a checkpoint without "metadata_json"
    NoOwner

VARIABLES
    owner,      \* holder of the operating-system lock
    diskTotal,  \* samples per day in the checkpoint (its "count" array)
    diskPeriod, \* NoPeriod: no checkpoint; else its (start, end)
    diskThrough,\* its "completed_through"
    sidecar,    \* the progress file next to it: its "completed_through"
    output,     \* the sums the published files were made from
    pc, args,   \* per process: place and the period it was asked for
    mem,        \* the accumulator
    completed,  \* the local variable "completed"
    month,      \* the position of _month_ranges
    todo        \* downloaded granules not yet ingested

disk == <<diskTotal, diskPeriod, diskThrough>>
local == <<args, mem, completed, month, todo>>
vars == <<owner, disk, sidecar, output, pc, local>>

\* The promise: what the checkpoint's readers see.
Pass == INSTANCE SerialPass WITH
    total <- diskTotal, through <- diskThrough,
    period <- IF diskPeriod = Unversioned THEN NoPeriod ELSE diskPeriod

ASSUME NullsAssumption ==
    /\ Unversioned \notin Periods \cup {NoPeriod}
    /\ NoOwner \notin Builders

Zero == [d \in Days |-> 0]
NoOutput == [d \in Days |-> -1]

-----------------------------------------------------------------------------
(* Operations                                                              *)

\* The process ends, and its variables with it.
Exit(b) ==
    /\ pc' = [pc EXCEPT ![b] = "idle"]
    /\ args' = [args EXCEPT ![b] = NoPeriod]
    /\ mem' = [mem EXCEPT ![b] = Zero]
    /\ completed' = [completed EXCEPT ![b] = BeforeAll]
    /\ month' = [month EXCEPT ![b] = 1]
    /\ todo' = [todo EXCEPT ![b] = {}]

Begin_NoLock(b, p) ==
    /\ pc[b] = "idle"
    /\ owner' = b
    /\ pc' = [pc EXCEPT ![b] = "login"]
    /\ args' = [args EXCEPT ![b] = p]
    /\ UNCHANGED <<disk, sidecar, output, mem, completed, month, todo>>

\* checkpoint_lock: a process that finds the lock taken fails at once, which
\* changes nothing.
Begin(b, p) ==
    /\ pc[b] = "idle"
    /\ owner = NoOwner
    /\ owner' = b
    /\ pc' = [pc EXCEPT ![b] = "login"]
    /\ args' = [args EXCEPT ![b] = p]
    /\ UNCHANGED <<disk, sidecar, output, mem, completed, month, todo>>

\* CurrentAccumulator.load_checkpoint: the sums.
LoadTotals(b) ==
    /\ pc[b] = "login"
    /\ mem' = [mem EXCEPT ![b] = IF diskPeriod = NoPeriod THEN Zero ELSE diskTotal]
    /\ pc' = [pc EXCEPT ![b] = "metadata"]
    /\ UNCHANGED <<owner, disk, sidecar, output, args, completed, month, todo>>

LoadProgress_AnyPeriod(b) ==
    /\ pc[b] = "metadata"
    /\ diskPeriod # Unversioned
    /\ completed' = [completed EXCEPT ![b] =
                        IF diskPeriod = NoPeriod THEN BeforeAll ELSE diskThrough]
    /\ \E m \in 1..Months :
        /\ FirstMonth(args[b], m)
        /\ month' = [month EXCEPT ![b] = m]
    /\ pc' = [pc EXCEPT ![b] = "loop"]
    /\ UNCHANGED <<owner, disk, sidecar, output, args, mem, todo>>

\* checkpoint_metadata and _load_progress: a second read of the file.
LoadProgress(b) ==
    /\ pc[b] = "metadata"
    /\ diskPeriod \in {NoPeriod, args[b]}
    /\ completed' = [completed EXCEPT ![b] =
                        IF diskPeriod = NoPeriod THEN BeforeAll ELSE diskThrough]
    /\ \E m \in 1..Months :
        /\ FirstMonth(args[b], m)
        /\ month' = [month EXCEPT ![b] = m]
    /\ pc' = [pc EXCEPT ![b] = "loop"]
    /\ UNCHANGED <<owner, disk, sidecar, output, args, mem, todo>>

Reject_AnyCheckpoint(b) ==
    /\ pc[b] = "metadata"
    /\ diskPeriod # NoPeriod
    /\ owner' = NoOwner
    /\ Exit(b)
    /\ UNCHANGED <<disk, sidecar, output>>

\* An unversioned checkpoint, or one of another period, is an error.
Reject(b) ==
    /\ pc[b] = "metadata"
    /\ diskPeriod \notin {NoPeriod, args[b]}
    /\ owner' = NoOwner
    /\ Exit(b)
    /\ UNCHANGED <<disk, sidecar, output>>

\* _month_ranges has not passed the end of the period.
HasMonth(b) == month[b] <= Months /\ MonthFirst[month[b]] <= End[args[b]]
ThisKey(b) == Key(args[b], month[b])

SkipMonth(b) ==
    /\ pc[b] = "loop"
    /\ HasMonth(b)
    /\ ThisKey(b) <= completed[b]
    /\ month' = [month EXCEPT ![b] = @ + 1]
    /\ UNCHANGED <<owner, disk, sidecar, output, pc, args, mem, completed, todo>>

\* search_data finds the granules that overlap the month.
Found(b) == {g \in Granules : g \cap Range(args[b], month[b]) # {}}

\* They are downloaded to a temporary directory.
Search(b) ==
    /\ pc[b] = "loop"
    /\ HasMonth(b)
    /\ ThisKey(b) > completed[b]
    /\ Found(b) # {}
    /\ todo' = [todo EXCEPT ![b] = Found(b)]
    /\ pc' = [pc EXCEPT ![b] = "ingest"]
    /\ UNCHANGED <<owner, disk, sidecar, output, args, mem, completed, month>>

\* A month without granules is an error.
NoGranules(b) ==
    /\ pc[b] = "loop"
    /\ HasMonth(b)
    /\ ThisKey(b) > completed[b]
    /\ Found(b) = {}
    /\ owner' = NoOwner
    /\ Exit(b)
    /\ UNCHANGED <<disk, sidecar, output>>

Ingest_WholeFile(b, g) ==
    /\ pc[b] = "ingest"
    /\ g \in todo[b]
    /\ mem' = [mem EXCEPT ![b] =
            [d \in Days |-> @[d] + (IF d \in g THEN 1 ELSE 0)]]
    /\ todo' = [todo EXCEPT ![b] = @ \ {g}]
    /\ UNCHANGED <<owner, disk, sidecar, output, pc, args, completed, month>>

\* ingest_oscar_files adds the days of one file that lie in the month.
Ingest(b, g) ==
    /\ pc[b] = "ingest"
    /\ g \in todo[b]
    /\ mem' = [mem EXCEPT ![b] =
            [d \in Days |->
                @[d] + (IF d \in g \cap Range(args[b], month[b]) THEN 1 ELSE 0)]]
    /\ todo' = [todo EXCEPT ![b] = @ \ {g}]
    /\ UNCHANGED <<owner, disk, sidecar, output, pc, args, completed, month>>

Save_SidecarFirst(b) ==
    /\ pc[b] = "ingest"
    /\ todo[b] = {}
    /\ sidecar' = ThisKey(b)
    /\ pc' = [pc EXCEPT ![b] = "sidecar"]
    /\ UNCHANGED <<owner, disk, output, local>>

\* save_checkpoint: sums and metadata reach the disk in one os.replace.
Save(b) ==
    /\ pc[b] = "ingest"
    /\ todo[b] = {}
    /\ diskTotal' = mem[b]
    /\ diskPeriod' = args[b]
    /\ diskThrough' = ThisKey(b)
    /\ pc' = [pc EXCEPT ![b] = "sidecar"]
    /\ UNCHANGED <<owner, sidecar, output, local>>

\* _write_progress, and the end of the loop body.
WriteProgress(b) ==
    /\ pc[b] = "sidecar"
    /\ sidecar' = ThisKey(b)
    /\ completed' = [completed EXCEPT ![b] = ThisKey(b)]
    /\ month' = [month EXCEPT ![b] = @ + 1]
    /\ pc' = [pc EXCEPT ![b] = "loop"]
    /\ UNCHANGED <<owner, disk, output, args, mem, todo>>

Finish_EarlyEnd(b) ==
    /\ pc[b] = "loop"
    /\ HasMonth(b) => MonthFirst[month[b] + 1] > End[args[b]]
    /\ owner' = NoOwner
    /\ pc' = [pc EXCEPT ![b] = "publish"]
    /\ UNCHANGED <<disk, sidecar, output, local>>

\* acquire_oscar returns and the with statement releases the lock.  (A
\* period has a first month, so the accumulator is never None here.)
Finish(b) ==
    /\ pc[b] = "loop"
    /\ ~HasMonth(b)
    /\ owner' = NoOwner
    /\ pc' = [pc EXCEPT ![b] = "publish"]
    /\ UNCHANGED <<disk, sidecar, output, local>>

\* main writes current01.gz to current12.gz from the sums, without the lock.
Publish(b) ==
    /\ pc[b] = "publish"
    /\ output' = mem[b]
    /\ Exit(b)
    /\ UNCHANGED <<owner, disk, sidecar>>

\* The operating system releases the lock of a process that ends.
Die(b) ==
    /\ pc[b] # "idle"
    /\ owner' = IF owner = b THEN NoOwner ELSE owner
    /\ Exit(b)
    /\ UNCHANGED <<disk, sidecar, output>>

-----------------------------------------------------------------------------
Init ==
    /\ owner = NoOwner
    /\ diskTotal = Zero
    /\ diskPeriod \in {NoPeriod, Unversioned}
    /\ diskThrough = BeforeAll
    /\ sidecar = BeforeAll
    /\ output = NoOutput
    /\ pc = [b \in Builders |-> "idle"]
    /\ args = [b \in Builders |-> NoPeriod]
    /\ mem = [b \in Builders |-> Zero]
    /\ completed = [b \in Builders |-> BeforeAll]
    /\ month = [b \in Builders |-> 1]
    /\ todo = [b \in Builders |-> {}]

Step(b) ==
    \/ \E p \in Periods : Begin(b, p)
    \/ LoadTotals(b)
    \/ LoadProgress(b)
    \/ Reject(b)
    \/ SkipMonth(b)
    \/ Search(b)
    \/ NoGranules(b)
    \/ \E g \in Granules : Ingest(b, g)
    \/ Save(b)
    \/ WriteProgress(b)
    \/ Finish(b)
    \/ Publish(b)

Next == \E b \in Builders : Step(b) \/ Die(b)

Spec == Init /\ [][Next]_vars

\* The operator keeps asking for every period, a process that runs makes
\* progress, and at some time failures cease.
Fairness ==
    /\ \A b \in Builders :
        /\ WF_vars(Step(b))
        /\ \A p \in Periods : SF_vars(Begin(b, p))
    /\ <>[][\E b \in Builders : Step(b)]_vars

FairSpec == Spec /\ Fairness

-----------------------------------------------------------------------------
Places == {"idle", "login", "metadata", "loop", "ingest", "sidecar", "publish"}
Working(b) == pc[b] \notin {"idle", "publish"}

\* Type correctness.
TypeOK ==
    /\ owner \in Builders \cup {NoOwner}
    /\ diskTotal \in [Days -> Nat]
    /\ diskPeriod \in Periods \cup {NoPeriod, Unversioned}
    /\ diskThrough \in Days \cup {BeforeAll}
    /\ sidecar \in Days \cup {BeforeAll}
    /\ output \in [Days -> Nat \cup {-1}]
    /\ pc \in [Builders -> Places]
    /\ args \in [Builders -> Periods \cup {NoPeriod}]
    /\ mem \in [Builders -> [Days -> Nat]]
    /\ completed \in [Builders -> Days \cup {BeforeAll}]
    /\ month \in [Builders -> 1..(Months + 1)]
    /\ todo \in [Builders -> SUBSET Granules]

\* checkpoint_lock: a process between taking the lock and leaving the with
\* statement is its only owner.
SoleWriter == \A b \in Builders : Working(b) => owner = b

\* D017: whatever died when, the sums in the checkpoint are those of the days
\* its own metadata says are complete: no day is missing and none is added
\* twice by a resumed run.
CheckpointExact ==
    diskTotal = IF diskPeriod \in Periods THEN SamplesTo(diskPeriod, diskThrough) ELSE Zero

\* D017: the sidecar is not the recovery authority.  It lags behind the
\* checkpoint (by any number of months, when crashes strike between the two
\* writes again and again) but never leads.
SidecarNeverLeads == sidecar <= diskThrough

\* A published field is made of every covered day of its period, once each.
PublishedComplete ==
    output # NoOutput => \E p \in Periods : output = SamplesTo(p, End[p])

\* A checkpoint moves forward only, and never changes its period.
NeverBackwards ==
    [][/\ diskThrough' >= diskThrough
       /\ diskPeriod # NoPeriod => diskPeriod' = diskPeriod]_disk

\* The checkpoint implements the serial pass.
SerialPassSpec == Pass!Spec

\* A checkpoint no run can finish: unversioned, or of a period with a month
\* for which the archive has nothing.
Unfinishable ==
    \/ diskPeriod = Unversioned
    \/ /\ diskPeriod \in Periods
       /\ \E m \in 1..Months :
            InPeriod(diskPeriod, m) /\ Range(diskPeriod, m) \cap Covered = {}

\* A build that is rerun publishes a complete period, at whatever steps the
\* runs before died, unless the checkpoint is one no run can finish.
PassCompletes == <>(output # NoOutput \/ Unfinishable)

-----------------------------------------------------------------------------
(* The inductive invariant behind CheckpointExact and SerialPassSpec.      *)

\* A checkpoint ends at the end of a month of its period.
CheckpointAtMonthEnd ==
    IF diskPeriod \in Periods
    THEN \E n \in 1..Months : InPeriod(diskPeriod, n) /\ diskThrough = Key(diskPeriod, n)
    ELSE diskThrough = BeforeAll

\* The loop is at the month that follows the checkpoint, or before it.
AtNextMonth(b) ==
    \/ diskPeriod = NoPeriod /\ FirstMonth(args[b], month[b])
    \/ /\ diskPeriod = args[b]
       /\ \E n \in 1..Months :
            /\ InPeriod(args[b], n)
            /\ diskThrough = Key(args[b], n)
            /\ month[b] <= n + 1
       /\ month[b] <= Months => Start[args[b]] < MonthFirst[month[b] + 1]

\* What of the month at hand is in the accumulator but not on the disk.
Ingested(b) == (UNION (Found(b) \ todo[b])) \cap Range(args[b], month[b])

PlaceInv(b) ==
    /\ pc[b] # "idle" => args[b] \in Periods
    /\ pc[b] \in {"metadata", "loop", "sidecar"} => mem[b] = diskTotal
    /\ pc[b] \in {"loop", "ingest"} => completed[b] = diskThrough /\ AtNextMonth(b)
    /\ pc[b] = "ingest" =>
        /\ HasMonth(b)
        /\ ThisKey(b) > completed[b]
        /\ todo[b] \subseteq Found(b)
        /\ mem[b] = [d \in Days |-> diskTotal[d] + (IF d \in Ingested(b) THEN 1 ELSE 0)]
    /\ pc[b] = "sidecar" =>
        /\ month[b] <= Months
        /\ InPeriod(args[b], month[b])
        /\ diskPeriod = args[b]
        /\ diskThrough = ThisKey(b)
    /\ pc[b] = "publish" => mem[b] = SamplesTo(args[b], End[args[b]])

IInv ==
    /\ TypeOK
    /\ SoleWriter
    /\ CheckpointExact
    /\ CheckpointAtMonthEnd
    /\ SidecarNeverLeads
    /\ PublishedComplete
    /\ \A b \in Builders : PlaceInv(b)
=============================================================================
