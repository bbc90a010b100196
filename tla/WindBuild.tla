------------------------------ MODULE WindBuild ------------------------------
(***************************************************************************)
(* The resumable ERA5 wind build of the data pipeline: processes that run  *)
(* main() of build_wind.py on one checkpoint.  A checkpoint is up to three *)
(* files: the wind sums, a JSON progress file and, with --with-atmosphere, *)
(* the atmosphere sums.  Each is written in place (np.savez_compressed and *)
(* write_text truncate the file, then fill it), one after the other, once  *)
(* per year.  A process may die between any two steps.                     *)
(***************************************************************************)
EXTENDS Integers

CONSTANTS
    Builders,     \* processes
    Years,        \* an interval of years
    Requests,     \* command lines: [start, end, atmosphere]
    LastAtmosphereYear,  \* 2022: the end of the atmosphere source
    Absent, Torn, \* a file that is not there, or was cut off while written
    NoOwner, NoRequest,
    MaxDeaths     \* bound: processes that die

ASSUME YearsAssumption == Years \subseteq Nat /\ \A a, b \in Years : a..b \subseteq Years
ASSUME RequestsAssumption ==
    Requests \subseteq {r \in [start : Years, end : Years, atmosphere : BOOLEAN] :
                            r.start <= r.end}
ASSUME WindNullsAssumption ==
    /\ NoOwner \notin Builders
    /\ NoRequest \notin Requests
    /\ Absent # Torn
    /\ {Absent, Torn} \cap [Years -> Nat] = {}
    /\ {Absent, Torn} \cap [start : Years, end : Years, completed : Years] = {}
    /\ MaxDeaths \in Nat

VARIABLES
    owner,   \* holder of the operating-system lock
    npz,     \* wind sums on disk: how often each year was added
    json,    \* progress on disk: [start, end, completed]
    atm,     \* atmosphere sums on disk
    output,  \* the published atlases: sums and the request they answer
    pc, args, sums, asums, year,  \* per process
    lost,    \* history: how often a year's sums were saved by a process that
             \* died before it touched the progress file
    deaths

files == <<npz, json, atm>>
local == <<args, sums, asums, year>>
vars == <<owner, files, output, pc, local, lost, deaths>>

Zero == [y \in Years |-> 0]
Whole(f) == f \notin {Absent, Torn}
NoOutput == [wind |-> Zero, request |-> NoRequest]

Goto(b, place) == pc' = [pc EXCEPT ![b] = place]

Exit(b) ==
    /\ Goto(b, "idle")
    /\ owner' = IF owner = b THEN NoOwner ELSE owner
    /\ args' = [args EXCEPT ![b] = NoRequest]
    /\ sums' = [sums EXCEPT ![b] = Zero]
    /\ asums' = [asums EXCEPT ![b] = Zero]
    /\ year' = [year EXCEPT ![b] = 0]

-----------------------------------------------------------------------------
(* Starting and loading                                                    *)

Begin_NoLock(b, r) ==
    /\ pc[b] = "idle"
    /\ owner' = b
    /\ args' = [args EXCEPT ![b] = r]
    /\ Goto(b, "load")
    /\ UNCHANGED <<files, output, sums, asums, year, lost, deaths>>

\* checkpoint_lock: a process that finds the lock taken fails at once.
Begin(b, r) ==
    /\ pc[b] = "idle"
    /\ owner = NoOwner
    /\ owner' = b
    /\ args' = [args EXCEPT ![b] = r]
    /\ Goto(b, "load")
    /\ UNCHANGED <<files, output, sums, asums, year, lost, deaths>>

Fresh == npz = Absent /\ json = Absent

\* The progress file describes a checkpoint the request may continue.
Continues_AnyEnd(r) == json.start = r.start

Continues(r) ==
    /\ json.start = r.start
    /\ json.end <= r.end
    /\ json.completed = json.end \/ json.end = r.end

FirstYear(r) == IF Fresh THEN r.start ELSE json.completed + 1

WindLoadable(r) == Fresh \/ (Whole(npz) /\ Whole(json) /\ Continues(r))

AtmosphereLoadable(r) ==
    r.atmosphere =>
        /\ r.end <= LastAtmosphereYear
        /\ FirstYear(r) > r.start => atm # Absent
        /\ atm # Torn

\* An atmosphere file is loaded whenever it exists.
Load(b) ==
    LET r == args[b] IN
    /\ pc[b] = "load"
    /\ WindLoadable(r) /\ AtmosphereLoadable(r)
    /\ sums' = [sums EXCEPT ![b] = IF Fresh THEN Zero ELSE npz]
    /\ asums' = [asums EXCEPT ![b] = IF r.atmosphere /\ Whole(atm) THEN atm ELSE Zero]
    /\ year' = [year EXCEPT ![b] = FirstYear(r)]
    /\ Goto(b, "loop")
    /\ UNCHANGED <<owner, files, output, args, lost, deaths>>

\* One file without the other, an unreadable file, another period, or an
\* atmosphere the source or the disk cannot give: an error.
Refuse(b) ==
    /\ pc[b] = "load"
    /\ ~(WindLoadable(args[b]) /\ AtmosphereLoadable(args[b]))
    /\ Exit(b)
    /\ UNCHANGED <<files, output, lost, deaths>>

-----------------------------------------------------------------------------
(* One year                                                                *)

\* accumulate_wind over the year: nothing reaches the disk.
Accumulate(b) ==
    /\ pc[b] = "loop"
    /\ year[b] <= args[b].end
    /\ sums' = [sums EXCEPT ![b][year[b]] = @ + 1]
    /\ asums' = IF args[b].atmosphere THEN [asums EXCEPT ![b][year[b]] = @ + 1] ELSE asums
    /\ Goto(b, "npz")
    /\ UNCHANGED <<owner, files, output, args, year, lost, deaths>>

Opened == [npz |-> "npz_open", json |-> "json_open", atm |-> "atm_open"]

\* Every save opens its file for writing, which truncates it ...
Truncate(b) ==
    /\ pc[b] \in DOMAIN Opened
    /\ npz' = IF pc[b] = "npz" THEN Torn ELSE npz
    /\ json' = IF pc[b] = "json" THEN Torn ELSE json
    /\ atm' = IF pc[b] = "atm" THEN Torn ELSE atm
    /\ Goto(b, Opened[pc[b]])
    /\ UNCHANGED <<owner, output, local, lost, deaths>>

SaveSums_YearBefore(b) ==
    /\ pc[b] = "npz_open"
    /\ npz' = [sums[b] EXCEPT ![year[b]] = @ - 1]
    /\ Goto(b, "json")
    /\ UNCHANGED <<owner, json, atm, output, local, lost, deaths>>

\* ... and fills it: the wind sums first, the progress next, and then the
\* atmosphere if it was asked for.
SaveSums(b) ==
    /\ pc[b] = "npz_open"
    /\ npz' = sums[b]
    /\ Goto(b, "json")
    /\ UNCHANGED <<owner, json, atm, output, local, lost, deaths>>

NextYear(b) == year' = [year EXCEPT ![b] = @ + 1]

SaveProgress_Requested(b) ==
    /\ pc[b] = "json_open"
    /\ json' = [start |-> args[b].start, end |-> args[b].end, completed |-> args[b].end]
    /\ IF args[b].atmosphere
       THEN Goto(b, "atm") /\ UNCHANGED year
       ELSE Goto(b, "loop") /\ NextYear(b)
    /\ UNCHANGED <<owner, npz, atm, output, args, sums, asums, lost, deaths>>

SaveProgress(b) ==
    /\ pc[b] = "json_open"
    /\ json' = [start |-> args[b].start, end |-> args[b].end, completed |-> year[b]]
    /\ IF args[b].atmosphere
       THEN Goto(b, "atm") /\ UNCHANGED year
       ELSE Goto(b, "loop") /\ NextYear(b)
    /\ UNCHANGED <<owner, npz, atm, output, args, sums, asums, lost, deaths>>

SaveAtmosphere(b) ==
    /\ pc[b] = "atm_open"
    /\ atm' = asums[b]
    /\ Goto(b, "loop")
    /\ NextYear(b)
    /\ UNCHANGED <<owner, npz, json, output, args, sums, asums, lost, deaths>>

\* The atlases are written from the sums, still under the lock.
Publish(b) ==
    /\ pc[b] = "loop"
    /\ year[b] > args[b].end
    /\ output' = [wind |-> sums[b], request |-> args[b]]
    /\ Exit(b)
    /\ UNCHANGED <<files, lost, deaths>>

Die(b) ==
    /\ pc[b] # "idle"
    /\ deaths < MaxDeaths
    /\ deaths' = deaths + 1
    /\ lost' = IF pc[b] = "json" THEN [lost EXCEPT ![year[b]] = @ + 1] ELSE lost
    /\ Exit(b)
    /\ UNCHANGED <<files, output>>

-----------------------------------------------------------------------------
Init ==
    /\ owner = NoOwner
    /\ npz = Absent /\ json = Absent /\ atm = Absent
    /\ output = NoOutput
    /\ pc = [b \in Builders |-> "idle"]
    /\ args = [b \in Builders |-> NoRequest]
    /\ sums = [b \in Builders |-> Zero]
    /\ asums = [b \in Builders |-> Zero]
    /\ year = [b \in Builders |-> 0]
    /\ lost = Zero
    /\ deaths = 0

Step(b) ==
    \/ \E r \in Requests : Begin(b, r)
    \/ Load(b)
    \/ Refuse(b)
    \/ Accumulate(b)
    \/ Truncate(b)
    \/ SaveSums(b)
    \/ SaveProgress(b)
    \/ SaveAtmosphere(b)
    \/ Publish(b)

Next == \E b \in Builders : Step(b) \/ Die(b)

Spec == Init /\ [][Next]_vars
-----------------------------------------------------------------------------
Places == {"idle", "load", "loop", "npz", "npz_open", "json", "json_open", "atm", "atm_open"}
Counts == [Years -> Nat]
Progress == [start : Years, end : Years, completed : Years]

\* Type correctness.
TypeOK ==
    /\ owner \in Builders \cup {NoOwner}
    /\ Whole(npz) => npz \in Counts
    /\ Whole(json) => json \in Progress
    /\ Whole(atm) => atm \in Counts
    /\ output \in [wind : Counts, request : Requests \cup {NoRequest}]
    /\ pc \in [Builders -> Places]
    /\ args \in [Builders -> Requests \cup {NoRequest}]
    /\ sums \in [Builders -> Counts]
    /\ asums \in [Builders -> Counts]
    /\ year \in [Builders -> Int]
    /\ lost \in Counts
    /\ deaths \in 0..MaxDeaths

\* A process has saved its year's sums and is still to record the progress.
Ahead(y) == IF \E b \in Builders : pc[b] = "json" /\ year[b] = y THEN 1 ELSE 0

\* Every year in the sums is accounted for: once for each year the progress
\* file says is complete, and once more for every time a process saved it
\* and died before recording it.  No other path adds a year twice, leaves
\* one out, or adds one that was not asked for.
SumsAccounted ==
    (Whole(npz) /\ Whole(json)) =>
        \A y \in Years :
            npz[y] = (IF y \in json.start..json.completed THEN 1 ELSE 0)
                     + lost[y] + Ahead(y)

\* What is published holds every year of the request; a year is there twice,
\* or is there although it was not asked for, only after such a death.
PublishedHoldsEveryYear ==
    output # NoOutput =>
        \A y \in Years :
            LET asked == IF y \in output.request.start..output.request.end THEN 1 ELSE 0 IN
            output.wind[y] \in asked..(asked + lost[y])

\* The atmosphere never holds a year more often than the wind sums.
AtmosphereNeverAhead ==
    (Whole(npz) /\ Whole(atm)) => \A y \in Years : atm[y] <= npz[y]

\* A checkpoint's first year is fixed and the end it was asked for never
\* shrinks: whoever runs after whom, the atlases of a later publication cover
\* the years of the one before.
PublicationsOnlyGrow ==
    [][output # NoOutput =>
        /\ output'.request.start = output.request.start
        /\ output'.request.end >= output.request.end]_output

\* locking.py: "a killed process cannot leave a stale lock which prevents a
\* safe checkpoint resume": whatever died before, what is published holds the
\* years it was asked for, once each.
ResumeIsSafe ==
    output # NoOutput =>
        \A y \in Years :
            output.wind[y] = IF y \in output.request.start..output.request.end THEN 1 ELSE 0
=============================================================================
