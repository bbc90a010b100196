--------------------------- MODULE PluginLifecycle ---------------------------
(***************************************************************************)
(* The life of the plugin's two singletons, the dialog and                 *)
(* g_pOverlayFactory, on the OpenCPN main thread: lazy creation by the     *)
(* first toolbar click or provider call, the load with its progress        *)
(* dialog, the download of missing legacy files, the second load, and      *)
(* removal.                                                                *)
(*                                                                         *)
(* The progress dialog is not application-modal and every dialog runs      *)
(* an event loop inside the factory's constructor: provider calls, repaints*)
(* and toolbar clicks arrive while it is at work (the comment in           *)
(* ClimatologyData knows them).  The dialog itself is disabled meanwhile.  *)
(* That OpenCPN does not remove the plugin from inside such a loop is      *)
(* assumed.                                                                *)
(***************************************************************************)
EXTENDS Sequences, FiniteSets, Naturals, Functions

CONSTANTS
    Order,     \* the steps of LoadInternal: a file to read, or an average
    AverageOf, \* an average (month 12) |-> the wind or current files in it
    Scalars,   \* the files of the scalar fields
    Theatres,  \* cyclone files
    ElNino,    \* elnino_years.txt
    Cyclones   \* m_cbCyclones

Averages == DOMAIN AverageOf
Vectors == UNION Range(AverageOf)
Files == Vectors \cup Scalars \cup Theatres \cup {ElNino}

\* Heap objects, NULL or empty until a load fills them.  The scalar fields are
\* arrays in the factory, and m_ElNinoYears stays until it is swapped.
Freed == Vectors \cup Averages \cup Theatres

\* The check boxes the readers enable and disable, each named for its data;
\* wind and current for their averages, the three ENSO boxes as one.
Boxes == Scalars \cup Averages \cup {Cyclones, ElNino}

ASSUME OrderAssumption ==
    /\ Order \in Seq(Files \cup Averages)
    /\ Files \cup Averages = Range(Order)
    /\ Theatres # {}
\* One file is of one kind, and a box stands for one kind of data.
ASSUME KindsAssumption ==
    /\ Averages \cap Files = {}
    /\ (Scalars \cup {ElNino}) \cap Freed = {}
    /\ ElNino \notin Scalars
    /\ Cyclones \notin Scalars \cup Averages \cup {ElNino}

VARIABLES
    active,     \* between Init and DeInit
    advertised, \* the last CLIMATOLOGY message carried function pointers
    dialog,     \* m_pClimatologyDialog # nullptr
    shown,      \* m_pClimatologyDialog->IsShown()
    factory,    \* g_pOverlayFactory # NULL
    completed,  \* m_bCompletedLoading
    boxes,      \* check boxes that are enabled
    disk,       \* data files that are there and intact
    versioned,  \* a manifest, provenance or wind-extras file is there
    load,       \* where the constructor is
    loads,      \* constructors on the stack
    second,     \* it is in its second Load()
    caller,     \* who asked for the factory
    step,       \* position in Order
    loaded,     \* steps whose fields hold what was read, or averaged
    cached,     \* BuildCycloneCache has filled the cache
    failed,     \* m_FailedFiles
    queue,      \* failed files still to download
    lost,       \* a download failed
    aborted     \* history: the user cut the last Load() short

session == <<active, advertised, dialog, shown, factory>>
data == <<loaded, cached, failed, boxes, aborted>>
download == <<disk, queue, lost>>
vars == <<session, completed, data, download, versioned, load, loads, second,
          caller, step>>

-----------------------------------------------------------------------------
(* Plugin start and removal                                                *)

InitPlugin ==
    /\ ~active
    /\ active' = TRUE
    /\ advertised' = TRUE
    /\ UNCHANGED <<dialog, shown, factory, completed, data, download, versioned,
                   load, loads, second, caller, step>>

\* DeInit: the pointers are withdrawn, then FreeData deletes both singletons.
DeInit ==
    /\ active
    /\ load = "none"
    /\ active' = FALSE
    /\ advertised' = FALSE
    /\ dialog' = FALSE /\ shown' = FALSE /\ factory' = FALSE
    /\ completed' = FALSE
    /\ loaded' = {} /\ cached' = FALSE /\ failed' = {} /\ boxes' = {}
    /\ aborted' = FALSE
    /\ UNCHANGED <<download, versioned, load, loads, second, caller, step>>

\* CLIMATOLOGY_REQUEST from another plugin: SendClimatology(true).
Request ==
    /\ active
    /\ advertised' = TRUE
    /\ UNCHANGED <<active, dialog, shown, factory, completed, data, download,
                   versioned, load, loads, second, caller, step>>

-----------------------------------------------------------------------------
(* CreateOverlayFactory and the factory's constructor                      *)

\* Load() frees what it owns (the scalar fields are arrays in the object and
\* keep what they hold) and starts over.
StartLoad ==
    /\ load' = "reading"
    /\ step' = 1
    /\ failed' = {}
    /\ cached' = FALSE
    /\ aborted' = FALSE

StartConstructor(c) ==
    /\ dialog' = TRUE
    /\ shown' = FALSE
    /\ caller' = c
    /\ loads' = loads + 1
    /\ second' = FALSE
    /\ StartLoad
    /\ loaded' = {}
    /\ completed' = FALSE
    /\ boxes' = {ElNino}
    /\ UNCHANGED <<active, advertised, factory, download, versioned>>

Create_IfNoFactory(c) ==
    /\ active
    /\ ~factory
    /\ StartConstructor(c)

\* The dialog is assigned before the factory is built: only the first caller
\* gets past it.
Create(c) ==
    /\ active
    /\ ~dialog
    /\ StartConstructor(c)

\* LoadInternal: Update() was not cancelled, and the next step is done.
Reading(f) ==
    /\ load = "reading"
    /\ step <= Len(Order)
    /\ f = Order[step]
    /\ step' = step + 1
    /\ UNCHANGED <<session, completed, cached, aborted, download, versioned, load,
                   loads, second, caller>>

\* A reader keeps what it read or reports the file.
Outcome(f, enabled) ==
    /\ loaded' = loaded \cup ({f} \cap disk)
    /\ failed' = failed \cup ({f} \ disk)
    /\ boxes' = enabled

\* The file could be opened; it may yet turn out to be damaged.
Opens(f) == IF f \in disk THEN {TRUE} ELSE BOOLEAN

\* ReadWindData and ReadCurrentData enable the box as soon as the file is
\* open, and delete what they have of a damaged one.
ReadVector(f) ==
    /\ Reading(f)
    /\ \E average \in Averages, opened \in Opens(f) :
        /\ f \in AverageOf[average]
        /\ Outcome(f, boxes \cup {b \in {average} : opened})

\* AverageWindData and AverageCurrentData make month 12 of the months there are.
Average(average) ==
    /\ Reading(average)
    /\ loaded' = IF AverageOf[average] \cap loaded = {} THEN loaded
                 ELSE loaded \cup {average}
    /\ UNCHANGED <<failed, boxes>>

\* The eight scalar readers take the whole file into a buffer before they
\* touch the field and its average ...
ReadScalar(f) ==
    /\ f \in disk
    /\ Reading(f)
    /\ Outcome(f, boxes \cup {f})

\* ... and report one that is missing or short: the field keeps what it holds.
LoseScalar(f) ==
    /\ f \notin disk
    /\ Reading(f)
    /\ Outcome(f, boxes)

ReadTheatre_AnyTheatre(f) ==
    /\ Reading(f)
    /\ Outcome(f, boxes \cup {Cyclones})

\* The box once the last of them has been read, if none failed.
ReadTheatre(f) ==
    /\ Reading(f)
    /\ Outcome(f, boxes \cup {b \in {Cyclones} : Theatres \subseteq loaded'})

\* Parsed aside and swapped in whole; the boxes that go with it are disabled
\* on failure, and nothing enables them again.
ReadElNinoYears ==
    /\ Reading(ElNino)
    /\ Outcome(ElNino, boxes \ ({ElNino} \ disk))

\* The last step.  A theatre whose file failed half-way still has tracks.
BuildCache ==
    /\ load = "reading"
    /\ step > Len(Order)
    /\ \E full \in BOOLEAN :
        /\ Theatres \subseteq loaded => full
        /\ cached' = full
    /\ load' = "check"
    /\ UNCHANGED <<session, completed, loaded, failed, boxes, aborted, download,
                   versioned, loads, second, caller, step>>

\* Update() returned false: the user cancelled.
Cancel ==
    /\ load = "reading"
    /\ aborted' = TRUE
    /\ load' = "check"
    /\ UNCHANGED <<session, completed, loaded, cached, failed, boxes, download,
                   versioned, loads, second, caller, step>>

Check_AskAgain ==
    /\ load = "check"
    /\ load' = IF failed = {} THEN "return" ELSE "ask"
    /\ UNCHANGED <<session, completed, data, download, versioned, loads, second,
                   caller, step>>

\* Nothing failed, or what failed again after the downloads is only reported.
Check ==
    /\ load = "check"
    /\ load' = IF failed = {} \/ second THEN "return" ELSE "ask"
    /\ UNCHANGED <<session, completed, data, download, versioned, loads, second,
                   caller, step>>

\* "This is a versioned dataset": OK is the only button.  Else yes or no.
Decline ==
    /\ load = "ask"
    /\ load' = "return"
    /\ UNCHANGED <<session, completed, data, download, versioned, loads, second,
                   caller, step>>

Accept_Always ==
    /\ load = "ask"
    /\ load' = "download"
    /\ queue' = failed
    /\ lost' = FALSE
    /\ UNCHANGED <<session, completed, data, disk, versioned, loads, second,
                   caller, step>>

Accept ==
    /\ load = "ask"
    /\ ~versioned
    /\ load' = "download"
    /\ queue' = failed
    /\ lost' = FALSE
    /\ UNCHANGED <<session, completed, data, disk, versioned, loads, second,
                   caller, step>>

\* OCPN_downloadFile, once per file.  What arrives need not be readable.
Download(f) ==
    /\ load = "download"
    /\ f \in queue
    /\ \E arrived \in BOOLEAN, intact \in BOOLEAN :
        /\ disk' = IF arrived /\ intact THEN disk \cup {f} ELSE disk
        /\ lost' = (lost \/ ~arrived)
    /\ queue' = queue \ {f}
    /\ UNCHANGED <<session, completed, data, versioned, load, loads, second,
                   caller, step>>

\* OCPN_DL_ABORTED: the constructor returns at once.
AbortDownload ==
    /\ load = "download"
    /\ queue # {}
    /\ load' = "return"
    /\ queue' = {}
    /\ UNCHANGED <<session, completed, data, disk, lost, versioned, loads, second,
                   caller, step>>

\* One file was not downloaded: "Climatology data incomplete".
Incomplete ==
    /\ load = "download"
    /\ queue = {}
    /\ lost
    /\ load' = "return"
    /\ UNCHANGED <<session, completed, data, download, versioned, loads, second,
                   caller, step>>

LoadAgain ==
    /\ load = "download"
    /\ queue = {}
    /\ ~lost
    /\ second' = TRUE
    /\ StartLoad
    /\ loaded' = loaded \ Freed
    /\ UNCHANGED <<session, completed, boxes, download, versioned, loads,
                   caller>>

-----------------------------------------------------------------------------
(* Answers                                                                 *)

\* What a factory with these fields answers for f: a month of a variable for
\* the data providers, its all-year average too for the plugin's own readout
\* and overlays.  getValueMonth is NAN before completion; a wind or current
\* month that was not read is NULL; a scalar field is an array, read or not.
\* The wind atlas and the cyclone query look at their data only.
Has(c, f) ==
    CASE c \in {"v1", "data", "readout"} -> completed /\ (f \in Freed => f \in loaded)
      [] c = "atlas"                     -> f \in Vectors /\ f \in loaded
      [] c = "crossings"                 -> cached

Asks(c) == Vectors \cup Scalars \cup (IF c = "readout" THEN Averages ELSE {})

Status(c, f) ==
    CASE c = "v1" /\ ~(factory /\ completed) -> "not_ready"
      [] factory /\ Has(c, f)                -> "value"
      [] OTHER                               -> "unknown"

\* OnToolbarToolCallback; during the load it can come only while the progress
\* dialog is up, for the other dialogs are modal.
Toolbar ==
    /\ active
    /\ dialog
    /\ load \in {"none", "reading"}
    /\ shown' = ~shown
    /\ UNCHANGED <<active, advertised, dialog, factory, completed, data, download,
                   versioned, load, loads, second, caller, step>>

\* OnClimatologyDialogClose.
Close ==
    /\ shown
    /\ load = "none"
    /\ shown' = FALSE
    /\ UNCHANGED <<active, advertised, dialog, factory, completed, data, download,
                   versioned, load, loads, second, caller, step>>

Return_IgnoreFailures ==
    /\ load = "return"
    /\ completed' = TRUE
    /\ factory' = TRUE
    /\ advertised' = (advertised \/ completed')
    /\ shown' = (caller = "toolbar")
    /\ load' = "none"
    /\ loads' = loads - 1
    /\ second' = FALSE /\ step' = 1 /\ lost' = FALSE /\ caller' = "toolbar"
    /\ UNCHANGED <<active, dialog, data, disk, queue, versioned>>

\* The constructor sets m_bCompletedLoading and returns, g_pOverlayFactory is
\* assigned, the dialog hidden; a toolbar click then toggles it.  (A provider
\* call goes on to Answer.)
Return ==
    /\ load = "return"
    /\ completed' = (failed = {})
    /\ factory' = TRUE
    /\ advertised' = (advertised \/ completed')
    /\ shown' = (caller = "toolbar")
    /\ load' = "none"
    /\ loads' = loads - 1
    /\ second' = FALSE /\ step' = 1 /\ lost' = FALSE /\ caller' = "toolbar"
    /\ UNCHANGED <<active, dialog, data, disk, queue, versioned>>

-----------------------------------------------------------------------------
Init ==
    /\ active = FALSE /\ advertised = FALSE
    /\ dialog = FALSE /\ shown = FALSE /\ factory = FALSE
    /\ completed = FALSE /\ boxes = {}
    /\ disk \in SUBSET Files
    /\ versioned \in BOOLEAN
    /\ load = "none" /\ loads = 0 /\ second = FALSE
    /\ caller = "toolbar"
    /\ step = 1
    /\ loaded = {} /\ cached = FALSE /\ failed = {} /\ aborted = FALSE
    /\ queue = {} /\ lost = FALSE

Creators == {"v1", "data", "toolbar"}
Consumers == {"v1", "data", "readout", "atlas", "crossings"}

ReadStep ==
    \/ \E f \in Vectors : ReadVector(f)
    \/ \E a \in Averages : Average(a)
    \/ \E f \in Scalars : ReadScalar(f) \/ LoseScalar(f)
    \/ \E f \in Theatres : ReadTheatre(f)
    \/ ReadElNinoYears

LoadStep ==
    \/ ReadStep \/ BuildCache \/ Cancel \/ Check \/ Decline \/ Accept
    \/ (\E f \in Files : Download(f))
    \/ AbortDownload \/ Incomplete \/ LoadAgain \/ Return

Next ==
    \/ InitPlugin \/ DeInit \/ Request
    \/ \E c \in Creators : Create(c) /\ (c # "toolbar" => advertised)
    \/ LoadStep
    \/ Toolbar \/ Close

Spec == Init /\ [][Next]_vars

\* The load runs on the main thread; the user answers its dialogs.
FairSpec == Spec /\ WF_vars(LoadStep)

-----------------------------------------------------------------------------
\* Type correctness.
TypeOK ==
    /\ {active, advertised, dialog, shown, factory, completed, versioned,
        second, cached, lost, aborted} \subseteq BOOLEAN
    /\ {disk, failed, queue} \subseteq SUBSET Files
    /\ loaded \subseteq Range(Order) /\ boxes \subseteq Boxes
    /\ load \in {"none", "reading", "check", "ask", "download", "return"}
    /\ loads \in {0, 1}
    /\ caller \in Creators
    /\ step \in 1..(Len(Order) + 1)

\* However calls nest, one constructor at a time runs, and while it runs
\* no call gets a value out of the fields it is filling.
NoHalfBuiltAnswer ==
    /\ loads <= 1
    /\ load # "none" => \A c \in Consumers : \A f \in Asks(c) : Status(c, f) # "value"

\* A value was read from its file, an average over all its months, and not left
\* over in an array nobody filled, unless the user cancelled the load; a
\* cyclone answer then rests on all six basins.
ValuesAreRead ==
    ~aborted =>
        /\ \A c \in Consumers \ {"crossings"} : \A f \in Asks(c) :
              Status(c, f) = "value" =>
                  f \in loaded /\ (f \in Averages => AverageOf[f] \subseteq loaded)
        /\ completed => Theatres \subseteq loaded /\ cached

\* "This is a versioned dataset ... individual legacy files will not be mixed
\* into it", whatever fails and whatever the user answers.
VersionedUntouched == [][versioned => disk' = disk]_vars

\* A box the user can tick has its data, after a second load too: the field
\* its file, the cyclones all six basins, the ENSO boxes the years.  (The wind
\* and current boxes are enabled by a file that opens, readable or not.)
BoxesHaveData ==
    (load = "none" /\ ~aborted) =>
        /\ boxes \cap (Scalars \cup {ElNino}) \subseteq loaded
        /\ Cyclones \in boxes => Theatres \subseteq loaded /\ cached

\* A load ends, whatever fails and whatever the user answers, and a toolbar
\* click that started it ends with the dialog on the screen.
ToolbarShows == (load # "none" /\ caller = "toolbar") ~> (load = "none" /\ shown)

\* m_bCompletedLoading: "finished loading climatology data without abort".
CompletedWithoutAbort == completed => ~aborted
=============================================================================
