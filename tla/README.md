# A verification project for climatology_pi

TLA+ models of the OpenCPN climatology plugin (C++) and of the Python pipeline
that produces its data, with TLC runs on small instances and TLAPS proofs for
every instance. Every definition is translated from the code; `PROJECT.json`
maps each one to the lines it stands for. Line numbers below are those of the
same commit.

## 1. Inventory

The repository holds two programs that meet only in the data files.

**The plugin** runs inside OpenCPN. Its handlers, dialogs, timers and rendering
run on the main thread, one event at a time, except that a dialog that runs an
event loop of its own lets other handlers in. The only other threads are those
of plugins (weather routing) that call the function pointers the plugin
advertises.

**The pipeline** is a set of command-line programs that turn archives (OSCAR
currents, ERA5 winds, IBTrACS cyclones and others) into the legacy `.gz` files.
Builds that take days work on a *checkpoint* and can be stopped and resumed;
several may run next to each other, and partial checkpoints can be merged.

| Component | State it keeps | Operations | Interacts with |
|---|---|---|---|
| Cyclone cache and track query (`ClimatologyOverlayFactory.cpp`) | `m_cyclone_cache` (map from place and month to track segments), a semaphore of 4 permits, settings in the configuration dialog | `BuildCycloneCache`, `CycloneTrackCrossings`, `RenderCyclones` | routing threads query, the dialog triggers rebuilds, the chart draws |
| Plugin shell and factory lifecycle (`climatology_pi.cpp`, factory constructor) | `m_pClimatologyDialog`, `g_pOverlayFactory`, `m_bCompletedLoading`, `m_FailedFiles`, the fields read from files | `Init`, `DeInit`, toolbar, `CreateOverlayFactory`, `Load`, downloads, provider calls | messages with function pointers to other plugins, modal and non-modal dialogs |
| Display and configuration dialogs | check boxes, the data page, `ClimatologyOverlaySettings` | `OnUpdateDisplay`, `OnDataTypeChoice`, `OnUpdateOverlayConfig`, `OnEnabled`, timeline | the factory reads both when it draws |
| Value queries, interpolation, provider API V1 | none of their own | `getValueMonth`, `MonthInterpolation`, `ValidateQueryV1` | read the factory's fields |
| Isobars (`IsoBarMap.cpp`, `RenderIsoBars`) | a map per data type and month, its settings, "computing" and "needs recompute" | create, compute row by row, cancel, draw | the chart's drawing computes them; the progress dialog's updates let other handlers in, the chart's drawing among them |
| Rendering | textures | OpenGL and wxDC drawing | output only |
| OSCAR acquisition (`oscar.py`, `current.py`, `locking.py`) | one checkpoint file, a progress sidecar, a lock, the published files | lock, load, month loop, atomic save, sidecar, publish | the archive; other builders; the merger |
| ERA5 wind build (`build_wind.py`, `wind.py`, `atmosphere.py`) | a checkpoint of two or three files, a lock, the published atlases | lock, load, year loop, save, publish | the stores; other builders; the merger |
| ERA5 block reader (`era5.py`) | none | reads a year's blocks one after the other | the wind build consumes it |
| Download of a month (`_download_results`, `_download_file`) | a folder of granules and temporary files, futures | take a link, receive, rename, retry; wait in order, remove the folder | one step of the OSCAR acquisition |
| Data files (`legacy.py`, `build_cyclones.py`; the factory's readers) | wind atlases with extras, cyclone tracks, and others | encode, verify, copy, read | the two programs meet here |
| Checkpoint mergers (`merge_current.py`, `merge_wind.py`) | sums while they run; a merged checkpoint | read metadata, check tiling, load sums, save, publish | read checkpoints builders may be writing |
| One-shot sources, budget, provenance, comparison | none | array and file conversions | files |

`PROJECT.json` lists the parts left out (vendored libraries, historical
generators, build files) as well, each with its reason.

### What is hard here, and what makes each part correct

* **Interleaving of threads.** A query runs on a routing thread while the main
  thread rebuilds or draws the same `std::map`. Correct: permits are paired on
  every path, a rebuild excludes every query, an answer belongs to the settings
  in force when the query entered.
* **Reentrancy.** The factory's constructor shows dialogs that run event loops.
  Correct: one constructor at a time, no answer from half-filled fields, no
  download mixed into a versioned dataset, the load ends. The progress dialog of
  an isobar map lets the drawing that shows it start again. Correct: the inner
  drawing leaves the outer one's map alone, and the chart shows no map of other
  settings.
* **Crashes and resumption.** A build may die between any two writes and is
  started again. Correct: the sums are those of the days (years) the metadata
  claims, each once, and a rerun completes.
* **Two processes on one file.** The lock is held by the builders and not by
  the mergers. Correct: sums accounted for, a merge is the serial pass.
* **Failing downloads.** Workers race for one folder, fail and try again, and the
  first failure removes it. Correct: what is read is whole, and the folder goes
  last.
* **Formats without structure.** A wind file is a stream whose bytes are there
  or not depending on bytes before; a track's year is counted from its head.
  Correct: what is read is what was written, or nothing.
* **Long sequences of clicks.** Two dialogs write the same settings. Correct:
  the page shows what it names, one overlay map at a time.
* **Calendars.** Days, months and years wrap and are cut at the ends of
  periods. Correct: windows go round December, months tile their period.

The hazards of `PROJECT.json` give the line where each bites and the properties
that watch it; a hazard without a property says why.

## 2. Plan

The order puts what loses or corrupts data, or answers wrongly, first.

| Step | Modules | State |
|---|---|---|
| 1 | `CycloneCache`: threads, semaphore, map | checked; safety proved, the answers included |
| 2 | `OscarCalendar`, `SerialPass` (abstract), `OscarAcquire` (implements it) | checked; safety and refinement proved |
| 3 | `WindBuild` | checked; safety proved |
| 4 | `PluginLifecycle` | checked; safety proved |
| 5 | `IsoBars`: drawings within drawings | checked; safety proved |
| 6 | `OverlayControls` | checked; safety proved |
| 7 | `Partitions`, `CheckpointMerge` | checked; safety proved |
| 8 | `OscarDownload`: workers, retries, folder | checked; safety proved |
| 9 | `CycloneWindow` | checked; safety proved |
| 10 | `WindAtlas`: encoder, file, reader | checked; safety proved |
| 11 | `CycloneTracks`: archive, encoder, file, reader | checked; safety proved |
| 12 | The timeline (slider, day spinner, *Now*), the formats of currents and scalar fields | not done, see section 6 |

Abstract specifications: `SerialPass` is what the readers of an OSCAR checkpoint
are promised. `CheckpointMerge` takes builds of currents in that form (a
checkpoint that grows a day or more at a time and always holds exactly what it
says), which is what the refinement of `OscarAcquire` justifies. For winds it
cannot do so: the wind checkpoint has no such abstraction, since its two files
are written one after the other, so there it keeps the builder's steps.

## 3. The modules and the code

**`CycloneCache`.** `Probe` to `Post` are `CycloneTrackCrossings` on one routing
thread: the test for `dayrange = 0`, `Wait`, the early return on an empty map,
the loops over buckets, the return on a crossing, `Post`. `UpdateCyclones` to
`ReleasePermit` are `OnUpdateCyclones` and `BuildCycloneCache`: the test for
empty theatres, one `Wait` per permit, clear, fill, one `Post` per permit.
`Render` to `Rendered` are `RenderCyclones` with its 1200 ms cut-off. The map is
a function whose domain is the keys; `operator[]` inserts a missing key, so a
lookup is two steps, a read or a write, and an overlap with a write sets
`corrupt`, after which a lookup may find anything (undefined behaviour). `built`
and `seen` are history. A segment is an element of a set; whether it satisfies
the settings and crosses a leg is given by constants.

**`OscarCalendar`** has the periods and months (`_month_ranges`), and what a
pass up to a day contains. **`SerialPass`** folds one month after the other.
**`OscarAcquire`** is `main` with `--earthdata` and `acquire_oscar`: one action
per step between two effects on shared state, from `checkpoint_lock` over the
two reads of the checkpoint, the month loop, `search_data`, `ingest_oscar_files`
per file and the `os.replace` to the sidecar and `publish`. `Die` may strike
anywhere, with or without an exception. Sums are how often each day was added,
which is what a double or missing ingestion changes.

**`OscarDownload`** is the inside of one step of that, the download of a month:
`Take` to `Fail` are a worker in `_download_file`, one action per effect on the
folder (temporary file made, filled, renamed, unlinked), `NextResult` to
`Ingested` the main thread, which waits for the results in the order of the
links. The first error there cancels what is queued and lets the executor's
`with`, and then the folder's, end.

**`WindBuild`** is `main` and `build` of `build_wind.py` with `_load`, `_save`
and both `save_checkpoint`s. A file is written in place, so each write is
truncation and fill, and a death in between leaves it `Torn`. `lost` is history:
how often a year's sums were saved by a process that died before it touched the
progress file.

**`PluginLifecycle`** has `Init`, `DeInit`, the request message, the creation of
dialog and factory, and the constructor in steps: one action per reader
(`ReadVector` for wind and currents, `Average`, `ReadScalar` and `LoseScalar`,
`ReadTheatre`, `ReadElNinoYears`) in the order of `LoadInternal`, `Cancel` at each
`Update()` of the progress dialog, `BuildCache`, the question, the downloads, the
second load, `Return`. The readers differ in what they leave of a bad file, in
what `Free` drops of a good one and in when they enable a check box; `boxes` and
`loaded` keep that apart. `Status` and `Has` say what each of the four provider
functions and the plugin's own readout answer; as pure functions of the state
they are in the properties and no actions.

**`CycloneWindow`** is the date arithmetic of `CycloneTrackCrossings` and
`CircularDayDistance`, and the loop over month buckets.

**`OverlayControls`** has one action per handler. The page's controls, the
settings and the ticks are three copies of related data that the handlers keep
in step.

**`IsoBars`** has the calls of `RenderOverlay` as a stack, since the updates of
the progress dialog run other handlers. The top call goes through the settings
(`Skip`, `Plot`, `Leave`, `Create` are the branches of `RenderIsoBars`) and, in a
computation, through the rows (`ComputeRow`, `Update`, `Interrupt`, `Finish` are
`IsoBarMap::Recompute`). `Change` and `Tick` are the configuration dialog, `Turn`
the timeline, which the progress dialog disables. Objects have addresses that
are reused after `delete`, so a call that goes on with a deleted object, or with
another one at its address, is visible. `drawn` and `broken` are history. A call
to `RenderIsoBars` that is not on top can only be in an update of its dialog.

**`Partitions`** has the sort and the contiguity check of both mergers, with the
reference `Tiles`; parts whose intervals are the same are sorted either way, for
no merge accepts them. **`CheckpointMerge`** is the `main`s of both mergers, one
action per file read or written, next to builds that go on. They are one
algorithm over two kinds of checkpoint: `archive` says which, and where they
differ (what may be merged, what is saved, how builds write) an action or a
conjunct of its own says so.

**`CycloneTracks`** follows storms from the archive to the plugin: `ReadRow` to
`EndOfStorm` collect the rows of a storm, sort them and keep one per time
(`cyclone.py`), `WriteTheatre` writes a head year and points, `VerifyTheatre`
reads the file back, and `ReadYear` to `Corrupted` are `ReadCycloneData`, which
turns the fields into segments and refuses a day its month does not have in the
year it has counted to (`Readable`). Positions are tenths of degrees, and a short
file is any prefix of the fields. The converter tests a longitude against 15
degrees before it rounds to tenths and the model after: a value that rounds to
15.0 from above gets one or the other name of the same meridian. The properties
compare the segments with a reading of the archive that knows neither sorting
nor files: `Kept`, `Follows` and `Truth`.

**`WindAtlas`** follows a month's wind from the accumulator's counts to the
plugin: `Frequency` and `Percent` are `WindAccumulator.atlas`, `EncodeWind` and
`EncodeExtras` the two byte streams after their headers, `WriteWind` and
`WriteExtras` the two writes between which a build may end, `Ship` the copying,
and `ReadWindData` and `ReadWindExtras` the readers, byte for byte. Both sides are
functions of the turns of the same loops, a pass over all cells for the markers
and for each sector's frequencies and speeds: `Stream` is what has been written
after each turn (`BytesAt`, none or one byte), `ReadSoFar` what has been read
(`ReadValue`). The
properties do not use the decoder: they compare the plugin's fields with the
counts.

**`MCFileExchange`** composes the last two and `OscarDownload`, which share no
state: it gives each a job of its own in one run.

Definitions named `X_Something` beside an `X` are mutations of `X` a bug could
plausibly make. They occur in no specification; each shows that the property
named with it in `PROJECT.json` fails when the code is wrong in that way.

## 4. Runs

Run one with `tlc -workers 2 -config <cfg> <module>`.

| Run | What it asks | Bounds, and why they are enough |
|---|---|---|
| `cyclone_cache` | Is a query's view one snapshot, is its answer right, does the cache follow the settings, do rebuilds and queries end? | two routing threads with one query each, one setting change, two permits, two buckets, two segments (one in both buckets), settings that keep both, one and none. Two permits are the least for which the builder can hold some and wait for more while threads hold the rest; two threads, the drawing and the builder give every pair that can overlap |
| `oscar_acquire` | Does the checkpoint hold exactly its days, does it behave as the serial pass, does the sidecar lag, does publication wait for the whole period, does a rerun complete? | three processes (one may publish while another builds and a third is refused), five short months, four periods that differ in start and in end, one with a month the archive has nothing for, a granule across a month's end, missing days. Deaths are unbounded |
| `wind_build` | Is every year in the sums accounted for, what does a published atlas hold, can the atmosphere run ahead, do publications grow? | two processes, three years (the last after the atmosphere source), five command lines, two deaths: the second can hit the resumption of the first |
| `wind_build_resume` (violation) | Does a killed build leave a checkpoint that resumes safely? | as above, with one process |
| `plugin_lifecycle` | Is any answer half-built, are values read, does every enabled box have its data, is a versioned dataset left alone, does a toolbar click show the dialog? | two months of wind and their average, a scalar field, two theatres and El Niño years: a file for each way of reading, freeing and enabling in the code, every subset of them missing or damaged; no bound on sessions |
| `plugin_lifecycle_abort` (violation) | Is "completed" never set after an abort? | as above |
| `cyclone_window` | Is the window circular, is at most the last day missed? | all 366 dates, twelve widths on both sides of each limit in the code |
| `cyclone_window_complete` (violation) | Does a query see every segment of its window? | as above |
| `overlay_controls` | Does the page show what it names, is one overlay map drawn? | every saved configuration of three types: index 0, which the cyclones box is confused with, and two others |
| `checkpoint_merge` | Is a merged current checkpoint the serial pass, is comparing neighbours enough, what does a published merge hold, is anything missing in it? | three builds, of which two tile and one overlaps them, or two wind builds that tile only while the first is partial; four units, one death, up to three inputs with repetition, merges of merges |
| `file_exchange` | Are the plugin's segments the archive's, does a short file lose whole tracks only, does the build fail exactly on what it must not publish? Does a wind atlas arrive as it was counted, are extras used for all cells or none? Is a downloaded month whole, does the folder outlive its workers? | tracks: two theatres, one of them southern, two storms, ten rows around a new year (repeated times, a 29th of February that a miscounted year would refuse, a month that decreases, a row off the synoptic hours, positions that no file can hold), any four of them in any order, files cut after any field. Wind: two cells and three sectors, a resolution of four, every pair of eleven kinds of counts (none, too few, thirds, ties; calms and gales from none to all), extras of this or an earlier build, both files cut anywhere. Download: four links, two of one name and one that is no granule, two workers, three attempts |
| `isobars` | Is a map freed under its computation, is the chart's map of the settings in force, is it whole, does drawing end? | two data types with isobars (one the same all year), two rows, two options, three addresses, three drawings inside each other; one month, since the timeline cannot turn during a drawing: the proofs have any number of each |

What the violations show:

* **`ResumeIsSafe`.** `build_wind.py` writes the sums (line 43) and then the
  progress (line 44). A process killed between the two leaves sums with a year
  the progress does not mention; the resumed run adds it again. `wind_build`
  shows that this is the only way: `SumsAccounted` counts exactly those deaths.
* **`CompletedWithoutAbort`.** A load the user cancelled has no failed files, so
  line 241 of the factory sets `m_bCompletedLoading`, of which the header says
  "finished loading climatology data without abort". Queries are then answered
  from fields nobody filled.
* **`WindowComplete`.** Days become months by `day*12/365`, which is no inverse
  of `month*365/12 + day - 1`: most firsts of a month divide back to the month
  before, and a window that ends there does not scan that month. A window of
  334 to 364 days whose ends fall into one month scans that month only.
  `MissesOnlyTheLastDay` says that below that width nothing else is lost.

### Conditions in the properties

`AnswerMatchesSettings` is for queries before two map accesses have raced
(`~corrupt`): lookups by `operator[]` insert, so two of them, or one and the
drawing, can race under the code's own permits. Runs reach both cases.
`OneOverlay` is for states before an overlay map came back through the *Enabled*
box, which unticks nothing (`OnEnabled`, `ClimatologyConfigDialog.cpp:525`,
against the comment at 470). `ValuesAreRead` and `BoxesHaveData` are for loads
that were not cancelled, for the reason given above.
`AtlasArrives` says of calms and gales that both are shown as counted when the
build's own extras came whole, and the weightier of the two when none came, a part
of them, or those of an earlier build that miss other cells. Whole extras of an
earlier build that miss the same cells are what the reader cannot tell from the
build's own; of them only `ExtrasAllOrNone` holds, and the runs reach them.
`PassCompletes` excepts a checkpoint no run can finish (`Unfinishable`):
unversioned, which every run rejects, or of a period with a month for which the
archive has nothing, which is an error.

`CHECK_DEADLOCK FALSE` stands where the model stops by its bounds (all threads
have made their queries and no setting may change) and where the program ends
(the loop over the months has returned; all files have been read, or the build
has failed, or the month is over). All other runs check deadlock.

### Fairness

* `CycloneCache`: the main thread finishes an event it has begun (`WF` of the
  building and drawing steps), and a thread inside a query goes on (`WF` of
  `Wait` and of the rest). wxSemaphore promises no order, so no strong fairness
  is assumed. Nothing forces a user to act or a thread to ask. `RebuildEnds`
  then rests on threads asking finitely often: for ever competing threads the
  code gives no guarantee, and none is claimed.
* `OscarAcquire`: a running process makes progress, someone reruns every period
  (`SF`, since the lock is free only now and then), and failures cease at some
  time. Without the last there is nothing to hope for, and with it deaths before
  are still arbitrary.
* `PluginLifecycle`: the load runs on the main thread, and the user answers its
  dialogs, with either answer.
* `IsoBars`: the main thread goes on with what it does (`WF` of drawing and
  computing), and an update of the progress dialog returns (`SF`, since handlers
  that run in it may disable its return for a while: a nested drawing does).
  `RenderEnds` is for a user who some day lets go of the controls and a chart
  that is then not drawn anew: `<>[][~(Configure \/ Paint)]_vars`.

The other modules have safety properties only.

## 5. Proofs

The eight modules named `*_proofs` hold them; check one with `tlapm <module>`. All
are for every value of the constants under the named assumptions of the modules
(which TLC evaluates in the runs). Type correctness and the invariants that
others rest on (`PermitsConserved`, `BuilderExclusive`) are proved and not
repeated as questions of a run.

**`CycloneCache_proofs`**, from `PermitsAssumption`, `ReadersAssumption` (finitely
many threads), `DataAssumption` and `NullAssumption`. The invariant is
`IInv == TypeOK /\ HeldByPlace /\ LookupsHaveTargets /\ PermitsConserved`.
`BuilderExclusive` is not inductive: that nobody is inside when the builder
starts follows from counting. The builder fills only when it holds all permits
(`HeldByPlace`), and by `PermitsConserved` the semaphore, the builder and the
threads inside share `Permits`, so none is left for a thread. Hence

* `TypeCorrect`, `PermitConservation`, `BuilderExclusion`: `Spec => []...`;
* `SnapshotStability`: no bucket gains or loses a segment while a thread is
  inside, since only `Clear` and `Fill` change contents, and both need all
  permits. Insertion of empty buckets does not count;
* `CacheIsCurrent` and `AnswersAreRight` (`CacheReflectsSettings`,
  `AnswerMatchesSettings`), from the invariant
  `CInv == IInv /\ ContentsKnown /\ AnswersKnown`: while filling, each bucket
  holds what passes the new settings but for the segments still to come, and a
  query at each place has found no crossing in the buckets it has left. That a
  query's settings are those of the cache is where `BuilderExclusive` comes in.

It also holds the proofs about `CycloneWindow`, from `WindowAssumption`:
`WindowRoundTheYear` (`WindowIsCircular`) and `MissedIsTheLastDay`
(`MissesOnlyTheLastDay`), for every width and any months of 28 to 31 days. The
first is arithmetic modulo 365 (`RoundTheYear`, `InWindowEitherWay`). The
second needs that the months scanned are the ones from the first to the present
one, around the turn of the year (`ScannedInTurn`), and that a day number divides
back to its month or, on the first of one, perhaps to the month before
(`DayNumbers`).

**`OscarAcquire_proofs`**, from the assumptions of `OscarCalendar` and
`NullsAssumption`, begins with lemmas about months: they are ordered, keys grow,
each month of a period begins where the one before ended, the last ends with the
period, and adding a month's covered days to a pass extends it. Then it has
`TypeCorrect`, `MutualExclusion` (`SoleWriter`), `Exactness`
(`CheckpointExact`), `SidecarBehind`, `PublishedIsComplete`, `ForwardOnly` and
`Refinement` (`Spec => SerialPassSpec`). The invariant adds to
them that a checkpoint ends at the end of a month (`CheckpointAtMonthEnd`) and,
per place in the code, what the process's memory has to do with the disk
(`PlaceInv`): after loading they agree; in the loop the next month is the one
after the checkpoint or before it; while ingesting, memory is ahead by the days
of the month in files already ingested; before publishing, memory is the whole
period. Only the lock's owner is at those places (`SoleWriter`), so another
process's write cannot falsify them. The refinement maps `Save` to `Fold` and
everything else to a stutter.

**`OverlayControls_proofs`**, from `WindAssumption` (finitely many data types),
has `PageCorrect` (`PageShowsSelected`) and `OneOverlayMap` (`OneOverlay`). The
invariant is the first property and `OneDrawn`, the second one without counting:
two types that are drawn are the same. The first is needed for the second: a
click on the overlay box stores all the page's controls, and if they showed
another type the stored `enabled` could bring a hidden map back.

**`WindBuild_proofs`**, from `YearsAssumption` (an interval's years are years),
`RequestsAssumption` and `WindNullsAssumption`, has `TypeCorrect`,
`EveryYearAccounted` (`SumsAccounted`), `PublicationHoldsItsYears`,
`AtmosphereFollows` and `PublicationsGrow`. None of them is inductive. The
invariant says per place what a process's memory holds (`InMemory`: each year it
should, and those lost before), what it knows of the files (`OnDisk`: which are
torn, which equal its memory, that the progress is of the year before), that
only the lock's owner is at such a place (`LockHeld`), and that whatever was
published is covered by the checkpoint and by who works on it
(`PublishedIsCovered`).

**`PluginLifecycle_proofs`**, from `OrderAssumption` (everything is loaded, averages
after what they are of) and `KindsAssumption` (files are of one kind), has
`TypeCorrect`, `NothingHalfBuilt`, `EveryValueWasRead`, `EveryBoxHasData` and
`VersionedStays`. The invariant says how dialog, factory and constructor nest,
that what the load has come past was read or has failed (`LoadKnown`), and why an
enabled box keeps its data over a second load (`BoxesKnown`: files that were read
are still on disk, and the second load reads what is on disk).

**`IsoBars_proofs`**, from `IsoBarsAssumption`, has `TypeCorrect`, `NoUseAfterFree`
(`NothingFreedInUse`), `ChartIsCurrent` (`ChartShowsSettings`) and
`WholeMapsOnly` (`OnlyWholeMaps`). The invariant is
about ownership: a map is in one slot, of its month (`SlotsOwn`); a call that
computes owns the map in its slot, marked as computing (`CallsOwn`), and no other
call computes it (`CallsApart`); all calls but the last are in an update of their
dialog (`Nested`). `Create` deletes only maps that are not marked, so never one a
call owns. The last theorem adds that a call's row counts the rows of its map
(`RowsCounted`) and that each map is whole, computed or broken off
(`MapsAccounted`).

**`CheckpointMerge_proofs`**, from `MergeAssumption`, has `MergeLikeSerial`
(`MergeIsExact`), `PublishedOnce`, `PublishedMissesNone` and
`NeighboursAreEnough` (`NeighboursDecide`), so all its run checks. The invariant
says what a checkpoint holds (`CheckpointKnown`), where a build stands between
its two files (`BuildKnown`), what a partition goes on to mean after it was read
(`PartKnown`: a complete checkpoint of currents is never replaced, wind sums only
grow), and that the partitions loaded so far add up to one interval
(`TotalKnown`). For the last theorem one direction needs, for each unit, the
first partition that reaches it. The library's induction rules do not apply (see
below), but its well-foundedness of `<` does: every non-empty set of naturals has
a least member (`LeastNatural`).

**`FileExchange_proofs`** is about `OscarDownload`, `WindAtlas` and
`CycloneTracks`. From
`DownloadAssumption` it has `MonthIsWhole` (`DownloadedWhole`) and `FolderIsSafe`
(`FolderOutlivesWorkers`), for any links, workers and attempts: temporary files
belong to workers in an attempt (`PartsOwned`), results are whole files and those
before the awaited one are in (`ResultsWhole`), and phases of the month say who
still works (`WorkersGone`).

From `AtlasAssumption` (positive sizes, a resolution that fits a byte, a mean
speed that fits a byte, calms and gales that are some of a cell's samples) it has
`CountsArrive` (`AtlasArrives`) and `CalmsAndGalesOfOneFile` (`ExtrasAllOrNone`),
for any grid, number of sectors and counts. Three arguments carry them:

* the shares are exact (`FrequencyExact`). Rounding down loses
  `total * left = SumOf(lost)`, each `lost` is below `total`, so fewer ones are
  left than sectors that lost anything; ranks number the sectors
  (`RanksDiffer`, `RanksBelow`), so each of the ones goes to one sector, and to
  one that lost something;
* the reader never loses its place (`ReadStep`, `DecodeEncoded`). After each
  turn, either the file has ended and is shorter than what was written, or the
  reader has used exactly the bytes written so far (`ReadRight`) and every cell
  has what its past turns gave it (`CellRead`). The next byte is there or not by
  the same rule on both sides: the marker tells a missing cell from a valid one
  (`MarkerTells`), and a frequency that was read is the one that was written;
* the extras change all cells or none, and a cell that agrees with them stays
  valid (`AtlasExtras`). Which of it happens: the build's own extras agree with
  its atlas in every cell, plane by plane (`PlanesOf`), and extras that miss
  another cell disagree in that one (`CalmsAfterExtras`).

The state's invariant (`AtlasInv`) then says per stage what the file is
(`FileIsTheCounts`: what was written, later a beginning of it), what the data are
(`DataIsTheCounts`) and where calms and gales come from (`OneIsShown`,
`OneOrBoth`, `CalmsKnown`). `AtlasArrives` is not inductive without the first.

From `TracksAssumption` (a row has a date of the calendar, a position on the
globe, a state that is no terminator, and a theatre or none; storms are numbered)
it has `VerdictIsRight` (`BuildVerdict`), `TracksArriveWhole` (`WholeTracksOnly`)
and `SegmentsArrive` (`SegmentsAreTheArchives`), for archives of any length in
any order. The three properties speak of the archive and of the plugin, with the
loops of the converter, the encoder, the check and the reader between them, so
none is inductive. The invariant
`TracksInv == ConvertInv /\ FilesInv /\ PluginInv` follows the storms:

* the archive is first put in terms of points instead of rows (`KeptPoints`,
  `Adjacent`, `PairsOf`; `TruthByPoints`, `PairsCounted`), which works because a
  storm has one observation that counts at a time (`OneAtATime`) and because both
  ways of counting longitudes agree (`LongitudesAgree`);
* `ConvertInv`: a storm's group holds each of its observations that is not placed
  yet, and the archive's first of a time before the others (`GroupsHold`), so the
  one `Earliest` takes is an observation that counts or one whose time was met.
  Tracks go from an observation to the next, and every observation that was
  placed is in one, behind the one it follows (`TracksHold`). The track being
  collected ends where the storm's loop is (`EndsAtTheLoop`): without it, a point
  could be appended to one it does not follow. Set equality does not say how many
  segments there are, so their number is carried along (`LinksCounted`);
* `FilesInv`: a file is its tracks one after the other (`FileFields`: what stands
  at each offset; `FilePoints`), and those read back are in range. With it, a
  failure is traced to an observation or a pair of them, and `done` rules all of
  them out;
* `PluginInv`: the reader is at an offset of the file, after k points of a track,
  and holds the year and month of the last of them (`AfterPoints`). That the year
  it counts is the point's (`YearOfTheNext`) needs both that times grow along a
  track and that the encoder refuses skipped years. So the reader never refuses a
  point: `Corrupted` only meets the end of a short file (`CorruptedReads`), and
  the track it drops is not in the list.

The number in `SegmentsAreTheArchives` is that of pairs of observations: two
storms may give the same segment, and then the plugin has it twice.

Induction. The library's induction theorems take an operator as a parameter,
which no installed backend instantiates, but its well-foundedness of `<` does
not: every non-empty set of naturals has a least member. `CountingUp` makes of
it an induction over the turns of a loop, by a set that has the first and with
each the next. With it, that a recursive function satisfies its recursion is a
lemma too (`SumsToDef`, `StreamDef`, `ReadingDef`, `RunDef`, `FieldsToDef`).

Model-checked only: all liveness, which is out of the prover's reach. Every
invariant and every action property of a passing run is a theorem.

## 6. What is not modelled, and observations without a run

Not modelled:

* floating point: interpolation in place and time, contour tracing inside a row,
  vectors, the geometry of a track crossing. The prover and the checker have
  integers only, and the code's promises there are about closeness;
* the filters of `BuildCycloneCache` (one abstract predicate) and
  `ValidateQueryV1`: lists of independent comparisons without state, which a unit
  test reaches;
* the readers of currents and scalar fields: arrays copied cell by cell, whose
  failures are in `PluginLifecycle`;
* the timeline's controls (month, day, slider, *Now*, *All*): `IsoBars` takes the
  month they leave behind;
* drawing, icons and the saving of the configuration: output;
* `era5.py` (a plain loop over blocks, one step of `WindBuild`), the one-shot
  sources, budget, provenance and comparison: no state to go wrong between runs;
* the historical generators and everything vendored under `opencpn-libs`, which
  is most of the repository's lines and not this program.

The plugin's removal by OpenCPN from inside one of its own dialogs is assumed not
to happen.

Seen while modelling, for whoever continues:

* the wind checkpoint's files are truncated in place; a death there leaves a
  file the next run cannot read (`Torn`; the design note D031 asks for
  resumable work);
* a death between progress and atmosphere loses that year's atmosphere for good
  (`build_wind.py:99-101`); `AtmosphereNeverAhead` is what remains;
* a merged wind checkpoint has no `end_year`, so it cannot be merged again,
  unlike a merged current checkpoint;
* `merge_wind.py` reads progress (line 18) and sums (lines 41 to 43) at two times
  and without the lock, so the sums may hold a year more than their progress,
  from a running or a dead build, and that year may belong to the next partition
  too; `NothingMissing` and `MergedOnce` are what remains true;
* a wind or current file that opens and turns out to be damaged leaves the check
  box enabled (`ClimatologyOverlayFactory.cpp:729` and 938), the scalar readers
  enable theirs only after reading;
* a second load that fails to read the El Niño years keeps those of the first;
* a failed or aborted first load leaves provider API V1 at NOT_READY for the
  session, because the factory exists and is not loaded again;
* the remnant state is 4 and its filter bit is taken to be 8
  (`ClimatologyOverlayFactory.cpp:1414`);
* *Now* sets the timeline to the day after today (`day + 1`,
  `ClimatologyDialog.cpp:398`), unlike the slider it sets to `day`;
* controls for El Niño years are disabled by a load that failed to read them and
  not enabled by a later one;
* `Recompute` that gives up because settings changed (`IsoBarMap.cpp:338-341`)
  leaves `m_bComputing` set: every later drawing takes the map for one being
  computed (`ClimatologyOverlayFactory.cpp:2507`), so the isobars do not come
  back, and when the old settings do, half a map is drawn. `OnlyWholeMaps` names
  the case (`broken`);
* a cancelled isobar map is dropped and not deleted (2523), and a second load
  frees none;
* a nested `RenderOverlay` leaves `m_dc` (2918) pointing to its own drawing
  context, which the outer one then draws with after it is gone;
* the query's own leg is shifted by 360 degrees (2368) for a segment on the other
  side of the date line and stays shifted; the buckets were chosen before, so it
  matters only for legs exactly on the line;
* a segment goes to its buckets shifted by 360 degrees when its first end is at
  15 degrees east or more (1474), a leg is looked up shifted when either end is
  beyond 15 degrees (2337): for legs and segments that cross that meridian the two
  may not meet, and the crossing is missed;
* two links with the same file name give the same path twice (`oscar.py:59`), and
  `ingest_oscar_files` adds its days twice; a truncated answer is whole to
  `_download_file` unless the HTTP library raises; `mkstemp` (line 63) is outside
  of the retries;
* wind extras of an earlier build are accepted when they miss the same cells
  (`ExtrasAllOrNone` says all or none, not whose; `AtlasArrives` leaves them out);
* a cyclone build that fails leaves new files next to old ones
  (`build_cyclones.py:39`), `BuildVerdict` says when.
