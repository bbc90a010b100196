---------------------------- MODULE OscarDownload ----------------------------
(***************************************************************************)
(* The download of one month of OSCAR granules: _download_results hands    *)
(* the links to worker threads and waits for the results in the order of   *)
(* the links; _download_file fetches one into a temporary file, up to      *)
(* three times, and renames it.  The folder goes when the month has been   *)
(* read, or with the first failure in that order, while other links may    *)
(* still be loading.                                                       *)
(***************************************************************************)
EXTENDS Integers, Sequences, FiniteSets

CONSTANTS
    Links,    \* data_links of the month: a sequence of names; two links may
              \* name one file
    Workers,  \* max_workers
    Attempts,
    NetCdf    \* names with suffix .nc or .nc4

Jobs == DOMAIN Links
Names == {Links[l] : l \in Jobs}

ASSUME DownloadAssumption ==
    /\ Links \in Seq(Names) /\ Links # <<>>
    /\ Workers \in Nat \ {0} /\ Attempts \in Nat \ {0}
    /\ NetCdf \subseteq Names

VARIABLES
    fetch,    \* fetch[l]: the future of link l
    part,     \* part[l]: the temporary file of the attempt at link l
    attempt,  \* attempt[l]: of the loop over range(1, attempts + 1)
    granules, \* granules[n]: the file called n
    awaited,  \* the link whose result the main thread waits for
    month     \* what the main thread is doing with the month's folder

downloadVars == <<fetch, part, attempt, granules, awaited, month>>

Loading(l) == fetch[l] \in {"started", "loading"}
Busy == {l \in Jobs : Loading(l)}
Pending == {l \in Jobs : fetch[l] = "pending"}

-----------------------------------------------------------------------------
(* A worker                                                                *)

\* Links are taken in the order they were submitted.
Take(l) ==
    /\ l \in Pending /\ \A k \in Pending : l <= k
    /\ Cardinality(Busy) < Workers
    /\ fetch' = [fetch EXCEPT ![l] = "started"]
    /\ UNCHANGED <<part, attempt, granules, awaited, month>>

\* destination.exists().
FindLoaded(l) ==
    /\ fetch[l] = "started"
    /\ granules[Links[l]] # "none"
    /\ fetch' = [fetch EXCEPT ![l] = "path"]
    /\ UNCHANGED <<part, attempt, granules, awaited, month>>

Start(l) ==
    /\ fetch[l] = "started"
    /\ granules[Links[l]] = "none"
    /\ fetch' = [fetch EXCEPT ![l] = "loading"]
    /\ UNCHANGED <<part, attempt, granules, awaited, month>>

MakePart(l) ==
    /\ fetch[l] = "loading" /\ part[l] = "none"
    /\ part' = [part EXCEPT ![l] = "growing"]
    /\ attempt' = [attempt EXCEPT ![l] = @ + 1]
    /\ UNCHANGED <<fetch, granules, awaited, month>>

\* mkstemp is outside the try.
MakeNoPart(l) ==
    /\ fetch[l] = "loading" /\ part[l] = "none"
    /\ fetch' = [fetch EXCEPT ![l] = "error"]
    /\ UNCHANGED <<part, attempt, granules, awaited, month>>

\* The last block, flush and fsync.
Receive(l) ==
    /\ part[l] = "growing"
    /\ part' = [part EXCEPT ![l] = "whole"]
    /\ UNCHANGED <<fetch, attempt, granules, awaited, month>>

Rename(l) ==
    /\ granules' = [granules EXCEPT ![Links[l]] = part[l]]
    /\ part' = [part EXCEPT ![l] = "none"]
    /\ fetch' = [fetch EXCEPT ![l] = "path"]
    /\ UNCHANGED <<attempt, awaited, month>>

Replace_Early(l) == part[l] # "none" /\ Rename(l)

\* os.replace.
Replace(l) == part[l] = "whole" /\ Rename(l)

\* A refused or silent server, a full disk: unlink, and again or give up.
Fail(l) ==
    /\ part[l] # "none"
    /\ part' = [part EXCEPT ![l] = "none"]
    /\ fetch' = [fetch EXCEPT ![l] = IF attempt[l] < Attempts THEN "loading" ELSE "error"]
    /\ UNCHANGED <<attempt, granules, awaited, month>>

-----------------------------------------------------------------------------
(* The main thread                                                         *)

NextResult ==
    /\ month = "downloading"
    /\ awaited \in Jobs
    /\ fetch[awaited] = "path"
    /\ awaited' = awaited + 1
    /\ UNCHANGED <<fetch, part, attempt, granules, month>>

\* The iterator of executor.map cancels what no worker has taken.
FirstError ==
    /\ month = "downloading"
    /\ awaited \in Jobs
    /\ fetch[awaited] = "error"
    /\ fetch' = [l \in Jobs |-> IF l \in Pending THEN "cancelled" ELSE fetch[l]]
    /\ month' = "failing"
    /\ UNCHANGED <<part, attempt, granules, awaited>>

RemoveFolder ==
    /\ granules' = [n \in Names |-> "none"]
    /\ part' = [l \in Jobs |-> "none"]

GiveUp_AtOnce ==
    /\ month = "failing"
    /\ month' = "failed"
    /\ RemoveFolder
    /\ UNCHANGED <<fetch, attempt, awaited>>

\* The executor's "with" waits for its threads, then the folder's removes it.
GiveUp ==
    /\ month = "failing"
    /\ Busy = {}
    /\ month' = "failed"
    /\ RemoveFolder
    /\ UNCHANGED <<fetch, attempt, awaited>>

Ingest ==
    /\ month = "downloading"
    /\ awaited \notin Jobs
    /\ month' = IF Names \cap NetCdf = {} THEN "failing" ELSE "ingesting"
    /\ UNCHANGED <<fetch, part, attempt, granules, awaited>>

Ingested ==
    /\ month = "ingesting"
    /\ month' = "added"
    /\ RemoveFolder
    /\ UNCHANGED <<fetch, attempt, awaited>>

-----------------------------------------------------------------------------
DownloadInit ==
    /\ fetch = [l \in Jobs |-> "pending"]
    /\ part = [l \in Jobs |-> "none"]
    /\ attempt = [l \in Jobs |-> 0]
    /\ granules = [n \in Names |-> "none"]
    /\ awaited = 1
    /\ month = "downloading"

Worker(l) ==
    \/ Take(l) \/ FindLoaded(l) \/ Start(l) \/ MakePart(l) \/ MakeNoPart(l)
    \/ Receive(l) \/ Replace(l) \/ Fail(l)

DownloadNext ==
    \/ \E l \in Jobs : Worker(l)
    \/ NextResult \/ FirstError \/ GiveUp \/ Ingest \/ Ingested

DownloadSpec == DownloadInit /\ [][DownloadNext]_downloadVars

-----------------------------------------------------------------------------
\* What is read of a month is every file its links name, each whole, and
\* nothing is left of an attempt: though links share names, come in any order
\* and are tried again.
DownloadedWhole ==
    month = "ingesting" =>
        /\ \A n \in Names : granules[n] = "whole"
        /\ \A l \in Jobs : part[l] = "none" /\ attempt[l] <= Attempts

\* The folder is there as long as a worker writes to it, and gone for good once
\* the month is over.
FolderOutlivesWorkers ==
    month \in {"failed", "added"} =>
        /\ Busy = {} /\ Pending = {}
        /\ \A n \in Names : granules[n] = "none"
=============================================================================
