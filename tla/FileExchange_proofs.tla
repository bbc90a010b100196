------------------------ MODULE FileExchange_proofs ------------------------
(***************************************************************************)
(* Proofs about the files that come into the pipeline and leave it.  Of    *)
(* the download of a month, for any links, any number of workers and       *)
(* attempts: what is read is whole, and the folder outlives whoever writes *)
(* to it.  Of a month's wind atlas, for any counts on any grid with any    *)
(* number of sectors: the shares are exact, the plugin's reader ends every *)
(* turn where the writer ended it, and what the plugin shows is what was   *)
(* counted, of one file or of both.  Of the cyclone tracks, for any        *)
(* archive and any theatres: a build fails for its archive's faults and    *)
(* for nothing else, and the plugin shows the archive's segments, of a     *)
(* track all or nothing, of a file that arrived whole all of them.         *)
(***************************************************************************)
EXTENDS OscarDownload, WindAtlas, CycloneTracks, FiniteSetTheorems, WellFoundedInduction, TLAPS

-----------------------------------------------------------------------------
(* The download of a month                                                 *)

DownloadTypes ==
    /\ fetch \in [Jobs -> {"pending", "started", "loading", "path", "error", "cancelled"}]
    /\ part \in [Jobs -> {"none", "growing", "whole"}]
    /\ attempt \in [Jobs -> 0..Attempts]
    /\ granules \in [Names -> {"none", "whole"}]
    /\ awaited \in 1..(Len(Links) + 1)
    /\ month \in {"downloading", "failing", "failed", "ingesting", "added"}

\* A temporary file belongs to a worker's current attempt; before it makes one
\* there is an attempt left.
PartsOwned ==
    \A l \in Jobs :
        /\ part[l] # "none" => fetch[l] = "loading"
        /\ fetch[l] \in {"pending", "started"} \/ (fetch[l] = "loading" /\ part[l] = "none")
            => attempt[l] < Attempts

\* A result is a whole file as long as the folder is there, and the results
\* before the awaited one are in.
ResultsWhole ==
    /\ month \notin {"failed", "added"} =>
        \A l \in Jobs : fetch[l] = "path" => granules[Links[l]] = "whole"
    /\ month \in {"downloading", "ingesting"} =>
        \A l \in Jobs : l < awaited => fetch[l] = "path"

\* Who still works in which phase of the month.
WorkersGone ==
    /\ month # "downloading" => Pending = {}
    /\ month \in {"ingesting", "failed", "added"} => Busy = {}
    /\ month = "ingesting" => awaited \notin Jobs
    /\ month \in {"failed", "added"} => \A n \in Names : granules[n] = "none"

IInv == DownloadTypes /\ PartsOwned /\ ResultsWhole /\ WorkersGone

-----------------------------------------------------------------------------
LEMMA LinksTyping ==
    /\ Len(Links) \in Nat /\ Jobs = 1..Len(Links)
    /\ \A l \in Jobs : Links[l] \in Names /\ l \in Int
    /\ 1 \in 1..(Len(Links) + 1)
    /\ Attempts \in Nat /\ Attempts > 0
<1>1. Links \in Seq(Names) /\ Attempts \in Nat \ {0}
  BY DownloadAssumption
<1>2. Len(Links) \in Nat /\ Jobs = 1..Len(Links)
  BY <1>1 DEF Jobs
<1> QED
  BY <1>1, <1>2 DEF Names

LEMMA InitIInv == DownloadInit => IInv
<1> SUFFICES ASSUME DownloadInit PROVE IInv
  OBVIOUS
<1>1. DownloadTypes
  BY LinksTyping DEF DownloadInit, DownloadTypes
<1>2. PartsOwned /\ WorkersGone
  BY LinksTyping DEF DownloadInit, PartsOwned, WorkersGone
<1>3. ResultsWhole
  BY LinksTyping DEF DownloadInit, ResultsWhole
<1> QED
  BY <1>1, <1>2, <1>3 DEF IInv

\* A worker acts only while links are pending or loading, and moves only its
\* own link: then the phase stays, and the others keep what they have.
LEMMA WorkerKeeps ==
    ASSUME IInv, NEW l \in Jobs, Worker(l)
    PROVE  IInv'
<1>1. fetch[l] \in {"pending", "started", "loading"}
  BY DEF Worker, Take, FindLoaded, Start, MakePart, MakeNoPart, Receive, Replace, Rename, Fail,
     Pending, IInv, PartsOwned
<1>2. month \in {"downloading", "failing"} /\ (fetch[l] = "pending" => month = "downloading")
  BY <1>1 DEF IInv, WorkersGone, Pending, Busy, Loading, DownloadTypes
<1>3. UNCHANGED <<awaited, month>>
  BY DEF Worker, Take, FindLoaded, Start, MakePart, MakeNoPart, Receive, Replace, Rename, Fail
<1>4. /\ \A k \in Jobs : k # l =>
            fetch'[k] = fetch[k] /\ part'[k] = part[k] /\ attempt'[k] = attempt[k]
      /\ fetch'[l] # "pending"
  <2>1. ASSUME NEW k \in Jobs, k # l
        PROVE  fetch'[k] = fetch[k] /\ part'[k] = part[k] /\ attempt'[k] = attempt[k]
    BY <2>1 DEF Worker, Take, FindLoaded, Start, MakePart, MakeNoPart, Receive, Replace, Rename,
       Fail, IInv, DownloadTypes
  <2>2. fetch'[l] # "pending"
    <3>1. CASE Take(l) \/ FindLoaded(l) \/ Start(l) \/ MakeNoPart(l)
      BY <3>1 DEF Take, FindLoaded, Start, MakeNoPart, IInv, DownloadTypes
    <3>2. CASE MakePart(l) \/ Receive(l)
      BY <3>2 DEF MakePart, Receive, IInv, PartsOwned
    <3>3. CASE Replace(l) \/ Fail(l)
      BY <3>3 DEF Replace, Rename, Fail, IInv, DownloadTypes
    <3> QED
      BY <3>1, <3>2, <3>3 DEF Worker
  <2> QED
    BY <2>1, <2>2
<1>5. /\ fetch' \in [Jobs -> {"pending", "started", "loading", "path", "error", "cancelled"}]
      /\ part' \in [Jobs -> {"none", "growing", "whole"}]
  BY DEF Worker, Take, FindLoaded, Start, MakePart, MakeNoPart, Receive, Replace, Rename, Fail,
     IInv, DownloadTypes
<1>6. attempt' \in [Jobs -> 0..Attempts]
  <2>1. CASE MakePart(l)
    <3>1. attempt[l] < Attempts /\ attempt[l] \in 0..Attempts
      BY <2>1 DEF MakePart, IInv, PartsOwned, DownloadTypes
    <3> QED
      BY <2>1, <3>1, LinksTyping DEF MakePart, IInv, DownloadTypes
  <2>2. CASE ~MakePart(l)
    BY <2>2 DEF Worker, Take, FindLoaded, Start, MakeNoPart, Receive, Replace, Rename, Fail,
       IInv, DownloadTypes
  <2> QED
    BY <2>1, <2>2
<1>7. /\ granules' \in [Names -> {"none", "whole"}]
      /\ \A n \in Names : granules[n] = "whole" => granules'[n] = "whole"
      /\ fetch'[l] = "path" => granules'[Links[l]] = "whole"
  <2>1. CASE Replace(l)
    BY <2>1, LinksTyping DEF Replace, Rename, IInv, DownloadTypes
  <2>2. CASE ~Replace(l)
    <3>1. granules' = granules
      BY <2>2 DEF Worker, Take, FindLoaded, Start, MakePart, MakeNoPart, Receive, Fail
    <3>2. fetch'[l] = "path" => granules[Links[l]] # "none"
      BY <1>1, <2>2 DEF Worker, Take, FindLoaded, Start, MakePart, MakeNoPart, Receive, Fail,
         IInv, DownloadTypes
    <3> QED
      BY <3>1, <3>2, LinksTyping DEF IInv, DownloadTypes
  <2> QED
    BY <2>1, <2>2
<1>8. DownloadTypes'
  BY <1>3, <1>5, <1>6, <1>7 DEF IInv, DownloadTypes
<1>9. PartsOwned'
  <2>1. /\ part'[l] # "none" => fetch'[l] = "loading"
        /\ fetch'[l] = "started" \/ (fetch'[l] = "loading" /\ part'[l] = "none")
            => attempt'[l] < Attempts
    <3>1. CASE Take(l) \/ FindLoaded(l) \/ Start(l) \/ MakeNoPart(l)
      BY <3>1 DEF Take, FindLoaded, Start, MakeNoPart, Pending, IInv, PartsOwned, DownloadTypes
    <3>2. CASE MakePart(l)
      BY <3>2 DEF MakePart, IInv, DownloadTypes
    <3>3. CASE Receive(l)
      BY <3>3 DEF Receive, IInv, PartsOwned, DownloadTypes
    <3>4. CASE Replace(l)
      BY <3>4 DEF Replace, Rename, IInv, DownloadTypes
    <3>5. CASE Fail(l)
      BY <3>5 DEF Fail, IInv, PartsOwned, DownloadTypes
    <3> QED
      BY <3>1, <3>2, <3>3, <3>4, <3>5 DEF Worker
  <2> QED
    BY <1>4, <2>1 DEF IInv, PartsOwned
<1>10. ResultsWhole'
  <2>1. ASSUME NEW k \in Jobs, fetch'[k] = "path" PROVE granules'[Links[k]] = "whole"
    BY <1>2, <1>4, <1>7, <2>1, LinksTyping DEF IInv, ResultsWhole
  <2>2. ASSUME NEW k \in Jobs, month = "downloading", k < awaited PROVE fetch'[k] = "path"
    BY <1>1, <1>4, <2>2 DEF IInv, ResultsWhole
  <2> QED
    BY <1>2, <1>3, <2>1, <2>2 DEF ResultsWhole
<1>11. WorkersGone'
  <2>1. month' = "failing" => Pending' = {}
    BY <1>3, <1>4 DEF IInv, WorkersGone, Pending
  <2> QED
    BY <1>2, <1>3, <2>1 DEF WorkersGone
<1> QED
  BY <1>8, <1>9, <1>10, <1>11 DEF IInv

LEMMA NextResultKeeps ==
    ASSUME IInv, NextResult
    PROVE  IInv'
<1>1. /\ month = "downloading" /\ awaited \in Jobs /\ fetch[awaited] = "path"
      /\ awaited' = awaited + 1 /\ UNCHANGED <<fetch, part, attempt, granules, month>>
  BY DEF NextResult
<1>2. awaited' \in 1..(Len(Links) + 1)
  BY <1>1, LinksTyping
<1>3. DownloadTypes' /\ PartsOwned' /\ WorkersGone'
  BY <1>1, <1>2 DEF IInv, DownloadTypes, PartsOwned, WorkersGone, Pending, Busy, Loading
<1>4. \A l \in Jobs : l < awaited' => l < awaited \/ l = awaited
  BY <1>1, LinksTyping
<1>5. ResultsWhole'
  BY <1>1, <1>4 DEF IInv, ResultsWhole
<1> QED
  BY <1>3, <1>5 DEF IInv

\* The first error in the order of the links cancels what nobody has taken.
LEMMA FirstErrorKeeps ==
    ASSUME IInv, FirstError
    PROVE  IInv'
<1>1. /\ fetch' = [l \in Jobs |-> IF l \in Pending THEN "cancelled" ELSE fetch[l]]
      /\ month = "downloading" /\ month' = "failing"
      /\ UNCHANGED <<part, attempt, granules, awaited>>
  BY DEF FirstError
<1>2. DownloadTypes'
  BY <1>1 DEF IInv, DownloadTypes
<1>3. PartsOwned' /\ ResultsWhole'
  BY <1>1 DEF IInv, PartsOwned, ResultsWhole, Pending
<1>4. WorkersGone'
  BY <1>1 DEF WorkersGone, Pending
<1> QED
  BY <1>2, <1>3, <1>4 DEF IInv

\* The folder goes when the last worker has left or the month has been read.
LEMMA RemovalKeeps ==
    ASSUME IInv, GiveUp \/ Ingested
    PROVE  IInv'
<1>1. /\ Busy = {} /\ month # "downloading" /\ month' \in {"failed", "added"}
      /\ granules' = [n \in Names |-> "none"] /\ part' = [l \in Jobs |-> "none"]
      /\ UNCHANGED <<fetch, attempt, awaited>>
  BY DEF GiveUp, Ingested, RemoveFolder, IInv, WorkersGone
<1>2. DownloadTypes'
  BY <1>1 DEF IInv, DownloadTypes
<1>3. PartsOwned'
  BY <1>1 DEF IInv, PartsOwned, Busy, Loading
<1>4. ResultsWhole' /\ WorkersGone'
  BY <1>1 DEF IInv, ResultsWhole, WorkersGone, Pending, Busy, Loading
<1> QED
  BY <1>2, <1>3, <1>4 DEF IInv

LEMMA IngestKeeps ==
    ASSUME IInv, Ingest
    PROVE  IInv'
<1>1. /\ month = "downloading" /\ awaited \notin Jobs /\ month' \in {"failing", "ingesting"}
      /\ UNCHANGED <<fetch, part, attempt, granules, awaited>>
  BY DEF Ingest
<1>2. \A l \in Jobs : fetch[l] = "path"
  <2>1. awaited = Len(Links) + 1
    BY <1>1, LinksTyping DEF IInv, DownloadTypes
  <2>2. \A l \in Jobs : l < awaited
    BY <2>1, LinksTyping
  <2> QED
    BY <1>1, <2>2 DEF IInv, ResultsWhole
<1>3. DownloadTypes' /\ PartsOwned' /\ ResultsWhole'
  BY <1>1 DEF IInv, DownloadTypes, PartsOwned, ResultsWhole
<1>4. WorkersGone'
  BY <1>1, <1>2 DEF WorkersGone, Pending, Busy, Loading
<1> QED
  BY <1>3, <1>4 DEF IInv

LEMMA NextIInv == IInv /\ [DownloadNext]_downloadVars => IInv'
<1> SUFFICES ASSUME IInv, [DownloadNext]_downloadVars PROVE IInv'
  OBVIOUS
<1>1. CASE DownloadNext
  BY <1>1, WorkerKeeps, NextResultKeeps, FirstErrorKeeps, RemovalKeeps, IngestKeeps
  DEF DownloadNext
<1>2. CASE UNCHANGED downloadVars
  BY <1>2 DEF downloadVars, IInv, DownloadTypes, PartsOwned, ResultsWhole, WorkersGone, Pending,
     Busy, Loading
<1> QED
  BY <1>1, <1>2

LEMMA InvariantHolds == DownloadSpec => []IInv
BY InitIInv, NextIInv, PTL DEF DownloadSpec

\* _download_results returns only whole files, one for every name the links
\* have, and no attempt is left over, however many links, workers and retries.
THEOREM MonthIsWhole == DownloadSpec => []DownloadedWhole
<1>1. IInv => DownloadedWhole
  <2> SUFFICES ASSUME IInv, month = "ingesting"
               PROVE  /\ \A n \in Names : granules[n] = "whole"
                      /\ \A l \in Jobs : part[l] = "none" /\ attempt[l] <= Attempts
    BY DEF DownloadedWhole
  <2>1. \A l \in Jobs : l < awaited
    BY LinksTyping DEF IInv, WorkersGone, DownloadTypes
  <2>2. \A l \in Jobs : fetch[l] = "path" /\ granules[Links[l]] = "whole"
    BY <2>1 DEF IInv, ResultsWhole
  <2>3. \A l \in Jobs : part[l] = "none" /\ attempt[l] <= Attempts
    <3>1. /\ \A l \in Jobs : fetch[l] # "loading"
          /\ \A l \in Jobs : part[l] # "none" => fetch[l] = "loading"
          /\ attempt \in [Jobs -> 0..Attempts]
      BY <2>2 DEF IInv, PartsOwned, DownloadTypes
    <3>2. \A l \in Jobs : attempt[l] <= Attempts
      BY <3>1, LinksTyping
    <3> QED
      BY <3>1, <3>2
  <2>4. \A n \in Names : \E l \in Jobs : n = Links[l]
    BY DEF Names
  <2> QED
    BY <2>2, <2>3, <2>4
<1> QED
  BY <1>1, InvariantHolds, PTL

\* The temporary folder of acquire_oscar is removed after the last worker has
\* left it, and nothing is written to it afterwards.
THEOREM FolderIsSafe == DownloadSpec => []FolderOutlivesWorkers
<1>1. IInv => FolderOutlivesWorkers
  BY DEF IInv, WorkersGone, FolderOutlivesWorkers
<1> QED
  BY <1>1, InvariantHolds, PTL

-----------------------------------------------------------------------------
(* Counting up                                                             *)

Less == {pair \in Nat \X Nat : pair[1] < pair[2]}

LEMMA LessWellFounded == IsWellFoundedOn(Less, Nat)
  BY NatLessThanWellFounded DEF OpToRel, Less

\* Induction over the turns of a loop: a set that has the first and with each
\* the next has them all.
LEMMA CountingUp ==
    ASSUME NEW N \in Nat, NEW T,
           0 \in T, \A n \in 1..N : n - 1 \in T => n \in T
    PROVE  0..N \subseteq T
<1> SUFFICES ASSUME 0..N \ T # {} PROVE FALSE
  OBVIOUS
<1> DEFINE Missed == 0..N \ T
<1>1. Missed \subseteq Nat /\ Missed # {}
  OBVIOUS
<1> HIDE DEF Missed
<1>2. PICK n \in Missed : \A k \in Missed : ~(<<k, n>> \in Less)
  BY <1>1, LessWellFounded, WFMin
<1>3. n \in 0..N /\ n \notin T
  BY DEF Missed
<1>4. n # 0 /\ n \in 1..N /\ n - 1 \in 0..N
  BY <1>3
<1>5. n - 1 \in Missed
  BY <1>3, <1>4 DEF Missed
<1>6. <<n - 1, n>> \in Less
  BY <1>4 DEF Less
<1> QED
  BY <1>2, <1>5, <1>6

-----------------------------------------------------------------------------
(* Sums over the sectors                                                   *)

LEMMA SectorBounds == SectorCount \in Nat /\ SectorCount > 0 /\ CellCount \in Nat /\ CellCount > 0
                        /\ Resolution \in Nat /\ Resolution > 0
                        /\ MinimumSamples \in Nat /\ MinimumSamples > 0
  BY AtlasAssumption

\* The sums are what their recursion says.
LEMMA SumsToDef ==
    ASSUME NEW f
    PROVE  /\ SumsTo(f)[0] = 0
           /\ \A n \in Sectors : SumsTo(f)[n] = SumsTo(f)[n-1] + f[n]
<1> DEFINE Sums(m) == \E u : u = [n \in 0..m |-> IF n = 0 THEN 0 ELSE u[n-1] + f[n]]
           T == {m \in 0..SectorCount : Sums(m)}
<1>0. SectorCount \in Nat
  BY SectorBounds
<1>1. 0 \in T
  <2> DEFINE u == [n \in 0..0 |-> 0]
  <2>1. u = [n \in 0..0 |-> IF n = 0 THEN 0 ELSE u[n-1] + f[n]]
    OBVIOUS
  <2>2. Sums(0)
    BY <2>1
  <2> QED
    BY <1>0, <2>2
<1>2. ASSUME NEW m \in 1..SectorCount, m - 1 \in T PROVE m \in T
  <2>1. PICK u : u = [n \in 0..(m-1) |-> IF n = 0 THEN 0 ELSE u[n-1] + f[n]]
    BY <1>2
  <2> DEFINE w == [n \in 0..m |-> IF n = m THEN u[m-1] + f[m] ELSE u[n]]
  <2>2. m \in Nat /\ m # 0 /\ m - 1 \in 0..(m-1)
    BY <1>0
  <2>3. \A n \in 0..m : w[n] = IF n = 0 THEN 0 ELSE w[n-1] + f[n]
    <3> TAKE n \in 0..m
    <3>1. CASE n = m
      BY <2>2, <3>1
    <3>2. CASE n # m
      <4>1. n \in 0..(m-1) /\ (n # 0 => n - 1 \in 0..(m-1) /\ n - 1 # m)
        BY <2>2, <3>2
      <4>2. w[n] = u[n] /\ (n # 0 => w[n-1] = u[n-1])
        BY <2>2, <3>2, <4>1
      <4>3. u[n] = IF n = 0 THEN 0 ELSE u[n-1] + f[n]
        BY <2>1, <4>1
      <4> QED
        BY <4>2, <4>3
    <3> QED
      BY <3>1, <3>2
  <2>4. w = [n \in 0..m |-> IF n = 0 THEN 0 ELSE w[n-1] + f[n]]
    BY <2>3
  <2>5. Sums(m)
    BY <2>4
  <2> QED
    BY <1>0, <2>5
<1>3. SectorCount \in T
  <2> HIDE DEF T
  <2> QED
    BY <1>0, <1>1, <1>2, CountingUp
<1>4. SumsTo(f) = [n \in 0..SectorCount |-> IF n = 0 THEN 0 ELSE SumsTo(f)[n-1] + f[n]]
  BY <1>3 DEF SumsTo
<1> QED
  BY <1>0, <1>4 DEF Sectors

LEMMA SumsTyping ==
    ASSUME NEW f \in [Sectors -> Int]
    PROVE  \A n \in 0..SectorCount : SumsTo(f)[n] \in Int
<1> DEFINE T == {n \in 0..SectorCount : SumsTo(f)[n] \in Int}
<1>0. SectorCount \in Nat
  BY SectorBounds
<1>1. 0 \in T
  BY <1>0, SumsToDef
<1>2. ASSUME NEW n \in 1..SectorCount, n - 1 \in T PROVE n \in T
  <2>1. n \in Sectors /\ n \in 0..SectorCount
    BY <1>0 DEF Sectors
  <2>2. SumsTo(f)[n] = SumsTo(f)[n-1] + f[n] /\ f[n] \in Int
    BY <2>1, SumsToDef
  <2> QED
    BY <1>2, <2>1, <2>2
<1>3. 0..SectorCount \subseteq T
  <2> HIDE DEF T
  <2> QED
    BY <1>0, <1>1, <1>2, CountingUp
<1> QED
  BY <1>3

LEMMA SumTyping ==
    ASSUME NEW f \in [Sectors -> Int]
    PROVE  SumOf(f) \in Int
  BY SumsTyping, SectorBounds DEF SumOf

\* Sums are linear.
LEMMA SumLinear ==
    ASSUME NEW f \in [Sectors -> Int], NEW g \in [Sectors -> Int], NEW h \in [Sectors -> Int],
           NEW k \in Int, \A s \in Sectors : h[s] = k * f[s] + g[s]
    PROVE  SumOf(h) = k * SumOf(f) + SumOf(g)
<1> DEFINE T == {n \in 0..SectorCount : SumsTo(h)[n] = k * SumsTo(f)[n] + SumsTo(g)[n]}
<1>0. SectorCount \in Nat
  BY SectorBounds
<1>1. 0 \in T
  BY <1>0, SumsToDef
<1>2. ASSUME NEW n \in 1..SectorCount, n - 1 \in T PROVE n \in T
  <2>1. n \in Sectors /\ n - 1 \in 0..SectorCount /\ n \in 0..SectorCount
    BY <1>0 DEF Sectors
  <2>2. /\ SumsTo(f)[n-1] \in Int /\ f[n] \in Int
        /\ SumsTo(g)[n-1] \in Int /\ g[n] \in Int
    BY <2>1, SumsTyping
  <2>3. /\ SumsTo(h)[n] = SumsTo(h)[n-1] + h[n]
        /\ SumsTo(f)[n] = SumsTo(f)[n-1] + f[n]
        /\ SumsTo(g)[n] = SumsTo(g)[n-1] + g[n]
    BY <2>1, SumsToDef
  <2>4. /\ h[n] = k * f[n] + g[n]
        /\ SumsTo(h)[n-1] = k * SumsTo(f)[n-1] + SumsTo(g)[n-1]
    BY <1>2, <2>1
  <2>5. SumsTo(h)[n] = k * SumsTo(f)[n] + SumsTo(g)[n]
    BY <2>2, <2>3, <2>4
  <2> QED
    BY <2>1, <2>5
<1>3. 0..SectorCount \subseteq T
  <2> HIDE DEF T
  <2> QED
    BY <1>0, <1>1, <1>2, CountingUp
<1> QED
  BY <1>0, <1>3 DEF SumOf

LEMMA SumMonotone ==
    ASSUME NEW f \in [Sectors -> Int], NEW g \in [Sectors -> Int],
           \A s \in Sectors : f[s] <= g[s]
    PROVE  SumOf(f) <= SumOf(g)
<1> DEFINE T == {n \in 0..SectorCount : SumsTo(f)[n] <= SumsTo(g)[n]}
<1>0. SectorCount \in Nat
  BY SectorBounds
<1>1. 0 \in T
  BY <1>0, SumsToDef
<1>2. ASSUME NEW n \in 1..SectorCount, n - 1 \in T PROVE n \in T
  <2>1. n \in Sectors /\ n - 1 \in 0..SectorCount /\ n \in 0..SectorCount
    BY <1>0 DEF Sectors
  <2>2. /\ SumsTo(f)[n-1] \in Int /\ f[n] \in Int
        /\ SumsTo(g)[n-1] \in Int /\ g[n] \in Int
    BY <2>1, SumsTyping
  <2>3. /\ SumsTo(f)[n] = SumsTo(f)[n-1] + f[n]
        /\ SumsTo(g)[n] = SumsTo(g)[n-1] + g[n]
    BY <2>1, SumsToDef
  <2> QED
    BY <1>2, <2>1, <2>2, <2>3
<1>3. 0..SectorCount \subseteq T
  <2> HIDE DEF T
  <2> QED
    BY <1>0, <1>1, <1>2, CountingUp
<1> QED
  BY <1>0, <1>3 DEF SumOf

Indicator(S) == [s \in Sectors |-> IF s \in S THEN 1 ELSE 0]
Zeros == [s \in Sectors |-> 0]

LEMMA SumIndicator ==
    ASSUME NEW S \in SUBSET Sectors
    PROVE  IsFiniteSet(S) /\ SumOf(Indicator(S)) = Cardinality(S)
<1> DEFINE f == Indicator(S)
           Upto(n) == {s \in S : s <= n}
           T == {n \in 0..SectorCount :
                    IsFiniteSet(Upto(n)) /\ SumsTo(f)[n] = Cardinality(Upto(n))}
<1>0. SectorCount \in Nat /\ \A s \in S : s \in Nat /\ s >= 1 /\ s <= SectorCount
  BY SectorBounds DEF Sectors
<1>1. 0 \in T
  <2>1. Upto(0) = {}
    BY <1>0
  <2>2. SumsTo(f)[0] = 0
    BY SumsToDef
  <2>3. IsFiniteSet(Upto(0)) /\ Cardinality(Upto(0)) = 0
    BY <2>1, FS_EmptySet
  <2> QED
    BY <1>0, <2>2, <2>3
<1>2. ASSUME NEW n \in 1..SectorCount, n - 1 \in T PROVE n \in T
  <2>1. n \in Sectors /\ n - 1 \in 0..SectorCount /\ n \in 0..SectorCount
    BY <1>0 DEF Sectors
  <2>2. IsFiniteSet(Upto(n-1)) /\ SumsTo(f)[n-1] = Cardinality(Upto(n-1))
    BY <1>2
  <2>3. SumsTo(f)[n] = SumsTo(f)[n-1] + f[n]
    BY <2>1, SumsToDef
  <2>4. n \notin Upto(n-1)
    BY <2>1
  <2>5. CASE n \in S
    <3>1. Upto(n) = Upto(n-1) \cup {n}
      <4>1. \A s \in S : s <= n <=> s <= n - 1 \/ s = n
        BY <1>0, <2>1
      <4> QED
        BY <2>1, <2>5, <4>1
    <3>2. f[n] = 1
      BY <2>1, <2>5 DEF Indicator
    <3>3. IsFiniteSet(Upto(n)) /\ Cardinality(Upto(n)) = Cardinality(Upto(n-1)) + 1
      <4> HIDE DEF Upto
      <4> QED
        BY <2>2, <2>4, <3>1, FS_AddElement
    <3> QED
      BY <2>1, <2>2, <2>3, <3>2, <3>3
  <2>6. CASE n \notin S
    <3>1. Upto(n) = Upto(n-1)
      BY <1>0, <2>6
    <3>2. f[n] = 0
      BY <2>1, <2>6 DEF Indicator
    <3>3. Cardinality(Upto(n-1)) \in Nat
      BY <2>2, FS_CardinalityType
    <3>4. SumsTo(f)[n] = Cardinality(Upto(n))
      BY <2>2, <2>3, <3>1, <3>2, <3>3
    <3>5. IsFiniteSet(Upto(n))
      BY <2>2, <3>1
    <3> QED
      BY <2>1, <3>4, <3>5
  <2> QED
    BY <2>5, <2>6
<1>3. 0..SectorCount \subseteq T
  <2> HIDE DEF T
  <2> QED
    BY <1>0, <1>1, <1>2, CountingUp
<1>4. Upto(SectorCount) = S
  BY <1>0
<1> QED
  BY <1>0, <1>3, <1>4 DEF SumOf

-----------------------------------------------------------------------------
(* Shares and percentages                                                  *)

LEMMA DivMod ==
    ASSUME NEW a \in Nat, NEW b \in Nat, b > 0, NEW q, NEW r, q = a \div b, r = a % b
    PROVE  q \in Nat /\ r \in Nat /\ r < b /\ a = b * q + r
<1>1. q \in Nat /\ r \in Nat /\ r < b
  OBVIOUS
<1>2. r = a - b * q
  OBVIOUS
<1> QED
  BY <1>1, <1>2

\* A part of the samples is at most 100 percent of them.
LEMMA PercentBounds ==
    ASSUME NEW t \in Nat, t > 0, NEW n \in 0..t
    PROVE  Rint(100 * n, t) \in 0..100
<1> DEFINE q == (100 * n) \div t  r == (100 * n) % t
<1>1. q \in Nat /\ r \in Nat /\ r < t /\ 100 * n = t * q + r
  BY DivMod
<1> HIDE DEF q, r
<1>2. q <= 100
  <2>1. SUFFICES ASSUME q >= 101 PROVE FALSE
    BY <1>1
  <2>2. t * q >= t * 101
    BY <1>1, <2>1
  <2> QED
    BY <1>1, <2>2
<1>3. q = 100 => r = 0
  BY <1>1
<1>4. Rint(100 * n, t) = q + (IF 2 * r > t \/ (2 * r = t /\ q % 2 = 1) THEN 1 ELSE 0)
  BY DEF Rint, q, r
<1>5. q = 100 => Rint(100 * n, t) = 100
  BY <1>1, <1>3, <1>4
<1> QED
  BY <1>1, <1>2, <1>4, <1>5

LEMMA SampleTyping ==
    ASSUME NEW a \in Samples
    PROVE  /\ a.count \in [Sectors -> Int] /\ \A s \in Sectors : a.count[s] \in Nat
           /\ TotalOf(a) \in Nat
           /\ a.calm \in 0..TotalOf(a) /\ a.gale \in 0..TotalOf(a)
<1>1. a.count \in [Sectors -> Nat] /\ a.calm \in 0..SumOf(a.count) /\ a.gale \in 0..SumOf(a.count)
  BY AtlasAssumption
<1>2. Zeros \in [Sectors -> Int] /\ a.count \in [Sectors -> Int]
  BY <1>1 DEF Zeros
<1>3. SumOf(a.count) \in Int
  BY <1>2, SumTyping
<1>4. a.calm \in Nat /\ SumOf(a.count) \in Nat
  BY <1>1, <1>3
<1> QED
  BY <1>1, <1>2, <1>4 DEF TotalOf

LEMMA ValidTotal ==
    ASSUME NEW a \in Samples, Valid(a)
    PROVE  /\ TotalOf(a) \in Nat /\ TotalOf(a) > 0
           /\ Percent(a.calm, a) \in 0..100 /\ Percent(a.gale, a) \in 0..100
<1>1. TotalOf(a) \in Nat /\ TotalOf(a) > 0
  BY SampleTyping, SectorBounds DEF Valid
<1>2. a.calm \in 0..TotalOf(a) /\ a.gale \in 0..TotalOf(a)
  BY SampleTyping
<1> QED
  BY <1>1, <1>2, PercentBounds DEF Percent

-----------------------------------------------------------------------------
(* Largest remainders                                                      *)

AheadOf(lost, s) == {t \in Sectors : lost[t] > lost[s] \/ (lost[t] = lost[s] /\ t < s)}
RankOf(lost, s) == Cardinality(AheadOf(lost, s))

LEMMA SectorsFinite == IsFiniteSet(Sectors) /\ Cardinality(Sectors) = SectorCount
  BY FS_Interval, SectorBounds DEF Sectors

\* Ranks number the sectors.
LEMMA RanksDiffer ==
    ASSUME NEW lost \in [Sectors -> Int]
    PROVE  /\ \A s \in Sectors : RankOf(lost, s) \in 0..(SectorCount - 1)
           /\ \A s, t \in Sectors : s # t => RankOf(lost, s) # RankOf(lost, t)
<1>1. ASSUME NEW s \in Sectors
      PROVE  IsFiniteSet(AheadOf(lost, s)) /\ RankOf(lost, s) \in 0..(SectorCount - 1)
  <2>1. AheadOf(lost, s) \in SUBSET Sectors /\ s \notin AheadOf(lost, s)
    BY SectorBounds DEF AheadOf, Sectors
  <2>2. IsFiniteSet(AheadOf(lost, s)) /\ RankOf(lost, s) \in Nat /\ RankOf(lost, s) <= SectorCount
    BY <2>1, SectorsFinite, FS_Subset, FS_CardinalityType DEF RankOf
  <2>3. RankOf(lost, s) # SectorCount
    BY <2>1, SectorsFinite, FS_Subset DEF RankOf
  <2> QED
    BY <2>2, <2>3, SectorBounds
<1>2. ASSUME NEW s \in Sectors, NEW t \in Sectors, t \in AheadOf(lost, s)
      PROVE  RankOf(lost, t) < RankOf(lost, s)
  <2>1. \A u \in Sectors : u \in Int /\ lost[u] \in Int
    BY SectorBounds DEF Sectors
  <2>2. AheadOf(lost, t) \subseteq AheadOf(lost, s) /\ t \notin AheadOf(lost, t)
    BY <1>2, <2>1 DEF AheadOf
  <2>3. /\ IsFiniteSet(AheadOf(lost, s)) /\ IsFiniteSet(AheadOf(lost, t))
        /\ RankOf(lost, s) \in Nat /\ RankOf(lost, t) \in Nat
    BY <1>1, SectorBounds
  <2>4. RankOf(lost, t) <= RankOf(lost, s) /\ RankOf(lost, t) # RankOf(lost, s)
    BY <1>2, <2>2, <2>3, FS_Subset DEF RankOf
  <2> QED
    BY <2>3, <2>4
<1>3. ASSUME NEW s \in Sectors, NEW t \in Sectors, s # t
      PROVE  t \in AheadOf(lost, s) \/ s \in AheadOf(lost, t)
  <2>1. \A u \in Sectors : u \in Int /\ lost[u] \in Int
    BY SectorBounds DEF Sectors
  <2> QED
    BY <1>3, <2>1 DEF AheadOf
<1>4. \A s \in Sectors : RankOf(lost, s) \in Int
  BY <1>1, SectorBounds
<1>5. ASSUME NEW s \in Sectors, NEW t \in Sectors, s # t
      PROVE  RankOf(lost, s) # RankOf(lost, t)
  BY <1>2, <1>3, <1>4, <1>5
<1> QED
  BY <1>1, <1>5

\* So of any number of ones handed out by rank, each goes to a sector.
LEMMA RanksBelow ==
    ASSUME NEW lost \in [Sectors -> Int], NEW left \in 0..SectorCount
    PROVE  Cardinality({s \in Sectors : RankOf(lost, s) < left}) = left
<1> DEFINE rank == [s \in Sectors |-> RankOf(lost, s)]
           Low == {s \in Sectors : RankOf(lost, s) < left}
           low == [s \in Low |-> RankOf(lost, s)]
<1>0. SectorCount \in Nat /\ left \in Nat
  BY SectorBounds
<1>1. rank \in Injection(Sectors, 0..(SectorCount - 1))
  BY RanksDiffer DEF Injection, IsInjective
<1>2. IsFiniteSet(0..(SectorCount - 1)) /\ Cardinality(0..(SectorCount - 1)) = SectorCount
  BY <1>0, SectorBounds, FS_Interval
<1>3. rank \in Surjection(Sectors, 0..(SectorCount - 1))
  <2> HIDE DEF rank
  <2> QED
    BY <1>1, <1>2, SectorsFinite, FS_Injection
<1>4. \A r \in 0..(left - 1) : \E s \in Low : low[s] = r
  <2> TAKE r \in 0..(left - 1)
  <2>1. r \in 0..(SectorCount - 1) /\ r < left
    BY <1>0
  <2>2. PICK s \in Sectors : rank[s] = r
    BY <1>3, <2>1 DEF Surjection
  <2> QED
    BY <2>1, <2>2
<1>5. \A s \in Low : low[s] \in 0..(left - 1)
  BY <1>0, RanksDiffer
<1>6. \A s, t \in Low : s # t => low[s] # low[t]
  BY RanksDiffer
<1>7. low \in Bijection(Low, 0..(left - 1))
  BY <1>4, <1>5, <1>6 DEF Bijection, Injection, Surjection, IsInjective
<1>8. IsFiniteSet(Low)
  BY SectorsFinite, FS_Subset
<1>9. Cardinality(0..(left - 1)) = left
  BY <1>0, FS_Interval
<1> QED
  <2> HIDE DEF Low, low
  <2>1. Cardinality(Low) = left
    BY <1>7, <1>8, <1>9, FS_Bijection DEF ExistsBijection
  <2> QED
    BY <2>1 DEF Low

\* The shares of a valid cell make up the whole, and each is less than one off
\* the exact share: what was lost by rounding down is less than the sectors
\* that lost anything, and these come before the others.
LEMMA FrequencyExact ==
    ASSUME NEW a \in Samples, Valid(a)
    PROVE  /\ Frequency(a) \in [Sectors -> Nat]
           /\ SharesOf(a, Frequency(a))
<1> DEFINE total == TotalOf(a)
           scaled == [s \in Sectors |-> a.count[s] * Resolution]
           down == [s \in Sectors |-> (a.count[s] * Resolution) \div total]
           lost == [s \in Sectors |-> (a.count[s] * Resolution) % total]
           left == Resolution - SumOf(down)
           Some == {s \in Sectors : lost[s] > 0}
           Low == {s \in Sectors : RankOf(lost, s) < left}
<1>0. total \in Nat /\ total > 0 /\ Resolution \in Nat /\ SectorCount \in Nat
  BY ValidTotal, SectorBounds
<1>1. \A s \in Sectors : a.count[s] \in Nat /\ a.count[s] * Resolution \in Nat
  BY <1>0, SampleTyping
<1>2. ASSUME NEW s \in Sectors
      PROVE  /\ scaled[s] \in Nat /\ down[s] \in Nat /\ lost[s] \in Nat /\ lost[s] < total
             /\ scaled[s] = total * down[s] + lost[s]
  <2> DEFINE x == a.count[s] * Resolution
  <2>1. x \in Nat
    BY <1>1
  <2>2. scaled[s] = x /\ down[s] = x \div total /\ lost[s] = x % total
    OBVIOUS
  <2> HIDE DEF x, total, scaled, down, lost
  <2>3. ASSUME NEW q, NEW r, q = x \div total, r = x % total
        PROVE  q \in Nat /\ r \in Nat /\ r < total /\ x = total * q + r
    BY <1>0, <2>1, <2>3, DivMod
  <2> QED
    BY <2>1, <2>2, <2>3
<1>3. /\ scaled \in [Sectors -> Int] /\ down \in [Sectors -> Int] /\ lost \in [Sectors -> Int]
      /\ Zeros \in [Sectors -> Int] /\ Indicator(Some) \in [Sectors -> Int]
      /\ Indicator(Low) \in [Sectors -> Int]
  BY <1>2 DEF Zeros, Indicator
<1>4. Frequency(a) = [s \in Sectors |-> down[s] + (IF RankOf(lost, s) < left THEN 1 ELSE 0)]
  BY DEF Frequency, RankOf, AheadOf
<1>5. total * SumOf(down) + SumOf(lost) = Resolution * total
  <2>1. \A s \in Sectors : scaled[s] = Resolution * a.count[s] + Zeros[s]
    BY <1>0, <1>1 DEF Zeros
  <2>2. SumOf(scaled) = Resolution * SumOf(a.count) + SumOf(Zeros)
    <3>1. scaled \in [Sectors -> Int] /\ a.count \in [Sectors -> Int] /\ Zeros \in [Sectors -> Int]
      BY <1>3, SampleTyping
    <3> HIDE DEF scaled
    <3> QED
      BY <1>0, <2>1, <3>1, SumLinear
  <2>3. SumOf(scaled) = total * SumOf(down) + SumOf(lost)
    <3>1. \A s \in Sectors : scaled[s] = total * down[s] + lost[s]
      BY <1>2
    <3>2. /\ scaled \in [Sectors -> Int] /\ down \in [Sectors -> Int]
          /\ lost \in [Sectors -> Int] /\ total \in Int
      BY <1>0, <1>3
    <3> HIDE DEF scaled, down, lost, total
    <3> QED
      BY <3>1, <3>2, SumLinear
  <2>4. SumOf(Zeros) = 0
    <3>1. Zeros = Indicator({}) /\ {} \in SUBSET Sectors
      BY DEF Zeros, Indicator
    <3> QED
      BY <3>1, SumIndicator, FS_EmptySet
  <2>5. SumOf(a.count) = total
    BY DEF TotalOf
  <2>6. SumOf(down) \in Int /\ SumOf(lost) \in Int
    BY <1>3, SumTyping
  <2> HIDE DEF total, scaled, down, lost
  <2> QED
    BY <1>0, <2>2, <2>3, <2>4, <2>5, <2>6
<1>6. left \in Int /\ total * left = SumOf(lost)
  <2>1. SumOf(down) \in Int /\ SumOf(lost) \in Int
    BY <1>3, SumTyping
  <2>2. total * left = total * Resolution - total * SumOf(down)
    BY <1>0, <2>1
  <2> QED
    BY <1>0, <1>5, <2>1, <2>2
<1>7. SumOf(lost) >= 0 /\ SumOf(lost) <= (total - 1) * Cardinality(Some)
  <2>1. SumOf(Zeros) = 0
    <3>1. Zeros = Indicator({}) /\ {} \in SUBSET Sectors
      BY DEF Zeros, Indicator
    <3> QED
      BY <3>1, SumIndicator, FS_EmptySet
  <2>2. \A s \in Sectors : Zeros[s] <= lost[s]
    BY <1>2 DEF Zeros
  <2>3. SumOf(Zeros) <= SumOf(lost)
    <3> HIDE DEF lost
    <3> QED
      BY <1>3, <2>2, SumMonotone
  <2> DEFINE most == [s \in Sectors |-> (total - 1) * Indicator(Some)[s] + Zeros[s]]
  <2>4. \A s \in Sectors : most[s] = (total - 1) * Indicator(Some)[s] + Zeros[s] /\ lost[s] <= most[s]
    <3> TAKE s \in Sectors
    <3>1. Indicator(Some)[s] = IF lost[s] > 0 THEN 1 ELSE 0
      BY DEF Indicator
    <3>2. Zeros[s] = 0
      BY DEF Zeros
    <3>3. lost[s] \in Nat /\ lost[s] < total
      BY <1>2
    <3> HIDE DEF lost, Some
    <3> QED
      BY <1>0, <3>1, <3>2, <3>3
  <2>5. most \in [Sectors -> Int] /\ total - 1 \in Int
    <3>1. \A s \in Sectors : Indicator(Some)[s] \in Int /\ Zeros[s] \in Int
      BY <1>3
    <3> HIDE DEF Some, lost
    <3> QED
      BY <1>0, <3>1
  <2>6. SumOf(lost) <= SumOf(most)
    <3> HIDE DEF lost, most
    <3> QED
      BY <1>3, <2>4, <2>5, SumMonotone
  <2>7. SumOf(most) = (total - 1) * SumOf(Indicator(Some)) + SumOf(Zeros)
    <3> HIDE DEF most, Some, lost, total
    <3> QED
      BY <1>3, <2>4, <2>5, SumLinear
  <2>8. SumOf(Indicator(Some)) = Cardinality(Some) /\ SumOf(Indicator(Some)) \in Int
    BY <1>3, SumIndicator, SumTyping
  <2>9. SumOf(lost) \in Int /\ SumOf(most) \in Int
    BY <1>3, <2>5, SumTyping
  <2> HIDE DEF most, lost, Some, total
  <2> QED
    BY <1>0, <2>1, <2>3, <2>6, <2>7, <2>8, <2>9
<1>8. Cardinality(Some) \in Nat /\ Cardinality(Some) <= SectorCount /\ IsFiniteSet(Some)
  BY SectorsFinite, FS_Subset, FS_CardinalityType
<1>9. left >= 0 /\ left <= Cardinality(Some)
  <2> DEFINE P == Cardinality(Some)
  <2>1. P \in Nat /\ total * left >= 0 /\ total * left <= (total - 1) * P
    BY <1>6, <1>7, <1>8
  <2>2. left \in Int
    BY <1>6
  <2> HIDE DEF P, left, total
  <2>3. left >= 0
    <3>1. SUFFICES ASSUME left <= -1 PROVE FALSE
      BY <2>2
    <3>2. total * left <= total * (-1)
      BY <1>0, <2>2, <3>1
    <3> QED
      BY <1>0, <2>1, <2>2, <3>2
  <2>4. left <= P
    <3>1. SUFFICES ASSUME left >= P + 1 PROVE FALSE
      BY <2>1, <2>2
    <3>2. total * left >= total * (P + 1)
      BY <1>0, <2>1, <2>2, <3>1
    <3>3. total * (P + 1) = total * P + total /\ (total - 1) * P = total * P - P
      BY <1>0, <2>1
    <3>4. total * P \in Int /\ total * left \in Int
      BY <1>0, <2>1, <2>2
    <3> QED
      BY <1>0, <2>1, <3>2, <3>3, <3>4
  <2> QED
    BY <2>3, <2>4 DEF P
<1>10. SumOf(Frequency(a)) = Resolution
  <2> DEFINE k == 1
  <2>1. \A s \in Sectors : Frequency(a)[s] = k * down[s] + Indicator(Low)[s]
    BY <1>2, <1>4 DEF Indicator
  <2>2. Frequency(a) \in [Sectors -> Int]
    BY <1>2, <1>4
  <2>3. SumOf(Frequency(a)) = k * SumOf(down) + SumOf(Indicator(Low))
    <3>1. k \in Int
      OBVIOUS
    <3> HIDE DEF down, Low, k
    <3> QED
      BY <1>3, <2>1, <2>2, <3>1, SumLinear
  <2>4. left \in 0..SectorCount
    <3>1. left \in Int
      BY <1>6
    <3> HIDE DEF left, Some
    <3> QED
      BY <1>0, <1>8, <1>9, <3>1
  <2>5. SumOf(Indicator(Low)) = Cardinality(Low)
    BY SumIndicator
  <2>6. Cardinality(Low) = left
    <3> HIDE DEF left, lost
    <3> QED
      BY <1>3, <2>4, RanksBelow
  <2>7. SumOf(down) \in Int
    BY <1>3, SumTyping
  <2> HIDE DEF down, Low
  <2> QED
    BY <1>0, <2>3, <2>5, <2>6, <2>7
<1>11. ASSUME NEW s \in Sectors, RankOf(lost, s) < left
       PROVE  lost[s] > 0
  <2>1. SUFFICES ASSUME lost[s] = 0 PROVE FALSE
    BY <1>2
  <2>2. \A t \in Some : lost[t] > lost[s]
    BY <2>1
  <2>3. Some \in SUBSET AheadOf(lost, s)
    BY <2>2 DEF AheadOf
  <2>4. AheadOf(lost, s) \in SUBSET Sectors
    BY DEF AheadOf
  <2>5. IsFiniteSet(AheadOf(lost, s))
    BY <2>4, SectorsFinite, FS_Subset
  <2>6. Cardinality(Some) <= RankOf(lost, s) /\ RankOf(lost, s) \in Nat
    BY <2>3, <2>5, FS_Subset, FS_CardinalityType DEF RankOf
  <2> HIDE DEF left, Some
  <2> QED
    BY <1>6, <1>8, <1>9, <1>11, <2>6
<1>12. ASSUME NEW s \in Sectors
       PROVE  LET error == Frequency(a)[s] * total - scaled[s]
              IN  -total < error /\ error < total
  <2>1. /\ scaled[s] = total * down[s] + lost[s] /\ down[s] \in Nat
        /\ lost[s] \in Nat /\ lost[s] < total
    BY <1>2
  <2>2. Frequency(a)[s] = IF RankOf(lost, s) < left THEN down[s] + 1 ELSE down[s]
    BY <1>4, <2>1
  <2>3. RankOf(lost, s) < left => lost[s] > 0
    BY <1>11
  <2> HIDE DEF total, scaled, down, lost, left
  <2>4. /\ (down[s] + 1) * total = total * down[s] + total
        /\ down[s] * total = total * down[s] /\ total * down[s] \in Int
    BY <1>0, <2>1
  <2> QED
    BY <1>0, <2>1, <2>2, <2>3, <2>4
<1>13. Frequency(a) \in [Sectors -> Nat]
  BY <1>2, <1>4
<1> QED
  BY <1>10, <1>12, <1>13 DEF SharesOf

-----------------------------------------------------------------------------
(* Turns of the loops                                                      *)

LEMMA TurnCountNat == TurnCount \in Nat
  BY SectorBounds DEF TurnCount

\* A turn is a pass and a cell, and no two turns are the same.
LEMMA TurnParts ==
    ASSUME NEW i \in 1..TurnCount
    PROVE  /\ PassAt(i) \in 0..(2 * SectorCount) /\ CellAt(i) \in Cells
           /\ i = PassAt(i) * CellCount + CellAt(i)
           /\ PassAt(i) > 0 => SectorAt(i) \in Sectors
<1> DEFINE x == i - 1  q == x \div CellCount  r == x % CellCount
<1>0. CellCount \in Nat /\ CellCount > 0 /\ SectorCount \in Nat /\ x \in Nat
        /\ x < TurnCount /\ i = x + 1 /\ i \in Int
  BY SectorBounds, TurnCountNat
<1>1. PassAt(i) = q /\ CellAt(i) = r + 1
  BY DEF PassAt, CellAt
<1> HIDE DEF x
<1>2. q \in Nat /\ r \in Nat /\ r < CellCount /\ x = CellCount * q + r
  <2>1. x \in Nat /\ CellCount \in Nat /\ CellCount > 0
    BY <1>0
  <2>2. q = x \div CellCount /\ r = x % CellCount
    OBVIOUS
  <2>3. ASSUME NEW k, NEW l, k = x \div CellCount, l = x % CellCount
        PROVE  k \in Nat /\ l \in Nat /\ l < CellCount /\ x = CellCount * k + l
    <3>1. k \in Nat /\ l \in Nat /\ l < CellCount
      BY <2>1, <2>3
    <3>2. l = x - CellCount * k
      BY <2>1, <2>3
    <3> QED
      BY <2>1, <3>1, <3>2
  <2> HIDE DEF q, r
  <2> QED
    BY <2>2, <2>3
<1> HIDE DEF q, r
<1>3. q <= 2 * SectorCount
  <2>1. SUFFICES ASSUME q >= 2 * SectorCount + 1 PROVE FALSE
    BY <1>0, <1>2
  <2>2. CellCount * q >= CellCount * (2 * SectorCount + 1)
    BY <1>0, <1>2, <2>1
  <2>3. TurnCount = CellCount * (2 * SectorCount + 1)
    BY <1>0 DEF TurnCount
  <2> QED
    BY <1>0, <1>2, <2>2, <2>3, TurnCountNat
<1>4. q * CellCount = CellCount * q /\ CellCount * q \in Nat
  BY <1>0, <1>2
<1>5. i = q * CellCount + (r + 1)
  BY <1>0, <1>2, <1>4
<1>6. q > 0 => (IF q > SectorCount THEN q - SectorCount ELSE q) \in 1..SectorCount
  BY <1>0, <1>2, <1>3
<1> QED
  BY <1>0, <1>1, <1>2, <1>3, <1>5, <1>6 DEF Cells, Sectors, SectorAt

LEMMA TurnsDiffer ==
    ASSUME NEW p \in Nat, NEW q \in Nat, NEW c \in Cells, NEW d \in Cells,
           p * CellCount + c = q * CellCount + d
    PROVE  p = q /\ c = d
<1>0. CellCount \in Nat /\ CellCount > 0 /\ c \in 1..CellCount /\ d \in 1..CellCount
  BY SectorBounds DEF Cells
<1>1. ASSUME NEW m \in Nat, NEW n \in Nat, m < n
      PROVE  n * CellCount >= m * CellCount + CellCount
  <2>1. n * CellCount >= (m + 1) * CellCount
    BY <1>0, <1>1
  <2> QED
    BY <1>0, <2>1
<1>2. p * CellCount \in Nat /\ q * CellCount \in Nat
  BY <1>0
<1>3. ~(p < q)
  BY <1>0, <1>1, <1>2
<1>4. ~(q < p)
  BY <1>0, <1>1, <1>2
<1>5. p = q
  BY <1>3, <1>4
<1> QED
  BY <1>0, <1>2, <1>5

\* The turn of pass p and cell c is one of the first i.
Past(p, c, i) == p * CellCount + c <= i

LEMMA PastStep ==
    ASSUME NEW i \in 1..TurnCount, NEW p \in 0..(2 * SectorCount), NEW c \in Cells
    PROVE  /\ Past(p, c, i) <=> Past(p, c, i - 1) \/ (p = PassAt(i) /\ c = CellAt(i))
           /\ p < PassAt(i) => Past(p, CellAt(i), i - 1)
<1>0. /\ CellCount \in Nat /\ CellCount > 0 /\ c \in 1..CellCount /\ c \in Nat
      /\ p \in Nat /\ i \in Int /\ p * CellCount \in Nat
  BY SectorBounds, TurnCountNat DEF Cells
<1>1. /\ PassAt(i) \in Nat /\ CellAt(i) \in Cells
      /\ i = PassAt(i) * CellCount + CellAt(i)
  BY TurnParts, SectorBounds
<1>2. p * CellCount + c = i => p = PassAt(i) /\ c = CellAt(i)
  BY <1>0, <1>1, TurnsDiffer
<1>3. Past(p, c, i) <=> Past(p, c, i - 1) \/ (p = PassAt(i) /\ c = CellAt(i))
  BY <1>0, <1>1, <1>2 DEF Past
<1>4. ASSUME p < PassAt(i) PROVE Past(p, CellAt(i), i - 1)
  <2> DEFINE q == PassAt(i)  d == CellAt(i)
  <2>1. q \in Nat /\ d \in Nat /\ p < q /\ i = q * CellCount + d
    BY <1>0, <1>1, <1>4 DEF Cells
  <2> HIDE DEF q, d
  <2>2. q * CellCount >= (p + 1) * CellCount
    BY <1>0, <2>1
  <2>3. q * CellCount >= p * CellCount + CellCount /\ q * CellCount \in Nat
    BY <1>0, <2>1, <2>2
  <2>4. p * CellCount + d <= i - 1
    BY <1>0, <2>1, <2>3
  <2> QED
    BY <2>4 DEF Past, d
<1> QED
  BY <1>3, <1>4

LEMMA PastEnds ==
    ASSUME NEW p \in 0..(2 * SectorCount), NEW c \in Cells
    PROVE  ~Past(p, c, 0) /\ Past(p, c, TurnCount)
<1>0. /\ CellCount \in Nat /\ CellCount > 0 /\ c \in 1..CellCount /\ c \in Nat
      /\ p \in Nat /\ p * CellCount \in Nat /\ SectorCount \in Nat
  BY SectorBounds DEF Cells
<1>1. p * CellCount <= (2 * SectorCount) * CellCount
  BY <1>0
<1>2. (2 * SectorCount + 1) * CellCount = (2 * SectorCount) * CellCount + CellCount
  BY <1>0
<1>3. (2 * SectorCount) * CellCount \in Nat
  BY <1>0
<1> QED
  BY <1>0, <1>1, <1>2, <1>3 DEF Past, TurnCount

\* The stream and the reading are what their recursions say.
LEMMA StreamDef ==
    ASSUME NEW atlas
    PROVE  /\ Stream(atlas)[0] = <<>>
           /\ \A n \in 1..TurnCount : Stream(atlas)[n] = WriteValue(atlas, Stream(atlas)[n-1], n)
<1> DEFINE Runs(m) == \E u : u = [n \in 0..m |-> IF n = 0 THEN <<>> ELSE WriteValue(atlas, u[n-1], n)]
           T == {m \in 0..TurnCount : Runs(m)}
<1>0. TurnCount \in Nat
  BY TurnCountNat
<1>1. 0 \in T
  <2> DEFINE m == 0
             u == [n \in 0..0 |-> <<>>]
  <2>1. u = [n \in 0..m |-> IF n = 0 THEN <<>> ELSE WriteValue(atlas, u[n-1], n)]
    OBVIOUS
  <2>2. Runs(0)
    BY <2>1
  <2> QED
    BY <1>0, <2>2
<1>2. ASSUME NEW m \in 1..TurnCount, m - 1 \in T PROVE m \in T
  <2>1. PICK u : u = [n \in 0..(m-1) |-> IF n = 0 THEN <<>> ELSE WriteValue(atlas, u[n-1], n)]
    BY <1>2
  <2> DEFINE w == [n \in 0..m |-> IF n = m THEN WriteValue(atlas, u[n-1], n) ELSE u[n]]
  <2>2. m \in Nat /\ m # 0 /\ m - 1 \in 0..(m-1)
    BY <1>0
  <2>3. \A n \in 0..m : w[n] = IF n = 0 THEN <<>> ELSE WriteValue(atlas, w[n-1], n)
    <3> TAKE n \in 0..m
    <3>1. CASE n = m
      BY <2>2, <3>1
    <3>2. CASE n # m
      <4>1. n \in 0..(m-1) /\ (n # 0 => n - 1 \in 0..(m-1) /\ n - 1 # m)
        BY <2>2, <3>2
      <4>2. w[n] = u[n] /\ (n # 0 => w[n-1] = u[n-1])
        BY <2>2, <3>2, <4>1
      <4>3. u[n] = IF n = 0 THEN <<>> ELSE WriteValue(atlas, u[n-1], n)
        BY <2>1, <4>1
      <4> HIDE DEF w
      <4> QED
        BY <4>2, <4>3
    <3> QED
      BY <3>1, <3>2
  <2>4. w = [n \in 0..m |-> IF n = 0 THEN <<>> ELSE WriteValue(atlas, w[n-1], n)]
    <3>1. w = [n \in 0..m |-> w[n]]
      OBVIOUS
    <3> HIDE DEF w
    <3> QED
      BY <2>3, <3>1
  <2>5. Runs(m)
    BY <2>4
  <2> HIDE DEF Runs
  <2> QED
    BY <1>0, <2>5
<1>3. TurnCount \in T
  <2> HIDE DEF T
  <2> QED
    BY <1>0, <1>1, <1>2, CountingUp
<1>4. Stream(atlas) = [n \in 0..TurnCount |-> IF n = 0 THEN <<>> ELSE WriteValue(atlas, Stream(atlas)[n-1], n)]
  BY <1>3 DEF Stream
<1> QED
  BY <1>0, <1>4

LEMMA ReadingDef ==
    ASSUME NEW file
    PROVE  /\ ReadSoFar(file)[0] = Unread
           /\ \A n \in 1..TurnCount : ReadSoFar(file)[n] = ReadValue(file, ReadSoFar(file)[n-1], n)
<1> DEFINE Runs(m) == \E u : u = [n \in 0..m |-> IF n = 0 THEN Unread ELSE ReadValue(file, u[n-1], n)]
           T == {m \in 0..TurnCount : Runs(m)}
<1>0. TurnCount \in Nat
  BY TurnCountNat
<1>1. 0 \in T
  <2> DEFINE m == 0
             u == [n \in 0..0 |-> Unread]
  <2>1. u = [n \in 0..m |-> IF n = 0 THEN Unread ELSE ReadValue(file, u[n-1], n)]
    OBVIOUS
  <2>2. Runs(0)
    BY <2>1
  <2> QED
    BY <1>0, <2>2
<1>2. ASSUME NEW m \in 1..TurnCount, m - 1 \in T PROVE m \in T
  <2>1. PICK u : u = [n \in 0..(m-1) |-> IF n = 0 THEN Unread ELSE ReadValue(file, u[n-1], n)]
    BY <1>2
  <2> DEFINE w == [n \in 0..m |-> IF n = m THEN ReadValue(file, u[n-1], n) ELSE u[n]]
  <2>2. m \in Nat /\ m # 0 /\ m - 1 \in 0..(m-1)
    BY <1>0
  <2>3. \A n \in 0..m : w[n] = IF n = 0 THEN Unread ELSE ReadValue(file, w[n-1], n)
    <3> TAKE n \in 0..m
    <3>1. CASE n = m
      BY <2>2, <3>1
    <3>2. CASE n # m
      <4>1. n \in 0..(m-1) /\ (n # 0 => n - 1 \in 0..(m-1) /\ n - 1 # m)
        BY <2>2, <3>2
      <4>2. w[n] = u[n] /\ (n # 0 => w[n-1] = u[n-1])
        BY <2>2, <3>2, <4>1
      <4>3. u[n] = IF n = 0 THEN Unread ELSE ReadValue(file, u[n-1], n)
        BY <2>1, <4>1
      <4> HIDE DEF w
      <4> QED
        BY <4>2, <4>3
    <3> QED
      BY <3>1, <3>2
  <2>4. w = [n \in 0..m |-> IF n = 0 THEN Unread ELSE ReadValue(file, w[n-1], n)]
    <3>1. w = [n \in 0..m |-> w[n]]
      OBVIOUS
    <3> HIDE DEF w
    <3> QED
      BY <2>3, <3>1
  <2>5. Runs(m)
    BY <2>4
  <2> HIDE DEF Runs
  <2> QED
    BY <1>0, <2>5
<1>3. TurnCount \in T
  <2> HIDE DEF T
  <2> QED
    BY <1>0, <1>1, <1>2, CountingUp
<1>4. ReadSoFar(file) = [n \in 0..TurnCount |-> IF n = 0 THEN Unread ELSE ReadValue(file, ReadSoFar(file)[n-1], n)]
  BY <1>3 DEF ReadSoFar
<1> QED
  BY <1>0, <1>4

-----------------------------------------------------------------------------
(* What is written                                                         *)

\* A marker tells a missing cell, a gale and a calm apart.
LEMMA MarkerTells ==
    ASSUME NEW a \in Samples
    PROVE  /\ Marker(a) \in Nat
           /\ ~Valid(a) => Marker(a) = 255
           /\ Valid(a) =>
                LET pair == CalmAndGale(a) IN
                /\ pair.calm \in 0..100 /\ pair.gale \in 0..100
                /\ Marker(a) <= 200
                /\ Marker(a) >= 100 => OneOf(pair) = [calm |-> 0, gale |-> Marker(a) - 100]
                /\ Marker(a) < 100 => OneOf(pair) = [calm |-> Marker(a), gale |-> 0]
<1>1. CASE ~Valid(a)
  BY <1>1 DEF Marker
<1>2. CASE Valid(a)
  <2> DEFINE calm == Percent(a.calm, a)  gale == Percent(a.gale, a)
  <2>1. calm \in 0..100 /\ gale \in 0..100
    BY <1>2, ValidTotal
  <2>2. /\ CalmAndGale(a).calm = calm /\ CalmAndGale(a).gale = gale
        /\ CalmAndGale(a) = [calm |-> calm, gale |-> gale]
    BY DEF CalmAndGale
  <2>3. Marker(a) = IF 3 * gale > 2 * calm THEN 100 + gale ELSE Smaller(99, calm)
    BY <1>2 DEF Marker
  <2>4. OneOf(CalmAndGale(a)) = IF 3 * gale > 2 * calm THEN [calm |-> 0, gale |-> gale]
                                ELSE [calm |-> Smaller(99, calm), gale |-> 0]
    BY <2>2 DEF OneOf
  <2> HIDE DEF calm, gale
  <2>5. Smaller(99, calm) \in 0..99
    BY <2>1 DEF Smaller
  <2>6. CASE 3 * gale > 2 * calm
    <3>1. Marker(a) = 100 + gale /\ Marker(a) - 100 = gale
      BY <2>1, <2>3, <2>6
    <3> QED
      BY <1>2, <2>1, <2>2, <2>4, <2>6, <3>1
  <2>7. CASE ~(3 * gale > 2 * calm)
    BY <1>2, <2>1, <2>2, <2>3, <2>4, <2>5, <2>7
  <2> QED
    BY <2>6, <2>7
<1> QED
  BY <1>1, <1>2

LEMMA Concatenation ==
    ASSUME NEW s \in Seq(Nat), NEW t \in Seq(Nat)
    PROVE  /\ s \o t \in Seq(Nat) /\ Len(s) \in Nat /\ Len(t) \in Nat
           /\ Len(s \o t) = Len(s) + Len(t)
           /\ \A k \in 1..Len(s) : (s \o t)[k] = s[k]
           /\ \A k \in 1..Len(t) : (s \o t)[Len(s) + k] = t[k]
  OBVIOUS

LEMMA OneMore ==
    ASSUME NEW s \in Seq(Nat), NEW v \in Nat
    PROVE  Len(s) \in Nat /\ Len(s \o <<v>>) = Len(s) + 1 /\ (s \o <<v>>)[Len(s) + 1] = v
  OBVIOUS

LEMMA BytesTyping ==
    ASSUME NEW atlas \in [Cells -> Samples], NEW i \in 1..TurnCount
    PROVE  BytesAt(atlas, i) \in Seq(Nat)
<1> DEFINE a == atlas[CellAt(i)]  s == SectorAt(i)
<1>1. CellAt(i) \in Cells /\ a \in Samples /\ (PassAt(i) > 0 => s \in Sectors) /\ PassAt(i) \in Nat
  BY TurnParts, SectorBounds
<1>2. Marker(a) \in Nat
  BY <1>1, MarkerTells
<1>3. ASSUME Valid(a), PassAt(i) > 0
      PROVE  Frequency(a)[s] \in Nat /\ MeanSpeed[CellAt(i)][s] \in Nat
  <2>1. Frequency(a) \in [Sectors -> Nat] /\ s \in Sectors
    BY <1>1, <1>3, FrequencyExact
  <2>2. MeanSpeed[CellAt(i)] \in [Sectors -> 0..255]
    BY <1>1, AtlasAssumption
  <2> QED
    BY <2>1, <2>2
<1> HIDE DEF a, s
<1> QED
  BY <1>1, <1>2, <1>3 DEF BytesAt, a, s

LEMMA StreamTyping ==
    ASSUME NEW atlas \in [Cells -> Samples]
    PROVE  \A i \in 0..TurnCount : Stream(atlas)[i] \in Seq(Nat)
<1> DEFINE T == {i \in 0..TurnCount : Stream(atlas)[i] \in Seq(Nat)}
<1>1. 0 \in T
  <2>1. Stream(atlas)[0] = <<>> /\ <<>> \in Seq(Nat)
    BY StreamDef
  <2>2. Stream(atlas)[0] \in Seq(Nat)
    BY <2>1, Zenon
  <2> QED
    BY <2>2, TurnCountNat
<1>2. ASSUME NEW i \in 1..TurnCount, i - 1 \in T PROVE i \in T
  <2>1. Stream(atlas)[i] = Stream(atlas)[i-1] \o BytesAt(atlas, i) /\ i \in 0..TurnCount
    BY TurnCountNat, StreamDef DEF WriteValue
  <2>2. Stream(atlas)[i-1] \in Seq(Nat) /\ BytesAt(atlas, i) \in Seq(Nat)
    BY <1>2, BytesTyping
  <2>3. Stream(atlas)[i] \in Seq(Nat)
    BY <2>1, <2>2, Concatenation
  <2> QED
    BY <2>1, <2>3
<1>3. 0..TurnCount \subseteq T
  <2> HIDE DEF T
  <2> QED
    BY <1>1, <1>2, TurnCountNat, CountingUp
<1> QED
  BY <1>3

\* One sequence begins with another.
BeginsWith(whole, beginning) ==
    /\ Len(beginning) <= Len(whole)
    /\ \A k \in 1..Len(beginning) : whole[k] = beginning[k]

\* What has been written stays.
LEMMA StreamGrows ==
    ASSUME NEW atlas \in [Cells -> Samples], NEW i \in 0..TurnCount
    PROVE  BeginsWith(EncodeWind(atlas), Stream(atlas)[i])
<1> DEFINE S == Stream(atlas)
           T == {j \in 0..TurnCount : i <= j => BeginsWith(S[j], S[i])}
<1>0. TurnCount \in Nat /\ i \in Nat
  BY TurnCountNat
<1>1. 0 \in T
  <2>1. Len(S[0]) \in Nat
    BY <1>0, StreamTyping
  <2>2. BeginsWith(S[0], S[0])
    BY <2>1 DEF BeginsWith
  <2>3. i <= 0 => i = 0
    BY <1>0
  <2> QED
    BY <1>0, <2>2, <2>3
<1>2. ASSUME NEW j \in 1..TurnCount, j - 1 \in T PROVE j \in T
  <2>0. j \in 0..TurnCount /\ j - 1 \in 0..TurnCount
    BY <1>0
  <2>1. S[j] = S[j-1] \o BytesAt(atlas, j) /\ j \in 0..TurnCount /\ j - 1 \in 0..TurnCount
    BY <2>0, StreamDef DEF WriteValue
  <2>2. S[j-1] \in Seq(Nat) /\ BytesAt(atlas, j) \in Seq(Nat) /\ S[i] \in Seq(Nat) /\ S[j] \in Seq(Nat)
    BY <2>1, StreamTyping, BytesTyping
  <2>3. CASE i <= j - 1
    <3>1. BeginsWith(S[j-1], S[i])
      BY <1>2, <2>3
    <3>2. Len(S[j]) >= Len(S[j-1]) /\ \A k \in 1..Len(S[j-1]) : S[j][k] = S[j-1][k]
      BY <2>1, <2>2, Concatenation
    <3>3. BeginsWith(S[j], S[i])
      <4> HIDE DEF S
      <4> QED
        BY <2>2, <3>1, <3>2 DEF BeginsWith
    <3> QED
      BY <2>1, <3>3
  <2>4. CASE i > j - 1
    <3>1. i <= j => i = j
      BY <1>0, <2>4
    <3>2. BeginsWith(S[j], S[j])
      BY <2>2 DEF BeginsWith
    <3> QED
      BY <2>1, <3>1, <3>2
  <2> QED
    BY <1>0, <2>3, <2>4
<1>3. 0..TurnCount \subseteq T
  <2> HIDE DEF T
  <2> QED
    BY <1>0, <1>1, <1>2, CountingUp
<1>4. i <= TurnCount /\ TurnCount \in 0..TurnCount
  BY <1>0
<1> QED
  BY <1>3, <1>4 DEF EncodeWind

\* The byte of a turn is the next of the file, if the file is long enough.
LEMMA NextByte ==
    ASSUME NEW atlas \in [Cells -> Samples], NEW file \in Seq(Nat),
           BeginsWith(EncodeWind(atlas), file),
           NEW i \in 1..TurnCount, NEW v, BytesAt(atlas, i) = <<v>>
    PROVE  LET used == Len(Stream(atlas)[i-1]) IN
           /\ used \in Nat /\ Len(Stream(atlas)[i]) = used + 1
           /\ used < Len(EncodeWind(atlas))
           /\ used < Len(file) => file[used + 1] = v
<1> DEFINE S == Stream(atlas)  E == EncodeWind(atlas)  used == Len(S[i-1])
<1>1. i \in 0..TurnCount /\ i - 1 \in 0..TurnCount /\ TurnCount \in 0..TurnCount
  BY TurnCountNat
<1>2. S[i] = S[i-1] \o <<v>> /\ v \in Nat
  <2>1. BytesAt(atlas, i) \in Seq(Nat)
    BY BytesTyping
  <2>2. v = BytesAt(atlas, i)[1]
    OBVIOUS
  <2>3. S[i] = S[i-1] \o BytesAt(atlas, i)
    BY StreamDef DEF WriteValue
  <2>4. v \in Nat
    BY <2>1, <2>2
  <2> QED
    BY <2>3, <2>4
<1>3. S[i-1] \in Seq(Nat) /\ E \in Seq(Nat)
  BY <1>1, StreamTyping DEF EncodeWind
<1>4. used \in Nat /\ Len(S[i]) = used + 1 /\ S[i][used + 1] = v
  <2> DEFINE t == S[i-1]
  <2>1. t \in Seq(Nat) /\ v \in Nat /\ S[i] = t \o <<v>>
    BY <1>2, <1>3
  <2> HIDE DEF t, S
  <2>2. Len(t) \in Nat /\ Len(S[i]) = Len(t) + 1 /\ S[i][Len(t) + 1] = v
    BY <2>1, OneMore
  <2> QED
    BY <2>2 DEF t
<1>5. BeginsWith(E, S[i])
  BY <1>1, StreamGrows
<1>6. Len(E) \in Nat /\ Len(file) \in Nat
  BY <1>3
<1> HIDE DEF S, E, used
<1>7. used + 1 <= Len(E) /\ E[used + 1] = v
  BY <1>4, <1>5, <1>6 DEF BeginsWith
<1>8. used < Len(file) => file[used + 1] = E[used + 1]
  <2>1. BeginsWith(E, file)
    BY DEF E
  <2> QED
    BY <1>4, <1>6, <2>1 DEF BeginsWith
<1>9. used < Len(E)
  BY <1>4, <1>6, <1>7
<1> QED
  BY <1>4, <1>7, <1>8, <1>9 DEF S, E, used

-----------------------------------------------------------------------------
(* What is read                                                            *)

Readings == [data : [Cells -> Polars], used : Nat, whole : BOOLEAN]

\* After i turns a cell has what was counted, as far as its turns have come.
CellRead(i, c, polar, a) ==
    /\ Past(0, c, i) =>
        /\ MissingCell(polar) <=> ~Valid(a)
        /\ Valid(a) => [calm |-> polar.calm, gale |-> polar.gale] = OneOf(CalmAndGale(a))
    /\ \A s \in Sectors :
        (Past(s, c, i) /\ Valid(a)) => polar.directions[s] = Frequency(a)[s]
    /\ \A s \in Sectors :
        (Past(SectorCount + s, c, i) /\ Valid(a)) =>
            polar.speeds[s] = IF Frequency(a)[s] = 0 THEN 0 ELSE MeanSpeed[c][s]

ReadRight(file, atlas, i, reading) ==
    /\ reading \in Readings
    /\ reading.whole =>
        /\ reading.used = Len(Stream(atlas)[i])
        /\ \A c \in Cells : CellRead(i, c, reading.data[c], atlas[c])
    /\ ~reading.whole => Len(file) < Len(EncodeWind(atlas))

\* A turn that sets its cell rightly and goes on as far as the writer did.
LEMMA TurnReadRight ==
    ASSUME NEW atlas \in [Cells -> Samples], NEW file, NEW i \in 1..TurnCount,
           NEW R, ReadRight(file, atlas, i - 1, R), R.whole,
           NEW polar \in Polars, NEW k \in Nat,
           Len(Stream(atlas)[i]) = Len(Stream(atlas)[i-1]) + k,
           CellRead(i, CellAt(i), polar, atlas[CellAt(i)])
    PROVE  ReadRight(file, atlas, i,
                [data |-> [R.data EXCEPT ![CellAt(i)] = polar],
                 used |-> R.used + k, whole |-> TRUE])
<1> DEFINE d == CellAt(i)
           data == [R.data EXCEPT ![d] = polar]
           N == [data |-> data, used |-> R.used + k, whole |-> TRUE]
<1>0. d \in Cells /\ R \in Readings
  BY TurnParts DEF ReadRight
<1>1. R.data \in [Cells -> Polars] /\ R.used \in Nat
  BY <1>0 DEF Readings
<1>2. N \in Readings
  <2>1. data \in [Cells -> Polars] /\ R.used + k \in Nat
    BY <1>0, <1>1
  <2> HIDE DEF data
  <2> QED
    BY <2>1 DEF Readings
<1>3. ASSUME NEW c \in Cells PROVE CellRead(i, c, N.data[c], atlas[c])
  <2>1. CASE c = d
    BY <1>0, <1>1, <2>1
  <2>2. CASE c # d
    <3>1. N.data[c] = R.data[c] /\ CellRead(i - 1, c, R.data[c], atlas[c])
      BY <1>0, <1>1, <2>2 DEF ReadRight
    <3>2. \A p \in 0..(2 * SectorCount) : Past(p, c, i) => Past(p, c, i - 1)
      BY <2>2, PastStep
    <3>3. /\ 0 \in 0..(2 * SectorCount)
          /\ \A s \in Sectors : s \in 0..(2 * SectorCount) /\ SectorCount + s \in 0..(2 * SectorCount)
      BY SectorBounds DEF Sectors
    <3> QED
      BY <3>1, <3>2, <3>3 DEF CellRead
  <2> QED
    BY <2>1, <2>2
<1>4. N.used = Len(Stream(atlas)[i])
  BY DEF ReadRight
<1>5. N.whole = TRUE
  OBVIOUS
<1> HIDE DEF N
<1>6. ReadRight(file, atlas, i, N)
  BY <1>2, <1>3, <1>4, <1>5 DEF ReadRight
<1> QED
  BY <1>6 DEF N

\* A turn for which nothing is written leaves the stream.
LEMMA NoByte ==
    ASSUME NEW atlas \in [Cells -> Samples], NEW i \in 1..TurnCount, BytesAt(atlas, i) = <<>>
    PROVE  Len(Stream(atlas)[i]) = Len(Stream(atlas)[i-1]) /\ Len(Stream(atlas)[i-1]) \in Nat
<1>1. Stream(atlas)[i-1] \in Seq(Nat) /\ Stream(atlas)[i] = Stream(atlas)[i-1] \o <<>>
  <2>1. i - 1 \in 0..TurnCount
    BY TurnCountNat
  <2>2. Stream(atlas)[i] = Stream(atlas)[i-1] \o BytesAt(atlas, i)
    BY StreamDef DEF WriteValue
  <2> QED
    BY <2>1, <2>2, StreamTyping, Zenon
<1> DEFINE t == Stream(atlas)[i-1]
<1> HIDE DEF t
<1>2. ASSUME t \in Seq(Nat) PROVE t \o <<>> = t /\ Len(t) \in Nat
  BY <1>2
<1> QED
  BY <1>1, <1>2 DEF t

\* And if the reader leaves its cell too, they still agree.
LEMMA TurnIdle ==
    ASSUME NEW atlas \in [Cells -> Samples], NEW file, NEW i \in 1..TurnCount,
           NEW R, ReadRight(file, atlas, i - 1, R), R.whole,
           BytesAt(atlas, i) = <<>>,
           CellRead(i, CellAt(i), R.data[CellAt(i)], atlas[CellAt(i)])
    PROVE  ReadRight(file, atlas, i, R)
<1>1. ASSUME NEW c \in Cells PROVE CellRead(i, c, R.data[c], atlas[c])
  <2>1. CASE c = CellAt(i)
    BY <2>1
  <2>2. CASE c # CellAt(i)
    <3>1. CellRead(i - 1, c, R.data[c], atlas[c])
      BY DEF ReadRight
    <3>2. \A p \in 0..(2 * SectorCount) : Past(p, c, i) => Past(p, c, i - 1)
      BY <2>2, PastStep
    <3>3. /\ 0 \in 0..(2 * SectorCount)
          /\ \A s \in Sectors : s \in 0..(2 * SectorCount) /\ SectorCount + s \in 0..(2 * SectorCount)
      BY SectorBounds DEF Sectors
    <3> QED
      BY <3>1, <3>2, <3>3 DEF CellRead
  <2> QED
    BY <2>1, <2>2
<1> QED
  BY <1>1, NoByte DEF ReadRight

MarkedRight(polar, a) ==
    /\ MissingCell(polar) <=> ~Valid(a)
    /\ Valid(a) => [calm |-> polar.calm, gale |-> polar.gale] = OneOf(CalmAndGale(a))

SpeedOf(c, s, a) == IF Frequency(a)[s] = 0 THEN 0 ELSE MeanSpeed[c][s]

\* What a turn must have set in its cell.
LEMMA CellTurn ==
    ASSUME NEW i \in 1..TurnCount, NEW polar, NEW new, NEW a,
           CellRead(i - 1, CellAt(i), polar, a),
           \/ /\ PassAt(i) = 0
              /\ MarkedRight(new, a)
              /\ new.directions = polar.directions /\ new.speeds = polar.speeds
           \/ /\ PassAt(i) \in Sectors
              /\ new.calm = polar.calm /\ new.gale = polar.gale /\ new.speeds = polar.speeds
              /\ \A t \in Sectors \ {PassAt(i)} : new.directions[t] = polar.directions[t]
              /\ Valid(a) => new.directions[PassAt(i)] = Frequency(a)[PassAt(i)]
           \/ /\ PassAt(i) > SectorCount
              /\ new.calm = polar.calm /\ new.gale = polar.gale
              /\ new.directions = polar.directions
              /\ \A t \in Sectors \ {SectorAt(i)} : new.speeds[t] = polar.speeds[t]
              /\ Valid(a) => new.speeds[SectorAt(i)] = SpeedOf(CellAt(i), SectorAt(i), a)
    PROVE  CellRead(i, CellAt(i), new, a)
<1> DEFINE d == CellAt(i)
<1>0. /\ d \in Cells /\ PassAt(i) \in Nat /\ SectorCount \in Nat
      /\ PassAt(i) > SectorCount => PassAt(i) = SectorCount + SectorAt(i)
      /\ Sectors = 1..SectorCount
  BY TurnParts, SectorBounds DEF SectorAt, Sectors
<1>1. /\ 0 \in 0..(2 * SectorCount)
      /\ \A s \in Sectors : s \in 0..(2 * SectorCount) /\ SectorCount + s \in 0..(2 * SectorCount)
  BY SectorBounds DEF Sectors
<1>2. \A p \in 0..(2 * SectorCount) : p # PassAt(i) /\ Past(p, d, i) => Past(p, d, i - 1)
  BY <1>0, PastStep
<1> HIDE DEF d
<1>3. Past(0, d, i) => MarkedRight(new, a)
  <2>1. CASE PassAt(i) = 0
    BY <1>0, <2>1
  <2>2. CASE PassAt(i) # 0
    <3>1. Past(0, d, i) => MarkedRight(polar, a)
      BY <1>1, <1>2, <2>2 DEF CellRead, MarkedRight, d
    <3> QED
      BY <2>2, <3>1 DEF MarkedRight, MissingCell
  <2> QED
    BY <2>1, <2>2
<1>4. ASSUME NEW s \in Sectors, Past(s, d, i), Valid(a) PROVE new.directions[s] = Frequency(a)[s]
  <2>1. CASE s = PassAt(i)
    BY <1>0, <1>4, <2>1
  <2>2. CASE s # PassAt(i)
    <3>1. polar.directions[s] = Frequency(a)[s]
      BY <1>1, <1>2, <1>4, <2>2 DEF CellRead, d
    <3> QED
      BY <2>2, <3>1
  <2> QED
    BY <2>1, <2>2
<1>5. ASSUME NEW s \in Sectors, Past(SectorCount + s, d, i), Valid(a)
      PROVE  new.speeds[s] = SpeedOf(d, s, a)
  <2>1. CASE SectorCount + s = PassAt(i)
    <3>1. PassAt(i) > SectorCount /\ s = SectorAt(i)
      <4>1. s \in Nat /\ s > 0
        BY <1>0
      <4>2. PassAt(i) > SectorCount
        BY <1>0, <2>1, <4>1
      <4>3. SectorAt(i) = PassAt(i) - SectorCount
        BY <4>2 DEF SectorAt
      <4> QED
        BY <1>0, <2>1, <4>1, <4>2, <4>3
    <3>2. PassAt(i) \notin Sectors /\ PassAt(i) # 0
      BY <1>0, <3>1
    <3> QED
      BY <1>5, <3>1, <3>2 DEF d
  <2>2. CASE SectorCount + s # PassAt(i)
    <3>1. polar.speeds[s] = SpeedOf(d, s, a)
      BY <1>1, <1>2, <1>5, <2>2 DEF CellRead, SpeedOf, d
    <3>2. PassAt(i) > SectorCount => s # SectorAt(i)
      BY <1>0, <2>2
    <3> QED
      BY <3>1, <3>2
  <2> QED
    BY <2>1, <2>2
<1> QED
  BY <1>3, <1>4, <1>5 DEF CellRead, MarkedRight, SpeedOf, d

\* A byte is read: the cell takes it, or the file has ended before it.
LEMMA TurnOfByte ==
    ASSUME NEW atlas \in [Cells -> Samples], NEW file \in Seq(Nat),
           BeginsWith(EncodeWind(atlas), file),
           NEW i \in 1..TurnCount, NEW R, ReadRight(file, atlas, i - 1, R), R.whole,
           NEW v \in Nat, BytesAt(atlas, i) = <<v>>
    PROVE  /\ R.used < Len(file) =>
                /\ file[R.used + 1] = v
                /\ \A polar \in Polars :
                    CellRead(i, CellAt(i), polar, atlas[CellAt(i)]) =>
                        ReadRight(file, atlas, i,
                            [data |-> [R.data EXCEPT ![CellAt(i)] = polar],
                             used |-> R.used + 1, whole |-> TRUE])
           /\ ~(R.used < Len(file)) => ReadRight(file, atlas, i, [R EXCEPT !.whole = FALSE])
<1>1. R \in Readings /\ R.used = Len(Stream(atlas)[i-1])
  BY DEF ReadRight
<1>2. /\ R.used \in Nat /\ Len(Stream(atlas)[i]) = R.used + 1
      /\ R.used < Len(EncodeWind(atlas))
      /\ R.used < Len(file) => file[R.used + 1] = v
  BY <1>1, NextByte
<1>3. ASSUME NEW polar \in Polars, CellRead(i, CellAt(i), polar, atlas[CellAt(i)])
      PROVE  ReadRight(file, atlas, i,
                [data |-> [R.data EXCEPT ![CellAt(i)] = polar],
                 used |-> R.used + 1, whole |-> TRUE])
  <2>1. Len(Stream(atlas)[i]) = Len(Stream(atlas)[i-1]) + 1 /\ 1 \in Nat
    BY <1>1, <1>2
  <2> QED
    BY <1>3, <2>1, TurnReadRight
<1>4. ASSUME ~(R.used < Len(file)) PROVE ReadRight(file, atlas, i, [R EXCEPT !.whole = FALSE])
  <2> DEFINE N == [R EXCEPT !.whole = FALSE]
  <2>1. N \in Readings /\ ~N.whole
    BY <1>1 DEF Readings
  <2>2. Len(file) \in Nat /\ Len(EncodeWind(atlas)) \in Nat
    <3>1. EncodeWind(atlas) \in Seq(Nat)
      BY StreamTyping, TurnCountNat DEF EncodeWind
    <3> QED
      BY <3>1
  <2>3. Len(file) < Len(EncodeWind(atlas))
    BY <1>2, <1>4, <2>2
  <2> HIDE DEF N
  <2>4. ReadRight(file, atlas, i, N)
    BY <2>1, <2>3 DEF ReadRight
  <2> QED
    BY <2>4 DEF N
<1> QED
  BY <1>2, <1>3, <1>4

\* Whatever the turn, the reader ends it where the writer did.
LEMMA ReadStep ==
    ASSUME NEW atlas \in [Cells -> Samples], NEW file \in Seq(Nat),
           BeginsWith(EncodeWind(atlas), file),
           NEW i \in 1..TurnCount, NEW R, ReadRight(file, atlas, i - 1, R)
    PROVE  ReadRight(file, atlas, i, ReadValue(file, R, i))
<1> DEFINE d == CellAt(i)  p == PassAt(i)  s == SectorAt(i)
           a == atlas[d]  polar == R.data[d]  value == file[R.used + 1]
           N == ReadValue(file, R, i)
           with(new) == [data |-> [R.data EXCEPT ![d] = new], used |-> R.used + 1, whole |-> TRUE]
<1>0. /\ d \in Cells /\ a \in Samples /\ p \in 0..(2 * SectorCount)
      /\ (p > 0 => s \in Sectors) /\ R \in Readings /\ SectorCount \in Nat /\ SectorCount > 0
      /\ R.used \in Nat /\ R.data \in [Cells -> Polars] /\ polar \in Polars
  <2>1. R \in Readings
    BY DEF ReadRight
  <2>2. R.used \in Nat /\ R.data \in [Cells -> Polars]
    BY <2>1 DEF Readings
  <2> QED
    BY <2>1, <2>2, TurnParts, SectorBounds
<1>1. CASE ~R.whole
  <2>1. N = R
    BY <1>1 DEF ReadValue
  <2> QED
    BY <1>1, <2>1 DEF ReadRight
<1>2. CASE R.whole
  <2>1. CellRead(i - 1, d, polar, a) /\ R.used = Len(Stream(atlas)[i-1])
    BY <1>0, <1>2 DEF ReadRight
  <2>0. ASSUME NEW v \in Nat, BytesAt(atlas, i) = <<v>>
        PROVE  /\ ~(R.used < Len(file)) => ReadRight(file, atlas, i, [R EXCEPT !.whole = FALSE])
               /\ R.used < Len(file) => value = v
               /\ R.used < Len(file) =>
                    \A new \in Polars : CellRead(i, d, new, a) => ReadRight(file, atlas, i, with(new))
    BY <1>2, <2>0, TurnOfByte
  <2>2. p > 0 => (MissingCell(polar) <=> ~Valid(a))
    <3>1. p > 0 => Past(0, d, i - 1)
      BY <1>0, PastStep
    <3> QED
      BY <2>1, <3>1 DEF CellRead
  <2>3. CASE p = 0
    <3>1. BytesAt(atlas, i) = <<Marker(a)>> /\ Marker(a) \in Nat
      BY <1>0, <2>3, MarkerTells DEF BytesAt
    <3>2. CASE ~(R.used < Len(file))
      <4>1. N = [R EXCEPT !.whole = FALSE]
        BY <1>0, <1>2, <2>3, <3>2 DEF ReadValue
      <4> QED
        BY <2>0, <3>1, <3>2, <4>1
    <3>3. CASE R.used < Len(file)
      <4> DEFINE new == IF value > 200 THEN [polar EXCEPT !.gale = 255]
                        ELSE IF value >= 100
                        THEN [polar EXCEPT !.gale = value - 100, !.calm = 0]
                        ELSE [polar EXCEPT !.gale = 0, !.calm = value]
      <4>1. value = Marker(a)
        BY <2>0, <3>1, <3>3
      <4>2. N = with(new)
        <5>1. CASE value > 200
          <6>1. N = with([polar EXCEPT !.gale = 255])
            BY <1>0, <1>2, <2>3, <3>3, <5>1 DEF ReadValue
          <6> QED
            BY <5>1, <6>1
        <5>2. CASE ~(value > 200) /\ value >= 100
          <6>1. N = with([polar EXCEPT !.gale = value - 100, !.calm = 0])
            BY <1>0, <1>2, <2>3, <3>3, <5>2 DEF ReadValue
          <6> QED
            BY <5>2, <6>1
        <5>3. CASE ~(value > 200) /\ ~(value >= 100)
          <6>1. N = with([polar EXCEPT !.gale = 0, !.calm = value])
            BY <1>0, <1>2, <2>3, <3>3, <5>3 DEF ReadValue
          <6> QED
            BY <5>3, <6>1
        <5> QED
          BY <5>1, <5>2, <5>3
      <4>3. new \in Polars /\ new.directions = polar.directions /\ new.speeds = polar.speeds
        <5> HIDE DEF value, polar
        <5>1. value \in Nat
          BY <3>1, <4>1
        <5>2. CASE value > 200
          <6> DEFINE gone == 255
                     made == [polar EXCEPT !.gale = gone]
          <6>1. gone \in Nat
            OBVIOUS
          <6>2. new = made
            BY <5>2
          <6>3. polar \in Polars /\ value \in Nat
            BY <1>0, <5>1
          <6> HIDE DEF new, gone
          <6>4. made \in Polars /\ made.directions = polar.directions /\ made.speeds = polar.speeds
            BY <6>1, <6>3 DEF Polars
          <6> HIDE DEF made
          <6> QED
            BY <6>2, <6>4
        <5>3. CASE ~(value > 200) /\ value >= 100
          <6> DEFINE made == [polar EXCEPT !.gale = value - 100, !.calm = 0]
          <6>1. value - 100 \in Nat
            BY <5>1, <5>3
          <6>2. new = made
            BY <5>3
          <6>3. polar \in Polars /\ value \in Nat
            BY <1>0, <5>1
          <6> HIDE DEF new
          <6>4. made \in Polars /\ made.directions = polar.directions /\ made.speeds = polar.speeds
            BY <6>1, <6>3 DEF Polars
          <6> HIDE DEF made
          <6> QED
            BY <6>2, <6>4
        <5>4. CASE ~(value > 200) /\ ~(value >= 100)
          <6> DEFINE made == [polar EXCEPT !.gale = 0, !.calm = value]
          <6>2. new = made
            BY <5>4
          <6>3. polar \in Polars /\ value \in Nat
            BY <1>0, <5>1
          <6> HIDE DEF new
          <6>4. made \in Polars /\ made.directions = polar.directions /\ made.speeds = polar.speeds
            BY <6>3 DEF Polars
          <6> HIDE DEF made
          <6> QED
            BY <6>2, <6>4
        <5> QED
          BY <5>2, <5>3, <5>4
      <4>4. MarkedRight(new, a)
        <5> HIDE DEF value, polar, a
        <5>0. polar \in [gale : Nat, calm : Nat, directions : [Sectors -> Nat], speeds : [Sectors -> Nat]]
          BY <1>0 DEF Polars
        <5>1. CASE ~Valid(a)
          <6>1. value = 255
            BY <1>0, <4>1, <5>1, MarkerTells
          <6>2. new.gale = 255
            BY <5>0, <6>1
          <6> QED
            BY <5>1, <6>2 DEF MarkedRight, MissingCell
        <5>2. CASE Valid(a)
          <6> DEFINE one == OneOf(CalmAndGale(a))
          <6>1. /\ value \in Nat /\ value <= 200
                /\ value >= 100 => one = [calm |-> 0, gale |-> value - 100]
                /\ value < 100 => one = [calm |-> value, gale |-> 0]
            BY <1>0, <4>1, <5>2, MarkerTells
          <6> HIDE DEF one
          <6>2. [calm |-> new.calm, gale |-> new.gale] = one /\ new.gale # 255
            <7>1. CASE value >= 100
              <8>1. new.gale = value - 100 /\ new.calm = 0
                BY <5>0, <6>1, <7>1
              <8> QED
                BY <6>1, <7>1, <8>1
            <7>2. CASE value < 100
              <8>1. new.gale = 0 /\ new.calm = value
                BY <5>0, <6>1, <7>2
              <8> QED
                BY <6>1, <7>2, <8>1
            <7> QED
              BY <6>1, <7>1, <7>2
          <6> HIDE DEF new
          <6> QED
            BY <5>2, <6>2 DEF MarkedRight, MissingCell, one
        <5> QED
          BY <5>1, <5>2
      <4> HIDE DEF new
      <4>5. CellRead(i, d, new, a)
        BY <2>1, <2>3, <4>3, <4>4, CellTurn
      <4> QED
        BY <2>0, <3>1, <3>3, <4>2, <4>3, <4>5
    <3> QED
      BY <3>2, <3>3
  <2>4. CASE p > 0 /\ ~Valid(a)
    <3>1. BytesAt(atlas, i) = <<>>
      BY <1>0, <2>4 DEF BytesAt
    <3>2. N = R
      BY <1>0, <1>2, <2>2, <2>4 DEF ReadValue
    <3>3. CellRead(i, d, polar, a)
      <4>1. p \in Sectors \/ p > SectorCount
        BY <1>0, <2>4 DEF Sectors
      <4> QED
        BY <2>1, <2>4, <4>1, CellTurn
    <3> QED
      BY <1>2, <3>1, <3>2, <3>3, TurnIdle
  <2>5. CASE p > 0 /\ p <= SectorCount /\ Valid(a)
    <3> DEFINE share == Frequency(a)[s]
               new == [polar EXCEPT !.directions[s] = value]
    <3>1. p \in Sectors /\ s = p /\ share \in Nat
      <4>1. Frequency(a) \in [Sectors -> Nat]
        BY <1>0, <2>5, FrequencyExact
      <4> QED
        BY <1>0, <2>5, <4>1 DEF Sectors, SectorAt
    <3>2. BytesAt(atlas, i) = <<share>>
      BY <1>0, <2>5 DEF BytesAt
    <3> HIDE DEF share
    <3>3. CASE ~(R.used < Len(file))
      <4>1. N = [R EXCEPT !.whole = FALSE]
        BY <1>0, <1>2, <2>2, <2>5, <3>3 DEF ReadValue
      <4> QED
        BY <2>0, <3>1, <3>2, <3>3, <4>1
    <3>4. CASE R.used < Len(file)
      <4>1. value = share
        BY <2>0, <3>1, <3>2, <3>4
      <4>2. N = with(new)
        BY <1>0, <1>2, <2>2, <2>5, <3>4 DEF ReadValue
      <4>3. /\ new \in Polars /\ new.calm = polar.calm /\ new.gale = polar.gale
            /\ new.speeds = polar.speeds /\ new.directions[p] = share
            /\ \A t \in Sectors \ {p} : new.directions[t] = polar.directions[t]
        <5> HIDE DEF value, polar, s, p
        <5> QED
          BY <1>0, <3>1, <4>1 DEF Polars
      <4> HIDE DEF new
      <4>4. CellRead(i, d, new, a)
        BY <2>1, <3>1, <4>3, CellTurn DEF share
      <4> QED
        BY <2>0, <3>1, <3>2, <3>4, <4>2, <4>3, <4>4
    <3> QED
      BY <3>3, <3>4
  <2>6. CASE p > SectorCount /\ Valid(a)
    <3>1. s \in Sectors /\ p = SectorCount + s
      BY <1>0, <2>6 DEF SectorAt
    <3>2. polar.directions[s] = Frequency(a)[s]
      <4>1. s \in 0..(2 * SectorCount) /\ s < p
        BY <1>0, <2>6, <3>1 DEF Sectors
      <4>2. Past(s, d, i - 1)
        BY <1>0, <4>1, PastStep
      <4> QED
        BY <2>1, <2>6, <3>1, <4>2 DEF CellRead
    <3>3. CASE Frequency(a)[s] = 0
      <4> DEFINE new == [polar EXCEPT !.speeds[s] = 0]
      <4>1. BytesAt(atlas, i) = <<>>
        BY <1>0, <2>6, <3>3 DEF BytesAt
      <4>2. N = [data |-> [R.data EXCEPT ![d] = new], used |-> R.used + 0, whole |-> TRUE]
        BY <1>0, <1>2, <2>2, <2>6, <3>2, <3>3 DEF ReadValue
      <4>3. /\ new \in Polars /\ new.calm = polar.calm /\ new.gale = polar.gale
            /\ new.directions = polar.directions /\ new.speeds[s] = 0
            /\ \A t \in Sectors \ {s} : new.speeds[t] = polar.speeds[t]
        <5> HIDE DEF polar, s
        <5> QED
          BY <1>0, <3>1 DEF Polars
      <4> HIDE DEF new
      <4>4. CellRead(i, d, new, a)
        <5>1. SpeedOf(d, s, a) = 0
          BY <3>3 DEF SpeedOf
        <5> QED
          BY <2>1, <2>6, <4>3, <5>1, CellTurn
      <4>5. Len(Stream(atlas)[i]) = Len(Stream(atlas)[i-1]) + 0 /\ 0 \in Nat
        BY <4>1, NoByte
      <4> QED
        BY <1>2, <4>2, <4>3, <4>4, <4>5, TurnReadRight
    <3>4. CASE Frequency(a)[s] # 0
      <4> DEFINE speed == MeanSpeed[d][s]
                 new == [polar EXCEPT !.speeds[s] = value]
      <4>1. BytesAt(atlas, i) = <<speed>>
        BY <1>0, <2>6, <3>4 DEF BytesAt
      <4>2. speed \in Nat
        <5>1. MeanSpeed[d] \in [Sectors -> 0..255]
          BY <1>0, AtlasAssumption
        <5>2. MeanSpeed[d][s] \in 0..255
          BY <3>1, <5>1
        <5>3. \A x \in 0..255 : x \in Nat
          OBVIOUS
        <5> QED
          BY <5>2, <5>3, Zenon
      <4>3. SpeedOf(d, s, a) = speed
        BY <3>4 DEF SpeedOf
      <4> HIDE DEF speed
      <4>4. CASE ~(R.used < Len(file))
        <5>1. N = [R EXCEPT !.whole = FALSE]
          BY <1>0, <1>2, <2>2, <2>6, <3>2, <3>4, <4>4 DEF ReadValue
        <5> QED
          BY <2>0, <4>1, <4>2, <4>4, <5>1
      <4>5. CASE R.used < Len(file)
        <5>1. value = speed
          BY <2>0, <4>1, <4>2, <4>5
        <5>2. N = with(new)
          BY <1>0, <1>2, <2>2, <2>6, <3>2, <3>4, <4>5 DEF ReadValue
        <5>3. /\ new \in Polars /\ new.calm = polar.calm /\ new.gale = polar.gale
              /\ new.directions = polar.directions /\ new.speeds[s] = speed
              /\ \A t \in Sectors \ {s} : new.speeds[t] = polar.speeds[t]
          <6> HIDE DEF value, polar, s
          <6> QED
            BY <1>0, <3>1, <4>2, <5>1 DEF Polars
        <5> HIDE DEF new
        <5>4. CellRead(i, d, new, a)
          BY <2>1, <2>6, <4>3, <5>3, CellTurn
        <5> QED
          BY <2>0, <4>1, <4>2, <4>5, <5>2, <5>3, <5>4
      <4> QED
        BY <4>4, <4>5
    <3> QED
      BY <3>3, <3>4
  <2> QED
    BY <1>0, <2>3, <2>4, <2>5, <2>6
<1> QED
  BY <1>0, <1>1, <1>2 DEF Readings

\* What the writer made of an atlas, the reader makes again of every cell; of
\* a file that ends before, it makes nothing.
LEMMA DecodeEncoded ==
    ASSUME NEW atlas \in [Cells -> Samples], NEW file \in Seq(Nat),
           BeginsWith(EncodeWind(atlas), file)
    PROVE  LET reading == DecodeWind(file) IN
           /\ reading.whole =>
                /\ reading.data \in [Cells -> Polars]
                /\ \A c \in Cells :
                    LET polar == reading.data[c]  a == atlas[c] IN
                    /\ MarkedRight(polar, a)
                    /\ Valid(a) =>
                        /\ polar.directions = Frequency(a)
                        /\ \A s \in Sectors : polar.speeds[s] = SpeedOf(c, s, a)
           /\ ~reading.whole => Len(file) < Len(EncodeWind(atlas))
<1> DEFINE T == {i \in 0..TurnCount : ReadRight(file, atlas, i, ReadSoFar(file)[i])}
<1>0. TurnCount \in Nat
  BY TurnCountNat
<1>1. 0 \in T
  <2>1. Unread \in Readings
    <3>1. NewPolar \in Polars
      BY DEF NewPolar, Polars
    <3>2. [c \in Cells |-> NewPolar] \in [Cells -> Polars]
      BY <3>1
    <3> QED
      BY <3>2 DEF Unread, Readings
  <2>2. Unread.whole = TRUE /\ Unread.used = 0
    BY DEF Unread
  <2>3. Len(Stream(atlas)[0]) = 0
    <3>1. Stream(atlas)[0] = <<>>
      BY StreamDef, Zenon
    <3> QED
      BY <3>1
  <2>4. \A c \in Cells : CellRead(0, c, Unread.data[c], atlas[c])
    <3>1. /\ 0 \in 0..(2 * SectorCount)
          /\ \A s \in Sectors : s \in 0..(2 * SectorCount) /\ SectorCount + s \in 0..(2 * SectorCount)
      BY SectorBounds DEF Sectors
    <3> QED
      BY <3>1, PastEnds DEF CellRead
  <2>5. ReadRight(file, atlas, 0, Unread)
    BY <2>1, <2>2, <2>3, <2>4 DEF ReadRight
  <2> QED
    BY <1>0, <2>5, ReadingDef
<1>2. ASSUME NEW i \in 1..TurnCount, i - 1 \in T PROVE i \in T
  <2>1. ReadRight(file, atlas, i - 1, ReadSoFar(file)[i-1])
    BY <1>2
  <2>2. ReadRight(file, atlas, i, ReadValue(file, ReadSoFar(file)[i-1], i))
    BY <2>1, ReadStep
  <2> QED
    BY <1>0, <2>2, ReadingDef
<1>3. 0..TurnCount \subseteq T
  <2> HIDE DEF T
  <2> QED
    BY <1>0, <1>1, <1>2, CountingUp
<1> DEFINE reading == DecodeWind(file)
<1>4. ReadRight(file, atlas, TurnCount, reading)
  <2>1. TurnCount \in T
    BY <1>0, <1>3
  <2> QED
    BY <2>1 DEF DecodeWind
<1> HIDE DEF reading, T
<1>5. reading \in Readings /\ (~reading.whole => Len(file) < Len(EncodeWind(atlas)))
  BY <1>4 DEF ReadRight
<1>6. reading.data \in [Cells -> Polars]
  BY <1>5 DEF Readings
<1>7. ASSUME reading.whole, NEW c \in Cells
      PROVE  /\ MarkedRight(reading.data[c], atlas[c])
             /\ Valid(atlas[c]) =>
                /\ reading.data[c].directions = Frequency(atlas[c])
                /\ \A s \in Sectors : reading.data[c].speeds[s] = SpeedOf(c, s, atlas[c])
  <2> DEFINE polar == reading.data[c]  a == atlas[c]
  <2>1. CellRead(TurnCount, c, polar, a)
    BY <1>4, <1>7 DEF ReadRight
  <2>2. /\ 0 \in 0..(2 * SectorCount)
        /\ \A s \in Sectors : s \in 0..(2 * SectorCount) /\ SectorCount + s \in 0..(2 * SectorCount)
    BY SectorBounds DEF Sectors
  <2>3. /\ Past(0, c, TurnCount)
        /\ \A s \in Sectors : Past(s, c, TurnCount) /\ Past(SectorCount + s, c, TurnCount)
    BY <2>2, PastEnds
  <2>4. a \in Samples /\ polar \in Polars
    BY <1>6
  <2> HIDE DEF polar, a
  <2>5. MarkedRight(polar, a)
    BY <2>1, <2>3 DEF CellRead, MarkedRight
  <2>6. ASSUME Valid(a)
        PROVE  /\ polar.directions = Frequency(a)
               /\ \A s \in Sectors : polar.speeds[s] = SpeedOf(c, s, a)
    <3>1. polar.directions \in [Sectors -> Nat] /\ Frequency(a) \in [Sectors -> Nat]
      BY <2>4, <2>6, FrequencyExact DEF Polars
    <3>2. \A s \in Sectors : polar.directions[s] = Frequency(a)[s]
      BY <2>1, <2>3, <2>6 DEF CellRead
    <3>3. \A s \in Sectors : polar.speeds[s] = SpeedOf(c, s, a)
      BY <2>1, <2>3, <2>6 DEF CellRead, SpeedOf
    <3> QED
      BY <3>1, <3>2, <3>3
  <2> QED
    BY <2>5, <2>6 DEF polar, a
<1> QED
  BY <1>5, <1>6, <1>7 DEF reading

-----------------------------------------------------------------------------
(* The atlas on its way                                                    *)

AtlasTypes ==
    /\ counts \in [Cells -> Samples]
    /\ windFile \in Seq(Nat)
    /\ extrasFile = NoFile \/ (extrasFile \in Seq(Nat) /\ Len(extrasFile) <= 2 * CellCount)
    /\ windData = NoData \/ windData \in [Cells -> Polars]

FileIsTheCounts ==
    /\ atlasStage \in {"written", "complete"} => windFile = EncodeWind(counts)
    /\ atlasStage \in {"shipped", "read", "done"} => BeginsWith(EncodeWind(counts), windFile)
    /\ atlasStage \in {"build", "written", "complete"} =>
            extrasFile = NoFile \/ Len(extrasFile) = 2 * CellCount

DataIsTheCounts ==
    atlasStage \in {"read", "done"} =>
        IF windData = NoData THEN Len(windFile) < Len(EncodeWind(counts))
        ELSE \A c \in Cells : RoseArrives(c)

Shows(c) == ~MissingCell(windData[c])

OneIsShown ==
    atlasStage = "read" /\ windData # NoData =>
        \A c \in Cells : Shows(c) => ShownAt(c) = OneOf(CalmAndGale(counts[c]))

OneOrBoth ==
    atlasStage = "done" /\ windData # NoData =>
        \/ \A c \in Cells : Shows(c) => ShownAt(c) = OneOf(CalmAndGale(counts[c]))
        \/ /\ extrasFile # NoFile /\ Len(extrasFile) = 2 * CellCount
           /\ \A c \in Cells : Shows(c) => ShownAt(c) = ExtrasOf(c)

CalmsKnown ==
    atlasStage = "done" /\ windData # NoData => \A c \in Cells : CalmsArrive(c)

AtlasInv ==
    AtlasTypes /\ FileIsTheCounts /\ DataIsTheCounts /\ OneIsShown /\ OneOrBoth /\ CalmsKnown

\* The two planes of the extras, cell by cell.
LEMMA PlanesOf ==
    ASSUME NEW atlas \in [Cells -> Samples], NEW c \in Cells
    PROVE  LET a == atlas[c] IN
           /\ EncodeExtras(atlas)[c] = IF Valid(a) THEN Percent(a.calm, a) ELSE 255
           /\ EncodeExtras(atlas)[CellCount + c] = IF Valid(a) THEN Percent(a.gale, a) ELSE 255
<1>0. /\ CellCount \in Nat /\ CellCount > 0 /\ SectorCount \in Nat /\ SectorCount > 0
      /\ c \in Nat /\ 1 <= c /\ c <= CellCount
  BY SectorBounds DEF Cells
<1>1. 2 * CellCount <= TurnCount
  <2>1. (2 * SectorCount + 1) * CellCount >= 2 * CellCount
    <3>1. ASSUME NEW m \in Nat, m >= 2 PROVE m * CellCount >= 2 * CellCount
      BY <1>0, <3>1
    <3>2. 2 * SectorCount + 1 \in Nat /\ 2 * SectorCount + 1 >= 2
      BY <1>0
    <3> QED
      BY <3>1, <3>2
  <2> QED
    BY <2>1 DEF TurnCount
<1>2. c \in 1..TurnCount /\ CellCount + c \in 1..TurnCount
  BY <1>0, <1>1, TurnCountNat
<1>3. ASSUME NEW i \in 1..TurnCount, NEW q \in Nat, i = q * CellCount + c
      PROVE  CellAt(i) = c
  <2>1. /\ PassAt(i) \in Nat /\ CellAt(i) \in Cells
        /\ i = PassAt(i) * CellCount + CellAt(i)
    BY TurnParts, SectorBounds
  <2> QED
    BY <1>3, <2>1, TurnsDiffer
<1>4. CellAt(c) = c
  <2>1. 0 \in Nat /\ c = 0 * CellCount + c
    BY <1>0
  <2> QED
    BY <1>2, <1>3, <2>1
<1>5. CellAt(CellCount + c) = c
  <2>1. 1 \in Nat /\ CellCount + c = 1 * CellCount + c
    BY <1>0
  <2> QED
    BY <1>2, <1>3, <2>1
<1>6. /\ c \in 1..(2 * CellCount) /\ CellCount + c \in 1..(2 * CellCount)
      /\ c <= CellCount /\ ~(CellCount + c <= CellCount)
  BY <1>0
<1>7. EncodeExtras(atlas)[c] = IF Valid(atlas[c]) THEN Percent(atlas[c].calm, atlas[c]) ELSE 255
  BY <1>4, <1>6 DEF EncodeExtras
<1>8. EncodeExtras(atlas)[CellCount + c] =
        IF Valid(atlas[c]) THEN Percent(atlas[c].gale, atlas[c]) ELSE 255
  BY <1>5, <1>6 DEF EncodeExtras
<1> QED
  BY <1>7, <1>8

LEMMA ExtrasTyping ==
    ASSUME NEW atlas \in [Cells -> Samples]
    PROVE  EncodeExtras(atlas) \in Seq(Nat) /\ Len(EncodeExtras(atlas)) = 2 * CellCount
<1>0. CellCount \in Nat /\ CellCount > 0 /\ 2 * CellCount \in Nat
  BY SectorBounds
<1>1. ASSUME NEW i \in 1..(2 * CellCount)
      PROVE  EncodeExtras(atlas)[i] \in Nat
  <2> DEFINE a == atlas[CellAt(i)]
  <2>1. CellAt(i) \in Cells
    <3>1. i - 1 \in Nat
      BY <1>0
    <3>2. (i - 1) % CellCount \in 0..(CellCount - 1)
      BY <1>0, <3>1
    <3> QED
      BY <1>0, <3>2 DEF CellAt, Cells
  <2>2. a \in Samples
    BY <2>1
  <2>3. Valid(a) => Percent(a.calm, a) \in Nat /\ Percent(a.gale, a) \in Nat
    BY <2>2, ValidTotal
  <2>4. EncodeExtras(atlas)[i] = IF ~Valid(a) THEN 255
                                ELSE Percent(IF i <= CellCount THEN a.calm ELSE a.gale, a)
    BY <1>0 DEF EncodeExtras
  <2> HIDE DEF a
  <2> QED
    BY <2>3, <2>4
<1>2. EncodeExtras(atlas) \in [1..(2 * CellCount) -> Nat]
  <2>1. EncodeExtras(atlas) = [i \in 1..(2 * CellCount) |-> EncodeExtras(atlas)[i]]
    BY DEF EncodeExtras
  <2> QED
    BY <1>1, <2>1
<1> QED
  BY <1>0, <1>2

LEMMA AtlasBegins == AtlasInit => AtlasInv
<1> SUFFICES ASSUME AtlasInit PROVE AtlasInv
  OBVIOUS
<1>1. extrasFile = NoFile \/ (extrasFile \in Seq(Nat) /\ Len(extrasFile) <= 2 * CellCount)
  <2>1. CASE extrasFile = NoFile
    BY <2>1
  <2>2. CASE extrasFile # NoFile
    <3>1. PICK old \in [Cells -> Samples] : extrasFile = EncodeExtras(old)
      BY <2>2 DEF AtlasInit
    <3>2. Len(extrasFile) = 2 * CellCount /\ extrasFile \in Seq(Nat)
      BY <3>1, ExtrasTyping
    <3> QED
      BY <3>2, SectorBounds
  <2> QED
    BY <2>1, <2>2
<1>2. AtlasTypes
  BY <1>1 DEF AtlasInit, AtlasTypes
<1>3. extrasFile = NoFile \/ Len(extrasFile) = 2 * CellCount
  BY ExtrasTyping DEF AtlasInit
<1> QED
  BY <1>2, <1>3 DEF AtlasInit, AtlasInv, FileIsTheCounts, DataIsTheCounts, OneIsShown, OneOrBoth,
      CalmsKnown

LEMMA AtlasWritten ==
    ASSUME AtlasInv, WriteWind \/ WriteExtras
    PROVE  AtlasInv'
<1>0. AtlasTypes
  BY DEF AtlasInv
<1>1. counts \in [Cells -> Samples]
  BY <1>0 DEF AtlasTypes
<1>2. AtlasTypes'
  <2>1. EncodeWind(counts) \in Seq(Nat)
    BY <1>1, StreamTyping, TurnCountNat DEF EncodeWind
  <2>2. EncodeExtras(counts) \in Seq(Nat) /\ Len(EncodeExtras(counts)) <= 2 * CellCount
    BY <1>1, ExtrasTyping, SectorBounds
  <2> QED
    BY <1>0, <2>1, <2>2 DEF AtlasTypes, WriteWind, WriteExtras
<1>3. FileIsTheCounts'
  <2>1. Len(EncodeExtras(counts)) = 2 * CellCount
    BY <1>1, ExtrasTyping
  <2> QED
    BY <2>1 DEF AtlasInv, FileIsTheCounts, WriteWind, WriteExtras
<1> QED
  BY <1>2, <1>3 DEF AtlasInv, DataIsTheCounts, OneIsShown, OneOrBoth, CalmsKnown, WriteWind,
      WriteExtras

LEMMA AtlasShipped ==
    ASSUME AtlasInv, NEW w \in 0..Len(windFile), NEW x \in 0..(2 * CellCount), Ship(w, x)
    PROVE  AtlasInv'
<1>0. AtlasTypes /\ windFile \in Seq(Nat) /\ windFile = EncodeWind(counts)
  BY DEF AtlasInv, AtlasTypes, FileIsTheCounts, Ship
<1>1. /\ windFile' \in Seq(Nat) /\ Len(windFile') = w
      /\ \A k \in 1..w : windFile'[k] = windFile[k]
  BY <1>0 DEF Ship
<1>2. extrasFile' = NoFile \/ (extrasFile' \in Seq(Nat) /\ Len(extrasFile') <= 2 * CellCount)
  <2>1. CASE extrasFile' \in {NoFile, extrasFile}
    BY <1>0, <2>1 DEF AtlasTypes
  <2>2. CASE extrasFile # NoFile /\ extrasFile' = SubSeq(extrasFile, 1, x)
    <3>1. extrasFile \in Seq(Nat) /\ x \in 0..Len(extrasFile) /\ Len(extrasFile) = 2 * CellCount
      BY <1>0, <2>2, SectorBounds DEF AtlasTypes, AtlasInv, FileIsTheCounts, Ship
    <3>2. extrasFile' \in Seq(Nat) /\ Len(extrasFile') <= 2 * CellCount
      BY <2>2, <3>1
    <3> QED
      BY <3>2
  <2> QED
    BY <2>1, <2>2 DEF Ship
<1>3. AtlasTypes'
  BY <1>0, <1>1, <1>2 DEF AtlasTypes, Ship
<1>4. BeginsWith(EncodeWind(counts), windFile')
  <2>1. Len(windFile') <= Len(windFile) /\ \A k \in 1..Len(windFile') : windFile[k] = windFile'[k]
    BY <1>0, <1>1
  <2> QED
    BY <1>0, <2>1 DEF BeginsWith
<1>5. FileIsTheCounts'
  BY <1>4 DEF FileIsTheCounts, Ship
<1> QED
  BY <1>3, <1>5 DEF AtlasInv, DataIsTheCounts, OneIsShown, OneOrBoth, CalmsKnown, Ship

LEMMA AtlasDecoded ==
    ASSUME AtlasInv, ReadWindData
    PROVE  AtlasInv'
<1> DEFINE reading == DecodeWind(windFile)
<1>0. /\ AtlasTypes /\ counts \in [Cells -> Samples] /\ windFile \in Seq(Nat)
      /\ BeginsWith(EncodeWind(counts), windFile)
      /\ NoData \notin [Cells -> Polars]
  BY AtlasAssumption DEF AtlasInv, AtlasTypes, FileIsTheCounts, ReadWindData
<1>1. /\ atlasStage' = "read" /\ counts' = counts /\ windFile' = windFile /\ extrasFile' = extrasFile
      /\ windData' = IF reading.whole THEN reading.data ELSE NoData
  BY DEF ReadWindData
<1>2. /\ reading.whole => reading.data \in [Cells -> Polars]
      /\ \A c \in Cells :
            reading.whole =>
                /\ MarkedRight(reading.data[c], counts[c])
                /\ Valid(counts[c]) =>
                    /\ reading.data[c].directions = Frequency(counts[c])
                    /\ \A s \in Sectors : reading.data[c].speeds[s] = SpeedOf(c, s, counts[c])
      /\ ~reading.whole => Len(windFile) < Len(EncodeWind(counts))
  BY <1>0, DecodeEncoded
<1> HIDE DEF reading
<1>3. AtlasTypes' /\ FileIsTheCounts'
  BY <1>0, <1>1, <1>2 DEF AtlasTypes, FileIsTheCounts
<1>4. CASE ~reading.whole
  <2>1. windData' = NoData
    BY <1>1, <1>4
  <2> QED
    BY <1>1, <1>2, <1>3, <1>4, <2>1 DEF AtlasInv, DataIsTheCounts, OneIsShown, OneOrBoth,
        CalmsKnown
<1>5. CASE reading.whole
  <2>1. windData' = reading.data /\ windData' # NoData
    BY <1>0, <1>1, <1>2, <1>5
  <2>2. ASSUME NEW c \in Cells PROVE RoseArrives(c)'
    <3> DEFINE a == counts[c]  polar == windData'[c]
    <3>1. a \in Samples /\ TotalOf(a) \in Nat /\ MinimumSamples \in Nat
      BY <1>0, SampleTyping, SectorBounds
    <3>2. /\ MarkedRight(polar, a)
          /\ Valid(a) =>
                /\ polar.directions = Frequency(a)
                /\ \A s \in Sectors : polar.speeds[s] = SpeedOf(c, s, a)
      BY <1>2, <1>5, <2>1
    <3> HIDE DEF a, polar
    <3>4. Valid(a) => SharesOf(a, polar.directions)
      BY <3>1, <3>2, FrequencyExact
    <3>5. /\ MissingCell(polar) <=> ~(TotalOf(a) >= MinimumSamples)
          /\ TotalOf(a) >= MinimumSamples =>
                /\ SharesOf(a, polar.directions)
                /\ \A s \in Sectors :
                    polar.speeds[s] = IF polar.directions[s] = 0 THEN 0 ELSE MeanSpeed[c][s]
      BY <3>2, <3>4 DEF MarkedRight, SpeedOf, Valid
    <3> QED
      BY <1>1, <3>5 DEF RoseArrives, Counted, Arrived, a, polar
  <2>3. ASSUME NEW c \in Cells, ~MissingCell(windData'[c])
        PROVE  [calm |-> windData'[c].calm, gale |-> windData'[c].gale] = OneOf(CalmAndGale(counts[c]))
    BY <1>2, <1>5, <2>1, <2>3 DEF MarkedRight
  <2>4. DataIsTheCounts'
    BY <2>1, <2>2 DEF DataIsTheCounts
  <2>5. OneIsShown'
    BY <1>1, <2>3 DEF OneIsShown, ShownAt, Arrived, Shows
  <2> QED
    BY <1>1, <1>3, <2>4, <2>5 DEF AtlasInv, OneOrBoth, CalmsKnown
<1> QED
  BY <1>4, <1>5

\* The build's own extras agree with its atlas, and extras that miss other cells
\* do not.
LEMMA CalmsAfterExtras ==
    ASSUME AtlasInv, ReadWindExtras
    PROVE  CalmsKnown'
<1>0. /\ AtlasTypes /\ DataIsTheCounts /\ OneIsShown /\ atlasStage = "read"
      /\ counts \in [Cells -> Samples] /\ counts' = counts /\ extrasFile' = extrasFile
  BY DEF AtlasInv, AtlasTypes, ReadWindExtras
<1> SUFFICES ASSUME windData' # NoData, NEW c \in Cells, Counted(c)
             PROVE  /\ ExtrasUnusable => ShownAt(c)' = OneOf(CalmAndGale(counts[c]))
                    /\ ExtrasAreOurs => ShownAt(c)' = CalmAndGale(counts[c])
  BY <1>0 DEF CalmsKnown, CalmsArrive, Counted, ExtrasUnusable, ExtrasAreOurs, ExtrasOf
<1>1. windData # NoData
  BY DEF ReadWindExtras
<1>2. \A d \in Cells : MissingCell(windData[d]) <=> ~Counted(d)
  BY <1>0, <1>1 DEF DataIsTheCounts, RoseArrives, Arrived
<1>3. ShownAt(c) = OneOf(CalmAndGale(counts[c]))
  BY <1>0, <1>1, <1>2 DEF OneIsShown, Shows
<1>4. ASSUME ExtrasUnusable PROVE ShownAt(c)' = OneOf(CalmAndGale(counts[c]))
  <2>1. windData' = windData
    <3>1. CASE extrasFile = NoFile \/ Len(extrasFile) < 2 * CellCount
      BY <3>1 DEF ReadWindExtras
    <3>2. ASSUME NEW d \in Cells, 255 \in {ExtrasOf(d).calm, ExtrasOf(d).gale} <=> Counted(d)
          PROVE  ~AgreesAt(d)
      BY <1>2, <3>2 DEF AgreesAt
    <3>3. CASE \E d \in Cells : 255 \in {ExtrasOf(d).calm, ExtrasOf(d).gale} <=> Counted(d)
      BY <3>2, <3>3 DEF ReadWindExtras
    <3> QED
      BY <1>4, <3>1, <3>3 DEF ExtrasUnusable
  <2> QED
    BY <1>3, <2>1 DEF ShownAt, Arrived
<1>5. ASSUME ExtrasAreOurs PROVE ShownAt(c)' = CalmAndGale(counts[c])
  <2>1. extrasFile = EncodeExtras(counts)
    BY <1>5 DEF ExtrasAreOurs
  <2>2. /\ extrasFile \in Seq(Nat) /\ Len(extrasFile) = 2 * CellCount
        /\ NoFile \notin Seq(Nat) /\ CellCount \in Nat
    BY <1>0, <2>1, ExtrasTyping, SectorBounds, AtlasAssumption
  <2>3. extrasFile # NoFile /\ ~(Len(extrasFile) < 2 * CellCount)
    BY <2>2
  <2>4. ASSUME NEW d \in Cells
        PROVE  /\ Counted(d) => /\ ExtrasOf(d) = CalmAndGale(counts[d])
                                /\ ExtrasOf(d).calm \in 0..100 /\ ExtrasOf(d).gale \in 0..100
               /\ ~Counted(d) => ExtrasOf(d).calm = 255
    <3>1. counts[d] \in Samples /\ (Valid(counts[d]) <=> Counted(d))
      BY <1>0 DEF Valid, Counted
    <3>2. PICK k, g : k = extrasFile[d] /\ g = extrasFile[CellCount + d]
      OBVIOUS
    <3>3. ExtrasOf(d) = [calm |-> k, gale |-> g]
      BY <3>2 DEF ExtrasOf
    <3>4. IF Counted(d)
          THEN k = Percent(counts[d].calm, counts[d]) /\ g = Percent(counts[d].gale, counts[d])
          ELSE k = 255
      BY <1>0, <2>1, <3>1, <3>2, PlanesOf
    <3>5. Counted(d) => k \in 0..100 /\ g \in 0..100
      BY <3>1, <3>4, ValidTotal
    <3> QED
      BY <3>3, <3>4, <3>5 DEF CalmAndGale
  <2>5. ASSUME NEW d \in Cells PROVE AgreesAt(d)
    <3>1. CASE Counted(d)
      <4>1. ~MissingCell(windData[d])
        BY <1>2, <3>1
      <4>2. /\ ExtrasOf(d).calm # 255 /\ ExtrasOf(d).calm <= 100
            /\ ExtrasOf(d).gale # 255 /\ ExtrasOf(d).gale <= 100
        BY <2>4, <3>1
      <4> QED
        BY <4>1, <4>2 DEF AgreesAt
    <3>2. CASE ~Counted(d)
      BY <1>2, <2>4, <3>2 DEF AgreesAt
    <3> QED
      BY <3>1, <3>2
  <2>6. windData' = WithExtras(Cells)
    BY <1>1, <2>3, <2>5 DEF ReadWindExtras
  <2>7. windData'[c] = [windData[c] EXCEPT !.calm = ExtrasOf(c).calm, !.gale = ExtrasOf(c).gale]
    BY <1>2, <2>6 DEF WithExtras
  <2>8. windData[c] \in Polars
    BY <1>0, <1>1 DEF AtlasTypes
  <2>9. PICK k, g : k = ExtrasOf(c).calm /\ g = ExtrasOf(c).gale
    OBVIOUS
  <2>10. windData'[c].calm = k /\ windData'[c].gale = g
    BY <2>7, <2>8, <2>9 DEF Polars
  <2>11. CalmAndGale(counts[c]) = [calm |-> k, gale |-> g]
    BY <2>4, <2>9 DEF CalmAndGale
  <2> QED
    BY <2>10, <2>11 DEF ShownAt, Arrived
<1> QED
  BY <1>4, <1>5

LEMMA AtlasExtras ==
    ASSUME AtlasInv, ReadWindExtras
    PROVE  AtlasInv'
<1>0. AtlasTypes /\ FileIsTheCounts /\ DataIsTheCounts /\ OneIsShown /\ atlasStage = "read"
  BY DEF AtlasInv, ReadWindExtras
<1>1. /\ atlasStage' = "done" /\ counts' = counts /\ windFile' = windFile /\ extrasFile' = extrasFile
  BY DEF ReadWindExtras
<1>2. FileIsTheCounts'
  BY <1>0, <1>1 DEF FileIsTheCounts
<1>3. CASE windData' = windData
  <2>1. AtlasTypes'
    BY <1>0, <1>1, <1>3 DEF AtlasTypes
  <2>2. DataIsTheCounts'
    BY <1>0, <1>1, <1>3 DEF DataIsTheCounts, RoseArrives, Counted, Arrived
  <2>3. OneOrBoth' /\ OneIsShown'
    BY <1>0, <1>1, <1>3 DEF OneIsShown, OneOrBoth, ShownAt, Arrived, Shows
  <2> QED
    BY <1>2, <2>1, <2>2, <2>3, CalmsAfterExtras DEF AtlasInv
<1>4. CASE windData' # windData
  <2>1. /\ windData # NoData /\ extrasFile # NoFile /\ ~(Len(extrasFile) < 2 * CellCount)
        /\ \A c \in Cells : AgreesAt(c)
        /\ windData' = WithExtras(Cells)
    BY <1>4 DEF ReadWindExtras
  <2>2. /\ windData \in [Cells -> Polars] /\ extrasFile \in Seq(Nat)
        /\ Len(extrasFile) = 2 * CellCount /\ CellCount \in Nat
        /\ NoData \notin [Cells -> Polars]
    BY <1>0, <2>1, SectorBounds, AtlasAssumption DEF AtlasTypes
  <2>3. ASSUME NEW c \in Cells
        PROVE  /\ windData'[c] \in Polars
               /\ Shows(c)' <=> Shows(c)
               /\ Shows(c) => ShownAt(c)' = ExtrasOf(c)
               /\ windData'[c].directions = windData[c].directions
               /\ windData'[c].speeds = windData[c].speeds
    <3> DEFINE old == windData[c]  x == ExtrasOf(c)  new == windData'[c]
    <3>1. old \in Polars /\ x = [calm |-> x.calm, gale |-> x.gale] /\ x.calm \in Nat /\ x.gale \in Nat
      <4>1. c \in 1..Len(extrasFile) /\ CellCount + c \in 1..Len(extrasFile)
        BY <2>2 DEF Cells
      <4>2. extrasFile[c] \in Nat /\ extrasFile[CellCount + c] \in Nat
        BY <2>2, <4>1
      <4> QED
        BY <2>2, <4>2 DEF ExtrasOf
    <3>2. /\ MissingCell(old) => new = old
          /\ ~MissingCell(old) =>
                /\ new = [old EXCEPT !.calm = x.calm, !.gale = x.gale]
                /\ x.gale <= 100
      BY <2>1 DEF WithExtras, AgreesAt
    <3>3. AgreesAt(c)
      BY <2>1
    <3> HIDE DEF old, x, new
    <3>4. CASE MissingCell(old)
      BY <3>1, <3>2, <3>4 DEF Shows, old, new
    <3>5. CASE ~MissingCell(old)
      <4> DEFINE k == x.calm  g == x.gale
      <4>1. k \in Nat /\ g \in Nat /\ g <= 100 /\ x = [calm |-> k, gale |-> g]
        BY <3>1, <3>2, <3>5
      <4>2. new = [old EXCEPT !.calm = k, !.gale = g]
        BY <3>2, <3>5
      <4> HIDE DEF k, g
      <4>3. /\ new \in Polars /\ new.calm = k /\ new.gale = g
            /\ new.directions = old.directions /\ new.speeds = old.speeds
        BY <3>1, <4>1, <4>2 DEF Polars
      <4>4. ~MissingCell(new)
        BY <4>1, <4>3 DEF MissingCell
      <4> QED
        BY <1>1, <3>5, <4>1, <4>3, <4>4 DEF Shows, ShownAt, Arrived, ExtrasOf, old, new, x
    <3> QED
      BY <3>4, <3>5
  <2>4. windData' \in [Cells -> Polars] /\ windData' # NoData
    <3>1. windData' = [c \in Cells |-> windData'[c]]
      BY <2>1 DEF WithExtras
    <3> QED
      BY <2>2, <2>3, <3>1
  <2>5. AtlasTypes'
    BY <1>0, <1>1, <2>4 DEF AtlasTypes
  <2>6. ASSUME NEW c \in Cells PROVE RoseArrives(c)'
    <3>1. RoseArrives(c)
      BY <1>0, <2>1 DEF DataIsTheCounts
    <3> QED
      BY <1>1, <2>3, <3>1 DEF RoseArrives, Counted, Arrived, Shows
  <2>7. DataIsTheCounts'
    BY <2>4, <2>6 DEF DataIsTheCounts
  <2>8. OneOrBoth' /\ OneIsShown'
    <3>1. \A c \in Cells : Shows(c)' => ShownAt(c)' = ExtrasOf(c)'
      BY <1>1, <2>3 DEF ExtrasOf
    <3> QED
      BY <1>1, <2>1, <2>2, <3>1 DEF OneOrBoth, OneIsShown
  <2> QED
    BY <1>2, <2>5, <2>7, <2>8, CalmsAfterExtras DEF AtlasInv
<1> QED
  BY <1>3, <1>4

LEMMA AtlasInvHolds == AtlasSpec => []AtlasInv
<1>1. AtlasInit => AtlasInv
  BY AtlasBegins
<1>2. AtlasInv /\ [AtlasNext]_atlasVars => AtlasInv'
  <2> SUFFICES ASSUME AtlasInv, [AtlasNext]_atlasVars PROVE AtlasInv'
    OBVIOUS
  <2>1. CASE WriteWind \/ WriteExtras
    BY <2>1, AtlasWritten
  <2>2. CASE \E w \in 0..Len(windFile), x \in 0..(2 * CellCount) : Ship(w, x)
    BY <2>2, AtlasShipped
  <2>3. CASE ReadWindData
    BY <2>3, AtlasDecoded
  <2>4. CASE ReadWindExtras
    BY <2>4, AtlasExtras
  <2>5. CASE UNCHANGED atlasVars
    BY <2>5 DEF atlasVars, AtlasInv, AtlasTypes, FileIsTheCounts, DataIsTheCounts, OneIsShown,
        OneOrBoth, CalmsKnown, RoseArrives, CalmsArrive, Counted, ExtrasUnusable, ExtrasAreOurs,
        Arrived, Shows, ShownAt, ExtrasOf
  <2> QED
    BY <2>1, <2>2, <2>3, <2>4, <2>5 DEF AtlasNext
<1> QED
  BY <1>1, <1>2, PTL DEF AtlasSpec

\* What ReadWindData and ReadWindExtras leave of an atlas that was written by
\* encode_wind is what was counted: shares that make up the whole, and calms and
\* gales, both or the weightier of them, by whether the build's extras came.
THEOREM CountsArrive == AtlasSpec => []AtlasArrives
<1>1. AtlasInv => AtlasArrives
  BY DEF AtlasInv, DataIsTheCounts, CalmsKnown, AtlasArrives, AtlasRead
<1> QED
  BY <1>1, AtlasInvHolds, PTL

\* ReadWindExtras replaces the calms and gales of all cells or of none.
THEOREM CalmsAndGalesOfOneFile == AtlasSpec => []ExtrasAllOrNone
<1>1. AtlasInv => ExtrasAllOrNone
  BY DEF AtlasInv, OneOrBoth, ExtrasAllOrNone, AtlasRead, ShownAt, Shows, Arrived
<1> QED
  BY <1>1, AtlasInvHolds, PTL

-----------------------------------------------------------------------------
(* Rows, points and their times                                            *)

LEMMA RowsAre ==
    ASSUME NEW r \in Rows
    PROVE  /\ r \in [sid : 1..Storms, main : BOOLEAN, basin : Theatres \cup {"none"},
                     year : Nat, month : 1..12, day : 1..31, hour : 0..23, lat : Latitudes,
                     lon : Longitudes, state : STRING, wind : Int, pressure : Int]
           /\ r.state \notin {"year", "end", "none"} /\ r.day <= DaysIn(r.year, r.month)
<1>1. Rows \subseteq
        [sid : 1..Storms, main : BOOLEAN, basin : Theatres \cup {"none"},
         year : Nat, month : 1..12, day : 1..31, hour : 0..23, lat : Latitudes,
         lon : Longitudes, state : STRING, wind : Int, pressure : Int]
  BY TracksAssumption
<1>2. \A v \in Rows : v.state \notin {"year", "end", "none"}
  BY TracksAssumption
<1>3. \A v \in Rows : v.day <= DaysIn(v.year, v.month)
  BY TracksAssumption
<1> QED
  BY <1>1, <1>2, <1>3

LEMMA StormCount == Storms \in Nat /\ Storms # 0
<1>1. Storms \in Nat \ {0}
  BY TracksAssumption
<1> QED
  BY <1>1

LEMMA RowFields ==
    ASSUME NEW r \in Rows
    PROVE  /\ r.sid \in 1..Storms /\ r.main \in BOOLEAN /\ r.basin \in Theatres \cup {"none"}
           /\ r.year \in Nat /\ r.month \in 1..12 /\ r.day \in 1..31 /\ r.hour \in 0..23
           /\ r.lat \in Int /\ -900 <= r.lat /\ r.lat <= 900
           /\ r.lon \in Int /\ -3600 <= r.lon /\ r.lon <= 3600
           /\ r.wind \in Int /\ r.pressure \in Int /\ r.state \in STRING
           /\ r.state \notin {"year", "end", "none"} /\ r.day <= DaysIn(r.year, r.month)
<1>1. r \in [sid : 1..Storms, main : BOOLEAN, basin : Theatres \cup {"none"},
             year : Nat, month : 1..12, day : 1..31, hour : 0..23, lat : Latitudes,
             lon : Longitudes, state : STRING, wind : Int, pressure : Int]
  BY RowsAre
<1>2. r.state \notin {"year", "end", "none"} /\ r.day <= DaysIn(r.year, r.month)
  BY RowsAre
<1>3. r.lat \in Latitudes /\ r.lon \in Longitudes
  BY <1>1
<1>4. r.lat \in Int /\ -900 <= r.lat /\ r.lat <= 900
  <2> DEFINE first == -900
             final == 900
  <2>1. first \in Int /\ final \in Int
    OBVIOUS
  <2>2. Latitudes = first..final
    BY DEF Latitudes
  <2> HIDE DEF first, final
  <2>3. r.lat \in Int /\ first <= r.lat /\ r.lat <= final
    BY <1>3, <2>1, <2>2
  <2> QED
    BY <2>3 DEF first, final
<1>5. r.lon \in Int /\ -3600 <= r.lon /\ r.lon <= 3600
  <2> DEFINE first == -3600
             final == 3600
  <2>1. first \in Int /\ final \in Int
    OBVIOUS
  <2>2. Longitudes = first..final
    BY DEF Longitudes
  <2> HIDE DEF first, final
  <2>3. r.lon \in Int /\ first <= r.lon /\ r.lon <= final
    BY <1>3, <2>1, <2>2
  <2> QED
    BY <2>3 DEF first, final
<1>6. /\ r.sid \in 1..Storms /\ r.main \in BOOLEAN /\ r.basin \in Theatres \cup {"none"}
      /\ r.year \in Nat /\ r.month \in 1..12 /\ r.day \in 1..31 /\ r.hour \in 0..23
      /\ r.wind \in Int /\ r.pressure \in Int /\ r.state \in STRING
  BY <1>1
<1> QED
  BY <1>2, <1>4, <1>5, <1>6

LEMMA PointFields ==
    ASSUME NEW r \in Rows
    PROVE  /\ Point(r).sid = r.sid /\ Point(r).basin = r.basin
           /\ Point(r).year = r.year /\ Point(r).month = r.month /\ Point(r).day = r.day
           /\ Point(r).hour = r.hour /\ Point(r).lat = r.lat /\ Point(r).state = r.state
           /\ Point(r).wind = r.wind /\ Point(r).pressure = r.pressure
           /\ Point(r).lon = LegacyLongitude(r.lon)
           /\ Stamp(Point(r)) = Stamp(r)
<1>1. r \in [sid : 1..Storms, main : BOOLEAN, basin : Theatres \cup {"none"},
             year : Nat, month : 1..12, day : 1..31, hour : 0..23, lat : Latitudes,
             lon : Longitudes, state : STRING, wind : Int, pressure : Int]
  BY RowsAre
<1>2. /\ Point(r).sid = r.sid /\ Point(r).basin = r.basin
      /\ Point(r).year = r.year /\ Point(r).month = r.month /\ Point(r).day = r.day
      /\ Point(r).hour = r.hour /\ Point(r).lat = r.lat /\ Point(r).state = r.state
      /\ Point(r).wind = r.wind /\ Point(r).pressure = r.pressure
      /\ Point(r).lon = LegacyLongitude(r.lon)
  BY <1>1 DEF Point
<1> QED
  BY <1>2 DEF Stamp

\* The longitude counted in the pipeline's way is the one at most 15 degrees
\* east and less than a turn west of it.
LEMMA LongitudesAgree ==
    ASSUME NEW lon \in Int, -3600 <= lon, lon <= 3600
    PROVE  /\ LegacyLongitude(lon) = West(lon) /\ LegacyLongitude(lon) \in Int
           /\ -3450 < LegacyLongitude(lon) /\ LegacyLongitude(lon) <= 150
<1> DEFINE east == lon % 3600
           w == IF east > 150 THEN east - 3600 ELSE east
<1>1. east \in 0..3599 /\ east \in {lon - 3600, lon, lon + 3600}
  <2> DEFINE q == lon \div 3600
  <2>1. q \in Int /\ east \in 0..3599 /\ lon = 3600 * q + east
    OBVIOUS
  <2> HIDE DEF q, east
  <2>2. q >= -1 /\ q <= 1
    BY <2>1
  <2>3. q \in {-1, 0, 1}
    BY <2>1, <2>2
  <2> QED
    BY <2>1, <2>3
<1>2. LegacyLongitude(lon) = w
  BY DEF LegacyLongitude
<1> HIDE DEF east
<1>3. w \in {lon - 3600, lon, lon + 3600} /\ -3450 < w /\ w <= 150 /\ w \in Int
  BY <1>1
<1>4. \A v \in {lon - 3600, lon, lon + 3600} : -3450 < v /\ v <= 150 => v = w
  BY <1>3
<1> HIDE DEF w
<1>5. West(lon) = w
  BY <1>3, <1>4 DEF West
<1> QED
  BY <1>2, <1>3, <1>5

LEMMA DatesAreTimes ==
    ASSUME NEW y \in Nat, NEW m \in Nat, NEW d \in Nat, NEW h \in Nat
    PROVE  ((y * 13 + m) * 32 + d) * 24 + h \in Nat
<1> DEFINE a == y * 13 + m
           b == a * 32 + d
<1>1. a \in Nat
  OBVIOUS
<1> HIDE DEF a
<1>2. b \in Nat
  BY <1>1
<1> HIDE DEF b
<1>3. b * 24 + h \in Nat
  BY <1>2
<1> QED
  BY <1>3 DEF a, b

\* Time passes year by year and, in a year, month by month.
LEMMA StampOrder ==
    ASSUME NEW p \in Rows, NEW q \in Rows
    PROVE  /\ Stamp(p) \in Nat
           /\ Stamp(p) < Stamp(q) =>
                p.year <= q.year /\ (p.year = q.year => p.month <= q.month)
<1>1. /\ p.year \in Nat /\ p.month \in 1..12 /\ p.day \in 1..31 /\ p.hour \in 0..23
      /\ q.year \in Nat /\ q.month \in 1..12 /\ q.day \in 1..31 /\ q.hour \in 0..23
  BY RowFields
<1>4. p.month \in Nat /\ p.day \in Nat /\ p.hour \in Nat
  BY <1>1
<1>2. Stamp(p) \in Nat
  BY <1>1, <1>4, DatesAreTimes DEF Stamp
<1>3. ASSUME Stamp(p) < Stamp(q)
      PROVE  p.year <= q.year /\ (p.year = q.year => p.month <= q.month)
  <2>1. ((p.year * 13 + p.month) * 32 + p.day) * 24 + p.hour
            < ((q.year * 13 + q.month) * 32 + q.day) * 24 + q.hour
    BY <1>3 DEF Stamp
  <2>2. PICK y, m, d, h : y = p.year /\ m = p.month /\ d = p.day /\ h = p.hour
    OBVIOUS
  <2>3. PICK z, n, e, i : z = q.year /\ n = q.month /\ e = q.day /\ i = q.hour
    OBVIOUS
  <2>4. /\ y \in Nat /\ m \in 1..12 /\ d \in 1..31 /\ h \in 0..23
        /\ z \in Nat /\ n \in 1..12 /\ e \in 1..31 /\ i \in 0..23
    BY <1>1, <2>2, <2>3
  <2>5. ((y * 13 + m) * 32 + d) * 24 + h < ((z * 13 + n) * 32 + e) * 24 + i
    BY <2>1, <2>2, <2>3, Zenon
  <2>6. y <= z /\ (y = z => m <= n)
    <3> DEFINE a == y * 13 + m
               b == z * 13 + n
    <3>1. a \in Int /\ b \in Int /\ a = y * 13 + m /\ b = z * 13 + n
      BY <2>4
    <3>2. (a * 32 + d) * 24 + h < (b * 32 + e) * 24 + i
      BY <2>5
    <3> HIDE DEF a, b
    <3>3. a <= b
      BY <2>4, <3>1, <3>2
    <3> QED
      BY <2>4, <3>1, <3>3
  <2> QED
    BY <2>2, <2>3, <2>6
<1> QED
  BY <1>2, <1>3

-----------------------------------------------------------------------------
(* The archive, point by point                                             *)

Points == {Point(r) : r \in {q \in Rows : Accepted(q)}}
KeptPoints == {Point(input[i]) : i \in Kept}

Adjacent(p, q) ==
    /\ p.sid = q.sid /\ p.basin = q.basin /\ Stamp(p) < Stamp(q)
    /\ \A r \in KeptPoints :
        r.sid = p.sid => ~(Stamp(p) < Stamp(r) /\ Stamp(r) < Stamp(q))

PairsOf(b) ==
    {pq \in KeptPoints \X KeptPoints : Adjacent(pq[1], pq[2]) /\ pq[1].basin = b}

SegmentOf(p, q) ==
    [state |-> p.state, year |-> p.year, month |-> p.month, day |-> p.day,
     hour |-> p.hour, lat |-> <<p.lat, q.lat>>, lon |-> <<p.lon, q.lon>>,
     wind |-> p.wind, pressure |-> p.pressure]

LEMMA MonthsHaveDays ==
    ASSUME NEW y \in Nat, NEW m \in 1..12
    PROVE  DaysIn(y, m) \in 28..31
  BY DEF DaysIn

LEMMA PointTyping ==
    ASSUME NEW p \in Points
    PROVE  /\ p.sid \in 1..Storms /\ p.basin \in Theatres /\ Stamp(p) \in Nat
           /\ p.year \in Nat /\ p.month \in 1..12 /\ p.day \in 1..31 /\ p.hour \in Quarters
           /\ p.lat \in Int /\ -900 <= p.lat /\ p.lat <= 900 /\ p.lon \in Int /\ -3450 < p.lon /\ p.lon <= 150
           /\ p.wind \in Int /\ p.pressure \in Int /\ p.state \in STRING
           /\ p.state \notin {"year", "end", "none"} /\ p.day \in 1..DaysIn(p.year, p.month)
<1>1. PICK r \in Rows : Accepted(r) /\ p = Point(r)
  BY DEF Points
<1>2. r.hour \in Quarters /\ r.basin # "none"
  BY <1>1 DEF Accepted
<1>3. r.lon \in Int /\ -3600 <= r.lon /\ r.lon <= 3600
  BY RowFields
<1>4. /\ LegacyLongitude(r.lon) \in Int
      /\ -3450 < LegacyLongitude(r.lon) /\ LegacyLongitude(r.lon) <= 150
  BY <1>3, LongitudesAgree
<1>5. Stamp(r) \in Nat
  BY StampOrder
<1>6. /\ p.sid = r.sid /\ p.basin = r.basin /\ Stamp(p) = Stamp(r) /\ p.year = r.year
      /\ p.month = r.month /\ p.day = r.day /\ p.hour = r.hour /\ p.lat = r.lat
      /\ p.lon = LegacyLongitude(r.lon) /\ p.wind = r.wind /\ p.pressure = r.pressure
      /\ p.state = r.state
  BY <1>1, PointFields
<1>7. /\ r.sid \in 1..Storms /\ r.basin \in Theatres
      /\ r.year \in Nat /\ r.month \in 1..12 /\ r.day \in 1..31
      /\ r.lat \in Int /\ -900 <= r.lat /\ r.lat <= 900 /\ r.wind \in Int /\ r.pressure \in Int
      /\ r.state \in STRING /\ r.state \notin {"year", "end", "none"}
  BY <1>2, RowFields
<1>8. p.day \in 1..DaysIn(p.year, p.month)
  <2>1. PICK d, y, m : d = p.day /\ y = p.year /\ m = p.month
    OBVIOUS
  <2>2. d \in 1..31 /\ y \in Nat /\ m \in 1..12
    BY <1>6, <1>7, <2>1
  <2>3. d <= DaysIn(y, m)
    <3>1. r.day <= DaysIn(r.year, r.month)
      BY RowFields
    <3> QED
      BY <1>6, <2>1, <3>1
  <2>4. d \in 1..DaysIn(y, m)
    BY <2>2, <2>3, MonthsHaveDays
  <2> QED
    BY <2>1, <2>4
<1> QED
  BY <1>2, <1>4, <1>5, <1>6, <1>7, <1>8

LEMMA PointOrder ==
    ASSUME NEW p \in Points, NEW q \in Points, Stamp(p) < Stamp(q)
    PROVE  p.year <= q.year /\ (p.year = q.year => p.month <= q.month)
<1>1. PICK r \in Rows : p = Point(r)
  BY DEF Points
<1>2. PICK v \in Rows : q = Point(v)
  BY DEF Points
<1>3. Stamp(r) < Stamp(v)
  BY <1>1, <1>2, PointFields
<1>4. r.year <= v.year /\ (r.year = v.year => r.month <= v.month)
  BY <1>3, StampOrder
<1> QED
  BY <1>1, <1>2, <1>4, PointFields

\* An archive is a sequence of rows.
Archive == input \in Seq(Rows)

LEMMA KeptRows ==
    ASSUME Archive
    PROVE  /\ Len(input) \in Nat /\ DOMAIN input = 1..Len(input)
           /\ \A i \in DOMAIN input : input[i] \in Rows /\ i \in Nat
           /\ Kept \subseteq DOMAIN input
           /\ \A i \in Kept : Accepted(input[i]) /\ Point(input[i]) \in KeptPoints
           /\ KeptPoints \subseteq Points
<1>1. Len(input) \in Nat /\ DOMAIN input = 1..Len(input)
  BY DEF Archive
<1>2. \A i \in DOMAIN input : input[i] \in Rows /\ i \in Nat
  BY <1>1 DEF Archive
<1>3. Kept \subseteq DOMAIN input /\ \A i \in Kept : Accepted(input[i])
  BY DEF Kept
<1>4. \A i \in Kept : Point(input[i]) \in KeptPoints
  BY DEF KeptPoints
<1>5. KeptPoints \subseteq Points
  BY <1>2, <1>3 DEF KeptPoints, Points
<1> QED
  BY <1>1, <1>2, <1>3, <1>4, <1>5

\* A storm has one observation at a time.
LEMMA OneAtATime ==
    ASSUME Archive, NEW i \in Kept, NEW j \in Kept,
           input[i].sid = input[j].sid, Stamp(input[i]) = Stamp(input[j])
    PROVE  i = j
<1>1. i \in Nat /\ j \in Nat /\ i >= 1 /\ j >= 1 /\ Accepted(input[i]) /\ Accepted(input[j])
  BY KeptRows
<1>2. ~(j \in 1..(i-1)) /\ ~(i \in 1..(j-1))
  BY <1>1 DEF Kept
<1> QED
  BY <1>1, <1>2

LEMMA OnePointATime ==
    ASSUME Archive, NEW p \in KeptPoints, NEW q \in KeptPoints,
           p.sid = q.sid, Stamp(p) = Stamp(q)
    PROVE  p = q
<1>1. PICK i \in Kept : p = Point(input[i])
  BY DEF KeptPoints
<1>2. PICK j \in Kept : q = Point(input[j])
  BY DEF KeptPoints
<1>3. input[i] \in Rows /\ input[j] \in Rows
  BY KeptRows
<1>4. input[i].sid = input[j].sid /\ Stamp(input[i]) = Stamp(input[j])
  BY <1>1, <1>2, <1>3, PointFields
<1>5. i = j
  BY <1>4, OneAtATime
<1> QED
  BY <1>1, <1>2, <1>5

\* One row follows another exactly when its point is next to the other's.
LEMMA FollowsAreAdjacent ==
    ASSUME Archive, NEW i \in Kept, NEW j \in Kept
    PROVE  <<i, j>> \in Follows <=> Adjacent(Point(input[i]), Point(input[j]))
<1> DEFINE p == Point(input[i])
           q == Point(input[j])
<1>1. \A k \in Kept : /\ Point(input[k]) \in KeptPoints
                      /\ Point(input[k]).sid = input[k].sid
                      /\ Point(input[k]).basin = input[k].basin
                      /\ Stamp(Point(input[k])) = Stamp(input[k])
  BY KeptRows, PointFields
<1>2. \A r \in KeptPoints : \E k \in Kept : r = Point(input[k])
  BY DEF KeptPoints
<1>3. (\A k \in Kept : input[k].sid = input[i].sid =>
            ~(Stamp(input[i]) < Stamp(input[k]) /\ Stamp(input[k]) < Stamp(input[j])))
      <=> (\A r \in KeptPoints : r.sid = p.sid =>
            ~(Stamp(p) < Stamp(r) /\ Stamp(r) < Stamp(q)))
  BY <1>1, <1>2
<1>4. <<i, j>> \in Follows <=>
        /\ input[i].sid = input[j].sid /\ input[i].basin = input[j].basin
        /\ Stamp(input[i]) < Stamp(input[j])
        /\ \A k \in Kept : input[k].sid = input[i].sid =>
            ~(Stamp(input[i]) < Stamp(input[k]) /\ Stamp(input[k]) < Stamp(input[j]))
  BY DEF Follows
<1>5. Adjacent(p, q) <=>
        /\ p.sid = q.sid /\ p.basin = q.basin /\ Stamp(p) < Stamp(q)
        /\ \A r \in KeptPoints : r.sid = p.sid =>
            ~(Stamp(p) < Stamp(r) /\ Stamp(r) < Stamp(q))
  BY DEF Adjacent
<1>6. p.sid = input[i].sid /\ q.sid = input[j].sid /\ p.basin = input[i].basin
      /\ q.basin = input[j].basin /\ Stamp(p) = Stamp(input[i]) /\ Stamp(q) = Stamp(input[j])
  BY <1>1
<1> HIDE DEF p, q
<1>7. <<i, j>> \in Follows <=> Adjacent(p, q)
  BY <1>3, <1>4, <1>5, <1>6
<1> QED
  BY <1>7 DEF p, q

LEMMA FollowsInPairs ==
    ASSUME Archive, NEW b
    PROVE  /\ FollowsIn(b) \subseteq Kept \X Kept
           /\ \A i, j \in Kept : <<i, j>> \in FollowsIn(b) <=>
                <<Point(input[i]), Point(input[j])>> \in PairsOf(b)
<1>1. FollowsIn(b) \subseteq Kept \X Kept
  BY DEF FollowsIn, Follows
<1>2. ASSUME NEW i \in Kept, NEW j \in Kept
      PROVE  <<i, j>> \in FollowsIn(b) <=>
                <<Point(input[i]), Point(input[j])>> \in PairsOf(b)
  <2>1. /\ Point(input[i]) \in KeptPoints /\ Point(input[j]) \in KeptPoints
        /\ Point(input[i]).basin = input[i].basin
    BY KeptRows, PointFields
  <2>2. <<i, j>> \in FollowsIn(b) <=> <<i, j>> \in Follows /\ input[i].basin = b
    BY DEF FollowsIn
  <2>3. <<Point(input[i]), Point(input[j])>> \in PairsOf(b)
            <=> Adjacent(Point(input[i]), Point(input[j])) /\ Point(input[i]).basin = b
    BY <2>1 DEF PairsOf
  <2> QED
    BY <2>1, <2>2, <2>3, FollowsAreAdjacent
<1> QED
  BY <1>1, <1>2

\* The truth about a theatre, told by its pairs of points.
LEMMA TruthByPoints ==
    ASSUME Archive, NEW b
    PROVE  Truth(b) = {SegmentOf(pq[1], pq[2]) : pq \in PairsOf(b)}
<1> DEFINE Told(ij) ==
        [state |-> input[ij[1]].state, year |-> input[ij[1]].year,
         month |-> input[ij[1]].month, day |-> input[ij[1]].day,
         hour |-> input[ij[1]].hour, lat |-> <<input[ij[1]].lat, input[ij[2]].lat>>,
         lon |-> <<West(input[ij[1]].lon), West(input[ij[2]].lon)>>,
         wind |-> input[ij[1]].wind, pressure |-> input[ij[1]].pressure]
<1>1. ASSUME NEW i \in Kept, NEW j \in Kept
      PROVE  Told(<<i, j>>) = SegmentOf(Point(input[i]), Point(input[j]))
  <2>1. input[i] \in Rows /\ input[j] \in Rows
    BY KeptRows
  <2>2. ASSUME NEW r \in Rows
        PROVE  Point(r).lon = West(r.lon)
    BY RowFields, LongitudesAgree, PointFields
  <2> QED
    BY <2>1, <2>2, PointFields DEF SegmentOf
<1>2. Truth(b) = {Told(ij) : ij \in FollowsIn(b)}
  BY DEF Truth
<1> HIDE DEF Told
<1>3. ASSUME NEW ij \in FollowsIn(b)
      PROVE  \E pq \in PairsOf(b) : Told(ij) = SegmentOf(pq[1], pq[2])
  <2>1. PICK i \in Kept, j \in Kept : ij = <<i, j>>
    BY FollowsInPairs
  <2>2. <<Point(input[i]), Point(input[j])>> \in PairsOf(b)
    BY <2>1, FollowsInPairs
  <2> QED
    BY <2>1, <2>2, <1>1
<1>4. ASSUME NEW pq \in PairsOf(b)
      PROVE  \E ij \in FollowsIn(b) : Told(ij) = SegmentOf(pq[1], pq[2])
  <2>1. PICK i \in Kept, j \in Kept : pq = <<Point(input[i]), Point(input[j])>>
    BY DEF PairsOf, KeptPoints
  <2>2. <<i, j>> \in FollowsIn(b)
    BY <2>1, FollowsInPairs
  <2> QED
    BY <2>1, <2>2, <1>1
<1> QED
  BY <1>2, <1>3, <1>4

LEMMA PairsCounted ==
    ASSUME Archive, NEW b
    PROVE  /\ IsFiniteSet(PairsOf(b))
           /\ Cardinality(PairsOf(b)) = Cardinality(FollowsIn(b))
<1> DEFINE Both(ij) == <<Point(input[ij[1]]), Point(input[ij[2]])>>
           f == [ij \in FollowsIn(b) |-> Both(ij)]
<1>1. IsFiniteSet(FollowsIn(b))
  <2>1. IsFiniteSet(DOMAIN input)
    BY KeptRows, FS_Interval
  <2>2. IsFiniteSet(Kept)
    BY <2>1, KeptRows, FS_Subset
  <2>3. IsFiniteSet(Kept \X Kept)
    BY <2>2, FS_Product
  <2> QED
    BY <2>3, FollowsInPairs, FS_Subset
<1>2. \A ij \in FollowsIn(b) : f[ij] \in PairsOf(b)
  <2> SUFFICES ASSUME NEW ij \in FollowsIn(b)
               PROVE  f[ij] \in PairsOf(b)
    OBVIOUS
  <2>1. PICK i \in Kept, j \in Kept : ij = <<i, j>>
    BY FollowsInPairs
  <2> QED
    BY <2>1, FollowsInPairs
<1>3. \A ij, kl \in FollowsIn(b) : f[ij] = f[kl] => ij = kl
  <2> SUFFICES ASSUME NEW ij \in FollowsIn(b), NEW kl \in FollowsIn(b), f[ij] = f[kl]
               PROVE  ij = kl
    OBVIOUS
  <2>1. PICK i \in Kept, j \in Kept : ij = <<i, j>>
    BY FollowsInPairs
  <2>2. PICK k \in Kept, l \in Kept : kl = <<k, l>>
    BY FollowsInPairs
  <2>3. Point(input[i]) = Point(input[k]) /\ Point(input[j]) = Point(input[l])
    BY <2>1, <2>2
  <2>4. ASSUME NEW u \in Kept, NEW v \in Kept, Point(input[u]) = Point(input[v])
        PROVE  u = v
    <3>1. input[u] \in Rows /\ input[v] \in Rows
      BY KeptRows
    <3>2. input[u].sid = input[v].sid /\ Stamp(input[u]) = Stamp(input[v])
      BY <2>4, <3>1, PointFields
    <3> QED
      BY <3>2, OneAtATime
  <2>5. i = k /\ j = l
    BY <2>3, <2>4
  <2> QED
    BY <2>1, <2>2, <2>5
<1>4. \A pq \in PairsOf(b) : \E ij \in FollowsIn(b) : f[ij] = pq
  <2> SUFFICES ASSUME NEW pq \in PairsOf(b)
               PROVE  \E ij \in FollowsIn(b) : f[ij] = pq
    OBVIOUS
  <2>1. PICK i \in Kept, j \in Kept : pq = <<Point(input[i]), Point(input[j])>>
    BY DEF PairsOf, KeptPoints
  <2>2. <<i, j>> \in FollowsIn(b)
    BY <2>1, FollowsInPairs
  <2> QED
    BY <2>1, <2>2
<1>5. DOMAIN f = FollowsIn(b) /\ f = [ij \in FollowsIn(b) |-> f[ij]]
  OBVIOUS
<1> HIDE DEF f
<1>6. f \in Bijection(FollowsIn(b), PairsOf(b))
  BY <1>2, <1>3, <1>4, <1>5 DEF Bijection, Injection, Surjection, IsInjective
<1> QED
  BY <1>1, <1>6, FS_Bijection DEF ExistsBijection

LEMMA FailsByPoints ==
    ASSUME Archive
    PROVE  BuildFails <=>
            \/ \E b \in Theatres : \A p \in KeptPoints : p.basin # b
            \/ \E p \in KeptPoints : p.lat = -900 \/ p.lat = 900
            \/ \E b \in Theatres : \E pq \in PairsOf(b) :
                \/ pq[2].year > pq[1].year + 1
                \/ pq[2].year = pq[1].year + 1 /\ pq[2].month >= pq[1].month
<1>1. \A i \in Kept : /\ input[i] \in Rows /\ Point(input[i]) \in KeptPoints
                      /\ Point(input[i]) \in Points
                      /\ Point(input[i]).basin = input[i].basin
                      /\ Point(input[i]).lat = input[i].lat
                      /\ Point(input[i]).year = input[i].year
                      /\ Point(input[i]).month = input[i].month
  BY KeptRows, PointFields
<1>2. \A p \in KeptPoints : \E i \in Kept : p = Point(input[i])
  BY DEF KeptPoints
<1>3. (\E b \in Theatres : \A i \in Kept : input[i].basin # b)
      <=> (\E b \in Theatres : \A p \in KeptPoints : p.basin # b)
  BY <1>1, <1>2
<1>4. (\E i \in Kept : input[i].lat \in {-900, 900})
      <=> (\E p \in KeptPoints : p.lat = -900 \/ p.lat = 900)
  BY <1>1, <1>2
<1>5. ASSUME NEW i \in Kept, NEW j \in Kept
      PROVE  <<i, j>> \in Follows <=>
                <<Point(input[i]), Point(input[j])>> \in PairsOf(input[i].basin)
  BY FollowsInPairs DEF FollowsIn
<1> DEFINE Skips(p, q) ==
        q.year > p.year + 1 \/ (q.year = p.year + 1 /\ q.month >= p.month)
<1>6. \A i, j \in Kept : Skips(input[i], input[j]) = Skips(Point(input[i]), Point(input[j]))
  BY <1>1
<1> HIDE DEF Skips
<1>7. (\E ij \in Follows : Skips(input[ij[1]], input[ij[2]]))
      <=> (\E b \in Theatres : \E pq \in PairsOf(b) : Skips(pq[1], pq[2]))
  <2>1. ASSUME NEW ij \in Follows, Skips(input[ij[1]], input[ij[2]])
        PROVE  \E b \in Theatres : \E pq \in PairsOf(b) : Skips(pq[1], pq[2])
    <3>1. PICK i \in Kept, j \in Kept : ij = <<i, j>>
      BY DEF Follows
    <3>2. <<Point(input[i]), Point(input[j])>> \in PairsOf(input[i].basin)
      BY <3>1, <1>5
    <3>3. input[i].basin \in Theatres
      BY <1>1, PointTyping
    <3> QED
      BY <3>1, <3>2, <3>3, <2>1, <1>6
  <2>2. ASSUME NEW b \in Theatres, NEW pq \in PairsOf(b), Skips(pq[1], pq[2])
        PROVE  \E ij \in Follows : Skips(input[ij[1]], input[ij[2]])
    <3>1. PICK i \in Kept, j \in Kept : pq = <<Point(input[i]), Point(input[j])>>
      BY DEF PairsOf, KeptPoints
    <3>2. <<i, j>> \in Follows
      BY <3>1, FollowsInPairs DEF FollowsIn
    <3> QED
      BY <3>1, <3>2, <2>2, <1>6
  <2> QED
    BY <2>1, <2>2
<1> QED
  BY <1>3, <1>4, <1>7 DEF Skips, BuildFails

\* The archive does not change.
LEMMA ArchiveStays ==
    ASSUME input' = input
    PROVE  /\ Archive' = Archive /\ Kept' = Kept /\ KeptPoints' = KeptPoints
           /\ \A b : PairsOf(b)' = PairsOf(b) /\ FollowsIn(b)' = FollowsIn(b)
                     /\ Truth(b)' = Truth(b)
           /\ BuildFails' = BuildFails
<1>1. Archive' = Archive /\ Kept' = Kept
  BY DEF Archive, Kept
<1>2. KeptPoints' = KeptPoints
  BY <1>1 DEF KeptPoints
<1>3. \A p, q : Adjacent(p, q)' = Adjacent(p, q)
  BY <1>2 DEF Adjacent
<1>4. \A b : PairsOf(b)' = PairsOf(b)
  BY <1>2, <1>3 DEF PairsOf
<1>5. Follows' = Follows
  BY <1>1 DEF Follows
<1>6. \A b : FollowsIn(b)' = FollowsIn(b)
  BY <1>5 DEF FollowsIn
<1>7. \A b : Truth(b)' = Truth(b)
  BY <1>6 DEF Truth
<1>8. BuildFails' = BuildFails
  BY <1>1, <1>5 DEF BuildFails
<1> QED
  BY <1>1, <1>2, <1>4, <1>6, <1>7, <1>8

-----------------------------------------------------------------------------
(* Running totals                                                          *)

Run(N, f) ==
    LET upTo[n \in 0..N] == IF n = 0 THEN 0 ELSE upTo[n-1] + f[n]
    IN upTo

LEMMA RunExists ==
    ASSUME NEW N \in Nat, NEW f
    PROVE  \E u : u = [n \in 0..N |-> IF n = 0 THEN 0 ELSE u[n-1] + f[n]]
<1> DEFINE Runs(m) == \E u : u = [n \in 0..m |-> IF n = 0 THEN 0 ELSE u[n-1] + f[n]]
           T == {m \in 0..N : Runs(m)}
<1>1. 0 \in T
  <2> DEFINE u == [n \in 0..0 |-> 0]
  <2>1. u = [n \in 0..0 |-> IF n = 0 THEN 0 ELSE u[n-1] + f[n]]
    OBVIOUS
  <2>2. Runs(0)
    BY <2>1
  <2> QED
    BY <2>2
<1>2. ASSUME NEW m \in 1..N, m - 1 \in T PROVE m \in T
  <2>1. PICK u : u = [n \in 0..(m-1) |-> IF n = 0 THEN 0 ELSE u[n-1] + f[n]]
    BY <1>2
  <2> DEFINE w == [n \in 0..m |-> IF n = m THEN u[m-1] + f[m] ELSE u[n]]
  <2>2. m \in Nat /\ m # 0 /\ m - 1 \in 0..(m-1)
    OBVIOUS
  <2>3. \A n \in 0..m : w[n] = IF n = 0 THEN 0 ELSE w[n-1] + f[n]
    <3> TAKE n \in 0..m
    <3>1. CASE n = m
      BY <2>2, <3>1
    <3>2. CASE n # m
      <4>1. n \in 0..(m-1) /\ (n # 0 => n - 1 \in 0..(m-1) /\ n - 1 # m)
        BY <2>2, <3>2
      <4>2. w[n] = u[n] /\ (n # 0 => w[n-1] = u[n-1])
        BY <2>2, <3>2, <4>1
      <4>3. u[n] = IF n = 0 THEN 0 ELSE u[n-1] + f[n]
        BY <2>1, <4>1
      <4> QED
        BY <4>2, <4>3
    <3> QED
      BY <3>1, <3>2
  <2>4. w = [n \in 0..m |-> IF n = 0 THEN 0 ELSE w[n-1] + f[n]]
    BY <2>3
  <2>5. Runs(m)
    BY <2>4
  <2> QED
    BY <2>5
<1>3. N \in T
  <2> HIDE DEF T
  <2> QED
    BY <1>1, <1>2, CountingUp
<1> QED
  BY <1>3

LEMMA RunDef ==
    ASSUME NEW N \in Nat, NEW f
    PROVE  /\ Run(N, f)[0] = 0
           /\ \A n \in 1..N : Run(N, f)[n] = Run(N, f)[n-1] + f[n]
<1>1. Run(N, f) = [n \in 0..N |-> IF n = 0 THEN 0 ELSE Run(N, f)[n-1] + f[n]]
  BY RunExists DEF Run
<1> QED
  BY <1>1

LEMMA RunTyping ==
    ASSUME NEW N \in Nat, NEW f, \A n \in 1..N : f[n] \in Nat
    PROVE  \A n \in 0..N : Run(N, f)[n] \in Nat
<1> DEFINE T == {n \in 0..N : Run(N, f)[n] \in Nat}
<1>1. 0 \in T
  BY RunDef
<1>2. ASSUME NEW n \in 1..N, n - 1 \in T PROVE n \in T
  <2>1. Run(N, f)[n] = Run(N, f)[n-1] + f[n] /\ f[n] \in Nat
    BY RunDef
  <2> QED
    BY <1>2, <2>1
<1>3. 0..N \subseteq T
  <2> HIDE DEF T
  <2> QED
    BY <1>1, <1>2, CountingUp
<1> QED
  BY <1>3

\* A running total depends on what was added so far.
LEMMA RunSame ==
    ASSUME NEW N \in Nat, NEW M \in Nat, N <= M, NEW f, NEW g,
           \A n \in 1..N : f[n] = g[n]
    PROVE  \A n \in 0..N : Run(N, f)[n] = Run(M, g)[n]
<1> DEFINE T == {n \in 0..N : Run(N, f)[n] = Run(M, g)[n]}
<1>1. 0 \in T
  BY RunDef
<1>2. ASSUME NEW n \in 1..N, n - 1 \in T PROVE n \in T
  <2>1. n \in 1..M
    OBVIOUS
  <2>2. Run(N, f)[n] = Run(N, f)[n-1] + f[n] /\ Run(M, g)[n] = Run(M, g)[n-1] + g[n]
    BY <2>1, RunDef
  <2> QED
    BY <1>2, <2>2
<1>3. 0..N \subseteq T
  <2> HIDE DEF T
  <2> QED
    BY <1>1, <1>2, CountingUp
<1> QED
  BY <1>3

\* With positive parts, every position up to a total is in one part.
LEMMA RunCovers ==
    ASSUME NEW N \in Nat, NEW f, \A n \in 1..N : f[n] \in Nat
    PROVE  \A j \in 1..Run(N, f)[N] :
              \E n \in 1..N : \E m \in 1..f[n] : j = Run(N, f)[n-1] + m
<1> DEFINE In(j, n) == \E m \in 1..f[n] : j = Run(N, f)[n-1] + m
           T == {k \in 0..N : \A j \in 1..Run(N, f)[k] : \E n \in 1..k : In(j, n)}
<1>1. 0 \in T
  BY RunDef
<1>2. ASSUME NEW k \in 1..N, k - 1 \in T PROVE k \in T
  <2> SUFFICES ASSUME NEW j \in 1..Run(N, f)[k] PROVE \E n \in 1..k : In(j, n)
    OBVIOUS
  <2>1. Run(N, f)[k] = Run(N, f)[k-1] + f[k] /\ f[k] \in Nat
        /\ Run(N, f)[k-1] \in Nat
    BY RunDef, RunTyping
  <2> DEFINE r == Run(N, f)[k-1]
  <2>2. CASE j \in 1..r
    <3>1. \E n \in 1..(k-1) : In(j, n)
      BY <1>2, <2>2
    <3> QED
      BY <3>1
  <2>3. CASE j \notin 1..r
    <3>1. j = r + (j - r) /\ j - r \in 1..f[k]
      BY <2>1, <2>3
    <3>2. In(j, k)
      BY <3>1
    <3> QED
      BY <3>2
  <2> QED
    BY <2>2, <2>3
<1>3. 0..N \subseteq T
  <2> HIDE DEF T
  <2> QED
    BY <1>1, <1>2, CountingUp
<1> QED
  BY <1>3

\* The later total is larger by what was added in between.
LEMMA RunGrows ==
    ASSUME NEW N \in Nat, NEW f, \A n \in 1..N : f[n] \in Nat, NEW k \in 1..N
    PROVE  Run(N, f)[k] <= Run(N, f)[N]
<1> DEFINE T == {n \in 0..N : k <= n => Run(N, f)[k] <= Run(N, f)[n]}
<1>1. 0 \in T
  OBVIOUS
<1>2. ASSUME NEW n \in 1..N, n - 1 \in T PROVE n \in T
  <2>1. Run(N, f)[n] = Run(N, f)[n-1] + f[n] /\ f[n] \in Nat
        /\ Run(N, f)[n-1] \in Nat /\ Run(N, f)[k] \in Nat
    BY RunDef, RunTyping
  <2>2. CASE k = n
    BY <2>1, <2>2
  <2>3. CASE k # n
    BY <1>2, <2>1, <2>3
  <2> QED
    BY <2>2, <2>3
<1>3. 0..N \subseteq T
  <2> HIDE DEF T
  <2> QED
    BY <1>1, <1>2, CountingUp
<1> QED
  BY <1>3

-----------------------------------------------------------------------------
(* convert_ibtracs: the records are grouped, sorted and split              *)

\* An observation whose time the storm's loop has met.
Placed(p) ==
    \/ pc \notin {"read", "split"} \/ p.sid < storm
    \/ p.sid = storm /\ Stamp(p) \in seen

ConvertTypes ==
    /\ Archive
    /\ next \in 1..(Len(input) + 1)
    /\ pc \in {"read", "split", "write", "verify", "failed", "done"}
    /\ storm \in 1..Storms /\ seen \subseteq Nat
    /\ grouped \in [1..Storms -> Seq(Points)]
    /\ tracks \in [Theatres -> Seq(Seq(KeptPoints))]
    /\ current \in Seq(KeptPoints)
    /\ pc = "read" => storm = 1 /\ seen = {} /\ tracks = [b \in Theatres |-> <<>>]
    /\ pc # "read" => next = Len(input) + 1
    /\ pc # "split" => current = <<>>

\* The group of a storm holds its observations, and of those of one time the
\* archive's first before the others.
FirstOfItsTime(records, k) ==
    \A j \in 1..(k-1) : Stamp(records[j]) # Stamp(records[k])

GroupsHold ==
    /\ \A s \in 1..Storms : \A k \in 1..Len(grouped[s]) :
        /\ grouped[s][k].sid = s
        /\ FirstOfItsTime(grouped[s], k) /\ ~Placed(grouped[s][k])
            => grouped[s][k] \in KeptPoints
    /\ \A i \in 1..(next-1) :
        Accepted(input[i]) /\ ~Placed(Point(input[i])) =>
            \E k \in 1..Len(grouped[input[i].sid]) :
                Stamp(grouped[input[i].sid][k]) = Stamp(input[i])
    /\ pc = "split" =>
        \A k \in 1..Len(grouped[storm]) : \A time \in seen :
            time <= Stamp(grouped[storm][k])

\* The tracks of a theatre, with the one that is being collected.
Collected(b) ==
    {tracks[b][k] : k \in 1..Len(tracks[b])}
        \cup {t \in {current} : current # <<>> /\ current[1].basin = b}

\* A track goes from an observation to the next.
IsTrack(t, b) ==
    /\ t \in Seq(KeptPoints) /\ t # <<>>
    /\ \A k \in 1..Len(t) : t[k].basin = b /\ Placed(t[k])
    /\ \A k \in 2..Len(t) : Adjacent(t[k-1], t[k])

\* The track that is being collected ends where the storm's loop is.
EndsAtTheLoop ==
    IF current = <<>> THEN seen = {}
    ELSE /\ current[Len(current)].sid = storm
         /\ Stamp(current[Len(current)]) \in seen
         /\ \A time \in seen : time <= Stamp(current[Len(current)])

\* Every observation that was placed is in a track, next to the one before.
TracksHold ==
    /\ \A b \in Theatres : \A t \in Collected(b) : IsTrack(t, b)
    /\ \A p \in KeptPoints : Placed(p) =>
        \E t \in Collected(p.basin) : \E k \in 1..Len(t) : t[k] = p
    /\ \A b \in Theatres : \A pq \in PairsOf(b) : Placed(pq[2]) =>
        \E t \in Collected(b) : \E k \in 2..Len(t) : t[k-1] = pq[1] /\ t[k] = pq[2]

\* The segments of the tracks that have been collected.
LinkTotal(ts) == Run(Len(ts), [n \in 1..Len(ts) |-> Len(ts[n]) - 1])[Len(ts)]

LinksOf(b) ==
    LinkTotal(tracks[b])
        + (IF current # <<>> /\ current[1].basin = b THEN Len(current) - 1 ELSE 0)

PlacedPairs(b) == {pq \in PairsOf(b) : Placed(pq[2])}

LinksCounted == \A b \in Theatres : LinksOf(b) = Cardinality(PlacedPairs(b))

ConvertInv == ConvertTypes /\ GroupsHold /\ EndsAtTheLoop /\ TracksHold /\ LinksCounted

\* A track that is appended adds its segments.
LEMMA LinkTotalAppend ==
    ASSUME NEW S, NEW ts \in Seq(Seq(S)), NEW t \in Seq(S)
    PROVE  LinkTotal(Append(ts, t)) = LinkTotal(ts) + (Len(t) - 1)
<1> DEFINE N == Len(ts)
           f == [n \in 1..N |-> Len(ts[n]) - 1]
           us == Append(ts, t)
           g == [n \in 1..(N + 1) |-> Len(us[n]) - 1]
<1>1. N \in Nat /\ Len(us) = N + 1 /\ us[N + 1] = t /\ \A n \in 1..N : us[n] = ts[n]
  OBVIOUS
<1>2. LinkTotal(ts) = Run(N, f)[N] /\ LinkTotal(us) = Run(N + 1, g)[N + 1]
  BY <1>1 DEF LinkTotal
<1>3. (\A n \in 1..N : f[n] = g[n]) /\ g[N + 1] = Len(t) - 1
  BY <1>1
<1> HIDE DEF N, f, us, g
<1>4. Run(N + 1, g)[N + 1] = Run(N + 1, g)[N] + g[N + 1]
  BY <1>1, RunDef
<1>5. Run(N, f)[N] = Run(N + 1, g)[N]
  <2>1. N + 1 \in Nat /\ N <= N + 1 /\ N \in 0..N
    BY <1>1
  <2> QED
    BY <1>1, <1>3, <2>1, RunSame
<1> QED
  BY <1>2, <1>3, <1>4, <1>5 DEF us

LEMMA LinkTotalInt ==
    ASSUME NEW S, NEW ts \in Seq(Seq(S))
    PROVE  LinkTotal(ts) \in Int
<1> DEFINE N == Len(ts)
           f == [n \in 1..N |-> Len(ts[n]) - 1]
<1>1. N \in Nat /\ \A n \in 1..N : f[n] \in Int
  OBVIOUS
<1>2. LinkTotal(ts) = Run(N, f)[N]
  BY DEF LinkTotal
<1> DEFINE T == {n \in 0..N : Run(N, f)[n] \in Int}
<1> HIDE DEF N, f
<1>3. 0 \in T
  BY <1>1, RunDef
<1>4. ASSUME NEW n \in 1..N, n - 1 \in T PROVE n \in T
  <2>1. Run(N, f)[n] = Run(N, f)[n-1] + f[n] /\ f[n] \in Int
    BY <1>1, RunDef
  <2> QED
    BY <1>1, <1>4, <2>1
<1>5. 0..N \subseteq T
  <2> HIDE DEF T
  <2> QED
    BY <1>1, <1>3, <1>4, CountingUp
<1> QED
  BY <1>1, <1>2, <1>5

LEMMA LinkTotalNat ==
    ASSUME NEW S, NEW ts \in Seq(Seq(S)), \A n \in 1..Len(ts) : ts[n] # <<>>
    PROVE  LinkTotal(ts) \in Nat
<1> DEFINE N == Len(ts)
           f == [n \in 1..N |-> Len(ts[n]) - 1]
<1>1. N \in Nat /\ \A n \in 1..N : f[n] \in Nat
  OBVIOUS
<1>2. LinkTotal(ts) = Run(N, f)[N]
  BY DEF LinkTotal
<1> HIDE DEF N, f
<1> QED
  BY <1>1, <1>2, RunTyping

\* The sort: the earliest record, of one time the first.
LEMMA EarliestIs ==
    ASSUME NEW records \in Seq(Points), records # <<>>
    PROVE  /\ Earliest(records) \in 1..Len(records)
           /\ \A j \in 1..Len(records) :
                \/ Stamp(records[Earliest(records)]) < Stamp(records[j])
                \/ /\ Stamp(records[Earliest(records)]) = Stamp(records[j])
                   /\ Earliest(records) <= j
<1> DEFINE N == Len(records)
           Times == {Stamp(records[j]) : j \in 1..N}
<1>1. N \in Nat /\ N > 0 /\ DOMAIN records = 1..N /\ \A j \in 1..N : records[j] \in Points
  OBVIOUS
<1>2. \A j \in 1..N : Stamp(records[j]) \in Nat
  BY <1>1, PointTyping
<1>3. Times \subseteq Nat /\ Times # {}
  BY <1>1, <1>2
<1>4. PICK time \in Times : \A u \in Times : ~(<<u, time>> \in Less)
  <2> HIDE DEF Times
  <2> QED
    BY <1>3, LessWellFounded, WFMin
<1>5. ASSUME NEW j \in 1..N PROVE time <= Stamp(records[j])
  <2>1. Stamp(records[j]) \in Times /\ Stamp(records[j]) \in Nat /\ time \in Nat
    BY <1>2, <1>3, <1>4
  <2>2. ~(<<Stamp(records[j]), time>> \in Less)
    BY <1>4, <2>1
  <2>3. ~(Stamp(records[j]) < time)
    BY <2>1, <2>2 DEF Less
  <2> QED
    BY <2>1, <2>3
<1> DEFINE Firsts == {j \in 1..N : Stamp(records[j]) = time}
<1>6. Firsts \subseteq Nat /\ Firsts # {}
  BY <1>1, <1>4
<1>7. PICK i \in Firsts : \A j \in Firsts : ~(<<j, i>> \in Less)
  <2> HIDE DEF Firsts
  <2> QED
    BY <1>6, LessWellFounded, WFMin
<1>8. i \in 1..N /\ Stamp(records[i]) = time
  BY <1>7
<1>9. \A j \in 1..N : \/ Stamp(records[i]) < Stamp(records[j])
                      \/ Stamp(records[i]) = Stamp(records[j]) /\ i <= j
  <2> SUFFICES ASSUME NEW j \in 1..N, Stamp(records[j]) = time
               PROVE  i <= j
    BY <1>2, <1>5, <1>8
  <2>1. j \in Firsts
    OBVIOUS
  <2>2. ~(j < i)
    BY <1>6, <1>7, <2>1 DEF Less
  <2> QED
    BY <1>8, <2>2
<1> DEFINE Is(k) == \A j \in 1..N :
                        \/ Stamp(records[k]) < Stamp(records[j])
                        \/ Stamp(records[k]) = Stamp(records[j]) /\ k <= j
<1>10. Earliest(records) = CHOOSE k \in 1..N : Is(k)
  BY <1>1 DEF Earliest
<1>11. i \in 1..N /\ Is(i)
  BY <1>8, <1>9
<1> HIDE DEF Is, N
<1>12. Earliest(records) \in 1..N /\ Is(Earliest(records))
  BY <1>10, <1>11
<1> QED
  BY <1>12 DEF Is, N

LEMMA WithoutIs ==
    ASSUME NEW S, NEW records \in Seq(S), NEW i \in 1..Len(records)
    PROVE  /\ Without(records, i) \in Seq(S)
           /\ Len(Without(records, i)) = Len(records) - 1
           /\ \A j \in 1..(Len(records) - 1) :
                Without(records, i)[j] = IF j < i THEN records[j] ELSE records[j+1]
<1> DEFINE N == Len(records)
<1>1. N \in Nat /\ N - 1 \in Nat /\ \A j \in 1..N : records[j] \in S
  OBVIOUS
<1>2. Without(records, i) = [j \in 1..(N - 1) |-> IF j < i THEN records[j] ELSE records[j+1]]
  BY DEF Without
<1>3. \A j \in 1..(N - 1) : j \in 1..N /\ j + 1 \in 1..N
  BY <1>1
<1>4. Without(records, i) \in [1..(N - 1) -> S]
  BY <1>1, <1>2, <1>3
<1> HIDE DEF N
<1>5. Without(records, i) \in Seq(S) /\ Len(Without(records, i)) = N - 1
  BY <1>1, <1>4
<1> QED
  BY <1>2, <1>5 DEF N

LEMMA PlacedUnread ==
    ASSUME ConvertTypes, pc = "read", NEW p \in Points
    PROVE  ~Placed(p)
<1>1. p.sid \in 1..Storms /\ Storms \in Nat
  BY PointTyping, TracksAssumption
<1>2. storm = 1 /\ seen = {}
  BY DEF ConvertTypes
<1> QED
  BY <1>1, <1>2 DEF Placed

\* What is collected stays when the placed observations and the tracks stay.
LEMMA CollectedStays ==
    ASSUME ConvertTypes, TracksHold, input' = input,
           \A b \in Theatres : Collected(b)' = Collected(b),
           \A p \in KeptPoints : Placed(p)' <=> Placed(p)
    PROVE  /\ TracksHold'
           /\ \A b \in Theatres : PlacedPairs(b)' = PlacedPairs(b)
<1>1. /\ KeptPoints' = KeptPoints /\ \A b : PairsOf(b)' = PairsOf(b)
      /\ \A p, q : Adjacent(p, q)' = Adjacent(p, q)
  BY ArchiveStays DEF Adjacent
<1>2. ASSUME NEW b \in Theatres, NEW t \in Collected(b)'
      PROVE  IsTrack(t, b)'
  <2>1. IsTrack(t, b)
    BY <1>2 DEF TracksHold
  <2> QED
    BY <2>1, <1>1 DEF IsTrack
<1>3. ASSUME NEW p \in KeptPoints', Placed(p)'
      PROVE  \E t \in Collected(p.basin)' : \E k \in 1..Len(t) : t[k] = p
  <2>1. p \in KeptPoints /\ Placed(p) /\ p.basin \in Theatres
    BY <1>1, <1>3, KeptRows, PointTyping DEF ConvertTypes
  <2> QED
    BY <2>1 DEF TracksHold
<1>4. ASSUME NEW b \in Theatres, NEW pq \in PairsOf(b)', Placed(pq[2])'
      PROVE  \E t \in Collected(b)' : \E k \in 2..Len(t) : t[k-1] = pq[1] /\ t[k] = pq[2]
  <2>1. pq \in PairsOf(b) /\ Placed(pq[2])
    BY <1>1, <1>4 DEF PairsOf
  <2> QED
    BY <2>1 DEF TracksHold
<1>5. TracksHold'
  BY <1>2, <1>3, <1>4 DEF TracksHold
<1>6. \A b \in Theatres : PlacedPairs(b)' = PlacedPairs(b)
  BY <1>1 DEF PlacedPairs, PairsOf
<1> QED
  BY <1>5, <1>6

-----------------------------------------------------------------------------
(* Every step of the conversion keeps its invariant                        *)

LEMMA TheatresAre == DOMAIN OutputBasins = 1..Len(OutputBasins) /\ Len(OutputBasins) \in Nat
                     /\ Len(OutputBasins) > 0 /\ \A n \in 1..Len(OutputBasins) : OutputBasins[n] \in Theatres
  BY TracksAssumption DEF Theatres

LEMMA ConvertBegins == Init => ConvertInv
<1> SUFFICES ASSUME Init PROVE ConvertInv
  OBVIOUS
<1>1. PICK n \in 0..MaxRows : input \in [1..n -> Rows]
  BY DEF Init
<1>2. input \in Seq(Rows)
  <2>1. n \in Nat
    BY TracksAssumption
  <2> QED
    BY <1>1, <2>1
<1>3. Storms \in Nat /\ 1 \in 1..Storms
  BY TracksAssumption
<1>4. ConvertTypes
  <2>1. grouped \in [1..Storms -> Seq(Points)]
    BY DEF Init
  <2>2. tracks \in [Theatres -> Seq(Seq(KeptPoints))]
    BY DEF Init
  <2>3. 1 \in 1..(Len(input) + 1)
    BY <1>2
  <2>4. current \in Seq(KeptPoints)
    BY DEF Init
  <2> QED
    BY <1>2, <1>3, <2>1, <2>2, <2>3, <2>4 DEF Init, ConvertTypes, Archive
<1>5. GroupsHold
  BY DEF Init, GroupsHold
<1>6. EndsAtTheLoop
  BY DEF Init, EndsAtTheLoop
<1>7. \A p \in KeptPoints : ~Placed(p)
  BY <1>4, KeptRows, PlacedUnread DEF Init, ConvertTypes
<1>8. \A b \in Theatres : Collected(b) = {} /\ tracks[b] = <<>> /\ current = <<>>
  BY DEF Init, Collected
<1>9. TracksHold
  BY <1>7, <1>8 DEF TracksHold, PairsOf
<1>10. LinksCounted
  <2> SUFFICES ASSUME NEW b \in Theatres PROVE LinksOf(b) = Cardinality(PlacedPairs(b))
    BY DEF LinksCounted
  <2>1. PlacedPairs(b) = {}
    BY <1>7 DEF PlacedPairs, PairsOf
  <2>2. LinkTotal(<<>>) = 0
    BY RunDef DEF LinkTotal
  <2>3. LinksOf(b) = 0
    BY <1>8, <2>2 DEF LinksOf
  <2> QED
    BY <2>1, <2>3, FS_EmptySet
<1> QED
  BY <1>4, <1>5, <1>6, <1>9, <1>10 DEF ConvertInv

\* While nothing is placed or collected.
LEMMA NothingCollected ==
    ASSUME ConvertTypes, TracksHold, EndsAtTheLoop, LinksCounted, UNCHANGED conversion, input' = input,
           \A p \in KeptPoints : Placed(p)' <=> Placed(p)
    PROVE  TracksHold' /\ LinksCounted' /\ EndsAtTheLoop'
<1>1. \A b \in Theatres : Collected(b)' = Collected(b) /\ LinksOf(b)' = LinksOf(b)
  BY DEF Collected, LinksOf, conversion
<1>2. TracksHold' /\ \A b \in Theatres : PlacedPairs(b)' = PlacedPairs(b)
  BY <1>1, CollectedStays
<1>3. LinksCounted'
  BY <1>1, <1>2 DEF LinksCounted
<1>4. EndsAtTheLoop'
  BY DEF EndsAtTheLoop, conversion
<1> QED
  BY <1>2, <1>3, <1>4

LEMMA ReadRowConverts ==
    ASSUME ConvertInv, ReadRow
    PROVE  ConvertInv'
<1> DEFINE r == input[next]
<1> USE DEF source, conversion
<1>0. ConvertTypes /\ GroupsHold /\ EndsAtTheLoop /\ TracksHold /\ LinksCounted
  BY DEF ConvertInv
<1>1. /\ pc = "read" /\ pc' = pc /\ UNCHANGED <<input, tracks, storm, current, seen>>
      /\ next' = next + 1 /\ next <= Len(input)
      /\ grouped' = IF Accepted(r) THEN [grouped EXCEPT ![r.sid] = Append(@, Point(r))]
                    ELSE grouped
  BY DEF ReadRow
<1>2. Archive /\ next \in 1..Len(input) /\ r \in Rows /\ storm = 1 /\ seen = {}
  BY <1>0, <1>1, KeptRows DEF ConvertTypes
<1>3. Accepted(r) => Point(r) \in Points /\ r.sid \in 1..Storms
  BY <1>2, RowFields DEF Points
<1>4. /\ KeptPoints' = KeptPoints /\ Kept' = Kept /\ \A p : Placed(p)' <=> Placed(p)
  BY <1>1, ArchiveStays DEF Placed
<1>5. grouped \in [1..Storms -> Seq(Points)] /\ grouped' \in [1..Storms -> Seq(Points)]
  <2>1. grouped \in [1..Storms -> Seq(Points)]
    BY <1>0 DEF ConvertTypes
  <2>2. ASSUME Accepted(r) PROVE Append(grouped[r.sid], Point(r)) \in Seq(Points)
    BY <1>3, <2>1, <2>2
  <2> QED
    BY <1>1, <1>3, <2>1, <2>2
<1>6. ConvertTypes'
  <2>1. next + 1 \in 1..(Len(input) + 1)
    BY <1>2, KeptRows
  <2>2. /\ Archive' /\ pc' = "read" /\ storm' = 1 /\ seen' = {} /\ storm' \in 1..Storms
        /\ tracks' \in [Theatres -> Seq(Seq(KeptPoints'))] /\ current' \in Seq(KeptPoints')
        /\ tracks' = [b \in Theatres |-> <<>>] /\ current' = <<>>
    BY <1>0, <1>1, <1>2, <1>4, ArchiveStays DEF ConvertTypes
  <2>3. next' \in 1..(Len(input') + 1)
    BY <1>1, <2>1
  <2> QED
    BY <1>5, <2>2, <2>3 DEF ConvertTypes
<1>7. TracksHold' /\ LinksCounted' /\ EndsAtTheLoop'
  BY <1>0, <1>1, <1>4, NothingCollected
<1>8. GroupsHold'
  <2>1. ASSUME NEW s \in 1..Storms, NEW k \in 1..Len(grouped'[s])
        PROVE  /\ grouped'[s][k].sid = s
               /\ FirstOfItsTime(grouped'[s], k) => grouped'[s][k] \in KeptPoints
    <3>1. CASE grouped'[s] = grouped[s]
      <4>1. /\ grouped[s][k].sid = s
            /\ FirstOfItsTime(grouped[s], k) /\ ~Placed(grouped[s][k])
                => grouped[s][k] \in KeptPoints
        BY <1>0, <2>1, <3>1 DEF GroupsHold
      <4>2. grouped[s][k] \in Points
        BY <1>5, <2>1, <3>1
      <4> QED
        BY <3>1, <4>1, <4>2, <1>0, <1>1, PlacedUnread
    <3>2. CASE grouped'[s] # grouped[s]
      <4>1. Accepted(r) /\ s = r.sid /\ grouped'[s] = Append(grouped[s], Point(r))
        BY <1>1, <1>5, <3>2
      <4> DEFINE g == grouped[s]
                 N == Len(g)
      <4>2. g \in Seq(Points) /\ N \in Nat /\ Len(Append(g, Point(r))) = N + 1
            /\ Append(g, Point(r))[N + 1] = Point(r)
            /\ \A j \in 1..N : Append(g, Point(r))[j] = g[j] /\ g[j] \in Points
        BY <1>5
      <4>3. CASE k \in 1..N
        <5>1. g[k].sid = s /\ (FirstOfItsTime(g, k) /\ ~Placed(g[k]) => g[k] \in KeptPoints)
          BY <1>0, <4>3 DEF GroupsHold
        <5>2. ~Placed(g[k])
          BY <4>2, <4>3, <1>0, <1>1, PlacedUnread
        <5>3. \A j \in 1..(k-1) : j \in 1..N
          BY <4>2, <4>3
        <5>4. FirstOfItsTime(grouped'[s], k) => FirstOfItsTime(g, k)
          BY <4>1, <4>2, <4>3, <5>3 DEF FirstOfItsTime
        <5> QED
          BY <4>1, <4>2, <4>3, <5>1, <5>2, <5>4
      <4>4. CASE k \notin 1..N
        <5>1. k = N + 1 /\ grouped'[s][k] = Point(r)
          BY <2>1, <4>1, <4>2, <4>4
        <5>2. Point(r).sid = s
          BY <1>2, <4>1, PointFields
        <5>3. ASSUME FirstOfItsTime(grouped'[s], k) PROVE next \in Kept
          <6> SUFFICES ASSUME NEW j \in 1..(next-1), Accepted(input[j]),
                              input[j].sid = r.sid, Stamp(input[j]) = Stamp(r)
                       PROVE  FALSE
            BY <1>2, <4>1, KeptRows DEF Kept
          <6>1. input[j] \in Rows
            BY <1>2, KeptRows
          <6>2. Point(input[j]) \in Points
            BY <6>1 DEF Points
          <6>3. ~Placed(Point(input[j]))
            BY <6>2, <1>0, <1>1, PlacedUnread
          <6>4. PICK l \in 1..N : Stamp(g[l]) = Stamp(input[j])
            BY <1>0, <6>3, <4>1 DEF GroupsHold
          <6>5. l \in 1..(k-1) /\ grouped'[s][l] = g[l] /\ grouped'[s][k] = Point(r)
            BY <4>1, <4>2, <5>1
          <6>6. Stamp(Point(r)) = Stamp(r)
            BY <1>2, PointFields
          <6> QED
            BY <5>3, <6>4, <6>5, <6>6 DEF FirstOfItsTime
        <5>4. next \in Kept => Point(r) \in KeptPoints
          BY DEF KeptPoints
        <5> QED
          BY <5>1, <5>2, <5>3, <5>4
      <4> QED
        BY <4>3, <4>4
    <3> QED
      BY <3>1, <3>2
  <2>2. ASSUME NEW i \in 1..next, Accepted(input[i])
        PROVE  \E k \in 1..Len(grouped'[input[i].sid]) :
                  Stamp(grouped'[input[i].sid][k]) = Stamp(input[i])
    <3> DEFINE s == input[i].sid
               g == grouped[s]
    <3>1. input[i] \in Rows /\ s \in 1..Storms
      BY <1>2, KeptRows, RowFields
    <3>2. g \in Seq(Points) /\ Len(g) \in Nat
      BY <1>5, <3>1
    <3>3. grouped'[s] = g \/ (/\ grouped'[s] = Append(g, Point(r)))
      BY <1>1, <1>5, <3>1
    <3>4. CASE i = next
      <4>1. grouped'[s] = Append(g, Point(r))
        BY <1>1, <1>3, <1>5, <2>2, <3>1, <3>4
      <4>2. Len(Append(g, Point(r))) = Len(g) + 1 /\ Append(g, Point(r))[Len(g) + 1] = Point(r)
            /\ Len(g) + 1 \in 1..(Len(g) + 1)
        BY <3>2
      <4>3. Stamp(Point(r)) = Stamp(input[i])
        BY <1>2, <3>4, PointFields
      <4> QED
        BY <4>1, <4>2, <4>3
    <3>5. CASE i # next
      <4>1. i \in 1..(next-1)
        BY <1>2, <3>5
      <4>2. Point(input[i]) \in Points
        BY <2>2, <3>1 DEF Points
      <4>3. PICK k \in 1..Len(g) : Stamp(g[k]) = Stamp(input[i])
        BY <1>0, <1>1, <2>2, <4>1, <4>2, PlacedUnread DEF GroupsHold
      <4>4. k \in 1..Len(grouped'[s]) /\ grouped'[s][k] = g[k]
        BY <3>2, <3>3, <4>3
      <4> QED
        BY <4>3, <4>4
    <3> QED
      BY <3>4, <3>5
  <2>3. next' - 1 = next /\ input' = input /\ pc' # "split"
    BY <1>1, <1>2
  <2> QED
    BY <1>4, <2>1, <2>2, <2>3 DEF GroupsHold
<1> QED
  BY <1>6, <1>7, <1>8 DEF ConvertInv

LEMMA EndOfRowsConverts ==
    ASSUME ConvertInv, EndOfRows
    PROVE  ConvertInv'
<1>0. ConvertTypes /\ GroupsHold /\ EndsAtTheLoop /\ TracksHold /\ LinksCounted
  BY DEF ConvertInv
<1>1. /\ pc = "read" /\ pc' = "split" /\ next > Len(input)
      /\ UNCHANGED <<input, next, grouped, tracks, storm, current, seen>>
  BY DEF EndOfRows, source, conversion
<1>2. KeptPoints' = KeptPoints /\ \A p : Placed(p)' <=> Placed(p)
  BY <1>1, ArchiveStays DEF Placed
<1>3. TracksHold' /\ LinksCounted' /\ EndsAtTheLoop'
  BY <1>0, <1>1, <1>2, NothingCollected DEF conversion
<1>4. ConvertTypes'
  <2>1. next = Len(input) + 1
    BY <1>0, <1>1, KeptRows DEF ConvertTypes
  <2> QED
    BY <1>0, <1>1, <1>2, <2>1, ArchiveStays DEF ConvertTypes
<1>5. GroupsHold'
  <2>1. seen' = {}
    BY <1>0, <1>1 DEF ConvertTypes
  <2> QED
    BY <1>0, <1>1, <1>2, <2>1 DEF GroupsHold
<1> QED
  BY <1>3, <1>4, <1>5 DEF ConvertInv

\* Flushing puts the collected track with the others.
LEMMA FlushedIs ==
    ASSUME ConvertTypes
    PROVE  /\ Flushed \in [Theatres -> Seq(Seq(KeptPoints))]
           /\ current # <<>> => current[1] \in KeptPoints /\ current[1].basin \in Theatres
           /\ \A b \in Theatres :
                /\ {Flushed[b][k] : k \in 1..Len(Flushed[b])} = Collected(b)
                /\ LinkTotal(Flushed[b]) = LinksOf(b)
<1>1. /\ tracks \in [Theatres -> Seq(Seq(KeptPoints))] /\ current \in Seq(KeptPoints)
      /\ KeptPoints \subseteq Points
  BY KeptRows DEF ConvertTypes
<1>2. CASE current = <<>>
  <2>1. Flushed = tracks /\ \A b \in Theatres : Collected(b) = {tracks[b][k] : k \in 1..Len(tracks[b])}
    BY <1>2 DEF Flushed, Collected
  <2>2. ASSUME NEW b \in Theatres PROVE LinksOf(b) = LinkTotal(tracks[b])
    <3>1. tracks[b] \in Seq(Seq(KeptPoints))
      BY <1>1
    <3>2. LinksOf(b) = LinkTotal(tracks[b]) + 0
      BY <1>2 DEF LinksOf
    <3>3. LinkTotal(tracks[b]) \in Int
      BY <3>1, LinkTotalInt
    <3> QED
      BY <3>2, <3>3
  <2> QED
    BY <1>1, <1>2, <2>1, <2>2
<1>3. CASE current # <<>>
  <2> DEFINE B == current[1].basin
  <2>1. current[1] \in KeptPoints /\ B \in Theatres
    <3>1. current[1] \in KeptPoints
      BY <1>1, <1>3
    <3> QED
      BY <3>1, <1>1, PointTyping
  <2>2. Flushed = [tracks EXCEPT ![B] = Append(@, current)]
    BY <1>3 DEF Flushed
  <2> HIDE DEF B
  <2>3. /\ Flushed[B] = Append(tracks[B], current) /\ tracks[B] \in Seq(Seq(KeptPoints))
        /\ \A b \in Theatres : b # B => Flushed[b] = tracks[b]
        /\ Flushed \in [Theatres -> Seq(Seq(KeptPoints))]
    BY <1>1, <2>1, <2>2
  <2>4. {Flushed[B][k] : k \in 1..Len(Flushed[B])} = {tracks[B][k] : k \in 1..Len(tracks[B])} \cup {current}
    <3> DEFINE ts == tracks[B]
               N == Len(ts)
    <3>1. ts \in Seq(Seq(KeptPoints)) /\ N \in Nat
      BY <2>3
    <3>2. Len(Append(ts, current)) = N + 1 /\ Append(ts, current)[N + 1] = current
          /\ \A k \in 1..N : Append(ts, current)[k] = ts[k]
      BY <3>1
    <3>3. {Append(ts, current)[k] : k \in 1..(N + 1)} = {ts[k] : k \in 1..N} \cup {current}
      BY <3>1, <3>2
    <3> QED
      BY <2>3, <3>2, <3>3
  <2>5. ASSUME NEW b \in Theatres
        PROVE  {Flushed[b][k] : k \in 1..Len(Flushed[b])} = Collected(b)
    <3>1. Collected(b) = {tracks[b][k] : k \in 1..Len(tracks[b])}
                            \cup {t \in {current} : B = b}
      BY <1>3 DEF Collected, B
    <3>2. CASE b = B
      BY <2>4, <3>1, <3>2
    <3>3. CASE b # B
      <4>1. Collected(b) = {tracks[b][k] : k \in 1..Len(tracks[b])} /\ Flushed[b] = tracks[b]
        BY <2>3, <3>1, <3>3
      <4> QED
        BY <4>1
    <3> QED
      BY <3>2, <3>3
  <2>6. ASSUME NEW b \in Theatres PROVE LinkTotal(Flushed[b]) = LinksOf(b)
    <3>1. LinksOf(b) = LinkTotal(tracks[b]) + (IF B = b THEN Len(current) - 1 ELSE 0)
      BY <1>3 DEF LinksOf, B
    <3>2. tracks[b] \in Seq(Seq(KeptPoints)) /\ LinkTotal(tracks[b]) \in Int
      BY <1>1, LinkTotalInt
    <3>3. CASE B = b
      <4>1. LinkTotal(Append(tracks[b], current)) = LinkTotal(tracks[b]) + (Len(current) - 1)
        BY <1>1, <3>2, LinkTotalAppend
      <4> QED
        BY <2>3, <3>1, <3>3, <4>1
    <3>4. CASE B # b
      BY <2>3, <3>1, <3>2, <3>4
    <3> QED
      BY <3>3, <3>4
  <2> QED
    BY <1>3, <2>1, <2>3, <2>5, <2>6 DEF B
<1> QED
  BY <1>2, <1>3

\* A point that follows no other begins a track.
LEMMA TrackBegins ==
    ASSUME ConvertTypes, TracksHold, LinksCounted, input' = input,
           NEW p \in KeptPoints, tracks' = Flushed, current' = <<p>>,
           \A q \in KeptPoints : Placed(q)' <=> Placed(q) \/ q = p,
           \A b \in Theatres : \A pq \in PairsOf(b) : pq[2] # p
    PROVE  TracksHold' /\ LinksCounted'
<1>1. /\ KeptPoints' = KeptPoints /\ \A b : PairsOf(b)' = PairsOf(b)
      /\ \A v, w : Adjacent(v, w)' = Adjacent(v, w)
      /\ p.basin \in Theatres
  <2>1. KeptPoints' = KeptPoints /\ \A b : PairsOf(b)' = PairsOf(b)
    BY ArchiveStays
  <2>2. \A v, w : Adjacent(v, w)' = Adjacent(v, w)
    BY <2>1 DEF Adjacent
  <2>3. p \in Points
    BY KeptRows DEF ConvertTypes
  <2> QED
    BY <2>1, <2>2, <2>3, PointTyping
<1>2. \A b \in Theatres : Collected(b)' = Collected(b) \cup {t \in {<<p>>} : p.basin = b}
  BY FlushedIs DEF Collected
<1>3. ASSUME NEW b \in Theatres, NEW t \in Collected(b)'
      PROVE  IsTrack(t, b)'
  <2>1. CASE t \in Collected(b)
    <3>1. IsTrack(t, b)
      BY <2>1 DEF TracksHold
    <3> QED
      BY <3>1, <1>1 DEF IsTrack
  <2>2. CASE t = <<p>> /\ p.basin = b
    <3>1. /\ t \in Seq(KeptPoints) /\ t # <<>> /\ Len(t) = 1 /\ t[1] = p
      BY <2>2
    <3>2. Placed(p)'
      OBVIOUS
    <3> QED
      BY <1>1, <2>2, <3>1, <3>2 DEF IsTrack
  <2> QED
    BY <1>2, <1>3, <2>1, <2>2
<1>4. ASSUME NEW q \in KeptPoints', Placed(q)'
      PROVE  \E t \in Collected(q.basin)' : \E k \in 1..Len(t) : t[k] = q
  <2>0. q \in KeptPoints /\ q.basin \in Theatres
    BY <1>1, KeptRows, PointTyping DEF ConvertTypes
  <2>1. CASE Placed(q)
    BY <1>2, <2>0, <2>1 DEF TracksHold
  <2>2. CASE q = p
    <3>1. <<p>> \in Collected(q.basin)' /\ 1 \in 1..Len(<<p>>) /\ <<p>>[1] = q
      BY <1>1, <1>2, <2>2
    <3> QED
      BY <3>1
  <2> QED
    BY <1>4, <2>0, <2>1, <2>2
<1>5. ASSUME NEW b \in Theatres, NEW pq \in PairsOf(b)', Placed(pq[2])'
      PROVE  \E t \in Collected(b)' : \E k \in 2..Len(t) : t[k-1] = pq[1] /\ t[k] = pq[2]
  <2>1. pq \in PairsOf(b) /\ Placed(pq[2])
    BY <1>1, <1>5 DEF PairsOf
  <2> QED
    BY <1>2, <2>1 DEF TracksHold
<1>6. TracksHold'
  BY <1>3, <1>4, <1>5 DEF TracksHold
<1>7. \A b \in Theatres : PlacedPairs(b)' = PlacedPairs(b)
  BY <1>1 DEF PlacedPairs, PairsOf
<1>8. \A b \in Theatres : LinksOf(b)' = LinksOf(b)
  <2> SUFFICES ASSUME NEW b \in Theatres PROVE LinksOf(b)' = LinksOf(b)
    OBVIOUS
  <2>1. current' # <<>> /\ Len(current') - 1 = 0
    OBVIOUS
  <2>2. LinksOf(b)' = LinkTotal(Flushed[b]) + 0
    BY <2>1 DEF LinksOf
  <2>3. LinkTotal(Flushed[b]) \in Int
    BY FlushedIs, LinkTotalInt
  <2> QED
    BY <2>2, <2>3, FlushedIs
<1>9. LinksCounted'
  BY <1>7, <1>8 DEF LinksCounted
<1> QED
  BY <1>6, <1>9

\* A point that follows the last one makes the track longer.
LEMMA TrackGrows ==
    ASSUME ConvertTypes, TracksHold, LinksCounted, input' = input,
           NEW p \in KeptPoints, ~Placed(p), current # <<>>, current[1].basin = p.basin,
           Adjacent(current[Len(current)], p),
           tracks' = tracks, current' = Append(current, p),
           \A q \in KeptPoints : Placed(q)' <=> Placed(q) \/ q = p,
           \A b \in Theatres : \A pq \in PairsOf(b) :
                pq[2] = p => pq[1] = current[Len(current)]
    PROVE  TracksHold' /\ LinksCounted'
<1> DEFINE N == Len(current)
           B == p.basin
<1>0. PICK longer : longer = Append(current, p)
  OBVIOUS
<1>1. /\ KeptPoints' = KeptPoints /\ \A b : PairsOf(b)' = PairsOf(b)
      /\ \A v, w : Adjacent(v, w)' = Adjacent(v, w)
      /\ B \in Theatres
  BY ArchiveStays, KeptRows, PointTyping DEF Adjacent, ConvertTypes
<1>2. /\ current \in Seq(KeptPoints) /\ N \in Nat /\ N >= 1
      /\ \A k \in 1..N : current[k] \in KeptPoints
  <2>1. current \in Seq(KeptPoints)
    BY DEF ConvertTypes
  <2> QED
    BY <2>1
<1>3. /\ longer \in Seq(KeptPoints) /\ Len(longer) = N + 1 /\ longer[N + 1] = p
      /\ longer # <<>> /\ \A k \in 1..N : longer[k] = current[k]
      /\ current' = longer
  BY <1>0, <1>2
<1>4. /\ current \in Collected(B) /\ IsTrack(current, B)
  BY <1>1 DEF Collected, TracksHold
<1>5. \A b \in Theatres : b # B => Collected(b)' = Collected(b)
  BY <1>3 DEF Collected
<1>6. Collected(B) = {tracks[B][k] : k \in 1..Len(tracks[B])} \cup {current}
      /\ Collected(B)' = {tracks[B][k] : k \in 1..Len(tracks[B])} \cup {longer}
  BY <1>2, <1>3 DEF Collected
<1>7. ASSUME NEW b \in Theatres, NEW t, IsTrack(t, b)
      PROVE  IsTrack(t, b)'
  BY <1>1, <1>7 DEF IsTrack
<1>8. IsTrack(longer, B)'
  <2>1. longer \in Seq(KeptPoints') /\ longer # <<>>
    BY <1>1, <1>3
  <2>2. ASSUME NEW k \in 1..Len(longer) PROVE longer[k].basin = B /\ Placed(longer[k])'
    <3>1. CASE k \in 1..N
      BY <1>2, <1>3, <1>4, <3>1 DEF IsTrack
    <3>2. CASE k \notin 1..N
      BY <1>2, <1>3, <3>2
    <3> QED
      BY <3>1, <3>2
  <2>3. ASSUME NEW k \in 2..Len(longer) PROVE Adjacent(longer[k-1], longer[k])'
    <3>1. CASE k \in 2..N
      <4>1. k - 1 \in 1..N /\ k \in 1..N
        BY <1>2, <3>1
      <4>2. Adjacent(current[k-1], current[k])
        BY <1>4, <3>1 DEF IsTrack
      <4> QED
        BY <1>1, <1>3, <4>1, <4>2
    <3>2. CASE k \notin 2..N
      <4>1. k = N + 1 /\ k - 1 = N /\ N \in 1..N
        BY <1>2, <1>3, <3>2
      <4> QED
        BY <1>1, <1>3, <4>1
    <3> QED
      BY <3>1, <3>2
  <2> QED
    BY <2>1, <2>2, <2>3 DEF IsTrack
<1>9. ASSUME NEW b \in Theatres, NEW t \in Collected(b)'
      PROVE  IsTrack(t, b)'
  <2>1. t \in Collected(b) \/ (b = B /\ t = longer)
    BY <1>5, <1>6, <1>9
  <2>2. CASE t \in Collected(b)
    BY <2>2, <1>7 DEF TracksHold
  <2> QED
    BY <2>1, <2>2, <1>8
<1>10. ASSUME NEW b \in Theatres, NEW t \in Collected(b)
       PROVE  \E u \in Collected(b)' : Len(u) >= Len(t) /\ \A k \in 1..Len(t) : u[k] = t[k]
  <2>0. t \in Seq(KeptPoints) /\ Len(t) \in Nat
    <3>1. IsTrack(t, b)
      BY <1>10 DEF TracksHold
    <3>2. t \in Seq(KeptPoints)
      BY <3>1 DEF IsTrack
    <3> QED
      BY <3>2
  <2>1. CASE t \in Collected(b)'
    BY <2>0, <2>1
  <2>2. CASE t \notin Collected(b)'
    <3>1. b = B /\ t = current
      BY <1>5, <1>6, <1>10, <2>2
    <3>2. longer \in Collected(B)' /\ Len(longer) >= Len(t)
      BY <1>6, <1>3, <1>2, <3>1
    <3> QED
      BY <3>1, <3>2, <1>3
  <2> QED
    BY <2>1, <2>2
<1>11. ASSUME NEW q \in KeptPoints', Placed(q)'
       PROVE  \E t \in Collected(q.basin)' : \E k \in 1..Len(t) : t[k] = q
  <2>0. q \in KeptPoints /\ q.basin \in Theatres
    BY <1>1, KeptRows, PointTyping DEF ConvertTypes
  <2>1. CASE Placed(q)
    <3>0. PICK t \in Collected(q.basin) : \E k \in 1..Len(t) : t[k] = q
      BY <2>0, <2>1 DEF TracksHold
    <3>1. PICK k \in 1..Len(t) : t[k] = q
      BY <3>0
    <3>2. PICK u \in Collected(q.basin)' : Len(u) >= Len(t) /\ \A j \in 1..Len(t) : u[j] = t[j]
      BY <2>0, <1>10
    <3>3. u \in Seq(KeptPoints) /\ t \in Seq(KeptPoints)
      BY <2>0, <1>1, <1>9 DEF IsTrack, TracksHold
    <3>4. k \in 1..Len(u) /\ u[k] = q
      <4>1. Len(u) \in Nat /\ Len(t) \in Nat
        BY <3>3
      <4> QED
        BY <3>1, <3>2, <4>1
    <3> QED
      BY <3>4
  <2>2. CASE q = p
    <3>1. longer \in Collected(q.basin)' /\ N + 1 \in 1..Len(longer) /\ longer[N + 1] = q
      BY <1>2, <1>3, <1>6, <2>2
    <3> QED
      BY <3>1
  <2> QED
    BY <1>11, <2>0, <2>1, <2>2
<1>12. ASSUME NEW b \in Theatres, NEW pq \in PairsOf(b)', Placed(pq[2])'
       PROVE  \E t \in Collected(b)' : \E k \in 2..Len(t) : t[k-1] = pq[1] /\ t[k] = pq[2]
  <2>0. pq \in PairsOf(b) /\ pq[1] \in KeptPoints /\ pq[2] \in KeptPoints /\ pq[1].basin = b
        /\ pq[1].basin = pq[2].basin
    BY <1>1, <1>12 DEF PairsOf, Adjacent
  <2>1. CASE Placed(pq[2])
    <3>0. PICK t \in Collected(b) : \E k \in 2..Len(t) : t[k-1] = pq[1] /\ t[k] = pq[2]
      BY <2>0, <2>1 DEF TracksHold
    <3>1. PICK k \in 2..Len(t) : t[k-1] = pq[1] /\ t[k] = pq[2]
      BY <3>0
    <3>2. PICK u \in Collected(b)' : Len(u) >= Len(t) /\ \A j \in 1..Len(t) : u[j] = t[j]
      BY <1>10
    <3>3. u \in Seq(KeptPoints) /\ t \in Seq(KeptPoints)
      BY <1>1, <1>9 DEF IsTrack, TracksHold
    <3>4. k \in 2..Len(u) /\ k - 1 \in 1..Len(t) /\ k \in 1..Len(t)
      <4>1. Len(u) \in Nat /\ Len(t) \in Nat
        BY <3>3
      <4> QED
        BY <3>1, <3>2, <4>1
    <3> QED
      BY <3>1, <3>2, <3>4
  <2>2. CASE pq[2] = p
    <3>1. pq[1] = current[N] /\ b = B
      BY <2>0, <2>2
    <3>2. longer \in Collected(b)' /\ N + 1 \in 2..Len(longer) /\ longer[N + 1] = p
          /\ (N + 1) - 1 = N /\ longer[N] = current[N]
      BY <1>2, <1>3, <1>6, <3>1
    <3> QED
      BY <2>2, <3>1, <3>2
  <2> QED
    BY <1>12, <2>0, <2>1, <2>2
<1>13. TracksHold'
  BY <1>9, <1>11, <1>12 DEF TracksHold
<1>14. ASSUME NEW b \in Theatres PROVE LinksOf(b)' = Cardinality(PlacedPairs(b)')
  <2>1. LinksOf(b) = Cardinality(PlacedPairs(b)) /\ IsFiniteSet(PlacedPairs(b))
    <3>1. IsFiniteSet(PairsOf(b)) /\ PlacedPairs(b) \subseteq PairsOf(b)
      BY PairsCounted DEF ConvertTypes, PlacedPairs
    <3> QED
      BY <3>1, FS_Subset DEF LinksCounted
  <2>2. CASE b # B
    <3>1. LinksOf(b)' = LinksOf(b)
      BY <1>3, <2>2 DEF LinksOf
    <3>2. PlacedPairs(b)' = PlacedPairs(b)
      <4>1. \A pq \in PairsOf(b) : /\ pq[2] \in KeptPoints /\ pq[2] # p
        BY <2>2 DEF PairsOf, Adjacent
      <4> QED
        BY <1>1, <4>1 DEF PlacedPairs
    <3> QED
      BY <2>1, <3>1, <3>2
  <2>3. CASE b = B
    <3> DEFINE new == <<current[N], p>>
    <3>1. new \in PairsOf(b) /\ new \notin PlacedPairs(b)
      <4>1. current[N] \in KeptPoints /\ current[N].basin = B
        BY <1>2, <1>4 DEF IsTrack
      <4> QED
        BY <4>1, <2>3 DEF PairsOf, PlacedPairs
    <3>2. PlacedPairs(b)' = PlacedPairs(b) \cup {new}
      <4>1. \A pq \in PairsOf(b) : /\ pq[2] \in KeptPoints /\ pq = <<pq[1], pq[2]>>
                                   /\ pq[2] = p => pq[1] = current[N]
        BY DEF PairsOf
      <4>2. new[2] = p
        OBVIOUS
      <4> HIDE DEF new
      <4>3. \A pq \in PairsOf(b) : pq[2] = p => pq = new
        BY <4>1 DEF new
      <4> QED
        BY <1>1, <4>1, <4>2, <4>3, <3>1 DEF PlacedPairs
    <3>3. Cardinality(PlacedPairs(b)') = Cardinality(PlacedPairs(b)) + 1
      BY <2>1, <3>1, <3>2, FS_AddElement
    <3>4. LinksOf(b) = LinkTotal(tracks[b]) + (N - 1)
      BY <2>3 DEF LinksOf
    <3>5. LinksOf(b)' = LinkTotal(tracks[b]) + (N + 1 - 1)
      BY <1>3, <2>3 DEF LinksOf
    <3>6. LinkTotal(tracks[b]) \in Int
      BY LinkTotalInt DEF ConvertTypes
    <3> QED
      BY <1>2, <2>1, <3>3, <3>4, <3>5, <3>6
  <2> QED
    BY <2>2, <2>3
<1>15. LinksCounted'
  BY <1>14 DEF LinksCounted
<1> QED
  BY <1>13, <1>15

\* The record that is taken is the earliest; of its time, it is the archive's
\* first.
LEMMA TakenRecord ==
    ASSUME ConvertTypes, GroupsHold, pc = "split", grouped[storm] # <<>>,
           NEW p, p = grouped[storm][Earliest(grouped[storm])]
    PROVE  /\ p \in Points /\ p.sid = storm /\ Stamp(p) \in Nat
           /\ \A k \in 1..Len(grouped[storm]) : Stamp(p) <= Stamp(grouped[storm][k])
           /\ \A time \in seen : time <= Stamp(p)
           /\ Stamp(p) \notin seen => p \in KeptPoints /\ ~Placed(p)
           /\ \A q \in KeptPoints : q.sid = storm /\ Stamp(q) < Stamp(p) => Stamp(q) \in seen
<1> DEFINE g == grouped[storm]
           i == Earliest(g)
           N == Len(g)
<1>1. g \in Seq(Points) /\ g # <<>> /\ N \in Nat /\ storm \in 1..Storms /\ storm \in Int
  BY DEF ConvertTypes
<1>2. /\ i \in 1..N
      /\ \A j \in 1..N : \/ Stamp(g[i]) < Stamp(g[j])
                         \/ Stamp(g[i]) = Stamp(g[j]) /\ i <= j
  <2> HIDE DEF g
  <2> QED
    BY <1>1, EarliestIs
<1>3. p = g[i]
  OBVIOUS
<1> HIDE DEF g, i, N
<1>4. \A j \in 1..N : g[j] \in Points /\ g[j].sid = storm /\ Stamp(g[j]) \in Nat
  <2>1. \A j \in 1..N : g[j] \in Points
    BY <1>1 DEF N
  <2>2. \A j \in 1..N : g[j].sid = storm
    BY <1>1 DEF GroupsHold, g, N
  <2> QED
    BY <2>1, <2>2, PointTyping
<1>5. p \in Points /\ p.sid = storm /\ Stamp(p) \in Nat
  BY <1>2, <1>3, <1>4
<1>6. \A k \in 1..N : Stamp(p) <= Stamp(g[k])
  BY <1>2, <1>3, <1>4
<1>7. \A time \in seen : time <= Stamp(p)
  BY <1>1, <1>2, <1>3 DEF GroupsHold, g, N
<1>8. ASSUME Stamp(p) \notin seen PROVE p \in KeptPoints /\ ~Placed(p)
  <2>1. ~Placed(p)
    BY <1>1, <1>5, <1>8 DEF Placed
  <2>2. FirstOfItsTime(g, i)
    <3> SUFFICES ASSUME NEW j \in 1..(i-1) PROVE Stamp(g[j]) # Stamp(g[i])
      BY DEF FirstOfItsTime
    <3>1. j \in 1..N /\ ~(i <= j)
      BY <1>1, <1>2
    <3>2. Stamp(g[i]) < Stamp(g[j]) /\ Stamp(g[i]) \in Nat /\ Stamp(g[j]) \in Nat
      BY <1>2, <1>4, <3>1
    <3> QED
      BY <3>2
  <2> QED
    BY <1>1, <1>2, <1>3, <2>1, <2>2 DEF GroupsHold, g, N
<1>9. ASSUME NEW q \in KeptPoints, q.sid = storm, Stamp(q) < Stamp(p)
      PROVE  Stamp(q) \in seen
  <2>1. PICK x \in Kept : q = Point(input[x])
    BY DEF KeptPoints
  <2>2. /\ x \in 1..Len(input) /\ input[x] \in Rows /\ Accepted(input[x])
        /\ input[x].sid = storm /\ Stamp(input[x]) = Stamp(q)
    BY <1>9, <2>1, KeptRows, PointFields DEF ConvertTypes
  <2>3. next - 1 = Len(input)
    BY KeptRows DEF ConvertTypes
  <2>4. CASE Placed(q)
    BY <1>1, <1>9, <2>4 DEF Placed
  <2>5. CASE ~Placed(q)
    <3>1. PICK k \in 1..N : Stamp(g[k]) = Stamp(q)
      BY <2>1, <2>2, <2>3, <2>5 DEF GroupsHold, g, N
    <3>2. Stamp(p) <= Stamp(q) /\ Stamp(q) \in Nat
      BY <1>4, <1>6, <3>1
    <3> QED
      BY <1>5, <1>9, <3>2
  <2> QED
    BY <2>4, <2>5
<1> QED
  BY <1>5, <1>6, <1>7, <1>8, <1>9 DEF g, N

\* Taking a record leaves a group that holds the rest.
LEMMA GroupsAfter ==
    ASSUME ConvertTypes, GroupsHold, pc = "split", grouped[storm] # <<>>,
           NEW p, p = grouped[storm][Earliest(grouped[storm])],
           UNCHANGED <<input, next, pc, storm>>, seen' = seen \cup {Stamp(p)},
           grouped' = [grouped EXCEPT ![storm] = Without(@, Earliest(grouped[storm]))]
    PROVE  GroupsHold' /\ grouped' \in [1..Storms -> Seq(Points)]
<1>0. PICK s, g, i, N, h :
        /\ s = storm /\ g = grouped[s] /\ i = Earliest(g) /\ N = Len(g) /\ h = Without(g, i)
  OBVIOUS
<1>1. g \in Seq(Points) /\ g # <<>> /\ N \in Nat /\ s \in 1..Storms /\ N >= 1
      /\ grouped \in [1..Storms -> Seq(Points)] /\ s \in Int
  BY <1>0 DEF ConvertTypes
<1>2. i \in 1..N
  BY <1>0, <1>1, EarliestIs
<1>3. /\ h \in Seq(Points) /\ Len(h) = N - 1
      /\ \A j \in 1..(N - 1) : h[j] = IF j < i THEN g[j] ELSE g[j+1]
  BY <1>0, <1>1, <1>2, WithoutIs
<1>4. p = g[i]
  BY <1>0
<1>5. /\ grouped'[s] = h /\ \A u \in 1..Storms : u # s => grouped'[u] = grouped[u]
      /\ grouped' \in [1..Storms -> Seq(Points)]
  <2>1. grouped' = [grouped EXCEPT ![s] = h]
    BY <1>0
  <2> QED
    BY <1>1, <1>3, <2>1
<1>7. KeptPoints' = KeptPoints
  BY ArchiveStays
<1>8. \A q : Placed(q)' <=> Placed(q) \/ (q.sid = s /\ Stamp(q) = Stamp(p))
  BY <1>0 DEF Placed
<1>9. p.sid = storm /\ (\A k \in 1..N : Stamp(p) <= Stamp(g[k])) /\ Stamp(p) \in Nat
  BY <1>0, TakenRecord
<1>10. ASSUME NEW u \in 1..Storms, NEW k \in 1..Len(grouped'[u]), NEW q, q = grouped'[u][k]
       PROVE  /\ q.sid = u
              /\ FirstOfItsTime(grouped'[u], k) /\ ~Placed(q)' => q \in KeptPoints
  <2>1. CASE u # s
    <3>1. grouped'[u] = grouped[u] /\ k \in 1..Len(grouped[u])
      BY <1>5, <2>1, <1>10
    <3> QED
      BY <1>8, <1>10, <3>1 DEF GroupsHold
  <2>2. CASE u = s
    <3>0. PICK m : m = IF k < i THEN k ELSE k + 1
      OBVIOUS
    <3>1. k \in 1..(N - 1) /\ m \in 1..N /\ m # i /\ q = g[m] /\ h[k] = g[m] /\ grouped'[u] = h
      <4>1. k \in 1..(N - 1) /\ grouped'[u] = h
        BY <1>3, <1>5, <1>10, <2>2
      <4> QED
        BY <1>1, <1>2, <1>3, <1>10, <3>0, <4>1
    <3>2. q.sid = s /\ (FirstOfItsTime(g, m) /\ ~Placed(q) => q \in KeptPoints)
      BY <1>0, <1>1, <3>1 DEF GroupsHold
    <3>3. ASSUME FirstOfItsTime(h, k), ~Placed(q)' PROVE FirstOfItsTime(g, m)
      <4> SUFFICES ASSUME NEW j \in 1..(m-1) PROVE Stamp(g[j]) # Stamp(g[m])
        BY DEF FirstOfItsTime
      <4>1. CASE j = i
        BY <1>4, <1>8, <3>1, <3>2, <3>3, <4>1
      <4>2. CASE j < i
        <5>1. j \in 1..(k-1) /\ j \in 1..(N-1)
          BY <1>1, <1>2, <3>0, <3>1, <4>2
        <5>2. h[j] = g[j]
          BY <1>3, <4>2, <5>1
        <5> QED
          BY <3>1, <3>3, <5>1, <5>2 DEF FirstOfItsTime
      <4>3. CASE j > i
        <5>1. j - 1 \in 1..(k-1) /\ j - 1 \in 1..(N-1) /\ ~(j - 1 < i) /\ (j - 1) + 1 = j
          BY <1>1, <1>2, <3>0, <3>1, <4>3
        <5>2. h[j-1] = g[j]
          BY <1>3, <5>1
        <5> QED
          BY <3>1, <3>3, <5>1, <5>2 DEF FirstOfItsTime
      <4>4. j \in Int /\ i \in Int
        BY <1>1, <1>2, <3>1
      <4> QED
        BY <4>1, <4>2, <4>3, <4>4
    <3> QED
      BY <1>8, <2>2, <3>1, <3>2, <3>3
  <2> QED
    BY <2>1, <2>2
<1>11. ASSUME NEW x \in 1..(next-1), Accepted(input[x]), ~Placed(Point(input[x]))'
       PROVE  \E k \in 1..Len(grouped'[input[x].sid]) :
                Stamp(grouped'[input[x].sid][k]) = Stamp(input[x])
  <2>1. input[x] \in Rows
    BY KeptRows DEF ConvertTypes
  <2>2. /\ Point(input[x]).sid = input[x].sid /\ Stamp(Point(input[x])) = Stamp(input[x])
        /\ input[x].sid \in 1..Storms
    BY <2>1, PointFields, RowFields
  <2>3. PICK k \in 1..Len(grouped[input[x].sid]) :
            Stamp(grouped[input[x].sid][k]) = Stamp(input[x])
    BY <1>8, <1>11 DEF GroupsHold
  <2>4. CASE input[x].sid # s
    BY <1>5, <2>2, <2>3, <2>4
  <2>5. CASE input[x].sid = s
    <3>1. k \in 1..N /\ Stamp(g[k]) = Stamp(input[x])
      BY <1>0, <2>3, <2>5
    <3>2. k # i
      BY <1>4, <1>8, <1>11, <2>2, <2>5, <3>1
    <3>3. CASE k < i
      <4>1. k \in 1..(N-1) /\ h[k] = g[k]
        BY <1>1, <1>2, <1>3, <3>1, <3>3
      <4> QED
        BY <1>3, <1>5, <2>5, <3>1, <4>1
    <3>4. CASE k > i
      <4>1. k - 1 \in 1..(N-1) /\ ~(k - 1 < i) /\ (k - 1) + 1 = k
        BY <1>1, <1>2, <3>1, <3>4
      <4>2. h[k-1] = g[k]
        BY <1>3, <4>1
      <4>3. k - 1 \in 1..Len(grouped'[s]) /\ grouped'[s][k-1] = g[k]
        BY <1>3, <1>5, <4>1, <4>2
      <4>4. Stamp(grouped'[s][k-1]) = Stamp(input[x])
        BY <3>1, <4>3
      <4> QED
        BY <2>5, <4>3, <4>4
    <3> QED
      BY <1>1, <1>2, <3>1, <3>2, <3>3, <3>4
  <2> QED
    BY <2>4, <2>5
<1>12. ASSUME NEW k \in 1..Len(h), NEW time \in seen \cup {Stamp(p)}
       PROVE  time <= Stamp(h[k])
  <2> DEFINE m == IF k < i THEN k ELSE k + 1
  <2>1. m \in 1..N /\ h[k] = g[m]
    BY <1>1, <1>2, <1>3
  <2>2. CASE time \in seen
    BY <1>0, <2>1, <2>2 DEF GroupsHold
  <2>3. CASE time = Stamp(p)
    BY <1>9, <2>1, <2>3
  <2> QED
    BY <2>2, <2>3
<1>13. GroupsHold'
  <2>1. storm' = s /\ next' = next /\ input' = input /\ grouped'[storm'] = h
        /\ seen' = seen \cup {Stamp(p)}
    BY <1>0, <1>5
  <2>2. \A u \in 1..Storms : \A k \in 1..Len(grouped'[u]) :
            /\ grouped'[u][k].sid = u
            /\ FirstOfItsTime(grouped'[u], k) /\ ~Placed(grouped[u][k])'
                => grouped'[u][k] \in KeptPoints'
    BY <1>7, <1>10 DEF Placed
  <2>3. pc' = "split" => \A k \in 1..Len(grouped'[storm']) : \A time \in seen' :
            time <= Stamp(grouped'[storm'][k])
    BY <1>12, <2>1
  <2>4. \A x \in 1..(next'-1) : Accepted(input'[x]) /\ ~Placed(Point(input[x]))' =>
            \E k \in 1..Len(grouped'[input'[x].sid]) :
                Stamp(grouped'[input'[x].sid][k]) = Stamp(input'[x])
    BY <1>11, <2>1
  <2> QED
    BY <2>2, <2>3, <2>4 DEF GroupsHold
<1> QED
  BY <1>5, <1>13

LEMMA SplitRecordConverts ==
    ASSUME ConvertInv, SplitRecord
    PROVE  ConvertInv'
<1>0. ConvertTypes /\ GroupsHold /\ EndsAtTheLoop /\ TracksHold /\ LinksCounted
  BY DEF ConvertInv
<1>1. PICK p : p = grouped[storm][Earliest(grouped[storm])]
  OBVIOUS
<1> DEFINE leaves == current # <<>> /\ current[1].basin # p.basin
<1>2. /\ pc = "split" /\ grouped[storm] # <<>>
      /\ UNCHANGED <<input, next, pc, storm>> /\ seen' = seen \cup {Stamp(p)}
      /\ grouped' = [grouped EXCEPT ![storm] = Without(@, Earliest(grouped[storm]))]
      /\ IF Stamp(p) \in seen THEN UNCHANGED <<tracks, current>>
         ELSE /\ tracks' = IF leaves THEN Flushed ELSE tracks
              /\ current' = IF leaves THEN <<p>> ELSE Append(current, p)
  BY <1>1 DEF SplitRecord
<1> HIDE DEF leaves
<1>3. GroupsHold' /\ grouped' \in [1..Storms -> Seq(Points)]
  BY <1>0, <1>1, <1>2, GroupsAfter
<1>4. /\ p \in Points /\ p.sid = storm /\ Stamp(p) \in Nat
      /\ \A time \in seen : time <= Stamp(p)
      /\ Stamp(p) \notin seen => p \in KeptPoints /\ ~Placed(p)
      /\ \A q \in KeptPoints : q.sid = storm /\ Stamp(q) < Stamp(p) => Stamp(q) \in seen
  BY <1>0, <1>1, <1>2, TakenRecord
<1>5. /\ KeptPoints' = KeptPoints /\ KeptPoints \subseteq Points /\ Archive' /\ Archive
      /\ storm \in 1..Storms
  BY <1>0, <1>2, ArchiveStays, KeptRows DEF ConvertTypes
<1>6. \A q : Placed(q)' <=> Placed(q) \/ (q.sid = storm /\ Stamp(q) = Stamp(p))
  BY <1>2 DEF Placed
<1>7. (tracks' \in [Theatres -> Seq(Seq(KeptPoints))] /\ current' \in Seq(KeptPoints)) => ConvertTypes'
  <2>1. seen' \subseteq Nat
    BY <1>0, <1>2, <1>4 DEF ConvertTypes
  <2>2. /\ next' \in 1..(Len(input') + 1) /\ pc' = "split" /\ storm' \in 1..Storms
        /\ next' = Len(input') + 1
    BY <1>0, <1>2 DEF ConvertTypes
  <2> QED
    BY <1>3, <1>5, <2>1, <2>2 DEF ConvertTypes
<1>8. CASE Stamp(p) \in seen
  <2>1. seen' = seen /\ UNCHANGED conversion
    BY <1>2, <1>8 DEF conversion
  <2>2. \A q \in KeptPoints : Placed(q)' <=> Placed(q)
    BY <1>2, <2>1 DEF Placed, conversion
  <2>3. TracksHold' /\ LinksCounted' /\ EndsAtTheLoop'
    BY <1>0, <1>2, <2>1, <2>2, NothingCollected
  <2>4. ConvertTypes'
    BY <1>0, <1>2, <1>7, <1>8 DEF ConvertTypes
  <2> QED
    BY <1>3, <2>3, <2>4 DEF ConvertInv
<1>9. CASE Stamp(p) \notin seen
  <2>1. p \in KeptPoints /\ ~Placed(p) /\ p.basin \in Theatres
    BY <1>4, <1>5, <1>9, PointTyping
  <2>2. \A q \in KeptPoints : Placed(q)' <=> Placed(q) \/ q = p
    BY <1>4, <1>5, <1>6, <2>1, OnePointATime
  <2>3. \A time \in seen : time \in Nat /\ time < Stamp(p)
    BY <1>0, <1>4, <1>9 DEF ConvertTypes
  <2> DEFINE l == current[Len(current)]
  <2>4. ASSUME current # <<>>
        PROVE  /\ l \in KeptPoints /\ current[1].basin \in Theatres /\ l.basin = current[1].basin
               /\ l.sid = storm /\ Stamp(l) \in seen /\ \A time \in seen : time <= Stamp(l)
    <3>1. current[1].basin \in Theatres
      BY <1>0, <2>4, FlushedIs
    <3>2. IsTrack(current, current[1].basin)
      BY <1>0, <2>4, <3>1 DEF TracksHold, Collected
    <3>3. current \in Seq(KeptPoints) /\ Len(current) \in 1..Len(current)
      BY <2>4, <1>0 DEF ConvertTypes
    <3>4. l \in KeptPoints /\ l.basin = current[1].basin
      BY <3>2, <3>3 DEF IsTrack
    <3> QED
      BY <1>0, <2>4, <3>1, <3>4 DEF EndsAtTheLoop
  <2>5. ASSUME NEW b \in Theatres, NEW pq \in PairsOf(b), pq[2] = p
        PROVE  current # <<>> /\ pq[1] = l /\ l.basin = p.basin
    <3>1. /\ pq[1] \in KeptPoints /\ pq[1].sid = storm /\ pq[1].basin = p.basin
          /\ Stamp(pq[1]) < Stamp(p)
          /\ \A r \in KeptPoints : r.sid = storm =>
                ~(Stamp(pq[1]) < Stamp(r) /\ Stamp(r) < Stamp(p))
      BY <1>4, <2>5 DEF PairsOf, Adjacent
    <3>2. Stamp(pq[1]) \in seen
      BY <1>4, <3>1
    <3>3. current # <<>>
      BY <1>0, <3>2 DEF EndsAtTheLoop
    <3>4. Stamp(pq[1]) <= Stamp(l) /\ Stamp(l) < Stamp(p) /\ Stamp(l) \in Nat /\ Stamp(pq[1]) \in Nat
      BY <2>3, <2>4, <3>2, <3>3
    <3>5. Stamp(l) = Stamp(pq[1])
      BY <2>4, <3>1, <3>3, <3>4
    <3>6. pq[1] = l
      BY <1>5, <2>4, <3>1, <3>3, <3>5, OnePointATime
    <3> QED
      BY <3>1, <3>3, <3>6
  <2>6. CASE current = <<>> \/ leaves
    <3>1. tracks' = Flushed /\ current' = <<p>>
      <4>1. CASE current = <<>>
        <5>1. Flushed = tracks /\ Append(current, p) = <<p>> /\ ~leaves
          BY <4>1 DEF Flushed, leaves
        <5> QED
          BY <1>2, <1>9, <5>1
      <4> QED
        BY <1>2, <1>9, <2>6, <4>1
    <3>2. \A b \in Theatres : \A pq \in PairsOf(b) : pq[2] # p
      BY <2>4, <2>5, <2>6 DEF leaves
    <3>3. TracksHold' /\ LinksCounted'
      BY <1>0, <1>2, <2>1, <2>2, <3>1, <3>2, TrackBegins
    <3>4. ConvertTypes'
      <4>1. <<p>> \in Seq(KeptPoints)
        BY <2>1
      <4> QED
        BY <1>0, <1>7, <3>1, <4>1, FlushedIs
    <3>5. EndsAtTheLoop'
      <4>1. current' # <<>> /\ current'[Len(current')] = p
        BY <3>1
      <4>2. p.sid = storm' /\ Stamp(p) \in seen' /\ \A time \in seen' : time <= Stamp(p)
        BY <1>2, <1>4
      <4> QED
        BY <4>1, <4>2 DEF EndsAtTheLoop
    <3> QED
      BY <1>3, <3>3, <3>4, <3>5 DEF ConvertInv
  <2>7. CASE current # <<>> /\ ~leaves
    <3>1. tracks' = tracks /\ current' = Append(current, p) /\ current[1].basin = p.basin
      BY <1>2, <1>9, <2>7 DEF leaves
    <3>2. Adjacent(l, p)
      <4>1. l.sid = p.sid /\ l.basin = p.basin /\ Stamp(l) < Stamp(p) /\ Stamp(l) \in Nat
        BY <1>4, <2>3, <2>4, <2>7, <3>1
      <4>2. ASSUME NEW r \in KeptPoints, r.sid = l.sid, Stamp(l) < Stamp(r), Stamp(r) < Stamp(p)
            PROVE  FALSE
        <5>1. Stamp(r) \in seen
          BY <1>4, <4>1, <4>2
        <5>2. Stamp(r) <= Stamp(l) /\ Stamp(r) \in Nat
          BY <5>1, <2>3, <2>4, <2>7
        <5> QED
          BY <4>1, <4>2, <5>2
      <4> QED
        BY <4>1, <4>2 DEF Adjacent
    <3>3. \A b \in Theatres : \A pq \in PairsOf(b) : pq[2] = p => pq[1] = current[Len(current)]
      BY <2>5
    <3>4. TracksHold' /\ LinksCounted'
      BY <1>0, <1>2, <2>1, <2>2, <2>7, <3>1, <3>2, <3>3, TrackGrows
    <3>5. current \in Seq(KeptPoints) /\ tracks \in [Theatres -> Seq(Seq(KeptPoints))]
      BY <1>0 DEF ConvertTypes
    <3>6. ConvertTypes'
      <4>1. Append(current, p) \in Seq(KeptPoints)
        BY <2>1, <3>5
      <4> QED
        BY <1>7, <3>1, <3>5, <4>1
    <3>7. EndsAtTheLoop'
      <4>1. current' # <<>> /\ current'[Len(current')] = p
        BY <2>1, <3>1, <3>5
      <4>2. p.sid = storm' /\ Stamp(p) \in seen' /\ \A time \in seen' : time <= Stamp(p)
        BY <1>2, <1>4
      <4> QED
        BY <4>1, <4>2 DEF EndsAtTheLoop
    <3> QED
      BY <1>3, <3>4, <3>6, <3>7 DEF ConvertInv
  <2> QED
    BY <2>6, <2>7
<1> QED
  BY <1>8, <1>9

LEMMA EndOfStormConverts ==
    ASSUME ConvertInv, EndOfStorm
    PROVE  ConvertInv'
<1>0. ConvertTypes /\ GroupsHold /\ EndsAtTheLoop /\ TracksHold /\ LinksCounted
  BY DEF ConvertInv
<1>1. /\ pc = "split" /\ grouped[storm] = <<>>
      /\ UNCHANGED <<input, next, grouped>> /\ tracks' = Flushed /\ current' = <<>> /\ seen' = {}
      /\ storm' = (IF storm < Storms THEN storm + 1 ELSE storm)
      /\ pc' = (IF storm < Storms THEN "split" ELSE "write")
  BY DEF EndOfStorm, source
<1>2. /\ KeptPoints' = KeptPoints /\ KeptPoints \subseteq Points /\ Archive' /\ Archive
      /\ storm \in 1..Storms /\ Storms \in Nat
  <2>1. Archive /\ storm \in 1..Storms
    BY <1>0 DEF ConvertTypes
  <2>2. KeptPoints \subseteq Points
    BY <2>1, KeptRows
  <2>3. KeptPoints' = KeptPoints /\ Archive'
    BY <1>1, <2>1, ArchiveStays
  <2> QED
    BY <2>1, <2>2, <2>3, StormCount
<1>3. storm' \in 1..Storms
  BY <1>1, <1>2
<1>4. ConvertTypes'
  <2>1. tracks' \in [Theatres -> Seq(Seq(KeptPoints'))] /\ current' \in Seq(KeptPoints')
    BY <1>0, <1>1, <1>2, FlushedIs
  <2>2. pc' \in {"split", "write"}
    BY <1>1
  <2> QED
    BY <1>0, <1>1, <1>2, <1>3, <2>1, <2>2 DEF ConvertTypes
<1>5. ASSUME NEW x \in 1..Len(input), Accepted(input[x])
      PROVE  input[x].sid = storm => Placed(Point(input[x]))
  <2>1. next - 1 = Len(input)
    BY <1>0, <1>1, KeptRows DEF ConvertTypes
  <2>2. 1..Len(grouped[storm]) = {}
    BY <1>1
  <2> QED
    BY <1>0, <1>5, <2>1, <2>2 DEF GroupsHold
<1>6. ASSUME NEW q, q.sid \in 1..Storms, q.sid # storm
      PROVE  Placed(q)' <=> Placed(q)
  <2>1. CASE storm < Storms
    BY <1>1, <1>2, <1>6, <2>1 DEF Placed
  <2>2. CASE ~(storm < Storms)
    BY <1>1, <1>2, <1>6, <2>2 DEF Placed
  <2> QED
    BY <2>1, <2>2
<1>7. ASSUME NEW q, q.sid = storm PROVE Placed(q)'
  <2>1. CASE storm < Storms
    BY <1>1, <1>2, <1>7, <2>1 DEF Placed
  <2>2. CASE ~(storm < Storms)
    BY <1>1, <1>2, <1>7, <2>2 DEF Placed
  <2> QED
    BY <2>1, <2>2
<1>8. ASSUME NEW q \in KeptPoints PROVE Placed(q)' <=> Placed(q)
  <2>1. PICK x \in Kept : q = Point(input[x])
    BY DEF KeptPoints
  <2>2. /\ x \in 1..Len(input) /\ Accepted(input[x]) /\ q.sid = input[x].sid
        /\ q.sid \in 1..Storms
    BY <1>2, <2>1, KeptRows, PointFields, RowFields
  <2>3. CASE q.sid = storm
    <3>1. Placed(q)
      BY <1>5, <2>1, <2>2, <2>3
    <3>2. Placed(q)'
      BY <1>7, <2>3
    <3> QED
      BY <3>1, <3>2
  <2>4. CASE q.sid # storm
    BY <1>6, <2>2, <2>4
  <2> QED
    BY <2>3, <2>4
<1>9. \A b \in Theatres : Collected(b)' = Collected(b) /\ LinksOf(b)' = LinksOf(b)
  <2> SUFFICES ASSUME NEW b \in Theatres
               PROVE  Collected(b)' = Collected(b) /\ LinksOf(b)' = LinksOf(b)
    OBVIOUS
  <2>1. Collected(b)' = {Flushed[b][k] : k \in 1..Len(Flushed[b])}
    BY <1>1 DEF Collected
  <2>2. LinksOf(b)' = LinkTotal(Flushed[b]) + 0
    BY <1>1 DEF LinksOf
  <2>3. LinkTotal(Flushed[b]) \in Int
    BY <1>0, FlushedIs, LinkTotalInt
  <2> QED
    BY <1>0, <2>1, <2>2, <2>3, FlushedIs
<1>10. TracksHold' /\ LinksCounted'
  BY <1>0, <1>1, <1>8, <1>9, CollectedStays DEF LinksCounted
<1>11. EndsAtTheLoop'
  BY <1>1 DEF EndsAtTheLoop
<1>12. GroupsHold'
  <2>1. ASSUME NEW s \in 1..Storms, NEW k \in 1..Len(grouped[s]), NEW q, q = grouped[s][k]
        PROVE  /\ q.sid = s
               /\ FirstOfItsTime(grouped[s], k) /\ ~Placed(q)' => q \in KeptPoints
    <3>1. s # storm
      BY <1>1, <2>1
    <3>2. /\ q.sid = s /\ (FirstOfItsTime(grouped[s], k) /\ ~Placed(q) => q \in KeptPoints)
      BY <1>0, <2>1 DEF GroupsHold
    <3> QED
      BY <1>6, <3>1, <3>2
  <2>2. ASSUME NEW x \in 1..(next-1), Accepted(input[x]), NEW q, q = Point(input[x]), ~Placed(q)'
        PROVE  \E k \in 1..Len(grouped[input[x].sid]) :
                  Stamp(grouped[input[x].sid][k]) = Stamp(input[x])
    <3>1. x \in 1..Len(input) /\ input[x] \in Rows
      BY <1>0, <1>1, KeptRows DEF ConvertTypes
    <3>2. q.sid = input[x].sid /\ input[x].sid \in 1..Storms
      BY <2>2, <3>1, PointFields, RowFields
    <3>3. ~Placed(q)
      BY <1>6, <1>7, <2>2, <3>2
    <3> QED
      BY <1>0, <2>2, <3>3 DEF GroupsHold
  <2>3. \A s \in 1..Storms : \A k \in 1..Len(grouped'[s]) :
            /\ grouped'[s][k].sid = s
            /\ FirstOfItsTime(grouped'[s], k) /\ ~Placed(grouped[s][k])' => grouped'[s][k] \in KeptPoints'
    BY <1>1, <1>2, <2>1 DEF Placed
  <2>4. \A x \in 1..(next'-1) : Accepted(input'[x]) /\ ~Placed(Point(input[x]))' =>
            \E k \in 1..Len(grouped'[input'[x].sid]) :
                Stamp(grouped'[input'[x].sid][k]) = Stamp(input'[x])
    BY <1>1, <2>2 DEF Placed
  <2> QED
    BY <1>1, <2>3, <2>4 DEF GroupsHold
<1> QED
  BY <1>4, <1>10, <1>11, <1>12 DEF ConvertInv

\* What the build and the plugin do later leaves the conversion as it is.
LEMMA ConvertStays ==
    ASSUME ConvertInv, UNCHANGED source, UNCHANGED conversion,
           pc \in {"write", "verify", "failed", "done"},
           pc' \in {"write", "verify", "failed", "done"}
    PROVE  ConvertInv'
<1>0. ConvertTypes /\ GroupsHold /\ EndsAtTheLoop /\ TracksHold /\ LinksCounted
  BY DEF ConvertInv
<1>1. UNCHANGED <<input, next, grouped, tracks, storm, current, seen>>
  BY DEF source, conversion
<1>2. KeptPoints' = KeptPoints /\ (\A p : Placed(p)' /\ Placed(p)) /\ Archive'
  BY <1>0, <1>1, ArchiveStays DEF Placed, ConvertTypes
<1>3. TracksHold' /\ LinksCounted' /\ EndsAtTheLoop'
  BY <1>0, <1>1, <1>2, NothingCollected
<1>4. ConvertTypes'
  BY <1>0, <1>1, <1>2 DEF ConvertTypes
<1>5. GroupsHold'
  BY <1>0, <1>1, <1>2 DEF GroupsHold
<1> QED
  BY <1>3, <1>4, <1>5 DEF ConvertInv

-----------------------------------------------------------------------------
(* The fields of a theatre's file                                          *)

Fields ==
    {[state |-> "year", year |-> y] : y \in Nat} \cup {End}
        \cup {PointField(p, b) : p \in Points, b \in Theatres}

\* The tracks of a theatre: none is empty.
TrackLists == {ts \in Seq(Seq(Points)) : \A n \in 1..Len(ts) : ts[n] # <<>>}

Sizes(ts) == [n \in 1..Len(ts) |-> Len(ts[n]) + 2]

\* Where the fields of the first n tracks end.
Offset(ts, n) == Run(Len(ts), Sizes(ts))[n]

LEMMA Joined ==
    ASSUME NEW S, NEW s \in Seq(S), NEW t \in Seq(S)
    PROVE  /\ s \o t \in Seq(S) /\ Len(s) \in Nat /\ Len(t) \in Nat
           /\ Len(s \o t) = Len(s) + Len(t)
           /\ \A k \in 1..Len(s) : (s \o t)[k] = s[k]
           /\ \A k \in 1..Len(t) : (s \o t)[Len(s) + k] = t[k]
  OBVIOUS

LEMMA TrackFieldsAre ==
    ASSUME NEW t \in Seq(Points), t # <<>>, NEW b \in Theatres
    PROVE  /\ TrackFields(t, b) \in Seq(Fields) /\ Len(t) \in Nat /\ Len(t) >= 1
           /\ Len(TrackFields(t, b)) = Len(t) + 2
           /\ TrackFields(t, b)[1] = [state |-> "year", year |-> t[1].year]
           /\ \A k \in 1..Len(t) : TrackFields(t, b)[k + 1] = PointField(t[k], b)
           /\ TrackFields(t, b)[Len(t) + 2] = End
<1> DEFINE N == Len(t)
           year == [state |-> "year", year |-> t[1].year]
           points == [k \in 1..N |-> PointField(t[k], b)]
<1>1. N \in Nat /\ N >= 1 /\ \A k \in 1..N : t[k] \in Points
  OBVIOUS
<1>2. year \in Fields /\ End \in Fields /\ \A k \in 1..N : PointField(t[k], b) \in Fields
  <2>1. t[1].year \in Nat
    BY <1>1, PointTyping
  <2> QED
    BY <1>1, <2>1 DEF Fields
<1>3. TrackFields(t, b) = (<<year>> \o points) \o <<End>>
  BY DEF TrackFields
<1>4. points \in [1..N -> Fields]
  BY <1>2
<1>5. \A k \in 1..N : points[k] = PointField(t[k], b)
  OBVIOUS
<1> HIDE DEF N, year, points
<1>6. points \in Seq(Fields) /\ Len(points) = N
  BY <1>1, <1>4
<1>7. <<year>> \in Seq(Fields) /\ Len(<<year>>) = 1 /\ <<year>>[1] = year
      /\ <<End>> \in Seq(Fields) /\ Len(<<End>>) = 1 /\ <<End>>[1] = End
  <2> HIDE DEF End
  <2> QED
    BY <1>2
<1>8. PICK one, two, all : one = <<year>> /\ two = one \o points /\ all = two \o <<End>>
  OBVIOUS
<1>9. /\ two \in Seq(Fields) /\ Len(two) = N + 1 /\ two[1] = year
      /\ \A k \in 1..N : two[k + 1] = points[k]
  <2>1. one \in Seq(Fields) /\ Len(one) = 1 /\ one[1] = year
    BY <1>7, <1>8
  <2>2. /\ two \in Seq(Fields) /\ Len(two) = 1 + N
        /\ \A k \in 1..1 : two[k] = one[k]
        /\ \A k \in 1..N : two[1 + k] = points[k]
    BY <1>6, <1>8, <2>1, Joined
  <2>3. \A k \in 1..N : 1 + k = k + 1
    BY <1>1
  <2> QED
    BY <1>1, <2>1, <2>2, <2>3
<1>10. /\ all \in Seq(Fields) /\ Len(all) = N + 1 + 1
       /\ \A k \in 1..(N + 1) : all[k] = two[k]
       /\ all[N + 1 + 1] = End
  BY <1>7, <1>8, <1>9, Joined
<1>11. all = TrackFields(t, b)
  BY <1>3, <1>8
<1>12. 1 \in 1..(N + 1) /\ (\A k \in 1..N : k + 1 \in 1..(N + 1)) /\ N + 1 + 1 = N + 2
  BY <1>1
<1> QED
  BY <1>1, <1>5, <1>9, <1>10, <1>11, <1>12 DEF N, year

LEMMA FieldsToDef ==
    ASSUME NEW ts, Len(ts) \in Nat, NEW b
    PROVE  /\ FieldsTo(ts, b)[0] = <<>>
           /\ \A n \in 1..Len(ts) :
                FieldsTo(ts, b)[n] = WithTrack(FieldsTo(ts, b)[n-1], ts[n], b)
<1> DEFINE N == Len(ts)
           Makes(m) == \E u : u = [n \in 0..m |-> IF n = 0 THEN <<>> ELSE WithTrack(u[n-1], ts[n], b)]
           T == {m \in 0..N : Makes(m)}
<1>0. N \in Nat
  OBVIOUS
<1> HIDE DEF N
<1>1. 0 \in T
  <2> DEFINE u == [n \in 0..0 |-> <<>>]
  <2>1. u = [n \in 0..0 |-> IF n = 0 THEN <<>> ELSE WithTrack(u[n-1], ts[n], b)]
    OBVIOUS
  <2>2. Makes(0)
    BY <2>1
  <2> QED
    BY <1>0, <2>2
<1>2. ASSUME NEW m \in 1..N, m - 1 \in T PROVE m \in T
  <2>1. PICK u : u = [n \in 0..(m-1) |-> IF n = 0 THEN <<>> ELSE WithTrack(u[n-1], ts[n], b)]
    BY <1>2
  <2> DEFINE w == [n \in 0..m |-> IF n = m THEN WithTrack(u[m-1], ts[m], b) ELSE u[n]]
  <2>2. m \in Nat /\ m # 0 /\ m - 1 \in 0..(m-1)
    BY <1>0
  <2>3. \A n \in 0..m : w[n] = IF n = 0 THEN <<>> ELSE WithTrack(w[n-1], ts[n], b)
    <3> TAKE n \in 0..m
    <3>1. CASE n = m
      BY <2>2, <3>1
    <3>2. CASE n # m
      <4>1. n \in 0..(m-1) /\ (n # 0 => n - 1 \in 0..(m-1) /\ n - 1 # m)
        BY <2>2, <3>2
      <4>2. w[n] = u[n] /\ (n # 0 => w[n-1] = u[n-1])
        BY <2>2, <3>2, <4>1
      <4>3. u[n] = IF n = 0 THEN <<>> ELSE WithTrack(u[n-1], ts[n], b)
        BY <2>1, <4>1
      <4> QED
        BY <4>2, <4>3
    <3> QED
      BY <3>1, <3>2
  <2>4. w = [n \in 0..m |-> IF n = 0 THEN <<>> ELSE WithTrack(w[n-1], ts[n], b)]
    BY <2>3
  <2>5. Makes(m)
    BY <2>4
  <2> QED
    BY <1>0, <2>5
<1>3. N \in T
  <2> HIDE DEF T
  <2> QED
    BY <1>0, <1>1, <1>2, CountingUp
<1>4. FieldsTo(ts, b) =
        [n \in 0..N |-> IF n = 0 THEN <<>> ELSE WithTrack(FieldsTo(ts, b)[n-1], ts[n], b)]
  BY <1>3 DEF FieldsTo, N
<1> QED
  BY <1>0, <1>4 DEF N

LEMMA SizesAre ==
    ASSUME NEW ts \in TrackLists
    PROVE  /\ Len(ts) \in Nat
           /\ \A n \in 1..Len(ts) : /\ ts[n] \in Seq(Points) /\ ts[n] # <<>>
                                    /\ Len(ts[n]) \in Nat /\ Len(ts[n]) >= 1
                                    /\ Sizes(ts)[n] = Len(ts[n]) + 2
                                    /\ Offset(ts, n) = Offset(ts, n-1) + Len(ts[n]) + 2
           /\ \A n \in 0..Len(ts) : Offset(ts, n) \in Nat /\ Offset(ts, n) <= Offset(ts, Len(ts))
           /\ Offset(ts, 0) = 0
           /\ \A j \in 1..Offset(ts, Len(ts)) :
                \E n \in 1..Len(ts) : \E m \in 1..(Len(ts[n]) + 2) : j = Offset(ts, n-1) + m
<1> DEFINE N == Len(ts)
           f == Sizes(ts)
<1>1. N \in Nat /\ \A n \in 1..N : /\ ts[n] \in Seq(Points) /\ ts[n] # <<>>
                                   /\ Len(ts[n]) \in Nat /\ Len(ts[n]) >= 1
  BY DEF TrackLists
<1>2. \A n \in 1..N : f[n] = Len(ts[n]) + 2 /\ f[n] \in Nat
  BY <1>1 DEF Sizes
<1>3. \A n : Offset(ts, n) = Run(N, f)[n]
  BY DEF Offset
<1> HIDE DEF N, f
<1>4. \A n \in 1..N : Run(N, f)[n] = Run(N, f)[n-1] + f[n]
  BY <1>1, RunDef
<1>5. Run(N, f)[0] = 0 /\ \A n \in 0..N : Run(N, f)[n] \in Nat
  BY <1>1, <1>2, RunDef, RunTyping
<1>6. \A n \in 1..N : Run(N, f)[n] <= Run(N, f)[N]
  BY <1>1, <1>2, RunGrows
<1>7. \A j \in 1..Run(N, f)[N] : \E n \in 1..N : \E m \in 1..f[n] : j = Run(N, f)[n-1] + m
  BY <1>1, <1>2, RunCovers
<1>8. ASSUME NEW n \in 1..N PROVE Offset(ts, n) = Offset(ts, n-1) + Len(ts[n]) + 2
  <2>1. PICK m : m = Len(ts[n])
    OBVIOUS
  <2>2. m \in Nat /\ f[n] = m + 2
    BY <1>1, <1>2, <2>1
  <2>3. Run(N, f)[n-1] \in Nat
    <3>1. n - 1 \in 0..N
      BY <1>1
    <3> QED
      BY <1>5, <3>1
  <2>4. Run(N, f)[n] = Run(N, f)[n-1] + m + 2
    <3>1. Run(N, f)[n] = Run(N, f)[n-1] + (m + 2)
      BY <1>4, <2>2
    <3> QED
      BY <2>2, <2>3, <3>1
  <2> QED
    BY <1>3, <2>1, <2>4
<1>9. \A n \in 0..N : Offset(ts, n) \in Nat /\ Offset(ts, n) <= Offset(ts, N)
  <2> SUFFICES ASSUME NEW n \in 0..N PROVE Offset(ts, n) \in Nat /\ Offset(ts, n) <= Offset(ts, N)
    OBVIOUS
  <2>1. N \in 0..N
    BY <1>1
  <2>2. n = 0 \/ n \in 1..N
    BY <1>1
  <2> QED
    BY <1>3, <1>5, <1>6, <2>1, <2>2
<1>10. \A j \in 1..Offset(ts, N) : \E n \in 1..N : \E m \in 1..(Len(ts[n]) + 2) : j = Offset(ts, n-1) + m
  BY <1>2, <1>3, <1>7
<1> QED
  BY <1>1, <1>2, <1>3, <1>5, <1>8, <1>9, <1>10 DEF N, f

\* After n tracks the fields end where their sizes say.
LEMMA FieldsToTyping ==
    ASSUME NEW ts \in TrackLists, NEW b \in Theatres
    PROVE  \A n \in 0..Len(ts) :
              FieldsTo(ts, b)[n] \in Seq(Fields) /\ Len(FieldsTo(ts, b)[n]) = Offset(ts, n)
<1> DEFINE N == Len(ts)
           F == FieldsTo(ts, b)
           T == {n \in 0..N : F[n] \in Seq(Fields) /\ Len(F[n]) = Offset(ts, n)}
<1>0. N \in Nat
  BY SizesAre
<1>4. F[0] = <<>> /\ \A n \in 1..N : F[n] = F[n-1] \o TrackFields(ts[n], b)
  BY <1>0, FieldsToDef DEF WithTrack
<1> HIDE DEF F
<1>1. 0 \in T
  <2>1. F[0] = <<>> /\ Offset(ts, 0) = 0
    BY <1>4, SizesAre
  <2>2. <<>> \in Seq(Fields) /\ Len(<<>>) = 0
    OBVIOUS
  <2>3. F[0] \in Seq(Fields) /\ Len(F[0]) = 0
    BY <2>1, <2>2, Zenon
  <2>4. 0 \in 0..N /\ Offset(ts, 0) = 0
    BY <1>0, SizesAre
  <2> QED
    BY <2>3, <2>4
<1>2. ASSUME NEW n \in 1..N, n - 1 \in T PROVE n \in T
  <2>0. n \in 0..N
    BY <1>0
  <2>1. F[n] = F[n-1] \o TrackFields(ts[n], b)
    BY <1>4
  <2>2. F[n-1] \in Seq(Fields) /\ Len(F[n-1]) = Offset(ts, n-1)
    BY <1>2
  <2>3. TrackFields(ts[n], b) \in Seq(Fields) /\ Len(TrackFields(ts[n], b)) = Len(ts[n]) + 2
    BY SizesAre, TrackFieldsAre
  <2>4. F[n] \in Seq(Fields) /\ Len(F[n]) = Len(F[n-1]) + Len(TrackFields(ts[n], b))
    <3>1. PICK v, w : v = F[n-1] /\ w = TrackFields(ts[n], b)
      OBVIOUS
    <3>2. v \in Seq(Fields) /\ w \in Seq(Fields) /\ F[n] = v \o w
      BY <2>1, <2>2, <2>3, <3>1
    <3>3. v \o w \in Seq(Fields) /\ Len(v \o w) = Len(v) + Len(w)
      BY <3>2, Joined
    <3> QED
      BY <3>1, <3>2, <3>3
  <2>5. Offset(ts, n) = Offset(ts, n-1) + Len(ts[n]) + 2 /\ Offset(ts, n-1) \in Nat /\ Len(ts[n]) \in Nat
    <3>1. n - 1 \in 0..N
      BY <1>0
    <3> QED
      BY <3>1, SizesAre
  <2>6. Len(F[n]) = Offset(ts, n)
    <3>1. PICK l, o : l = Len(ts[n]) /\ o = Offset(ts, n-1)
      OBVIOUS
    <3>2. l \in Nat /\ o \in Nat /\ o + (l + 2) = o + l + 2
      BY <2>5, <3>1
    <3> QED
      BY <2>2, <2>3, <2>4, <2>5, <3>1, <3>2
  <2> QED
    BY <2>0, <2>4, <2>6
<1>3. 0..N \subseteq T
  <2> HIDE DEF T
  <2> QED
    BY <1>0, <1>1, <1>2, CountingUp
<1> QED
  BY <1>3 DEF F

LEMMA OffsetsGrow ==
    ASSUME NEW ts \in TrackLists, NEW n \in 1..Len(ts), NEW k \in 0..Len(ts), n <= k
    PROVE  Offset(ts, n) <= Offset(ts, k) /\ Offset(ts, k) \in Nat
<1> DEFINE N == Len(ts)
           T == {i \in 0..N : n <= i => Offset(ts, n) <= Offset(ts, i)}
<1>0. N \in Nat /\ n \in 0..N
  BY SizesAre
<1>1. 0 \in T
  BY <1>0
<1>2. ASSUME NEW i \in 1..N, i - 1 \in T PROVE i \in T
  <2>1. i \in 0..N /\ i - 1 \in 0..N
    BY <1>0
  <2>2. Offset(ts, i) = Offset(ts, i-1) + Len(ts[i]) + 2 /\ Offset(ts, i-1) \in Nat
        /\ Len(ts[i]) \in Nat /\ Offset(ts, n) \in Nat
    BY <1>0, <2>1, SizesAre
  <2>3. CASE n = i
    BY <2>1, <2>2, <2>3
  <2>4. CASE n # i
    BY <1>0, <1>2, <2>1, <2>2, <2>4
  <2> QED
    BY <2>3, <2>4
<1>3. 0..N \subseteq T
  <2> HIDE DEF T
  <2> QED
    BY <1>0, <1>1, <1>2, CountingUp
<1> QED
  BY <1>3, SizesAre

\* What was written of a track stays where it is.
LEMMA FieldsToAt ==
    ASSUME NEW ts \in TrackLists, NEW b \in Theatres,
           NEW n \in 1..Len(ts), NEW m \in 1..(Len(ts[n]) + 2)
    PROVE  FileOf(ts, b)[Offset(ts, n-1) + m] = TrackFields(ts[n], b)[m]
<1> DEFINE N == Len(ts)
           F == FieldsTo(ts, b)
           j == Offset(ts, n-1) + m
           T == {k \in 0..N : n <= k => F[k][j] = TrackFields(ts[n], b)[m]}
<1>0. /\ N \in Nat /\ n \in 0..N /\ n - 1 \in 0..N /\ Offset(ts, n-1) \in Nat
      /\ Offset(ts, n) \in Nat /\ Len(ts[n]) \in Nat
      /\ Offset(ts, n) = Offset(ts, n-1) + Len(ts[n]) + 2
  <2>1. N \in Nat /\ n \in 0..N /\ n - 1 \in 0..N
    BY SizesAre
  <2> QED
    BY <2>1, SizesAre
<1>5. /\ \A k \in 1..N : F[k] = F[k-1] \o TrackFields(ts[k], b)
      /\ \A k \in 0..N : F[k] \in Seq(Fields) /\ Len(F[k]) = Offset(ts, k)
  BY <1>0, FieldsToDef, FieldsToTyping DEF WithTrack
<1>6. FileOf(ts, b) = F[N]
  BY DEF FileOf
<1>7. j \in Int /\ j = Offset(ts, n-1) + m /\ j >= 1 /\ j <= Offset(ts, n)
  <2>1. PICK o, l : o = Offset(ts, n-1) /\ l = Len(ts[n])
    OBVIOUS
  <2>2. o \in Nat /\ l \in Nat /\ Offset(ts, n) = o + l + 2 /\ m \in 1..(l + 2)
    BY <1>0, <2>1
  <2>3. o + m \in Int /\ o + m >= 1 /\ o + m <= o + l + 2
    BY <2>2
  <2> QED
    BY <2>1, <2>2, <2>3
<1> HIDE DEF F, j
<1>1. 0 \in T
  BY <1>0
<1>2. ASSUME NEW k \in 1..N, k - 1 \in T PROVE k \in T
  <2>0. k \in 0..N /\ k - 1 \in 0..N
    BY <1>0
  <2>1. F[k] = F[k-1] \o TrackFields(ts[k], b)
    BY <1>5
  <2>2. F[k-1] \in Seq(Fields) /\ Len(F[k-1]) = Offset(ts, k-1)
    BY <1>5, <2>0
  <2>3. TrackFields(ts[k], b) \in Seq(Fields) /\ Len(TrackFields(ts[k], b)) = Len(ts[k]) + 2
    BY SizesAre, TrackFieldsAre
  <2>4. /\ \A i \in 1..Len(F[k-1]) : F[k][i] = F[k-1][i]
        /\ \A i \in 1..Len(TrackFields(ts[k], b)) : F[k][Len(F[k-1]) + i] = TrackFields(ts[k], b)[i]
    <3>1. PICK v, w : v = F[k-1] /\ w = TrackFields(ts[k], b)
      OBVIOUS
    <3>2. v \in Seq(Fields) /\ w \in Seq(Fields) /\ F[k] = v \o w
      BY <2>1, <2>2, <2>3, <3>1
    <3>3. /\ \A i \in 1..Len(v) : (v \o w)[i] = v[i]
          /\ \A i \in 1..Len(w) : (v \o w)[Len(v) + i] = w[i]
      BY <3>2, Joined
    <3> QED
      BY <3>1, <3>2, <3>3
  <2>5. CASE k = n
    BY <1>7, <2>0, <2>2, <2>3, <2>4, <2>5
  <2>6. CASE n <= k - 1
    <3>1. Offset(ts, n) <= Offset(ts, k-1) /\ Offset(ts, k-1) \in Nat
      BY <2>0, <2>6, OffsetsGrow
    <3>2. j \in 1..Len(F[k-1])
      BY <1>0, <1>7, <2>2, <3>1
    <3> QED
      BY <1>2, <2>0, <2>4, <2>6, <3>2
  <2>7. CASE ~(n <= k)
    BY <2>0, <2>7
  <2> QED
    BY <1>0, <2>5, <2>6, <2>7
<1>3. 0..N \subseteq T
  <2> HIDE DEF T
  <2> QED
    BY <1>0, <1>1, <1>2, CountingUp
<1>4. N \in 0..N /\ n <= N
  BY <1>0
<1> QED
  BY <1>3, <1>4, <1>6, <1>7

InRange(p) == -900 < p.lat /\ p.lat < 900

LEMMA WithinRange ==
    ASSUME NEW x \in Int, NEW m \in Int, NEW n \in Int, m <= x, x <= n
    PROVE  x \in m..n
  OBVIOUS

\* The hour of a point comes out of its byte as it went in.
LEMMA DayAndHour ==
    ASSUME NEW d \in 1..31, NEW h \in Quarters
    PROVE  /\ d * 4 + h \div 6 \in Nat
           /\ (d * 4 + h \div 6) \div 4 = d
           /\ ((d * 4 + h \div 6) % 4) * 6 = h
<1>1. h \in {0, 6, 12, 18}
  BY DEF Quarters
<1>2. PICK q \in 0..3 : h \div 6 = q /\ q * 6 = h
  <2>1. CASE h = 0
    BY <2>1
  <2>2. CASE h = 6
    BY <2>2
  <2>3. CASE h = 12
    BY <2>3
  <2>4. CASE h = 18
    BY <2>4
  <2> QED
    BY <1>1, <2>1, <2>2, <2>3, <2>4
<1>3. (d * 4 + q) \div 4 = d /\ (d * 4 + q) % 4 = q /\ d * 4 + q \in Nat
  OBVIOUS
<1> QED
  BY <1>2, <1>3

LEMMA PointFieldIs ==
    ASSUME NEW p \in Points, NEW b, NEW f, f = PointField(p, b)
    PROVE  /\ f.state = p.state /\ f.month = p.month /\ f.dayhour \div 4 = p.day
           /\ (f.dayhour % 4) * 6 = p.hour
           /\ f.lat = (IF b \in Southern THEN -p.lat ELSE p.lat) /\ f.lon = p.lon
           /\ f.wind = p.wind /\ f.pressure = p.pressure
           /\ IsPoint(f) /\ f # NoPoint /\ f # End
           /\ Decodable(f) <=> InRange(p)
           /\ Readable(f, p.year) <=> InRange(p)
<1>1. /\ f.state = p.state /\ f.dayhour = p.day * 4 + p.hour \div 6 /\ f.month = p.month
      /\ f.lat = (IF b \in Southern THEN -p.lat ELSE p.lat) /\ f.lon = p.lon
      /\ f.wind = p.wind /\ f.pressure = p.pressure
  BY DEF PointField
<1>2. /\ p.month \in 1..12 /\ p.day \in 1..31 /\ p.hour \in Quarters
      /\ p.lat \in Int /\ p.lon \in Int /\ -3450 < p.lon /\ p.lon <= 150
      /\ p.state \notin {"year", "end", "none"}
  BY PointTyping
<1>3. f.dayhour \div 4 = p.day /\ (f.dayhour % 4) * 6 = p.hour
  <2>1. PICK d \in 1..31, h \in Quarters : d = p.day /\ h = p.hour
    BY <1>2
  <2>2. (d * 4 + h \div 6) \div 4 = d /\ ((d * 4 + h \div 6) % 4) * 6 = h
    BY DayAndHour
  <2> QED
    BY <1>1, <2>1, <2>2
<1>4. IsPoint(f) /\ f # NoPoint /\ f # End
  BY <1>1, <1>2 DEF IsPoint, NoPoint, End
<1>5. (f.lat > -900 /\ f.lat < 900) <=> InRange(p)
  <2>1. CASE b \in Southern
    BY <1>1, <1>2, <2>1 DEF InRange
  <2>2. CASE b \notin Southern
    BY <1>1, <1>2, <2>2 DEF InRange
  <2> QED
    BY <2>1, <2>2
<1>6. f.lon >= -3600 /\ f.lon <= 150 /\ f.lon <= 3600 /\ f.lon \in Int
  BY <1>1, <1>2
<1>8. f.month \in 1..12 /\ f.dayhour \div 4 \in 1..31
  BY <1>1, <1>2, <1>3
<1>9. Decodable(f) <=> InRange(p)
  BY <1>5, <1>6, <1>8 DEF Decodable
<1>10. Readable(f, p.year) <=> InRange(p)
  <2>1. f.month \in 1..12 /\ f.dayhour \div 4 \in 1..DaysIn(p.year, f.month)
    <3>1. p.day \in 1..DaysIn(p.year, p.month)
      BY PointTyping
    <3> QED
      BY <1>1, <1>2, <1>3, <3>1
  <2> QED
    BY <1>5, <1>6, <2>1 DEF Readable
<1> QED
  BY <1>1, <1>3, <1>4, <1>9, <1>10

LEMMA YearsAndEnds ==
    ASSUME NEW y \in Nat
    PROVE  ~IsPoint([state |-> "year", year |-> y]) /\ ~IsPoint(End)
  BY DEF IsPoint, End

\* What is at a place of a file: the year of a track, a point of it, or the
\* terminator.
LEMMA FileFields ==
    ASSUME NEW ts \in TrackLists, NEW b \in Theatres, NEW file, file = FileOf(ts, b)
    PROVE  /\ file \in Seq(Fields) /\ Len(file) = Offset(ts, Len(ts))
           /\ \A n \in 1..Len(ts) :
                /\ file[Offset(ts, n-1) + 1] = [state |-> "year", year |-> ts[n][1].year]
                /\ \A k \in 1..Len(ts[n]) :
                    file[Offset(ts, n-1) + (k + 1)] = PointField(ts[n][k], b)
                /\ file[Offset(ts, n-1) + (Len(ts[n]) + 2)] = End
<1>1. Len(ts) \in Nat /\ Len(ts) \in 0..Len(ts)
  BY SizesAre
<1>2. file \in Seq(Fields) /\ Len(file) = Offset(ts, Len(ts))
  BY <1>1, FieldsToTyping DEF FileOf
<1>3. ASSUME NEW n \in 1..Len(ts)
      PROVE  /\ file[Offset(ts, n-1) + 1] = [state |-> "year", year |-> ts[n][1].year]
             /\ \A k \in 1..Len(ts[n]) :
                  file[Offset(ts, n-1) + (k + 1)] = PointField(ts[n][k], b)
             /\ file[Offset(ts, n-1) + (Len(ts[n]) + 2)] = End
  <2>1. ts[n] \in Seq(Points) /\ ts[n] # <<>> /\ Len(ts[n]) \in Nat /\ Len(ts[n]) >= 1
    BY SizesAre
  <2>2. \A m \in 1..(Len(ts[n]) + 2) :
            file[Offset(ts, n-1) + m] = TrackFields(ts[n], b)[m]
    BY FieldsToAt
  <2>3. /\ TrackFields(ts[n], b)[1] = [state |-> "year", year |-> ts[n][1].year]
        /\ \A k \in 1..Len(ts[n]) : TrackFields(ts[n], b)[k + 1] = PointField(ts[n][k], b)
        /\ TrackFields(ts[n], b)[Len(ts[n]) + 2] = End
    BY <2>1, TrackFieldsAre
  <2>4. /\ 1 \in 1..(Len(ts[n]) + 2) /\ Len(ts[n]) + 2 \in 1..(Len(ts[n]) + 2)
        /\ \A k \in 1..Len(ts[n]) : k + 1 \in 1..(Len(ts[n]) + 2)
    BY <2>1
  <2> QED
    BY <2>2, <2>3, <2>4
<1> QED
  BY <1>2, <1>3

\* The points of a file are those of its tracks.
LEMMA FilePoints ==
    ASSUME NEW ts \in TrackLists, NEW b \in Theatres, NEW file, file = FileOf(ts, b)
    PROVE  /\ \A j \in DOMAIN file : IsPoint(file[j]) =>
                \E n \in 1..Len(ts) : \E k \in 1..Len(ts[n]) : file[j] = PointField(ts[n][k], b)
           /\ \A n \in 1..Len(ts) : \A k \in 1..Len(ts[n]) :
                \E j \in DOMAIN file : IsPoint(file[j]) /\ file[j] = PointField(ts[n][k], b)
<1>1. file \in Seq(Fields) /\ Len(file) = Offset(ts, Len(ts)) /\ DOMAIN file = 1..Offset(ts, Len(ts))
  <2>1. file \in Seq(Fields) /\ Len(file) = Offset(ts, Len(ts))
    BY FileFields
  <2> QED
    BY <2>1
<1>2. ASSUME NEW j \in DOMAIN file, IsPoint(file[j])
      PROVE  \E n \in 1..Len(ts) : \E k \in 1..Len(ts[n]) : file[j] = PointField(ts[n][k], b)
  <2>1. PICK n \in 1..Len(ts) : \E m \in 1..(Len(ts[n]) + 2) : j = Offset(ts, n-1) + m
    BY <1>1, SizesAre
  <2>2. PICK m \in 1..(Len(ts[n]) + 2) : j = Offset(ts, n-1) + m
    BY <2>1
  <2>3. ts[n] \in Seq(Points) /\ ts[n] # <<>> /\ Len(ts[n]) \in Nat /\ Len(ts[n]) >= 1
    BY SizesAre
  <2>0. /\ file[Offset(ts, n-1) + 1] = [state |-> "year", year |-> ts[n][1].year]
        /\ \A k \in 1..Len(ts[n]) :
              file[Offset(ts, n-1) + (k + 1)] = PointField(ts[n][k], b)
        /\ file[Offset(ts, n-1) + (Len(ts[n]) + 2)] = End
    BY FileFields
  <2>4. CASE m = 1
    <3>1. ts[n][1].year \in Nat
      BY <2>3, PointTyping
    <3> QED
      BY <1>2, <2>0, <2>2, <2>4, <3>1, YearsAndEnds
  <2>5. CASE m = Len(ts[n]) + 2
    BY <1>2, <2>0, <2>2, <2>5, YearsAndEnds
  <2>6. CASE m # 1 /\ m # Len(ts[n]) + 2
    <3>1. m - 1 \in 1..Len(ts[n]) /\ (m - 1) + 1 = m
      BY <2>3, <2>6
    <3>2. file[j] = PointField(ts[n][m-1], b)
      BY <2>0, <2>2, <3>1
    <3> QED
      BY <3>1, <3>2
  <2> QED
    BY <2>4, <2>5, <2>6
<1>3. ASSUME NEW n \in 1..Len(ts), NEW k \in 1..Len(ts[n])
      PROVE  \E j \in DOMAIN file : IsPoint(file[j]) /\ file[j] = PointField(ts[n][k], b)
  <2>1. ts[n] \in Seq(Points) /\ ts[n][k] \in Points /\ Len(ts[n]) \in Nat
    BY SizesAre
  <2>2. file[Offset(ts, n-1) + (k + 1)] = PointField(ts[n][k], b)
    BY FileFields
  <2>3. Offset(ts, n-1) + (k + 1) \in DOMAIN file
    <3>1. Len(ts) \in Nat
      BY SizesAre
    <3>2. n - 1 \in 0..Len(ts) /\ n \in 0..Len(ts)
      BY <3>1
    <3>3. /\ Offset(ts, n-1) \in Nat /\ Offset(ts, n) \in Nat
          /\ Offset(ts, n) <= Offset(ts, Len(ts))
      BY <3>2, SizesAre
    <3>4. Offset(ts, n) = Offset(ts, n-1) + Len(ts[n]) + 2 /\ Len(ts) \in 0..Len(ts)
      BY <3>1, SizesAre
    <3>5. Offset(ts, Len(ts)) \in Nat
      BY <3>4, SizesAre
    <3>6. PICK before, after, whole, size :
            /\ before = Offset(ts, n-1) /\ after = Offset(ts, n)
            /\ whole = Offset(ts, Len(ts)) /\ size = Len(ts[n])
      OBVIOUS
    <3>7. /\ before \in Nat /\ after \in Nat /\ whole \in Nat /\ size \in Nat
          /\ after <= whole /\ after = before + size + 2 /\ k \in 1..size
      BY <2>1, <3>3, <3>4, <3>5, <3>6
    <3>8. before + (k + 1) \in 1..whole
      BY <3>7
    <3> QED
      BY <1>1, <3>6, <3>8
  <2>4. IsPoint(PointField(ts[n][k], b))
    BY <2>1, PointFieldIs
  <2> QED
    BY <2>2, <2>3, <2>4
<1> QED
  BY <1>2, <1>3

-----------------------------------------------------------------------------
(* build_cyclones.main writes the theatres' files and reads them back      *)

\* What the conversion leaves: tracks that go from observation to observation,
\* with all of them.
LEMMA Converted ==
    ASSUME ConvertInv, pc \notin {"read", "split"}, NEW b \in Theatres
    PROVE  /\ tracks[b] \in TrackLists /\ KeptPoints \subseteq Points
           /\ \A n \in 1..Len(tracks[b]) : \A k \in 1..Len(tracks[b][n]) :
                /\ tracks[b][n][k] \in KeptPoints /\ tracks[b][n][k].basin = b
                /\ k > 1 => <<tracks[b][n][k-1], tracks[b][n][k]>> \in PairsOf(b)
           /\ \A p \in KeptPoints : p.basin = b =>
                \E n \in 1..Len(tracks[b]) : \E k \in 1..Len(tracks[b][n]) : tracks[b][n][k] = p
           /\ \A pq \in PairsOf(b) :
                \E n \in 1..Len(tracks[b]) : \E k \in 2..Len(tracks[b][n]) :
                    tracks[b][n][k-1] = pq[1] /\ tracks[b][n][k] = pq[2]
           /\ LinkTotal(tracks[b]) = Cardinality(FollowsIn(b))
<1> DEFINE ts == tracks[b]
<1>0. ConvertTypes /\ TracksHold /\ LinksCounted /\ Archive
  BY DEF ConvertInv, ConvertTypes
<1>1. current = <<>> /\ \A p : Placed(p)
  BY <1>0 DEF ConvertTypes, Placed
<1>2. Collected(b) = {ts[n] : n \in 1..Len(ts)}
  BY <1>1 DEF Collected
<1>3. \A n \in 1..Len(ts) : IsTrack(ts[n], b)
  BY <1>0, <1>2 DEF TracksHold
<1>4. KeptPoints \subseteq Points
  BY <1>0, KeptRows
<1>5. ts \in TrackLists
  <2>1. ts \in Seq(Seq(KeptPoints))
    BY <1>0 DEF ConvertTypes
  <2>2. ts \in Seq(Seq(Points))
    <3>1. Len(ts) \in Nat /\ ts \in [1..Len(ts) -> Seq(KeptPoints)]
      BY <2>1
    <3>2. ASSUME NEW t \in Seq(KeptPoints) PROVE t \in Seq(Points)
      <4>1. Len(t) \in Nat /\ t \in [1..Len(t) -> KeptPoints]
        OBVIOUS
      <4>2. t \in [1..Len(t) -> Points]
        BY <1>4, <4>1
      <4> QED
        BY <4>1, <4>2
    <3>3. ts \in [1..Len(ts) -> Seq(Points)]
      BY <3>1, <3>2
    <3> QED
      BY <3>1, <3>3
  <2>3. \A n \in 1..Len(ts) : ts[n] # <<>>
    BY <1>3 DEF IsTrack
  <2> QED
    BY <2>2, <2>3 DEF TrackLists
<1>6. ASSUME NEW n \in 1..Len(ts), NEW k \in 1..Len(ts[n])
      PROVE  /\ ts[n][k] \in KeptPoints /\ ts[n][k].basin = b
             /\ k > 1 => <<ts[n][k-1], ts[n][k]>> \in PairsOf(b)
  <2>1. /\ ts[n] \in Seq(KeptPoints) /\ \A j \in 1..Len(ts[n]) : ts[n][j].basin = b
        /\ \A j \in 2..Len(ts[n]) : Adjacent(ts[n][j-1], ts[n][j])
    BY <1>3 DEF IsTrack
  <2>2. Len(ts[n]) \in Nat /\ \A j \in 1..Len(ts[n]) : ts[n][j] \in KeptPoints
    BY <2>1
  <2>3. k > 1 => k \in 2..Len(ts[n]) /\ k - 1 \in 1..Len(ts[n])
    BY <2>2
  <2> QED
    BY <2>1, <2>2, <2>3 DEF PairsOf
<1>7. ASSUME NEW p \in KeptPoints, p.basin = b
      PROVE  \E n \in 1..Len(ts) : \E k \in 1..Len(ts[n]) : ts[n][k] = p
  <2>1. PICK t \in Collected(b) : \E k \in 1..Len(t) : t[k] = p
    BY <1>0, <1>1, <1>7 DEF TracksHold
  <2> QED
    BY <1>2, <2>1
<1>8. ASSUME NEW pq \in PairsOf(b)
      PROVE  \E n \in 1..Len(ts) : \E k \in 2..Len(ts[n]) : ts[n][k-1] = pq[1] /\ ts[n][k] = pq[2]
  <2>1. PICK t \in Collected(b) : \E k \in 2..Len(t) : t[k-1] = pq[1] /\ t[k] = pq[2]
    BY <1>0, <1>1 DEF TracksHold
  <2> QED
    BY <1>2, <2>1
<1>9. LinkTotal(ts) = Cardinality(FollowsIn(b))
  <2>1. PlacedPairs(b) = PairsOf(b)
    BY <1>1 DEF PlacedPairs
  <2>2. LinksOf(b) = LinkTotal(ts) + 0
    BY <1>1 DEF LinksOf
  <2>3. LinkTotal(ts) \in Nat
    <3>1. ts \in Seq(Seq(Points)) /\ \A n \in 1..Len(ts) : ts[n] # <<>>
      BY <1>5 DEF TrackLists
    <3> QED
      BY <3>1, LinkTotalNat
  <2> QED
    BY <1>0, <2>1, <2>2, <2>3, PairsCounted DEF LinksCounted
<1> QED
  BY <1>4, <1>5, <1>6, <1>7, <1>8, <1>9

\* A theatre whose file was written, and one whose file was read back.
Written(b) ==
    /\ files[b] = FileOf(tracks[b], b)
    /\ \A n \in DOMAIN tracks[b] : Encodable(tracks[b][n])

Verified(b) ==
    /\ Written(b) /\ tracks[b] # <<>>
    /\ \A n \in 1..Len(tracks[b]) : \A k \in 1..Len(tracks[b][n]) : InRange(tracks[b][n][k])

FilesInv ==
    /\ theatre \in 1..Len(OutputBasins)
    /\ files \in [Theatres -> Seq(Fields)]
    /\ pc \in {"read", "split"} => theatre = 1
    /\ pc \in {"write", "verify"} => \A n \in 1..(theatre - 1) : Verified(OutputBasins[n])
    /\ pc = "verify" => Written(OutputBasins[theatre])
    /\ pc = "done" => \A b \in Theatres : Verified(b)
    /\ pc = "failed" => BuildFails

Skips(p, q) == q.year > p.year + 1 \/ (q.year = p.year + 1 /\ q.month >= p.month)

\* What the encoder refuses is a storm that skips a year.
LEMMA EncodableIs ==
    ASSUME ConvertInv, pc \notin {"read", "split"}, NEW b \in Theatres,
           NEW n \in 1..Len(tracks[b])
    PROVE  Encodable(tracks[b][n]) <=>
              \A k \in 2..Len(tracks[b][n]) : ~Skips(tracks[b][n][k-1], tracks[b][n][k])
<1>0. PICK t : t = tracks[b][n]
  OBVIOUS
<1>1. t \in Seq(Points) /\ Len(t) \in Nat
  BY <1>0, Converted, SizesAre
<1>2. ASSUME NEW k \in 2..Len(t)
      PROVE  ~Skips(t[k-1], t[k]) <=>
                \/ t[k].year = t[k-1].year
                \/ t[k].year = t[k-1].year + 1 /\ t[k].month < t[k-1].month
  <2>1. k \in 1..Len(t) /\ k - 1 \in 1..Len(t) /\ k > 1
    BY <1>1
  <2>2. t[k] \in Points /\ t[k-1] \in Points
    BY <1>1, <2>1
  <2>3. <<t[k-1], t[k]>> \in PairsOf(b)
    BY <1>0, <2>1, Converted
  <2>4. Stamp(t[k-1]) < Stamp(t[k])
    BY <2>3 DEF PairsOf, Adjacent
  <2>5. PICK p, q : p = t[k-1] /\ q = t[k]
    OBVIOUS
  <2>6. /\ p.year \in Nat /\ q.year \in Nat /\ p.month \in 1..12 /\ q.month \in 1..12
        /\ p.year <= q.year
    <3>1. p \in Points /\ q \in Points /\ Stamp(p) < Stamp(q)
      BY <2>2, <2>4, <2>5
    <3> QED
      BY <3>1, PointTyping, PointOrder
  <2>7. ~Skips(p, q) <=> q.year = p.year \/ (q.year = p.year + 1 /\ q.month < p.month)
    <3>1. p.month \in Int /\ q.month \in Int
      BY <2>6
    <3> QED
      BY <2>6, <3>1 DEF Skips
  <2> QED
    BY <2>5, <2>7
<1> QED
  BY <1>0, <1>2 DEF Encodable

LEMMA FilesBegin == Init => FilesInv
<1> SUFFICES ASSUME Init PROVE FilesInv
  OBVIOUS
<1>1. files \in [Theatres -> Seq(Fields)]
  BY DEF Init
<1>2. theatre = 1 /\ pc = "read" /\ 1 \in 1..Len(OutputBasins)
  BY TheatresAre DEF Init
<1> QED
  BY <1>1, <1>2 DEF FilesInv

LEMMA ConversionFiles ==
    ASSUME FilesInv, UNCHANGED <<theatre, files>>, pc \in {"read", "split"},
           pc' \in {"read", "split", "write"}
    PROVE  FilesInv'
<1>1. theatre = 1 /\ 1..(theatre - 1) = {}
  BY DEF FilesInv
<1> QED
  BY <1>1 DEF FilesInv

LEMMA WriteTheatreFiles ==
    ASSUME ConvertInv, FilesInv, WriteTheatre
    PROVE  FilesInv' /\ ConvertInv'
<1> DEFINE b == OutputBasins[theatre]
<1>1. /\ pc = "write" /\ UNCHANGED source /\ UNCHANGED conversion /\ theatre' = theatre
      /\ input' = input /\ tracks' = tracks
  BY DEF WriteTheatre, source, conversion
<1>2. theatre \in 1..Len(OutputBasins) /\ b \in Theatres /\ theatre \in Nat
  BY TheatresAre DEF FilesInv
<1>3. /\ tracks[b] \in TrackLists /\ Len(tracks[b]) \in Nat /\ DOMAIN tracks[b] = 1..Len(tracks[b])
  <2>1. tracks[b] \in TrackLists
    BY <1>1, <1>2, Converted
  <2> QED
    BY <2>1 DEF TrackLists
<1>4. PICK c : c = b
  OBVIOUS
<1>5. CASE \A k \in DOMAIN tracks[b] : Encodable(tracks[b][k])
  <2>1. files' = [files EXCEPT ![c] = FileOf(tracks[c], c)] /\ pc' = "verify"
    BY <1>4, <1>5 DEF WriteTheatre
  <2>2. FileOf(tracks[c], c) \in Seq(Fields)
    BY <1>2, <1>3, <1>4, FileFields
  <2>3. files \in [Theatres -> Seq(Fields)]
    BY DEF FilesInv
  <2> HIDE DEF b
  <2>4. files' \in [Theatres -> Seq(Fields)] /\ files'[c] = FileOf(tracks[c], c)
        /\ \A d \in Theatres : d # c => files'[d] = files[d]
    BY <1>2, <1>4, <2>1, <2>2, <2>3
  <2>5. \A d \in Theatres : Written(d) \/ d = c => Written(d)'
    BY <1>1, <1>4, <1>5, <2>4 DEF Written
  <2>6. \A d \in Theatres : Verified(d) => Verified(d)'
    BY <1>1, <2>5 DEF Verified
  <2>7. \A n \in 1..(theatre - 1) : Verified(OutputBasins[n])'
    <3>1. \A n \in 1..(theatre - 1) : Verified(OutputBasins[n]) /\ OutputBasins[n] \in Theatres
      BY <1>1, <1>2, TheatresAre DEF FilesInv
    <3> QED
      BY <2>6, <3>1
  <2>8. Written(OutputBasins[theatre])'
    BY <1>1, <1>2, <1>4, <2>5 DEF b
  <2>9. FilesInv'
    BY <1>1, <1>2, <2>1, <2>4, <2>7, <2>8 DEF FilesInv
  <2> QED
    BY <1>1, <2>1, <2>9, ConvertStays
<1>6. CASE ~(\A k \in DOMAIN tracks[b] : Encodable(tracks[b][k]))
  <2>1. files' = files /\ pc' = "failed"
    BY <1>6 DEF WriteTheatre
  <2>2. PICK n \in 1..Len(tracks[b]) : ~Encodable(tracks[b][n])
    BY <1>3, <1>6
  <2>3. PICK k \in 2..Len(tracks[b][n]) : Skips(tracks[b][n][k-1], tracks[b][n][k])
    BY <1>1, <1>2, <2>2, EncodableIs
  <2>4. k \in 1..Len(tracks[b][n]) /\ k > 1
    BY <1>3, <2>3, SizesAre
  <2>5. <<tracks[b][n][k-1], tracks[b][n][k]>> \in PairsOf(b)
    BY <1>1, <1>2, <2>4, Converted
  <2>6. BuildFails
    <3>1. PICK pq : pq = <<tracks[b][n][k-1], tracks[b][n][k]>>
      OBVIOUS
    <3>2. pq \in PairsOf(b) /\ Skips(pq[1], pq[2])
      BY <2>3, <2>5, <3>1
    <3>3. Archive
      BY DEF ConvertInv, ConvertTypes
    <3> QED
      BY <1>2, <3>2, <3>3, FailsByPoints DEF Skips
  <2>7. BuildFails'
    BY <1>1, <2>6, ArchiveStays
  <2>8. FilesInv'
    BY <1>1, <2>1, <2>7 DEF FilesInv
  <2> QED
    BY <1>1, <2>1, <2>8, ConvertStays
<1> QED
  BY <1>5, <1>6

LEMMA VerifyTheatreFiles ==
    ASSUME ConvertInv, FilesInv, VerifyTheatre
    PROVE  FilesInv' /\ ConvertInv'
<1> DEFINE N == Len(OutputBasins)
<1>0. PICK b, file, points, good :
        /\ b = OutputBasins[theatre] /\ file = files[b]
        /\ points = {k \in DOMAIN file : IsPoint(file[k])}
        /\ good = (points # {} /\ \A k \in points : Decodable(file[k]))
  OBVIOUS
<1>1. /\ pc = "verify" /\ UNCHANGED source /\ UNCHANGED conversion /\ files' = files
      /\ input' = input /\ tracks' = tracks
      /\ theatre' = (IF good /\ theatre # N THEN theatre + 1 ELSE theatre)
      /\ pc' = (IF ~good THEN "failed" ELSE IF theatre = N THEN "done" ELSE "write")
  BY <1>0 DEF VerifyTheatre, source, conversion
<1>2. theatre \in 1..N /\ b \in Theatres /\ theatre \in Nat /\ N \in Nat
  BY <1>0, TheatresAre DEF FilesInv
<1>3. Written(b) /\ file = FileOf(tracks[b], b) /\ files \in [Theatres -> Seq(Fields)]
  BY <1>0, <1>1 DEF FilesInv, Written
<1>4. PICK ts : ts = tracks[b]
  OBVIOUS
<1>5. /\ ts \in TrackLists /\ Len(ts) \in Nat
      /\ \A n \in 1..Len(ts) : \A k \in 1..Len(ts[n]) : ts[n][k] \in KeptPoints /\ ts[n][k] \in Points
      /\ \A n \in 1..Len(ts) : Len(ts[n]) \in Nat /\ Len(ts[n]) >= 1
      /\ \A p \in KeptPoints : p.basin = b =>
            \E n \in 1..Len(ts) : \E k \in 1..Len(ts[n]) : ts[n][k] = p
  <2>1. pc \notin {"read", "split"}
    BY <1>1
  <2>2. /\ tracks[b] \in TrackLists /\ KeptPoints \subseteq Points
        /\ \A n \in 1..Len(tracks[b]) : \A k \in 1..Len(tracks[b][n]) :
            tracks[b][n][k] \in KeptPoints
        /\ \A p \in KeptPoints : p.basin = b =>
            \E n \in 1..Len(tracks[b]) : \E k \in 1..Len(tracks[b][n]) : tracks[b][n][k] = p
    BY <1>2, <2>1, Converted
  <2>3. ts \in TrackLists
    BY <1>4, <2>2
  <2>4. Len(ts) \in Nat /\ \A n \in 1..Len(ts) : Len(ts[n]) \in Nat /\ Len(ts[n]) >= 1
    BY <2>3, SizesAre
  <2> QED
    BY <1>4, <2>2, <2>3, <2>4
<1>6. /\ \A j \in points : \E n \in 1..Len(ts) : \E k \in 1..Len(ts[n]) : file[j] = PointField(ts[n][k], b)
      /\ \A n \in 1..Len(ts) : \A k \in 1..Len(ts[n]) : \E j \in points : file[j] = PointField(ts[n][k], b)
  <2>1. file = FileOf(ts, b)
    BY <1>3, <1>4
  <2>2. \A j \in DOMAIN file : IsPoint(file[j]) =>
            \E n \in 1..Len(ts) : \E k \in 1..Len(ts[n]) : file[j] = PointField(ts[n][k], b)
    BY <1>2, <1>5, <2>1, FilePoints
  <2>3. \A n \in 1..Len(ts) : \A k \in 1..Len(ts[n]) :
            \E j \in DOMAIN file : IsPoint(file[j]) /\ file[j] = PointField(ts[n][k], b)
    BY <1>2, <1>5, <2>1, FilePoints
  <2> QED
    BY <1>0, <2>2, <2>3
<1>7. \A d \in Theatres : (Written(d)' <=> Written(d)) /\ (Verified(d)' <=> Verified(d))
  BY <1>1 DEF Written, Verified
<1>8. ASSUME good PROVE Verified(b)
  <2>1. ts # <<>>
    <3>1. PICK j \in points : TRUE
      BY <1>0, <1>8
    <3>2. PICK n \in 1..Len(ts) : TRUE
      BY <1>6
    <3> QED
      BY <3>2
  <2>2. ASSUME NEW n \in 1..Len(ts), NEW k \in 1..Len(ts[n]) PROVE InRange(ts[n][k])
    <3>1. PICK j \in points : file[j] = PointField(ts[n][k], b)
      BY <1>6
    <3>2. Decodable(file[j])
      BY <1>0, <1>8
    <3> QED
      BY <1>5, <3>1, <3>2, PointFieldIs
  <2> QED
    BY <1>3, <1>4, <2>1, <2>2 DEF Verified
<1>9. ASSUME ~good PROVE BuildFails
  <2>0. Archive
    BY DEF ConvertInv, ConvertTypes
  <2>1. CASE points = {}
    <3>1. \A p \in KeptPoints : p.basin # b
      BY <1>5, <1>6, <2>1
    <3> QED
      BY <1>2, <2>0, <3>1, FailsByPoints
  <2>2. CASE points # {}
    <3>1. PICK j \in points : ~Decodable(file[j])
      BY <1>0, <1>9, <2>2
    <3>2. PICK n \in 1..Len(ts) : \E k \in 1..Len(ts[n]) : file[j] = PointField(ts[n][k], b)
      BY <1>6
    <3>3. PICK k \in 1..Len(ts[n]) : file[j] = PointField(ts[n][k], b)
      BY <3>2
    <3>4. ts[n][k] \in KeptPoints /\ ts[n][k] \in Points /\ ~InRange(ts[n][k])
      BY <1>5, <3>1, <3>3, PointFieldIs
    <3>5. ts[n][k].lat = -900 \/ ts[n][k].lat = 900
      <4>1. ts[n][k].lat \in Int /\ -900 <= ts[n][k].lat /\ ts[n][k].lat <= 900
        BY <3>4, PointTyping
      <4> QED
        BY <3>4, <4>1 DEF InRange
    <3> QED
      BY <2>0, <3>4, <3>5, FailsByPoints
  <2> QED
    BY <2>1, <2>2
<1>10. CASE ~good
  <2>1. pc' = "failed" /\ theatre' = theatre /\ BuildFails'
    BY <1>1, <1>9, <1>10, ArchiveStays
  <2>2. FilesInv'
    BY <1>1, <1>2, <1>3, <2>1 DEF FilesInv
  <2> QED
    BY <1>1, <2>1, <2>2, ConvertStays
<1>11. CASE good
  <2>1. \A n \in 1..theatre : OutputBasins[n] \in Theatres /\ Verified(OutputBasins[n])
    <3>1. ASSUME NEW n \in 1..theatre PROVE Verified(OutputBasins[n])
      <4>1. n = theatre \/ n \in 1..(theatre - 1)
        BY <1>2
      <4> QED
        BY <1>0, <1>1, <1>8, <1>11, <4>1 DEF FilesInv
    <3>2. \A n \in 1..theatre : n \in 1..N
      BY <1>2
    <3> QED
      BY <3>1, <3>2, TheatresAre
  <2>2. CASE theatre = N
    <3>1. pc' = "done" /\ theatre' = theatre
      BY <1>1, <1>11, <2>2
    <3>2. \A d \in Theatres : Verified(d)'
      <4>1. \A d \in Theatres : \E n \in 1..N : d = OutputBasins[n]
        BY TheatresAre DEF Theatres
      <4> QED
        BY <1>7, <2>1, <2>2, <4>1
    <3>3. FilesInv'
      BY <1>1, <1>2, <1>3, <3>1, <3>2 DEF FilesInv
    <3> QED
      BY <1>1, <3>1, <3>3, ConvertStays
  <2>3. CASE theatre # N
    <3>1. pc' = "write" /\ theatre' = theatre + 1 /\ theatre + 1 \in 1..N
      BY <1>1, <1>2, <1>11, <2>3
    <3>2. theatre' - 1 = theatre
      BY <1>2, <3>1
    <3>3. \A n \in 1..(theatre' - 1) : Verified(OutputBasins[n])'
      BY <1>7, <2>1, <3>2
    <3>4. FilesInv'
      BY <1>1, <1>2, <1>3, <3>1, <3>3 DEF FilesInv
    <3> QED
      BY <1>1, <3>1, <3>4, ConvertStays
  <2> QED
    BY <2>2, <2>3
<1> QED
  BY <1>10, <1>11

\* What the plugin does leaves the build as it is.
LEMMA PluginLeavesFiles ==
    ASSUME ConvertInv, FilesInv, UNCHANGED <<source, conversion, pc, theatre, files>>, pc = "done"
    PROVE  FilesInv' /\ ConvertInv'
<1>1. UNCHANGED source /\ UNCHANGED conversion /\ tracks' = tracks /\ files' = files
      /\ theatre' = theatre /\ pc' = pc
  BY DEF conversion
<1>2. \A d \in Theatres : Verified(d)' <=> Verified(d)
  BY <1>1 DEF Written, Verified
<1>3. FilesInv'
  BY <1>1, <1>2 DEF FilesInv
<1> QED
  BY <1>1, <1>3, ConvertStays

\* A build that is done had an archive without faults.
LEMMA DoneMeansSound ==
    ASSUME ConvertInv, FilesInv, pc = "done"
    PROVE  ~BuildFails
<1>0. Archive /\ KeptPoints \subseteq Points
  BY KeptRows DEF ConvertInv, ConvertTypes
<1>1. ASSUME NEW b \in Theatres
      PROVE  /\ Verified(b) /\ Written(b) /\ Len(tracks[b]) \in Nat /\ 1 \in 1..Len(tracks[b])
             /\ DOMAIN tracks[b] = 1..Len(tracks[b])
  <2>1. Verified(b) /\ tracks[b] \in TrackLists /\ tracks[b] # <<>>
    BY Converted DEF FilesInv, Verified
  <2>2. tracks[b] \in Seq(Seq(Points))
    BY <2>1 DEF TrackLists
  <2> QED
    BY <2>1, <2>2 DEF Verified
<1>2. ASSUME NEW b \in Theatres PROVE \E p \in KeptPoints : p.basin = b
  <2>1. Len(tracks[b][1]) >= 1 /\ Len(tracks[b][1]) \in Nat
    BY <1>1, Converted, SizesAre
  <2>2. 1 \in 1..Len(tracks[b][1])
    BY <2>1
  <2>3. \A n \in 1..Len(tracks[b]) : \A k \in 1..Len(tracks[b][n]) :
            tracks[b][n][k] \in KeptPoints /\ tracks[b][n][k].basin = b
    BY Converted
  <2>4. tracks[b][1][1] \in KeptPoints /\ tracks[b][1][1].basin = b
    BY <1>1, <2>2, <2>3
  <2> QED
    BY <2>4
<1>3. ASSUME NEW p \in KeptPoints PROVE p.lat # -900 /\ p.lat # 900
  <2>1. p.basin \in Theatres /\ p.lat \in Int
    BY <1>0, PointTyping
  <2>2. PICK n \in 1..Len(tracks[p.basin]) :
            \E k \in 1..Len(tracks[p.basin][n]) : tracks[p.basin][n][k] = p
    BY <2>1, Converted
  <2>3. InRange(p)
    BY <1>1, <2>1, <2>2 DEF Verified
  <2> QED
    BY <2>1, <2>3 DEF InRange
<1>4. ASSUME NEW b \in Theatres, NEW pq \in PairsOf(b) PROVE ~Skips(pq[1], pq[2])
  <2>1. PICK n \in 1..Len(tracks[b]) :
            \E k \in 2..Len(tracks[b][n]) : tracks[b][n][k-1] = pq[1] /\ tracks[b][n][k] = pq[2]
    BY Converted
  <2>2. PICK k \in 2..Len(tracks[b][n]) : tracks[b][n][k-1] = pq[1] /\ tracks[b][n][k] = pq[2]
    BY <2>1
  <2>3. Encodable(tracks[b][n])
    BY <1>1 DEF Written
  <2>4. ~Skips(tracks[b][n][k-1], tracks[b][n][k])
    BY <2>3, EncodableIs
  <2> QED
    BY <2>2, <2>4
<1> QED
  BY <1>0, <1>2, <1>3, <1>4, FailsByPoints DEF Skips
-----------------------------------------------------------------------------
(* ReadCycloneData                                                         *)

Segments == {SegmentOf(p, q) : p \in Points, q \in Points}

SegmentsOf(t) == [k \in 1..(Len(t) - 1) |-> SegmentOf(t[k], t[k+1])]

Cursors ==
    [open : {TRUE}, basin : Theatres, rest : Seq(Fields), inTrack : BOOLEAN,
     lyear : Nat, llastmonth : Nat, last : Fields \cup {NoPoint}, lastyear : Nat,
     states : Seq(Segments)]

PluginTypes ==
    /\ got \in [Theatres -> Nat]
    /\ cyclones \in [Theatres -> Seq(Seq(Segments))]
    /\ result \in [Theatres -> {"unread", "read", "corrupted"}]
    /\ cursor = Closed \/ cursor \in Cursors

\* Nothing is read before the files are there.
PluginIdle ==
    /\ got = [b \in Theatres |-> 0]
    /\ cyclones = [b \in Theatres |-> <<>>]
    /\ result = [b \in Theatres |-> "unread"]
    /\ cursor = Closed

\* What is ahead of the reader is the file from where it is to where it ends.
Ahead(file, at, to) ==
    /\ at + Len(cursor.rest) = to
    /\ \A i \in 1..Len(cursor.rest) : cursor.rest[i] = file[at + i]

\* The reader has k points of a track.
AfterPoints(t, b, k) ==
    IF k = 0
    THEN /\ cursor.lyear = t[1].year /\ cursor.llastmonth = 0
         /\ cursor.last = NoPoint /\ cursor.states = <<>>
    ELSE /\ cursor.lyear = t[k].year /\ cursor.llastmonth = t[k].month
         /\ cursor.last = PointField(t[k], b) /\ cursor.lastyear = t[k].year
         /\ Len(cursor.states) = k - 1
         /\ \A i \in 1..(k - 1) : cursor.states[i] = SegmentOf(t[i], t[i+1])

InTrack(b, n, k) ==
    /\ AfterPoints(tracks[b][n + 1], b, k)
    /\ Ahead(files[b], Offset(tracks[b], n) + 1 + k, got[b])

BetweenTracks(b, n) == Ahead(files[b], Offset(tracks[b], n), got[b])

CursorHolds ==
    cursor.open =>
        LET b == cursor.basin
            n == Len(cyclones[b]) IN
        /\ result[b] = "unread"
        /\ IF cursor.inTrack
           THEN n < Len(tracks[b]) /\ \E k \in 0..Len(tracks[b][n + 1]) : InTrack(b, n, k)
           ELSE BetweenTracks(b, n)

ResultHolds(b) ==
    /\ got[b] <= Len(files[b])
    /\ Len(cyclones[b]) <= Len(tracks[b])
    /\ \A n \in 1..Len(cyclones[b]) : cyclones[b][n] = SegmentsOf(tracks[b][n])
    /\ result[b] = "unread" => cyclones[b] = <<>> \/ (cursor.open /\ cursor.basin = b)
    /\ result[b] = "read" => got[b] = Offset(tracks[b], Len(cyclones[b]))
    /\ result[b] = "corrupted" => got[b] < Len(files[b])

PluginInv ==
    /\ pc # "done" => PluginIdle
    /\ pc = "done" => PluginTypes /\ CursorHolds /\ \A b \in Theatres : ResultHolds(b)
\* The files of a build that is done.
LEMMA DoneFile ==
    ASSUME ConvertInv, FilesInv, pc = "done", NEW b \in Theatres,
           NEW ts, ts = tracks[b], NEW file, file = files[b]
    PROVE  /\ ts \in TrackLists /\ Len(ts) \in Nat /\ file = FileOf(ts, b)
           /\ file \in Seq(Fields) /\ Len(file) = Offset(ts, Len(ts)) /\ Len(file) \in Nat
           /\ \A n \in 1..Len(ts) :
                /\ ts[n] \in Seq(Points) /\ Len(ts[n]) \in Nat /\ Len(ts[n]) >= 1
                /\ Encodable(ts[n])
                /\ \A k \in 1..Len(ts[n]) : ts[n][k] \in Points /\ InRange(ts[n][k])
                /\ \A k \in 2..Len(ts[n]) : Stamp(ts[n][k-1]) < Stamp(ts[n][k])
<1>1. tracks[b] \in TrackLists /\ KeptPoints \subseteq Points
  BY Converted
<1>2. ts \in TrackLists
  BY <1>1
<1>3. Len(ts) \in Nat /\ \A n \in 1..Len(ts) :
            ts[n] \in Seq(Points) /\ Len(ts[n]) \in Nat /\ Len(ts[n]) >= 1
  BY <1>2, SizesAre
<1>4. Verified(b) /\ Written(b)
  BY DEF FilesInv, Verified
<1>5. file = FileOf(ts, b)
  BY <1>4 DEF Written
<1>6. file \in Seq(Fields) /\ Len(file) = Offset(ts, Len(ts))
  BY <1>2, <1>5, FileFields
<1>7. Len(file) \in Nat
  BY <1>6
<1>8. ASSUME NEW n \in 1..Len(ts)
      PROVE  /\ Encodable(ts[n])
             /\ \A k \in 1..Len(ts[n]) : ts[n][k] \in Points /\ InRange(ts[n][k])
             /\ \A k \in 2..Len(ts[n]) : Stamp(ts[n][k-1]) < Stamp(ts[n][k])
  <2>1. Encodable(ts[n])
    <3>1. n \in DOMAIN tracks[b]
      BY <1>2, <1>3 DEF TrackLists
    <3> QED
      BY <1>4, <3>1 DEF Written
  <2>2. \A k \in 1..Len(ts[n]) : InRange(ts[n][k])
    BY <1>4 DEF Verified
  <2>3. \A k \in 1..Len(ts[n]) : ts[n][k] \in Points
    BY <1>3
  <2>4. ASSUME NEW k \in 2..Len(ts[n]) PROVE Stamp(ts[n][k-1]) < Stamp(ts[n][k])
    <3>1. k \in 1..Len(ts[n]) /\ k > 1
      BY <1>3
    <3>2. <<tracks[b][n][k-1], tracks[b][n][k]>> \in PairsOf(b)
      BY <3>1, Converted
    <3> QED
      BY <3>2 DEF PairsOf, Adjacent
  <2> QED
    BY <2>1, <2>2, <2>3, <2>4
<1> QED
  BY <1>2, <1>3, <1>5, <1>6, <1>7, <1>8

\* Between two tracks the year of the next is ahead, or the end of the file.
LEMMA FieldBetween ==
    ASSUME NEW b \in Theatres, NEW ts \in TrackLists, NEW file, file = FileOf(ts, b),
           NEW n \in 0..Len(ts)
    PROVE  /\ Offset(ts, n) \in Nat /\ Offset(ts, n) <= Len(file)
           /\ n = Len(ts) => Offset(ts, n) = Len(file)
           /\ n < Len(ts) => /\ Offset(ts, n) < Len(file)
                             /\ Offset(ts, n + 1) = Offset(ts, n) + Len(ts[n+1]) + 2
                             /\ file[Offset(ts, n) + 1] =
                                    [state |-> "year", year |-> ts[n+1][1].year]
<1>1. Len(ts) \in Nat /\ Len(file) = Offset(ts, Len(ts))
  BY SizesAre, FileFields
<1>2. Offset(ts, n) \in Nat /\ Offset(ts, n) <= Offset(ts, Len(ts))
  BY SizesAre
<1>3. ASSUME n < Len(ts)
      PROVE  /\ Offset(ts, n) < Len(file)
             /\ Offset(ts, n + 1) = Offset(ts, n) + Len(ts[n+1]) + 2
             /\ file[Offset(ts, n) + 1] = [state |-> "year", year |-> ts[n+1][1].year]
  <2>1. PICK m : m = n + 1
    OBVIOUS
  <2>2. m \in 1..Len(ts) /\ m - 1 = n /\ m \in 0..Len(ts)
    BY <1>1, <1>3, <2>1
  <2>3. file[Offset(ts, m-1) + 1] = [state |-> "year", year |-> ts[m][1].year]
    BY <2>2, FileFields
  <2>4. Offset(ts, m) = Offset(ts, m-1) + Len(ts[m]) + 2 /\ Len(ts[m]) \in Nat
    BY <2>2, SizesAre
  <2>5. Offset(ts, m) \in Nat /\ Offset(ts, m) <= Offset(ts, Len(ts))
    BY <2>2, SizesAre
  <2> QED
    BY <1>1, <1>2, <2>1, <2>2, <2>3, <2>4, <2>5
<1> QED
  BY <1>1, <1>2, <1>3

\* In a track its next point is ahead, or its terminator.
LEMMA FieldInTrack ==
    ASSUME NEW b \in Theatres, NEW ts \in TrackLists, NEW file, file = FileOf(ts, b),
           NEW n \in Nat, n < Len(ts), NEW k \in 0..Len(ts[n+1])
    PROVE  /\ Offset(ts, n) + 1 + k \in Nat /\ Offset(ts, n) + 1 + k < Len(file)
           /\ k < Len(ts[n+1]) =>
                file[Offset(ts, n) + 1 + k + 1] = PointField(ts[n+1][k+1], b)
           /\ k = Len(ts[n+1]) =>
                /\ file[Offset(ts, n) + 1 + k + 1] = End
                /\ Offset(ts, n + 1) = Offset(ts, n) + 1 + k + 1
<1>1. Len(ts) \in Nat /\ Len(file) = Offset(ts, Len(ts))
  BY SizesAre, FileFields
<1>2. PICK m : m = n + 1
  OBVIOUS
<1>3. m \in 1..Len(ts) /\ m - 1 = n /\ m \in 0..Len(ts) /\ n \in 0..Len(ts)
  BY <1>1, <1>2
<1>4. Offset(ts, n) \in Nat
  BY <1>3, SizesAre
<1>5. Offset(ts, m) = Offset(ts, m-1) + Len(ts[m]) + 2 /\ Len(ts[m]) \in Nat
  BY <1>3, SizesAre
<1>6. Offset(ts, m) \in Nat /\ Offset(ts, m) <= Offset(ts, Len(ts))
  BY <1>3, SizesAre
<1>7. /\ \A i \in 1..Len(ts[m]) : file[Offset(ts, m-1) + (i + 1)] = PointField(ts[m][i], b)
      /\ file[Offset(ts, m-1) + (Len(ts[m]) + 2)] = End
  BY <1>3, FileFields
<1>8. PICK o : o = Offset(ts, n)
  OBVIOUS
<1>9. k \in Nat /\ o \in Nat /\ k <= Len(ts[m])
  BY <1>2, <1>4, <1>5, <1>8
<1>10. o + 1 + k \in Nat /\ o + 1 + k < Len(file)
  <2>1. PICK next_o, end : next_o = Offset(ts, m) /\ end = Len(file)
    OBVIOUS
  <2>2. next_o \in Nat /\ end \in Int /\ next_o <= end /\ next_o = o + Len(ts[m]) + 2
    <3>1. Len(ts) \in 0..Len(ts)
      BY <1>1
    <3>2. Offset(ts, Len(ts)) \in Nat
      BY <3>1, SizesAre
    <3> QED
      BY <1>1, <1>3, <1>5, <1>6, <1>8, <2>1, <3>2
  <2>3. PICK l : l = Len(ts[m])
    OBVIOUS
  <2>4. l \in Nat /\ k <= l /\ next_o = o + l + 2
    BY <1>5, <1>9, <2>2, <2>3
  <2>5. o + 1 + k \in Nat /\ o + 1 + k < end
    BY <1>9, <2>2, <2>4
  <2> QED
    BY <2>1, <2>5
<1>11. ASSUME k < Len(ts[m]) PROVE file[o + 1 + k + 1] = PointField(ts[m][k+1], b)
  <2>1. k + 1 \in 1..Len(ts[m]) /\ o + 1 + k + 1 = o + (k + 1 + 1)
    BY <1>5, <1>9, <1>11
  <2> QED
    BY <1>3, <1>7, <1>8, <2>1
<1>12. ASSUME k = Len(ts[m])
       PROVE  file[o + 1 + k + 1] = End /\ Offset(ts, m) = o + 1 + k + 1
  <2>1. o + 1 + k + 1 = o + (k + 2) /\ o + 1 + k + 1 = o + k + 2
    BY <1>9
  <2>2. file[o + (k + 2)] = End
    BY <1>3, <1>7, <1>8, <1>12
  <2>3. Offset(ts, m) = o + k + 2
    BY <1>3, <1>5, <1>8, <1>12
  <2> QED
    BY <2>1, <2>2, <2>3
<1> QED
  BY <1>2, <1>8, <1>10, <1>11, <1>12

\* A field that is read is the file's next, and the rest is after it.
Taken(r, file, at, to) ==
    /\ Head(r) = file[at + 1] /\ Head(r) \in Fields /\ at + 1 <= to
    /\ Tail(r) \in Seq(Fields) /\ at + 1 + Len(Tail(r)) = to
    /\ \A i \in 1..Len(Tail(r)) : Tail(r)[i] = file[at + 1 + i]

LEMMA AheadTail ==
    ASSUME NEW r \in Seq(Fields), r # <<>>, NEW at \in Nat, NEW to \in Nat, NEW file,
           at + Len(r) = to, \A i \in 1..Len(r) : r[i] = file[at + i]
    PROVE  Taken(r, file, at, to)
<1>1. Len(r) \in Nat /\ Len(r) >= 1 /\ Tail(r) \in Seq(Fields) /\ Len(Tail(r)) = Len(r) - 1
  OBVIOUS
<1>2. Head(r) = r[1] /\ 1 \in 1..Len(r) /\ r[1] \in Fields
  BY <1>1
<1>3. ASSUME NEW i \in 1..Len(Tail(r)) PROVE Tail(r)[i] = file[at + 1 + i]
  <2>1. i + 1 \in 1..Len(r) /\ at + (i + 1) = at + 1 + i
    BY <1>1
  <2>2. Tail(r)[i] = r[i + 1]
    BY <1>1
  <2> QED
    BY <2>1, <2>2
<1>4. Head(r) = file[at + 1] /\ Head(r) \in Fields
  BY <1>2
<1>5. at + 1 <= to /\ at + 1 + Len(Tail(r)) = to
  BY <1>1
<1> QED
  BY <1>1, <1>3, <1>4, <1>5, Zenon DEF Taken

\* The years come out as they went in.
LEMMA YearIs ==
    ASSUME NEW p \in Points, NEW q \in Points, Stamp(p) < Stamp(q),
           q.year = p.year \/ (q.year = p.year + 1 /\ q.month < p.month)
    PROVE  (IF q.month < p.month THEN p.year + 1 ELSE p.year) = q.year
<1>1. p.year \in Nat /\ q.year \in Nat /\ p.month \in Int /\ q.month \in Int
  BY PointTyping
<1>2. p.year = q.year => p.month <= q.month
  BY PointOrder
<1> QED
  BY <1>1, <1>2

\* So do the segments: the sign of the latitude is undone.
LEMMA SegmentIs ==
    ASSUME NEW p \in Points, NEW q \in Points, NEW b, b = cursor.basin,
           NEW f, f = PointField(p, b), NEW g, g = PointField(q, b)
    PROVE  Segment(f, p.year, g) = SegmentOf(p, q)
<1>1. /\ f.state = p.state /\ f.month = p.month /\ f.dayhour \div 4 = p.day
      /\ (f.dayhour % 4) * 6 = p.hour
      /\ f.lat = (IF b \in Southern THEN -p.lat ELSE p.lat) /\ f.lon = p.lon
      /\ f.wind = p.wind /\ f.pressure = p.pressure
  BY PointFieldIs
<1>2. g.lat = (IF b \in Southern THEN -q.lat ELSE q.lat) /\ g.lon = q.lon
  BY PointFieldIs
<1>3. p.lat \in Int /\ q.lat \in Int
  BY PointTyping
<1>4. Sign * f.lat = p.lat /\ Sign * g.lat = q.lat
  <2>1. CASE b \in Southern
    BY <1>1, <1>2, <1>3, <2>1 DEF Sign
  <2>2. CASE b \notin Southern
    BY <1>1, <1>2, <1>3, <2>2 DEF Sign
  <2> QED
    BY <2>1, <2>2
<1> QED
  BY <1>1, <1>2, <1>4 DEF Segment, SegmentOf
LEMMA PluginBegins == Init => PluginInv
<1> SUFFICES ASSUME Init PROVE PluginInv
  OBVIOUS
<1>1. pc = "read" /\ PluginIdle
  BY DEF Init, PluginIdle
<1> QED
  BY <1>1 DEF PluginInv

\* The plugin is idle while the files are made.
LEMMA BuildLeavesPlugin ==
    ASSUME PluginInv, pc # "done", UNCHANGED plugin
    PROVE  PluginInv'
<1>1. PluginIdle /\ UNCHANGED <<got, cursor, cyclones, result>>
  BY DEF PluginInv, plugin
<1>2. PluginIdle'
  BY <1>1 DEF PluginIdle
<1>3. ASSUME pc' = "done"
      PROVE  (PluginTypes /\ CursorHolds /\ \A b \in Theatres : ResultHolds(b))'
  <2>1. (~cursor.open)' /\ (cursor = Closed)'
    BY <1>2 DEF PluginIdle, Closed
  <2>2. PluginTypes'
    <3>1. got' \in [Theatres -> Nat] /\ cyclones' \in [Theatres -> Seq(Seq(Segments))]
          /\ result' \in [Theatres -> {"unread", "read", "corrupted"}]
      BY <1>2 DEF PluginIdle
    <3> QED
      BY <2>1, <3>1 DEF PluginTypes
  <2>3. CursorHolds'
    BY <2>1 DEF CursorHolds
  <2>4. ASSUME NEW b \in Theatres PROVE ResultHolds(b)'
    <3>1. got'[b] = 0 /\ cyclones'[b] = <<>> /\ result'[b] = "unread"
      BY <1>2 DEF PluginIdle
    <3>2. 1..Len(cyclones'[b]) = {} /\ Len(cyclones'[b]) = 0
      BY <3>1
    <3>3. 0 <= Len(files'[b]) /\ 0 <= Len(tracks'[b])
      OBVIOUS
    <3> QED
      BY <3>1, <3>2, <3>3 DEF ResultHolds
  <2> QED
    BY <2>2, <2>3, <2>4
<1> QED
  BY <1>2, <1>3 DEF PluginInv

\* What a step of the reader keeps is enough.
LEMMA ReaderKeeps ==
    ASSUME pc' = "done", PluginTypes', CursorHolds', \A b \in Theatres : ResultHolds(b)'
    PROVE  PluginInv'
  BY DEF PluginInv

\* The theatre the reader is at.
LEMMA ReaderIs ==
    ASSUME PluginInv, cursor.open
    PROVE  /\ pc = "done" /\ PluginTypes /\ CursorHolds /\ \A d \in Theatres : ResultHolds(d)
           /\ cursor \in Cursors /\ cursor.basin \in Theatres /\ cursor # Closed
           /\ result[cursor.basin] = "unread"
<1>1. cursor # Closed
  BY DEF Closed
<1>2. pc = "done"
  BY <1>1 DEF PluginInv, PluginIdle
<1>3. PluginTypes /\ CursorHolds /\ \A d \in Theatres : ResultHolds(d)
  BY <1>2 DEF PluginInv
<1>4. cursor \in Cursors
  BY <1>1, <1>3 DEF PluginTypes
<1>5. cursor.basin \in Theatres
  BY <1>4 DEF Cursors
<1> QED
  BY <1>1, <1>2, <1>3, <1>4, <1>5 DEF CursorHolds

\* A step of the reader that only moves it.
LEMMA ReaderMoves ==
    ASSUME PluginInv, cursor.open, cursor' \in Cursors, cursor'.basin = cursor.basin,
           UNCHANGED <<pc, tracks, files, got, cyclones, result>>, CursorHolds'
    PROVE  PluginInv'
<1>1. pc' = "done" /\ PluginTypes /\ \A d \in Theatres : ResultHolds(d)
  BY ReaderIs
<1>2. PluginTypes'
  BY <1>1 DEF PluginTypes
<1>3. cursor'.open
  BY DEF Cursors
<1>4. \A d \in Theatres : ResultHolds(d)'
  BY <1>1, <1>3 DEF ResultHolds
<1> QED
  BY <1>1, <1>2, <1>4, ReaderKeeps

LEMMA OpenReads ==
    ASSUME ConvertInv, FilesInv, PluginInv, NEW b \in Theatres, Open(b)
    PROVE  PluginInv'
<1>1. PICK ts, file : ts = tracks[b] /\ file = files[b]
  OBVIOUS
<1>2. /\ pc = "done" /\ ~cursor.open /\ result[b] = "unread"
      /\ UNCHANGED <<tracks, files, pc, cyclones, result>>
  BY DEF Open, conversion
<1>3. PICK n \in 0..Len(file) :
        /\ got' = [got EXCEPT ![b] = n]
        /\ cursor' = [open |-> TRUE, basin |-> b, rest |-> SubSeq(file, 1, n),
                      inTrack |-> FALSE, lyear |-> 0, llastmonth |-> 0, last |-> NoPoint,
                      lastyear |-> 0, states |-> <<>>]
  BY <1>1 DEF Open
<1>4. PluginTypes /\ (\A d \in Theatres : ResultHolds(d)) /\ cyclones[b] = <<>>
  BY <1>2 DEF PluginInv, ResultHolds
<1>5. /\ ts \in TrackLists /\ file \in Seq(Fields) /\ Len(file) \in Nat /\ n \in Nat /\ n <= Len(file)
  <2>1. ts \in TrackLists /\ file \in Seq(Fields) /\ Len(file) \in Nat
    BY <1>1, <1>2, DoneFile
  <2> QED
    BY <2>1
<1>6. PICK rest : rest = SubSeq(file, 1, n)
  OBVIOUS
<1>7. rest \in Seq(Fields) /\ Len(rest) = n /\ \A i \in 1..Len(rest) : rest[i] = file[i]
  BY <1>5, <1>6
<1>8. cursor' \in Cursors /\ cursor'.open /\ cursor'.basin = b /\ cursor'.rest = rest /\ cursor'.inTrack = FALSE
  <2>1. <<>> \in Seq(Segments)
    OBVIOUS
  <2> QED
    BY <1>3, <1>6, <1>7, <2>1 DEF Cursors
<1>9. /\ got' \in [Theatres -> Nat] /\ got'[b] = n
      /\ \A d \in Theatres : d # b => got'[d] = got[d]
  BY <1>3, <1>4, <1>5 DEF PluginTypes
<1>10. PluginTypes'
  BY <1>2, <1>4, <1>8, <1>9 DEF PluginTypes
<1>11. Offset(ts, 0) = 0
  BY <1>5, SizesAre
<1>12. CursorHolds'
  <2>1. Len(cyclones[b]) = 0
    BY <1>4
  <2>2. Ahead(file, 0, n)'
    <3>1. 0 + Len(rest) = n /\ \A i \in 1..Len(rest) : rest[i] = file[0 + i]
      BY <1>7
    <3> QED
      BY <1>8, <3>1 DEF Ahead
  <2>3. BetweenTracks(b, 0)'
    BY <1>1, <1>2, <1>9, <1>11, <2>2 DEF BetweenTracks
  <2> QED
    BY <1>2, <1>8, <2>1, <2>3 DEF CursorHolds
<1>13. \A d \in Theatres : ResultHolds(d)'
  <2> SUFFICES ASSUME NEW d \in Theatres PROVE ResultHolds(d)'
    OBVIOUS
  <2>1. ResultHolds(d)
    BY <1>4
  <2>2. CASE d # b
    <3>1. ~(cursor.open /\ cursor.basin = d)
      BY <1>2
    <3> QED
      BY <1>2, <1>9, <2>1, <2>2, <3>1 DEF ResultHolds
  <2>3. CASE d = b
    BY <1>1, <1>2, <1>4, <1>5, <1>9, <2>1, <2>3 DEF ResultHolds
  <2> QED
    BY <2>2, <2>3
<1> QED
  BY <1>2, <1>10, <1>12, <1>13, ReaderKeeps

LEMMA ReadYearReads ==
    ASSUME ConvertInv, FilesInv, PluginInv, ReadYear
    PROVE  PluginInv'
<1>1. PICK c, b, ts, file, n, to :
        /\ c = cursor /\ b = c.basin /\ ts = tracks[b] /\ file = files[b]
        /\ n = Len(cyclones[b]) /\ to = got[b]
  OBVIOUS
<1>2. /\ c.open /\ c.inTrack = FALSE /\ c.rest # <<>>
      /\ UNCHANGED <<pc, tracks, files, got, cyclones, result>>
  BY <1>1 DEF ReadYear, Reading, More, conversion
<1>3. /\ pc = "done" /\ PluginTypes /\ CursorHolds /\ \A d \in Theatres : ResultHolds(d)
      /\ c \in Cursors /\ b \in Theatres /\ result[b] = "unread"
  BY <1>1, <1>2, ReaderIs
<1>4. /\ ts \in TrackLists /\ Len(ts) \in Nat /\ file = FileOf(ts, b) /\ Len(file) \in Nat
      /\ \A i \in 1..Len(ts) : ts[i] \in Seq(Points) /\ Len(ts[i]) \in Nat /\ Len(ts[i]) >= 1
  BY <1>1, <1>3, DoneFile
<1>5. n \in Nat /\ n <= Len(ts) /\ n \in 0..Len(ts) /\ to \in Nat /\ to <= Len(file)
  <2>1. n \in Nat /\ to \in Nat
    BY <1>1, <1>3 DEF PluginTypes
  <2>2. n <= Len(ts) /\ to <= Len(file)
    BY <1>1, <1>3 DEF ResultHolds
  <2> QED
    BY <1>4, <2>1, <2>2
<1>6. PICK at : at = Offset(ts, n)
  OBVIOUS
<1>7. /\ at \in Nat /\ at <= Len(file) /\ (n = Len(ts) => at = Len(file))
      /\ n < Len(ts) => file[at + 1] = [state |-> "year", year |-> ts[n+1][1].year]
  BY <1>3, <1>4, <1>5, <1>6, FieldBetween
<1>8. PICK r : r = c.rest
  OBVIOUS
<1>9. r \in Seq(Fields) /\ r # <<>> /\ at + Len(r) = to /\ \A i \in 1..Len(r) : r[i] = file[at + i]
  <2>1. BetweenTracks(b, n)
    BY <1>1, <1>2, <1>3 DEF CursorHolds
  <2>2. r \in Seq(Fields)
    BY <1>3, <1>8 DEF Cursors
  <2> QED
    BY <1>1, <1>2, <1>6, <1>8, <2>1, <2>2 DEF BetweenTracks, Ahead
<1>10. /\ Head(r) = file[at + 1] /\ at + 1 <= to
       /\ Tail(r) \in Seq(Fields) /\ at + 1 + Len(Tail(r)) = to
       /\ \A i \in 1..Len(Tail(r)) : Tail(r)[i] = file[at + 1 + i]
  BY <1>5, <1>7, <1>9, AheadTail DEF Taken
<1>11. n < Len(ts)
  BY <1>4, <1>5, <1>7, <1>10
<1>12. PICK t, y : t = ts[n+1] /\ y = t[1].year
  OBVIOUS
<1>13. y \in Nat /\ Len(t) \in Nat /\ Head(r).year = y
  <2>1. n + 1 \in 1..Len(ts)
    BY <1>4, <1>5, <1>11
  <2>2. t \in Seq(Points) /\ Len(t) \in Nat /\ Len(t) >= 1
    BY <1>4, <1>12, <2>1
  <2>3. t[1] \in Points
    BY <2>2
  <2>4. t[1].year \in Nat
    BY <2>3, PointTyping
  <2>5. Head(r) = [state |-> "year", year |-> t[1].year]
    BY <1>7, <1>10, <1>11, <1>12
  <2> QED
    BY <1>12, <2>2, <2>4, <2>5
<1>14. cursor' = [c EXCEPT !.rest = Tail(r), !.inTrack = TRUE, !.lyear = y,
                           !.llastmonth = 0, !.last = NoPoint, !.states = <<>>]
  BY <1>1, <1>8, <1>13 DEF ReadYear, Field
<1>15. /\ cursor' \in Cursors /\ cursor'.basin = b /\ cursor'.open /\ cursor'.inTrack = TRUE
       /\ cursor'.rest = Tail(r) /\ cursor'.lyear = y /\ cursor'.llastmonth = 0
       /\ cursor'.last = NoPoint /\ cursor'.states = <<>>
  <2>1. <<>> \in Seq(Segments)
    OBVIOUS
  <2> QED
    BY <1>1, <1>3, <1>10, <1>13, <1>14, <2>1 DEF Cursors
<1>16. Ahead(file, at + 1 + 0, to)'
  BY <1>7, <1>10, <1>15 DEF Ahead
<1>17. AfterPoints(t, b, 0)'
  BY <1>12, <1>15 DEF AfterPoints
<1>18. InTrack(b, n, 0)'
  BY <1>1, <1>2, <1>6, <1>12, <1>16, <1>17 DEF InTrack
<1>19. CursorHolds'
  <2>1. 0 \in 0..Len(t)
    BY <1>13
  <2> QED
    BY <1>1, <1>2, <1>3, <1>11, <1>12, <1>15, <1>18, <2>1 DEF CursorHolds
<1> QED
  BY <1>1, <1>2, <1>15, <1>19, ReaderMoves
\* In a track what is ahead is its next point, or its terminator, or nothing.
NextIs(b, n, ts, t, file, to, r, k, at) ==
    /\ at \in Nat /\ at < Len(file)
    /\ r = <<>> => at = to
    /\ r # <<>> =>
        /\ k < Len(t) => Head(r) = PointField(t[k+1], b)
        /\ k = Len(t) => Head(r) = End /\ Offset(ts, n + 1) = at + 1
        /\ Tail(r) \in Seq(Fields) /\ at + 1 + Len(Tail(r)) = to
        /\ \A i \in 1..Len(Tail(r)) : Tail(r)[i] = file[at + 1 + i]

LEMMA NextInTrack ==
    ASSUME NEW b, NEW n, NEW ts, NEW t, NEW file, NEW k, NEW at \in Nat, NEW to \in Nat,
           NEW r \in Seq(Fields), at + Len(r) = to, at < Len(file),
           \A i \in 1..Len(r) : r[i] = file[at + i],
           k < Len(t) => file[at + 1] = PointField(t[k+1], b),
           k = Len(t) => file[at + 1] = End /\ Offset(ts, n + 1) = at + 1
    PROVE  NextIs(b, n, ts, t, file, to, r, k, at)
<1>1. r = <<>> => at = to
  <2> SUFFICES ASSUME r = <<>> PROVE at = to
    OBVIOUS
  <2>1. Len(r) = 0
    OBVIOUS
  <2> QED
    BY <2>1
<1>2. ASSUME r # <<>>
      PROVE  /\ Head(r) = file[at + 1]
             /\ Tail(r) \in Seq(Fields) /\ at + 1 + Len(Tail(r)) = to
             /\ \A i \in 1..Len(Tail(r)) : Tail(r)[i] = file[at + 1 + i]
  <2>1. Taken(r, file, at, to)
    BY <1>2, AheadTail, Zenon
  <2> QED
    BY <2>1, Zenon DEF Taken
<1> QED
  BY <1>1, <1>2 DEF NextIs

\* The place of a reader that is in a track.
InsideIs(b, n, ts, t, file, to, r) ==
    /\ b \in Theatres /\ n \in Nat /\ n < Len(ts) /\ Len(ts) \in Nat
    /\ t \in Seq(Points) /\ Len(t) \in Nat /\ Len(t) >= 1 /\ Encodable(t)
    /\ \A k \in 1..Len(t) : t[k] \in Points /\ InRange(t[k])
    /\ \A k \in 2..Len(t) : Stamp(t[k-1]) < Stamp(t[k])
    /\ to \in Nat /\ Len(file) \in Nat /\ Offset(ts, n) \in Nat
    /\ \E k \in 0..Len(t) : \E at \in Nat :
        /\ AfterPoints(t, b, k) /\ at = Offset(ts, n) + 1 + k
        /\ NextIs(b, n, ts, t, file, to, r, k, at)

LEMMA InsideATrack ==
    ASSUME ConvertInv, FilesInv, PluginInv, cursor.open, cursor.inTrack = TRUE
    PROVE  LET b == cursor.basin
               n == Len(cyclones[b]) IN
           InsideIs(b, n, tracks[b], tracks[b][n+1], files[b], got[b], cursor.rest)
<1>0. PICK b, n, ts, t, file, to, r :
        /\ b = cursor.basin /\ n = Len(cyclones[b]) /\ ts = tracks[b] /\ t = ts[n+1]
        /\ file = files[b] /\ to = got[b] /\ r = cursor.rest
  OBVIOUS
<1>1. /\ pc = "done" /\ PluginTypes /\ CursorHolds /\ \A d \in Theatres : ResultHolds(d)
      /\ cursor \in Cursors /\ b \in Theatres
  BY <1>0, ReaderIs
<1>2. /\ ts \in TrackLists /\ Len(ts) \in Nat /\ file = FileOf(ts, b) /\ Len(file) \in Nat
      /\ \A i \in 1..Len(ts) :
            /\ ts[i] \in Seq(Points) /\ Len(ts[i]) \in Nat /\ Len(ts[i]) >= 1
            /\ Encodable(ts[i])
            /\ \A k \in 1..Len(ts[i]) : ts[i][k] \in Points /\ InRange(ts[i][k])
            /\ \A k \in 2..Len(ts[i]) : Stamp(ts[i][k-1]) < Stamp(ts[i][k])
  BY <1>0, <1>1, DoneFile
<1>3. n \in Nat /\ to \in Nat /\ r \in Seq(Fields)
  BY <1>0, <1>1 DEF PluginTypes, Cursors
<1>4. n < Len(ts) /\ \E k \in 0..Len(t) : InTrack(b, n, k)
  BY <1>0, <1>1 DEF CursorHolds
<1>5. n + 1 \in 1..Len(ts)
  BY <1>2, <1>3, <1>4
<1>6. /\ t \in Seq(Points) /\ Len(t) \in Nat /\ Len(t) >= 1 /\ Encodable(t)
      /\ \A k \in 1..Len(t) : t[k] \in Points /\ InRange(t[k])
      /\ \A k \in 2..Len(t) : Stamp(t[k-1]) < Stamp(t[k])
  BY <1>0, <1>2, <1>5
<1>7. PICK k \in 0..Len(t) : InTrack(b, n, k)
  BY <1>4
<1>8. PICK at : at = Offset(ts, n) + 1 + k
  OBVIOUS
<1>9. /\ AfterPoints(t, b, k) /\ at + Len(r) = to
      /\ \A i \in 1..Len(r) : r[i] = file[at + i]
  BY <1>0, <1>7, <1>8 DEF InTrack, Ahead
<1>10. NextIs(b, n, ts, t, file, to, r, k, at)
  <2>1. /\ b \in Theatres /\ ts \in TrackLists /\ file = FileOf(ts, b) /\ n \in Nat
        /\ n < Len(ts) /\ k \in 0..Len(ts[n+1])
    BY <1>0, <1>1, <1>2, <1>3, <1>4
  <2>2. /\ Offset(ts, n) + 1 + k \in Nat /\ Offset(ts, n) + 1 + k < Len(file)
        /\ k < Len(ts[n+1]) =>
                file[Offset(ts, n) + 1 + k + 1] = PointField(ts[n+1][k+1], b)
        /\ k = Len(ts[n+1]) =>
                /\ file[Offset(ts, n) + 1 + k + 1] = End
                /\ Offset(ts, n + 1) = Offset(ts, n) + 1 + k + 1
    BY <2>1, FieldInTrack
  <2>3. /\ at \in Nat /\ at < Len(file)
        /\ k < Len(t) => file[at + 1] = PointField(t[k+1], b)
        /\ k = Len(t) => file[at + 1] = End /\ Offset(ts, n + 1) = at + 1
    BY <1>0, <1>8, <2>2
  <2> QED
    BY <1>3, <1>9, <2>3, NextInTrack
<1>11. at \in Nat
  BY <1>10 DEF NextIs
<1>12. Offset(ts, n) \in Nat
  <2>1. n \in 0..Len(ts)
    BY <1>2, <1>3, <1>4
  <2> QED
    BY <1>2, <2>1, SizesAre
<1>13. InsideIs(b, n, ts, t, file, to, r)
  BY <1>1, <1>2, <1>3, <1>4, <1>6, <1>8, <1>9, <1>10, <1>11, <1>12 DEF InsideIs
<1> QED
  BY <1>0, <1>13

\* The years and months of the points of a track, as the reader counts them.
LEMMA YearOfTheNext ==
    ASSUME NEW t \in Seq(Points), Encodable(t), NEW b, NEW k \in 0..Len(t), k < Len(t),
           \A i \in 2..Len(t) : Stamp(t[i-1]) < Stamp(t[i]), AfterPoints(t, b, k)
    PROVE  (IF t[k+1].month < cursor.llastmonth THEN cursor.lyear + 1 ELSE cursor.lyear)
                = t[k+1].year
<1>1. Len(t) \in Nat /\ k \in Nat /\ k + 1 \in 1..Len(t) /\ t[k+1] \in Points
  <2>1. Len(t) \in Nat /\ k \in Nat /\ k + 1 \in 1..Len(t)
    OBVIOUS
  <2> QED
    BY <2>1
<1>2. CASE k = 0
  <2>1. t[1].month \in 1..12 /\ cursor.llastmonth = 0 /\ cursor.lyear = t[1].year
    BY <1>1, <1>2, PointTyping DEF AfterPoints
  <2>2. ~(t[1].month < 0)
    BY <2>1
  <2> QED
    BY <1>2, <2>1, <2>2
<1>3. CASE k # 0
  <2>1. PICK p, q : p = t[k] /\ q = t[k+1]
    OBVIOUS
  <2>2. k + 1 \in 2..Len(t) /\ (k + 1) - 1 = k /\ k \in 1..Len(t)
    BY <1>1, <1>3
  <2>3. p \in Points /\ q \in Points /\ Stamp(p) < Stamp(q)
    BY <1>1, <2>1, <2>2
  <2>4. q.year = p.year \/ (q.year = p.year + 1 /\ q.month < p.month)
    BY <2>1, <2>2 DEF Encodable
  <2>5. (IF q.month < p.month THEN p.year + 1 ELSE p.year) = q.year
    BY <2>3, <2>4, YearIs
  <2> QED
    BY <1>3, <2>1, <2>5 DEF AfterPoints
<1> QED
  BY <1>2, <1>3

LEMMA ReadPointReads ==
    ASSUME ConvertInv, FilesInv, PluginInv, ReadPoint
    PROVE  PluginInv'
<1>1. PICK c, b, n, ts, t, file, to, r, f, year :
        /\ c = cursor /\ b = c.basin /\ n = Len(cyclones[b]) /\ ts = tracks[b] /\ t = ts[n+1]
        /\ file = files[b] /\ to = got[b] /\ r = c.rest /\ f = Head(r)
        /\ year = (IF f.month < c.llastmonth THEN c.lyear + 1 ELSE c.lyear)
  OBVIOUS
<1>2. /\ c.open /\ c.inTrack = TRUE /\ r # <<>> /\ IsPoint(f)
      /\ cursor' = [c EXCEPT !.rest = Tail(r), !.lyear = year, !.llastmonth = f.month,
                             !.last = f, !.lastyear = year,
                             !.states = IF c.last = NoPoint THEN c.states
                                        ELSE Append(c.states, Segment(c.last, c.lastyear, f))]
      /\ UNCHANGED <<pc, tracks, files, got, cyclones, result>>
  BY <1>1 DEF ReadPoint, Reading, YearAt, More, Field, conversion
<1>3. c \in Cursors /\ result[b] = "unread"
  BY <1>1, <1>2, ReaderIs
<1>18. InsideIs(b, n, ts, t, file, to, r)
  BY <1>1, <1>2, InsideATrack
<1>4. /\ b \in Theatres /\ n \in Nat /\ n < Len(ts) /\ Len(ts) \in Nat
      /\ t \in Seq(Points) /\ Len(t) \in Nat /\ Len(t) >= 1 /\ Encodable(t)
      /\ \A k \in 1..Len(t) : t[k] \in Points
      /\ \A k \in 2..Len(t) : Stamp(t[k-1]) < Stamp(t[k])
      /\ Offset(ts, n) \in Nat
  BY <1>18 DEF InsideIs
<1>5. PICK k \in 0..Len(t), at \in Nat :
        /\ AfterPoints(t, b, k) /\ at = Offset(ts, n) + 1 + k
        /\ k < Len(t) => Head(r) = PointField(t[k+1], b)
        /\ k = Len(t) => Head(r) = End
        /\ Tail(r) \in Seq(Fields) /\ at + 1 + Len(Tail(r)) = to
        /\ \A i \in 1..Len(Tail(r)) : Tail(r)[i] = file[at + 1 + i]
  BY <1>2, <1>18 DEF InsideIs, NextIs
<1>6. k < Len(t) /\ k \in Nat /\ k + 1 \in 1..Len(t) /\ k + 1 \in 0..Len(t)
  <2>1. k # Len(t)
    BY <1>1, <1>2, <1>5 DEF IsPoint, End
  <2> QED
    BY <1>4, <2>1
<1>7. PICK q : q = t[k+1]
  OBVIOUS
<1>8. q \in Points /\ f = PointField(q, b) /\ f.month = q.month /\ q.year \in Nat
      /\ q.month \in 1..12 /\ f \in Fields
  <2>1. q \in Points /\ f = PointField(q, b)
    BY <1>1, <1>4, <1>5, <1>6, <1>7
  <2>2. f.month = q.month
    BY <2>1, PointFieldIs
  <2>3. f \in Fields
    BY <1>4, <2>1 DEF Fields
  <2> QED
    BY <2>1, <2>2, <2>3, PointTyping
<1>9. year = q.year
  <2>1. (IF t[k+1].month < cursor.llastmonth THEN cursor.lyear + 1 ELSE cursor.lyear)
            = t[k+1].year
    BY <1>4, <1>5, <1>6, YearOfTheNext
  <2> QED
    BY <1>1, <1>7, <1>8, <2>1
<1>10. PICK states : states = IF c.last = NoPoint THEN c.states
                              ELSE Append(c.states, Segment(c.last, c.lastyear, f))
  OBVIOUS
<1>11. /\ states \in Seq(Segments) /\ Len(states) = k
       /\ \A i \in 1..k : states[i] = SegmentOf(t[i], t[i+1])
  <2>1. CASE k = 0
    <3>1. states = <<>>
      BY <1>1, <1>5, <1>10, <2>1 DEF AfterPoints
    <3>2. <<>> \in Seq(Segments) /\ Len(<<>>) = 0 /\ 1..k = {}
      BY <2>1
    <3> QED
      BY <2>1, <3>1, <3>2
  <2>2. CASE k # 0
    <3>1. PICK p, s : p = t[k] /\ s = c.states
      OBVIOUS
    <3>2. k \in 1..Len(t) /\ p \in Points
      BY <1>4, <1>6, <2>2, <3>1
    <3>3. /\ c.last = PointField(p, b) /\ c.lastyear = p.year /\ Len(s) = k - 1
          /\ \A i \in 1..(k - 1) : s[i] = SegmentOf(t[i], t[i+1])
      BY <1>1, <1>5, <2>2, <3>1 DEF AfterPoints
    <3>4. c.last # NoPoint
      BY <3>2, <3>3, PointFieldIs
    <3>5. Segment(c.last, c.lastyear, f) = SegmentOf(p, q)
      BY <1>1, <1>8, <3>2, <3>3, SegmentIs
    <3>6. states = Append(s, SegmentOf(p, q))
      BY <1>10, <3>1, <3>4, <3>5
    <3>7. s \in Seq(Segments) /\ SegmentOf(p, q) \in Segments
      BY <1>3, <1>8, <3>1, <3>2 DEF Cursors, Segments
    <3>8. PICK z : z = SegmentOf(p, q)
      OBVIOUS
    <3>9. states = Append(s, z) /\ z \in Segments /\ z = SegmentOf(t[k], t[k+1])
      BY <1>7, <3>1, <3>6, <3>7, <3>8
    <3>10. /\ states \in Seq(Segments) /\ Len(states) = k /\ states[k] = z
           /\ \A i \in 1..(k - 1) : states[i] = s[i]
      BY <1>6, <3>3, <3>7, <3>9
    <3>11. ASSUME NEW i \in 1..k PROVE states[i] = SegmentOf(t[i], t[i+1])
      <4>1. i = k \/ i \in 1..(k - 1)
        BY <1>6
      <4> QED
        BY <3>3, <3>9, <3>10, <4>1
    <3> QED
      BY <3>10, <3>11
  <2> QED
    BY <2>1, <2>2
<1>12. cursor' = [c EXCEPT !.rest = Tail(r), !.lyear = year, !.llastmonth = f.month,
                           !.last = f, !.lastyear = year, !.states = states]
  BY <1>2, <1>10
<1>13. /\ cursor' \in Cursors /\ cursor'.basin = b /\ cursor'.open /\ cursor'.inTrack = TRUE
       /\ cursor'.rest = Tail(r) /\ cursor'.lyear = year /\ cursor'.llastmonth = f.month
       /\ cursor'.last = f /\ cursor'.lastyear = year /\ cursor'.states = states
  <2>1. year \in Nat /\ f.month \in Nat
    BY <1>8, <1>9
  <2>2. PICK m, rest : m = f.month /\ rest = Tail(r)
    OBVIOUS
  <2>3. cursor' = [c EXCEPT !.rest = rest, !.lyear = year, !.llastmonth = m,
                            !.last = f, !.lastyear = year, !.states = states]
    BY <1>12, <2>2
  <2>4. m \in Nat /\ rest \in Seq(Fields)
    BY <1>5, <2>1, <2>2
  <2>5. cursor' \in Cursors
    BY <1>3, <1>8, <1>11, <2>1, <2>3, <2>4 DEF Cursors
  <2>6. /\ cursor'.basin = c.basin /\ cursor'.open = c.open /\ cursor'.inTrack = c.inTrack
        /\ cursor'.rest = rest /\ cursor'.lyear = year /\ cursor'.llastmonth = m
        /\ cursor'.last = f /\ cursor'.lastyear = year /\ cursor'.states = states
    BY <1>3, <2>3 DEF Cursors
  <2> QED
    BY <1>1, <1>2, <2>2, <2>5, <2>6
<1>14. AfterPoints(t, b, k + 1)'
  <2>1. k + 1 # 0 /\ (k + 1) - 1 = k
    BY <1>6
  <2> QED
    BY <1>7, <1>8, <1>9, <1>11, <1>13, <2>1 DEF AfterPoints
<1>15. Ahead(file, Offset(ts, n) + 1 + (k + 1), to)'
  <2>1. PICK next_at : next_at = at + 1
    OBVIOUS
  <2>2. Ahead(file, next_at, to)'
    BY <1>5, <1>13, <2>1 DEF Ahead
  <2>3. Offset(ts, n) + 1 + (k + 1) = next_at
    <3>1. PICK o : o = Offset(ts, n)
      OBVIOUS
    <3>2. o \in Nat /\ at = o + 1 + k
      BY <1>4, <1>5, <3>1
    <3>3. o + 1 + (k + 1) = at + 1
      BY <1>6, <3>2
    <3> QED
      BY <2>1, <3>1, <3>3
  <2> QED
    BY <2>2, <2>3
<1>16. InTrack(b, n, k + 1)'
  BY <1>1, <1>2, <1>14, <1>15 DEF InTrack
<1>17. CursorHolds'
  BY <1>1, <1>2, <1>3, <1>4, <1>6, <1>13, <1>16 DEF CursorHolds
<1> QED
  BY <1>1, <1>2, <1>13, <1>17, ReaderMoves
LEMMA ReadEndReads ==
    ASSUME ConvertInv, FilesInv, PluginInv, ReadEnd
    PROVE  PluginInv'
<1>1. PICK c, b, n, ts, t, file, to, r, list :
        /\ c = cursor /\ b = c.basin /\ n = Len(cyclones[b]) /\ ts = tracks[b] /\ t = ts[n+1]
        /\ file = files[b] /\ to = got[b] /\ r = c.rest /\ list = cyclones[b]
  OBVIOUS
<1>2. /\ c.open /\ c.inTrack = TRUE /\ r # <<>> /\ Head(r) = End
      /\ cursor' = [c EXCEPT !.rest = Tail(r), !.inTrack = FALSE]
      /\ cyclones' = [cyclones EXCEPT ![b] = Append(list, c.states)]
      /\ UNCHANGED <<pc, tracks, files, got, result>>
  BY <1>1 DEF ReadEnd, Reading, More, Field, conversion
<1>3. /\ c \in Cursors /\ result[b] = "unread" /\ PluginTypes /\ pc = "done"
      /\ \A d \in Theatres : ResultHolds(d)
  BY <1>1, <1>2, ReaderIs
<1>4. InsideIs(b, n, ts, t, file, to, r)
  BY <1>1, <1>2, InsideATrack
<1>5. /\ b \in Theatres /\ n \in Nat /\ n < Len(ts) /\ Len(ts) \in Nat
      /\ t \in Seq(Points) /\ Len(t) \in Nat /\ Len(t) >= 1
      /\ \A k \in 1..Len(t) : t[k] \in Points
  BY <1>4 DEF InsideIs
<1>6. PICK k \in 0..Len(t), at \in Nat :
        /\ AfterPoints(t, b, k)
        /\ k < Len(t) => Head(r) = PointField(t[k+1], b)
        /\ k = Len(t) => Offset(ts, n + 1) = at + 1
        /\ Tail(r) \in Seq(Fields) /\ at + 1 + Len(Tail(r)) = to
        /\ \A i \in 1..Len(Tail(r)) : Tail(r)[i] = file[at + 1 + i]
  BY <1>2, <1>4 DEF InsideIs, NextIs
<1>7. k = Len(t) /\ k # 0
  <2>1. ASSUME k < Len(t) PROVE FALSE
    <3>1. PICK q : q = t[k+1]
      OBVIOUS
    <3>2. q \in Points /\ Head(r) = PointField(q, b)
      <4>1. k + 1 \in 1..Len(t)
        BY <1>5, <2>1
      <4> QED
        BY <1>5, <1>6, <2>1, <3>1, <4>1
    <3> QED
      BY <1>2, <3>2, PointFieldIs
  <2> QED
    BY <1>5, <1>6, <2>1
<1>8. c.states = SegmentsOf(t)
  <2>1. PICK s : s = c.states
    OBVIOUS
  <2>2. s \in Seq(Segments) /\ Len(s) = Len(t) - 1
        /\ \A i \in 1..(Len(t) - 1) : s[i] = SegmentOf(t[i], t[i+1])
    BY <1>1, <1>3, <1>6, <1>7, <2>1 DEF AfterPoints, Cursors
  <2>3. s = [i \in 1..(Len(t) - 1) |-> s[i]]
    BY <2>2
  <2>4. s = [i \in 1..(Len(t) - 1) |-> SegmentOf(t[i], t[i+1])]
    BY <2>2, <2>3
  <2> QED
    BY <2>1, <2>4 DEF SegmentsOf
<1>9. /\ cursor' \in Cursors /\ cursor'.open /\ cursor'.basin = b /\ cursor'.inTrack = FALSE
      /\ cursor'.rest = Tail(r)
  BY <1>1, <1>2, <1>3, <1>6 DEF Cursors
<1>10. /\ list \in Seq(Seq(Segments)) /\ Len(list) = n /\ c.states \in Seq(Segments)
       /\ cyclones \in [Theatres -> Seq(Seq(Segments))]
  BY <1>1, <1>3, <1>5 DEF PluginTypes, Cursors
<1>11. PICK longer : longer = Append(list, SegmentsOf(t))
  OBVIOUS
<1>12. /\ longer \in Seq(Seq(Segments)) /\ Len(longer) = n + 1 /\ longer[n + 1] = SegmentsOf(t)
       /\ \A i \in 1..n : longer[i] = list[i]
  <2>1. PICK z : z = SegmentsOf(t)
    OBVIOUS
  <2>2. z \in Seq(Segments) /\ longer = Append(list, z)
    BY <1>8, <1>10, <1>11, <2>1
  <2>3. list \in Seq(Seq(Segments)) /\ Len(list) = n
    BY <1>10
  <2>4. longer \in Seq(Seq(Segments)) /\ Len(longer) = n + 1
    BY <2>2, <2>3
  <2>5. longer[n + 1] = z
    BY <2>2, <2>3
  <2>6. \A i \in 1..n : longer[i] = list[i]
    BY <2>2, <2>3
  <2> QED
    BY <2>1, <2>4, <2>5, <2>6
<1>13. /\ cyclones' \in [Theatres -> Seq(Seq(Segments))] /\ cyclones'[b] = longer
       /\ \A d \in Theatres : d # b => cyclones'[d] = cyclones[d]
  BY <1>2, <1>5, <1>8, <1>10, <1>11, <1>12
<1>14. PluginTypes'
  BY <1>2, <1>3, <1>9, <1>13 DEF PluginTypes
<1>15. Ahead(file, Offset(ts, n + 1), to)'
  BY <1>6, <1>7, <1>9 DEF Ahead
<1>16. CursorHolds'
  <2>1. BetweenTracks(b, n + 1)'
    BY <1>1, <1>2, <1>15 DEF BetweenTracks
  <2> QED
    BY <1>2, <1>3, <1>9, <1>12, <1>13, <2>1 DEF CursorHolds
<1>17. ASSUME NEW d \in Theatres PROVE ResultHolds(d)'
  <2>1. ResultHolds(d)
    BY <1>3
  <2>2. CASE d # b
    BY <1>1, <1>2, <1>13, <2>1, <2>2 DEF ResultHolds
  <2>3. CASE d = b
    <3>1. ASSUME NEW i \in 1..Len(longer) PROVE longer[i] = SegmentsOf(ts[i])
      <4>1. i = n + 1 \/ i \in 1..n
        BY <1>5, <1>12
      <4>2. \A j \in 1..n : list[j] = SegmentsOf(ts[j])
        BY <1>1, <2>1, <2>3 DEF ResultHolds
      <4>3. CASE i = n + 1
        BY <1>1, <1>12, <4>3
      <4>4. CASE i \in 1..n
        BY <1>12, <4>2, <4>4
      <4> QED
        BY <4>1, <4>3, <4>4
    <3>2. Len(longer) <= Len(ts)
      BY <1>5, <1>12
    <3>3. got'[b] <= Len(files'[b]) /\ result'[b] = "unread"
      BY <1>2, <1>3, <2>1, <2>3 DEF ResultHolds
    <3>4. cyclones'[d] = longer /\ tracks'[d] = ts /\ cursor'.open /\ cursor'.basin = d
      BY <1>1, <1>2, <1>9, <1>13, <2>3
    <3> QED
      BY <2>3, <3>1, <3>2, <3>3, <3>4 DEF ResultHolds
  <2> QED
    BY <2>2, <2>3
<1> QED
  BY <1>2, <1>3, <1>14, <1>16, <1>17, ReaderKeeps

\* The reader is through with a theatre.
LEMMA ReaderCloses ==
    ASSUME PluginInv, cursor.open, NEW b, b = cursor.basin, NEW outcome \in {"read", "corrupted"},
           result' = [result EXCEPT ![b] = outcome], cursor' = Closed,
           UNCHANGED <<pc, tracks, files, got, cyclones>>,
           outcome = "read" => got[b] = Offset(tracks[b], Len(cyclones[b])),
           outcome = "corrupted" => got[b] < Len(files[b])
    PROVE  PluginInv'
<1>1. /\ pc = "done" /\ PluginTypes /\ b \in Theatres /\ \A d \in Theatres : ResultHolds(d)
  BY ReaderIs
<1>2. /\ result' \in [Theatres -> {"unread", "read", "corrupted"}] /\ result'[b] = outcome
      /\ \A d \in Theatres : d # b => result'[d] = result[d]
  BY <1>1 DEF PluginTypes
<1>3. PluginTypes'
  BY <1>1, <1>2 DEF PluginTypes
<1>4. CursorHolds'
  BY DEF CursorHolds, Closed
<1>5. ASSUME NEW d \in Theatres PROVE ResultHolds(d)'
  <2>1. ResultHolds(d)
    BY <1>1
  <2>2. CASE d # b
    BY <1>2, <2>1, <2>2 DEF ResultHolds
  <2>3. CASE d = b
    <3>1. result'[d] # "unread"
      BY <1>2, <2>3
    <3> QED
      BY <1>2, <2>1, <2>3, <3>1 DEF ResultHolds
  <2> QED
    BY <2>2, <2>3
<1> QED
  BY <1>1, <1>3, <1>4, <1>5, ReaderKeeps

LEMMA EndOfFileReads ==
    ASSUME ConvertInv, FilesInv, PluginInv, EndOfFile
    PROVE  PluginInv'
<1>1. PICK b, n : b = cursor.basin /\ n = Len(cyclones[b])
  OBVIOUS
<1>2. /\ cursor.open /\ cursor.inTrack = FALSE /\ cursor.rest = <<>>
      /\ result' = [result EXCEPT ![b] = "read"] /\ cursor' = Closed
      /\ UNCHANGED <<pc, tracks, files, got, cyclones>>
  BY <1>1 DEF EndOfFile, Reading, More, conversion
<1>3. CursorHolds /\ PluginTypes /\ pc = "done" /\ b \in Theatres
  BY <1>1, <1>2, ReaderIs
<1>4. BetweenTracks(b, n)
  BY <1>1, <1>2, <1>3 DEF CursorHolds
<1>5. got[b] = Offset(tracks[b], n)
  <2>1. Len(cursor.rest) = 0
    BY <1>2
  <2>2. Offset(tracks[b], n) + 0 = got[b]
    BY <1>4, <2>1 DEF BetweenTracks, Ahead
  <2>3. tracks[b] \in TrackLists /\ n \in 0..Len(tracks[b])
    <3>1. tracks[b] \in TrackLists /\ Len(tracks[b]) \in Nat
      BY <1>3, DoneFile
    <3>2. n \in Nat
      BY <1>1, <1>3 DEF PluginTypes
    <3>3. n <= Len(tracks[b])
      BY <1>1, <1>2, <1>3, ReaderIs DEF ResultHolds
    <3> QED
      BY <3>1, <3>2, <3>3
  <2>4. Offset(tracks[b], n) \in Nat
    BY <2>3, SizesAre
  <2> QED
    BY <2>2, <2>4
<1> QED
  BY <1>1, <1>2, <1>5, ReaderCloses

LEMMA CorruptedReads ==
    ASSUME ConvertInv, FilesInv, PluginInv, Corrupted
    PROVE  PluginInv'
<1>1. PICK b, n, ts, t, file, to, r :
        /\ b = cursor.basin /\ n = Len(cyclones[b]) /\ ts = tracks[b] /\ t = ts[n+1]
        /\ file = files[b] /\ to = got[b] /\ r = cursor.rest
  OBVIOUS
<1>2. /\ cursor.open /\ cursor.inTrack = TRUE
      /\ r # <<>> => IsPoint(Head(r)) /\ ~Readable(Head(r), YearAt(Head(r)))
      /\ result' = [result EXCEPT ![b] = "corrupted"] /\ cursor' = Closed
      /\ UNCHANGED <<pc, tracks, files, got, cyclones>>
  BY <1>1 DEF Corrupted, Reading, More, Field, conversion
<1>3. InsideIs(b, n, ts, t, file, to, r)
  BY <1>1, <1>2, InsideATrack
<1>4. Len(t) \in Nat /\ \A k \in 1..Len(t) : t[k] \in Points /\ InRange(t[k])
  BY <1>3 DEF InsideIs
<1>5. PICK k \in 0..Len(t), at \in Nat :
        /\ AfterPoints(t, b, k) /\ at < Len(file) /\ (r = <<>> => at = to)
        /\ r # <<>> => /\ k < Len(t) => Head(r) = PointField(t[k+1], b)
                       /\ k = Len(t) => Head(r) = End
  BY <1>3 DEF InsideIs, NextIs
<1>6. ASSUME r # <<>> PROVE FALSE
  <2>1. k < Len(t)
    <3>1. k # Len(t)
      BY <1>2, <1>5, <1>6 DEF IsPoint, End
    <3> QED
      BY <1>4, <3>1
  <2>2. k + 1 \in 1..Len(t)
    BY <1>4, <2>1
  <2>3. PICK q : q = t[k+1]
    OBVIOUS
  <2>4. q \in Points /\ InRange(q) /\ Head(r) = PointField(q, b)
    BY <1>4, <1>5, <1>6, <2>1, <2>2, <2>3
  <2>5. YearAt(Head(r)) = q.year
    <3>1. (IF t[k+1].month < cursor.llastmonth THEN cursor.lyear + 1 ELSE cursor.lyear)
              = t[k+1].year
      BY <1>3, <1>5, <2>1, YearOfTheNext DEF InsideIs
    <3>2. Head(r).month = q.month
      BY <2>4, PointFieldIs
    <3> QED
      BY <2>3, <3>1, <3>2 DEF YearAt
  <2> QED
    BY <1>2, <1>6, <2>4, <2>5, PointFieldIs
<1>7. got[b] < Len(files[b])
  BY <1>1, <1>5, <1>6
<1> QED
  BY <1>1, <1>2, <1>7, ReaderCloses
-----------------------------------------------------------------------------
(* From the archive to the plugin                                          *)

TracksInv == ConvertInv /\ FilesInv /\ PluginInv

LEMMA TracksStutter ==
    ASSUME TracksInv, UNCHANGED vars
    PROVE  TracksInv'
<1>1. /\ UNCHANGED <<input, next, grouped, tracks, storm, current, seen, pc, theatre, files>>
      /\ UNCHANGED <<got, cursor, cyclones, result>>
      /\ UNCHANGED conversion
  BY DEF vars, source, conversion, plugin
<1>2. ConvertTypes /\ GroupsHold /\ EndsAtTheLoop /\ TracksHold /\ LinksCounted /\ FilesInv /\ PluginInv
  BY DEF TracksInv, ConvertInv
<1>3. KeptPoints' = KeptPoints /\ (\A p : Placed(p)' <=> Placed(p)) /\ Archive' = Archive
      /\ BuildFails' = BuildFails
  BY <1>1, ArchiveStays DEF Placed
<1>4. TracksHold' /\ LinksCounted' /\ EndsAtTheLoop'
  BY <1>1, <1>2, <1>3, NothingCollected
<1>5. ConvertTypes'
  BY <1>1, <1>2, <1>3 DEF ConvertTypes
<1>6. GroupsHold'
  BY <1>1, <1>2, <1>3 DEF GroupsHold
<1>7. FilesInv'
  <2>1. \A d \in Theatres : (Written(d)' <=> Written(d)) /\ (Verified(d)' <=> Verified(d))
    BY <1>1 DEF Written, Verified
  <2>2. OutputBasins' = OutputBasins
    OBVIOUS
  <2>3. theatre \in 1..Len(OutputBasins)
    BY <1>2 DEF FilesInv
  <2>4. \A n \in 1..Len(OutputBasins) : OutputBasins[n] \in Theatres
    BY TheatresAre DEF Theatres
  <2>5. pc \in {"write", "verify"} => \A n \in 1..(theatre - 1) : Verified(OutputBasins[n])'
    <3>1. \A n \in 1..(theatre - 1) : n \in 1..Len(OutputBasins)
      BY <2>3, TheatresAre
    <3> QED
      BY <1>2, <2>1, <2>4, <3>1 DEF FilesInv
  <2> QED
    BY <1>1, <1>2, <1>3, <2>1, <2>3, <2>4, <2>5 DEF FilesInv
<1>8. PluginInv'
  <2>1. (PluginIdle' <=> PluginIdle) /\ (PluginTypes' <=> PluginTypes)
    BY <1>1 DEF PluginIdle, PluginTypes
  <2>2. CursorHolds' <=> CursorHolds
    BY <1>1 DEF CursorHolds, InTrack, BetweenTracks, AfterPoints, Ahead
  <2>3. \A d \in Theatres : ResultHolds(d)' <=> ResultHolds(d)
    BY <1>1 DEF ResultHolds
  <2> QED
    BY <1>1, <1>2, <2>1, <2>2, <2>3 DEF PluginInv
<1> QED
  BY <1>4, <1>5, <1>6, <1>7, <1>8 DEF TracksInv, ConvertInv

LEMMA TracksInvStep == TracksInv /\ [Next]_vars => TracksInv'
<1> SUFFICES ASSUME TracksInv, [Next]_vars PROVE TracksInv'
  OBVIOUS
<1>0. ConvertInv /\ FilesInv /\ PluginInv
  BY DEF TracksInv
<1>1. ASSUME ReadRow PROVE TracksInv'
  <2>1. ConvertInv'
    BY <1>0, <1>1, ReadRowConverts
  <2>2. pc = "read" /\ pc' = "read" /\ UNCHANGED <<theatre, files>> /\ UNCHANGED plugin
    BY <1>1 DEF ReadRow
  <2> QED
    BY <1>0, <2>1, <2>2, ConversionFiles, BuildLeavesPlugin DEF TracksInv
<1>2. ASSUME EndOfRows PROVE TracksInv'
  <2>1. ConvertInv'
    BY <1>0, <1>2, EndOfRowsConverts
  <2>2. pc = "read" /\ pc' = "split" /\ UNCHANGED <<theatre, files>> /\ UNCHANGED plugin
    BY <1>2 DEF EndOfRows
  <2> QED
    BY <1>0, <2>1, <2>2, ConversionFiles, BuildLeavesPlugin DEF TracksInv
<1>3. ASSUME SplitRecord PROVE TracksInv'
  <2>1. ConvertInv'
    BY <1>0, <1>3, SplitRecordConverts
  <2>2. pc = "split" /\ pc' = "split" /\ UNCHANGED <<theatre, files>> /\ UNCHANGED plugin
    BY <1>3 DEF SplitRecord
  <2> QED
    BY <1>0, <2>1, <2>2, ConversionFiles, BuildLeavesPlugin DEF TracksInv
<1>4. ASSUME EndOfStorm PROVE TracksInv'
  <2>1. ConvertInv'
    BY <1>0, <1>4, EndOfStormConverts
  <2>2. pc = "split" /\ pc' \in {"split", "write"} /\ UNCHANGED <<theatre, files>>
        /\ UNCHANGED plugin
    BY <1>4 DEF EndOfStorm
  <2> QED
    BY <1>0, <2>1, <2>2, ConversionFiles, BuildLeavesPlugin DEF TracksInv
<1>5. ASSUME WriteTheatre PROVE TracksInv'
  <2>1. pc # "done" /\ UNCHANGED plugin
    BY <1>5 DEF WriteTheatre
  <2> QED
    BY <1>0, <1>5, <2>1, WriteTheatreFiles, BuildLeavesPlugin DEF TracksInv
<1>6. ASSUME VerifyTheatre PROVE TracksInv'
  <2>1. pc # "done" /\ UNCHANGED plugin
    BY <1>6 DEF VerifyTheatre
  <2> QED
    BY <1>0, <1>6, <2>1, VerifyTheatreFiles, BuildLeavesPlugin DEF TracksInv
<1>7. ASSUME NEW b \in Theatres, Open(b) PROVE TracksInv'
  <2>1. pc = "done" /\ UNCHANGED <<source, conversion, pc, theatre, files>>
    BY <1>7 DEF Open
  <2> QED
    BY <1>0, <1>7, <2>1, OpenReads, PluginLeavesFiles DEF TracksInv
<1>8. ASSUME ReadYear \/ ReadPoint \/ ReadEnd \/ EndOfFile \/ Corrupted PROVE TracksInv'
  <2>1. cursor.open /\ UNCHANGED <<source, conversion, pc, theatre, files>>
    BY <1>8 DEF ReadYear, ReadPoint, ReadEnd, EndOfFile, Corrupted, Reading
  <2>2. pc = "done"
    BY <1>0, <2>1, ReaderIs
  <2>3. PluginInv'
    BY <1>0, <1>8, ReadYearReads, ReadPointReads, ReadEndReads, EndOfFileReads, CorruptedReads
  <2> QED
    BY <1>0, <2>1, <2>2, <2>3, PluginLeavesFiles DEF TracksInv
<1> QED
  BY <1>1, <1>2, <1>3, <1>4, <1>5, <1>6, <1>7, <1>8, TracksStutter DEF Next

LEMMA TracksInvHolds == Spec => []TracksInv
<1>1. Init => TracksInv
  BY ConvertBegins, FilesBegin, PluginBegins DEF TracksInv
<1> QED
  BY <1>1, TracksInvStep, PTL DEF Spec

LEMMA VerdictHolds == TracksInv => BuildVerdict
<1> SUFFICES ASSUME TracksInv PROVE BuildVerdict
  OBVIOUS
<1>1. ConvertInv /\ FilesInv
  BY DEF TracksInv
<1>2. pc = "failed" => BuildFails
  BY <1>1 DEF FilesInv
<1>3. pc = "done" => ~BuildFails
  BY <1>1, DoneMeansSound
<1> QED
  BY <1>2, <1>3 DEF BuildVerdict

\* A segment the plugin has goes from an observation to the next.
LEMMA SegmentsArePairs ==
    ASSUME TracksInv, pc = "done", NEW b \in Theatres, NEW n \in 1..Len(cyclones[b])
    PROVE  /\ n \in 1..Len(tracks[b]) /\ Len(tracks[b][n]) \in Nat
           /\ cyclones[b][n] = SegmentsOf(tracks[b][n])
           /\ Len(cyclones[b][n]) = Len(tracks[b][n]) - 1
           /\ DOMAIN cyclones[b][n] = 1..(Len(tracks[b][n]) - 1)
           /\ \A k \in 1..(Len(tracks[b][n]) - 1) :
                /\ cyclones[b][n][k] = SegmentOf(tracks[b][n][k], tracks[b][n][k+1])
                /\ <<tracks[b][n][k], tracks[b][n][k+1]>> \in PairsOf(b)
<1>1. ConvertInv /\ FilesInv /\ PluginTypes /\ ResultHolds(b)
  BY DEF TracksInv, PluginInv
<1>2. PICK ts, t, list, s : ts = tracks[b] /\ t = ts[n] /\ list = cyclones[b] /\ s = list[n]
  OBVIOUS
<1>3. Len(ts) \in Nat /\ \A i \in 1..Len(ts) : Len(ts[i]) \in Nat /\ Len(ts[i]) >= 1
  BY <1>1, <1>2, DoneFile
<1>4. list \in Seq(Seq(Segments)) /\ Len(list) \in Nat /\ Len(list) <= Len(ts) /\ s = SegmentsOf(t)
  BY <1>1, <1>2 DEF PluginTypes, ResultHolds
<1>5. n \in 1..Len(ts) /\ Len(t) \in Nat /\ Len(t) >= 1
  BY <1>2, <1>3, <1>4
<1>6. s \in Seq(Segments)
  <2>1. list \in Seq(Seq(Segments))
    BY <1>4
  <2>2. n \in 1..Len(list)
    BY <1>2
  <2>3. list[n] \in Seq(Segments)
    BY <2>1, <2>2
  <2> QED
    BY <1>2, <2>3
<1>7. DOMAIN s = 1..(Len(t) - 1) /\ \A k \in 1..(Len(t) - 1) : s[k] = SegmentOf(t[k], t[k+1])
  BY <1>4 DEF SegmentsOf
<1>8. Len(s) = Len(t) - 1
  <2>1. DOMAIN s = 1..Len(s) /\ Len(s) \in Nat
    BY <1>6
  <2> QED
    BY <1>5, <1>7, <2>1
<1>9. ASSUME NEW k \in 1..(Len(t) - 1) PROVE <<t[k], t[k+1]>> \in PairsOf(b)
  <2>1. k + 1 \in 1..Len(t) /\ k + 1 > 1 /\ (k + 1) - 1 = k
    BY <1>5
  <2>2. \A j \in 1..Len(tracks[b][n]) : j > 1 => <<tracks[b][n][j-1], tracks[b][n][j]>> \in PairsOf(b)
    BY <1>1, <1>2, <1>5, Converted
  <2> QED
    BY <1>2, <2>1, <2>2
<1> QED
  BY <1>2, <1>4, <1>5, <1>7, <1>8, <1>9

LEMMA WholeTracksHold == TracksInv => WholeTracksOnly
<1> SUFFICES ASSUME TracksInv, NEW b \in Theatres
             PROVE  /\ Shown(b) \subseteq Truth(b)
                    /\ \A t \in DOMAIN cyclones[b] : Len(cyclones[b][t]) = Len(tracks[b][t]) - 1
  BY DEF WholeTracksOnly
<1>1. Archive
  BY DEF TracksInv, ConvertInv, ConvertTypes
<1>2. CASE pc # "done"
  <2>1. cyclones[b] = <<>>
    BY <1>2 DEF TracksInv, PluginInv, PluginIdle
  <2>2. DOMAIN cyclones[b] = {}
    BY <2>1
  <2> QED
    BY <2>2 DEF Shown
<1>3. CASE pc = "done"
  <2>1. DOMAIN cyclones[b] = 1..Len(cyclones[b])
    <3>1. cyclones[b] \in Seq(Seq(Segments))
      BY <1>3 DEF TracksInv, PluginInv, PluginTypes
    <3> QED
      BY <3>1
  <2>2. ASSUME NEW n \in DOMAIN cyclones[b], NEW k \in DOMAIN cyclones[b][n]
        PROVE  cyclones[b][n][k] \in Truth(b)
    <3>1. n \in 1..Len(cyclones[b])
      BY <2>1
    <3>2. k \in 1..(Len(tracks[b][n]) - 1)
      BY <1>3, <3>1, SegmentsArePairs
    <3>3. PICK pq : pq = <<tracks[b][n][k], tracks[b][n][k+1]>>
      OBVIOUS
    <3>4. cyclones[b][n][k] = SegmentOf(tracks[b][n][k], tracks[b][n][k+1]) /\ pq \in PairsOf(b)
      BY <1>3, <3>1, <3>2, <3>3, SegmentsArePairs
    <3>5. cyclones[b][n][k] = SegmentOf(pq[1], pq[2])
      BY <3>3, <3>4
    <3> QED
      BY <1>1, <3>4, <3>5, TruthByPoints
  <2>3. Shown(b) \subseteq Truth(b)
    BY <2>2 DEF Shown
  <2> QED
    BY <1>3, <2>1, <2>3, SegmentsArePairs
<1> QED
  BY <1>2, <1>3

\* A list that has all the tracks has all their segments.
LEMMA AllSegments ==
    ASSUME TracksInv, pc = "done", NEW b \in Theatres, Len(cyclones[b]) = Len(tracks[b])
    PROVE  Truth(b) \subseteq Shown(b) /\ Total(b) = Cardinality(FollowsIn(b))
<1>1. ConvertInv /\ FilesInv /\ PluginTypes /\ Archive
  BY DEF TracksInv, PluginInv, ConvertInv, ConvertTypes
<1>2. PICK ts, list : ts = tracks[b] /\ list = cyclones[b]
  OBVIOUS
<1>3. Len(ts) \in Nat /\ Len(list) = Len(ts) /\ DOMAIN list = 1..Len(ts)
  <2>1. list \in Seq(Seq(Segments))
    BY <1>1, <1>2 DEF PluginTypes
  <2>2. Len(list) \in Nat /\ DOMAIN list = 1..Len(list)
    BY <2>1
  <2> QED
    BY <1>2, <2>2
<1>4. ASSUME NEW x \in Truth(b) PROVE x \in Shown(b)
  <2>1. PICK pq \in PairsOf(b) : x = SegmentOf(pq[1], pq[2])
    BY <1>1, TruthByPoints
  <2>2. PICK n \in 1..Len(ts) : \E k \in 2..Len(ts[n]) : ts[n][k-1] = pq[1] /\ ts[n][k] = pq[2]
    <3>1. \A xy \in PairsOf(b) :
            \E n \in 1..Len(tracks[b]) : \E k \in 2..Len(tracks[b][n]) :
                tracks[b][n][k-1] = xy[1] /\ tracks[b][n][k] = xy[2]
      BY <1>1, Converted
    <3> QED
      BY <1>2, <3>1
  <2>3. PICK k \in 2..Len(ts[n]) : ts[n][k-1] = pq[1] /\ ts[n][k] = pq[2]
    BY <2>2
  <2>4. /\ Len(ts[n]) \in Nat /\ DOMAIN list[n] = 1..(Len(ts[n]) - 1)
        /\ \A j \in 1..(Len(ts[n]) - 1) : list[n][j] = SegmentOf(ts[n][j], ts[n][j+1])
    BY <1>2, <1>3, SegmentsArePairs
  <2>5. k - 1 \in 1..(Len(ts[n]) - 1) /\ (k - 1) + 1 = k
    BY <2>4
  <2>6. list[n][k-1] = x
    BY <2>1, <2>3, <2>4, <2>5
  <2> QED
    <3>1. n \in DOMAIN cyclones[b] /\ k - 1 \in DOMAIN cyclones[b][n] /\ cyclones[b][n][k-1] = x
      BY <1>2, <1>3, <2>4, <2>5, <2>6
    <3> QED
      BY <3>1 DEF Shown
<1>5. Total(b) = Cardinality(FollowsIn(b))
  <2> DEFINE N == Len(ts)
             f == [n \in 1..N |-> Len(list[n])]
             g == [n \in 1..N |-> Len(ts[n]) - 1]
  <2>1. Total(b) = Run(N, f)[N]
    <3>1. PICK u : u = [n \in 0..N |-> IF n = 0 THEN 0 ELSE u[n-1] + Len(list[n])]
      <4>1. PICK u : u = [n \in 0..N |-> IF n = 0 THEN 0 ELSE u[n-1] + f[n]]
        BY <1>3, RunExists
      <4>2. \A n \in 0..N : n # 0 => f[n] = Len(list[n])
        BY <1>3
      <4>3. u = [n \in 0..N |-> IF n = 0 THEN 0 ELSE u[n-1] + Len(list[n])]
        BY <4>1, <4>2
      <4> QED
        BY <4>3
    <3>2. SegmentsTo(list) =
            [n \in 0..N |-> IF n = 0 THEN 0 ELSE SegmentsTo(list)[n-1] + Len(list[n])]
      BY <1>3, <3>1 DEF SegmentsTo
    <3>3. PICK w : w = SegmentsTo(list)
      OBVIOUS
    <3>4. w[0] = 0 /\ \A n \in 1..N : w[n] = w[n-1] + f[n]
      BY <1>3, <3>2, <3>3
    <3> DEFINE T == {n \in 0..N : w[n] = Run(N, f)[n]}
    <3> HIDE DEF f
    <3>5. N \in Nat
      BY <1>3
    <3> HIDE DEF N
    <3>6. 0 \in T
      BY <3>4, <3>5, RunDef
    <3>7. ASSUME NEW n \in 1..N, n - 1 \in T PROVE n \in T
      <4>1. Run(N, f)[n] = Run(N, f)[n-1] + f[n]
        BY <3>5, RunDef
      <4> QED
        BY <3>4, <3>5, <3>7, <4>1
    <3>8. 0..N \subseteq T
      <4> HIDE DEF T
      <4> QED
        BY <3>5, <3>6, <3>7, CountingUp
    <3>9. w[N] = Run(N, f)[N]
      BY <3>5, <3>8
    <3> QED
      BY <1>2, <1>3, <3>3, <3>9 DEF Total, N
  <2>2. \A n \in 1..N : f[n] = g[n]
    BY <1>2, <1>3, SegmentsArePairs
  <2>3. Cardinality(FollowsIn(b)) = Run(N, g)[N]
    <3>1. LinkTotal(tracks[b]) = Cardinality(FollowsIn(b))
      BY <1>1, Converted
    <3> QED
      BY <1>2, <3>1 DEF LinkTotal
  <2>4. N \in Nat /\ N \in 0..N /\ N <= N
    BY <1>3
  <2> HIDE DEF N, f, g
  <2>5. Run(N, f)[N] = Run(N, g)[N]
    BY <2>2, <2>4, RunSame
  <2> QED
    BY <2>1, <2>3, <2>5
<1> QED
  BY <1>4, <1>5

LEMMA ArchivesHold == TracksInv => SegmentsAreTheArchives
<1> SUFFICES ASSUME TracksInv, NEW b \in Theatres, result[b] # "unread", got[b] = Len(files[b])
             PROVE  /\ result[b] = "read" /\ Shown(b) = Truth(b)
                    /\ Total(b) = Cardinality(FollowsIn(b))
  BY DEF SegmentsAreTheArchives
<1>1. ConvertInv /\ FilesInv /\ PluginInv
  BY DEF TracksInv
<1>2. pc = "done"
  BY <1>1 DEF PluginInv, PluginIdle
<1>3. PluginTypes /\ ResultHolds(b)
  BY <1>1, <1>2 DEF PluginInv
<1>4. PICK ts, file, n : ts = tracks[b] /\ file = files[b] /\ n = Len(cyclones[b])
  OBVIOUS
<1>5. ts \in TrackLists /\ Len(ts) \in Nat /\ file = FileOf(ts, b) /\ Len(file) \in Nat
  BY <1>1, <1>2, <1>4, DoneFile
<1>6. result[b] = "read"
  BY <1>3, <1>4, <1>5 DEF PluginTypes, ResultHolds
<1>7. Offset(ts, n) = Len(file) /\ n <= Len(ts)
  BY <1>3, <1>4, <1>6 DEF ResultHolds
<1>8. n = Len(ts)
  <2>1. n \in Nat
    BY <1>3, <1>4 DEF PluginTypes
  <2>2. n \in 0..Len(ts)
    BY <1>5, <1>7, <2>1
  <2>3. n < Len(ts) => Offset(ts, n) < Len(file)
    BY <1>5, <2>2, FieldBetween
  <2> QED
    BY <1>5, <1>7, <2>2, <2>3
<1>9. Shown(b) \subseteq Truth(b)
  BY WholeTracksHold DEF WholeTracksOnly
<1> QED
  BY <1>2, <1>4, <1>6, <1>8, <1>9, AllSegments

\* A build fails for the faults of its archive, and for nothing else.
THEOREM VerdictIsRight == Spec => []BuildVerdict
  BY TracksInvHolds, VerdictHolds, PTL

\* However short a file arrives, what the plugin shows of it is true, and of a
\* track it shows all or nothing.
THEOREM TracksArriveWhole == Spec => []WholeTracksOnly
  BY TracksInvHolds, WholeTracksHold, PTL

\* A file that arrives whole gives the plugin the archive's segments, as many as
\* there are.
THEOREM SegmentsArrive == Spec => []SegmentsAreTheArchives
  BY TracksInvHolds, ArchivesHold, PTL

=============================================================================
