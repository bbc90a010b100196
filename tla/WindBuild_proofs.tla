-------------------------- MODULE WindBuild_proofs --------------------------
(***************************************************************************)
(* Proofs about the wind build, for any number of processes, years and     *)
(* deaths: what the files on disk say of each other whatever died where,   *)
(* and what every publication therefore holds.                             *)
(***************************************************************************)
EXTENDS WindBuild, TLAPS

Working(b) == pc[b] \notin {"idle", "load"}

\* The lock and the processes agree.
LockHeld == \A b \in Builders : pc[b] # "idle" <=> owner = b

Within(y, first, last) == IF y \in first..last THEN 1 ELSE 0

\* The last year a process has added.
Through(b) == IF pc[b] = "loop" THEN year[b] - 1 ELSE year[b]

\* What a process has in memory: each year it should, and those lost before.
InMemory(b) ==
    LET r == args[b] IN
    /\ r.start <= year[b]
    /\ Through(b) <= r.end
    /\ \A y \in Years :
        /\ sums[b][y] = Within(y, r.start, Through(b)) + lost[y]
        /\ asums[b][y] <= sums[b][y]
        /\ Whole(atm) => atm[y] <= sums[b][y]

\* The progress file is of the year before, or there is none before the first.
YearBefore(b) ==
    \/ json = Absent /\ year[b] = args[b].start
    \/ json \in Progress /\ json.start = args[b].start /\ json.completed = year[b] - 1

\* What a process knows of the files.
OnDisk(b) ==
    /\ pc[b] \in {"loop", "npz", "npz_open", "json"} => YearBefore(b)
    /\ pc[b] = "npz_open" => npz = Torn
    /\ pc[b] \in {"json", "json_open", "atm", "atm_open"} => npz = sums[b]
    /\ pc[b] = "json_open" => json = Torn
    /\ pc[b] \in {"atm", "atm_open"} =>
        json = [start |-> args[b].start, end |-> args[b].end, completed |-> year[b]]

ProcessesConsistent ==
    \A b \in Builders :
        /\ pc[b] # "idle" => args[b] \in Requests
        /\ Working(b) => InMemory(b) /\ OnDisk(b)

\* Progress is between its ends, and nothing precedes the first checkpoint.
FilesConsistent ==
    /\ Whole(json) => json.start <= json.completed /\ json.completed <= json.end
    /\ Fresh => lost = Zero /\ atm = Absent

\* A checkpoint, and who works on it, answers at least what was published.
Covers(start, end) ==
    /\ start = output.request.start
    /\ end >= output.request.end

PublishedIsCovered ==
    output # NoOutput =>
        /\ output.request \in Requests
        /\ ~Fresh
        /\ Whole(json) => Covers(json.start, json.end)
        /\ \A b \in Builders : Working(b) => Covers(args[b].start, args[b].end)

IInv ==
    /\ TypeOK /\ LockHeld /\ ProcessesConsistent /\ FilesConsistent /\ PublishedIsCovered
    /\ SumsAccounted /\ PublishedHoldsEveryYear /\ AtmosphereNeverAhead

-----------------------------------------------------------------------------
(* Facts the action lemmas share                                           *)

LEMMA Typing ==
    /\ Zero \in Counts /\ \A y \in Years : Zero[y] = 0
    /\ Absent \notin Counts /\ Torn \notin Counts /\ Absent # Torn
    /\ Absent \notin Progress /\ Torn \notin Progress
    /\ NoOwner \notin Builders /\ NoRequest \notin Requests
    /\ \A y \in Years : y \in Int
BY YearsAssumption, WindNullsAssumption DEF Zero, Counts, Progress

LEMMA RequestTyping ==
    ASSUME NEW r \in Requests
    PROVE  /\ r.start \in Years /\ r.end \in Years /\ r.atmosphere \in BOOLEAN
           /\ r.start \in Int /\ r.end \in Int /\ r.start <= r.end
           /\ r # NoRequest
           /\ \A y \in r.start..r.end : y \in Years
<1>1. r.start \in Years /\ r.end \in Years /\ r.atmosphere \in BOOLEAN /\ r.start <= r.end
  BY RequestsAssumption
<1> QED
  BY <1>1, Typing, YearsAssumption

\* The lock lets nobody else in: every other process is idle.
LEMMA Alone ==
    ASSUME LockHeld, NEW b \in Builders, owner = b \/ owner = NoOwner,
           NEW c \in Builders, c # b
    PROVE  pc[c] = "idle"
BY Typing DEF LockHeld

\* Who is ahead of its progress file, before and after a step.
LEMMA AheadNow ==
    ASSUME LockHeld, NEW b \in Builders, pc[b] # "idle", NEW y
    PROVE  Ahead(y) = IF pc[b] = "json" /\ year[b] = y THEN 1 ELSE 0
BY DEF LockHeld, Ahead

LEMMA AheadNext ==
    ASSUME LockHeld', NEW b \in Builders, pc'[b] # "idle", NEW y
    PROVE  Ahead(y)' = IF pc'[b] = "json" /\ year'[b] = y THEN 1 ELSE 0
BY DEF LockHeld, Ahead

\* A working process that keeps the lock moves on: everyone else stays idle.
LEMMA MoveOn ==
    ASSUME TypeOK, LockHeld, NEW b \in Builders, pc[b] # "idle",
           NEW place \in Places, place # "idle", Goto(b, place), UNCHANGED owner
    PROVE  /\ LockHeld'
           /\ pc' \in [Builders -> Places]
           /\ pc'[b] = place
           /\ \A c \in Builders : c # b => pc'[c] = "idle"
<1>1. pc' \in [Builders -> Places] /\ pc'[b] = place
      /\ \A c \in Builders : c # b => pc'[c] = pc[c]
  BY DEF Goto, TypeOK
<1>2. owner = b
  BY DEF LockHeld
<1>3. \A c \in Builders : c # b => pc'[c] = "idle"
  BY <1>1, <1>2, Alone
<1>4. LockHeld'
  BY <1>1, <1>2, <1>3 DEF LockHeld
<1> QED
  BY <1>1, <1>3, <1>4

\* A process that ends leaves everyone idle.
LEMMA ExitFacts ==
    ASSUME TypeOK, LockHeld, NEW b \in Builders, pc[b] # "idle", Exit(b)
    PROVE  /\ LockHeld'
           /\ owner' \in Builders \cup {NoOwner}
           /\ pc' \in [Builders -> Places]
           /\ args' \in [Builders -> Requests \cup {NoRequest}]
           /\ sums' \in [Builders -> Counts]
           /\ asums' \in [Builders -> Counts]
           /\ year' \in [Builders -> Int]
           /\ \A c \in Builders : pc'[c] = "idle"
           /\ \A y : Ahead(y)' = 0
<1>1. owner = b /\ owner' = NoOwner
  BY DEF LockHeld, Exit
<1>2. pc' \in [Builders -> Places] /\ pc'[b] = "idle"
      /\ \A c \in Builders : c # b => pc'[c] = pc[c]
  BY DEF Exit, Goto, TypeOK, Places
<1>3. \A c \in Builders : pc'[c] = "idle"
  BY <1>1, <1>2, Alone
<1>4. LockHeld'
  BY <1>1, <1>3, Typing DEF LockHeld
<1>5. \A y : Ahead(y)' = 0
  BY <1>3 DEF Ahead
<1>6. args' \in [Builders -> Requests \cup {NoRequest}]
  BY DEF Exit, TypeOK
<1>7. sums' \in [Builders -> Counts] /\ asums' \in [Builders -> Counts]
  BY Typing DEF Exit, TypeOK
<1>8. year' \in [Builders -> Int]
  BY DEF Exit, TypeOK
<1> QED
  BY <1>1, <1>2, <1>3, <1>4, <1>5, <1>6, <1>7, <1>8

-----------------------------------------------------------------------------
(* The actions keep the invariant                                          *)

LEMMA InitIInv == Init => IInv
<1> SUFFICES ASSUME Init PROVE IInv
  OBVIOUS
<1>1. TypeOK
  BY Typing, WindNullsAssumption DEF Init, TypeOK, Places, Whole, NoOutput
<1>2. LockHeld
  BY Typing DEF Init, LockHeld
<1>3. ProcessesConsistent /\ FilesConsistent /\ PublishedIsCovered
  BY DEF Init, ProcessesConsistent, Working, FilesConsistent, PublishedIsCovered, Whole
<1>4. SumsAccounted /\ PublishedHoldsEveryYear /\ AtmosphereNeverAhead
  BY DEF Init, SumsAccounted, PublishedHoldsEveryYear, AtmosphereNeverAhead, Whole
<1> QED
  BY <1>1, <1>2, <1>3, <1>4 DEF IInv

LEMMA BeginKeeps ==
    ASSUME IInv, NEW b \in Builders, NEW r \in Requests, Begin(b, r) PROVE IInv'
<1>1. pc[b] = "idle" /\ owner = NoOwner /\ \A c \in Builders : pc[c] = "idle"
  BY Alone, Typing DEF Begin, IInv
<1>2. pc' \in [Builders -> Places] /\ pc'[b] = "load"
      /\ \A c \in Builders : c # b => pc'[c] = "idle"
  BY <1>1 DEF Begin, Goto, IInv, TypeOK, Places
<1>3. args' \in [Builders -> Requests \cup {NoRequest}] /\ args'[b] = r
  BY DEF Begin, IInv, TypeOK
<1>4. TypeOK'
  BY <1>2, <1>3 DEF Begin, IInv, TypeOK, files, Whole
<1>5. LockHeld'
  BY <1>2 DEF Begin, LockHeld
<1>6. ProcessesConsistent'
  BY <1>2, <1>3 DEF ProcessesConsistent, Working
<1>7. FilesConsistent' /\ AtmosphereNeverAhead' /\ PublishedHoldsEveryYear'
  BY DEF Begin, IInv, files, FilesConsistent, Whole, Fresh, AtmosphereNeverAhead,
     PublishedHoldsEveryYear
<1>8. PublishedIsCovered'
  BY <1>2 DEF Begin, IInv, files, PublishedIsCovered, Whole, Fresh, Covers, Working
<1>9. \A y : Ahead(y)' = 0 /\ Ahead(y) = 0
  BY <1>1, <1>2 DEF Ahead
<1>10. SumsAccounted'
  BY <1>9 DEF Begin, IInv, files, SumsAccounted, Whole
<1> QED
  BY <1>4, <1>5, <1>6, <1>7, <1>8, <1>10 DEF IInv

LEMMA LoadKeeps ==
    ASSUME IInv, NEW b \in Builders, Load(b) PROVE IInv'
<1> DEFINE r == args[b]
<1>1. pc[b] = "load" /\ r \in Requests
  BY DEF Load, IInv, ProcessesConsistent
<1>2. LockHeld' /\ pc' \in [Builders -> Places] /\ pc'[b] = "loop"
      /\ \A c \in Builders : c # b => pc'[c] = "idle"
  BY <1>1, MoveOn DEF Load, IInv, Places
<1>3. ASSUME ~Fresh
      PROVE  npz \in Counts /\ json \in Progress /\ json.start = r.start
             /\ json.end <= r.end /\ json.start <= json.completed
             /\ json.completed <= json.end
  BY <1>3, <1>1 DEF Load, WindLoadable, Continues, IInv, TypeOK, FilesConsistent, Whole
<1>4. sums' \in [Builders -> Counts] /\ sums'[b] = IF Fresh THEN Zero ELSE npz
  BY <1>3, Typing DEF Load, IInv, TypeOK
<1>5. asums' \in [Builders -> Counts]
      /\ asums'[b] = IF r.atmosphere /\ Whole(atm) THEN atm ELSE Zero
  BY Typing DEF Load, IInv, TypeOK
<1>6. FirstYear(r) \in Int
  BY <1>1, <1>3, RequestTyping, Typing DEF FirstYear, Progress
<1>7. year' \in [Builders -> Int] /\ year'[b] = FirstYear(r) /\ args' = args
  BY <1>6 DEF Load, IInv, TypeOK
<1>8. TypeOK'
  BY <1>2, <1>4, <1>5, <1>7 DEF Load, IInv, TypeOK, files, Whole
<1>9. UNCHANGED <<npz, json, atm, output, lost, owner, args>>
  BY DEF Load, files
<1>10. InMemory(b)'
  <2>1. CASE Fresh
    <3>1. year'[b] = r.start /\ Through(b)' = r.start - 1
      BY <2>1, <1>2, <1>7 DEF FirstYear, Through
    <3>2. \A y \in Years : Within(y, r.start, r.start - 1) = 0
      BY <1>1, RequestTyping, Typing DEF Within
    <3>3. \A y \in Years : lost[y] = 0 /\ ~Whole(atm)
      BY <2>1, Typing DEF IInv, FilesConsistent, Whole
    <3>4. \A y \in Years : sums'[b][y] = 0 /\ asums'[b][y] = 0
      BY <2>1, <3>3, <1>4, <1>5, Typing
    <3> QED
      BY <3>1, <3>2, <3>3, <3>4, <1>9, <1>1, RequestTyping DEF InMemory, Whole
  <2>2. CASE ~Fresh
    <3>1. json.completed \in Int /\ json.start \in Int /\ json.end \in Int
      BY <2>2, <1>3, Typing DEF Progress
    <3>2. year'[b] = json.completed + 1 /\ Through(b)' = json.completed
      BY <2>2, <3>1, <1>2, <1>7 DEF FirstYear, Through
    <3>3. \A y \in Years : npz[y] = Within(y, json.start, json.completed) + lost[y]
      <4>1. \A y \in Years : Ahead(y) = 0
        BY <1>1, AheadNow DEF IInv
      <4>2. Whole(npz) /\ Whole(json)
        BY <2>2, <1>3, Typing DEF Whole
      <4>3. lost \in Counts
        BY DEF IInv, TypeOK
      <4> QED
        BY <4>1, <4>2, <4>3 DEF IInv, SumsAccounted, Within, Counts
    <3>4. \A y \in Years : Whole(atm) => atm[y] <= npz[y]
      BY <2>2, <1>3, Typing DEF IInv, AtmosphereNeverAhead, Whole
    <3>5. \A y \in Years : asums'[b][y] <= npz[y]
      BY <2>2, <3>4, <1>5, <1>3, Typing DEF Counts
    <3> QED
      BY <2>2, <3>1, <3>2, <3>3, <3>4, <3>5, <1>3, <1>4, <1>9, <1>1, RequestTyping
      DEF InMemory, Whole
  <2> QED
    BY <2>1, <2>2
<1>11. OnDisk(b)'
  <2>1. YearBefore(b)'
    <3>1. CASE Fresh
      BY <3>1, <1>7, <1>9 DEF YearBefore, FirstYear, Fresh
    <3>2. CASE ~Fresh
      BY <3>2, <1>3, <1>7, <1>9, Typing DEF YearBefore, FirstYear, Progress
    <3> QED
      BY <3>1, <3>2
  <2> QED
    BY <2>1, <1>2 DEF OnDisk
<1>12. ProcessesConsistent'
  BY <1>1, <1>2, <1>9, <1>10, <1>11 DEF ProcessesConsistent, Working
<1>13. FilesConsistent' /\ AtmosphereNeverAhead' /\ PublishedHoldsEveryYear'
  BY <1>9 DEF IInv, FilesConsistent, Whole, Fresh, AtmosphereNeverAhead,
     PublishedHoldsEveryYear
<1>14. PublishedIsCovered'
  <2> SUFFICES ASSUME output # NoOutput PROVE PublishedIsCovered'
    BY <1>9 DEF PublishedIsCovered
  <2>1. output.request \in Requests /\ ~Fresh
    BY DEF IInv, PublishedIsCovered
  <2>2. Covers(json.start, json.end)
    BY <2>1, <1>3, Typing DEF IInv, PublishedIsCovered, Whole
  <2>3. Covers(r.start, r.end)
    BY <2>1, <2>2, <1>1, <1>3, RequestTyping, Typing DEF Covers, Progress
  <2> QED
    BY <2>1, <2>2, <2>3, <1>2, <1>9 DEF PublishedIsCovered, Covers, Whole, Fresh, Working
<1>15. SumsAccounted'
  <2>1. \A y : Ahead(y) = 0 /\ Ahead(y)' = 0
    BY <1>1, <1>2, AheadNow, AheadNext DEF IInv
  <2> QED
    BY <2>1, <1>9 DEF IInv, SumsAccounted, Whole
<1> QED
  BY <1>2, <1>8, <1>12, <1>13, <1>14, <1>15 DEF IInv

LEMMA RefuseKeeps ==
    ASSUME IInv, NEW b \in Builders, Refuse(b) PROVE IInv'
<1>1. pc[b] = "load"
  BY DEF Refuse
<1>2. LockHeld' /\ owner' \in Builders \cup {NoOwner} /\ pc' \in [Builders -> Places]
      /\ args' \in [Builders -> Requests \cup {NoRequest}]
      /\ sums' \in [Builders -> Counts] /\ asums' \in [Builders -> Counts]
      /\ year' \in [Builders -> Int] /\ \A c \in Builders : pc'[c] = "idle"
      /\ \A y : Ahead(y)' = 0
  BY <1>1, ExitFacts DEF Refuse, IInv
<1>3. UNCHANGED <<npz, json, atm, output, lost, deaths>>
  BY DEF Refuse, files
<1>4. TypeOK'
  BY <1>2, <1>3 DEF IInv, TypeOK, Whole
<1>5. ProcessesConsistent'
  BY <1>2 DEF ProcessesConsistent, Working
<1>6. FilesConsistent' /\ AtmosphereNeverAhead' /\ PublishedHoldsEveryYear'
  BY <1>3 DEF IInv, FilesConsistent, Whole, Fresh, AtmosphereNeverAhead,
     PublishedHoldsEveryYear
<1>7. PublishedIsCovered'
  BY <1>2, <1>3 DEF IInv, PublishedIsCovered, Whole, Fresh, Covers, Working
<1>8. SumsAccounted'
  <2>1. \A y : Ahead(y) = 0
    BY <1>1, AheadNow DEF IInv
  <2> QED
    BY <2>1, <1>2, <1>3 DEF IInv, SumsAccounted, Whole
<1> QED
  BY <1>2, <1>4, <1>5, <1>6, <1>7, <1>8 DEF IInv

LEMMA AccumulateKeeps ==
    ASSUME IInv, NEW b \in Builders, Accumulate(b) PROVE IInv'
<1> DEFINE r == args[b]
           now == year[b]
<1>1. pc[b] = "loop" /\ r \in Requests /\ InMemory(b) /\ OnDisk(b) /\ now <= r.end
  BY DEF Accumulate, IInv, ProcessesConsistent, Working
<1>2. LockHeld' /\ pc' \in [Builders -> Places] /\ pc'[b] = "npz"
      /\ \A c \in Builders : c # b => pc'[c] = "idle"
  BY <1>1, MoveOn DEF Accumulate, IInv, Places
<1>3. now \in Int /\ r.start <= now /\ now \in Years
  BY <1>1, RequestTyping DEF InMemory, IInv, TypeOK
<1>4. UNCHANGED <<npz, json, atm, output, lost, owner, args, year, deaths>>
  BY DEF Accumulate, files
<1>5. sums[b] \in Counts /\ asums[b] \in Counts /\ lost \in Counts
  BY DEF IInv, TypeOK
<1>6. /\ sums' \in [Builders -> Counts]
      /\ \A y \in Years : sums'[b][y] = sums[b][y] + (IF y = now THEN 1 ELSE 0)
  BY <1>3, <1>5 DEF Accumulate, IInv, TypeOK, Counts
<1>7. /\ asums' \in [Builders -> Counts]
      /\ \A y \in Years : asums'[b][y] <= asums[b][y] + (IF y = now THEN 1 ELSE 0)
  BY <1>3, <1>5 DEF Accumulate, IInv, TypeOK, Counts
<1>8. TypeOK'
  BY <1>2, <1>4, <1>6, <1>7 DEF IInv, TypeOK, Whole
<1>9. InMemory(b)'
  <2>1. Through(b) = now - 1 /\ Through(b)' = now
    BY <1>1, <1>2, <1>4 DEF Through
  <2>2. \A y \in Years : Within(y, r.start, now)
                         = Within(y, r.start, now - 1) + (IF y = now THEN 1 ELSE 0)
    BY <1>1, <1>3, RequestTyping, Typing DEF Within
  <2>3. \A y \in Years : sums[b][y] \in Nat /\ asums[b][y] \in Nat /\ lost[y] \in Nat
                         /\ sums'[b][y] \in Nat /\ asums'[b][y] \in Nat
                         /\ (Whole(atm) => atm[y] \in Nat)
    BY <1>5, <1>6, <1>7 DEF Counts, IInv, TypeOK
  <2>4. \A y \in Years : Within(y, r.start, now - 1) \in Nat
    BY DEF Within
  <2> QED
    BY <2>1, <2>2, <2>3, <2>4, <1>1, <1>3, <1>4, <1>6, <1>7 DEF InMemory, Whole
<1>10. OnDisk(b)'
  BY <1>1, <1>2, <1>4 DEF OnDisk, YearBefore
<1>11. ProcessesConsistent'
  BY <1>1, <1>2, <1>4, <1>9, <1>10 DEF ProcessesConsistent, Working
<1>12. FilesConsistent' /\ AtmosphereNeverAhead' /\ PublishedHoldsEveryYear'
  BY <1>4 DEF IInv, FilesConsistent, Whole, Fresh, AtmosphereNeverAhead,
     PublishedHoldsEveryYear
<1>13. PublishedIsCovered'
  BY <1>1, <1>2, <1>4 DEF IInv, PublishedIsCovered, Whole, Fresh, Covers, Working
<1>14. SumsAccounted'
  <2>1. \A y : Ahead(y) = 0 /\ Ahead(y)' = 0
    BY <1>1, <1>2, AheadNow, AheadNext DEF IInv
  <2> QED
    BY <2>1, <1>4 DEF IInv, SumsAccounted, Whole
<1> QED
  BY <1>2, <1>8, <1>11, <1>12, <1>13, <1>14 DEF IInv

\* What a process in the middle of its year knows: the year is one it was
\* asked for, and its sums hold the years up to it.
LEMMA MidYear ==
    ASSUME IInv, NEW b \in Builders, Working(b), pc[b] # "loop"
    PROVE  /\ args[b] \in Requests /\ InMemory(b) /\ OnDisk(b)
           /\ year[b] \in Years /\ year[b] \in Int
           /\ args[b].start <= year[b] /\ year[b] <= args[b].end
           /\ sums[b] \in Counts /\ asums[b] \in Counts /\ lost \in Counts
           /\ Through(b) = year[b]
           /\ \A y \in Years : sums[b][y] = Within(y, args[b].start, year[b]) + lost[y]
<1>1. args[b] \in Requests /\ InMemory(b) /\ OnDisk(b)
  BY DEF IInv, ProcessesConsistent, Working
<1>2. year[b] \in Int /\ Through(b) = year[b]
  BY DEF IInv, TypeOK, Through
<1>3. args[b].start <= year[b] /\ year[b] <= args[b].end
  BY <1>1, <1>2 DEF InMemory
<1>4. year[b] \in Years
  BY <1>1, <1>2, <1>3, RequestTyping
<1> QED
  BY <1>1, <1>2, <1>3, <1>4 DEF IInv, TypeOK, InMemory

LEMMA TruncateKeeps ==
    ASSUME IInv, NEW b \in Builders, Truncate(b) PROVE IInv'
<1> DEFINE place == Opened[pc[b]]
<1>1. pc[b] \in {"npz", "json", "atm"}
      /\ place = IF pc[b] = "npz" THEN "npz_open"
                 ELSE IF pc[b] = "json" THEN "json_open" ELSE "atm_open"
  BY DEF Truncate, Opened
<1>2. Working(b) /\ pc[b] # "loop" /\ place \in Places /\ place # "idle"
  BY <1>1 DEF Working, Places
<1>3. LockHeld' /\ pc' \in [Builders -> Places] /\ pc'[b] = place
      /\ \A c \in Builders : c # b => pc'[c] = "idle"
  <2>1. Goto(b, place) /\ UNCHANGED owner
    BY DEF Truncate
  <2> QED
    BY <2>1, <1>2, MoveOn DEF IInv, Working
<1>4. /\ npz' = IF pc[b] = "npz" THEN Torn ELSE npz
      /\ json' = IF pc[b] = "json" THEN Torn ELSE json
      /\ atm' = IF pc[b] = "atm" THEN Torn ELSE atm
      /\ UNCHANGED <<output, lost, owner, args, sums, asums, year, deaths>>
  BY DEF Truncate, local
<1>5. args[b] \in Requests /\ InMemory(b) /\ OnDisk(b) /\ Through(b) = year[b]
  BY <1>2, MidYear
<1>6. TypeOK'
  BY <1>3, <1>4 DEF IInv, TypeOK, Whole
<1>7. ~Fresh'
  <2>1. CASE pc[b] = "npz"
    BY <2>1, <1>4, Typing DEF Fresh
  <2>2. CASE pc[b] = "json"
    BY <2>2, <1>4, Typing DEF Fresh
  <2>3. CASE pc[b] = "atm"
    BY <2>3, <1>2, <1>4, MidYear, Typing DEF Fresh, OnDisk
  <2> QED
    BY <1>1, <2>1, <2>2, <2>3
<1>8. ProcessesConsistent'
  <2>1. Through(b)' = year[b]
    BY <1>1, <1>3, <1>4 DEF Through
  <2>2. InMemory(b)'
    BY <2>1, <1>4, <1>5 DEF InMemory, Whole
  <2>3. OnDisk(b)'
    BY <1>1, <1>3, <1>4, <1>5 DEF OnDisk, YearBefore
  <2> QED
    BY <2>2, <2>3, <1>3, <1>4, <1>5 DEF ProcessesConsistent, Working
<1>9. FilesConsistent' /\ AtmosphereNeverAhead' /\ PublishedHoldsEveryYear'
  BY <1>4, <1>7 DEF IInv, FilesConsistent, Whole, AtmosphereNeverAhead,
     PublishedHoldsEveryYear
<1>10. PublishedIsCovered'
  BY <1>2, <1>3, <1>4, <1>7 DEF IInv, PublishedIsCovered, Whole, Covers, Working
<1>11. SumsAccounted'
  <2>1. ASSUME Whole(npz)', Whole(json)' PROVE pc[b] = "atm" /\ npz' = npz /\ json' = json
    BY <2>1, <1>1, <1>4 DEF Whole
  <2>2. ASSUME pc[b] = "atm" PROVE \A y : Ahead(y) = 0 /\ Ahead(y)' = 0
    BY <2>2, <1>1, <1>3, AheadNow, AheadNext DEF IInv
  <2> QED
    BY <2>1, <2>2, <1>4 DEF IInv, SumsAccounted, Whole
<1> QED
  BY <1>3, <1>6, <1>8, <1>9, <1>10, <1>11 DEF IInv

LEMMA SaveSumsKeeps ==
    ASSUME IInv, NEW b \in Builders, SaveSums(b) PROVE IInv'
<1>1. pc[b] = "npz_open" /\ Working(b) /\ pc[b] # "loop"
  BY DEF SaveSums, Working
<1>2. LockHeld' /\ pc' \in [Builders -> Places] /\ pc'[b] = "json"
      /\ \A c \in Builders : c # b => pc'[c] = "idle"
  BY <1>1, MoveOn DEF SaveSums, IInv, Places
<1>3. npz' = sums[b]
      /\ UNCHANGED <<json, atm, output, lost, owner, args, sums, asums, year, deaths>>
  BY DEF SaveSums, local
<1>4. args[b] \in Requests /\ InMemory(b) /\ OnDisk(b) /\ Through(b) = year[b]
      /\ sums[b] \in Counts /\ lost \in Counts /\ year[b] \in Int
      /\ args[b].start <= year[b]
  BY <1>1, MidYear
<1>5. ~Fresh'
  BY <1>3, <1>4, Typing DEF Fresh
<1>6. TypeOK'
  BY <1>2, <1>3, <1>4 DEF IInv, TypeOK, Whole
<1>7. ProcessesConsistent'
  <2>1. Through(b)' = year[b]
    BY <1>2, <1>3 DEF Through
  <2>2. InMemory(b)'
    BY <2>1, <1>3, <1>4 DEF InMemory, Whole
  <2>3. OnDisk(b)'
    BY <1>1, <1>2, <1>3, <1>4 DEF OnDisk, YearBefore
  <2> QED
    BY <2>2, <2>3, <1>2, <1>3, <1>4 DEF ProcessesConsistent, Working
<1>8. FilesConsistent' /\ PublishedHoldsEveryYear'
  BY <1>3, <1>5 DEF IInv, FilesConsistent, Whole, PublishedHoldsEveryYear
<1>9. AtmosphereNeverAhead'
  BY <1>3, <1>4 DEF AtmosphereNeverAhead, InMemory, Whole
<1>10. PublishedIsCovered'
  BY <1>1, <1>2, <1>3, <1>5 DEF IInv, PublishedIsCovered, Whole, Covers, Working
<1>11. SumsAccounted'
  <2> SUFFICES ASSUME Whole(json), NEW y \in Years
               PROVE  sums[b][y] = Within(y, json.start, json.completed) + lost[y] + Ahead(y)'
    BY <1>3 DEF SumsAccounted, Whole, Within
  <2>1. json \in Progress /\ json.start = args[b].start /\ json.completed = year[b] - 1
    BY <1>1, <1>4 DEF OnDisk, YearBefore, Whole
  <2>2. sums[b][y] = Within(y, args[b].start, year[b]) + lost[y]
    BY <1>1, MidYear
  <2>3. Ahead(y)' = IF year[b] = y THEN 1 ELSE 0
    BY <1>2, <1>3, AheadNext
  <2>4. args[b].start \in Int /\ y \in Int /\ lost[y] \in Nat
    BY <1>4, RequestTyping, Typing DEF Counts
  <2> QED
    BY <2>1, <2>2, <2>3, <2>4, <1>4 DEF Within
<1> QED
  BY <1>2, <1>6, <1>7, <1>8, <1>9, <1>10, <1>11 DEF IInv

LEMMA SaveProgressKeeps ==
    ASSUME IInv, NEW b \in Builders, SaveProgress(b) PROVE IInv'
<1> DEFINE r == args[b]
           now == year[b]
           next == IF r.atmosphere THEN "atm" ELSE "loop"
<1>1. pc[b] = "json_open" /\ Working(b) /\ pc[b] # "loop"
  BY DEF SaveProgress, Working
<1>2. r \in Requests /\ InMemory(b) /\ OnDisk(b) /\ Through(b) = now
      /\ sums[b] \in Counts /\ lost \in Counts /\ now \in Years /\ now \in Int
      /\ r.start <= now /\ now <= r.end
  BY <1>1, MidYear
<1>3. Goto(b, next) /\ next \in Places /\ next # "idle"
  BY DEF SaveProgress, Places
<1>4. LockHeld' /\ pc' \in [Builders -> Places] /\ pc'[b] = next
      /\ \A c \in Builders : c # b => pc'[c] = "idle"
  BY <1>1, <1>3, MoveOn DEF SaveProgress, IInv
<1>5. /\ json' = [start |-> r.start, end |-> r.end, completed |-> now]
      /\ UNCHANGED <<npz, atm, output, lost, owner, args, sums, asums, deaths>>
  BY DEF SaveProgress
<1>6. year' \in [Builders -> Int]
      /\ year'[b] = IF r.atmosphere THEN now ELSE now + 1
  BY <1>2 DEF SaveProgress, NextYear, IInv, TypeOK
<1>7. json' \in Progress /\ npz = sums[b] /\ npz \in Counts
  BY <1>1, <1>2, <1>5, RequestTyping DEF Progress, OnDisk
<1>8. ~Fresh'
  BY <1>7, Typing DEF Fresh
<1>9. TypeOK'
  BY <1>4, <1>5, <1>6, <1>7 DEF IInv, TypeOK, Whole
<1>10. ProcessesConsistent'
  <2>1. Through(b)' = now
    BY <1>2, <1>4, <1>6 DEF Through
  <2>2. InMemory(b)'
    BY <2>1, <1>2, <1>5, <1>6, RequestTyping DEF InMemory, Whole
  <2>3. OnDisk(b)'
    BY <1>2, <1>4, <1>5, <1>6, <1>7 DEF OnDisk, YearBefore
  <2> QED
    BY <2>2, <2>3, <1>2, <1>4, <1>5 DEF ProcessesConsistent, Working
<1>11. FilesConsistent' /\ AtmosphereNeverAhead' /\ PublishedHoldsEveryYear'
  BY <1>2, <1>5, <1>8 DEF IInv, FilesConsistent, Whole, AtmosphereNeverAhead,
     PublishedHoldsEveryYear
<1>12. PublishedIsCovered'
  BY <1>1, <1>4, <1>5, <1>8 DEF IInv, PublishedIsCovered, Whole, Covers, Working
<1>13. SumsAccounted'
  <2>1. \A y : Ahead(y)' = 0
    BY <1>3, <1>4, AheadNext
  <2>2. \A y \in Years : npz[y] = Within(y, r.start, now) + lost[y]
    BY <1>1, <1>7, MidYear
  <2> QED
    BY <2>1, <2>2, <1>2, <1>5 DEF SumsAccounted, Within, Counts
<1> QED
  BY <1>4, <1>9, <1>10, <1>11, <1>12, <1>13 DEF IInv

LEMMA SaveAtmosphereKeeps ==
    ASSUME IInv, NEW b \in Builders, SaveAtmosphere(b) PROVE IInv'
<1> DEFINE r == args[b]
           now == year[b]
<1>1. pc[b] = "atm_open" /\ Working(b) /\ pc[b] # "loop"
  BY DEF SaveAtmosphere, Working
<1>2. r \in Requests /\ InMemory(b) /\ OnDisk(b) /\ Through(b) = now
      /\ sums[b] \in Counts /\ asums[b] \in Counts /\ lost \in Counts
      /\ now \in Years /\ now \in Int /\ r.start <= now /\ now <= r.end
  BY <1>1, MidYear
<1>3. LockHeld' /\ pc' \in [Builders -> Places] /\ pc'[b] = "loop"
      /\ \A c \in Builders : c # b => pc'[c] = "idle"
  BY <1>1, MoveOn DEF SaveAtmosphere, IInv, Places
<1>4. atm' = asums[b]
      /\ UNCHANGED <<npz, json, output, lost, owner, args, sums, asums, deaths>>
  BY DEF SaveAtmosphere
<1>5. year' \in [Builders -> Int] /\ year'[b] = now + 1
  BY <1>2 DEF SaveAtmosphere, NextYear, IInv, TypeOK
<1>6. npz = sums[b] /\ json = [start |-> r.start, end |-> r.end, completed |-> now]
  BY <1>1, <1>2 DEF OnDisk
<1>7. ~Fresh /\ ~Fresh'
  BY <1>2, <1>4, <1>6, Typing DEF Fresh
<1>8. TypeOK'
  BY <1>2, <1>3, <1>4, <1>5 DEF IInv, TypeOK, Whole
<1>9. ProcessesConsistent'
  <2>1. Through(b)' = now
    BY <1>2, <1>3, <1>5 DEF Through
  <2>2. InMemory(b)'
    BY <2>1, <1>2, <1>4, <1>5, RequestTyping DEF InMemory
  <2>3. json \in Progress
    BY <1>2, <1>6, RequestTyping DEF Progress
  <2>4. OnDisk(b)'
    BY <2>3, <1>2, <1>3, <1>4, <1>5, <1>6 DEF OnDisk, YearBefore
  <2> QED
    BY <2>2, <2>4, <1>2, <1>3, <1>4 DEF ProcessesConsistent, Working
<1>10. FilesConsistent' /\ PublishedHoldsEveryYear'
  BY <1>4, <1>7 DEF IInv, FilesConsistent, Whole, PublishedHoldsEveryYear
<1>11. AtmosphereNeverAhead'
  BY <1>2, <1>4, <1>6 DEF AtmosphereNeverAhead, InMemory
<1>12. PublishedIsCovered'
  BY <1>1, <1>3, <1>4, <1>7 DEF IInv, PublishedIsCovered, Whole, Covers, Working
<1>13. SumsAccounted'
  <2>1. \A y : Ahead(y) = 0 /\ Ahead(y)' = 0
    BY <1>1, <1>3, AheadNow, AheadNext DEF IInv
  <2> QED
    BY <2>1, <1>4 DEF IInv, SumsAccounted, Whole
<1> QED
  BY <1>3, <1>8, <1>9, <1>10, <1>11, <1>12, <1>13 DEF IInv

\* A process that publishes has added the years it was asked for, and the
\* progress file says so.
LEMMA AtPublication ==
    ASSUME IInv, NEW b \in Builders, Publish(b)
    PROVE  /\ args[b] \in Requests /\ sums[b] \in Counts /\ lost \in Counts
           /\ json \in Progress /\ json.start = args[b].start
           /\ json.end >= args[b].end
           /\ \A y \in Years :
                sums[b][y] = Within(y, args[b].start, args[b].end) + lost[y]
<1> DEFINE r == args[b]
<1>1. pc[b] = "loop" /\ year[b] > r.end
  BY DEF Publish
<1>2. r \in Requests /\ InMemory(b) /\ OnDisk(b)
  BY <1>1 DEF IInv, ProcessesConsistent, Working
<1>3. year[b] \in Int /\ sums[b] \in Counts /\ lost \in Counts
  BY DEF IInv, TypeOK
<1>4. Through(b) = r.end /\ year[b] = r.end + 1
  BY <1>1, <1>2, <1>3, RequestTyping DEF InMemory, Through
<1>5. json \in Progress /\ json.start = r.start /\ json.completed = r.end
  BY <1>1, <1>2, <1>4, RequestTyping DEF OnDisk, YearBefore
<1>6. json.end >= r.end
  BY <1>2, <1>5, RequestTyping, Typing DEF IInv, FilesConsistent, Whole, Progress
<1> QED
  BY <1>2, <1>3, <1>4, <1>5, <1>6 DEF InMemory

LEMMA PublishKeeps ==
    ASSUME IInv, NEW b \in Builders, Publish(b) PROVE IInv'
<1> DEFINE r == args[b]
<1>1. pc[b] = "loop"
  BY DEF Publish
<1>2. LockHeld' /\ owner' \in Builders \cup {NoOwner} /\ pc' \in [Builders -> Places]
      /\ args' \in [Builders -> Requests \cup {NoRequest}]
      /\ sums' \in [Builders -> Counts] /\ asums' \in [Builders -> Counts]
      /\ year' \in [Builders -> Int] /\ \A c \in Builders : pc'[c] = "idle"
      /\ \A y : Ahead(y)' = 0
  BY <1>1, ExitFacts DEF Publish, IInv
<1>3. output' = [wind |-> sums[b], request |-> r] /\ UNCHANGED <<npz, json, atm, lost, deaths>>
  BY DEF Publish, files
<1>4. r \in Requests /\ sums[b] \in Counts /\ lost \in Counts
      /\ json \in Progress /\ json.start = r.start /\ json.end >= r.end
      /\ \A y \in Years : sums[b][y] = Within(y, r.start, r.end) + lost[y]
  BY AtPublication
<1>5. TypeOK'
  BY <1>2, <1>3, <1>4 DEF IInv, TypeOK, Whole
<1>6. ProcessesConsistent'
  BY <1>2 DEF ProcessesConsistent, Working
<1>7. FilesConsistent' /\ AtmosphereNeverAhead'
  BY <1>3 DEF IInv, FilesConsistent, Whole, Fresh, AtmosphereNeverAhead
<1>8. PublishedHoldsEveryYear'
  BY <1>3, <1>4 DEF PublishedHoldsEveryYear, Within, Counts
<1>9. PublishedIsCovered'
  BY <1>2, <1>3, <1>4, Typing DEF PublishedIsCovered, Fresh, Covers, Working
<1>10. SumsAccounted'
  <2>1. \A y : Ahead(y) = 0
    BY <1>1, AheadNow DEF IInv
  <2> QED
    BY <2>1, <1>2, <1>3 DEF IInv, SumsAccounted, Whole
<1> QED
  BY <1>2, <1>5, <1>6, <1>7, <1>8, <1>9, <1>10 DEF IInv

LEMMA DieKeeps ==
    ASSUME IInv, NEW b \in Builders, Die(b) PROVE IInv'
<1>1. pc[b] # "idle"
  BY DEF Die
<1>2. LockHeld' /\ owner' \in Builders \cup {NoOwner} /\ pc' \in [Builders -> Places]
      /\ args' \in [Builders -> Requests \cup {NoRequest}]
      /\ sums' \in [Builders -> Counts] /\ asums' \in [Builders -> Counts]
      /\ year' \in [Builders -> Int] /\ \A c \in Builders : pc'[c] = "idle"
      /\ \A y : Ahead(y)' = 0
  BY <1>1, ExitFacts DEF Die, IInv
<1>3. UNCHANGED <<npz, json, atm, output>>
  BY DEF Die, files
<1>a. deaths' \in 0..MaxDeaths
  <2>1. deaths \in 0..MaxDeaths /\ MaxDeaths \in Nat
    BY WindNullsAssumption DEF IInv, TypeOK
  <2>2. deaths < MaxDeaths /\ deaths' = deaths + 1
    BY DEF Die
  <2> QED
    BY <2>1, <2>2
<1>4. lost \in Counts /\ lost' \in Counts
  <2>1. lost \in Counts
    BY DEF IInv, TypeOK
  <2>2. CASE pc[b] = "json"
    <3>1. year[b] \in Years /\ lost' = [lost EXCEPT ![year[b]] = @ + 1]
      BY <2>2, MidYear DEF Die, Working
    <3> QED
      BY <2>1, <3>1 DEF Counts
  <2>3. CASE pc[b] # "json"
    BY <2>1, <2>3 DEF Die
  <2> QED
    BY <2>1, <2>2, <2>3
<1>5. \A y \in Years : lost'[y] = lost[y] + Ahead(y)
  <2>1. \A y : Ahead(y) = IF pc[b] = "json" /\ year[b] = y THEN 1 ELSE 0
    BY <1>1, AheadNow DEF IInv
  <2> QED
    BY <2>1, <1>4 DEF Die, Counts
<1>6. TypeOK'
  BY <1>2, <1>3, <1>4, <1>a DEF IInv, TypeOK, Whole
<1>7. ProcessesConsistent'
  BY <1>2 DEF ProcessesConsistent, Working
<1>8. FilesConsistent'
  <2>1. ASSUME Fresh PROVE lost' = lost
    <3>1. pc[b] # "json"
      BY <2>1, MidYear, Typing DEF Fresh, OnDisk, Working
    <3> QED
      BY <3>1 DEF Die
  <2> QED
    BY <2>1, <1>3 DEF IInv, FilesConsistent, Whole, Fresh
<1>9. AtmosphereNeverAhead'
  BY <1>3 DEF IInv, AtmosphereNeverAhead, Whole
<1>10. PublishedHoldsEveryYear'
  <2>1. \A y \in Years : lost[y] \in Nat /\ lost'[y] \in Nat /\ lost[y] <= lost'[y]
    BY <1>4, <1>5 DEF Counts, Ahead
  <2> QED
    BY <2>1, <1>3 DEF IInv, PublishedHoldsEveryYear
<1>11. PublishedIsCovered'
  BY <1>2, <1>3 DEF IInv, PublishedIsCovered, Whole, Fresh, Covers, Working
<1>12. SumsAccounted'
  <2>1. \A y : Ahead(y) \in Int
    BY DEF Ahead
  <2> QED
    BY <2>1, <1>2, <1>3, <1>4, <1>5 DEF IInv, SumsAccounted, Whole, Counts
<1> QED
  BY <1>2, <1>6, <1>7, <1>8, <1>9, <1>10, <1>11, <1>12 DEF IInv

LEMMA StutterKeeps ==
    ASSUME IInv, UNCHANGED vars PROVE IInv'
<1>1. UNCHANGED <<owner, npz, json, atm, output, pc, args, sums, asums, year, lost, deaths>>
  BY DEF vars, files, local
<1>2. TypeOK' /\ LockHeld' /\ FilesConsistent'
  BY <1>1 DEF IInv, TypeOK, LockHeld, FilesConsistent, Whole, Fresh
<1>3. ProcessesConsistent'
  BY <1>1 DEF IInv, ProcessesConsistent, Working, InMemory, OnDisk, Through, YearBefore, Whole
<1>4. PublishedIsCovered' /\ SumsAccounted' /\ PublishedHoldsEveryYear' /\ AtmosphereNeverAhead'
  BY <1>1 DEF IInv, PublishedIsCovered, Covers, Fresh, Whole, Working, SumsAccounted, Ahead,
     PublishedHoldsEveryYear, AtmosphereNeverAhead
<1> QED
  BY <1>2, <1>3, <1>4 DEF IInv

LEMMA NextIInv == IInv /\ [Next]_vars => IInv'
<1> SUFFICES ASSUME IInv, [Next]_vars PROVE IInv'
  OBVIOUS
<1>1. ASSUME NEW b \in Builders, Step(b) PROVE IInv'
  BY <1>1, BeginKeeps, LoadKeeps, RefuseKeeps, AccumulateKeeps, TruncateKeeps, SaveSumsKeeps,
     SaveProgressKeeps, SaveAtmosphereKeeps, PublishKeeps DEF Step
<1>2. ASSUME NEW b \in Builders, Die(b) PROVE IInv'
  BY <1>2, DieKeeps
<1> QED
  BY <1>1, <1>2, StutterKeeps DEF Next

LEMMA InvariantHolds == Spec => []IInv
BY InitIInv, NextIInv, PTL DEF Spec

-----------------------------------------------------------------------------
(* What is proved of the wind build                                        *)

\* Type correctness: whatever died, a file is absent, torn, or of its shape.
THEOREM TypeCorrect == Spec => []TypeOK
BY InvariantHolds, PTL DEF IInv

\* Every year in the saved sums is accounted for by the progress file or by a
\* death between the two writes (save_checkpoint, then _save_state).
THEOREM EveryYearAccounted == Spec => []SumsAccounted
BY InvariantHolds, PTL DEF IInv

\* What main() publishes holds every year of its request, and each once but
\* for such deaths.
THEOREM PublicationHoldsItsYears == Spec => []PublishedHoldsEveryYear
BY InvariantHolds, PTL DEF IInv

\* The atmosphere checkpoint, written last, never holds a year more often
\* than the wind sums.
THEOREM AtmosphereFollows == Spec => []AtmosphereNeverAhead
BY InvariantHolds, PTL DEF IInv

LEMMA PublicationGrows ==
    ASSUME IInv, [Next]_vars, output # NoOutput, output' # output
    PROVE  output'.request.start = output.request.start
           /\ output'.request.end >= output.request.end
<1>1. PICK b \in Builders : Publish(b)
  BY DEF vars, Next, Step, Begin, Load, Refuse, Accumulate, Truncate, SaveSums, SaveProgress,
     SaveAtmosphere, Die
<1>2. output'.request = args[b]
  BY <1>1 DEF Publish
<1>3. Working(b)
  BY <1>1 DEF Publish, Working
<1> QED
  BY <1>2, <1>3 DEF IInv, PublishedIsCovered, Covers

\* _load refuses another start and a smaller end, so that whichever process
\* publishes next covers the years of the publication before.
THEOREM PublicationsGrow == Spec => PublicationsOnlyGrow
<1>1. IInv /\ [Next]_vars =>
        [output # NoOutput =>
            /\ output'.request.start = output.request.start
            /\ output'.request.end >= output.request.end]_output
  BY PublicationGrows
<1> QED
  BY <1>1, InvariantHolds, PTL DEF Spec, PublicationsOnlyGrow
=============================================================================
