------------------------- MODULE OscarAcquire_proofs -------------------------
(***************************************************************************)
(* Proofs about OscarAcquire, for any calendar, any periods, any granules  *)
(* and any set of processes: the checkpoint is exact whatever dies when,   *)
(* and it implements the serial pass.                                      *)
(***************************************************************************)
EXTENDS OscarAcquire, TLAPS

(* ---- The calendar: the months of a period follow one another without ---- *)
(* ---- gap or overlap from its first day to its last                   ---- *)

LEMMA MonthsOrdered ==
    ASSUME NEW m \in 1..(Months + 1), NEW n \in 1..(Months + 1)
    PROVE  /\ MonthFirst[m] \in Int
           /\ m < n => MonthFirst[m] < MonthFirst[n]
           /\ m <= n => MonthFirst[m] <= MonthFirst[n]
BY MonthsAssumption

LEMMA DaysInt == Days \subseteq Int /\ BeforeAll \in Int /\ BeforeAll \notin Days
                 /\ \A d \in Days : BeforeAll < d
<1>1. MonthFirst[1] \in Int /\ MonthFirst[Months + 1] \in Int
  BY MonthsAssumption
<1> QED
  BY <1>1 DEF Days, BeforeAll

\* The key of a month of the period is a day of the month and of the period.
LEMMA KeyInMonth ==
    ASSUME NEW p \in Periods, NEW m \in 1..Months, InPeriod(p, m)
    PROVE  /\ Key(p, m) \in Days
           /\ Start[p] \in Int /\ End[p] \in Int
           /\ Start[p] <= Key(p, m) /\ Key(p, m) <= End[p]
           /\ MonthFirst[m] <= Key(p, m) /\ Key(p, m) < MonthFirst[m + 1]
           /\ MonthFirst[m] \in Int /\ MonthFirst[m + 1] \in Int
<1>1. /\ Start[p] \in Int /\ End[p] \in Int /\ Start[p] <= End[p]
      /\ End[p] < MonthFirst[Months + 1]
  BY PeriodsAssumption
<1>2. Months \in Nat /\ 1 \in 1..(Months + 1) /\ m \in 1..(Months + 1)
      /\ m + 1 \in 1..(Months + 1) /\ Months + 1 \in 1..(Months + 1)
  BY MonthsAssumption
<1>3. MonthFirst[1] <= MonthFirst[m] /\ MonthFirst[m] < MonthFirst[m + 1]
      /\ MonthFirst[1] \in Int /\ MonthFirst[m] \in Int /\ MonthFirst[m + 1] \in Int
      /\ MonthFirst[Months + 1] \in Int
  BY <1>2, MonthsOrdered
<1> QED
  BY <1>1, <1>3 DEF InPeriod, Key, Days

LEMMA KeysOrdered ==
    ASSUME NEW p \in Periods, NEW m \in 1..Months, NEW n \in 1..Months,
           InPeriod(p, m), InPeriod(p, n)
    PROVE  (m <= n => Key(p, m) <= Key(p, n)) /\ (m < n => Key(p, m) < Key(p, n))
<1>1. ASSUME m < n PROVE Key(p, m) < Key(p, n)
  <2>1. m + 1 \in 1..(Months + 1) /\ n \in 1..(Months + 1) /\ m + 1 <= n
    BY <1>1, MonthsAssumption
  <2>2. MonthFirst[m + 1] <= MonthFirst[n]
    BY <2>1, MonthsOrdered
  <2>3. Key(p, m) < MonthFirst[m + 1] /\ MonthFirst[n] <= Key(p, n)
    BY KeyInMonth
  <2>4. Key(p, m) \in Int /\ Key(p, n) \in Int /\ MonthFirst[m + 1] \in Int
        /\ MonthFirst[n] \in Int
    BY KeyInMonth, DaysInt
  <2> QED
    BY <2>2, <2>3, <2>4
<1>2. m = n => Key(p, m) = Key(p, n)
  OBVIOUS
<1>3. Key(p, m) \in Int /\ Key(p, n) \in Int
  BY KeyInMonth, DaysInt
<1>4. m < n \/ m = n \/ n < m
  OBVIOUS
<1> QED
  BY <1>1, <1>2, <1>3, <1>4

\* The first month of a period starts where the period does.
LEMMA FirstMonthStarts ==
    ASSUME NEW p \in Periods, NEW m \in 1..Months, FirstMonth(p, m)
    PROVE  InPeriod(p, m) /\ RangeFirst(p, m) = Start[p]
<1>1. MonthFirst[m] \in Int /\ MonthFirst[m + 1] \in Int
  BY MonthsAssumption
<1> QED
  BY <1>1, PeriodsAssumption DEF FirstMonth, InPeriod, RangeFirst

\* Successive months of a period leave no gap and do not overlap.
LEMMA NextMonthFollows ==
    ASSUME NEW p \in Periods, NEW m \in 1..Months, InPeriod(p, m),
           m + 1 <= Months, MonthFirst[m + 1] <= End[p]
    PROVE  /\ InPeriod(p, m + 1)
           /\ RangeFirst(p, m + 1) = Key(p, m) + 1
           /\ ~FirstMonth(p, m + 1)
<1>1. m + 1 \in 1..Months /\ m + 2 \in 1..(Months + 1) /\ m + 1 \in 1..(Months + 1)
      /\ (m + 1) + 1 = m + 2
  BY MonthsAssumption
<1>2. MonthFirst[m + 1] < MonthFirst[m + 2] /\ MonthFirst[m + 2] \in Int
      /\ MonthFirst[m + 1] \in Int
  BY <1>1, MonthsOrdered
<1> QED
  BY <1>1, <1>2, PeriodsAssumption DEF InPeriod, RangeFirst, Key, FirstMonth

\* The last month of a period ends where the period does.
LEMMA LastMonthEnds ==
    ASSUME NEW p \in Periods, NEW m \in 1..Months, InPeriod(p, m),
           ~(m + 1 <= Months /\ MonthFirst[m + 1] <= End[p])
    PROVE  Key(p, m) = End[p]
<1>1. m + 1 \in 1..(Months + 1) /\ MonthFirst[m + 1] \in Int
  BY MonthsAssumption
<1>2. CASE m + 1 <= Months
  BY <1>1, <1>2, PeriodsAssumption DEF Key
<1>3. CASE ~(m + 1 <= Months)
  <2>1. m = Months
    BY <1>3, MonthsAssumption
  <2> QED
    BY <1>1, <2>1, PeriodsAssumption DEF Key
<1> QED
  BY <1>2, <1>3

\* Adding the covered days of the range that follows day t extends a pass.
LEMMA PassExtends ==
    ASSUME NEW p \in Periods, NEW m \in 1..Months, InPeriod(p, m), NEW t \in Int,
           RangeFirst(p, m) = t + 1, Start[p] <= t + 1
    PROVE  SamplesTo(p, Key(p, m)) =
               [d \in Days |-> SamplesTo(p, t)[d]
                                + (IF d \in Range(p, m) \cap Covered THEN 1 ELSE 0)]
<1>1. Key(p, m) \in Int /\ Start[p] \in Int /\ Days \subseteq Int /\ RangeFirst(p, m) <= Key(p, m)
  BY KeyInMonth, DaysInt DEF RangeFirst
<1>2. ASSUME NEW d \in Days
      PROVE  (IF d \in Start[p]..Key(p, m) /\ d \in Covered THEN 1 ELSE 0) =
             (IF d \in Start[p]..t /\ d \in Covered THEN 1 ELSE 0)
             + (IF d \in Range(p, m) \cap Covered THEN 1 ELSE 0)
  BY <1>1, <1>2 DEF Range
<1> QED
  BY <1>2 DEF SamplesTo

\* Before the first day of the period a pass has no samples.
LEMMA EmptyPass ==
    ASSUME NEW p \in Periods PROVE SamplesTo(p, Start[p] - 1) = [d \in Days |-> 0]
<1>1. Start[p] \in Int /\ Days \subseteq Int
  BY PeriodsAssumption, DaysInt
<1> QED
  BY <1>1 DEF SamplesTo

(* ---- Facts the action lemmas share ---- *)

LEMMA Typing ==
    /\ NoPeriod \notin Periods /\ Unversioned \notin Periods /\ Unversioned # NoPeriod
    /\ Zero \in [Days -> Nat]
    /\ \A p \in Periods, t \in Int : SamplesTo(p, t) \in [Days -> Nat]
    /\ Months \in Nat
    /\ 1 \in 1..(Months + 1)
BY PeriodsAssumption, NullsAssumption, MonthsAssumption DEF Zero, SamplesTo

\* A process whose own variables a step leaves alone keeps its invariant,
\* when the disk is left alone or the process does not rely on it.
LEMMA OthersKeep ==
    ASSUME NEW c \in Builders, PlaceInv(c),
           pc'[c] = pc[c], args'[c] = args[c], mem'[c] = mem[c],
           completed'[c] = completed[c], month'[c] = month[c], todo'[c] = todo[c],
           UNCHANGED disk \/ ~Working(c)
    PROVE  PlaceInv(c)'
<1>1. CASE UNCHANGED disk
  BY <1>1 DEF disk, PlaceInv, AtNextMonth, Ingested, Found, HasMonth, ThisKey
<1>2. CASE ~Working(c)
  BY <1>2 DEF Working, PlaceInv
<1> QED
  BY <1>1, <1>2

\* Only one process works on the checkpoint.
LEMMA Alone ==
    ASSUME SoleWriter, NEW b \in Builders, Working(b), NEW c \in Builders, c # b
    PROVE  ~Working(c)
BY DEF SoleWriter

LEMMA ExitFacts ==
    ASSUME TypeOK, NEW b \in Builders, Exit(b)
    PROVE  /\ pc' \in [Builders -> Places]
           /\ args' \in [Builders -> Periods \cup {NoPeriod}]
           /\ mem' \in [Builders -> [Days -> Nat]]
           /\ completed' \in [Builders -> Days \cup {BeforeAll}]
           /\ month' \in [Builders -> 1..(Months + 1)]
           /\ todo' \in [Builders -> SUBSET Granules]
           /\ pc'[b] = "idle"
           /\ \A c \in Builders : c # b =>
                /\ pc'[c] = pc[c] /\ args'[c] = args[c] /\ mem'[c] = mem[c]
                /\ completed'[c] = completed[c] /\ month'[c] = month[c]
                /\ todo'[c] = todo[c]
BY Typing DEF Exit, TypeOK, Places

\* A process that ends, releasing the lock if it holds it.
LEMMA ExitKeeps ==
    ASSUME IInv, NEW b \in Builders, Exit(b),
           owner' = NoOwner \/ owner' = owner,
           owner' = NoOwner => Working(b) \/ owner = NoOwner \/ owner = b,
           UNCHANGED <<disk, sidecar, output>>
    PROVE  IInv'
<1>1. TypeOK' /\ CheckpointExact' /\ CheckpointAtMonthEnd' /\ SidecarNeverLeads'
      /\ PublishedComplete'
  BY ExitFacts DEF IInv, TypeOK, disk, CheckpointExact, CheckpointAtMonthEnd,
     SidecarNeverLeads, PublishedComplete
<1>2. SoleWriter'
  <2> SUFFICES ASSUME NEW c \in Builders, Working(c)' PROVE owner' = c
    BY DEF SoleWriter
  <2>1. c # b /\ Working(c)
    BY ExitFacts DEF Working, IInv
  <2>2. owner = c
    BY <2>1 DEF IInv, SoleWriter
  <2> QED
    BY <2>1, <2>2, NullsAssumption DEF IInv, SoleWriter
<1>3. ASSUME NEW c \in Builders PROVE PlaceInv(c)'
  <2>1. CASE c = b
    BY <2>1, ExitFacts DEF PlaceInv, IInv
  <2>2. CASE c # b
    BY <2>2, ExitFacts, OthersKeep DEF IInv, disk
  <2> QED
    BY <2>1, <2>2
<1> QED
  BY <1>1, <1>2, <1>3 DEF IInv

LEMMA UnionAdd ==
    ASSUME NEW F, NEW R, NEW g
    PROVE  (UNION (F \cup {g})) \cap R = ((UNION F) \cap R) \cup (g \cap R)
OBVIOUS

LEMMA UnionApart ==
    ASSUME NEW F, NEW g, \A h \in F : g \cap h = {}
    PROVE  g \cap (UNION F) = {}
OBVIOUS

(* ---- The actions keep the invariant ---- *)

LEMMA InitIInv == Init => IInv
<1> SUFFICES ASSUME Init PROVE IInv
  OBVIOUS
<1>1. TypeOK
  BY Typing, PeriodsAssumption DEF Init, TypeOK, Places, Zero, NoOutput
<1>2. CheckpointExact /\ CheckpointAtMonthEnd
  BY Typing DEF Init, CheckpointExact, CheckpointAtMonthEnd
<1>3. SoleWriter /\ SidecarNeverLeads /\ PublishedComplete
  BY DaysInt DEF Init, SoleWriter, Working, SidecarNeverLeads, PublishedComplete
<1>4. \A b \in Builders : PlaceInv(b)
  BY DEF Init, PlaceInv
<1> QED
  BY <1>1, <1>2, <1>3, <1>4 DEF IInv

LEMMA BeginKeeps ==
    ASSUME IInv, NEW b \in Builders, NEW p \in Periods, Begin(b, p) PROVE IInv'
<1>1. TypeOK' /\ CheckpointExact' /\ CheckpointAtMonthEnd' /\ SidecarNeverLeads'
      /\ PublishedComplete'
  BY DEF Begin, IInv, TypeOK, Places, disk, CheckpointExact, CheckpointAtMonthEnd,
     SidecarNeverLeads, PublishedComplete
<1>2. SoleWriter'
  BY NullsAssumption DEF Begin, IInv, TypeOK, SoleWriter, Working
<1>3. ASSUME NEW c \in Builders PROVE PlaceInv(c)'
  <2>1. CASE c = b
    BY <2>1 DEF Begin, IInv, TypeOK, PlaceInv
  <2>2. CASE c # b
    BY <2>2, OthersKeep DEF Begin, IInv, TypeOK
  <2> QED
    BY <2>1, <2>2
<1> QED
  BY <1>1, <1>2, <1>3 DEF IInv

LEMMA LoadTotalsKeeps ==
    ASSUME IInv, NEW b \in Builders, LoadTotals(b) PROVE IInv'
<1>1. TypeOK' /\ CheckpointExact' /\ CheckpointAtMonthEnd' /\ SidecarNeverLeads'
      /\ PublishedComplete'
  BY Typing DEF LoadTotals, IInv, TypeOK, Places, disk, CheckpointExact,
     CheckpointAtMonthEnd, SidecarNeverLeads, PublishedComplete
<1>2. SoleWriter'
  BY DEF LoadTotals, IInv, TypeOK, SoleWriter, Working
<1>3. ASSUME NEW c \in Builders PROVE PlaceInv(c)'
  <2>1. CASE c = b
    BY <2>1, Typing DEF LoadTotals, IInv, TypeOK, PlaceInv, CheckpointExact, disk
  <2>2. CASE c # b
    BY <2>2, OthersKeep DEF LoadTotals, IInv, TypeOK
  <2> QED
    BY <2>1, <2>2
<1> QED
  BY <1>1, <1>2, <1>3 DEF IInv

LEMMA LoadProgressKeeps ==
    ASSUME IInv, NEW b \in Builders, LoadProgress(b) PROVE IInv'
<1> PICK m \in 1..Months : FirstMonth(args[b], m) /\ month' = [month EXCEPT ![b] = m]
  BY DEF LoadProgress
<1>0. args[b] \in Periods /\ m \in 1..(Months + 1) /\ InPeriod(args[b], m)
  <2>1. args[b] \in Periods
    BY DEF LoadProgress, IInv, PlaceInv
  <2> QED
    BY <2>1, FirstMonthStarts, MonthsAssumption
<1>1. TypeOK' /\ CheckpointExact' /\ CheckpointAtMonthEnd' /\ SidecarNeverLeads'
      /\ PublishedComplete'
  BY <1>0, Typing DEF LoadProgress, IInv, TypeOK, Places, disk, CheckpointExact,
     CheckpointAtMonthEnd, SidecarNeverLeads, PublishedComplete
<1>2. SoleWriter'
  BY DEF LoadProgress, IInv, TypeOK, SoleWriter, Working
<1>3. ASSUME NEW c \in Builders PROVE PlaceInv(c)'
  <2>1. CASE c = b
    <3>1. pc'[b] = "loop" /\ args'[b] = args[b] /\ mem'[b] = mem[b] /\ month'[b] = m
          /\ UNCHANGED disk /\ mem[b] = diskTotal /\ completed'[b] = diskThrough
      BY Typing DEF LoadProgress, IInv, TypeOK, PlaceInv, CheckpointAtMonthEnd
    <3>2. AtNextMonth(b)'
      <4>1. CASE diskPeriod = NoPeriod
        BY <3>1, <4>1 DEF AtNextMonth, disk
      <4>2. CASE diskPeriod = args[b]
        <5>1. PICK n \in 1..Months : InPeriod(args[b], n) /\ diskThrough = Key(args[b], n)
          BY <1>0, <4>2 DEF IInv, CheckpointAtMonthEnd
        <5>2. MonthFirst[m] \in Int /\ MonthFirst[n + 1] \in Int /\ Start[args[b]] \in Int
              /\ (n + 1 <= m => MonthFirst[n + 1] <= MonthFirst[m])
          BY <1>0, MonthsOrdered, PeriodsAssumption, MonthsAssumption
        <5>3. m <= n + 1
          BY <5>1, <5>2, <1>0, MonthsAssumption DEF FirstMonth, InPeriod
        <5> QED
          BY <3>1, <4>2, <5>1, <5>3 DEF AtNextMonth, disk, FirstMonth
      <4> QED
        BY <4>1, <4>2 DEF LoadProgress
    <3> QED
      BY <1>0, <2>1, <3>1, <3>2 DEF PlaceInv, disk
  <2>2. CASE c # b
    BY <2>2, OthersKeep DEF LoadProgress, IInv, TypeOK
  <2> QED
    BY <2>1, <2>2
<1> QED
  BY <1>1, <1>2, <1>3 DEF IInv

LEMMA RejectKeeps ==
    ASSUME IInv, NEW b \in Builders, Reject(b) \/ NoGranules(b) \/ Die(b) PROVE IInv'
<1>1. Exit(b) /\ UNCHANGED <<disk, sidecar, output>> /\ (owner' = NoOwner \/ owner' = owner)
  BY DEF Reject, NoGranules, Die
<1>2. owner' = NoOwner => Working(b) \/ owner = NoOwner \/ owner = b
  BY DEF Reject, NoGranules, Die, Working
<1> QED
  BY <1>1, <1>2, ExitKeeps

LEMMA SkipMonthKeeps ==
    ASSUME IInv, NEW b \in Builders, SkipMonth(b) PROVE IInv'
<1>0. month[b] \in 1..Months /\ month[b] + 1 \in 1..(Months + 1) /\ args[b] \in Periods
      /\ pc[b] = "loop" /\ AtNextMonth(b) /\ mem[b] = diskTotal /\ completed[b] = diskThrough
      /\ MonthFirst[month[b]] <= End[args[b]] /\ Key(args[b], month[b]) <= diskThrough
      /\ MonthFirst[1] \in Int
  BY MonthsAssumption DEF SkipMonth, HasMonth, ThisKey, IInv, TypeOK, PlaceInv
<1>1. TypeOK' /\ CheckpointExact' /\ CheckpointAtMonthEnd' /\ SidecarNeverLeads'
      /\ PublishedComplete'
  BY <1>0 DEF SkipMonth, IInv, TypeOK, Places, disk, CheckpointExact,
     CheckpointAtMonthEnd, SidecarNeverLeads, PublishedComplete
<1>2. SoleWriter'
  BY DEF SkipMonth, IInv, TypeOK, SoleWriter, Working
<1>3. ASSUME NEW c \in Builders PROVE PlaceInv(c)'
  <2>1. CASE c = b
    <3>1. pc'[b] = "loop" /\ args'[b] = args[b] /\ mem'[b] = mem[b]
          /\ month'[b] = month[b] + 1 /\ UNCHANGED disk /\ completed'[b] = diskThrough
      BY <1>0 DEF SkipMonth, IInv, TypeOK
    \* Without a checkpoint nothing is skipped.
    <3>2. diskPeriod # NoPeriod
      <4>1. SUFFICES ASSUME diskPeriod = NoPeriod PROVE FALSE
        OBVIOUS
      <4>2. FirstMonth(args[b], month[b]) /\ diskThrough = BeforeAll
        BY <1>0, <4>1, Typing DEF AtNextMonth, IInv, CheckpointAtMonthEnd, PlaceInv
      <4>3. Key(args[b], month[b]) \in Days
        BY <1>0, <4>2, FirstMonthStarts, KeyInMonth
      <4>4. BeforeAll < Key(args[b], month[b]) /\ BeforeAll \in Int
            /\ Key(args[b], month[b]) \in Int
        BY <4>3, DaysInt
      <4> QED
        BY <1>0, <4>2, <4>4
    <3>3. PICK n \in 1..Months : InPeriod(args[b], n) /\ diskThrough = Key(args[b], n)
                                 /\ month[b] <= n + 1
      BY <1>0, <3>2 DEF AtNextMonth
    <3>4. diskPeriod = args[b] /\ Start[args[b]] < MonthFirst[month[b] + 1]
      BY <1>0, <3>2, MonthsAssumption DEF AtNextMonth
    <3>5. InPeriod(args[b], month[b])
      BY <1>0, <3>4 DEF InPeriod
    <3>6. month[b] <= n
      <4>1. n < month[b] => Key(args[b], n) < Key(args[b], month[b])
        BY <1>0, <3>3, <3>5, KeysOrdered
      <4>2. Key(args[b], n) \in Int /\ Key(args[b], month[b]) \in Int
        BY <1>0, <3>3, <3>5, KeyInMonth, DaysInt
      <4> QED
        BY <1>0, <3>3, <4>1, <4>2
    <3>7. month[b] + 1 <= Months => Start[args[b]] < MonthFirst[(month[b] + 1) + 1]
      <4> DEFINE k == month[b] + 1
      <4> SUFFICES ASSUME k <= Months PROVE Start[args[b]] < MonthFirst[k + 1]
        OBVIOUS
      <4>1. k \in 1..(Months + 1) /\ k + 1 \in 1..(Months + 1) /\ k < k + 1
        BY <1>0, MonthsAssumption
      <4>2. Start[args[b]] < MonthFirst[k] /\ Start[args[b]] \in Int
        BY <1>0, <3>4, PeriodsAssumption
      <4> HIDE DEF k
      <4>3. MonthFirst[k] < MonthFirst[k + 1] /\ MonthFirst[k] \in Int
            /\ MonthFirst[k + 1] \in Int
        BY <4>1, MonthsOrdered
      <4> QED
        BY <4>2, <4>3
    <3>8. AtNextMonth(b)'
      BY <1>0, <3>1, <3>3, <3>4, <3>6, <3>7, MonthsAssumption DEF AtNextMonth, disk
    <3> QED
      BY <1>0, <2>1, <3>1, <3>8 DEF PlaceInv, disk
  <2>2. CASE c # b
    BY <2>2, OthersKeep DEF SkipMonth, IInv, TypeOK
  <2> QED
    BY <2>1, <2>2
<1> QED
  BY <1>1, <1>2, <1>3 DEF IInv

LEMMA SearchKeeps ==
    ASSUME IInv, NEW b \in Builders, Search(b) PROVE IInv'
<1>1. TypeOK' /\ CheckpointExact' /\ CheckpointAtMonthEnd' /\ SidecarNeverLeads'
      /\ PublishedComplete'
  BY DEF Search, Found, IInv, TypeOK, Places, disk, CheckpointExact,
     CheckpointAtMonthEnd, SidecarNeverLeads, PublishedComplete
<1>2. SoleWriter'
  BY DEF Search, IInv, TypeOK, SoleWriter, Working
<1>3. ASSUME NEW c \in Builders PROVE PlaceInv(c)'
  <2>1. CASE c = b
    <3>1. pc'[b] = "ingest" /\ args'[b] = args[b] /\ mem'[b] = mem[b] /\ month'[b] = month[b]
          /\ UNCHANGED disk /\ completed'[b] = completed[b] /\ todo'[b] = Found(b)
          /\ Found(b)' = Found(b) /\ HasMonth(b)' /\ ThisKey(b)' = ThisKey(b)
          /\ ThisKey(b) > completed[b]
      BY DEF Search, IInv, TypeOK, Found, HasMonth, ThisKey
    <3>2. completed[b] = diskThrough /\ AtNextMonth(b) /\ mem[b] = diskTotal
          /\ args[b] \in Periods
      BY DEF Search, IInv, PlaceInv
    <3>3. AtNextMonth(b)'
      BY <3>1, <3>2 DEF AtNextMonth, disk
    <3>4. Ingested(b)' = {}
      BY <3>1 DEF Ingested
    <3>5. diskTotal = [d \in Days |-> diskTotal[d] + (IF d \in {} THEN 1 ELSE 0)]
      BY DEF IInv, TypeOK
    <3>6. mem'[b] = [d \in Days |-> diskTotal'[d] + (IF d \in Ingested(b)' THEN 1 ELSE 0)]
      BY <3>1, <3>2, <3>4, <3>5 DEF disk
    <3> QED
      BY <2>1, <3>1, <3>2, <3>3, <3>6 DEF PlaceInv, disk
  <2>2. CASE c # b
    BY <2>2, OthersKeep DEF Search, IInv, TypeOK
  <2> QED
    BY <2>1, <2>2
<1> QED
  BY <1>1, <1>2, <1>3 DEF IInv

LEMMA IngestKeeps ==
    ASSUME IInv, NEW b \in Builders, NEW g \in Granules, Ingest(b, g) PROVE IInv'
<1>1. TypeOK' /\ CheckpointExact' /\ CheckpointAtMonthEnd' /\ SidecarNeverLeads'
      /\ PublishedComplete'
  BY DEF Ingest, IInv, TypeOK, Places, disk, CheckpointExact,
     CheckpointAtMonthEnd, SidecarNeverLeads, PublishedComplete
<1>2. SoleWriter'
  BY DEF Ingest, IInv, TypeOK, SoleWriter, Working
<1>3. ASSUME NEW c \in Builders PROVE PlaceInv(c)'
  <2>1. CASE c = b
    <3>1. pc[b] = "ingest" /\ pc'[b] = "ingest" /\ args'[b] = args[b] /\ month'[b] = month[b]
          /\ UNCHANGED disk /\ completed'[b] = completed[b] /\ todo'[b] = todo[b] \ {g}
          /\ Found(b)' = Found(b) /\ HasMonth(b)' = HasMonth(b) /\ ThisKey(b)' = ThisKey(b)
          /\ g \in todo[b]
      BY DEF Ingest, IInv, TypeOK, Found, HasMonth, ThisKey
    <3>2. PlaceInv(b)
      BY DEF IInv
    <3>3. AtNextMonth(b)'
      BY <3>1, <3>2 DEF AtNextMonth, disk, PlaceInv
    \* No day of g was ingested before.
    <3>4. ASSUME NEW d \in Days
          PROVE  /\ d \in Ingested(b)' <=>
                      d \in Ingested(b) \/ d \in g \cap Range(args[b], month[b])
                 /\ ~(d \in Ingested(b) /\ d \in g \cap Range(args[b], month[b]))
      <4>1. todo[b] \subseteq Found(b) /\ Found(b) \subseteq Granules
        BY <3>1, <3>2 DEF PlaceInv, Found
      <4>2. Ingested(b)' = (UNION (Found(b) \ (todo[b] \ {g}))) \cap Range(args[b], month[b])
        BY <3>1 DEF Ingested
      <4>3. \A h \in Found(b) \ todo[b] : g \cap h = {}
        BY <3>1, <4>1, GranulesAssumption
      <4>4. Found(b) \ (todo[b] \ {g}) = (Found(b) \ todo[b]) \cup {g}
        BY <3>1, <4>1
      <4>5. Ingested(b)' = Ingested(b) \cup (g \cap Range(args[b], month[b]))
        <5>1. Ingested(b) = (UNION (Found(b) \ todo[b])) \cap Range(args[b], month[b])
          BY DEF Ingested
        <5> QED
          BY <4>2, <4>4, <5>1, UnionAdd
      <4>6. g \cap (UNION (Found(b) \ todo[b])) = {}
        BY <4>3, UnionApart
      <4> QED
        BY <4>5, <4>6 DEF Ingested
    <3>5. mem'[b] = [d \in Days |-> diskTotal'[d] + (IF d \in Ingested(b)' THEN 1 ELSE 0)]
      <4>1. mem'[b] = [d \in Days |->
                mem[b][d] + (IF d \in g \cap Range(args[b], month[b]) THEN 1 ELSE 0)]
        BY DEF Ingest, IInv, TypeOK
      <4>2. mem[b] = [d \in Days |-> diskTotal[d] + (IF d \in Ingested(b) THEN 1 ELSE 0)]
        BY <3>1, <3>2 DEF PlaceInv
      <4>3. ASSUME NEW d \in Days
            PROVE  mem[b][d] + (IF d \in g \cap Range(args[b], month[b]) THEN 1 ELSE 0)
                   = diskTotal'[d] + (IF d \in Ingested(b)' THEN 1 ELSE 0)
        <5>1. diskTotal[d] \in Nat /\ diskTotal'[d] = diskTotal[d]
          BY <3>1 DEF disk, IInv, TypeOK
        <5> QED
          BY <3>4, <4>2, <5>1
      <4> QED
        BY <4>1, <4>3
    <3> QED
      BY <2>1, <3>1, <3>2, <3>3, <3>5 DEF PlaceInv, disk
  <2>2. CASE c # b
    BY <2>2, OthersKeep DEF Ingest, IInv, TypeOK
  <2> QED
    BY <2>1, <2>2
<1> QED
  BY <1>1, <1>2, <1>3 DEF IInv

\* At the end of a month the accumulator holds a pass up to its last day.
LEMMA MonthIngested ==
    ASSUME IInv, NEW b \in Builders, pc[b] = "ingest", todo[b] = {}
    PROVE  /\ args[b] \in Periods /\ month[b] \in 1..Months
           /\ InPeriod(args[b], month[b])
           /\ diskPeriod \in {NoPeriod, args[b]}
           /\ diskThrough < ThisKey(b)
           /\ diskThrough = IF FirstMonth(args[b], month[b])
                            THEN BeforeAll ELSE Key(args[b], month[b] - 1)
           /\ mem[b] = [d \in Days |-> diskTotal[d] +
                            (IF d \in Range(args[b], month[b]) \cap Covered THEN 1 ELSE 0)]
           /\ mem[b] = SamplesTo(args[b], ThisKey(b))
<1> DEFINE p == args[b]
           m == month[b]
<1>1. p \in Periods /\ m \in 1..Months /\ PlaceInv(b) /\ MonthFirst[m] <= End[p]
      /\ Key(p, m) > diskThrough /\ AtNextMonth(b)
  BY DEF IInv, TypeOK, PlaceInv, HasMonth, ThisKey
<1>2. Ingested(b) \cap Days = Range(p, m) \cap Covered \cap Days
  <2>1. ASSUME NEW d \in Range(p, m)
        PROVE  d \in Covered <=> \E h \in Found(b) : d \in h
    BY DEF Covered, Found
  <2>2. Ingested(b) = (UNION Found(b)) \cap Range(p, m)
    BY DEF Ingested
  <2> QED
    BY <2>1, <2>2
<1>3. mem[b] = [d \in Days |-> diskTotal[d] +
                    (IF d \in Range(p, m) \cap Covered THEN 1 ELSE 0)]
  <2>1. mem[b] = [d \in Days |-> diskTotal[d] + (IF d \in Ingested(b) THEN 1 ELSE 0)]
    BY <1>1 DEF PlaceInv
  <2>2. \A d \in Days : d \in Ingested(b) <=> d \in Range(p, m) \cap Covered
    BY <1>2
  <2> QED
    BY <2>1, <2>2
<1>4. CASE diskPeriod = NoPeriod /\ FirstMonth(p, m)
  <2>1. InPeriod(p, m) /\ RangeFirst(p, m) = Start[p]
    BY <1>1, <1>4, FirstMonthStarts
  <2>2. diskTotal = Zero /\ diskThrough = BeforeAll
    BY <1>4, Typing DEF IInv, CheckpointExact, CheckpointAtMonthEnd
  <2>3. Start[p] \in Int
    BY <1>1, PeriodsAssumption
  <2>4. SamplesTo(p, Key(p, m)) =
            [d \in Days |-> SamplesTo(p, Start[p] - 1)[d]
                             + (IF d \in Range(p, m) \cap Covered THEN 1 ELSE 0)]
    <3>1. Start[p] - 1 \in Int /\ RangeFirst(p, m) = (Start[p] - 1) + 1
          /\ Start[p] <= (Start[p] - 1) + 1
      BY <2>1, <2>3
    <3> QED
      BY <1>1, <2>1, <3>1, PassExtends
  <2>5. SamplesTo(p, Start[p] - 1) = diskTotal
    BY <1>1, <2>2, EmptyPass DEF Zero
  <2> QED
    BY <1>1, <1>3, <1>4, <2>1, <2>2, <2>4, <2>5 DEF ThisKey
<1>5. CASE diskPeriod = p
  <2>1. PICK n \in 1..Months : InPeriod(p, n) /\ diskThrough = Key(p, n) /\ m <= n + 1
    BY <1>1, <1>5, Typing DEF AtNextMonth
  <2>2. Start[p] < MonthFirst[m + 1]
    BY <1>1, <1>5, Typing DEF AtNextMonth
  <2>3. InPeriod(p, m)
    BY <1>1, <2>2 DEF InPeriod
  <2>4. m = n + 1
    <3>1. m <= n => Key(p, m) <= Key(p, n)
      BY <1>1, <2>1, <2>3, KeysOrdered
    <3>2. Key(p, m) \in Int /\ Key(p, n) \in Int
      BY <1>1, <2>1, <2>3, KeyInMonth, DaysInt
    <3> QED
      BY <1>1, <2>1, <3>1, <3>2
  <2>5. RangeFirst(p, m) = Key(p, n) + 1 /\ ~FirstMonth(p, m)
    BY <1>1, <2>1, <2>4, NextMonthFollows
  <2>6. diskTotal = SamplesTo(p, Key(p, n))
    BY <1>1, <1>5, <2>1 DEF IInv, CheckpointExact
  <2>7. Key(p, n) \in Int /\ Start[p] <= Key(p, n) + 1
    <3>1. Key(p, n) \in Int /\ Start[p] \in Int /\ Start[p] <= Key(p, n)
      BY <1>1, <2>1, KeyInMonth, DaysInt
    <3> QED
      BY <3>1
  <2>8. SamplesTo(p, Key(p, m)) =
            [d \in Days |-> SamplesTo(p, Key(p, n))[d]
                             + (IF d \in Range(p, m) \cap Covered THEN 1 ELSE 0)]
    BY <1>1, <2>3, <2>5, <2>7, PassExtends
  <2>9. m - 1 = n
    BY <2>1, <2>4
  <2> QED
    BY <1>1, <1>3, <1>5, <2>1, <2>3, <2>5, <2>6, <2>8, <2>9 DEF ThisKey
<1> QED
  BY <1>1, <1>4, <1>5 DEF AtNextMonth

LEMMA SaveKeeps ==
    ASSUME IInv, NEW b \in Builders, Save(b) PROVE IInv'
<1>0. /\ args[b] \in Periods /\ month[b] \in 1..Months /\ InPeriod(args[b], month[b])
      /\ diskThrough < ThisKey(b) /\ mem[b] = SamplesTo(args[b], ThisKey(b))
      /\ Working(b) /\ ThisKey(b) \in Days
  <2>1. pc[b] = "ingest" /\ todo[b] = {}
    BY DEF Save
  <2> QED
    BY <2>1, MonthIngested, KeyInMonth DEF ThisKey, Working
<1>1. TypeOK'
  BY <1>0 DEF Save, IInv, TypeOK, Places, local
<1>2. CheckpointExact' /\ CheckpointAtMonthEnd' /\ PublishedComplete'
  BY <1>0 DEF Save, IInv, CheckpointExact, CheckpointAtMonthEnd, PublishedComplete, ThisKey
<1>3. SidecarNeverLeads'
  <2>1. sidecar \in Int /\ diskThrough \in Int /\ ThisKey(b) \in Int
    BY <1>0, DaysInt DEF IInv, TypeOK
  <2> QED
    BY <1>0, <2>1 DEF Save, IInv, SidecarNeverLeads
<1>4. SoleWriter'
  BY DEF Save, IInv, TypeOK, SoleWriter, Working
<1>5. ASSUME NEW c \in Builders PROVE PlaceInv(c)'
  <2>1. CASE c = b
    <3>1. pc'[b] = "sidecar" /\ UNCHANGED local /\ ThisKey(b)' = ThisKey(b)
      BY DEF Save, IInv, TypeOK, ThisKey, local
    <3> QED
      BY <1>0, <2>1, <3>1 DEF Save, PlaceInv, local
  <2>2. CASE c # b
    BY <1>0, <2>2, OthersKeep, Alone DEF Save, IInv, TypeOK, local
  <2> QED
    BY <2>1, <2>2
<1> QED
  BY <1>1, <1>2, <1>3, <1>4, <1>5 DEF IInv

LEMMA WriteProgressKeeps ==
    ASSUME IInv, NEW b \in Builders, WriteProgress(b) PROVE IInv'
<1>0. /\ args[b] \in Periods /\ month[b] \in 1..Months /\ InPeriod(args[b], month[b])
      /\ diskPeriod = args[b] /\ diskThrough = ThisKey(b) /\ mem[b] = diskTotal
      /\ ThisKey(b) \in Days
  <2>1. /\ args[b] \in Periods /\ month[b] \in 1..Months /\ InPeriod(args[b], month[b])
        /\ diskPeriod = args[b] /\ diskThrough = ThisKey(b) /\ mem[b] = diskTotal
    BY MonthsAssumption DEF WriteProgress, IInv, TypeOK, PlaceInv
  <2> QED
    BY <2>1, KeyInMonth DEF ThisKey
<1>1. TypeOK'
  <2>1. month[b] + 1 \in 1..(Months + 1)
    BY <1>0, MonthsAssumption
  <2> QED
    BY <1>0, <2>1 DEF WriteProgress, IInv, TypeOK, Places, disk
<1>2. CheckpointExact' /\ CheckpointAtMonthEnd' /\ PublishedComplete'
  BY DEF WriteProgress, IInv, CheckpointExact, CheckpointAtMonthEnd, PublishedComplete, disk
<1>3. SidecarNeverLeads'
  <2>1. sidecar' = diskThrough' /\ diskThrough \in Int /\ diskThrough' = diskThrough
    BY <1>0, DaysInt DEF WriteProgress, disk
  <2> QED
    BY <2>1 DEF SidecarNeverLeads
<1>4. SoleWriter'
  BY DEF WriteProgress, IInv, TypeOK, SoleWriter, Working
<1>5. ASSUME NEW c \in Builders PROVE PlaceInv(c)'
  <2>1. CASE c = b
    <3>1. pc'[b] = "loop" /\ args'[b] = args[b] /\ mem'[b] = mem[b] /\ UNCHANGED disk
          /\ month'[b] = month[b] + 1 /\ completed'[b] = ThisKey(b)
      BY DEF WriteProgress, IInv, TypeOK
    <3>2. month[b] + 1 <= Months => Start[args[b]] < MonthFirst[(month[b] + 1) + 1]
      <4> DEFINE k == month[b] + 1
      <4> SUFFICES ASSUME k <= Months PROVE Start[args[b]] < MonthFirst[k + 1]
        OBVIOUS
      <4>1. k \in 1..(Months + 1) /\ k + 1 \in 1..(Months + 1) /\ k < k + 1
        BY <1>0, MonthsAssumption
      <4>2. Start[args[b]] < MonthFirst[k] /\ Start[args[b]] \in Int
        BY <1>0, PeriodsAssumption DEF InPeriod
      <4> HIDE DEF k
      <4>3. MonthFirst[k] < MonthFirst[k + 1] /\ MonthFirst[k] \in Int
            /\ MonthFirst[k + 1] \in Int
        BY <4>1, MonthsOrdered
      <4> QED
        BY <4>2, <4>3
    <3>3. month[b] + 1 <= month[b] + 1
      BY <1>0
    <3>4. AtNextMonth(b)'
      BY <1>0, <3>1, <3>2, <3>3 DEF AtNextMonth, disk, ThisKey
    <3> QED
      BY <1>0, <2>1, <3>1, <3>4 DEF PlaceInv, disk
  <2>2. CASE c # b
    BY <2>2, OthersKeep DEF WriteProgress, IInv, TypeOK
  <2> QED
    BY <2>1, <2>2
<1> QED
  BY <1>1, <1>2, <1>3, <1>4, <1>5 DEF IInv

LEMMA FinishKeeps ==
    ASSUME IInv, NEW b \in Builders, Finish(b) PROVE IInv'
<1>0. args[b] \in Periods /\ pc[b] = "loop" /\ mem[b] = diskTotal /\ AtNextMonth(b)
      /\ Working(b) /\ owner = b
  BY DEF Finish, IInv, TypeOK, PlaceInv, Working, SoleWriter
<1>1. TypeOK' /\ CheckpointExact' /\ CheckpointAtMonthEnd' /\ SidecarNeverLeads'
      /\ PublishedComplete'
  BY DEF Finish, IInv, TypeOK, Places, disk, local, CheckpointExact,
     CheckpointAtMonthEnd, SidecarNeverLeads, PublishedComplete
<1>2. SoleWriter'
  BY <1>0 DEF Finish, IInv, TypeOK, SoleWriter, Working
\* The loop is over only when the checkpoint is at the end of the period.
<1>3. diskPeriod = args[b] /\ diskThrough = End[args[b]]
  <2>1. ~(month[b] <= Months /\ MonthFirst[month[b]] <= End[args[b]])
    BY DEF Finish, HasMonth
  <2>2. diskPeriod # NoPeriod
    <3> SUFFICES ASSUME diskPeriod = NoPeriod PROVE FALSE
      OBVIOUS
    <3>1. FirstMonth(args[b], month[b])
      BY <1>0, Typing DEF AtNextMonth
    <3>2. month[b] \in 1..(Months + 1)
      BY DEF IInv, TypeOK
    <3>3. month[b] \in 1..Months
      <4>1. Start[args[b]] \in Int /\ End[args[b]] \in Int
            /\ Start[args[b]] <= End[args[b]] /\ End[args[b]] < MonthFirst[Months + 1]
            /\ MonthFirst[Months + 1] \in Int
        BY <1>0, PeriodsAssumption, MonthsAssumption
      <4>2. month[b] # Months + 1
        BY <3>1, <4>1 DEF FirstMonth
      <4> QED
        BY <3>2, <4>2, MonthsAssumption
    <3> QED
      BY <1>0, <2>1, <3>1, <3>3, FirstMonthStarts DEF InPeriod
  <2>3. PICK n \in 1..Months : InPeriod(args[b], n) /\ diskThrough = Key(args[b], n)
                               /\ month[b] <= n + 1
    BY <1>0, <2>2 DEF AtNextMonth
  <2>4. diskPeriod = args[b]
    BY <1>0, <2>2 DEF AtNextMonth
  <2>5. ~(n + 1 <= Months /\ MonthFirst[n + 1] <= End[args[b]])
    <3> SUFFICES ASSUME n + 1 <= Months, MonthFirst[n + 1] <= End[args[b]] PROVE FALSE
      OBVIOUS
    <3>1. month[b] \in 1..(Months + 1) /\ n + 1 \in 1..(Months + 1)
      BY MonthsAssumption DEF IInv, TypeOK
    <3>2. MonthFirst[month[b]] <= MonthFirst[n + 1] /\ MonthFirst[month[b]] \in Int
          /\ MonthFirst[n + 1] \in Int
      BY <2>3, <3>1, MonthsOrdered
    <3>3. End[args[b]] \in Int /\ month[b] <= Months
      BY <1>0, <2>3, <3>1, PeriodsAssumption, MonthsAssumption
    <3> QED
      BY <2>1, <3>2, <3>3
  <2> QED
    BY <1>0, <2>3, <2>4, <2>5, LastMonthEnds
<1>4. ASSUME NEW c \in Builders PROVE PlaceInv(c)'
  <2>1. CASE c = b
    <3>1. mem[b] = SamplesTo(args[b], End[args[b]])
      BY <1>0, <1>3 DEF IInv, CheckpointExact
    <3> QED
      BY <1>0, <2>1, <3>1 DEF Finish, IInv, TypeOK, PlaceInv, local
  <2>2. CASE c # b
    BY <2>2, OthersKeep DEF Finish, IInv, TypeOK, local
  <2> QED
    BY <2>1, <2>2
<1> QED
  BY <1>1, <1>2, <1>4 DEF IInv

LEMMA PublishKeeps ==
    ASSUME IInv, NEW b \in Builders, Publish(b) PROVE IInv'
<1>0. args[b] \in Periods /\ mem[b] = SamplesTo(args[b], End[args[b]]) /\ mem[b] \in [Days -> Nat]
  BY DEF Publish, IInv, TypeOK, PlaceInv
<1>1. TypeOK' /\ CheckpointExact' /\ CheckpointAtMonthEnd' /\ SidecarNeverLeads'
  BY <1>0, ExitFacts DEF Publish, IInv, TypeOK, disk, CheckpointExact, CheckpointAtMonthEnd,
     SidecarNeverLeads
<1>2. PublishedComplete'
  BY <1>0 DEF Publish, PublishedComplete
<1>3. SoleWriter'
  BY ExitFacts DEF Publish, IInv, SoleWriter, Working
<1>4. ASSUME NEW c \in Builders PROVE PlaceInv(c)'
  <2>1. CASE c = b
    BY <2>1, ExitFacts DEF Publish, PlaceInv, IInv
  <2>2. CASE c # b
    BY <2>2, ExitFacts, OthersKeep DEF Publish, IInv, disk
  <2> QED
    BY <2>1, <2>2
<1> QED
  BY <1>1, <1>2, <1>3, <1>4 DEF IInv

LEMMA NextIInv == IInv /\ [Next]_vars => IInv'
<1> SUFFICES ASSUME IInv, [Next]_vars PROVE IInv'
  OBVIOUS
<1>1. ASSUME NEW b \in Builders, Step(b) \/ Die(b) PROVE IInv'
  BY <1>1, BeginKeeps, LoadTotalsKeeps, LoadProgressKeeps, RejectKeeps, SkipMonthKeeps,
     SearchKeeps, IngestKeeps, SaveKeeps, WriteProgressKeeps, FinishKeeps, PublishKeeps
     DEF Step
<1>2. CASE UNCHANGED vars
  <2>1. TypeOK' /\ SoleWriter' /\ CheckpointExact' /\ CheckpointAtMonthEnd'
        /\ SidecarNeverLeads' /\ PublishedComplete'
    BY <1>2 DEF vars, disk, local, IInv, TypeOK, SoleWriter, Working, CheckpointExact,
       CheckpointAtMonthEnd, SidecarNeverLeads, PublishedComplete
  <2>2. \A c \in Builders : PlaceInv(c)'
    BY <1>2, OthersKeep DEF vars, local, IInv
  <2> QED
    BY <2>1, <2>2 DEF IInv
<1> QED
  BY <1>1, <1>2 DEF Next

-----------------------------------------------------------------------------
\* The inductive invariant holds throughout.
THEOREM Inductive == Spec => []IInv
<1>1. Init => IInv
  BY InitIInv
<1>2. IInv /\ [Next]_vars => IInv'
  BY NextIInv
<1> QED
  BY <1>1, <1>2, PTL DEF Spec

\* Every variable of the acquisition stays in its range.
THEOREM TypeCorrect == Spec => []TypeOK
<1>1. IInv => TypeOK
  BY DEF IInv
<1> QED
  BY <1>1, Inductive, PTL

\* Whatever dies when, the sums in the checkpoint are those of the days its
\* own metadata says are complete, each counted once.
THEOREM Exactness == Spec => []CheckpointExact
<1>1. IInv => CheckpointExact
  BY DEF IInv
<1> QED
  BY <1>1, Inductive, PTL

\* The lock keeps every other process out of the checkpoint.
THEOREM MutualExclusion == Spec => []SoleWriter
<1>1. IInv => SoleWriter
  BY DEF IInv
<1> QED
  BY <1>1, Inductive, PTL

\* Published fields are made of a whole period.
THEOREM PublishedIsComplete == Spec => []PublishedComplete
<1>1. IInv => PublishedComplete
  BY DEF IInv
<1> QED
  BY <1>1, Inductive, PTL

\* The progress sidecar never claims more than the checkpoint.
THEOREM SidecarBehind == Spec => []SidecarNeverLeads
<1>1. IInv => SidecarNeverLeads
  BY DEF IInv
<1> QED
  BY <1>1, Inductive, PTL

(* ---- Steps of the checkpoint ---- *)

\* Only Save writes the checkpoint.
LEMMA OnlySaveWrites ==
    ASSUME [Next]_vars
    PROVE  UNCHANGED disk \/ \E b \in Builders : Save(b)
<1>1. ASSUME NEW b \in Builders, Step(b) \/ Die(b) PROVE UNCHANGED disk \/ Save(b)
  BY <1>1 DEF Step, Begin, LoadTotals, LoadProgress, Reject, SkipMonth, Search,
     NoGranules, Ingest, WriteProgress, Finish, Publish, Die, disk
<1>2. CASE UNCHANGED vars
  BY <1>2 DEF vars, disk
<1> QED
  BY <1>1, <1>2 DEF Next

\* A checkpoint moves forward only and keeps its period.
THEOREM ForwardOnly == Spec => NeverBackwards
<1>1. ASSUME IInv, [Next]_vars
      PROVE  [/\ diskThrough' >= diskThrough
              /\ diskPeriod # NoPeriod => diskPeriod' = diskPeriod]_disk
  <2>1. CASE UNCHANGED disk
    BY <2>1
  <2>2. ASSUME NEW b \in Builders, Save(b)
        PROVE  /\ diskThrough' >= diskThrough
               /\ diskPeriod # NoPeriod => diskPeriod' = diskPeriod
    <3>1. pc[b] = "ingest" /\ todo[b] = {} /\ diskThrough' = ThisKey(b)
          /\ diskPeriod' = args[b]
      BY <2>2 DEF Save
    <3>2. diskThrough < ThisKey(b) /\ diskPeriod \in {NoPeriod, args[b]}
      BY <1>1, <3>1, MonthIngested
    <3>3. ThisKey(b) \in Int /\ diskThrough \in Int
      <4>1. ThisKey(b) \in Days
        BY <1>1, <3>1, MonthIngested, KeyInMonth DEF ThisKey
      <4> QED
        BY <1>1, <4>1, DaysInt DEF IInv, TypeOK
    <3> QED
      BY <3>1, <3>2, <3>3
  <2> QED
    BY <1>1, <2>1, <2>2, OnlySaveWrites
<1> QED
  BY <1>1, Inductive, PTL DEF Spec, NeverBackwards

\* The abstract module reads the same calendar.
LEMMA SameCalendar ==
    /\ Pass!Days = Days /\ Pass!BeforeAll = BeforeAll /\ Pass!Covered = Covered
    /\ \A p, m : /\ Pass!InPeriod(p, m) = InPeriod(p, m)
                 /\ Pass!FirstMonth(p, m) = FirstMonth(p, m)
                 /\ Pass!Key(p, m) = Key(p, m)
                 /\ Pass!Range(p, m) = Range(p, m)
BY DEF Pass!Days, Days, Pass!BeforeAll, BeforeAll, Pass!Covered, Covered,
   Pass!InPeriod, InPeriod, Pass!FirstMonth, FirstMonth, Pass!Key, Key,
   Pass!Range, Range, Pass!RangeFirst, RangeFirst

\* The checkpoint file implements the serial pass: every save folds the next
\* month of the period, every other step is a stutter.
THEOREM Refinement == Spec => SerialPassSpec
<1>1. Init => Pass!Init
  BY Typing, SameCalendar DEF Init, Pass!Init, Zero
<1>2. ASSUME IInv, [Next]_vars
      PROVE  [Pass!Next]_<<diskTotal, IF diskPeriod = Unversioned THEN NoPeriod ELSE diskPeriod,
                           diskThrough>>
  <2>1. CASE UNCHANGED disk
    BY <2>1 DEF disk
  <2>2. ASSUME NEW b \in Builders, Save(b) PROVE Pass!Next
    <3>1. pc[b] = "ingest" /\ todo[b] = {} /\ diskThrough' = ThisKey(b)
          /\ diskPeriod' = args[b] /\ diskTotal' = mem[b]
      BY <2>2 DEF Save
    <3>2. /\ args[b] \in Periods /\ month[b] \in 1..Months
          /\ InPeriod(args[b], month[b])
          /\ diskPeriod \in {NoPeriod, args[b]}
          /\ diskThrough = IF FirstMonth(args[b], month[b])
                           THEN BeforeAll ELSE Key(args[b], month[b] - 1)
          /\ mem[b] = [d \in Days |-> diskTotal[d] +
                           (IF d \in Range(args[b], month[b]) \cap Covered THEN 1 ELSE 0)]
      BY <1>2, <3>1, MonthIngested
    <3>3. Pass!Fold(args[b], month[b])
      BY <3>1, <3>2, Typing, SameCalendar DEF Pass!Fold, ThisKey
    <3> QED
      BY <3>2, <3>3 DEF Pass!Next
  <2> QED
    BY <1>2, <2>1, <2>2, OnlySaveWrites
<1> QED
  BY <1>1, <1>2, Inductive, PTL DEF Spec, SerialPassSpec, Pass!Spec

=============================================================================
