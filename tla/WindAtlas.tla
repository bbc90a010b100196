------------------------------ MODULE WindAtlas ------------------------------
(***************************************************************************)
(* A month's wind atlas from the counts of the build to the plugin's       *)
(* memory: WindAccumulator.atlas makes percentages of the counts,          *)
(* encode_wind writes one stream of bytes that only its own contents tell  *)
(* apart (a byte is there or not, depending on bytes before it) and has    *)
(* room for either the calms or the gales of a cell; encode_wind_extras    *)
(* writes both into a second file, later, and the build may end between    *)
(* the two.  ReadWindData and ReadWindExtras read what arrives.            *)
(***************************************************************************)
EXTENDS Integers, Sequences, FiniteSets

CONSTANTS
    CellCount,      \* latitudes times longitudes
    SectorCount,    \* WIND_DIRECTIONS, dir_cnt
    Resolution,     \* direction_resolution
    MinimumSamples,
    Samples,        \* what a cell may have seen: counts per sector, of calms, of gales
    MeanSpeed,      \* MeanSpeed[c][s]: mean speed of sector s in cell c
    NoFile, NoData

Cells == 1..CellCount
Sectors == 1..SectorCount

\* SumsTo(f)[n] is the sum of f over the first n sectors.
SumsTo(f) ==
    LET sum[n \in 0..SectorCount] == IF n = 0 THEN 0 ELSE sum[n-1] + f[n]
    IN  sum

SumOf(f) == SumsTo(f)[SectorCount]

\* WindPolar
Polars == [gale : Nat, calm : Nat, directions : [Sectors -> Nat], speeds : [Sectors -> Nat]]

ASSUME AtlasAssumption ==
    /\ {CellCount, SectorCount, Resolution, MinimumSamples} \subseteq Nat \ {0}
    /\ Resolution < 255
    /\ MeanSpeed \in [Cells -> [Sectors -> 0..255]]
    /\ \A a \in Samples :  \* calms and gales are some of the samples
        /\ a.count \in [Sectors -> Nat]
        /\ {a.calm, a.gale} \subseteq 0..SumOf(a.count)
    /\ NoData \notin [Cells -> Polars] /\ NoFile \notin Seq(Nat)

VARIABLES
    counts,     \* the accumulator's counts of the month, per cell
    windFile,   \* windMM.gz: its bytes after the header
    extrasFile, \* wind-extrasMM.gz: the two planes after the header
    windData,   \* m_WindData[month]
    atlasStage

atlasVars == <<counts, windFile, extrasFile, windData, atlasStage>>

Smaller(a, b) == IF a < b THEN a ELSE b

\* np.rint: to the nearest, halves to the even one.
Rint(a, b) ==
    LET up == 2 * (a % b) > b \/ (2 * (a % b) = b /\ (a \div b) % 2 = 1)
    IN  (a \div b) + (IF up THEN 1 ELSE 0)

-----------------------------------------------------------------------------
(* WindAccumulator.atlas                                                   *)

TotalOf(a) == SumOf(a.count)
Valid(a) == TotalOf(a) >= MinimumSamples
Percent(n, a) == Rint(100 * n, TotalOf(a))

\* Largest remainders: what rounding down leaves over goes to the sectors
\* that lost most, one each.
Frequency_Rint(a) == [s \in Sectors |-> Rint(a.count[s] * Resolution, TotalOf(a))]

Frequency(a) ==
    LET total == TotalOf(a)
        scaled(s) == a.count[s] * Resolution
        lost(s) == scaled(s) % total
        ahead(s) == {t \in Sectors : lost(t) > lost(s) \/ (lost(t) = lost(s) /\ t < s)}
        left == Resolution - SumOf([s \in Sectors |-> scaled(s) \div total])
    IN  [s \in Sectors |->
            (scaled(s) \div total) + (IF Cardinality(ahead(s)) < left THEN 1 ELSE 0)]

-----------------------------------------------------------------------------
(* encode_wind and encode_wind_extras                                      *)

Marker(a) ==
    LET calm == Percent(a.calm, a) gale == Percent(a.gale, a)
    IN  IF ~Valid(a) THEN 255
        ELSE IF 3 * gale > 2 * calm THEN 100 + gale ELSE Smaller(99, calm)

\* Both sides loop over passes and, in each, over cells: the markers, the
\* frequencies of one sector after the other, then the speeds.
TurnCount == (2 * SectorCount + 1) * CellCount
PassAt(i) == (i - 1) \div CellCount
CellAt(i) == ((i - 1) % CellCount) + 1
SectorAt(i) == IF PassAt(i) > SectorCount THEN PassAt(i) - SectorCount ELSE PassAt(i)

\* A missing cell has a marker only, a sector without frequency no speed.
BytesAt(atlas, i) ==
    LET a == atlas[CellAt(i)]
        share == Frequency(a)[SectorAt(i)]
    IN  IF PassAt(i) = 0 THEN <<Marker(a)>>
        ELSE IF ~Valid(a) THEN <<>>
        ELSE IF PassAt(i) <= SectorCount THEN <<share>>
        ELSE IF share = 0 THEN <<>>
        ELSE <<MeanSpeed[CellAt(i)][SectorAt(i)]>>

WriteValue(atlas, stream, i) == stream \o BytesAt(atlas, i)

\* The stream after each turn.
Stream(atlas) ==
    LET stream[i \in 0..TurnCount] ==
            IF i = 0 THEN <<>> ELSE WriteValue(atlas, stream[i-1], i)
    IN  stream

EncodeWind(atlas) == Stream(atlas)[TurnCount]

EncodeExtras_Swapped(atlas) ==
    [i \in 1..(2 * CellCount) |->
        LET a == atlas[CellAt(i)]
        IN  IF ~Valid(a) THEN 255
            ELSE Percent(IF i <= CellCount THEN a.gale ELSE a.calm, a)]

\* Two planes, of calms and of gales.
EncodeExtras(atlas) ==
    [i \in 1..(2 * CellCount) |->
        LET a == atlas[CellAt(i)]
        IN  IF ~Valid(a) THEN 255
            ELSE Percent(IF i <= CellCount THEN a.calm ELSE a.gale, a)]

\* The last lines of build: two files, one after the other.
WriteWind ==
    /\ atlasStage = "build"
    /\ windFile' = EncodeWind(counts)
    /\ atlasStage' = "written"
    /\ UNCHANGED <<counts, extrasFile, windData>>

WriteExtras ==
    /\ atlasStage = "written"
    /\ extrasFile' = EncodeExtras(counts)
    /\ atlasStage' = "complete"
    /\ UNCHANGED <<counts, windFile, windData>>

\* The files are copied to the plugin, whole or cut short, the second perhaps
\* not at all, or that of an earlier build.
Ship(w, x) ==
    /\ atlasStage \in {"written", "complete"}
    /\ windFile' = SubSeq(windFile, 1, w)
    /\ extrasFile' \in {NoFile, extrasFile} \cup
        (IF extrasFile = NoFile THEN {} ELSE {SubSeq(extrasFile, 1, x)})
    /\ atlasStage' = "shipped"
    /\ UNCHANGED <<counts, windData>>

-----------------------------------------------------------------------------
(* ReadWindData and ReadWindExtras                                         *)

MissingCell(polar) == polar.gale = 255

\* One turn of the loops, as far as byte "used".
ReadValue(file, reading, i) ==
    LET cell == CellAt(i)
        polar == reading.data[cell]
        s == SectorAt(i)
        more == reading.used < Len(file)
        value == file[reading.used + 1]
        becomes(new, used) ==
            [data |-> [reading.data EXCEPT ![cell] = new],
             used |-> reading.used + used, whole |-> TRUE]
    IN  IF ~reading.whole THEN reading
        ELSE IF PassAt(i) > 0 /\ MissingCell(polar) THEN reading
        ELSE IF PassAt(i) > SectorCount /\ polar.directions[s] = 0
             THEN becomes([polar EXCEPT !.speeds[s] = 0], 0)
        ELSE IF ~more THEN [reading EXCEPT !.whole = FALSE]
        ELSE IF PassAt(i) > SectorCount THEN becomes([polar EXCEPT !.speeds[s] = value], 1)
        ELSE IF PassAt(i) > 0 THEN becomes([polar EXCEPT !.directions[s] = value], 1)
        ELSE IF value > 200 THEN becomes([polar EXCEPT !.gale = 255], 1)
        ELSE IF value >= 100
             THEN becomes([polar EXCEPT !.gale = value - 100, !.calm = 0], 1)
        ELSE becomes([polar EXCEPT !.gale = 0, !.calm = value], 1)

NewPolar == [gale |-> 0, calm |-> 0, directions |-> [s \in Sectors |-> 0],
             speeds |-> [s \in Sectors |-> 0]]
Unread == [data |-> [c \in Cells |-> NewPolar], used |-> 0, whole |-> TRUE]

\* What has been read after each turn.
ReadSoFar(file) ==
    LET reading[i \in 0..TurnCount] ==
            IF i = 0 THEN Unread ELSE ReadValue(file, reading[i-1], i)
    IN  reading

DecodeWind(file) == ReadSoFar(file)[TurnCount]

ReadWindData ==
    /\ atlasStage = "shipped"
    /\ LET reading == DecodeWind(windFile)
       IN  windData' = IF reading.whole THEN reading.data ELSE NoData
    /\ atlasStage' = "read"
    /\ UNCHANGED <<counts, windFile, extrasFile>>

ExtrasOf(c) == [calm |-> extrasFile[c], gale |-> extrasFile[CellCount + c]]
AgreesAt_Masks(c) == {ExtrasOf(c).calm, ExtrasOf(c).gale} \subseteq 0..100 \cup {255}

AgreesAt(c) ==
    LET x == ExtrasOf(c)
    IN  IF x.calm = 255 \/ x.gale = 255
        THEN MissingCell(windData[c])
        ELSE x.calm <= 100 /\ x.gale <= 100 /\ ~MissingCell(windData[c])

WithExtras(used) ==
    [c \in Cells |->
        IF c \in used /\ ~MissingCell(windData[c])
        THEN [windData[c] EXCEPT !.calm = ExtrasOf(c).calm, !.gale = ExtrasOf(c).gale]
        ELSE windData[c]]

ReadWindExtras_AsFarAsGood ==
    /\ atlasStage = "read"
    /\ windData' =
        IF windData = NoData \/ extrasFile = NoFile THEN windData
        ELSE IF Len(extrasFile) < 2 * CellCount THEN windData
        ELSE WithExtras({c \in Cells : \A d \in 1..c : AgreesAt(d)})
    /\ atlasStage' = "done"
    /\ UNCHANGED <<counts, windFile, extrasFile>>

ReadWindExtras ==
    /\ atlasStage = "read"
    /\ windData' =
        IF windData = NoData \/ extrasFile = NoFile THEN windData
        ELSE IF Len(extrasFile) < 2 * CellCount THEN windData
        ELSE IF \E c \in Cells : ~AgreesAt(c) THEN windData
        ELSE WithExtras(Cells)
    /\ atlasStage' = "done"
    /\ UNCHANGED <<counts, windFile, extrasFile>>

-----------------------------------------------------------------------------
\* A build of fewer years may have left its second file.
Before(b, a) ==
    /\ \A s \in Sectors : b.count[s] <= a.count[s]
    /\ b.calm <= a.calm /\ b.gale <= a.gale

AtlasInit ==
    /\ counts \in [Cells -> Samples]
    /\ windFile = <<>>
    /\ \/ extrasFile = NoFile
       \/ \E old \in [Cells -> Samples] :
            /\ \A c \in Cells : Before(old[c], counts[c])
            /\ extrasFile = EncodeExtras(old)
    /\ windData = NoData
    /\ atlasStage = "build"

AtlasNext ==
    \/ WriteWind \/ WriteExtras \/ ReadWindData \/ ReadWindExtras
    \/ \E w \in 0..Len(windFile), x \in 0..(2 * CellCount) : Ship(w, x)

AtlasSpec == AtlasInit /\ [][AtlasNext]_atlasVars

-----------------------------------------------------------------------------
AtlasRead == atlasStage = "done"
Arrived(c) == windData[c]

SharesOf(a, directions) ==
    /\ SumOf(directions) = Resolution
    /\ \A s \in Sectors :
        LET error == directions[s] * TotalOf(a) - a.count[s] * Resolution
        IN  -TotalOf(a) < error /\ error < TotalOf(a)

CalmAndGale(a) == [calm |-> Percent(a.calm, a), gale |-> Percent(a.gale, a)]
OneOf(pair) ==
    IF 3 * pair.gale > 2 * pair.calm THEN [calm |-> 0, gale |-> pair.gale]
    ELSE [calm |-> Smaller(99, pair.calm), gale |-> 0]

Counted(c) == TotalOf(counts[c]) >= MinimumSamples
ShownAt(c) == [calm |-> Arrived(c).calm, gale |-> Arrived(c).gale]

RoseArrives(c) ==
    /\ MissingCell(Arrived(c)) <=> ~Counted(c)
    /\ Counted(c) =>
        /\ SharesOf(counts[c], Arrived(c).directions)
        /\ \A s \in Sectors :
            Arrived(c).speeds[s] = IF Arrived(c).directions[s] = 0 THEN 0 ELSE MeanSpeed[c][s]

\* No extras, a part of them, or extras that miss other cells.
ExtrasUnusable ==
    \/ extrasFile = NoFile
    \/ Len(extrasFile) < 2 * CellCount
    \/ \E c \in Cells : 255 \in {ExtrasOf(c).calm, ExtrasOf(c).gale} <=> Counted(c)

ExtrasAreOurs == extrasFile = EncodeExtras(counts)

CalmsArrive(c) ==
    Counted(c) =>
        /\ ExtrasUnusable => ShownAt(c) = OneOf(CalmAndGale(counts[c]))
        /\ ExtrasAreOurs => ShownAt(c) = CalmAndGale(counts[c])

\* What the plugin shows in a cell is what the build counted there: nothing
\* where there were too few samples; else frequencies that make up the whole
\* and are each within one of the exact share, and the mean speed in each sector
\* that has any.  Of calms and gales it shows both, as counted, when the build's
\* own extras came whole; and the weightier of the two (calms up to 99, gales
\* one and a half times) when none came, or a part of them, or those of an
\* earlier build that miss other cells.  Of a wind file that comes short it shows
\* nothing at all.  Whole extras of an earlier build that miss the same cells
\* look like this build's to the reader: ExtrasAllOrNone is what holds of them.
AtlasArrives ==
    AtlasRead =>
        IF windData = NoData THEN Len(windFile) < Len(EncodeWind(counts))
        ELSE \A c \in Cells : RoseArrives(c) /\ CalmsArrive(c)

\* The extras are used for every cell or for none: the calms and gales of a
\* month are never some exact and some a choice of one.
ExtrasAllOrNone ==
    AtlasRead /\ windData # NoData =>
        LET there == {c \in Cells : ~MissingCell(Arrived(c))}
        IN  \/ \A c \in there : ShownAt(c) = OneOf(CalmAndGale(counts[c]))
            \/ /\ extrasFile # NoFile /\ Len(extrasFile) = 2 * CellCount
               /\ \A c \in there : ShownAt(c) = ExtrasOf(c)
=============================================================================
