---------------------------- MODULE CycloneTracks ----------------------------
(***************************************************************************)
(* Cyclone tracks on their way from the IBTrACS archive into the plugin:   *)
(* build_cyclones reads the archive's rows, splits each storm at the       *)
(* borders of the theatres, writes one file per theatre and reads it back; *)
(* the plugin's ReadCycloneData turns a file into segments, from one point *)
(* to the next.  A file of the format holds the year once per track, the   *)
(* terminator of a track is a state, and a point's wind and pressure come  *)
(* after the position that ends the segment before it.                     *)
(*                                                                         *)
(* Positions are in tenths of a degree.  A row's state, wind and pressure  *)
(* are what _read_rows makes of the agency columns; a file is a sequence   *)
(* of fields, each of which is read whole or not at all.                   *)
(***************************************************************************)
EXTENDS Integers, Sequences, FiniteSets

CONSTANTS
    Rows,        \* rows of the archive
    MaxRows,     \* how many of them an archive has: a bound of the model
    Storms,      \* the highest SID
    FirstYear, LastYear, \* PERIOD_START and PERIOD_END
    OutputBasins,\* the theatres, in the order their files are written
    Southern     \* theatres whose files hold the latitude negated

Theatres == {OutputBasins[i] : i \in DOMAIN OutputBasins}
Quarters == {0, 6, 12, 18}
Latitudes == -900..900  \* below 90 degrees, then rounded
Longitudes == -3600..3600

DaysIn(year, month) ==
    IF month = 2
    THEN IF year % 4 = 0 /\ (year % 100 # 0 \/ year % 400 = 0) THEN 29 ELSE 28
    ELSE IF month \in {4, 6, 9, 11} THEN 30 ELSE 31

ASSUME TracksAssumption ==
    /\ {MaxRows, FirstYear, LastYear} \subseteq Nat /\ Storms \in Nat \ {0}
    /\ OutputBasins \in Seq(Theatres) /\ OutputBasins # <<>>
    /\ Southern \subseteq Theatres
    /\ Rows \subseteq
        [sid : 1..Storms, main : BOOLEAN, basin : Theatres \cup {"none"},
         year : Nat, month : 1..12, day : 1..31, hour : 0..23,
         lat : Latitudes, lon : Longitudes, state : STRING, wind : Int, pressure : Int]
    /\ \A r \in Rows : r.state \notin {"year", "end", "none"}  \* a letter
    /\ \A r \in Rows : r.day <= DaysIn(r.year, r.month)
    /\ "none" \notin Theatres

VARIABLES
    input,    \* the archive: a sequence of rows
    next,     \* the row _read_rows is at
    grouped,  \* grouped[s]: accepted rows of storm s, in the archive's order
    tracks,   \* tracks[b]: the tracks of theatre b, each a sequence of points
    storm,    \* the storm convert_ibtracs is at
    current,  \* the track it is collecting
    seen,     \* times of the storm it has met
    pc,       \* where the build is
    theatre,  \* the theatre it writes or reads back
    files,    \* files[b]: the fields of the file of theatre b
    got,      \* got[b]: how many fields of the file the plugin has
    cursor,   \* ReadCycloneData's local variables
    cyclones, \* cyclones[b]: the plugin's list of tracks, each a sequence of segments
    result    \* result[b]: what ReadCycloneData returned

source == <<input, next, grouped>>
conversion == <<tracks, storm, current, seen>>
plugin == <<got, cursor, cyclones, result>>
vars == <<source, conversion, pc, theatre, files, plugin>>

-----------------------------------------------------------------------------
(* Points and fields                                                       *)

Stamp(p) == ((p.year * 13 + p.month) * 32 + p.day) * 24 + p.hour

Accepted(r) ==
    /\ r.main
    /\ r.year \in FirstYear..LastYear /\ r.hour \in Quarters
    /\ r.basin # "none"

LegacyLongitude_East(lon) == lon % 3600

\* 0 to 15 degrees east stay, everything else counts west.
LegacyLongitude(lon) ==
    LET east == lon % 3600 IN IF east > 150 THEN east - 3600 ELSE east

Point(r) == [r EXCEPT !.lon = LegacyLongitude(r.lon)]

End == [state |-> "end"]

\* dayhour: day * 4 + hour / 6, in one byte.
PointField(p, b) ==
    [state |-> p.state, dayhour |-> p.day * 4 + p.hour \div 6, month |-> p.month,
     lat |-> IF b \in Southern THEN -p.lat ELSE p.lat, lon |-> p.lon,
     wind |-> p.wind, pressure |-> p.pressure]

\* encode_cyclones on one track: the year is the first point's.
TrackFields(t, b) ==
    <<[state |-> "year", year |-> t[1].year]>>
        \o [k \in 1..Len(t) |-> PointField(t[k], b)]
        \o <<End>>

\* It refuses a year that is neither the last nor the next at a month wrap.
Encodable(t) ==
    \A k \in 2..Len(t) :
        \/ t[k].year = t[k-1].year
        \/ t[k].year = t[k-1].year + 1 /\ t[k].month < t[k-1].month

WithTrack(fields, t, b) == fields \o TrackFields(t, b)

\* The fields of the first n tracks.
FieldsTo(ts, b) ==
    LET upTo[n \in 0..Len(ts)] ==
            IF n = 0 THEN <<>> ELSE WithTrack(upTo[n-1], ts[n], b)
    IN upTo

FileOf(ts, b) == FieldsTo(ts, b)[Len(ts)]

IsPoint(field) == field.state \notin {"year", "end"}

\* decode_cyclones accepts the field of a point.
Decodable(field) ==
    /\ field.month \in 1..12 /\ field.dayhour \div 4 \in 1..31
    /\ field.lat > -900 /\ field.lat < 900
    /\ field.lon >= -3600 /\ field.lon <= 3600

\* ReadCycloneData does, in the year it has come to.
Readable(field, year) ==
    /\ field.month \in 1..12 /\ field.dayhour \div 4 \in 1..DaysIn(year, field.month)
    /\ field.lat > -900 /\ field.lat < 900
    /\ field.lon >= -3600 /\ field.lon <= 150

-----------------------------------------------------------------------------
(* convert_ibtracs                                                         *)

ReadRow ==
    /\ pc = "read" /\ next <= Len(input)
    /\ LET r == input[next] IN
        grouped' = IF Accepted(r) THEN [grouped EXCEPT ![r.sid] = Append(@, Point(r))]
                   ELSE grouped
    /\ next' = next + 1
    /\ UNCHANGED <<input, conversion, pc, theatre, files, plugin>>

EndOfRows ==
    /\ pc = "read" /\ next > Len(input)
    /\ pc' = "split"
    /\ UNCHANGED <<source, conversion, theatre, files, plugin>>

\* The sort is stable: of two records of one time the archive's first.
Earliest(records) ==
    CHOOSE i \in DOMAIN records : \A j \in DOMAIN records :
        \/ Stamp(records[i]) < Stamp(records[j])
        \/ Stamp(records[i]) = Stamp(records[j]) /\ i <= j

Without(records, i) ==
    [j \in 1..(Len(records) - 1) |-> IF j < i THEN records[j] ELSE records[j+1]]

Flushed ==
    IF current = <<>> THEN tracks
    ELSE [tracks EXCEPT ![current[1].basin] = Append(@, current)]

\* A time met before is skipped; a point of another theatre ends the track.
SplitRecord ==
    /\ pc = "split" /\ grouped[storm] # <<>>
    /\ LET i == Earliest(grouped[storm])
           p == grouped[storm][i]
           leaves == current # <<>> /\ current[1].basin # p.basin IN
        /\ grouped' = [grouped EXCEPT ![storm] = Without(@, i)]
        /\ seen' = seen \cup {Stamp(p)}
        /\ IF Stamp(p) \in seen THEN UNCHANGED <<tracks, current>>
           ELSE /\ tracks' = IF leaves THEN Flushed ELSE tracks
                /\ current' = IF leaves THEN <<p>> ELSE Append(current, p)
    /\ UNCHANGED <<input, next, storm, pc, theatre, files, plugin>>

EndOfStorm ==
    /\ pc = "split" /\ grouped[storm] = <<>>
    /\ tracks' = Flushed
    /\ current' = <<>>
    /\ seen' = {}
    /\ storm' = IF storm < Storms THEN storm + 1 ELSE storm
    /\ pc' = IF storm < Storms THEN "split" ELSE "write"
    /\ UNCHANGED <<source, theatre, files, plugin>>

-----------------------------------------------------------------------------
(* build_cyclones.main                                                     *)

\* encode_cyclones raises before the file is opened.
WriteTheatre ==
    LET b == OutputBasins[theatre] IN
    /\ pc = "write"
    /\ IF \A k \in DOMAIN tracks[b] : Encodable(tracks[b][k])
       THEN /\ files' = [files EXCEPT ![b] = FileOf(tracks[b], b)]
            /\ pc' = "verify"
       ELSE files' = files /\ pc' = "failed"
    /\ UNCHANGED <<source, conversion, theatre, plugin>>

VerifyTheatre_Unread ==
    /\ pc = "verify"
    /\ theatre' = IF theatre < Len(OutputBasins) THEN theatre + 1 ELSE theatre
    /\ pc' = IF theatre = Len(OutputBasins) THEN "done" ELSE "write"
    /\ UNCHANGED <<source, conversion, files, plugin>>

\* What was written is decoded, and the report takes min over its points,
\* which an empty theatre has not.
VerifyTheatre ==
    LET file == files[OutputBasins[theatre]]
        points == {k \in DOMAIN file : IsPoint(file[k])}
        good == points # {} /\ \A k \in points : Decodable(file[k])
        last == theatre = Len(OutputBasins) IN
    /\ pc = "verify"
    /\ theatre' = IF good /\ ~last THEN theatre + 1 ELSE theatre
    /\ pc' = IF ~good THEN "failed" ELSE IF last THEN "done" ELSE "write"
    /\ UNCHANGED <<source, conversion, files, plugin>>

-----------------------------------------------------------------------------
(* ReadCycloneData                                                         *)

NoPoint == [state |-> "none"]
Closed == [open |-> FALSE]

\* The plugin opens a theatre's file; what a short file lacks is its end.
Open(b) ==
    /\ pc = "done" /\ ~cursor.open /\ result[b] = "unread"
    /\ \E n \in 0..Len(files[b]) :
        /\ got' = [got EXCEPT ![b] = n]
        /\ cursor' = [open |-> TRUE, basin |-> b, rest |-> SubSeq(files[b], 1, n),
                   inTrack |-> FALSE, lyear |-> 0,
                   llastmonth |-> 0, last |-> NoPoint, lastyear |-> 0,
                   states |-> <<>>]
    /\ UNCHANGED <<source, conversion, pc, theatre, files, cyclones, result>>

Reading(inTrack) == cursor.open /\ cursor.inTrack = inTrack
More == cursor.rest # <<>>
Field == Head(cursor.rest)

ReadYear ==
    /\ Reading(FALSE) /\ More
    /\ cursor' = [cursor EXCEPT !.rest = Tail(@), !.inTrack = TRUE, !.lyear = Field.year,
                                !.llastmonth = 0, !.last = NoPoint, !.states = <<>>]
    /\ UNCHANGED <<source, conversion, pc, theatre, files, got, cyclones, result>>

YearAt(field) ==
    IF field.month < cursor.llastmonth THEN cursor.lyear + 1 ELSE cursor.lyear

Sign == IF cursor.basin \in Southern THEN -1 ELSE 1

\* The segment that ends at a point has the state, date, wind and pressure
\* of the point before.
Segment(p, year, field) ==
    [state |-> p.state, year |-> year, month |-> p.month, day |-> p.dayhour \div 4,
     hour |-> (p.dayhour % 4) * 6, lat |-> <<Sign * p.lat, Sign * field.lat>>,
     lon |-> <<p.lon, field.lon>>, wind |-> p.wind, pressure |-> p.pressure]

ReadPoint ==
    /\ Reading(TRUE) /\ More /\ IsPoint(Field) /\ Readable(Field, YearAt(Field))
    /\ LET year == YearAt(Field) IN
        cursor' = [cursor EXCEPT
            !.rest = Tail(@), !.lyear = year, !.llastmonth = Field.month,
            !.last = Field, !.lastyear = year,
            !.states = IF cursor.last = NoPoint THEN @
                       ELSE Append(@, Segment(cursor.last, cursor.lastyear, Field))]
    /\ UNCHANGED <<source, conversion, pc, theatre, files, got, cyclones, result>>

\* The terminator: the track goes into the theatre's list.
ReadEnd ==
    /\ Reading(TRUE) /\ More /\ Field = End
    /\ cyclones' = [cyclones EXCEPT ![cursor.basin] = Append(@, cursor.states)]
    /\ cursor' = [cursor EXCEPT !.rest = Tail(@), !.inTrack = FALSE]
    /\ UNCHANGED <<source, conversion, pc, theatre, files, got, result>>

EndOfFile ==
    /\ Reading(FALSE) /\ ~More
    /\ result' = [result EXCEPT ![cursor.basin] = "read"]
    /\ cursor' = Closed
    /\ UNCHANGED <<source, conversion, pc, theatre, files, got, cyclones>>

Corrupted_KeepTrack ==
    /\ Reading(TRUE)
    /\ More => IsPoint(Field) /\ ~Readable(Field, YearAt(Field))
    /\ result' = [result EXCEPT ![cursor.basin] = "corrupted"]
    /\ cyclones' = [cyclones EXCEPT ![cursor.basin] = Append(@, cursor.states)]
    /\ cursor' = Closed
    /\ UNCHANGED <<source, conversion, pc, theatre, files, got>>

\* The track that was being read is deleted, those before it stay.
Corrupted ==
    /\ Reading(TRUE)
    /\ More => IsPoint(Field) /\ ~Readable(Field, YearAt(Field))
    /\ result' = [result EXCEPT ![cursor.basin] = "corrupted"]
    /\ cursor' = Closed
    /\ UNCHANGED <<source, conversion, pc, theatre, files, got, cyclones>>

-----------------------------------------------------------------------------
Init ==
    /\ input \in UNION {[1..n -> Rows] : n \in 0..MaxRows}
    /\ \A i, j \in DOMAIN input : i # j => input[i] # input[j]
    /\ next = 1
    /\ grouped = [s \in 1..Storms |-> <<>>]
    /\ tracks = [b \in Theatres |-> <<>>]
    /\ storm = 1 /\ current = <<>> /\ seen = {}
    /\ pc = "read" /\ theatre = 1
    /\ files = [b \in Theatres |-> <<>>]
    /\ got = [b \in Theatres |-> 0]
    /\ cursor = Closed
    /\ cyclones = [b \in Theatres |-> <<>>]
    /\ result = [b \in Theatres |-> "unread"]

Next ==
    \/ ReadRow \/ EndOfRows \/ SplitRecord \/ EndOfStorm
    \/ WriteTheatre \/ VerifyTheatre
    \/ \E b \in Theatres : Open(b)
    \/ ReadYear \/ ReadPoint \/ ReadEnd \/ EndOfFile \/ Corrupted

Spec == Init /\ [][Next]_vars

-----------------------------------------------------------------------------
(* What the archive says, without groups, sorting, tracks or files         *)

\* The observations that count: of several of a storm's time the first.
Kept ==
    {i \in DOMAIN input :
        /\ Accepted(input[i])
        /\ \A j \in 1..(i-1) :
            ~(/\ Accepted(input[j]) /\ input[j].sid = input[i].sid
              /\ Stamp(input[j]) = Stamp(input[i]))}

\* One observation follows another in its storm and in one theatre.
Follows ==
    {ij \in Kept \X Kept :
        LET p == input[ij[1]]  q == input[ij[2]] IN
        /\ p.sid = q.sid /\ p.basin = q.basin
        /\ Stamp(p) < Stamp(q)
        /\ \A k \in Kept : input[k].sid = p.sid =>
              ~(Stamp(p) < Stamp(input[k]) /\ Stamp(input[k]) < Stamp(q))}

\* The same place, counted from 345 degrees west to 15 degrees east.
West(lon) ==
    CHOOSE w \in {lon - 3600, lon, lon + 3600} : -3450 < w /\ w <= 150

FollowsIn(b) == {ij \in Follows : input[ij[1]].basin = b}

Truth(b) ==
    {[state |-> input[ij[1]].state, year |-> input[ij[1]].year,
      month |-> input[ij[1]].month, day |-> input[ij[1]].day, hour |-> input[ij[1]].hour,
      lat |-> <<input[ij[1]].lat, input[ij[2]].lat>>,
      lon |-> <<West(input[ij[1]].lon), West(input[ij[2]].lon)>>,
      wind |-> input[ij[1]].wind, pressure |-> input[ij[1]].pressure]
        : ij \in FollowsIn(b)}

Shown(b) == UNION {{cyclones[b][t][k] : k \in DOMAIN cyclones[b][t]} : t \in DOMAIN cyclones[b]}

SegmentsTo(list) ==
    LET upTo[n \in 0..Len(list)] ==
            IF n = 0 THEN 0 ELSE upTo[n-1] + Len(list[n])
    IN upTo

Total(b) == SegmentsTo(cyclones[b])[Len(cyclones[b])]

\* A theatre's file that arrived whole is read to its end, and gives the
\* plugin exactly the segments of the archive, as many as there are (storms may
\* share one): from an observation to the next of its storm in the theatre,
\* with the date, year, state and wind of the first, on the right side of the
\* equator.
SegmentsAreTheArchives ==
    \A b \in Theatres :
        (result[b] # "unread" /\ got[b] = Len(files[b])) =>
            /\ result[b] = "read"
            /\ Shown(b) = Truth(b)
            /\ Total(b) = Cardinality(FollowsIn(b))

\* However short the file is, what the plugin shows of it is true, and of a
\* track it shows all or nothing.
WholeTracksOnly ==
    \A b \in Theatres :
        /\ Shown(b) \subseteq Truth(b)
        /\ \A t \in DOMAIN cyclones[b] : Len(cyclones[b][t]) = Len(tracks[b][t]) - 1

\* A build fails for a theatre without observations, one next to a pole, or a
\* storm that skips a year, and for nothing else; what it completes has none
\* of them.
BuildFails ==
    \/ \E b \in Theatres : \A i \in Kept : input[i].basin # b
    \/ \E i \in Kept : input[i].lat \in {-900, 900}
    \/ \E ij \in Follows :
        LET p == input[ij[1]]  q == input[ij[2]] IN
        q.year > p.year + 1 \/ (q.year = p.year + 1 /\ q.month >= p.month)

BuildVerdict == (pc = "failed" => BuildFails) /\ (pc = "done" => ~BuildFails)
=============================================================================
