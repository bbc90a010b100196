--------------------------- MODULE MCFileExchange ---------------------------
(* Three ways of files into and out of the pipeline, one at a time: a       *)
(* month's granules are downloaded, a month's wind atlas or an archive of   *)
(* cyclone tracks goes to the plugin.                                       *)
EXTENDS CycloneTracks, WindAtlas, OscarDownload

CONSTANTS atl, she

VARIABLE job

\* Cyclone tracks: two theatres, one of them southern, and two storms around a
\* new year, which has a 29th of February: a storm that crosses into the other theatre and back, two records
\* of one time, one off the six hours, one of another track type, one before
\* the period, one at a pole, one a year too late, longitudes on both sides of
\* the border of east and west.
MCOutputBasins == <<atl, she>>

Row(s, b, y, m, d, h, la, lo, w) ==
    [sid |-> s, main |-> TRUE, basin |-> b, year |-> y, month |-> m, day |-> d,
     hour |-> h, lat |-> la, lon |-> lo, state |-> "T", wind |-> w, pressure |-> 1000 - w]

MCRows ==
    {Row(1, atl, 2003, 12, 31, 18, 120, -450, 30),
     Row(1, atl, 2002, 12, 31, 18, 110, -440, 25),
     Row(1, atl, 2004, 1, 1, 0, 125, 3599, 40),
     Row(1, she, 2004, 1, 1, 0, -10, 151, 50),
     Row(1, atl, 2004, 1, 1, 6, 130, 150, 60),
     Row(1, atl, 2005, 2, 1, 0, 900, 0, 70),
     Row(2, she, 2003, 11, 30, 12, -120, 900, 35),
     Row(2, she, 2004, 2, 29, 0, -125, 910, 45),
     [Row(2, she, 2003, 12, 1, 0, -122, 905, 55) EXCEPT !.main = FALSE],
     Row(2, atl, 2003, 12, 1, 3, -122, 905, 65)}

\* Wind: cells with no sample, too few, shares that do not come out even, and
\* calms and gales from none to all.
MCSamples ==
    {a \in [count : {<<0, 0, 0>>, <<0, 1, 0>>, <<1, 1, 1>>, <<0, 2, 1>>, <<5, 1, 1>>},
            calm : {0, 3}, gale : {0, 2}] :
        a.calm + a.gale <= a.count[1] + a.count[2] + a.count[3]}

MCMeanSpeed == <<<<11, 12, 13>>, <<21, 22, 23>>>>

\* Granules: a file that is none of NetCDF, and two links of one name.
MCLinks == <<"a.nc", "b.nc", "a.nc", "c.md5">>

-----------------------------------------------------------------------------
NoTracks == input = <<>> /\ Init
NoAtlas ==
    /\ counts = CHOOSE a \in [Cells -> MCSamples] : TRUE
    /\ extrasFile = NoFile
    /\ AtlasInit

MCInit ==
    /\ DownloadInit
    /\ \/ job = "tracks" /\ Init /\ NoAtlas
       \/ job = "atlas" /\ NoTracks /\ AtlasInit
       \/ job = "download" /\ NoTracks /\ NoAtlas

Tracks == job = "tracks" /\ Next /\ UNCHANGED <<atlasVars, downloadVars, job>>
Atlas == job = "atlas" /\ AtlasNext /\ UNCHANGED <<vars, downloadVars, job>>
Download == job = "download" /\ DownloadNext /\ UNCHANGED <<vars, atlasVars, job>>

MCNext == Tracks \/ Atlas \/ Download

MCSpec == MCInit /\ [][MCNext]_<<vars, atlasVars, downloadVars, job>>
=============================================================================
