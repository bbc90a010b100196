----------------------------- MODULE MCWindBuild -----------------------------
(* Years 1 to 3, the last of them beyond the atmosphere source; requests    *)
(* for a part, for all of it, with another start, with the atmosphere.      *)
EXTENDS WindBuild

CONSTANTS b1, b2

MCYears == 1..3
Request(s, e, a) == [start |-> s, end |-> e, atmosphere |-> a]
MCRequests ==
    {Request(1, 2, FALSE), Request(1, 2, TRUE), Request(1, 3, FALSE),
     Request(2, 3, FALSE), Request(1, 3, TRUE)}
=============================================================================
