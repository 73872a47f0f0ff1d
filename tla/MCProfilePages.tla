-------------------------- MODULE MCProfilePages --------------------------
(* Two episodes of series 11, one of series 12 that has no runtime, and a  *)
(* film; two users and a play without one.                                 *)
EXTENDS ProfilePages

Episode(s, min, lib) ==
    [scope |-> "episode", series |-> s, runtime |-> min, decade |-> 2010,
     genres |-> {"drama"}, tags |-> {"slow"}, library |-> lib]
Film == [scope |-> "movie", series |-> 0, runtime |-> 100, decade |-> 1990,
         genres |-> {"drama", "crime"}, tags |-> {"slow", "noir"}, library |-> "Films"]

MCItems == 1..4
MCAbout == <<Episode(11, 40, "Shows"), Episode(11, 40, "Shows"), Episode(12, 0, "Shows"), Film>>
MCRanges == {"30d", "1y", "all"}
MCRangeDays == [r \in MCRanges |-> CASE r = "30d" -> 1 [] r = "1y" -> 2 [] OTHER -> 0]
MCCredits == 4 :> {<<"actor", 4>>, <<"director", 2>>} @@ 11 :> {<<"actor", 1>>, <<"actor", 3>>}
                 @@ 2 :> {<<"actor", 1>>, <<"actor", 2>>} @@ 12 :> {<<"actor", 3>>}
MCPlayed == {<<1, 4>>}

P(u, i, h, min, f, m) == [user |-> u, item |-> i, at |-> h, dur |-> min, found |-> f, method |-> m]
D == "DirectPlay"
T == "VideoTranscode"

MCReports ==
    {P(1, 1, 1, 40, "full", D), P(1, 2, 5, 30, "full", T),
     P(1, 1, 10, 5, "full", T), P(1, 2, 11, 38, "full", D),
     P(1, 4, 25, 20, "gone", D), P(1, 4, 30, 75, "full", D), P(2, 4, 50, 95, "full", T),
     P(2, 1, 27, 40, "unread", D), P(2, 1, 27, 40, "full", D),
     P(2, 3, 28, 45, "full", D), P(0, 4, 3, 50, "full", D)}
=============================================================================
