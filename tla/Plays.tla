------------------------------- MODULE Plays -------------------------------
(***************************************************************************)
(* The plays that the aggregates are computed from (source.PlaybackEvent), *)
(* as the spine gives them back: oldest first, each with the facts that    *)
(* its last enrichment found.                                              *)
(*                                                                         *)
(* Ids, times and durations are numbers: 0 stands for the empty id, and    *)
(* ids are compared as Go compares their strings.  A play is begun at an   *)
(* hour and lasts minutes.                                                 *)
(***************************************************************************)
EXTENDS Integers, FiniteSets, FiniteSetsExt, Functions

CONSTANTS
    Items,   \* ids of films and episodes
    About,   \* what Jellyfin knows of an item
    Ranges,  \* "30d", "90d", "1y" and AllTime
    AllTime,
    RangeDays,  \* the days of each range
    DayHours    \* the hours of a day: 24

NoId == 0
Whole == ""         \* the scope "All libraries"; also: no library was looked up
Unknown == "Unknown"

ASSUME PlaysAssumption ==
    /\ Items \subseteq Nat \ {NoId}
    /\ \A i \in Items :  \* an episode's tags are those of its series
           /\ About[i].scope \in {"movie", "episode"}
           /\ {About[i].series, About[i].runtime, About[i].decade} \subseteq Nat
           /\ About[i].scope = "movie" => About[i].series = NoId
           /\ About[i].library # Whole
           /\ IsFiniteSet(About[i].genres) /\ IsFiniteSet(About[i].tags)
    /\ AllTime \in Ranges
    /\ RangeDays \in [Ranges -> Nat]
    /\ DayHours \in Nat \ {0}

\* found: the item was found ("full"), was not ("gone"), or Jellyfin's file
\* could not be read ("unread").
Outcomes == {"full", "gone", "unread"}

FactsOf(p) ==
    IF p.found = "full" THEN About[p.item]
    ELSE [series |-> NoId, runtime |-> 0, decade |-> 0, genres |-> {}, tags |-> {},
          library |-> IF p.found = "gone" THEN Unknown ELSE Whole,
          scope |-> About[p.item].scope]

Day(p) == p.at \div DayHours

\* The dedup hash: a play of one user, item and time is there once.
SamePlay(p, q) == p.user = q.user /\ p.item = q.item /\ p.at = q.at

Library(p) == FactsOf(p).library
Series(p) == FactsOf(p).series
IsEpisode(p) == About[p.item].scope = "episode"

\* What every aggregate passes over.
Counted(plays) == {p \in plays : p.user # NoId /\ p.item # NoId}

FilterEventsByLibrary(plays, lib) ==
    IF lib = Whole THEN plays ELSE {p \in plays : Library(p) = lib}

\* A mistake in DistinctEventLibraries: "Unknown" is taken for a sentinel.
DistinctKnownLibraries(plays) == {Library(p) : p \in plays} \ {Unknown}

DistinctEventLibraries(plays) == {Library(p) : p \in plays}

\* The scopes that a run writes tables for.
Scopes(plays) == {Whole} \union DistinctEventLibraries(plays)

Earliest(plays) == CHOOSE p \in plays : \A q \in plays : p.at <= q.at

Minutes(plays) == SumFunction([p \in plays |-> p.dur])

\* The best n by a strict order.
Best(n, S, Ahead(_, _)) == {x \in S : Cardinality({y \in S : Ahead(y, x)}) < n}
=============================================================================
