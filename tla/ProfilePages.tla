---------------------------- MODULE ProfilePages ----------------------------
(***************************************************************************)
(* The pages made from the plays: what a run of the watch job writes into  *)
(* the watch tables, the profiles and the charts of people, and what the   *)
(* pages read from them on the same day or a later one.  WatchJob has the  *)
(* run itself; here a table stands for the plays and the day it was made   *)
(* from, and the modules above compute its rows.                           *)
(***************************************************************************)
EXTENDS ReadProfile, WatchStats, People

CONSTANTS
    Reports,   \* the plays that the plugin may report
    MaxPlays,  \* bound: the plays in the spine
    MaxDay     \* bound: the last day

ASSUME PagesAssumption ==
    /\ \A p \in Reports : p.item \in Items /\ p.found \in Outcomes /\ p.at \in Nat
                              /\ p.dur \in Nat /\ p.user \in Nat
    /\ MaxPlays \in Nat \ {0} /\ MaxDay \in Nat

VARIABLES
    spine,     \* playback_events
    today,
    watch,     \* the plays that watch_events_daily and agg_watch_heatmap show
    profiles,  \* the plays and the day that the agg_profile_* tables were made from
    job        \* the transaction that the run under way comes to

pageVars == <<spine, today, watch, profiles, job>>

PagesTypeOK ==
    /\ spine \subseteq Reports /\ watch \subseteq Reports
    /\ \A p, q \in spine : SamePlay(p, q) => p = q
    /\ today \in 0..MaxDay
    /\ profiles.plays \subseteq Reports /\ profiles.day \in 0..today
    /\ job \in {"idle", "watch", "profiles"}

PagesInit ==
    /\ spine = {} /\ watch = {}
    /\ today = 0
    /\ profiles = [plays |-> {}, day |-> 0]
    /\ job = "idle"

Midnight == today < MaxDay /\ today' = today + 1 /\ UNCHANGED <<spine, watch, profiles, job>>

\* A play reported again brings its facts up to date.
AppendPlay(p) == {q \in spine : ~SamePlay(p, q)} \union {p}

RunBegins(p) ==
    /\ job = "idle"
    /\ Day(p) <= today
    /\ spine' = AppendPlay(p)
    /\ Cardinality(spine') <= MaxPlays
    /\ job' = "watch"
    /\ UNCHANGED <<today, watch, profiles>>

WriteWatch == job = "watch" /\ watch' = spine /\ job' = "profiles"
              /\ UNCHANGED <<spine, today, profiles>>

\* The primary key of agg_profile_binge is user, library, series and first day.
BingeKeysClash(plays) ==
    \E lib \in Scopes(plays) :
        LET scoped == FilterEventsByLibrary(plays, lib)
        IN  \E u \in {p.user : p \in scoped} : \E r, s \in TopBinge(RunsOf(u, scoped)) :
                /\ r # s
                /\ BingeRow(r).series = BingeRow(s).series
                /\ BingeRow(r).start = BingeRow(s).start

WriteProfiles ==
    /\ job = "profiles" /\ ~BingeKeysClash(spine)
    /\ profiles' = [plays |-> spine, day |-> today]
    /\ job' = "idle"
    /\ UNCHANGED <<spine, today, watch>>

\* The transaction is rolled back, and the run ends in recordFailure.
WriteProfilesFails ==
    job = "profiles" /\ BingeKeysClash(spine) /\ job' = "idle"
    /\ UNCHANGED <<spine, today, watch, profiles>>

PagesNext ==
    \/ \E p \in Reports : RunBegins(p)
    \/ WriteWatch \/ WriteProfiles \/ WriteProfilesFails \/ Midnight

PagesSpec == PagesInit /\ [][PagesNext]_pageVars

-----------------------------------------------------------------------------
\* The tables of a scope, and what the pages read today.
Tables(lib) == Profiles(FilterEventsByLibrary(profiles.plays, lib), profiles.day)
Stats(daily, user, lib, rng) == ReadWatchStats(daily, user, lib, rng, today)
Charts(rng) == PeopleCharts(profiles.plays, RangeCutoff(rng, profiles.day))

Users == {p.user : p \in Reports} \ {NoId}
BetweenRuns == job = "idle" /\ profiles.plays # {}
SameRun == BetweenRuns /\ profiles.plays = watch
InFull(plays) == \A p \in plays : p.found = "full" /\ (IsEpisode(p) => Series(p) # NoId)
InScope(p, lib) == lib = Whole \/ Library(p) = lib
FirstOfRow(plays, p) == Earliest({q \in Counted(plays) : SameDailyRow(p, q)})
\* A user's plays that are in a library and the first of their row is not, or
\* the other way round.
Strays(plays, u, lib, in) ==
    {p \in Counted(plays) : /\ u = NoId \/ p.user = u
                            /\ InScope(p, lib) = in
                            /\ InScope(FirstOfRow(plays, p), lib) # in}
PlaysIn(u, rng) ==
    {p \in profiles.plays : p.user = u /\ Day(p) >= RangeCutoff(rng, profiles.day)}

-----------------------------------------------------------------------------
(***************************************************************************)
(* Properties                                                              *)
(***************************************************************************)
\* A profile and Watch Stats, whose ranges are computed apart and one of them
\* only when the watch job does something, agree on the day of the run; later
\* the profile still shows what has left the range, and never less.
PanelsInStep ==
    SameRun =>
        LET t == Tables(Whole)
            daily == Daily(watch)
        IN  \A u \in Users, rng \in Ranges :
                LET p == ReadProfileSummary(t, u, rng)
                    s == Stats(daily, u, Whole, rng)
                IN  /\ p.watched >= s.watched /\ p.plays >= s.plays
                    /\ profiles.day = today => p.watched = s.watched /\ p.plays = s.plays

\* The profiles of the libraries add up to that of all libraries, but for the
\* plays that were stored when Jellyfin's database could not be read.
LibrariesAddUp ==
    BetweenRuns =>
        LET libs == Scopes(profiles.plays)
            lists == [lib \in libs |-> ReadProfileList(Tables(lib), Users)]
            unread(u) == {p \in profiles.plays : p.user = u /\ Library(p) = Whole}
        IN  \A u \in Users :
                lists[Whole][u].plays = SumFunction([lib \in libs \ {Whole} |-> lists[lib][u].plays])
                                            + Cardinality(unread(u))

\* Every minute counts for one decade and one length, so these sum to the
\* headline; the baseline of the charts is the sum of everyone's lifetime; and
\* two users overlap just when a tag has minutes of both.
TasteAddsUp ==
    BetweenRuns =>
        LET t == Tables(Whole)
            in(u, k) == IF k \in DOMAIN t.taste[<<u, AllTime>>]
                        THEN t.taste[<<u, AllTime>>][k].watched ELSE 0
            tagged(u, rng) == {k \in Dim(t.taste[<<u, rng>>], "tag") :
                                   t.taste[<<u, rng>>][k].watched > 0}
        IN  /\ \A u \in t.users, rng \in Ranges, d \in {"decade", "length"} :
                   TasteTotal(t.taste[<<u, rng>>], d) = t.summary[<<u, rng>>].watched
            /\ \A k \in DOMAIN t.baseline : t.baseline[k] = SumFunction([u \in t.users |-> in(u, k)])
            /\ \A u, v \in t.users, rng \in Ranges : u < v =>
                   ((\E o \in t.overlap : o.users = <<u, v>> /\ o.range = rng)
                       <=> tagged(u, rng) \intersect tagged(v, rng) # {})

\* All sittings of a title on one day are judged together, by its runtime if
\* any of them has it; the buckets hold every such day once, and the headline's
\* shares are theirs.
DayVerdicts ==
    BetweenRuns =>
        LET t == Tables(Whole)
        IN  \A u \in Users, rng \in Ranges :
                LET p == ProfileOf(t, u, rng)
                    days == {<<q.item, Day(q)>> : q \in PlaysIn(u, rng)}
                    on(d) == {q \in PlaysIn(u, rng) : <<q.item, Day(q)>> = d}
                    timed == {d \in days : \E q \in on(d) :
                                               q.found = "full" /\ FactsOf(q).runtime > 0}
                    finished == {d \in timed : 10 * Minutes(on(d)) >= 9 * About[d[1]].runtime}
                    bucket(v) == SumFunction([k \in {j \in DOMAIN p.completion : j[2] = v}
                                                  |-> p.completion[k]])
                IN  /\ SumFunction(p.completion) = Cardinality(days)
                    /\ bucket("finished") = Cardinality(finished)
                    /\ p.summary.finished = <<Cardinality(finished), Cardinality(timed)>>
                    /\ p.summary.bailed = <<bucket("bailed"), Cardinality(timed)>>
                    /\ SumFunction([a \in p.abandoned |-> a.count]) <= bucket("bailed")

\* The runs of a series part its episodes, and two are in one run just when no
\* silence longer than the gap lies between them.  An episode that begins exactly
\* BingeGapHours after the one before goes on with the run, as the comments of
\* profile.go (17, 535) and the plan have it; the design (6.3) would end the run
\* there, with "< bingeGapHours" between consecutive plays.
RunsAreChains ==
    BetweenRuns => \A u \in Users :
        LET runs == RunsOf(u, profiles.plays)
            evs == EpisodesOf(u, profiles.plays)
            continued(p) == {r \in evs : Series(r) = Series(p) /\ p.at < r.at
                                            /\ r.at <= p.at + BingeGapHours} # {}
        IN  /\ UNION runs = evs
            /\ \A p, q \in evs : Series(p) = Series(q) /\ p.at <= q.at =>
                   ((\E r \in runs : {p, q} \subseteq r) <=>
                       \A m \in {r \in evs : Series(r) = Series(p) /\ p.at <= r.at /\ r.at < q.at} :
                           continued(m))

\* The show of a profile, the first series of Watch Stats and the first of the
\* charts, three sums made apart, have the same minutes, when no episode is
\* without its series; and nobody on the charts has more hours, plays or titles
\* than the user has watched.
ChartsAgree ==
    BetweenRuns =>
        LET t == Tables(Whole)
            daily == Daily(watch)
            charts == [rng \in Ranges |-> Charts(rng)]
            best(hours) == Max(hours \union {NoShow.watched})
        IN  /\ SameRun /\ profiles.day = today /\ InFull(watch) => \A u \in Users, rng \in Ranges :
                   LET top == {s.watched : s \in Stats(daily, u, Whole, rng).topSeries}
                       chart == {r.watched : r \in {i \in charts[rng].items :
                                                        i.user = u /\ i.scope = "series"}}
                   IN  best(top) = ReadProfileSummary(t, u, rng).show.watched
                       /\ best(chart) = best(top)
            /\ \A rng \in Ranges : \A r \in charts[rng].people : r.user \in Users =>
                   LET p == ReadProfileSummary(t, r.user, rng)
                   IN  /\ r.watched <= p.watched /\ r.plays <= p.plays
                       /\ InFull(profiles.plays) => r.titles <= p.titles
                       /\ r.titlesPlayed <= r.titles /\ r.watchedPlayed <= r.watched

\* Whoever is left off a chart has enough kept ones at least as good by hours,
\* and enough by breadth, so neither ranking loses its head.
CapKeepsTheBest ==
    BetweenRuns => \A rng \in Ranges :
        LET all == PeopleOf(Since(profiles.plays, RangeCutoff(rng, profiles.day)))
            kept == Charts(rng)
            Beaten(r, group, metric) ==
                Cardinality({k \in group : k[metric] >= r[metric]}) >= PeopleTopN
        IN  /\ \A r \in all.people \ kept.people :
                   LET group == {k \in kept.people : k.user = r.user /\ k.kind = r.kind}
                   IN  Beaten(r, group, "watched") /\ Beaten(r, group, "titles")
            /\ \A r \in all.items \ kept.items :
                   LET group == {k \in kept.items : k.user = r.user /\ k.scope = r.scope}
                   IN  Beaten(r, group, "watched") /\ Beaten(r, group, "plays")

\* A genre cannot set everyone apart from everyone, in any library.
SignatureSetsApart ==
    BetweenRuns => \A lib \in Scopes(profiles.plays) :
        LET t == Tables(lib)
        IN  \A k \in Dim(t.baseline, "genre") : t.users # {} =>
                \E u \in t.users : k \notin ProfileOf(t, u, AllTime).signature

\* The panels of Watch Stats are sums of the same plays, under any filter: the
\* trend, the methods and the shown users add up to the headline.  So does the
\* lifetime heatmap, but a filter by library takes a row of the watch table by
\* the library of its first play and an hour of the heatmap by that of each
\* play: the two differ by the plays that stray from the first of their row,
\* those stored before and after Jellyfin could be read or lost the title.
WatchStatsAddUp ==
    BetweenRuns =>
        LET daily == Daily(watch)
            hours == Heatmap(watch)
        IN  \A rng \in Ranges, lib \in Scopes(watch), u \in Users \union {NoId} :
                LET s == Stats(daily, u, lib, rng)
                    heat == ReadHeatmap(hours, u, lib)
                    shown == IF u = NoId THEN DOMAIN s.active ELSE DOMAIN s.active \intersect {u}
                IN  /\ s.watched = SumFunction([k \in DOMAIN s.trend |-> s.trend[k].watched])
                    /\ s.watched = SumFunction([v \in shown |-> s.active[v].watched])
                    /\ s.plays = SumFunction(s.methods)
                    /\ rng = AllTime =>
                           s.watched + Minutes(Strays(watch, u, lib, TRUE))
                               = SumFunction([c \in DOMAIN heat |-> heat[c].watched])
                                     + Minutes(Strays(watch, u, lib, FALSE))

\* The run that has written the watch tables can write the profiles: "a run is
\* a maximal chain", and the top runs are written.
BingeRowsAreWritten == job = "profiles" => ~BingeKeysClash(spine)
=============================================================================
