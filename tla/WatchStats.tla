----------------------------- MODULE WatchStats -----------------------------
(***************************************************************************)
(* The watch tables (Watch, internal/aggregate/watch.go) and what the      *)
(* Watch Stats page reads from them (ReadWatchStats, internal/store/       *)
(* reads_watch.go).  Unlike a profile's, their ranges are applied when the *)
(* page is read.                                                           *)
(***************************************************************************)
EXTENDS Plays

CONSTANTS WatchTopN  \* 10: the rows of a list

ASSUME WatchStatsAssumption == WatchTopN \in Nat \ {0}

Weekday(day) == day % 7   \* day 0 is a Monday
Hour(p) == p.at % DayHours

SameDailyRow(p, q) ==
    p.user = q.user /\ p.item = q.item /\ Day(p) = Day(q) /\ p.method = q.method

\* A mistake in Watch: a row is set to a play, not added to.
DailyRowOfFirst(plays) ==
    LET first == Earliest(plays)
    IN  [day |-> Day(first), user |-> first.user, item |-> first.item,
         method |-> first.method, scope |-> About[first.item].scope,
         series |-> Series(first), library |-> Library(first),
         watched |-> first.dur, plays |-> Cardinality(plays)]

\* The first play gives the row its series and its library.
DailyRow(plays) ==
    LET first == Earliest(plays)
    IN  [day |-> Day(first), user |-> first.user, item |-> first.item,
         method |-> first.method, scope |-> About[first.item].scope,
         series |-> Series(first), library |-> Library(first),
         watched |-> Minutes(plays), plays |-> Cardinality(plays)]

Daily(plays) == {DailyRow({q \in Counted(plays) : SameDailyRow(p, q)}) : p \in Counted(plays)}

HeatKey(p) == [user |-> p.user, library |-> Library(p), dow |-> Weekday(Day(p)), hour |-> Hour(p)]

Heatmap(plays) ==
    [k \in {HeatKey(p) : p \in Counted(plays)} |->
        [watched |-> Minutes({p \in Counted(plays) : HeatKey(p) = k}),
         plays |-> Cardinality({p \in Counted(plays) : HeatKey(p) = k})]]

-----------------------------------------------------------------------------
DayCutoff(rng, today) == IF rng = AllTime THEN 0 ELSE today - RangeDays[rng]

IsoWeekMonday(day) == day - Weekday(day)

\* A longer range has a point a week.
TrendKey(rng, day) == IF rng \in {"1y", AllTime} THEN IsoWeekMonday(day) ELSE day

WatchedOf(rows) == SumFunction([r \in rows |-> r.watched])
PlaysOf(rows) == SumFunction([r \in rows |-> r.plays])

\* GROUP BY id ORDER BY SUM(watch_sec) DESC LIMIT n; names are ordered as ids.
Top(rows, column) ==
    Best(WatchTopN,
         {[id |-> i, watched |-> WatchedOf({r \in rows : r[column] = i}),
           plays |-> PlaysOf({r \in rows : r[column] = i})] : i \in {r[column] : r \in rows}},
         LAMBDA x, y : x.watched > y.watched \/ (x.watched = y.watched /\ x.id < y.id))

\* A row per user, whoever the page is filtered to.
ActiveUsers(rows) ==
    [u \in {r.user : r \in rows} |->
        [watched |-> WatchedOf({r \in rows : r.user = u}),
         plays |-> PlaysOf({r \in rows : r.user = u}),
         titles |-> Cardinality({r.item : r \in {s \in rows : s.user = u}})]]

Trend(rows, rng) ==
    [k \in {TrendKey(rng, r.day) : r \in rows} |->
        [watched |-> WatchedOf({r \in rows : TrendKey(rng, r.day) = k}),
         plays |-> PlaysOf({r \in rows : TrendKey(rng, r.day) = k})]]

PlayMethodWeekly(rows) ==
    [k \in {<<IsoWeekMonday(r.day), r.method>> : r \in rows} |->
        PlaysOf({r \in rows : <<IsoWeekMonday(r.day), r.method>> = k})]

\* The heatmap is lifetime.
ReadHeatmap(heat, user, lib) ==
    LET keys == {k \in DOMAIN heat : (user = NoId \/ k.user = user)
                                     /\ (lib = Whole \/ k.library = lib)}
        cell(k) == <<k.dow, k.hour>>
    IN  [c \in {cell(k) : k \in keys} |->
            [watched |-> SumFunction([k \in {j \in keys : cell(j) = c} |-> heat[k].watched]),
             plays |-> SumFunction([k \in {j \in keys : cell(j) = c} |-> heat[k].plays])]]

\* user is NoId for everyone.
ReadWatchStats(daily, user, lib, rng, today) ==
    LET inRange == {r \in daily : r.day >= DayCutoff(rng, today)
                                  /\ (lib = Whole \/ r.library = lib)}
        scoped == {r \in inRange : user = NoId \/ r.user = user}
        episodes == {r \in scoped : r.scope = "episode"}
    IN  [watched |-> WatchedOf(scoped), plays |-> PlaysOf(scoped),
         users |-> Cardinality({r.user : r \in scoped}),
         direct |-> PlaysOf({r \in scoped : r.method = "DirectPlay"}),
         topMovies |-> Top({r \in scoped : r.scope = "movie"}, "item"),
         topSeries |-> Top({r \in episodes : r.series # NoId}, "series"),
         topEpisodes |-> Top(episodes, "item"),
         active |-> ActiveUsers(inRange),
         trend |-> Trend(scoped, rng),
         methods |-> PlayMethodWeekly(scoped)]
=============================================================================
