------------------------------ MODULE Profile ------------------------------
(***************************************************************************)
(* The tables of the profile pages (Profiles, internal/aggregate/          *)
(* profile.go).  A slice of rows is a set of rows or a function from their *)
(* key; a share is the pair of the numbers it is the quotient of.          *)
(***************************************************************************)
EXTENDS Plays, Sequences, TLC

CONSTANTS
    ProfileTopN,   \* 10: the rows of a list
    BingeGapHours  \* 4

ASSUME ProfileAssumption == ProfileTopN \in Nat \ {0} /\ BingeGapHours \in Nat

-----------------------------------------------------------------------------
\* A mistake in rangeCutoff: a day short.
RangeCutoffShort(rng, today) == IF rng = AllTime THEN 0 ELSE today - RangeDays[rng] + 1

RangeCutoff(rng, today) == IF rng = AllTime THEN 0 ELSE today - RangeDays[rng]

Verdict(row) ==
    IF row.runtime = 0 THEN "unknown"
    ELSE CASE 100 * row.watched >= 90 * row.runtime -> "finished"
           [] 100 * row.watched < 25 * row.runtime -> "bailed"
           [] OTHER -> "partial"

\* One row per user, item and day.  The first play gives the row its facts; a
\* later one gives it a runtime when it has none.
DayRow(plays) ==
    LET first == Earliest(plays)
        timed == {p \in plays : FactsOf(p).runtime > 0}
    IN  [user |-> first.user, item |-> first.item, day |-> Day(first),
         facts |-> FactsOf(first),
         runtime |-> IF timed = {} THEN 0 ELSE FactsOf(Earliest(timed)).runtime,
         watched |-> Minutes(plays), plays |-> Cardinality(plays)]

SameDayRow(p, q) == p.user = q.user /\ p.item = q.item /\ Day(p) = Day(q)

\* A mistake in rollDaily: each sitting is a row.
RollSittings(plays) == {DayRow({p}) : p \in Counted(plays)}

RollDaily(plays) ==
    {DayRow({q \in Counted(plays) : SameDayRow(p, q)}) : p \in Counted(plays)}

DistinctUsers(rows) == {r.user : r \in rows}
FilterUser(rows, user) == {r \in rows : r.user = user}
FilterSince(rows, cutoff) == {r \in rows : r.day >= cutoff}

Watched(rows) == SumFunction([r \in rows |-> r.watched])
Plays(rows) == SumFunction([r \in rows |-> r.plays])

-----------------------------------------------------------------------------
CompletionRows(rows) ==
    [k \in {<<r.facts.scope, Verdict(r)>> : r \in rows} |->
        Cardinality({r \in rows : <<r.facts.scope, Verdict(r)>> = k})]

\* More first, then the smaller id.
MoreThenId(x, y) == x.count > y.count \/ (x.count = y.count /\ x.id < y.id)

\* A bailed episode counts for its series, and not at all without one.
AbandonedRows(rows) ==
    LET bailed == {r \in rows : Verdict(r) = "bailed"}
        Title(r) == IF r.facts.scope = "movie" THEN <<"movie", r.item>>
                    ELSE <<"series", r.facts.series>>
        titles == {Title(r) : r \in bailed} \ {<<"series", NoId>>}
    IN  Best(ProfileTopN,
             {[scope |-> t[1], id |-> t[2],
               count |-> Cardinality({r \in bailed : Title(r) = t})] : t \in titles},
             MoreThenId)

\* Minutes of playing time.
LengthBand(scope, runtime) ==
    IF runtime = 0 THEN "unknown"
    ELSE IF scope = "episode"
    THEN CASE runtime < 30 -> "<30m" [] runtime \in 30..60 -> "30-60m" [] OTHER -> ">60m"
    ELSE CASE runtime < 90 -> "<90m" [] runtime \in 90..120 -> "90-120m" [] OTHER -> ">120m"

DecadeKey(decade) == IF decade = 0 THEN "unknown" ELSE ToString(decade)

\* The keys of each dimension that a row counts for.
TasteKeys(r) ==
    ({"genre"} \X r.facts.genres) \union ({"tag"} \X r.facts.tags)
        \union {<<"decade", DecadeKey(r.facts.decade)>>,
                <<"length", LengthBand(r.facts.scope, r.runtime)>>}

\* A mistake in tasteRows: a row without a runtime is not counted.
TasteRowsTimed(rows) ==
    LET timed == {r \in rows : r.runtime > 0}
        of(k) == {r \in timed : k \in TasteKeys(r)}
    IN  [k \in UNION {TasteKeys(r) : r \in timed} |->
            [watched |-> Watched(of(k)), plays |-> Plays(of(k))]]

TasteRows(rows) ==
    LET of(k) == {r \in rows : k \in TasteKeys(r)}
    IN  [k \in UNION {TasteKeys(r) : r \in rows} |->
            [watched |-> Watched(of(k)), plays |-> Plays(of(k))]]

\* Lifetime, and of everyone in the scope.
BaselineRows(rows) ==
    [k \in UNION {TasteKeys(r) : r \in rows} |-> Watched({r \in rows : k \in TasteKeys(r)})]

NoShow == [series |-> NoId, watched |-> -1]

SummaryVerdicts(rows) == {r \in rows : Verdict(r) # "unknown"}

SummaryRow(rows) ==
    LET films == {r \in rows : r.facts.scope = "movie"}
        episodes == {r \in rows : r.facts.scope = "episode" /\ r.facts.series # NoId}
        judged == SummaryVerdicts(rows)
        share(v) == <<Cardinality({r \in rows : Verdict(r) = v}), Cardinality(judged)>>
        shows == {[series |-> s, watched |-> Watched({r \in episodes : r.facts.series = s})]
                      : s \in {r.facts.series : r \in episodes}}
    IN  [watched |-> Watched(rows), plays |-> Plays(rows),
         titles |-> Cardinality({r.item : r \in films})
                    + Cardinality({r.facts.series : r \in episodes}),
         days |-> Cardinality({r.day : r \in rows}),
         finished |-> share("finished"), bailed |-> share("bailed"),
         show |-> IF shows = {} THEN NoShow
                  ELSE CHOOSE s \in shows : \A t \in shows :
                           \/ s.watched > t.watched
                           \/ s.watched = t.watched /\ s.series <= t.series]

-----------------------------------------------------------------------------
\* The days on which a title was watched and not given up.
WatchDaysByTitle(rows) ==
    LET kept == {r \in rows : Verdict(r) # "bailed"}
    IN  [i \in {r.item : r \in kept} |-> Cardinality({r \in kept : r.item = i})]

RewatchRows(rows) ==
    LET days == WatchDaysByTitle(rows)
    IN  Best(ProfileTopN,
             {[id |-> i, count |-> days[i]] : i \in {j \in DOMAIN days : days[j] >= 2}},
             MoreThenId)

RewatchPct(rows) ==
    LET days == WatchDaysByTitle(rows)
    IN  <<SumFunction([i \in DOMAIN days |-> days[i] - 1]), SumFunction(days)>>

Before(p, q) == p.at < q.at \/ (p.at = q.at /\ p.item < q.item)

\* A mistake in bingeRuns: the gap is measured from where the first run began.
StartsFromFirst(seq) == {i \in DOMAIN seq : i = 1 \/ seq[i].at - seq[1].at > BingeGapHours}

\* A run starts where an episode begins more than BingeGapHours after the one before.
Starts(seq) == {i \in DOMAIN seq : i = 1 \/ seq[i].at - seq[i - 1].at > BingeGapHours}

\* The plays in order: the i-th has i - 1 before it.
Sorted(evs) ==
    [i \in 1..Cardinality(evs) |->
        CHOOSE p \in evs : Cardinality({q \in evs : Before(q, p)}) = i - 1]

\* The plays of a series, cut at the starts.
Chains(evs) ==
    LET seq == Sorted(evs)
        EndOf(i) == Min({j - 1 : j \in {k \in Starts(seq) : k > i}} \union {Len(seq)})
    IN  {{seq[j] : j \in i..EndOf(i)} : i \in Starts(seq)}

EpisodesOf(user, plays) == {p \in plays : p.user = user /\ IsEpisode(p) /\ Series(p) # NoId}

RunsOf(user, plays) ==
    LET evs == EpisodesOf(user, plays)
    IN  UNION {Chains({p \in evs : Series(p) = s}) : s \in {Series(p) : p \in evs}}

\* Two runs may give the same row.
BingeRow(run) ==
    [series |-> Series(Earliest(run)), episodes |-> Cardinality({p.item : p \in run}),
     start |-> Day(Earliest(run)), end |-> Max({Day(p) : p \in run})]

LongerRun(x, y) ==
    LET a == BingeRow(x)
        b == BingeRow(y)
    IN  \/ a.episodes > b.episodes
        \/ a.episodes = b.episodes /\ a.end > b.end
        \/ a.episodes = b.episodes /\ a.end = b.end /\ a.series < b.series

\* The runs themselves; their rows are what is written.
TopBinge(runs) == Best(ProfileTopN, {r \in runs : BingeRow(r).episodes >= 2}, LongerRun)

Longest(runs) == Max({BingeRow(r).episodes : r \in runs} \union {0})

-----------------------------------------------------------------------------
\* Tag -> minutes, of one user's rows.
TagVector(rows) ==
    [t \in UNION {r.facts.tags : r \in rows} |-> Watched({r \in rows : t \in r.facts.tags})]

\* The cosine is positive just when the product is; the shared tags with the
\* greatest smaller share are kept.  Tags have no order here, so that a tie may
\* keep more.
CosineAndShared(a, b) ==
    LET both == DOMAIN a \intersect DOMAIN b
        score == [t \in both |-> Min({a[t] * SumFunction(b), b[t] * SumFunction(a)})]
    IN  [dot |-> SumFunction([t \in both |-> a[t] * b[t]]),
         shared |-> Best(8, both, LAMBDA s, t : score[s] > score[t])]

TagOverlapRows(daily, today) ==
    LET vec(rng, u) == TagVector(FilterSince(FilterUser(daily, u), RangeCutoff(rng, today)))
        row(rng, u, v) ==
            LET c == CosineAndShared(vec(rng, u), vec(rng, v))
            IN  [users |-> <<u, v>>, range |-> rng, dot |-> c.dot, shared |-> c.shared]
        users == DistinctUsers(daily)
    IN  {o \in {row(rng, u, v) : rng \in Ranges, u \in users, v \in users} :
            o.users[1] < o.users[2] /\ o.dot # 0}

-----------------------------------------------------------------------------
\* The tables of one scope.
Profiles(plays, today) ==
    LET daily == RollDaily(plays)
        users == DistinctUsers(daily)
        since(u, rng) == FilterSince(FilterUser(daily, u), RangeCutoff(rng, today))
        lifetime(u) == FilterUser(daily, u)
        tables(T(_)) == [k \in users \X Ranges |-> T(since(k[1], k[2]))]
    IN  [users |-> users,
         summary |-> tables(SummaryRow),
         completion |-> tables(CompletionRows),
         abandoned |-> tables(AbandonedRows),
         taste |-> tables(TasteRows),
         rewatch |-> [u \in users |-> RewatchRows(lifetime(u))],
         rewatchPct |-> [u \in users |-> RewatchPct(lifetime(u))],
         binge |-> [u \in users |-> TopBinge(RunsOf(u, plays))],
         longest |-> [u \in users |-> Longest(RunsOf(u, plays))],
         baseline |-> BaselineRows(daily),
         overlap |-> TagOverlapRows(daily, today)]
=============================================================================
