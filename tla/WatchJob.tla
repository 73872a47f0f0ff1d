------------------------------ MODULE WatchJob ------------------------------
(***************************************************************************)
(* The watch job (RunWatchOnce, internal/scheduler/scheduler.go): it reads *)
(* the Playback Reporting plugin's database, keeps every play in a table   *)
(* of its own, the spine, and rebuilds from the spine the tables behind    *)
(* the Watch Stats page, the profiles and the charts of people.            *)
(*                                                                         *)
(* The plugin writes while the job reads, its file comes and goes with a   *)
(* mount, every transaction may fail, and the process may stop between any *)
(* two of them.  A step of the job is one transaction of the store, or one *)
(* read of the source.  A play is (at, user, item); of what the plugin     *)
(* says of it only the duration, which grows while it lasts, is kept.      *)
(***************************************************************************)
EXTENDS Naturals

CONSTANTS
    Plays,
    MaxDuration,  \* bound: how long a play gets
    MaxTime       \* bound: how often the plugin's file gets a new mtime

ASSUME WatchAssumption == MaxDuration \in Nat \ {0} /\ MaxTime \in Nat \ {0}

Durations == [Plays -> 0..MaxDuration]   \* 0: there is no such play
NoPlays == [p \in Plays |-> 0]
NoTime == 0                              \* the zero time.Time

\* What is known of a play's item: nothing was looked up (library ''), the
\* item is not in Jellyfin or in none of its folders ("Unknown"), or it has
\* a library.  facts: the row has the item's name, runtime and genres.
Library == {"blank", "Unknown", "known"}
Rows == [dur : 0..MaxDuration, lib : Library, facts : BOOLEAN]
NoRow == [dur |-> 0, lib |-> "blank", facts |-> FALSE]

VARIABLES
    there,   \* the plugin's file can be found
    table,   \* it has the table PlaybackActivity
    mtime,   \* its modification time
    main,    \* the plays in the file
    wal,     \* the plays in the file and its write-ahead log
    pruned,  \* the plays that the plugin no longer retains
    spine,   \* playback_events
    daily,   \* the plays that watch_events_daily and agg_watch_heatmap show
    profiles,  \* and the agg_profile_* tables
    people,    \* and agg_profile_people, agg_profile_top_items
    meta,    \* the job's row of refresh_meta
    run,     \* the run under way
    raced    \* history: a run found the time of a file in which, when it came to
             \* read it, there was no plugin, and every run since was skipped

source == <<there, table, mtime, main, wal, pruned>>
pages == <<daily, profiles, people>>
vars == <<source, spine, pages, meta, run, raced>>

Points == {"idle", "skip", "fetch", "append", "backfill", "daily", "profiles",
           "people", "finish", "absent", "failed"}
NoMeta == [row |-> FALSE, mt |-> NoTime, ok |-> FALSE, plugin |-> FALSE]
NotRunning == [at |-> "idle", mt |-> NoTime, plugin |-> FALSE, events |-> NoPlays]

TypeOK ==
    /\ there \in BOOLEAN /\ table \in BOOLEAN
    /\ mtime \in 1..MaxTime
    /\ main \in Durations /\ wal \in Durations
    /\ pruned \subseteq Plays
    /\ spine \in [Plays -> Rows]
    /\ daily \in Durations /\ profiles \in Durations /\ people \in Durations
    /\ meta \in [row : BOOLEAN, mt : 0..MaxTime, ok : BOOLEAN, plugin : BOOLEAN]
    /\ run \in [at : Points, mt : 0..MaxTime, plugin : BOOLEAN, events : Durations]
    /\ raced \in BOOLEAN

Init ==
    /\ there \in BOOLEAN /\ table = FALSE
    /\ mtime = 1
    /\ main = NoPlays /\ wal = NoPlays /\ pruned = {}
    /\ spine = [p \in Plays |-> NoRow]
    /\ daily = NoPlays /\ profiles = NoPlays /\ people = NoPlays
    /\ meta = NoMeta
    /\ run = NotRunning
    /\ raced = FALSE

-----------------------------------------------------------------------------
(***************************************************************************)
(* Jellyfin's side.                                                        *)
(***************************************************************************)
Ours == <<spine, pages, meta, run, raced>>

Mount == there' \in BOOLEAN \ {there} /\ UNCHANGED <<table, mtime, main, wal, pruned, Ours>>

Written == mtime < MaxTime /\ mtime' = mtime + 1

InstallPlugin ==
    /\ ~table /\ table' = TRUE
    /\ Written
    /\ UNCHANGED <<there, main, wal, pruned, Ours>>

\* A play begins or goes on; the log is written, the file and its mtime are not.
Report(p) ==
    /\ table
    /\ p \notin pruned
    /\ wal[p] < MaxDuration
    /\ wal' = [wal EXCEPT ![p] = @ + 1]
    /\ UNCHANGED <<there, table, mtime, main, pruned, Ours>>

\* The plugin's retention window has passed.
Prune(p) ==
    /\ wal[p] > 0
    /\ wal' = [wal EXCEPT ![p] = 0]
    /\ pruned' = pruned \cup {p}
    /\ UNCHANGED <<there, table, mtime, main, Ours>>

Checkpoint ==
    /\ main # wal
    /\ main' = wal
    /\ Written
    /\ UNCHANGED <<there, table, wal, pruned, Ours>>

JellyfinSteps ==
    Mount \/ InstallPlugin \/ Checkpoint \/ \E p \in Plays : Report(p) \/ Prune(p)

-----------------------------------------------------------------------------
(***************************************************************************)
(* A run.                                                                  *)
(***************************************************************************)
At(point) == run.at = point
Goto(point) == run' = [run EXCEPT !.at = point]
End == run' = NotRunning

\* A mistake in Skips: whether the last run succeeded is not asked.
SkipsAfterFailure(prev, mt, hasRows) ==
    prev.row /\ prev.mt # NoTime /\ mt # NoTime /\ mt = prev.mt /\ hasRows

Skips(prev, mt, hasRows) ==
    prev.row /\ prev.ok /\ prev.mt # NoTime /\ mt # NoTime /\ mt = prev.mt /\ hasRows

\* A file that is not found has the zero time.
Stat == IF there THEN mtime ELSE NoTime

\* A row of refresh_meta that cannot be read counts as missing, a spine that
\* cannot be counted as not empty.
Begin ==
    /\ At("idle")
    /\ \E prev \in {meta, NoMeta}, hasRows \in {\E p \in Plays : spine[p].dur > 0, TRUE} :
           run' = [NotRunning EXCEPT !.mt = Stat, !.plugin = prev.plugin,
                       !.at = IF Skips(prev, Stat, hasRows) THEN "skip" ELSE "fetch"]
    /\ UNCHANGED <<source, spine, pages, meta, raced>>

\* What a copy of the file and of its log may hold.  With DIRECT_READ the log
\* is not read, and a copy made while a checkpoint runs, or whose log could not
\* be found, lacks what is in the log as well.
Copies == {main, wal}

\* PlaybackEvents.  A table that cannot be asked for counts as missing.
Fetch ==
    /\ At("fetch")
    /\ \/ /\ there /\ table
          /\ \E copy \in Copies : run' = [run EXCEPT !.at = "append", !.events = copy]
       \/ Goto("absent")
    /\ UNCHANGED <<source, spine, pages, meta, raced>>

\* A mistake in Raw: no value at all where the column wants one.
RawNull(dur) == [dur |-> dur, lib |-> "null", facts |-> FALSE]

\* enrichPlaybackEvents: either nothing can be looked up, or each item is found,
\* found outside every folder, or not found.
Raw(dur) == [dur |-> dur, lib |-> "blank", facts |-> FALSE]
Enriched(dur) == {[dur |-> dur, lib |-> "known", facts |-> TRUE],
                  [dur |-> dur, lib |-> "Unknown", facts |-> TRUE],
                  [dur |-> dur, lib |-> "Unknown", facts |-> FALSE]}
EnrichedEvents ==
    {[p \in Plays |-> Raw(run.events[p])]}
    \cup {rows \in [Plays -> Rows] : \A p \in Plays : rows[p] \in Enriched(run.events[p])}

\* A mistake in Upsert: the table is filled again with what the plugin has.
UpsertReplaces(row, ev) == ev

\* INSERT ... ON CONFLICT DO UPDATE: every mutable column takes the new value.
Upsert(row, ev) == IF ev.dur > 0 THEN ev ELSE row

Append ==
    /\ At("append")
    /\ \E rows \in EnrichedEvents : spine' = [p \in Plays |-> Upsert(spine[p], rows[p])]
    /\ run' = [run EXCEPT !.at = "backfill", !.events = NoPlays]
    /\ UNCHANGED <<source, pages, meta, raced>>

\* Rows of items without a library get one, as far as Jellyfin has it; that it
\* cannot be asked is not a failure of the job.
Backfill ==
    /\ At("backfill")
    /\ \E found \in SUBSET {p \in Plays : spine[p].dur > 0 /\ spine[p].lib = "Unknown"} :
           spine' = [p \in Plays |-> IF p \in found THEN [spine[p] EXCEPT !.lib = "known"] ELSE spine[p]]
    /\ Goto("daily")
    /\ UNCHANGED <<source, pages, meta, raced>>

\* The spine as the aggregates see it: only this job writes it.
History == [p \in Plays |-> spine[p].dur]

WriteDaily ==
    /\ At("daily") /\ Goto("profiles")
    /\ daily' = History
    /\ UNCHANGED <<source, spine, profiles, people, meta, raced>>

WriteProfiles ==
    /\ At("profiles") /\ Goto("people")
    /\ profiles' = History
    /\ UNCHANGED <<source, spine, daily, people, meta, raced>>

\* A mistake in WritePeople: the tables are left alone if they hold anything.
WritePeopleOnce ==
    /\ At("people") /\ Goto("finish")
    /\ people' = IF people = NoPlays THEN History ELSE people
    /\ UNCHANGED <<source, spine, daily, profiles, meta, raced>>

WritePeople ==
    /\ At("people") /\ Goto("finish")
    /\ people' = History
    /\ UNCHANGED <<source, spine, daily, profiles, meta, raced>>

\* SetRefreshMeta, the end of every run.  The time is the one found first.
Record(ok, plugin) ==
    /\ meta' = [row |-> TRUE, mt |-> run.mt, ok |-> ok, plugin |-> plugin]
    /\ End
    /\ UNCHANGED <<source, spine, pages>>

RecordSuccess == At("finish") /\ Record(TRUE, TRUE) /\ raced' = FALSE
RecordSkip == At("skip") /\ Record(TRUE, run.plugin) /\ UNCHANGED raced
RecordAbsent == At("absent") /\ Record(TRUE, FALSE) /\ raced' = (run.mt # NoTime)

\* recordFailure
RecordFailure == At("failed") /\ Record(FALSE, FALSE) /\ raced' = FALSE

\* A read or a transaction failed: it changed nothing, and the run stops there.
Fails ==
    /\ run.at \in {"fetch", "append", "backfill", "daily", "profiles", "people"}
    /\ Goto("failed")
    /\ UNCHANGED <<source, spine, pages, meta, raced>>

\* The process stops, its context is cancelled, or the run's end could not be
\* recorded.  Transactions that did not commit never happened.
Stops == ~At("idle") /\ End /\ UNCHANGED <<source, spine, pages, meta, raced>>

\* A mistake in Upgrade: the recorded time stays, so the new tables stay empty.
UpgradeKeepsTime ==
    /\ At("idle")
    /\ people' = NoPlays
    /\ UNCHANGED <<source, spine, daily, profiles, meta, run, raced>>

\* The process comes up with migration 0007 to apply: it creates the tables of
\* people, and blanks the recorded time.  That it may happen at any time, and
\* again, is more than an installation does; before it, people has no meaning.
Upgrade ==
    /\ At("idle")
    /\ people' = NoPlays
    /\ meta' = [meta EXCEPT !.mt = NoTime]
    /\ UNCHANGED <<source, spine, daily, profiles, run, raced>>

RunSteps ==
    \/ Begin \/ Fetch \/ Append \/ Backfill \/ WriteDaily \/ WriteProfiles \/ WritePeople
    \/ RecordSuccess \/ RecordSkip \/ RecordAbsent \/ RecordFailure

Next == RunSteps \/ Fails \/ Stops \/ Upgrade \/ JellyfinSteps

\* The ticker starts a run again and again, and a run goes on until it ends.
Fairness == WF_vars(RunSteps)

SafeSpec == Init /\ [][Next]_vars
Spec == SafeSpec /\ Fairness

-----------------------------------------------------------------------------
(***************************************************************************)
(* Properties                                                              *)
(***************************************************************************)

\* What the plugin's file says of play p is on every page.
OnEveryPage(p) ==
    main[p] <= spine[p].dur /\ main[p] <= daily[p] /\ main[p] <= profiles[p] /\ main[p] <= people[p]

\* A run that is about to be skipped has nothing to do: with the last run a
\* success, and the file's time as it was then, every play in the file is on
\* every page, through failed and interrupted runs, plays that were going on
\* while the file was read, a plugin that came and went, and an upgrade.
Skipped == meta.row /\ meta.ok /\ there /\ meta.mt = mtime
SkipIsSound == Skipped /\ ~raced => \A p \in Plays \ pruned : OnEveryPage(p)

\* A run that is recorded as a success leaves pages that agree with the spine
\* and with each other, though each was written in a transaction of its own.
PagesAgree == At("finish") => daily = History /\ profiles = History /\ people = History

\* The copy of the history lets the pages "survive the Playback Reporting
\* plugin's retention window" (README.md:163): a play that a table has once shown
\* is never missing from it again, whatever the plugin has pruned, with the file
\* gone, and with runs that fail or stop between two of the tables.  Only the
\* upgrade empties the tables of people, for the next run to fill.
HistoryOutlivesPlugin ==
    [][\A p \in Plays :
          /\ spine[p].dur > 0 => spine'[p].dur > 0
          /\ daily[p] > 0 => daily'[p] > 0
          /\ profiles[p] > 0 => profiles'[p] > 0
          /\ people[p] > 0 => people'[p] > 0 \/ Upgrade]_vars

\* Once Jellyfin is quiet and nothing fails, what the file says reaches every
\* page and stays there.
CatchesUp ==
    <>[][RunSteps]_vars /\ <>[](there /\ ~raced) =>
        \A p \in Plays : <>[](p \in pruned \/ OnEveryPage(p))

\* "A crash between transactions self-heals: the next run re-appends and
\* rebuilds the derived tables": a run that would be skipped finds no page
\* that differs from the spine.
CrashSelfHeals ==
    At("idle") /\ Skipped /\ ~raced /\ (\E p \in Plays : spine[p].dur > 0) =>
        daily = History /\ profiles = History /\ people = History

\* An item's name, runtime and genres are "retained verbatim once it's
\* deleted": a row that has them never loses them.
FactsAreRetained ==
    [][\A p \in Plays : spine[p].facts => spine'[p].facts]_vars
=============================================================================
