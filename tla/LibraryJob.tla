----------------------------- MODULE LibraryJob -----------------------------
(***************************************************************************)
(* The library job (RunLibraryOnce, internal/scheduler/scheduler.go): it   *)
(* reads Jellyfin's item database, replaces the library pages' tables, and *)
(* adds to the two dimensions that outlive Jellyfin's rows, credits and    *)
(* watched ticks.                                                          *)
(*                                                                         *)
(* What the database says is a version, which grows with every change that *)
(* Jellyfin makes.  A step is one transaction of the store or one read of  *)
(* the source, as in WatchJob.                                             *)
(***************************************************************************)
EXTENDS Naturals

CONSTANTS
    MaxVersion,  \* bound: how often Jellyfin's items change
    MaxTime      \* bound: how often the file gets a new mtime

ASSUME LibraryAssumption == MaxVersion \in Nat \ {0} /\ MaxTime \in Nat \ {0}

Versions == 0..MaxVersion   \* 0: nothing
NoTime == 0

VARIABLES
    there,   \* the database file can be found
    mtime,   \* its modification time
    main,    \* the version in the file
    wal,     \* the version in the file and its write-ahead log
    items,   \* the version that agg_totals, agg_disk, ..., agg_played_core show
    credits, \* the newest version whose credits were put in dim_credit
    played,  \* the version whose watched ticks were put in dim_played last
    meta,    \* the job's row of refresh_meta
    run,     \* the run under way
    failure  \* history: the last run that was not skipped failed

source == <<there, mtime, main, wal>>
tables == <<items, credits, played>>
vars == <<source, tables, meta, run, failure>>

Points == {"idle", "skip", "fetch", "items", "credits", "played", "finish", "failed"}
NoMeta == [row |-> FALSE, mt |-> NoTime, ok |-> FALSE]
NotRunning == [at |-> "idle", mt |-> NoTime, snap |-> 0]

TypeOK ==
    /\ there \in BOOLEAN
    /\ mtime \in 1..MaxTime
    /\ main \in Versions /\ wal \in Versions
    /\ items \in Versions /\ credits \in Versions /\ played \in Versions
    /\ meta \in [row : BOOLEAN, mt : 0..MaxTime, ok : BOOLEAN]
    /\ run \in [at : Points, mt : 0..MaxTime, snap : Versions]
    /\ failure \in BOOLEAN

\* buildSource does not start without the file.
Init ==
    /\ there = TRUE
    /\ mtime = 1
    /\ main = 1 /\ wal = 1
    /\ items = 0 /\ credits = 0 /\ played = 0
    /\ meta = NoMeta
    /\ run = NotRunning
    /\ failure = FALSE

-----------------------------------------------------------------------------
Ours == <<tables, meta, run, failure>>

Mount == there' \in BOOLEAN \ {there} /\ UNCHANGED <<mtime, main, wal, Ours>>

Change == wal < MaxVersion /\ wal' = wal + 1 /\ UNCHANGED <<there, mtime, main, Ours>>

Checkpoint ==
    /\ main < wal /\ main' = wal
    /\ mtime < MaxTime /\ mtime' = mtime + 1
    /\ UNCHANGED <<there, wal, Ours>>

JellyfinSteps == Mount \/ Change \/ Checkpoint

-----------------------------------------------------------------------------
At(point) == run.at = point
Goto(point) == run' = [run EXCEPT !.at = point]
End == run' = NotRunning

\* Whether the last run succeeded is not asked.
Skips(prev, mt) == prev.row /\ prev.mt # NoTime /\ mt # NoTime /\ mt = prev.mt

Stat == IF there THEN mtime ELSE NoTime

\* A row of refresh_meta that cannot be read counts as missing.
Begin ==
    /\ At("idle")
    /\ \E prev \in {meta, NoMeta} :
           run' = [NotRunning EXCEPT !.mt = Stat,
                       !.at = IF Skips(prev, Stat) THEN "skip" ELSE "fetch"]
    /\ UNCHANGED <<source, tables, meta, failure>>

\* What a copy of the file and of its log may hold: with DIRECT_READ, or when
\* it is made while a checkpoint runs, the log is missing.
Copies == {main, wal}

\* LibraryFacts, all of whose queries read the same copy.
Fetch ==
    /\ At("fetch") /\ there
    /\ \E copy \in Copies : run' = [run EXCEPT !.at = "items", !.snap = copy]
    /\ UNCHANGED <<source, tables, meta, failure>>

WriteItems ==
    /\ At("items") /\ Goto("credits")
    /\ items' = run.snap
    /\ UNCHANGED <<source, credits, played, meta, failure>>

\* What a newer version added stays: nothing is deleted.
UpsertCredits ==
    /\ At("credits") /\ Goto("played")
    /\ credits' = IF credits > run.snap THEN credits ELSE run.snap
    /\ UNCHANGED <<source, items, played, meta, failure>>

UpsertPlayed ==
    /\ At("played") /\ Goto("finish")
    /\ played' = run.snap
    /\ UNCHANGED <<source, items, credits, meta, failure>>

Record(ok) ==
    /\ meta' = [row |-> TRUE, mt |-> run.mt, ok |-> ok]
    /\ End
    /\ UNCHANGED <<source, tables>>

RecordSuccess == At("finish") /\ Record(TRUE) /\ failure' = FALSE
RecordSkip == At("skip") /\ Record(TRUE) /\ UNCHANGED failure

\* A mistake in RecordFailure: as in RecordSkip, the row is said to be good.
RecordFailureAsSuccess == At("failed") /\ Record(TRUE) /\ failure' = FALSE

RecordFailure == At("failed") /\ Record(FALSE) /\ failure' = TRUE

Fails ==
    /\ run.at \in {"fetch", "items", "credits", "played"}
    /\ Goto("failed")
    /\ UNCHANGED <<source, tables, meta, failure>>

Stops == ~At("idle") /\ End /\ UNCHANGED <<source, tables, meta, failure>>

\* The process comes up with migration 0007 to apply, which creates dim_credit
\* and dim_played and blanks the recorded time (once per installation, which is
\* not counted here).
Upgrade ==
    /\ At("idle")
    /\ credits' = 0 /\ played' = 0
    /\ meta' = [meta EXCEPT !.mt = NoTime]
    /\ UNCHANGED <<source, items, run, failure>>

RunSteps ==
    \/ Begin \/ Fetch \/ WriteItems \/ UpsertCredits \/ UpsertPlayed
    \/ RecordSuccess \/ RecordSkip \/ RecordFailure

Next == RunSteps \/ Fails \/ Stops \/ Upgrade \/ JellyfinSteps

SafeSpec == Init /\ [][Next]_vars

-----------------------------------------------------------------------------
(***************************************************************************)
(* Properties                                                              *)
(***************************************************************************)
Skipped == meta.row /\ meta.ok /\ there /\ meta.mt = mtime
UpToDate == main <= items /\ main <= credits /\ main <= played

\* A run is skipped only "if the file's mtime hasn't changed since the last
\* successful run": then what the file says is in every table.
SkipIsSound == Skipped => UpToDate

\* That holds as long as the last run that did something did not fail.
SkipIsSoundAfterSuccess == Skipped /\ ~failure => UpToDate
=============================================================================
