----------------------------- MODULE Scheduler -----------------------------
(***************************************************************************)
(* The scheduler (internal/scheduler/scheduler.go): one goroutine that     *)
(* runs the library job and the watch job, both when the process comes up, *)
(* and then whenever a ticker fires or a request to refresh is taken from  *)
(* a short queue.                                                          *)
(*                                                                         *)
(* The library job is LibraryJob, step by step.  Of the watch job, which   *)
(* WatchJob has in full, there is what ties the two together: it builds    *)
(* the charts of people from the credits that the library job has stored,  *)
(* when it is not skipped.                                                 *)
(***************************************************************************)
EXTENDS LibraryJob, Sequences, SequencesExt

CONSTANTS
    QueueCap,   \* 8: the buffer of the trigger channel
    MaxPlugin,  \* bound: how often the plugin's file gets a new mtime
    MaxCrashes  \* bound: how often the process stops

ASSUME SchedulerAssumption ==
    /\ QueueCap \in Nat \ {0} /\ MaxPlugin \in Nat \ {0} /\ MaxCrashes \in Nat

VARIABLES
    plugin,   \* the mtime of the plugin's file
    people,   \* the version whose credits agg_profile_people was built from, 0: none
    watchRow, \* the watch job's row of refresh_meta
    watchRun, \* the run of the watch job under way
    queue,    \* the trigger channel
    ticks,    \* the jobs whose ticker has fired
    todo,     \* what the loop is at: the job under way, and that to run after it
    crashes,
    upgraded, \* migration 0007 has been applied
    owed,     \* history: the jobs of requests that were queued, until a run begins
    asked,    \* history: the jobs of all requests, until a run begins
    missed    \* history: a library run has failed since the upgrade

watchVars == <<plugin, people, watchRow, watchRun>>
loopVars == <<queue, ticks, todo>>
history == <<owed, asked, missed>>
schedulerVars == <<vars, watchVars, loopVars, crashes, upgraded, history>>

Jobs == {"library", "watch"}
Startup == <<"library", "watch">>
NoRow == [row |-> FALSE, mt |-> 0, ok |-> FALSE]
Resting == [at |-> "idle", mt |-> 0]

SchedulerTypeOK ==
    /\ TypeOK
    /\ plugin \in 1..MaxPlugin /\ people \in 0..MaxVersion
    /\ watchRow \in [row : BOOLEAN, mt : 0..MaxPlugin, ok : BOOLEAN]
    /\ watchRun \in [at : {"idle", "people", "finish"}, mt : 0..MaxPlugin]
    /\ Len(queue) <= QueueCap /\ ToSet(queue) \subseteq Jobs \union {"all"}
    /\ todo \in {Startup, <<"library">>, <<"watch">>, <<>>}
    /\ ticks \subseteq Jobs /\ owed \subseteq asked /\ asked \subseteq Jobs
    /\ run.at # "idle" => todo # <<>> /\ Head(todo) = "library"
    /\ watchRun.at # "idle" => todo = <<"watch">>
    /\ crashes \in 0..MaxCrashes /\ upgraded \in BOOLEAN /\ missed \in BOOLEAN

SchedulerInit ==
    /\ Init
    /\ plugin = 1 /\ people = 0 /\ watchRow = NoRow /\ watchRun = Resting
    /\ queue = <<>> /\ ticks = {} /\ todo = Startup
    /\ crashes = 0 /\ upgraded = FALSE
    /\ owed = {} /\ asked = {} /\ missed = FALSE

-----------------------------------------------------------------------------
\* The world outside the process.
Jellyfin ==
    /\ \/ JellyfinSteps /\ UNCHANGED plugin
       \/ plugin < MaxPlugin /\ plugin' = plugin + 1 /\ UNCHANGED vars
    /\ UNCHANGED <<people, watchRow, watchRun, loopVars, crashes, upgraded, history>>

Fire(job) ==
    /\ job \notin ticks /\ ticks' = ticks \union {job}
    /\ UNCHANGED <<vars, watchVars, queue, todo, crashes, upgraded, history>>

JobsOf(job) == IF job = "all" THEN Startup ELSE <<job>>

\* A mistake in New: one more fits.
RoomForMore == Len(queue) <= QueueCap

Room == Len(queue) < QueueCap

\* The handler of /api/refresh says "triggered" either way.
Trigger(job) ==
    /\ asked' = asked \union ToSet(JobsOf(job))
    /\ IF Room
       THEN queue' = Append(queue, job) /\ owed' = owed \union ToSet(JobsOf(job))
       ELSE UNCHANGED <<queue, owed>>
    /\ UNCHANGED <<vars, watchVars, ticks, todo, crashes, upgraded, missed>>

-----------------------------------------------------------------------------
\* The cases of the select.
TakeTick(job) ==
    /\ todo = <<>> /\ job \in ticks
    /\ ticks' = ticks \ {job} /\ todo' = <<job>>
    /\ UNCHANGED <<vars, watchVars, queue, crashes, upgraded, history>>

\* A mistake in Run: "all" is the library job only.
JobsToRunFirst(job) == <<Head(JobsOf(job))>>

JobsToRun(job) == JobsOf(job)

TakeTrigger ==
    /\ todo = <<>> /\ queue # <<>>
    /\ queue' = Tail(queue) /\ todo' = JobsToRun(Head(queue))
    /\ UNCHANGED <<vars, watchVars, ticks, crashes, upgraded, history>>

UpNext(job) == todo # <<>> /\ Head(todo) = job
Begins(job) == owed' = owed \ {job} /\ asked' = asked \ {job}

\* A mistake in Run: a run that failed is tried again at once.
AfterFailureAgain == todo' = todo

AfterFailure == todo' = Tail(todo)

LibraryBegins ==
    /\ UpNext("library") /\ Begin /\ Begins("library")
    /\ UNCHANGED <<watchVars, loopVars, crashes, upgraded, missed>>

LibraryGoesOn ==
    /\ Fetch \/ WriteItems \/ UpsertCredits \/ UpsertPlayed \/ Fails
    /\ UNCHANGED <<watchVars, loopVars, crashes, upgraded, history>>

\* An error is logged, and the loop goes on.
LibraryEnds ==
    /\ \/ (RecordSuccess \/ RecordSkip) /\ todo' = Tail(todo) /\ UNCHANGED missed
       \/ RecordFailure /\ AfterFailure /\ missed' = TRUE
    /\ UNCHANGED <<watchVars, queue, ticks, crashes, upgraded, owed, asked>>

WatchSkips == watchRow.row /\ watchRow.ok /\ watchRow.mt # 0 /\ watchRow.mt = plugin

WatchBegins ==
    /\ UpNext("watch") /\ watchRun = Resting /\ Begins("watch")
    /\ IF WatchSkips THEN todo' = Tail(todo) /\ UNCHANGED watchRun
       ELSE watchRun' = [at |-> "people", mt |-> plugin] /\ UNCHANGED todo
    /\ UNCHANGED <<vars, plugin, people, watchRow, queue, ticks, crashes, upgraded, missed>>

\* ReadCredits, ReadPlayed and WritePeopleAggregates.
WatchBuildsPeople ==
    /\ watchRun.at = "people"
    /\ people' = credits /\ watchRun' = [watchRun EXCEPT !.at = "finish"]
    /\ UNCHANGED <<vars, plugin, watchRow, loopVars, crashes, upgraded, history>>

WatchEnds(ok) ==
    /\ watchRun.at = "finish" \/ (~ok /\ watchRun.at = "people")
    /\ watchRow' = [row |-> TRUE, mt |-> watchRun.mt, ok |-> ok]
    /\ watchRun' = Resting
    /\ IF ok THEN todo' = Tail(todo) ELSE AfterFailure
    /\ UNCHANGED <<vars, plugin, people, queue, ticks, crashes, upgraded, history>>

\* A mistake in Run: the watch job is first.
RestartWatchFirst == <<"watch", "library">>

Restart == Startup

\* The process stops, and comes up again; it may find migration 0007 to apply,
\* which blanks both jobs' recorded times.
Crash ==
    /\ crashes < MaxCrashes /\ crashes' = crashes + 1
    /\ todo' = Restart /\ queue' = <<>> /\ ticks' = {}
    /\ watchRun' = Resting
    /\ \/ (Stops \/ (At("idle") /\ UNCHANGED vars))
          /\ UNCHANGED <<people, watchRow, upgraded, missed>>
       \/ Upgrade /\ ~upgraded /\ upgraded' = TRUE /\ missed' = FALSE
          /\ people' = 0 /\ watchRow' = [watchRow EXCEPT !.mt = 0]
    /\ UNCHANGED <<plugin, owed, asked>>

LibrarySteps == LibraryBegins \/ LibraryGoesOn \/ LibraryEnds
WatchSteps == WatchBegins \/ WatchBuildsPeople \/ \E ok \in BOOLEAN : WatchEnds(ok)

SchedulerNext ==
    \/ Jellyfin \/ Crash
    \/ \E job \in Jobs : Fire(job) \/ TakeTick(job)
    \/ \E job \in Jobs \union {"all"} : Trigger(job)
    \/ TakeTrigger \/ LibrarySteps \/ WatchSteps

\* Runs come to an end, tickers fire, and select, which chooses among the cases
\* that are ready at random, passes none over for ever.
SchedulerFairness ==
    /\ WF_schedulerVars(LibrarySteps) /\ WF_schedulerVars(WatchSteps)
    /\ \A job \in Jobs : WF_schedulerVars(Fire(job)) /\ SF_schedulerVars(TakeTick(job))

SchedulerSafeSpec == SchedulerInit /\ [][SchedulerNext]_schedulerVars
SchedulerSpec == SchedulerSafeSpec /\ SchedulerFairness

-----------------------------------------------------------------------------
(***************************************************************************)
(* Properties                                                              *)
(***************************************************************************)
\* A request that was queued is not lost, in an error of another job or in a
\* restart: its job is queued or to run, until a run of it begins.
OwedIsQueued ==
    \A job \in owed :
        \/ job \in ToSet(todo)
        \/ \E i \in DOMAIN queue : job \in ToSet(JobsOf(queue[i]))

\* Every request is followed by a run of its job, also one that found the queue
\* full, and whatever fails.
RequestIsServed == \A job \in Jobs : job \in asked ~> job \notin asked

PeopleSettled == todo = <<>> /\ WatchSkips /\ credits > 0

\* The upgrade blanks both jobs' recorded times, for they "would otherwise leave
\* dim_credit/dim_played/agg_profile_people empty on an existing install until the
\* underlying DB happens to change" (0007_profile_people.sql).  No watch run that
\* left the people out is taken for up to date, because the library job is first;
\* unless a library run has failed since.
PeopleFollowUnlessMissed == upgraded /\ ~missed /\ PeopleSettled => people > 0
=============================================================================
