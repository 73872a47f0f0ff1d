-------------------------- MODULE SchedulerProofs --------------------------
(***************************************************************************)
(* The library job, by itself and under the scheduler: it skips no run     *)
(* that has something to do, as long as the last run that did something    *)
(* did not fail; and the loop of the scheduler loses no request that it    *)
(* has queued, and leaves no page of people empty after an upgrade.  For   *)
(* any queue, any versions and any times.                                  *)
(***************************************************************************)
EXTENDS Scheduler, TLAPS

-----------------------------------------------------------------------------
(***************************************************************************)
(* The library job.                                                        *)
(***************************************************************************)

USE LibraryAssumption DEF Versions, NoTime

RunType == [at : Points, mt : 0..MaxTime, snap : Versions]

\* A recorded run.
LEMMA LibraryRecordType ==
    ASSUME TypeOK, NEW ok \in BOOLEAN, Record(ok), failure' \in BOOLEAN
    PROVE  TypeOK'
<1>1. meta' \in [row : BOOLEAN, mt : 0..MaxTime, ok : BOOLEAN]
  BY DEF TypeOK, Record
<1>2. run' \in RunType
  BY DEF Record, End, NotRunning, RunType, Points
<1>3. QED
  BY <1>1, <1>2 DEF TypeOK, Record, RunType, source, tables

\* Each step of the library job keeps its types.
LEMMA LibraryTypeStep == TypeOK /\ [Next]_vars => TypeOK'
<1> SUFFICES ASSUME TypeOK, [Next]_vars PROVE TypeOK'
  OBVIOUS
<1> USE DEF TypeOK, source, tables, Ours
<1>1. CASE Begin
  <2>1. Stat \in 0..MaxTime
    BY DEF Stat
  <2>2. PICK prev \in {meta, NoMeta} :
            run' = [NotRunning EXCEPT !.mt = Stat,
                        !.at = IF Skips(prev, Stat) THEN "skip" ELSE "fetch"]
    BY <1>1 DEF Begin
  <2>3. NotRunning \in RunType
    BY DEF NotRunning, RunType, Points
  <2>4. (IF Skips(prev, Stat) THEN "skip" ELSE "fetch") \in Points
    BY DEF Points
  <2>5. run' \in RunType
    BY <2>1, <2>2, <2>3, <2>4 DEF RunType
  <2>6. QED
    BY <1>1, <2>5 DEF Begin, RunType
<1>2. CASE Fetch
  BY <1>2 DEF Fetch, Copies, Points
<1>3. CASE WriteItems
  BY <1>3 DEF WriteItems, Goto, Points
<1>4. CASE UpsertCredits
  BY <1>4 DEF UpsertCredits, Goto, Points
<1>5. CASE UpsertPlayed
  BY <1>5 DEF UpsertPlayed, Goto, Points
<1>6. CASE RecordSuccess
  BY <1>6, LibraryRecordType DEF RecordSuccess
<1>7. CASE RecordSkip
  BY <1>7, LibraryRecordType DEF RecordSkip
<1>8. CASE RecordFailure
  BY <1>8, LibraryRecordType DEF RecordFailure
<1>9. CASE Fails
  BY <1>9 DEF Fails, Goto, Points
<1>10. CASE Stops
  BY <1>10 DEF Stops, End, NotRunning, Points
<1>11. CASE Upgrade
  BY <1>11 DEF Upgrade
<1>12. CASE JellyfinSteps
  BY <1>12 DEF JellyfinSteps, Mount, Change, Checkpoint
<1>13. CASE UNCHANGED vars
  BY <1>13 DEF vars
<1>14. QED
  BY <1>1, <1>2, <1>3, <1>4, <1>5, <1>6, <1>7, <1>8, <1>9, <1>10, <1>11, <1>12, <1>13
     DEF Next, RunSteps

\* Every variable keeps its type.
THEOREM LibraryTypeCorrect == SafeSpec => []TypeOK
<1>1. NoMeta \in [row : BOOLEAN, mt : 0..MaxTime, ok : BOOLEAN] /\ NotRunning \in RunType
  BY DEF NoMeta, NotRunning, RunType, Points
<1>2. ASSUME Init PROVE TypeOK
  <2>1. there \in BOOLEAN /\ failure \in BOOLEAN
    BY <1>2, Zenon DEF Init
  <2>2. mtime \in 1..MaxTime /\ main \in Versions /\ wal \in Versions
    BY <1>2 DEF Init
  <2>3. items \in Versions /\ credits \in Versions /\ played \in Versions
    BY <1>2 DEF Init
  <2>4. QED
    BY <1>1, <1>2, <2>1, <2>2, <2>3, Zenon DEF Init, TypeOK, RunType
<1>3. QED
  BY <1>2, LibraryTypeStep, PTL DEF SafeSpec

-----------------------------------------------------------------------------
\* A time that was recorded or found is not in the future, and the file is not
\* ahead of its log.
PastAndBehind == run.mt <= mtime /\ meta.mt <= mtime /\ main <= wal

\* The file has not been written since the run began.
Unwritten == run.mt = mtime \/ meta.mt = mtime

\* What a run has read, and each table that it is done with, has what the file
\* has, until the file is written.
RunIsAhead ==
    Unwritten =>
        /\ run.at \in {"items", "credits", "played", "finish"} => main <= run.snap
        /\ run.at \in {"credits", "played", "finish"} => main <= items
        /\ run.at \in {"played", "finish"} => main <= credits
        /\ run.at = "finish" => main <= played

\* The same of the recorded run.  Whether its row says "ok" cannot matter: the
\* next run does not ask, and says "ok" of it.
RecordIsAhead == meta.row /\ meta.mt = mtime /\ ~failure => UpToDate

SkipKnowsRow == At("skip") => meta.row /\ meta.mt = run.mt

IInv == PastAndBehind /\ RunIsAhead /\ RecordIsAhead /\ SkipKnowsRow

\* And what its runs know of the file.
LEMMA LibraryInvStep == TypeOK /\ IInv /\ [Next]_vars => IInv'
<1> SUFFICES ASSUME TypeOK, IInv, [Next]_vars PROVE IInv'
  OBVIOUS
<1> USE DEF TypeOK, IInv, PastAndBehind, Unwritten, RunIsAhead, RecordIsAhead, UpToDate,
            SkipKnowsRow, At, source, tables, Ours
<1>1. CASE Begin
  <2>1. PICK prev \in {meta, NoMeta} :
            run' = [NotRunning EXCEPT !.mt = Stat,
                        !.at = IF Skips(prev, Stat) THEN "skip" ELSE "fetch"]
    BY <1>1 DEF Begin
  <2>2. run'.mt = Stat /\ run'.at = IF Skips(prev, Stat) THEN "skip" ELSE "fetch"
    BY <2>1 DEF NotRunning
  <2>3. PastAndBehind'
    BY <1>1, <2>2 DEF Begin, Stat
  <2>4. SkipKnowsRow'
    BY <1>1, <2>2 DEF Begin, Skips, NoMeta
  <2>5. QED
    BY <1>1, <2>2, <2>3, <2>4 DEF Begin
<1>2. CASE Fetch
  BY <1>2 DEF Fetch, Copies
<1>3. CASE WriteItems
  BY <1>3 DEF WriteItems, Goto
<1>4. CASE UpsertCredits
  BY <1>4 DEF UpsertCredits, Goto
<1>5. CASE UpsertPlayed
  BY <1>5 DEF UpsertPlayed, Goto
<1>6. CASE RecordSuccess
  BY <1>6 DEF RecordSuccess, Record, End, NotRunning
<1>7. CASE RecordSkip
  BY <1>7 DEF RecordSkip, Record, End, NotRunning
<1>8. CASE RecordFailure
  BY <1>8 DEF RecordFailure, Record, End, NotRunning
<1>9. CASE Fails
  BY <1>9 DEF Fails, Goto
<1>10. CASE Stops
  BY <1>10 DEF Stops, End, NotRunning
<1>11. CASE Upgrade
  BY <1>11 DEF Upgrade
<1>12. CASE JellyfinSteps
  BY <1>12 DEF JellyfinSteps, Mount, Change, Checkpoint
<1>13. CASE UNCHANGED vars
  BY <1>13 DEF vars
<1>14. QED
  BY <1>1, <1>2, <1>3, <1>4, <1>5, <1>6, <1>7, <1>8, <1>9, <1>10, <1>11, <1>12, <1>13
     DEF Next, RunSteps

\* A run of the library job that is skipped has nothing to do, unless the last
\* run that was not skipped failed.
THEOREM LibrarySkipsAreSound == SafeSpec => []SkipIsSoundAfterSuccess
<1>1. Init => IInv
  BY DEF Init, IInv, PastAndBehind, Unwritten, RunIsAhead, RecordIsAhead, SkipKnowsRow, At, NoMeta,
         NotRunning
<1>2. TypeOK /\ IInv => SkipIsSoundAfterSuccess
  BY DEF IInv, RecordIsAhead, SkipIsSoundAfterSuccess, Skipped
<1>3. QED
  BY <1>1, <1>2, LibraryInvStep, LibraryTypeCorrect, PTL DEF SafeSpec

-----------------------------------------------------------------------------
(***************************************************************************)
(* The loop.                                                               *)
(***************************************************************************)

\* The library job under the scheduler is the library job.
LEMMA StepIsLibraryStep == [SchedulerNext]_schedulerVars => [Next]_vars
<1> SUFFICES ASSUME [SchedulerNext]_schedulerVars PROVE [Next]_vars
  OBVIOUS
<1>1. CASE Jellyfin
  BY <1>1 DEF Jellyfin, Next
<1>2. CASE Crash
  BY <1>2 DEF Crash, Next
<1>3. CASE LibrarySteps
  BY <1>3 DEF LibrarySteps, LibraryBegins, LibraryGoesOn, LibraryEnds, Next, RunSteps
<1>4. CASE \/ \E job \in Jobs : Fire(job) \/ TakeTick(job)
           \/ \E job \in Jobs \union {"all"} : Trigger(job)
           \/ TakeTrigger \/ WatchSteps
  BY <1>4 DEF Fire, TakeTick, Trigger, TakeTrigger, WatchSteps, WatchBegins, WatchBuildsPeople,
              WatchEnds
<1>5. CASE UNCHANGED schedulerVars
  BY <1>5 DEF schedulerVars
<1>6. QED
  BY <1>1, <1>2, <1>3, <1>4, <1>5 DEF SchedulerNext

\* Whatever starts its runs, the library job keeps to its specification, so a
\* run of it that is skipped has nothing to do.
THEOREM SchedulerRunsLibraryJob ==
    SchedulerSafeSpec => SafeSpec /\ []TypeOK /\ []SkipIsSoundAfterSuccess
<1>1. SchedulerInit => Init
  BY DEF SchedulerInit
<1>2. SchedulerSafeSpec => SafeSpec
  BY <1>1, StepIsLibraryStep, PTL DEF SchedulerSafeSpec, SafeSpec
<1>3. QED
  BY <1>2, LibraryTypeCorrect, LibrarySkipsAreSound, PTL

-----------------------------------------------------------------------------
\* Where the loop is when a job runs.
LoopInv ==
    /\ queue \in Seq(Jobs \union {"all"})
    /\ todo \in {Startup, <<"library">>, <<"watch">>, <<>>}
    /\ owed \subseteq Jobs
    /\ run.at # "idle" => todo \in {Startup, <<"library">>}
    /\ watchRun.at # "idle" => todo = <<"watch">>

\* A run of the job has yet to begin.
Promised(job) ==
    \/ todo = Startup /\ (job = "watch" \/ run.at = "idle")
    \/ todo = <<job>> /\ run.at = "idle" /\ watchRun.at = "idle"

Queued(job) == \E i \in DOMAIN queue : queue[i] \in {job, "all"}

OwedInv == \A job \in owed : Promised(job) \/ Queued(job)

\* The three lists of jobs that may be under way.
LEMMA Lists ==
    /\ Startup # <<>> /\ Head(Startup) = "library" /\ Tail(Startup) = <<"watch">>
    /\ \A job \in Jobs : <<job>> # <<>> /\ Head(<<job>>) = job /\ Tail(<<job>>) = <<>> /\ <<job>> # Startup
    /\ <<"library">> # <<"watch">>
    /\ ToSet(Startup) = Jobs /\ ToSet(<<>>) = {}
    /\ \A job \in Jobs : ToSet(<<job>>) = {job}
  BY DEF Startup, Jobs, ToSet

\* What a request makes of them.
LEMMA JobLists ==
    ASSUME NEW j \in Jobs \union {"all"}
    PROVE  /\ JobsOf(j) \in {Startup, <<"library">>, <<"watch">>}
           /\ ToSet(JobsOf(j)) \subseteq Jobs
           /\ \A job \in Jobs : job \in ToSet(JobsOf(j)) <=> j \in {job, "all"}
<1>1. CASE j = "all"
  BY <1>1, Lists DEF JobsOf, Jobs
<1>2. CASE j # "all"
  BY <1>2, Lists DEF JobsOf, Jobs
<1>3. QED
  BY <1>1, <1>2

\* The invariant says that what is owed is queued.
LEMMA OwedImplied == LoopInv /\ OwedInv => OwedIsQueued
<1> SUFFICES ASSUME LoopInv, OwedInv, NEW job \in owed,
                    ~\E i \in DOMAIN queue : job \in ToSet(JobsOf(queue[i]))
             PROVE  job \in ToSet(todo)
  BY DEF OwedIsQueued
<1>1. job \in Jobs
  BY DEF LoopInv
<1>2. \A i \in DOMAIN queue : queue[i] \in Jobs \union {"all"}
  BY DEF LoopInv
<1>3. ~Queued(job)
  BY <1>1, <1>2, JobLists DEF Queued
<1>4. Promised(job)
  BY <1>3 DEF OwedInv
<1>5. QED
  BY <1>1, <1>4, Lists DEF Promised

\* Nothing is owed at the start.
LEMMA OwedStart == SchedulerInit => LoopInv /\ OwedInv
  BY DEF SchedulerInit, Init, NotRunning, Resting, LoopInv, OwedInv

\* Each step of the loop keeps it.
LEMMA OwedStep ==
    ASSUME LoopInv, OwedInv, [SchedulerNext]_schedulerVars
    PROVE  LoopInv' /\ OwedInv'
<1>1. \A job \in owed : job \in Jobs /\ (Promised(job) \/ Queued(job))
  BY DEF LoopInv, OwedInv
<1>2. todo = <<>> => run.at = "idle" /\ watchRun.at = "idle" /\ \A job \in owed : Queued(job)
  BY <1>1, Lists DEF LoopInv, Promised
<1>3. ASSUME NEW j \in Jobs \union {"all"}, Trigger(j) PROVE LoopInv' /\ OwedInv'
  <2>1. CASE Room
    <3>1. /\ queue' = Append(queue, j) /\ owed' = owed \union ToSet(JobsOf(j))
          /\ UNCHANGED <<todo, run, watchRun>>
      BY <1>3, <2>1 DEF Trigger, vars, watchVars
    <3>2. LoopInv'
      BY <3>1, JobLists DEF LoopInv
    <3>3. \A job \in Jobs : Queued(job) => Queued(job)'
      BY <3>1 DEF LoopInv, Queued
    <3>4. \A job \in ToSet(JobsOf(j)) : Queued(job)'
      <4>1. Len(queue) + 1 \in DOMAIN queue' /\ queue'[Len(queue) + 1] = j
        BY <3>1 DEF LoopInv
      <4>2. \A job \in ToSet(JobsOf(j)) : j \in {job, "all"}
        BY JobLists
      <4>3. QED
        BY <4>1, <4>2 DEF Queued
    <3>5. \A job \in Jobs : Promised(job) => Promised(job)'
      BY <3>1 DEF Promised
    <3>6. QED
      BY <1>1, <3>1, <3>2, <3>3, <3>4, <3>5 DEF OwedInv
  <2>2. CASE ~Room
    BY <1>3, <2>2 DEF Trigger, vars, watchVars, LoopInv, OwedInv, Promised, Queued
  <2>3. QED
    BY <2>1, <2>2
<1>4. ASSUME NEW j \in Jobs, TakeTick(j) PROVE LoopInv' /\ OwedInv'
  <2>1. todo = <<>> /\ todo' = <<j>> /\ UNCHANGED <<run, watchRun, queue, owed>>
    BY <1>4 DEF TakeTick, vars, watchVars, history
  <2>2. LoopInv'
    BY <1>2, <2>1 DEF LoopInv, Jobs
  <2>3. QED
    BY <1>2, <2>1, <2>2 DEF OwedInv, Queued
<1>5. CASE TakeTrigger
  <2>1. /\ todo = <<>> /\ queue # <<>>
        /\ queue' = Tail(queue) /\ todo' = JobsOf(Head(queue)) /\ UNCHANGED <<run, watchRun, owed>>
    BY <1>5 DEF TakeTrigger, JobsToRun, vars, watchVars, history
  <2>2. queue[1] \in Jobs \union {"all"} /\ Head(queue) = queue[1]
    BY <2>1 DEF LoopInv
  <2>3. LoopInv'
    BY <1>2, <2>1, <2>2, JobLists DEF LoopInv
  <2>4. ASSUME NEW job \in owed PROVE Promised(job)' \/ Queued(job)'
    <3>1. PICK i \in DOMAIN queue : queue[i] \in {job, "all"}
      BY <1>2, <2>1 DEF Queued
    <3>2. CASE i = 1
      BY <1>1, <1>2, <2>1, <2>2, <3>1, <3>2 DEF Promised, JobsOf
    <3>3. CASE i # 1
      <4>1. i - 1 \in DOMAIN queue' /\ queue'[i - 1] = queue[i]
        BY <2>1, <3>3 DEF LoopInv
      <4>2. QED
        BY <3>1, <4>1 DEF Queued
    <3>4. QED
      BY <3>2, <3>3
  <2>5. QED
    BY <2>1, <2>3, <2>4 DEF OwedInv
<1>6. CASE LibraryBegins
  <2>1. /\ todo # <<>> /\ Head(todo) = "library" /\ run.at = "idle" /\ owed' = owed \ {"library"}
        /\ UNCHANGED <<todo, queue, watchRun>>
    BY <1>6 DEF LibraryBegins, UpNext, Begin, Begins, At, watchVars, loopVars
  <2>2. todo \in {Startup, <<"library">>}
    BY <2>1, Lists DEF LoopInv, Jobs
  <2>3. LoopInv'
    BY <2>1, <2>2, Lists DEF LoopInv, Jobs
  <2>4. QED
    BY <1>1, <2>1, <2>2, <2>3, Lists DEF OwedInv, Promised, Queued, Jobs
<1>7. CASE LibraryGoesOn
  <2>1. run.at # "idle" /\ UNCHANGED <<todo, queue, owed, watchRun>>
    BY <1>7 DEF LibraryGoesOn, Fetch, WriteItems, UpsertCredits, UpsertPlayed, Fails, At,
                watchVars, loopVars, history
  <2>2. LoopInv'
    BY <2>1 DEF LoopInv
  <2>3. QED
    BY <1>1, <2>1, <2>2, Lists DEF LoopInv, OwedInv, Promised, Queued
<1>8. CASE LibraryEnds
  <2>1. /\ run.at # "idle" /\ run' = NotRunning /\ todo' = Tail(todo)
        /\ UNCHANGED <<queue, owed, watchRun>>
    BY <1>8 DEF LibraryEnds, RecordSuccess, RecordSkip, RecordFailure, AfterFailure, Record, End,
                At, watchVars
  <2>2. run'.at = "idle" /\ todo \in {Startup, <<"library">>} /\ watchRun.at = "idle"
    BY <2>1, Lists DEF LoopInv, NotRunning, Jobs
  <2>3. LoopInv'
    BY <2>1, <2>2, Lists DEF LoopInv, Jobs
  <2>4. QED
    BY <1>1, <2>1, <2>2, <2>3, Lists DEF OwedInv, Promised, Queued, Jobs
<1>9. CASE WatchBegins
  <2>1. /\ todo # <<>> /\ Head(todo) = "watch" /\ owed' = owed \ {"watch"}
        /\ todo' \in {todo, Tail(todo)} /\ UNCHANGED <<run, queue>>
        /\ todo' = Tail(todo) => UNCHANGED watchRun \/ todo' = todo
    BY <1>9 DEF WatchBegins, UpNext, Begins, vars
  <2>2. todo = <<"watch">> /\ run.at = "idle" /\ Tail(todo) = <<>>
    BY <2>1, Lists DEF LoopInv, Jobs
  <2>3. watchRun.at = "idle"
    BY <1>9 DEF WatchBegins, Resting
  <2>4. LoopInv'
    BY <2>1, <2>2, <2>3, Lists DEF LoopInv, Jobs
  <2>5. QED
    BY <1>1, <2>1, <2>2, <2>4, Lists DEF OwedInv, Promised, Queued, Jobs
<1>10. CASE WatchBuildsPeople
  <2>1. watchRun.at # "idle" /\ UNCHANGED <<todo, queue, owed, run>>
    BY <1>10 DEF WatchBuildsPeople, vars, loopVars, history
  <2>2. LoopInv'
    BY <2>1 DEF LoopInv
  <2>3. QED
    BY <1>1, <2>1, <2>2, Lists DEF LoopInv, OwedInv, Promised, Queued, Jobs
<1>11. ASSUME NEW ok \in BOOLEAN, WatchEnds(ok) PROVE LoopInv' /\ OwedInv'
  <2>1. /\ watchRun.at # "idle" /\ watchRun' = Resting /\ todo' = Tail(todo)
        /\ UNCHANGED <<queue, owed, run>>
    BY <1>11 DEF WatchEnds, AfterFailure, vars, history
  <2>2. watchRun'.at = "idle" /\ todo' = <<>> /\ run.at = "idle" /\ todo = <<"watch">>
    BY <2>1, Lists DEF LoopInv, Resting, Jobs
  <2>3. LoopInv'
    BY <2>1, <2>2 DEF LoopInv
  <2>4. QED
    BY <1>1, <2>1, <2>2, <2>3, Lists DEF OwedInv, Promised, Queued, Jobs
<1>12. CASE Crash
  <2>1. todo' = Startup /\ queue' = <<>> /\ watchRun' = Resting /\ run'.at = "idle" /\ owed' = owed
    BY <1>12 DEF Crash, Restart, Stops, Upgrade, End, NotRunning, At, vars
  <2>2. LoopInv'
    BY <2>1 DEF LoopInv, Resting
  <2>3. QED
    BY <1>1, <2>1, <2>2 DEF OwedInv, Promised, Jobs
<1>13. CASE Jellyfin \/ (\E j \in Jobs : Fire(j)) \/ UNCHANGED schedulerVars
  <2>1. UNCHANGED <<todo, queue, owed, run, watchRun>>
    BY <1>13 DEF Jellyfin, JellyfinSteps, Mount, Change, Checkpoint, Ours, Fire, vars, watchVars,
                 loopVars, history, schedulerVars
  <2>2. QED
    BY <2>1 DEF LoopInv, OwedInv, Promised, Queued
<1>14. QED
  BY <1>3, <1>4, <1>5, <1>6, <1>7, <1>8, <1>9, <1>10, <1>11, <1>12, <1>13
     DEF SchedulerNext, LibrarySteps, WatchSteps

\* What OwedIsQueued says of the queue and of what the loop is at, for a queue of
\* any length: no error, and no restart, loses a request that was queued.
THEOREM QueuedRequestsAreKept == SchedulerSafeSpec => []OwedIsQueued
<1>1. SchedulerInit => LoopInv /\ OwedInv
  BY OwedStart
<1>2. LoopInv /\ OwedInv /\ [SchedulerNext]_schedulerVars => (LoopInv /\ OwedInv)'
  BY OwedStep
<1>3. QED
  BY <1>1, <1>2, OwedImplied, PTL DEF SchedulerSafeSpec

-----------------------------------------------------------------------------
\* What is left of the types.
LoopTypes ==
    /\ plugin \in 1..MaxPlugin /\ people \in Versions
    /\ watchRow \in [row : BOOLEAN, mt : 0..MaxPlugin, ok : BOOLEAN]
    /\ watchRun \in [at : {"idle", "people", "finish"}, mt : 0..MaxPlugin]
    /\ Len(queue) <= QueueCap
    /\ ticks \subseteq Jobs /\ owed \subseteq asked /\ asked \subseteq Jobs
    /\ crashes \in 0..MaxCrashes /\ upgraded \in BOOLEAN /\ missed \in BOOLEAN

\* The loop's types at the start.
LEMMA LoopTypesStart == SchedulerInit => LoopTypes
<1> SUFFICES ASSUME SchedulerInit PROVE LoopTypes
  OBVIOUS
<1>1. watchRow \in [row : BOOLEAN, mt : 0..MaxPlugin, ok : BOOLEAN]
  BY SchedulerAssumption DEF SchedulerInit, NoRow
<1>2. watchRun \in [at : {"idle", "people", "finish"}, mt : 0..MaxPlugin]
  BY SchedulerAssumption DEF SchedulerInit, Resting
<1>3. plugin \in 1..MaxPlugin /\ people \in Versions /\ Len(queue) <= QueueCap /\ crashes \in 0..MaxCrashes
  BY SchedulerAssumption, LibraryAssumption DEF SchedulerInit, Versions
<1>4. QED
  BY <1>1, <1>2, <1>3, Zenon DEF SchedulerInit, LoopTypes

\* Each step of the loop keeps its types.
LEMMA LoopTypesStep ==
    ASSUME TypeOK, LoopInv, LoopTypes, [SchedulerNext]_schedulerVars
    PROVE  LoopTypes'
<1> USE SchedulerAssumption DEF LoopTypes, watchVars, loopVars, history, Jobs
<1>1. CASE Jellyfin
  BY <1>1 DEF Jellyfin
<1>2. CASE Crash
  <2>1. watchRun' \in [at : {"idle", "people", "finish"}, mt : 0..MaxPlugin]
    BY <1>2 DEF Crash, Resting
  <2>2. watchRow' \in [row : BOOLEAN, mt : 0..MaxPlugin, ok : BOOLEAN]
    BY <1>2 DEF Crash
  <2>3. upgraded' \in BOOLEAN /\ missed' \in BOOLEAN
    BY <1>2 DEF Crash
  <2>4. Len(queue') <= QueueCap /\ crashes' \in 0..MaxCrashes /\ ticks' = {} /\ UNCHANGED <<plugin, owed, asked>>
    BY <1>2 DEF Crash
  <2>5. people' \in Versions
    BY <1>2, LibraryAssumption DEF Crash, Versions
  <2>6. QED
    BY <2>1, <2>2, <2>3, <2>4, <2>5
<1>3. ASSUME NEW job \in Jobs, Fire(job) \/ TakeTick(job) PROVE LoopTypes'
  BY <1>3 DEF Fire, TakeTick
<1>4. ASSUME NEW job \in Jobs \union {"all"}, Trigger(job) PROVE LoopTypes'
  <2>1. ToSet(JobsOf(job)) \subseteq Jobs
    BY JobLists
  <2>2. /\ asked' = asked \union ToSet(JobsOf(job)) /\ owed' \in {owed, owed \union ToSet(JobsOf(job))}
        /\ UNCHANGED <<watchVars, ticks, crashes, upgraded, missed>>
    BY <1>4 DEF Trigger
  <2>3. Len(queue') <= QueueCap
    BY <1>4 DEF Trigger, Room, LoopInv
  <2>4. QED
    BY <2>1, <2>2, <2>3
<1>5. CASE TakeTrigger
  BY <1>5 DEF TakeTrigger, LoopInv
<1>6. CASE LibrarySteps
  BY <1>6 DEF LibrarySteps, LibraryBegins, Begins, LibraryGoesOn, LibraryEnds
<1>7. CASE WatchBegins
  BY <1>7 DEF WatchBegins, Begins
<1>8. CASE WatchBuildsPeople
  BY <1>8 DEF WatchBuildsPeople, TypeOK
<1>9. ASSUME NEW ok \in BOOLEAN, WatchEnds(ok) PROVE LoopTypes'
  BY <1>9 DEF WatchEnds, Resting
<1>10. CASE UNCHANGED schedulerVars
  BY <1>10 DEF schedulerVars
<1>11. QED
  BY <1>1, <1>2, <1>3, <1>4, <1>5, <1>6, <1>7, <1>8, <1>9, <1>10 DEF SchedulerNext, WatchSteps

\* Together they are the types of the scheduler.
LEMMA TypesImplied == TypeOK /\ LoopInv /\ LoopTypes => SchedulerTypeOK
<1> SUFFICES ASSUME TypeOK, LoopInv, LoopTypes PROVE SchedulerTypeOK
  OBVIOUS
<1>1. ToSet(queue) \subseteq Jobs \union {"all"}
  BY DEF LoopInv, ToSet
<1>2. run.at # "idle" => todo # <<>> /\ Head(todo) = "library"
  BY Lists DEF LoopInv, Jobs
<1>3. QED
  BY <1>1, <1>2 DEF SchedulerTypeOK, LoopInv, LoopTypes, Versions

\* Every variable of the loop keeps its type, a run is under way only for the job
\* that is to run next, and the queue keeps to its length.
THEOREM SchedulerTypeCorrect == SchedulerSafeSpec => []SchedulerTypeOK
<1>1. LoopInv /\ OwedInv /\ [SchedulerNext]_schedulerVars => (LoopInv /\ OwedInv)'
  BY OwedStep
<1>2. TypeOK /\ LoopInv /\ LoopTypes /\ [SchedulerNext]_schedulerVars => LoopTypes'
  BY LoopTypesStep
<1>3. QED
  BY <1>1, <1>2, OwedStart, LoopTypesStart, TypesImplied, SchedulerRunsLibraryJob, PTL
     DEF SchedulerSafeSpec

-----------------------------------------------------------------------------
\* The tables of the upgrade exist, and no library run has failed since.
Recent == upgraded /\ ~missed

\* The file is never empty, and neither is what a run has read.
SomethingToRead ==
    /\ main >= 1 /\ wal >= 1
    /\ run.at \in {"items", "credits"} => run.snap >= 1

\* The library job is first, and has read nothing yet.
CreditsToCome ==
    /\ todo = Startup /\ meta.mt = NoTime /\ watchRow.mt = 0
    /\ run.at \in {"idle", "fetch", "items", "credits", "failed"}

PeopleInv ==
    /\ SomethingToRead
    /\ Recent =>
        /\ credits > 0 \/ CreditsToCome
        /\ watchRun.at = "finish" => people > 0
        /\ watchRow.row /\ watchRow.ok /\ watchRow.mt # 0 => people > 0

\* It stays so.
LEMMA SomethingStep ==
    ASSUME TypeOK, SomethingToRead, [Next]_vars PROVE SomethingToRead'
<1> USE DEF SomethingToRead, TypeOK, source, tables, Ours, Versions
<1>1. CASE Begin
  <2>1. run'.at \in {"skip", "fetch"}
    BY <1>1 DEF Begin, NotRunning
  <2>2. QED
    BY <1>1, <2>1 DEF Begin
<1>2. CASE Fetch
  BY <1>2 DEF Fetch, Copies
<1>3. CASE WriteItems \/ UpsertCredits \/ UpsertPlayed \/ Fails
  BY <1>3 DEF WriteItems, UpsertCredits, UpsertPlayed, Fails, Goto, At
<1>4. CASE RecordSuccess \/ RecordSkip \/ RecordFailure \/ Stops
  BY <1>4 DEF RecordSuccess, RecordSkip, RecordFailure, Record, Stops, End, NotRunning
<1>5. CASE Upgrade \/ JellyfinSteps
  <2>1. UNCHANGED run
    BY <1>5 DEF Upgrade, JellyfinSteps, Mount, Change, Checkpoint
  <2>2. main' >= 1 /\ wal' >= 1
    BY <1>5 DEF Upgrade, JellyfinSteps, Mount, Change, Checkpoint
  <2>3. QED
    BY <2>1, <2>2
<1>6. CASE UNCHANGED vars
  BY <1>6 DEF vars
<1>7. QED
  BY <1>1, <1>2, <1>3, <1>4, <1>5, <1>6 DEF Next, RunSteps

\* The invariant at the start.
LEMMA PeopleStart == SchedulerInit => PeopleInv
  BY DEF SchedulerInit, Init, NotRunning, Resting, NoRow, PeopleInv, SomethingToRead, Recent

\* The invariant says what is promised afterwards.
LEMMA PeopleImplied == SchedulerTypeOK /\ PeopleInv => PeopleFollowUnlessMissed
  BY DEF PeopleInv, PeopleFollowUnlessMissed, PeopleSettled, WatchSkips, Recent

\* Each step of the loop keeps it.
LEMMA PeopleStep ==
    ASSUME TypeOK, LoopInv, LoopTypes, PeopleInv, [SchedulerNext]_schedulerVars
    PROVE  PeopleInv'
<1> USE DEF Versions
<1>1. SomethingToRead'
  BY SomethingStep, StepIsLibraryStep DEF PeopleInv
<1>2. ASSUME todo # Startup, UNCHANGED <<credits, people, watchRun, watchRow, upgraded, missed>>
      PROVE  PeopleInv'
  BY <1>1, <1>2 DEF PeopleInv, Recent, CreditsToCome
<1>3. CASE Jellyfin \/ (\E job \in Jobs : Fire(job)) \/ UNCHANGED schedulerVars
  <2>1. UNCHANGED <<credits, people, watchRun, watchRow, upgraded, missed, todo, meta, run>>
    BY <1>3 DEF Jellyfin, JellyfinSteps, Mount, Change, Checkpoint, Ours, tables, Fire, vars, watchVars,
                loopVars, history, schedulerVars
  <2>2. QED
    BY <1>1, <2>1 DEF PeopleInv, Recent, CreditsToCome
<1>4. ASSUME NEW job \in Jobs \union {"all"}, Trigger(job) PROVE PeopleInv'
  <2>1. UNCHANGED <<credits, people, watchRun, watchRow, upgraded, missed, todo, meta, run>>
    BY <1>4 DEF Trigger, vars, tables, watchVars
  <2>2. QED
    BY <1>1, <2>1 DEF PeopleInv, Recent, CreditsToCome
<1>5. CASE TakeTrigger \/ \E job \in Jobs : TakeTick(job)
  <2>1. todo = <<>> /\ UNCHANGED <<credits, people, watchRun, watchRow, upgraded, missed>>
    BY <1>5 DEF TakeTrigger, TakeTick, vars, tables, watchVars, history
  <2>2. QED
    BY <1>2, <2>1, Lists
<1>6. CASE LibraryBegins
  <2>1. run' \in [at : {"skip", "fetch"}, mt : 0..MaxTime, snap : {0}]
        /\ (meta.mt = 0 => run'.at = "fetch")
    <3>1. PICK prev \in {meta, NoMeta} :
              run' = [NotRunning EXCEPT !.mt = Stat,
                          !.at = IF Skips(prev, Stat) THEN "skip" ELSE "fetch"]
      BY <1>6 DEF LibraryBegins, Begin
    <3>2. Stat \in 0..MaxTime
      BY LibraryAssumption DEF Stat, TypeOK, NoTime
    <3>3. meta.mt = 0 => ~Skips(prev, Stat)
      BY DEF Skips, NoMeta, NoTime
    <3>4. QED
      BY <3>1, <3>2, <3>3 DEF NotRunning
  <2>2. UNCHANGED <<credits, people, watchRun, watchRow, upgraded, missed, todo, meta>>
    BY <1>6 DEF LibraryBegins, Begin, tables, watchVars, loopVars
  <2>3. QED
    BY <1>1, <2>1, <2>2 DEF PeopleInv, Recent, CreditsToCome, NoTime
<1>7. CASE LibraryGoesOn
  <2>1. UNCHANGED <<people, watchRun, watchRow, upgraded, missed, todo, meta>>
    BY <1>7 DEF LibraryGoesOn, Fetch, WriteItems, UpsertCredits, UpsertPlayed, Fails,
                watchVars, loopVars, history
  <2>2. CASE UpsertCredits
    <3>1. credits' > 0
      BY <2>2 DEF UpsertCredits, At, PeopleInv, SomethingToRead, TypeOK
    <3>2. QED
      BY <1>1, <2>1, <3>1 DEF PeopleInv, Recent
  <2>3. CASE ~UpsertCredits
    <3>1. UNCHANGED credits
      BY <1>7, <2>3 DEF LibraryGoesOn, Fetch, WriteItems, UpsertPlayed, Fails, tables
    <3>2. CreditsToCome => run'.at \in {"items", "credits", "failed"}
      BY <1>7, <2>3 DEF LibraryGoesOn, Fetch, WriteItems, UpsertPlayed, Fails, At, Goto,
                        CreditsToCome, TypeOK
    <3>3. QED
      BY <1>1, <2>1, <3>1, <3>2 DEF PeopleInv, Recent, CreditsToCome
  <2>4. QED
    BY <2>2, <2>3
<1>8. CASE LibraryEnds
  <2>1. UNCHANGED <<credits, people, watchRun, watchRow, upgraded>>
    BY <1>8 DEF LibraryEnds, RecordSuccess, RecordSkip, RecordFailure, Record, tables, watchVars
  <2>2. missed' \/ (UNCHANGED missed /\ run.at \in {"finish", "skip"})
    BY <1>8 DEF LibraryEnds, RecordSuccess, RecordSkip, At
  <2>3. QED
    BY <1>1, <2>1, <2>2 DEF PeopleInv, Recent, CreditsToCome
<1>9. CASE WatchBegins
  <2>1. todo # Startup /\ UNCHANGED <<credits, people, watchRow, upgraded, missed>>
    BY <1>9, Lists DEF WatchBegins, UpNext, vars, tables
  <2>2. watchRun'.at = "finish" => watchRun' = watchRun
    BY <1>9 DEF WatchBegins
  <2>3. QED
    BY <1>1, <2>1, <2>2 DEF PeopleInv, Recent, CreditsToCome
<1>10. CASE WatchBuildsPeople
  <2>1. todo # Startup
    BY <1>10, Lists DEF WatchBuildsPeople, LoopInv
  <2>2. people' = credits /\ UNCHANGED <<credits, watchRow, upgraded, missed>>
    BY <1>10 DEF WatchBuildsPeople, vars, tables, history
  <2>3. QED
    BY <1>1, <2>1, <2>2 DEF PeopleInv, Recent, CreditsToCome
<1>11. ASSUME NEW ok \in BOOLEAN, WatchEnds(ok) PROVE PeopleInv'
  <2>1. todo # Startup
    BY <1>11, Lists DEF WatchEnds, LoopInv
  <2>2. UNCHANGED <<credits, people, upgraded, missed>> /\ watchRun'.at = "idle"
    BY <1>11 DEF WatchEnds, Resting, vars, tables, history
  <2>3. watchRow'.ok => watchRun.at = "finish"
    BY <1>11 DEF WatchEnds
  <2>4. QED
    BY <1>1, <2>1, <2>2, <2>3 DEF PeopleInv, Recent, CreditsToCome
<1>12. CASE Crash
  <2>1. todo' = Startup /\ watchRun'.at = "idle" /\ run'.at = "idle"
    BY <1>12 DEF Crash, Restart, Resting, Stops, Upgrade, End, NotRunning, At, vars
  <2>2. CASE UNCHANGED <<credits, people, watchRow, meta, upgraded, missed>>
    BY <1>1, <2>1, <2>2 DEF PeopleInv, Recent, CreditsToCome
  <2>3. CASE Upgrade /\ watchRow' = [watchRow EXCEPT !.mt = 0]
    <3>1. meta'.mt = 0 /\ watchRow'.mt = 0
      BY <2>3 DEF Upgrade, TypeOK, LoopTypes, NoTime
    <3>2. QED
      BY <1>1, <2>1, <3>1 DEF PeopleInv, CreditsToCome, NoTime
  <2>4. QED
    BY <1>12, <2>2, <2>3 DEF Crash, Stops, vars, tables
<1>13. QED
  BY <1>3, <1>4, <1>5, <1>6, <1>7, <1>8, <1>9, <1>10, <1>11, <1>12
     DEF SchedulerNext, LibrarySteps, WatchSteps

\* What PeopleFollowUnlessMissed says of the upgrade, for any versions and times: as
\* the library job is first after every restart, a watch run that is taken for up to
\* date has built the pages of people from credits, unless a library run failed.
THEOREM PeopleAreBuilt == SchedulerSafeSpec => []PeopleFollowUnlessMissed
<1>1. LoopInv /\ OwedInv /\ [SchedulerNext]_schedulerVars => (LoopInv /\ OwedInv)'
  BY OwedStep
<1>2. TypeOK /\ LoopInv /\ LoopTypes /\ [SchedulerNext]_schedulerVars => LoopTypes'
  BY LoopTypesStep
<1>3. TypeOK /\ LoopInv /\ LoopTypes /\ PeopleInv /\ [SchedulerNext]_schedulerVars => PeopleInv'
  BY PeopleStep
<1>4. QED
  BY <1>1, <1>2, <1>3, OwedStart, LoopTypesStart, PeopleStart, TypesImplied, PeopleImplied,
     SchedulerRunsLibraryJob, PTL DEF SchedulerSafeSpec
=============================================================================
