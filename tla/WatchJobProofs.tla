-------------------------- MODULE WatchJobProofs --------------------------
(***************************************************************************)
(* The watch job never skips a run that has something to do, and records   *)
(* no success before its pages agree: for any plays, durations and times.  *)
(***************************************************************************)
EXTENDS WatchJob, TLAPS

Live == Plays \ pruned

\* Plays that the plugin still retains only grow, in the log before the file.
LogIsAhead == \A p \in Live : main[p] <= wal[p]

\* A time that was recorded or found is not in the future.
TimesArePast == run.mt <= mtime /\ meta.mt <= mtime

\* The file has not been written since the run began.
Unwritten == run.mt = mtime \/ meta.mt = mtime

Holds(table_) == \A p \in Live : main[p] <= table_[p]

\* As long as the file is not written, what the run has read, and each table
\* that it is done with, has what the file has.  Once it is written, neither
\* time is the file's any more, and no later run is skipped on their account.
RunIsAhead ==
    Unwritten =>
        /\ At("append") => Holds(run.events)
        /\ run.at \in {"backfill", "daily", "profiles", "people", "finish"} => Holds(History)
        /\ run.at \in {"profiles", "people", "finish"} => Holds(daily)
        /\ run.at \in {"people", "finish"} => Holds(profiles)
        /\ run.at = "finish" => Holds(people)

\* The same of the recorded run.
RecordIsAhead ==
    meta.row /\ meta.ok /\ meta.mt = mtime /\ ~raced =>
        Holds(History) /\ Holds(daily) /\ Holds(profiles) /\ Holds(people)

\* A run that is skipped found the recorded row as it still is.
SkipKnowsRow == At("skip") => meta.row /\ meta.ok /\ meta.mt = run.mt

\* The tables that a run is done with show the spine.
RunAgrees ==
    /\ run.at \in {"profiles", "people", "finish"} => daily = History
    /\ run.at \in {"people", "finish"} => profiles = History
    /\ run.at = "finish" => people = History

IInv == LogIsAhead /\ TimesArePast /\ RunIsAhead /\ RecordIsAhead /\ SkipKnowsRow

-----------------------------------------------------------------------------
USE DEF Durations, NoTime

LEMMA NoPlaysType == NoPlays \in Durations
  BY WatchAssumption DEF NoPlays

LEMMA NoRowType == NoRow \in Rows
  BY WatchAssumption DEF NoRow, Rows, Library

\* What is read from the spine, what is put in it.
LEMMA HistoryType == ASSUME TypeOK PROVE History \in Durations
  BY DEF TypeOK, History, Rows

LEMMA EnrichedType ==
    ASSUME TypeOK, NEW rows \in EnrichedEvents
    PROVE  rows \in [Plays -> Rows] /\ \A p \in Plays : rows[p].dur = run.events[p]
<1>1. \A p \in Plays : run.events[p] \in 0..MaxDuration
  BY DEF TypeOK
<1>2. CASE rows = [p \in Plays |-> Raw(run.events[p])]
  BY <1>1, <1>2 DEF Raw, Rows, Library
<1>3. CASE rows \in {r \in [Plays -> Rows] : \A p \in Plays : r[p] \in Enriched(run.events[p])}
  BY <1>1, <1>3 DEF Enriched
<1>4. QED
  BY <1>2, <1>3 DEF EnrichedEvents

LEMMA StatType == ASSUME TypeOK PROVE Stat \in 0..MaxTime /\ Stat <= mtime
  BY WatchAssumption DEF TypeOK, Stat

LEMMA TypeStep == TypeOK /\ [Next]_vars => TypeOK'
<1> SUFFICES ASSUME TypeOK, [Next]_vars PROVE TypeOK'
  OBVIOUS
<1>0. ASSUME NEW point \in Points
      PROVE  [run EXCEPT !.at = point] \in [at : Points, mt : 0..MaxTime, plugin : BOOLEAN, events : Durations]
  BY DEF TypeOK
<1>n. NotRunning \in [at : Points, mt : 0..MaxTime, plugin : BOOLEAN, events : Durations]
  BY NoPlaysType, WatchAssumption DEF NotRunning, Points
<1>1. CASE Begin
  <2>1. PICK prev \in {meta, NoMeta}, hasRows \in {\E p \in Plays : spine[p].dur > 0, TRUE} :
            run' = [NotRunning EXCEPT !.mt = Stat, !.plugin = prev.plugin,
                        !.at = IF Skips(prev, Stat, hasRows) THEN "skip" ELSE "fetch"]
    BY <1>1 DEF Begin
  <2>2. prev.plugin \in BOOLEAN
    <3>1. meta.plugin \in BOOLEAN
      BY DEF TypeOK
    <3>2. NoMeta.plugin \in BOOLEAN
      BY DEF NoMeta
    <3>3. QED
      BY <3>1, <3>2
  <2>3. run' \in [at : Points, mt : 0..MaxTime, plugin : BOOLEAN, events : Durations]
    BY <1>n, <2>1, <2>2, StatType DEF NotRunning, Points
  <2>4. QED
    BY <1>1, <2>3 DEF Begin, TypeOK, source, pages
<1>2. CASE Fetch
  <2>1. CASE \E copy \in Copies : run' = [run EXCEPT !.at = "append", !.events = copy]
    <3>1. PICK copy \in Copies : run' = [run EXCEPT !.at = "append", !.events = copy]
      BY <2>1
    <3>2. copy \in Durations
      BY DEF TypeOK, Copies
    <3>3. run' \in [at : Points, mt : 0..MaxTime, plugin : BOOLEAN, events : Durations]
      BY <3>1, <3>2 DEF TypeOK, Points
    <3>4. QED
      BY <1>2, <3>3 DEF Fetch, TypeOK, source, pages
  <2>2. CASE Goto("absent")
    <3>1. run' = [run EXCEPT !.at = "absent"]
      BY <2>2 DEF Goto
    <3>2. run' \in [at : Points, mt : 0..MaxTime, plugin : BOOLEAN, events : Durations]
      BY <1>0, <3>1 DEF Points
    <3>3. QED
      BY <1>2, <3>2 DEF Fetch, TypeOK, source, pages
  <2>3. QED
    BY <1>2, <2>1, <2>2 DEF Fetch
<1>3. CASE Append
  <2>1. PICK rows \in EnrichedEvents : spine' = [p \in Plays |-> Upsert(spine[p], rows[p])]
    BY <1>3 DEF Append
  <2>2. spine' \in [Plays -> Rows]
    BY <2>1, EnrichedType DEF TypeOK, Upsert
  <2>3. run' \in [at : Points, mt : 0..MaxTime, plugin : BOOLEAN, events : Durations]
    BY <1>3, NoPlaysType DEF Append, TypeOK, Points
  <2>4. QED
    BY <1>3, <2>2, <2>3 DEF Append, TypeOK, source, pages
<1>4. CASE Backfill
  <2>1. PICK found \in SUBSET {p \in Plays : spine[p].dur > 0 /\ spine[p].lib = "Unknown"} :
            spine' = [p \in Plays |-> IF p \in found THEN [spine[p] EXCEPT !.lib = "known"] ELSE spine[p]]
    BY <1>4 DEF Backfill
  <2>2. spine' \in [Plays -> Rows]
    BY <2>1 DEF TypeOK, Rows, Library
  <2>3. QED
    BY <1>0, <1>4, <2>2 DEF Backfill, Goto, TypeOK, Points, source, pages
<1>5. CASE WriteDaily
  BY <1>0, <1>5, HistoryType DEF WriteDaily, Goto, TypeOK, Points, source
<1>6. CASE WriteProfiles
  BY <1>0, <1>6, HistoryType DEF WriteProfiles, Goto, TypeOK, Points, source
<1>7. CASE WritePeople
  BY <1>0, <1>7, HistoryType DEF WritePeople, Goto, TypeOK, Points, source
<1>8. ASSUME NEW ok \in BOOLEAN, NEW plugin \in BOOLEAN, Record(ok, plugin), raced' \in BOOLEAN
      PROVE  TypeOK'
  BY <1>n, <1>8 DEF Record, End, TypeOK, source, pages
<1>9. CASE RecordSuccess \/ RecordSkip \/ RecordAbsent \/ RecordFailure
  <2>1. run.plugin \in BOOLEAN
    BY DEF TypeOK
  <2>2. raced' \in BOOLEAN
    BY <1>9 DEF RecordSuccess, RecordSkip, RecordAbsent, RecordFailure, TypeOK
  <2>3. QED
    BY <1>8, <1>9, <2>1, <2>2 DEF RecordSuccess, RecordSkip, RecordAbsent, RecordFailure
<1>10. CASE Fails
  BY <1>0, <1>10 DEF Fails, Goto, TypeOK, Points, source, pages
<1>11. CASE Stops
  BY <1>n, <1>11 DEF Stops, End, TypeOK, source, pages
<1>12. CASE Upgrade
  BY <1>12, NoPlaysType, WatchAssumption DEF Upgrade, TypeOK, source
<1>13. CASE JellyfinSteps
  <2> USE WatchAssumption DEF TypeOK, Ours, pages
  <2>1. CASE Mount
    BY <2>1 DEF Mount
  <2>2. CASE InstallPlugin
    BY <2>2 DEF InstallPlugin, Written
  <2>3. CASE Checkpoint
    BY <2>3 DEF Checkpoint, Written
  <2>4. ASSUME NEW p \in Plays, Report(p) PROVE TypeOK'
    BY <2>4 DEF Report
  <2>5. ASSUME NEW p \in Plays, Prune(p) PROVE TypeOK'
    BY <2>5 DEF Prune
  <2>6. QED
    BY <1>13, <2>1, <2>2, <2>3, <2>4, <2>5 DEF JellyfinSteps
<1>14. CASE UNCHANGED vars
  BY <1>14 DEF vars, TypeOK, source, pages
<1>15. QED
  BY <1>1, <1>2, <1>3, <1>4, <1>5, <1>6, <1>7, <1>9, <1>10, <1>11, <1>12, <1>13, <1>14
     DEF Next, RunSteps

LEMMA TypeInit == Init => TypeOK
<1> SUFFICES ASSUME Init PROVE TypeOK
  OBVIOUS
<1>1. spine \in [Plays -> Rows]
  BY NoRowType DEF Init
<1>2. meta \in [row : BOOLEAN, mt : 0..MaxTime, ok : BOOLEAN, plugin : BOOLEAN]
  BY WatchAssumption DEF Init, NoMeta
<1>3. run \in [at : Points, mt : 0..MaxTime, plugin : BOOLEAN, events : Durations]
  BY NoPlaysType, WatchAssumption DEF Init, NotRunning, Points
<1>4. there \in BOOLEAN /\ table \in BOOLEAN /\ raced \in BOOLEAN
  BY DEF Init
<1>5. mtime \in 1..MaxTime
  BY WatchAssumption DEF Init
<1>6. /\ main \in Durations /\ wal \in Durations
      /\ daily \in Durations /\ profiles \in Durations /\ people \in Durations
  BY NoPlaysType DEF Init
<1>7. pruned \subseteq Plays
  BY DEF Init
<1>8. QED
  BY <1>1, <1>2, <1>3, <1>4, <1>5, <1>6, <1>7 DEF TypeOK

\* Every variable keeps its type.
THEOREM WatchTypeCorrect == SafeSpec => []TypeOK
  BY TypeInit, TypeStep, PTL DEF SafeSpec

-----------------------------------------------------------------------------
\* Jellyfin's steps: either the file gets a new time, and nothing is claimed of
\* the old one any more, or the file stays as it is.
LEMMA JellyfinStep == TypeOK /\ IInv /\ JellyfinSteps => IInv'
<1> SUFFICES ASSUME TypeOK, IInv, JellyfinSteps PROVE IInv'
  OBVIOUS
<1>1. UNCHANGED Ours /\ meta.mt \in Nat /\ run.mt \in Nat /\ mtime \in Nat
  BY WatchAssumption DEF JellyfinSteps, Mount, InstallPlugin, Checkpoint, Report, Prune, TypeOK
<1>2. ASSUME UNCHANGED <<main, mtime>>, pruned \subseteq pruned', LogIsAhead' PROVE IInv'
  <2>1. Live' \subseteq Live
    BY <1>2 DEF Live
  <2> USE <1>1, <1>2, <2>1 DEF IInv, Ours, pages, At
  <2>2. TimesArePast' /\ SkipKnowsRow'
    BY DEF TimesArePast, SkipKnowsRow
  <2>3. RunIsAhead'
    BY DEF RunIsAhead, Unwritten, Holds, History
  <2>4. RecordIsAhead'
    BY DEF RecordIsAhead, Holds, History
  <2>5. QED
    BY <2>2, <2>3, <2>4
<1>3. ASSUME Written, LogIsAhead' PROVE IInv'
  <2>1. mtime' = mtime + 1
    BY <1>3 DEF Written
  <2>2. ~Unwritten' /\ meta'.mt # mtime' /\ TimesArePast'
    BY <1>1, <2>1 DEF Ours, IInv, TimesArePast, Unwritten
  <2>3. SkipKnowsRow'
    BY <1>1 DEF Ours, IInv, SkipKnowsRow, At
  <2>4. QED
    BY <1>3, <2>2, <2>3 DEF IInv, RunIsAhead, RecordIsAhead
<1>4. CASE Mount
  BY <1>2, <1>4 DEF Mount, IInv, LogIsAhead, Live
<1>5. CASE InstallPlugin
  BY <1>3, <1>5 DEF InstallPlugin, IInv, LogIsAhead, Live
<1>6. CASE Checkpoint
  <2>1. LogIsAhead'
    BY <1>6 DEF Checkpoint, TypeOK, LogIsAhead, Live
  <2>2. QED
    BY <1>3, <1>6, <2>1 DEF Checkpoint
<1>7. ASSUME NEW p \in Plays, Report(p) PROVE IInv'
  <2>1. LogIsAhead'
    BY <1>7 DEF Report, TypeOK, IInv, LogIsAhead, Live
  <2>2. QED
    BY <1>2, <1>7, <2>1 DEF Report
<1>8. ASSUME NEW p \in Plays, Prune(p) PROVE IInv'
  <2>1. LogIsAhead'
    BY <1>8 DEF Prune, TypeOK, IInv, LogIsAhead, Live
  <2>2. QED
    BY <1>2, <1>8, <2>1 DEF Prune
<1>9. QED
  BY <1>4, <1>5, <1>6, <1>7, <1>8 DEF JellyfinSteps

\* The steps of a run leave the source alone.
LEMMA RunStep ==
    TypeOK /\ TypeOK' /\ IInv /\ (RunSteps \/ Fails \/ Stops \/ Upgrade) => IInv'
<1> SUFFICES ASSUME TypeOK, TypeOK', IInv, RunSteps \/ Fails \/ Stops \/ Upgrade PROVE IInv'
  OBVIOUS
<1>0. UNCHANGED source
  BY DEF RunSteps, Begin, Fetch, Append, Backfill, WriteDaily, WriteProfiles, WritePeople,
         RecordSuccess, RecordSkip, RecordAbsent, RecordFailure, Record, Fails, Stops, Upgrade
<1>1. LogIsAhead' /\ Live' = Live
  BY <1>0 DEF source, IInv, LogIsAhead, Live
<1>2. /\ meta.mt \in Nat /\ run.mt \in Nat /\ mtime \in Nat \ {0}
      /\ meta'.mt \in Nat /\ run'.mt \in Nat /\ mtime' = mtime
  BY <1>0, WatchAssumption DEF source, TypeOK
<1>n. run \in [at : Points, mt : 0..MaxTime, plugin : BOOLEAN, events : Durations]
  BY DEF TypeOK
<1>e. NotRunning.at = "idle" /\ NotRunning.mt = 0
  BY DEF NotRunning
\* What is claimed of the file when no run is under way, or one that has read nothing.
<1>3. ASSUME run'.at \in {"idle", "fetch", "absent", "failed"} PROVE RunIsAhead' /\ SkipKnowsRow'
  BY <1>3 DEF RunIsAhead, SkipKnowsRow, At
\* As long as the spine and the pages stay, so does what is claimed of the record.
<1>4. ASSUME UNCHANGED <<spine, pages, meta, raced>> PROVE RecordIsAhead'
  BY <1>0, <1>1, <1>4 DEF source, pages, IInv, RecordIsAhead, Holds, History
<1>5. CASE Begin
  <2>1. PICK prev \in {meta, NoMeta}, hasRows \in {\E p \in Plays : spine[p].dur > 0, TRUE} :
            run' = [NotRunning EXCEPT !.mt = Stat, !.plugin = prev.plugin,
                        !.at = IF Skips(prev, Stat, hasRows) THEN "skip" ELSE "fetch"]
    BY <1>5 DEF Begin
  <2>2. /\ run'.mt = Stat
        /\ run'.at = IF Skips(prev, Stat, hasRows) THEN "skip" ELSE "fetch"
    BY <2>1 DEF NotRunning
  <2>3. TimesArePast'
    BY <1>2, <1>5, <2>2, StatType DEF Begin, IInv, TimesArePast
  <2>4. RunIsAhead'
    BY <2>2 DEF RunIsAhead, At
  <2>5. SkipKnowsRow'
    BY <1>5, <2>2 DEF Begin, Skips, NoMeta, SkipKnowsRow, At
  <2>6. QED
    BY <1>1, <1>4, <1>5, <2>3, <2>4, <2>5 DEF Begin, IInv
<1>6. CASE Fetch
  <2>1. TimesArePast' /\ run'.mt = run.mt
    BY <1>2, <1>6, <1>n DEF Fetch, Goto, IInv, TimesArePast
  <2>2. CASE \E copy \in Copies : run' = [run EXCEPT !.at = "append", !.events = copy]
    <3>1. PICK copy \in Copies : run' = [run EXCEPT !.at = "append", !.events = copy]
      BY <2>2
    <3>2. Holds(copy)
      BY DEF IInv, LogIsAhead, Holds, Live, TypeOK, Copies
    <3>3. run'.at = "append" /\ run'.events = copy
      BY <1>n, <3>1
    <3>4. Holds(run.events)'
      BY <1>0, <1>1, <3>2, <3>3 DEF source, Holds
    <3>5. RunIsAhead' /\ SkipKnowsRow'
      BY <3>3, <3>4 DEF RunIsAhead, SkipKnowsRow, At
    <3>6. QED
      BY <1>1, <1>4, <1>6, <2>1, <3>5 DEF Fetch, IInv
  <2>3. CASE Goto("absent")
    <3>1. run'.at = "absent"
      BY <1>n, <2>3 DEF Goto
    <3>2. QED
      BY <1>1, <1>3, <1>4, <1>6, <2>1, <3>1 DEF Fetch, IInv
  <2>4. QED
    BY <1>6, <2>2, <2>3 DEF Fetch
<1>7. CASE Append
  <2>1. PICK rows \in EnrichedEvents : spine' = [p \in Plays |-> Upsert(spine[p], rows[p])]
    BY <1>7 DEF Append
  <2>2. \A p \in Plays : rows[p].dur = run.events[p] /\ rows[p].dur \in Nat
    BY EnrichedType, <1>n
  <2>3. run'.at = "backfill" /\ run'.mt = run.mt
    BY <1>7, <1>n DEF Append
  <2>4. ASSUME Unwritten PROVE Holds(History)'
    <3>1. Holds(run.events)
      BY <1>7, <2>4 DEF Append, IInv, RunIsAhead
    <3>2. \A p \in Live : main[p] \in Nat /\ main[p] <= rows[p].dur
      BY <2>2, <3>1 DEF Holds, Live, TypeOK
    <3>3. \A p \in Live : main[p] = 0 \/ spine'[p].dur = rows[p].dur
      BY <2>1, <2>2, <3>2 DEF Upsert, Live
    <3>4. \A p \in Live : spine'[p].dur \in Nat
      BY DEF Live, TypeOK, Rows
    <3>5. \A p \in Live : main[p] <= spine'[p].dur
      BY <3>2, <3>3, <3>4
    <3>6. QED
      BY <1>0, <1>1, <3>5 DEF source, Holds, History, Live
  <2>5. TimesArePast'
    BY <1>2, <1>7, <2>3 DEF Append, IInv, TimesArePast
  <2>6. Unwritten' => Unwritten
    BY <1>2, <1>7, <2>3 DEF Append, Unwritten
  <2>7. RunIsAhead' /\ SkipKnowsRow'
    BY <2>3, <2>4, <2>6 DEF RunIsAhead, SkipKnowsRow, At
  <2>8. RecordIsAhead'
    <3>1. UNCHANGED <<pages, meta, raced>>
      BY <1>7 DEF Append
    <3>2. QED
      BY <1>0, <1>1, <2>4, <3>1 DEF source, pages, IInv, RecordIsAhead, Unwritten, Holds
  <2>9. QED
    BY <1>1, <2>5, <2>7, <2>8 DEF IInv
<1>8. CASE Backfill
  <2>1. PICK found \in SUBSET {p \in Plays : spine[p].dur > 0 /\ spine[p].lib = "Unknown"} :
            spine' = [p \in Plays |-> IF p \in found THEN [spine[p] EXCEPT !.lib = "known"] ELSE spine[p]]
    BY <1>8 DEF Backfill
  <2>2. \A p \in Plays : spine[p] \in Rows
    BY DEF TypeOK
  <2>3. \A p \in Plays : spine'[p].dur = spine[p].dur
    BY <2>1, <2>2 DEF Rows
  <2>4. History' = History
    BY <2>3 DEF History
  <2>5. run'.at = "daily" /\ run'.mt = run.mt
    BY <1>8, <1>n DEF Backfill, Goto
  <2>6. UNCHANGED <<pages, meta, raced, main>>
    BY <1>0, <1>8 DEF Backfill, source
  <2>7. TimesArePast' /\ SkipKnowsRow'
    BY <1>2, <2>5, <2>6 DEF IInv, TimesArePast, SkipKnowsRow, At
  <2>8. RunIsAhead'
    BY <1>1, <1>2, <1>8, <2>4, <2>5, <2>6 DEF Backfill, At, IInv, RunIsAhead, Unwritten, Holds
  <2>9. RecordIsAhead'
    BY <1>1, <1>2, <2>4, <2>6 DEF pages, IInv, RecordIsAhead, Holds
  <2>10. QED
    BY <1>1, <2>7, <2>8, <2>9 DEF IInv
\* A page is written: the spine and the other pages stay.
<1>9. ASSUME NEW point \in Points \ {"append", "skip"}, Goto(point),
             UNCHANGED <<spine, meta, raced>>
      PROVE  /\ run'.at = point /\ TimesArePast' /\ SkipKnowsRow'
             /\ Unwritten' => Unwritten
             /\ Holds(History) => Holds(History)'
  <2>1. run'.at = point /\ run'.mt = run.mt
    BY <1>9, <1>n DEF Goto
  <2>2. Unwritten' => Unwritten
    BY <1>2, <1>9, <2>1 DEF Unwritten
  <2>3. Holds(History) => Holds(History)'
    BY <1>0, <1>1, <1>9 DEF source, Holds, History
  <2>4. TimesArePast' /\ SkipKnowsRow'
    BY <1>2, <1>9, <2>1 DEF IInv, TimesArePast, SkipKnowsRow, At
  <2>5. QED
    BY <2>1, <2>2, <2>3, <2>4
<1>10. CASE WriteDaily
  <2>1. /\ run'.at = "profiles" /\ TimesArePast' /\ SkipKnowsRow'
        /\ Unwritten' => Unwritten
        /\ Holds(History) => Holds(History)'
    BY <1>9, <1>10 DEF WriteDaily, Points
  <2>2. Unwritten => Holds(History)
    BY <1>10 DEF WriteDaily, At, IInv, RunIsAhead
  <2>3. Holds(History) => Holds(daily)'
    BY <1>0, <1>1, <1>10 DEF WriteDaily, source, Holds
  <2>4. RunIsAhead'
    BY <2>1, <2>2, <2>3 DEF RunIsAhead, At
  <2>5. UNCHANGED <<spine, profiles, people, meta, raced, main>> /\ mtime' = mtime
    BY <1>0, <1>10 DEF WriteDaily, source
  <2>6. RecordIsAhead'
    BY <1>1, <2>1, <2>2, <2>3, <2>5 DEF IInv, RecordIsAhead, Unwritten, Holds
  <2>7. QED
    BY <1>1, <2>1, <2>4, <2>6 DEF IInv
<1>11. CASE WriteProfiles
  <2>1. /\ run'.at = "people" /\ TimesArePast' /\ SkipKnowsRow'
        /\ Unwritten' => Unwritten
        /\ Holds(History) => Holds(History)'
    BY <1>9, <1>11 DEF WriteProfiles, Points
  <2>2. Unwritten => Holds(History) /\ Holds(daily)
    BY <1>11 DEF WriteProfiles, At, IInv, RunIsAhead
  <2>3. Holds(History) => Holds(profiles)'
    BY <1>0, <1>1, <1>11 DEF WriteProfiles, source, Holds
  <2>4. UNCHANGED <<spine, daily, people, meta, raced, main>> /\ mtime' = mtime
    BY <1>0, <1>11 DEF WriteProfiles, source
  <2>5. RunIsAhead'
    BY <1>1, <2>1, <2>2, <2>3, <2>4 DEF RunIsAhead, At, Holds
  <2>6. RecordIsAhead'
    BY <1>1, <2>1, <2>2, <2>3, <2>4 DEF IInv, RecordIsAhead, Unwritten, Holds
  <2>7. QED
    BY <1>1, <2>1, <2>5, <2>6 DEF IInv
<1>12. CASE WritePeople
  <2>1. /\ run'.at = "finish" /\ TimesArePast' /\ SkipKnowsRow'
        /\ Unwritten' => Unwritten
        /\ Holds(History) => Holds(History)'
    BY <1>9, <1>12 DEF WritePeople, Points
  <2>2. Unwritten => Holds(History) /\ Holds(daily) /\ Holds(profiles)
    BY <1>12 DEF WritePeople, At, IInv, RunIsAhead
  <2>3. Holds(History) => Holds(people)'
    BY <1>0, <1>1, <1>12 DEF WritePeople, source, Holds
  <2>4. UNCHANGED <<spine, daily, profiles, meta, raced, main>> /\ mtime' = mtime
    BY <1>0, <1>12 DEF WritePeople, source
  <2>5. RunIsAhead'
    BY <1>1, <2>1, <2>2, <2>3, <2>4 DEF RunIsAhead, At, Holds
  <2>6. RecordIsAhead'
    BY <1>1, <2>1, <2>2, <2>3, <2>4 DEF IInv, RecordIsAhead, Unwritten, Holds
  <2>7. QED
    BY <1>1, <2>1, <2>5, <2>6 DEF IInv
\* A run ends, recorded or not.
<1>13. CASE RecordSuccess \/ RecordSkip \/ RecordAbsent \/ RecordFailure
  <2>1. PICK ok \in BOOLEAN, plugin \in BOOLEAN : Record(ok, plugin)
    BY <1>13, <1>n DEF RecordSuccess, RecordSkip, RecordAbsent, RecordFailure
  <2>2. run'.at = "idle" /\ run'.mt = 0 /\ meta'.mt = run.mt /\ UNCHANGED <<spine, pages, main>>
    BY <1>0, <1>e, <2>1 DEF Record, End, source
  <2>3. TimesArePast'
    BY <1>2, <2>2 DEF IInv, TimesArePast
  <2>4. RunIsAhead' /\ SkipKnowsRow'
    BY <1>3, <2>2
  <2>5. CASE RecordSuccess
    <3>1. Unwritten => Holds(History) /\ Holds(daily) /\ Holds(profiles) /\ Holds(people)
      BY <2>5 DEF RecordSuccess, At, IInv, RunIsAhead
    <3>2. QED
      BY <1>1, <1>2, <2>2, <2>3, <2>4, <3>1
         DEF pages, IInv, RecordIsAhead, Unwritten, Holds, History
  <2>6. CASE RecordSkip
    <3>1. meta.row /\ meta.ok /\ meta.mt = run.mt /\ raced' = raced
      BY <2>6 DEF RecordSkip, IInv, SkipKnowsRow
    <3>2. QED
      BY <1>1, <1>2, <2>2, <2>3, <2>4, <3>1 DEF pages, IInv, RecordIsAhead, Holds, History
  <2>7. CASE RecordAbsent
    <3>1. raced' = (run.mt # 0)
      BY <2>7 DEF RecordAbsent
    <3>2. RecordIsAhead'
      BY <1>2, <2>2, <3>1 DEF RecordIsAhead
    <3>3. QED
      BY <1>1, <2>3, <2>4, <3>2 DEF IInv
  <2>8. CASE RecordFailure
    <3>1. meta'.ok = FALSE
      BY <2>8 DEF RecordFailure, Record
    <3>2. RecordIsAhead'
      BY <3>1 DEF RecordIsAhead
    <3>3. QED
      BY <1>1, <2>3, <2>4, <3>2 DEF IInv
  <2>9. QED
    BY <1>13, <2>5, <2>6, <2>7, <2>8
<1>14. CASE Fails
  <2>1. run'.at = "failed" /\ run'.mt = run.mt
    BY <1>14, <1>n DEF Fails, Goto
  <2>2. TimesArePast'
    BY <1>2, <1>14, <2>1 DEF Fails, IInv, TimesArePast
  <2>3. QED
    BY <1>1, <1>3, <1>4, <1>14, <2>1, <2>2 DEF Fails, IInv
<1>15. CASE Stops
  <2>1. run'.at = "idle" /\ run'.mt = 0
    BY <1>15, <1>e DEF Stops, End
  <2>2. TimesArePast'
    BY <1>2, <1>15, <2>1 DEF Stops, IInv, TimesArePast
  <2>3. QED
    BY <1>1, <1>3, <1>4, <1>15, <2>1, <2>2 DEF Stops, IInv
<1>16. CASE Upgrade
  <2>1. run' = run /\ run.at = "idle"
    BY <1>16 DEF Upgrade, At
  <2>2. meta'.mt = 0
    BY <1>16 DEF Upgrade, TypeOK
  <2>3. TimesArePast'
    BY <1>2, <2>1, <2>2 DEF IInv, TimesArePast
  <2>4. RecordIsAhead'
    BY <1>2, <2>2 DEF RecordIsAhead
  <2>5. QED
    BY <1>1, <1>3, <2>1, <2>3, <2>4 DEF IInv
<1>17. QED
  BY <1>5, <1>6, <1>7, <1>8, <1>10, <1>11, <1>12, <1>13, <1>14, <1>15, <1>16 DEF RunSteps

\* The inductive invariant of the watch job: what a run has read and written so
\* far is ahead of what the file said when the run began.
THEOREM WatchInvariant == SafeSpec => [](TypeOK /\ IInv)
<1>1. Init => TypeOK /\ IInv
  <2> SUFFICES ASSUME Init, TypeOK PROVE IInv
    BY TypeInit
  <2>1. meta.mt = 0 /\ run.at = "idle" /\ run.mt = 0 /\ mtime = 1 /\ meta.row = FALSE
    BY DEF Init, NoMeta, NotRunning
  <2>2. LogIsAhead
    <3>1. \A p \in Plays : main[p] = 0 /\ wal[p] = 0
      BY DEF Init, NoPlays
    <3>2. ASSUME NEW p \in Plays PROVE main[p] <= wal[p]
      <4>1. main[p] = 0 /\ wal[p] = 0
        BY <3>1
      <4>2. QED
        BY <4>1
    <3>3. QED
      BY <3>2 DEF LogIsAhead, Live
  <2>3. QED
    BY <2>1, <2>2 DEF IInv, TimesArePast, RunIsAhead, Unwritten, RecordIsAhead, SkipKnowsRow, At
<1>2. TypeOK /\ IInv /\ [Next]_vars => (TypeOK /\ IInv)'
  <2> SUFFICES ASSUME TypeOK, IInv, [Next]_vars PROVE TypeOK' /\ IInv'
    OBVIOUS
  <2>1. TypeOK'
    BY TypeStep
  <2>2. CASE UNCHANGED vars
    <3> USE <2>2 DEF vars, source, pages, IInv
    <3>1. Live' = Live /\ History' = History
      BY DEF Live, History
    <3>2. LogIsAhead' /\ TimesArePast' /\ SkipKnowsRow'
      BY <3>1 DEF LogIsAhead, TimesArePast, SkipKnowsRow, At
    <3>3. RunIsAhead'
      BY <3>1 DEF RunIsAhead, Unwritten, At, Holds
    <3>4. RecordIsAhead'
      BY <3>1 DEF RecordIsAhead, Holds
    <3>5. QED
      BY <2>1, <3>2, <3>3, <3>4
  <2>3. CASE Next
    BY <2>1, <2>3, JellyfinStep, RunStep DEF Next
  <2>4. QED
    BY <2>1, <2>2, <2>3
<1>3. QED
  BY <1>1, <1>2, PTL DEF SafeSpec

\* A run that is skipped has nothing to do: through failures, crashes, plays
\* that go on and a plugin that comes and goes, what the plugin's file says is
\* on every page as long as the file has the time of the last success.
THEOREM SkipsAreSound == SafeSpec => []SkipIsSound
<1>1. TypeOK /\ IInv => SkipIsSound
  BY DEF IInv, RecordIsAhead, SkipIsSound, Skipped, OnEveryPage, Holds, History, Live
<1>2. QED
  BY <1>1, WatchInvariant, PTL

\* Every recorded success leaves pages that agree with the spine.
THEOREM SuccessMeansAgreement == SafeSpec => []PagesAgree
<1>1. Init => RunAgrees
  BY DEF Init, NotRunning, RunAgrees
<1>2. TypeOK /\ RunAgrees /\ [Next]_vars => RunAgrees'
  <2> SUFFICES ASSUME TypeOK, RunAgrees, [Next]_vars PROVE RunAgrees'
    OBVIOUS
  <2> USE DEF RunAgrees, At
  <2>n. run \in [at : Points, mt : 0..MaxTime, plugin : BOOLEAN, events : Durations]
    BY DEF TypeOK
  <2>1. CASE JellyfinSteps \/ UNCHANGED vars
    BY <2>1 DEF JellyfinSteps, Mount, InstallPlugin, Checkpoint, Report, Prune, Ours, vars, pages,
                History
  <2>2. ASSUME run'.at \in {"idle", "skip", "fetch", "append", "backfill", "daily", "absent", "failed"}
        PROVE  RunAgrees'
    BY <2>2
  <2>3. CASE Begin \/ Fetch \/ Append \/ Backfill \/ Fails \/ Stops
    <3>1. CASE Begin
      <4>1. run'.at \in {"skip", "fetch"}
        BY <3>1 DEF Begin, NotRunning
      <4>2. QED
        BY <2>2, <4>1
    <3>2. CASE Fetch
      <4>1. run'.at \in {"append", "absent"}
        BY <3>2, <2>n DEF Fetch, Goto
      <4>2. QED
        BY <2>2, <4>1
    <3>3. CASE Append \/ Backfill \/ Fails
      <4>1. run'.at \in {"backfill", "daily", "failed"}
        BY <3>3, <2>n DEF Append, Backfill, Fails, Goto
      <4>2. QED
        BY <2>2, <4>1
    <3>4. CASE Stops
      <4>1. run'.at = "idle"
        BY <3>4 DEF Stops, End, NotRunning
      <4>2. QED
        BY <2>2, <4>1
    <3>5. QED
      BY <2>3, <3>1, <3>2, <3>3, <3>4
  <2>4. CASE RecordSuccess \/ RecordSkip \/ RecordAbsent \/ RecordFailure
    <3>1. run'.at = "idle"
      BY <2>4 DEF RecordSuccess, RecordSkip, RecordAbsent, RecordFailure, Record, End, NotRunning
    <3>2. QED
      BY <2>2, <3>1
  <2>5. CASE Upgrade
    BY <2>5 DEF Upgrade
  <2>6. CASE WriteDaily
    BY <2>6, <2>n DEF WriteDaily, Goto, History
  <2>7. CASE WriteProfiles
    BY <2>7, <2>n DEF WriteProfiles, Goto, History
  <2>8. CASE WritePeople
    BY <2>8, <2>n DEF WritePeople, Goto, History
  <2>9. QED
    BY <2>1, <2>3, <2>4, <2>5, <2>6, <2>7, <2>8 DEF Next, RunSteps
<1>3. RunAgrees => PagesAgree
  BY DEF RunAgrees, PagesAgree, At
<1>4. QED
  BY <1>1, <1>2, <1>3, WatchTypeCorrect, PTL DEF SafeSpec
-----------------------------------------------------------------------------
(***************************************************************************)
(* What a table has shown stays on it.                                     *)
(***************************************************************************)
\* The tables show no play that the spine has not.
ShownIsKept ==
    \A p \in Plays : daily[p] > 0 \/ profiles[p] > 0 \/ people[p] > 0 => spine[p].dur > 0

\* The spine forgets no play: an upsert writes only plays that were read, and a
\* backfill only their libraries.
LEMMA SpineStep ==
    ASSUME TypeOK, [Next]_vars, NEW p \in Plays, spine[p].dur > 0
    PROVE  spine'[p].dur > 0
<1>1. CASE Append
  <2>1. PICK rows \in EnrichedEvents : spine' = [q \in Plays |-> Upsert(spine[q], rows[q])]
    BY <1>1 DEF Append
  <2>2. spine'[p] = spine[p] \/ (rows[p].dur > 0 /\ spine'[p] = rows[p])
    BY <2>1 DEF Upsert
  <2>3. QED
    BY <2>2
<1>2. CASE Backfill
  <2>1. spine'[p] = spine[p] \/ spine'[p] = [spine[p] EXCEPT !.lib = "known"]
    BY <1>2 DEF Backfill
  <2>2. spine[p] \in Rows
    BY DEF TypeOK
  <2>3. QED
    BY <2>1, <2>2 DEF Rows
<1>3. CASE ~Append /\ ~Backfill
  <2>1. UNCHANGED spine
    BY <1>3 DEF Next, RunSteps, Begin, Fetch, WriteDaily, WriteProfiles, WritePeople, RecordSuccess,
       RecordSkip, RecordAbsent, RecordFailure, Record, Fails, Stops, Upgrade, JellyfinSteps, Mount,
       InstallPlugin, Checkpoint, Report, Prune, Ours, vars
  <2>2. QED
    BY <2>1
<1>4. QED
  BY <1>1, <1>2, <1>3

\* A table is written from the spine or left alone; only an upgrade empties one.
LEMMA TableStep ==
    ASSUME TypeOK, [Next]_vars
    PROVE  /\ daily' \in {daily, History}
           /\ profiles' \in {profiles, History}
           /\ people' \in {people, History} \/ (Upgrade /\ people' = NoPlays)
<1>1. CASE WriteDaily \/ WriteProfiles \/ WritePeople
  BY <1>1 DEF WriteDaily, WriteProfiles, WritePeople
<1>2. CASE Upgrade
  BY <1>2 DEF Upgrade
<1>3. CASE ~(WriteDaily \/ WriteProfiles \/ WritePeople \/ Upgrade)
  <2>1. UNCHANGED pages
    BY <1>3 DEF Next, RunSteps, Begin, Fetch, Append, Backfill, RecordSuccess, RecordSkip,
       RecordAbsent, RecordFailure, Record, Fails, Stops, JellyfinSteps, Mount, InstallPlugin,
       Checkpoint, Report, Prune, Ours, vars
  <2>2. QED
    BY <2>1 DEF pages
<1>4. QED
  BY <1>1, <1>2, <1>3

LEMMA ShownStep == TypeOK /\ ShownIsKept /\ [Next]_vars => ShownIsKept'
<1> SUFFICES ASSUME TypeOK, ShownIsKept, [Next]_vars, NEW p \in Plays,
                    daily'[p] > 0 \/ profiles'[p] > 0 \/ people'[p] > 0
             PROVE  spine'[p].dur > 0
  BY DEF ShownIsKept
<1>1. History[p] = spine[p].dur /\ NoPlays[p] = 0
  BY DEF History, NoPlays
<1>2. spine[p].dur > 0
  BY <1>1, TableStep DEF ShownIsKept
<1>3. QED
  BY <1>2, SpineStep

\* A play that a table has once shown is never missing from it again, however
\* the plugin prunes, and wherever runs fail or stop; an upgrade excepted.
THEOREM HistoryDoesOutlive == SafeSpec => HistoryOutlivesPlugin
<1>1. Init => ShownIsKept
  BY DEF Init, ShownIsKept, NoPlays
<1>2. ASSUME TypeOK, ShownIsKept, [Next]_vars, NEW p \in Plays
      PROVE  /\ spine[p].dur > 0 => spine'[p].dur > 0
             /\ daily[p] > 0 => daily'[p] > 0
             /\ profiles[p] > 0 => profiles'[p] > 0
             /\ people[p] > 0 => people'[p] > 0 \/ Upgrade
  <2>1. History[p] = spine[p].dur
    BY DEF History
  <2>2. daily[p] > 0 \/ profiles[p] > 0 \/ people[p] > 0 => History[p] > 0
    BY <2>1, <1>2 DEF ShownIsKept
  <2>3. spine[p].dur > 0 => spine'[p].dur > 0
    BY <1>2, SpineStep
  <2>4. daily[p] > 0 => daily'[p] > 0
    BY <1>2, <2>2, TableStep
  <2>5. profiles[p] > 0 => profiles'[p] > 0
    BY <1>2, <2>2, TableStep
  <2>6. people[p] > 0 => people'[p] > 0 \/ Upgrade
    BY <1>2, <2>2, TableStep
  <2>7. QED
    BY <2>3, <2>4, <2>5, <2>6
<1>3. TypeOK /\ ShownIsKept /\ [Next]_vars =>
        [\A p \in Plays :
            /\ spine[p].dur > 0 => spine'[p].dur > 0
            /\ daily[p] > 0 => daily'[p] > 0
            /\ profiles[p] > 0 => profiles'[p] > 0
            /\ people[p] > 0 => people'[p] > 0 \/ Upgrade]_vars
  BY <1>2
<1>4. QED
  BY <1>1, <1>3, ShownStep, WatchTypeCorrect, PTL DEF SafeSpec, HistoryOutlivesPlugin
=============================================================================
