# ephyra, in TLA+

A verification development for ephyra, a read-only companion to a Jellyfin
server: one Go process that copies Jellyfin's two SQLite files on a schedule,
keeps derived tables in a SQLite file of its own, serves them as JSON to an
embedded web page, and relays what is playing now over server-sent events.

Paths below are relative to `src/`. Every definition is read off the code; the
documents are quoted only where the code disagrees with them.

## 1. The system

### Components

| Component | State it keeps | Operations | What makes it correct |
|---|---|---|---|
| Now Playing hub (`internal/live/hub.go`) | map of subscribers with a buffered channel each, the stop channel of the poll loop, the cached snapshot and its age, the server's name, all under one mutex | Prime, Subscribe / unsub, Publish, Snapshot, Close, the poll loop | no channel is closed twice or sent to after its close; watched means polled; a lagging stream is cut off, never skipped; clients come to show what the hub has published last |
| Session diff (`internal/live/normalize.go`) | none | normalize, changed | a change a viewer would see is published |
| Stream and snapshot endpoints (`internal/api/nowplaying*.go`, `profile_overview.go`) | one goroutine per request | subscribe, first frame, relay, heartbeat, end | each stream gets a first frame and ends when its channel is closed |
| Page hook (`web/src/live/useNowPlaying.ts`) | what the browser shows | ask and listen, apply a frame, reconnect, hide / show, unmount | one stream at a time and none left behind; a page that heard all of it shows what was published last |
| Watch job (`scheduler.RunWatchOnce`, `store/spine.go`, `writes_watch.go`, `writes_profile.go`, `writes_people.go`) | the spine `playback_events`, the tables built from it, a row of `refresh_meta` | stat, skip or fetch, append, backfill, three rebuilds, record | a skipped run had nothing to do; a recorded success means the pages agree; quiet data reaches every page |
| Library job (`scheduler.RunLibraryOnce`, `store/writes.go`, `dims.go`) | the `agg_*` tables of the library pages, `dim_credit`, `dim_played`, a row of `refresh_meta` | stat, skip or fetch, replace, two upserts, record | a skipped run had nothing to do |
| File source (`internal/source/file`) | a private copy of a database, per read | mtime, library facts, plays, enrichment | a reader sees a state that Jellyfin's file, with or without its log, had |
| Store (`internal/store/store.go`, `migrations/`) | one SQLite connection, `user_version` | open, migrate, `refresh_meta` | a migration is applied once or not at all |
| Scheduler loop (`scheduler.Run`, `api/refresh.go`) | two tickers, a queue of eight triggers | startup run, tick, trigger, `all` | a job never overlaps itself; a trigger that was accepted is run; the library job comes before the watch job that reads its tables |
| Link resolver (`scheduler/refs.go`, `store/refs.go`) | `jf_refs`: resolved ids, misses, next try | due names, hit, miss, stop at an error | a name that Jellyfin has is linked in the end, whatever was missed before, as long as watch runs reach it |
| Art cache (`internal/api/art.go`) | byte-budgeted LRU, requests between a look and a store | get, fetch, put, evict | the byte count is the sum of the entries and within the budget; only what Jellyfin answered, to its end or to the limit, is kept |
| Play history (`store.ReadPlays`, `api/profile_plays.go`) | a cursor in the client | next page | no play is repeated or lost between pages |
| Aggregates (`internal/aggregate`) | none | pure functions from rows to rows | pages that sum the same plays along different ways agree; their keys are unique (they are not: finding 6) |
| Read queries and handlers (`store/reads*.go`, `internal/api`) | none | SELECT, JSON | they change nothing |
| Jellyfin client, configuration, `main.go`, pages | none worth a model | | |

### How they interact

* Jellyfin writes its files whenever it likes, through a write-ahead log: a play
  is in the log long before the file's time changes. The two jobs read a copy,
  under a skip rule that compares the file's time with the one in `refresh_meta`.
* A job is a sequence of transactions on the single SQLite connection. Each may
  fail, and the process may stop between any two of them. Nothing but
  `refresh_meta` and the tables themselves says how far a run got.
* The library job writes `dim_credit` and `dim_played`, which the watch job
  reads for the charts of people. One goroutine runs both, in an order that the
  tickers and a queue of triggers decide.
* The watch job writes tables whose ranges were cut on the day of the run, and
  tables that are cut when a page is read; the two are shown side by side.
* The browser asks for a snapshot and listens to a stream of them at once, and
  does so again whenever its tab comes into view.
* The hub is shared memory: handlers, plain requests, poll loops and the
  shutdown meet at its mutex. A poll and a `Snapshot` call let go of it while
  they wait for Jellyfin, and a poll lets go of it again between storing its
  result and publishing it. Event and stop channels are made, closed and
  deleted by different goroutines.

### What is hard

Concurrency (three places close an event channel; a loop may outlive the
subscriber it was started for; two loops may overlap), order (a first frame
crosses the events already buffered; a poll stores in one order and publishes
in another), failure (four transactions, a recorded time that is older than
what was read, an upgrade that empties tables), time (the log is not the file),
and limits (a full buffer, a full queue, a byte budget, a table key).
`PROJECT.json` lists each of these at the line where it bites, with the
property that covers it or the reason none does yet.

## 2. Modules

| Module | What it models | Used by |
|---|---|---|
| `HubSubs` | the hub's subscriber map, channels, stop channel and loop lifetimes, with the handlers and loops that hold them | everything below about the hub |
| `Broadcast` | what Subscribe / Publish promise: one log, members that see it from where they joined, without a gap, until they are cut off | abstract specification |
| `HubHistory` | `HubSubs` with history variables; shown to implement `Broadcast` | |
| `LiveHub` | the whole Now Playing subsystem: cached snapshot, polls and requests that wait for Jellyfin, what each client shows; shown to implement `HubSubs` | |
| `LiveHubHistory` | `LiveHub` with the history variables of `HubHistory`; shown to implement `Broadcast` | |
| `WatchJob` | the watch job against a plugin that reports, prunes, checkpoints and disappears | |
| `LibraryJob` | the library job against Jellyfin's item database | `Scheduler` |
| `Scheduler` | the loop that runs both jobs: startup, two tickers, the queue of triggers, failures, restarts, an upgrade | |
| `Plays` | the plays the aggregates read, with the facts of their last enrichment | the five below |
| `Profile`, `WatchStats`, `People` | the tables of `internal/aggregate`, as functions of the plays and the day | `ReadProfile`, `ProfilePages` |
| `ReadProfile` | what a profile page reads from its tables | `ProfilePages` |
| `ProfilePages` | the runs that write these tables, and the days on which they are read | |
| `PlayHistory` | the cursor of the play list over a spine that changes between two pages | |
| `ArtCache` | the image proxy and its byte-budgeted LRU | |
| `PageHook` | the Now Playing page in the browser | |
| `LinkResolver` | the names that are looked up in Jellyfin, with their backoff | |
| `AllPages` | `ProfilePages`, `ArtCache`, `PlayHistory`, `PageHook` and `LinkResolver` side by side | |
| `HubProofs` | the theorems of `HubSubs` and `HubHistory` | `LiveHubProofs` |
| `LiveHubProofs` | the theorems of `LiveHub` and `LiveHubHistory` | |
| `WatchJobProofs` | the theorems of `WatchJob` | |
| `SchedulerProofs` | the theorems of `LibraryJob` and, by way of them, of `Scheduler` | |
| `SumTheorems` | that the community modules' sum of a function over a finite set is a sum | `BrowserProofs`, `ProfilePagesProofs` |
| `BrowserProofs` | the theorems of `PageHook`, `PlayHistory`, `ArtCache` and `LinkResolver` | `AllPagesProofs` |
| `ProfilePagesProofs` | the theorems of `ProfilePages` and of the tables it is made of | `AllPagesProofs` |
| `AllPagesProofs` | that each part of `AllPages` keeps its own specification, and so its theorems | |
| `MCHubSubs`, `MCHubHistory`, `MCLiveHub`, `MCLiveHubHistory`, `MCWatchJob`, `MCJobs`, `MCProfilePages`, `MCPages` | the instances for TLC | |

The refinement chain is

    LiveHubHistory  =>  HubHistory  =>  Broadcast
          |                  |
          |                  |             (the same actions, with history)
          |                  |
       LiveHub      =>    HubSubs

    Scheduler  =>  LibraryJob       (the job alone, whatever starts its runs)

### HubSubs: state and actions

`subs`, `chan`, `closed`, `stop`, `stopped`, `loop` are `h.subs`, the buffered
channels, the closed event channels, `h.stop`, the closed stop channels, and
the goroutines running `pollLoop`. A loop and the stop channel made for it have
one name. `conn` says where a stream handler is: before `Subscribe`, between it
and its deferred `unsub`, or after.

| Action | Code |
|---|---|
| `Subscribe` | `Hub.Subscribe`: insert, and start a loop when the map then has one entry |
| `Unsub` (by `EndOfStream` or `ClientGone`) | the closure `Subscribe` returns, under `sync.Once`: close and delete the channel if still there, stop the loop when the map is empty |
| `Receive` | one turn of the select in `nowPlayingStream` |
| `LoopPublish` | `Hub.Publish`: a non-blocking send to each; whoever is full is closed and deleted. `h.stop` is left alone, as in the code |
| `LoopReturn` | the select of `pollLoop` sees its stop channel closed |
| `Close` | `Hub.Close`; nothing remembers that it ran |

A step is one hold of the mutex or one channel operation. In Go a send on, or a
second close of, a closed channel panics: in the model the step goes on, and
`NothingNamedIsClosed` says that no entry it could happen to is closed.

### LiveHub: state and actions

Adds `server`, `snap`, `fresh` (`h.server`, `h.snap`, whether `h.snapAt` is within
the interval), the local variables of each poll loop (`poll`) and of each
`Snapshot` call (`call`), and what each client shows (`view`). `owner`, `told` and
`contested` are history: the loop that stored `h.snap` and has not published it
yet, the connections that were sent it, and whether another loop was yet to
publish when it was stored.

`Snapshot` is four actions, since it lets go of the mutex while it waits:
answered from the cache, asked, failed, stored. A stream's call starts when its
handler has subscribed. `pollOnce` is `PollServer`, `PollFails` or
`PollSucceeds`, and `PollPublish`, because the code reads the server's name,
stores under the mutex, and publishes in three separate steps. `Fallback` is
`degraded()`, `Changed` is `changed()`. What Jellyfin reports is a number
chosen at the moment it is used, so a slow and stale answer is among the
choices; `changed()` is a threshold on that number, as the code ignores small
moves of the playback position, so "not changed" and "equal" differ when
`Threshold` is above 1.

`LiveHubHistory` writes down what is published (`log`), where in the log each
stream was subscribed and cut off (`from`, `till`), what its handler took
(`seen`) and whom `Publish` dropped (`dropped`). No action reads this history, so erasing it leaves a behaviour of
`LiveHub`; the actions that put nothing into a channel and take nothing out are
`Quiet`.

### WatchJob and LibraryJob: state and actions

A step of a job is one transaction of the store or one read of the source; the
program counter `run.at` names the next one, and `run` has the local variables
of `RunWatchOnce`. `Fails` is the error return of any of these, after which the
failure is recorded; `Stops` is a crash, a cancelled context, or a `refresh_meta`
row that could not be written, at any point.

`main` and `wal` are what the file says without and with its log. A read may
give either (`Copies`): direct reads use no log, and the private copy is made of
one file after the other. `Report` lengthens a play in the log, `Checkpoint`
moves the log to the file and gives it a new time, `Prune` is the plugin's
retention. `Enriched` has the three outcomes of `enrichPlaybackEvents` for one
item and `Raw` the one for all when Jellyfin's own file cannot be read;
`Upsert` is the `ON CONFLICT DO UPDATE` of `AppendPlaybackEvents`. The pages are
represented by what they were built from, that is by the durations of the plays
they show.

`Upgrade` is a start with migration `0007` to apply. It may happen at any time
and more than once, which is more than an installation does: whatever holds
with it, holds without.

`raced` and `failure` are history. `raced` marks the one case in which the code
does not promise what `SkipIsSound` says: the run found the file's time, and
then no plugin table in it.

### Scheduler: state and actions

`queue`, `ticks` and `todo` are the trigger channel, the ticker channels (each
holds one tick) and where the goroutine of `Run` is: the job under way and the
one after it. `TakeTick` and `TakeTrigger` are the cases of its select;
`Trigger` is the non-blocking send of `/api/refresh`, which answers the same
whether there was room or not. A library run is `LibraryJob`, step by step, and
each of its steps is one here; of the watch run there is the skip, the building
of the people tables from `dim_credit`, and the row it records. `Crash` empties
what is in memory and starts both jobs again, with migration `0007` to apply at
most once. `owed`, `asked` and `missed` are history: requests that were queued,
all requests, and whether a library run has failed since the upgrade.

### The pages: Plays, Profile, WatchStats, People, ReadProfile, ProfilePages

A slice of rows is a set of rows or a function from their key, as the code's
maps are; the sort that makes a slice of it again is left out except where it
decides what is kept (`Best`). A float that the code obtains by a division is
the pair of numbers it divides, and is compared without dividing.

`ProfilePages` steps through the transactions of a run: `RunBegins` appends or
replaces one play, `WriteWatch` and `WriteProfiles` rebuild the tables,
`WriteProfilesFails` is the rollback when two rows have one key, and `Midnight`
is what makes a table old. A play is `full` (Jellyfin knows the item), `gone` or
`unread` (its file could not be opened), so that enrichment which changes from
run to run is among the inputs.

### PlayHistory, ArtCache, PageHook, LinkResolver

* `PlayHistory`: a row's place in `rows` is its rowid. `ReadPlays` is the query
  with its limit of one more than a page; `AppendPlaybackEvent` (an upsert, which
  keeps the rowid) and `UpdatePlaybackLibraries` may come between two pages.
  `steady` is history: what has matched the filter since the first page.
* `ArtCache`: a request looks (`Hit`, `Ask`), fetches (`Fetch`, `Read`, `Fail`) and
  stores (`Put`), and lets go of the mutex in between. `ll`, `m` and `bytes` are the
  list, the map and the count of `artCache`. `Read` is `io.ReadAll` of a
  `LimitReader`: an image in `Oversized` comes out as its first 8 MB (`AsRead`), without
  an error, and is kept and shown like that. `said` and `used` are history.
* `PageHook`: `es`, `base`, `degraded`, `conn` are those of `useNowPlaying`, `stream` and
  `call` the EventSources and requests under way. `Open` closes the old source
  and makes a new one, as `open()` does. Of the hub nothing is assumed but how it
  sends: `Snapshot` may store anything without publishing it, so an answer to a
  request (`Arrive`) and a stream's `FirstFrame` bring any snapshot, and `Publish` and
  `Degrade` send anything to those who have subscribed. `Subscribe` and `FirstFrame`
  are two steps, and what is published between them follows the first frame,
  however old it is. `from` and `sent` are history: whether a frame or an answer was
  shown last, and what was published since each stream subscribed, while it stands.
* `LinkResolver`: a run of `resolveRefs` with each lookup and write a step;
  `refs` is `dim_jf_ref` with the days of a wait counted down by `NextDay`. `news` says
  whether the next watch run gets as far as the resolver: the one that did so last
  has recorded the file's time, and until the plugin writes again (`NewPlays`) runs
  are skipped. `world` says which names Jellyfin has, which are on the charts and
  what fails, and may turn at any time.

## 3. What is checked

| Run | Instance | Question | Answer |
|---|---|---|---|
| `hub_history` | 2 connections, 2 loops, buffers of 2, 4 publications of 2 events | can a channel be closed twice or sent to after its close; is every subscriber polled; does a dropped handler learn of it and return; how many loops can be left over; does a stream see the log without gap, repetition or disorder | all hold, and the hub implements `Broadcast`; 601,011 states |
| `hub_orphan` | 3 connections, 3 loops, buffers of 2 | does a loop run only while somebody is subscribed | no, see findings |
| `live_hub` | 2 connections, 2 loops, buffers of 1, reports 0..1, symmetric; a log of 2 publications, or any number without a log | does everyone who was sent the stored snapshot come to show it, when no other loop was about to publish; does a client with nothing left to read show the last update since it subscribed | yes; 1,881,962 states |
| `live_flow` | 1 connection, 1 loop, 1 plain request, buffers of 2, name known or not | does a stream get its first frame; is all this a `HubSubs` | yes, fairness included; 204,006 states |
| `live_recovery` | same, reports 0 only | do open streams lose the degraded banner once Jellyfin answers | no, see findings |
| `watch_job` | 1 play, 2 growths, 3 file times | is a skipped run idle; do pages agree after success; does a page keep what the plugin forgets; does quiet data arrive | yes; 476,542 states |
| `watch_crash`, `watch_facts` | same | is a crash between transactions healed; are facts kept | no, see findings |
| `jobs` | library: 2 versions, 2 file times; loop: a queue of 1, 1 restart | is a request that was queued kept, and every request served; do the people tables follow the credits; is a skipped library run idle unless the last real one failed | yes; 170,106 states |
| `library_skip` | 3 versions, 3 file times | and without the exception | no, see findings |
| `pages` | five instances, see below | do the panels of a page, the pages of a list, the cache and the stream say what they should | all hold; 228,966 states |
| `profile_binge` | the profile instance of `pages` | can the profiles always be written | no, see findings |

`live_hub`, `jobs` and `pages` each hold instances that have nothing to do with one another
*side by side*: a variable `part` is chosen at the start and only that instance
moves, while the variables of the others keep their initial values. The state
space is the sum of theirs, not the product, and no invariant can hold or fail
because of another part. `live_hub` is `LiveHubHistory`, whose log bounds how often
is published (`part = "log"`; when the log is full the poll loops rest, as nothing
more could be put on record, and the streams go on), and the same instance of `LiveHub` without history and
without that bound (`"any"`); `CaughtUpShowsLog` says something in the first and
`ToldShowsHub` in both. `jobs` is the library job alone, over a database that
changes (`part = "library"`), and the loop with both jobs, over one that stays as
it is (`"loop"`). `pages` is `ProfilePages`, `ArtCache`, `PlayHistory`, `PageHook` and
`LinkResolver`, put together in `AllPages`; `MCInit` fixes the first state of the
parts that are not followed.

Every property has a mutant in `PROJECT.json`: one mapped definition changed the
way a plausible mistake would, after which TLC finds the property violated. The
mistaken definitions stand beside the right ones, with a comment that begins
"A mistake in".

### The properties

* `NothingNamedIsClosed`, `WatchedIsPolled`, `IdleHubHasNoStop`:
  the relation between the map, the channels, `h.stop` and the loops, through
  drops, late `unsub`s, a close and subscribers that come after it.
* `OrphansAreOwedToDrops`: how bad the known fault can get; there are never more
  loops left over than subscribers that `Publish` itself has dropped. Channels that
  an `unsub` or `Close` has closed do not count: an ordinary leave loses no loop.
* `ClosedStreamReturns`: a handler that was taken out of the map behind its back
  learns of it and ends.
* `ImplementsBroadcast`: no gap, no repetition.
* `ToldShowsHub`: relates the buffer or picture of each client to the cached
  snapshot, across first frames, buffered events and overlapping loops. Its
  exception is the one case in which the code breaks it: another loop was between
  storing and publishing when the snapshot was stored (`contested`), and may put
  its older event last. Without the exception the property is `LatestIsShown`,
  which does not hold (section 5).
* `CaughtUpShowsLog`: relates the picture of a client that has drained its channel
  to the history of publications. It holds whatever the hub has cached since, and
  whatever first frame was written before or after the update was buffered.
* `FirstFrame`, `ImplementsHubSubs` for the composition.
* `SkipIsSound` (`SkipIsSoundAfterSuccess` for the library), `PagesAgree`, `CatchesUp`
  for the jobs: they relate what `refresh_meta` says to the tables and to the
  source, many steps after the reads they are about.
* `HistoryOutlivesPlugin`: what the copy of the history is for. A play that a table
  shows is never missing from it again, through pruning, stale copies, runs that
  fail between two tables and restarts; an upgrade empties the tables of people.
* `OwedIsQueued`, `RequestIsServed`: a request against failures, restarts and a full
  queue. A restart may lose the queue, as it runs both jobs anyway; that this
  suffices is what the first one says.
* `PeopleFollowUnlessMissed`: what migration 0007 wants of both jobs together,
  with the exception that the code leaves (a failed library run).
* `PanelsInStep`, `ChartsAgree`, `WatchStatsAddUp`, `LibrariesAddUp`, `TasteAddsUp`:
  numbers that the code sums along different ways, in different files and at
  different times, are equal, or differ by what the property names. For
  `WatchStatsAddUp` that is the heatmap under a filter by library: a row of the watch
  table has the library of its first play and an hour of the heatmap that of each
  play, so the two differ by the plays that stray from the first of their row
  (`Strays`), and the instance has such plays. Two parts of
  `ChartsAgree` are for plays that Jellyfin knows `InFull`: an item that is gone
  has lost its series, and an episode that Jellyfin has without one is a title to
  the charts of people and none to the profile's headline.
* `DayVerdicts`, `RunsAreChains`, `CapKeepsTheBest`, `SignatureSetsApart`: a function
  of the code against a definition that does not follow its loop. `RunsAreChains`
  lets a run go on over a silence of exactly `bingeGapHours`, as the code does and
  its comments say; a design document says otherwise (section 5).
* `PagesFollow`, `NothingPassedOver`: the cursor against a spine that grows.
* `BytesAddUp`, `KeepsTheLatest`, `ArtIsJellyfins`: the cache's three structures agree
  with one another and with what was used and answered before. `ArtIsJellyfins` does
  not say that an image without a tag is the latest one, and counts an image that
  was cut at the limit as what Jellyfin answered.
* `NoStreamLeftBehind`, `HeardIsShown`: the page's streams through every order of
  mounts, tabs, answers and breaks. `HeardIsShown` is about what was *published*
  since the stream subscribed. What the hub *holds* may be another thing: a snapshot
  that a plain request has stored is sent to no stream (finding 2).
* `StoredIdIsKnown`: the server's id, stored once and then never asked for again,
  is in the process too, after writes that fail and after restarts.
* `KnownNamesGetLinked`: misses, failing lookups and failing writes delay a link,
  and names that are never found stand before it, but it comes, if from some time
  on a run gets to the resolver on every day (`RunsEveryDay`).

### Bounds, and why they are enough

* *Connections and loops.* A loop is left over, or a later subscriber is
  mistaken for an earlier one, with one handler that was dropped and one that
  subscribes afterwards. A connection subscribes once and a loop is started
  once, so their numbers bound the length of a history. The theorems cover the
  rest: `HubSubs`, its five invariants and the refinements, for any number.
* *Publications.* With buffers of one, the second already meets a full channel;
  with two loops it may have been stored before the first. The theorems about
  the log are for any length.
* *Buffers.* The code's is 4 (`hub.go:88`). All that matters is that it can be empty, partly
  full and full: 2, and 1 where two clients and a snapshot are compared.
* *Reports.* Two different ones tell old from new. `Threshold` 1 makes every
  difference count; a difference below it would not be published, and no
  property says that it should.
* *Plays.* Nothing in the job's control relates two plays except `hasRows`; the
  theorems are for any set of plays.
* *Durations and file times.* A play must be able to grow between a read and a
  checkpoint, and the file's time to change before, during and after a run.

* *Queue.* 8 in the code, 1 here: full is reached with one request, and a request
  that is refused while another job's waits is the case that matters. The
  theorem about it is for any length.
* *Plays of the pages.* Four of eleven: two users and a play without one, a film
  and episodes of two series (one without runtime), two methods, three outcomes
  of enrichment, four days against ranges of one and two days, gaps of exactly
  four hours and of more. Lists are cut at one or two rows, so every cut is met.
* *Art.* A cap of five holds two small images and a miss, or what is kept of the
  oversized one and a miss: replacing, evicting one and evicting several all occur.
  Two requests may have the same key.
* *History.* Pages of one play, four rows, two of them at one time: each page
  ends within a tie.
* *Page.* Two EventSources and two requests, so that an old one and a new one
  overlap; two frames under way; two versions tell old from new.
* *Links.* One lookup a run and waits of one and two days: the cap and the last
  doubling are both reached with two persons, a genre and the server.

Deadlock is not checked where an instance really stops: the hub's, when every
connection has come and gone, and `pages`, when the last day has passed and the
spine is full. It is checked for the jobs.

### Fairness

* A stream handler that has an event to write, writes it or gives up:
  every frame has a write deadline (`writeFrameTimeout`, 10 s). A handler whose
  channel is closed and drained returns. A `Snapshot` call ends, since requests
  to Jellyfin time out.
* A poll loop goes on until it is told to stop, for the same reason, and its
  wait is a timer.
* Under the scheduler each job's run goes on (`WF`), tickers fire again (`WF`), and
  the loop's select takes a tick that is ready again and again in the end
  (`SF(TakeTick)`): Go's select chooses at random among ready cases. Nothing is
  assumed of triggers.
* The resolver's run goes on, and one that is not to be skipped comes
  (`WF(ResolveSteps)`, with the ticker behind it), but nothing makes the plugin write:
  `NewPlays` is under no fairness, and without it `ResolveBegins` is not enabled. Days
  pass: a run lasts minutes, so again and again a day ends between two runs
  (`SF(NextDay)`). That plays are reported on every day, and the good behaviour of
  Jellyfin, are in the property.
* The ticker starts a run again and again, and a run goes on until it ends
  (`WF(RunSteps)`).
* Clients, Jellyfin, new connections, plain requests and shutdown owe nothing.
  `CatchesUp` and `RecoveryReachesViewers` put Jellyfin's good behaviour into
  the property (from some point on no failure), not into the specification.

## 4. What is proved

TLC decides a small instance; the theorems hold for every value of the constants
that meets the named assumptions. Of the hub, the jobs, the loop, the list and the
page (`NoLoopAssumption`, `CapAssumption`, `MaxLogAssumption`, `LogAssumption`, `LiveAssumption`,
`WatchAssumption`, `LibraryAssumption`, `SchedulerAssumption`, `HistoryAssumption`,
`HookAssumption`) these say that the bounds are natural numbers, that a buffer has
room for one event, and that the values standing for "none" are not among the
others. `ArtAssumption` adds that an entry costs something and that any one entry
fits, which 8 MB against 128 gives; `LinksAssumption`, that the names of persons,
genres and the server are finitely many and apart. `PlaysAssumption` describes what
Jellyfin can say of an item (a film has no series, no library is called like
the sum of all, genres and tags are finite sets), `PeopleAssumption` that credits
are finite, and `ProfileAssumption`, `WatchStatsAssumption` and `PagesAssumption`
that caps, gaps, times and durations are numbers. TLC evaluates all of them on
the instances.

**HubSubs** (`NoPanic`, `SubscribersArePolled`, `RemovalIsVisible`, `IdleHubStops`,
`TypeCorrect`). The invariant `HubInv` adds to the types and to the three
properties the `Bookkeeping` that makes them inductive: who is in the map has an
open handler, `h.stop` names a loop that was started, and a map with an entry has
a loop that runs and was not told to stop. Without it a late `unsub` could, as
far as the properties tell, stop somebody else's loop. `OrphansAreBounded` counts:
`OrphanInv` sets the loops that are lost, and the one that runs for an emptied map
and may yet be lost, against the subscribers that `Publish` dropped, a history
variable of `HubHistory`; that second summand is what makes it inductive. An `unsub` or
`Close` that empties the map stops its loop, and adds to neither side.

**HubHistory** (`StreamsHaveNoGap`, `StreamsFollowTheLog`, `HubImplementsBroadcast`). The
invariant says that received and buffered events together are the stretch of
the log between subscription and removal (or the log's end), and that what was
received is the beginning of it (`SeenFollowsLog`, which outlives the stream). Each
action of the hub is then matched to one of `Broadcast`: a publication with drops is
an `Announce` that cuts off those dropped, `Close` is a `Shut`, and a loop's return is no
step at all.

**LiveHub** (`LiveTypeCorrect`, `LiveImplementsHubSubs`, `LiveHubIsSound`). With the
types as the invariant, each action is an action of `HubSubs` or leaves its
variables alone. The theorems of `HubSubs` are then used under the
refinement mapping, so the panics and the unpolled subscriber are excluded for
the whole subsystem without proving anything twice. `ViewersShowWhatTheyWereTold`
(`ToldShowsHub`) needs three facts more: the loop that owns the stored snapshot still
has it pending and will send it to everyone (`OwnerHoldsSent`); nobody is told or
shows anything before it has subscribed (`Beginnings`); and unless the snapshot is
contested, no other loop has anything to publish, since one that comes to store
afterwards replaces it (`Uncontested`).

**LiveHubHistory** (`LiveImplementsBroadcast`, `PictureInvariant`, `ViewersFollowTheLog`,
`ViewersDoAgree`). Each step is a step of `HubHistory` under the mapping that forgets
the snapshot, the polls and the clients (`LiveStepIsHistoryStep`); its invariant and
its refinement are then used as they are, so the streams of the whole subsystem
are a `Broadcast` (`StreamsAreABroadcast`). `PictureInv` says what a client shows in terms
of what its handler took: the last update, with the flag up if a degraded event
came after it. It does not mention the first frame, which is why it is
inductive: the handler writes that one before it takes anything, so every update
it takes replaces it. A client with nothing left to read has taken all that it is
owed (`DrainedTookAll`), hence shows the last update of the log (`CaughtUpShowsLog`);
two such clients that were both sent an update show the same (`ViewersAgree`).
That the history is erasable (`HistoryRefinesLive`) brings every theorem of
`LiveHub` along.

**WatchJob** (`SkipsAreSound`, `SuccessMeansAgreement`, `HistoryDoesOutlive`). `SkipIsSound` is about a row
written at the end of a run and the state at some later time, so its invariant
follows the fact through the run: the log is ahead of the file (`LogIsAhead`);
no recorded time is later than now (`TimesArePast`); if the file still has the
time a run found, then what the run read, and each table it has written so far,
is at least what the file says (`RunIsAhead`); so is each table, if the recorded
run was good (`RecordIsAhead`); and a run that skips has found such a row
(`SkipKnowsRow`). `PagesAgree` needs only that a table written in this run equals
the spine, which no one else writes (`RunAgrees`). `HistoryOutlivesPlugin` rests on the
invariant that no table shows a play that the spine has not (`ShownIsKept`), on what
an upsert and a backfill leave of the spine (`SpineStep`), and on where the tables
are written from (`TableStep`).

**LibraryJob** (`LibrarySkipsAreSound`): the same argument, with the exception for
a failed run carried by the history variable.

**Scheduler** (`SchedulerRunsLibraryJob`, `SchedulerTypeCorrect`, `QueuedRequestsAreKept`,
`PeopleAreBuilt`). Every step of the loop is a step of `LibraryJob` or leaves it
alone, so that job's theorems hold under the scheduler. `OwedIsQueued` is not
inductive, as it does not say that the job in `todo` has yet to begin: `OwedInv`
does. `PeopleInv` follows the credits: after the upgrade they are stored, or both
startup runs are still to come and neither job has a recorded time; and a watch
row that would skip the next run was written after them.

**PlayHistory** (`PagesDoFollow`, `AllIsShown`, `HistoryTypeCorrect`). The invariant
places the cursor: it is a row of the spine with its time, and everything shown
is that row or newer. An upsert keeps both, as it keeps rowids and times; and as it
adds a row only for a key that has none, no play has two.

**PageHook** (`NoneLeftBehind`, `PageShowsPublished`, `HookTypeCorrect`). `HookInv` says of
a stream whose handler has subscribed that it is cut (its last frame is the end), or
that the last snapshot or update under way is the last update published since, with
only degraded frames after it (`Leads`), or that none is under way: then no update was
published yet and the first frame is to come (`Waits`), or the page shows the last
one (`Follows`). Each publication, the first frame and each frame heard move between
these. The hub appears in it only by what it publishes.

**LinkResolver** (`TheStoredIdIsKnown`, `LinksTypeCorrect`). `LinksInv` adds to the property
that a lookup is always of a person or a genre: no outcome of one touches the
server's row, which only the server's own turn writes, together with the
process. That no wait exceeds the last doubling needs powers of two to be numbers
and to grow, about which the provers know nothing: `PowersGrow` counts subsets.

**SumTheorems.** The community modules define the sum of a function over a finite
set by a recursive function that takes out one element after the other, whichever
`CHOOSE` picks. The induction theorems of the library cannot be cited for it, but
their form for sets can: a set of finite sets that is not empty has a smallest
member (`SmallestSet`, from the well-foundedness of inclusion), so a sum that did
not exist, or depended on the order, would have a smallest place where it went wrong.
From the two facts that any element may be taken out first (`SumWithout`) and that
nothing sums to nothing follow the ones that the pages need: groups that part a
set have its sum together (`SumOfParted`), a table sums alike by rows and by columns
(`SumSwapped`), greater terms have a greater sum (`SumGrows`), counting is summing ones
(`SumOfOnes`).

**ArtCache** (`BytesDoAddUp`, `TheLatestAreKept`, `ArtIsWhatJellyfinSaid`, `ArtTypeCorrect`).
`ArtInv` says that map and list have the same keys, each once, that the count is
their cost, and that the list is a beginning of the history of uses, in which no
key stands twice. `Brought` is the step that a hit and a store share: the entry
comes to the front, from its old place or as new, and the rest stays in order.
An eviction then cuts the list, and `CostOfSplit` says what is left. For
`ArtIsJellyfins` the invariant follows an answer through the request that holds
it (`AreAnswered`), and uses that an image with a tag does not change.

**ProfilePages** (`PanelsAreInStep`, `WatchStatsDoAddUp`, `LibrariesDoAddUp`, `TasteDoesAddUp`,
`DaysAreJudgedTogether`, `RunsAreTheChains`, `TheChartsAgree`, `TheCapKeepsTheBest`,
`SignaturesSetApart`, `PagesTypeCorrect`). The invariant of the steps is small
(`PagesInv`: the tables are made of finitely many plays, each known once); the work
is in what the tables say of such plays, whatever they are.

* A row of a table is a group of plays, and the rows of one table part the plays
  that count (`DailyIs`, `RollIs`). Its minutes are the sum of the group's, so a panel
  that sums rows sums plays (`DailySums`, `RollSums`), and two panels that choose
  the same plays, one by the rows' days and one by the plays', agree. A library's
  share of them, a week's, a method's or a decade's is a group again.
* A verdict is passed on a row, and the rows that a headline counts are one for
  each title and day (`RowsAreDays`). The runtime of a row is that of any play that has
  one, as plays of one item have the same (`DayRuntimeIs`).
* `Best` keeps whoever has fewer than n rows ahead. Were somebody left out and fewer
  than n kept ones at least as good, a best one among those left out would
  have fewer than n ahead and be kept (`TheLeftOutAreBeaten`).
* A genre whose share is larger for every user than for everybody, summed over the
  users, would have more minutes than it has (`NotAllAbove`, `SharesAddUp`).
* Sorted by time, the episodes of a series are a list without repetition (`SortedIs`);
  a run is the stretch between two breaks, and a break is a silence (`ChainsAre`,
  `SilenceIs`).
* The minutes of a show are a sum of rows of the profile, of rows of the watch
  table, and of plays; all three are the plays of its episodes (`ShowRowsAre`,
  `ShowDaysAre`, `ChartIs`). A person's row is a sum over some of the user's plays
  (`PersonIs`), and his titles are some of the films and shows that they are of
  (`TitlesAre`).

**AllPages** (`PartsKeepTheirSpecs`, `AllTypesCorrect`). A step of one part leaves the
variables of the others alone, so each part behaves as its own specification
says, and what is proved of it holds of the composition that `pages` checks:
`AllTypesOK` for the five together.

### What is only model-checked

Liveness under fairness, which is beyond the provers: `ClosedStreamReturns`,
`FirstFrame`, `CatchesUp`, `RequestIsServed`, `KnownNamesGetLinked` and the fairness half of
`ImplementsHubSubs`. Every invariant and action property that a passing run checks is also a theorem, and so
are four statements that no run checks: `HandlerCanTell` (implied by
`ClosedStreamReturns` on the instance), `BufferContinuesSeen` (part of the
invariant of `HubHistory`), `StreamsAreABroadcast` (TLC checks the refinement it rests
on, `ImplementsBroadcast`) and `ViewersAgree` (a consequence of `CaughtUpShowsLog`).

There is no recursive operator in any module.

## 5. Findings

Each is a run that ends in a violation, of a property that states what the
repository says.

1. **A poll loop nobody can stop** (`hub_orphan`). `Publish` deletes a slow
   subscriber and does not stop the loop when that empties the map
   (`hub.go:128`). A `Subscribe` before the dropped handler's `unsub` overwrites
   `h.stop` and starts a second loop; the first polls Jellyfin until the process
   ends. `OrphansAreOwedToDrops` says what it costs: at most one loop for each drop.
   A loop that is left over also publishes, and so may be late with an older
   picture; see below.
2. **Recovery that is never sent** (`live_recovery`). `Snapshot` stores what it
   fetched and tells nobody (`hub.go:171`). When it is the first to succeed
   after an outage, the next poll finds nothing changed, and streams stay degraded
   until something plays or stops.
3. **A failed library run counts as good** (`library_skip`). The skip of the
   library job does not ask whether the last run succeeded (`scheduler.go:97`); the
   one of the watch job does.
4. **A crash that does not heal** (`watch_crash`). After the append to an empty
   spine has committed, the spine is no longer empty and the last recorded run
   was good: the rebuild is not resumed until the file changes.
5. **Facts that are not kept** (`watch_facts`). The upsert overwrites name, runtime
   and genres with the raw row when Jellyfin no longer has the item, or could not
   be asked.
6. **Profiles that cannot be written** (`profile_binge`). Two binge runs of a series
   that start on one day have the same key (`profile.go:557`, migration 0005). The
   insert fails, the profiles of everybody are rolled back, and again in every
   later run that finds both among the user's top runs.

Smaller things the modules show, which have no run of their own:

* *An older picture may come last.* A poll stores under the mutex and publishes
  after it (`hub.go:257-262`). When two loops overlap (an old one still waits for
  Jellyfin while a new one was started, or was left over by finding 1), one may store
  first and publish second: its viewers keep the older picture until the next
  change, while `h.snap` has the newer. `LatestIsShown` is violated by it;
  `ToldShowsHub` says that nothing else does this.
* *A run of exactly four hours.* `bingeRuns` ends a run at a gap `> bingeGapHours`
  (`profile.go:562`), as its comments ("more than this far apart") and the plan of the
  user profiles (lines 954 and 1312) have it. The design of the user profiles
  (lines 256-258) wants "`< bingeGapHours` (= 4) between consecutive `at` values". The
  module follows the code, and the instance has two episodes four hours apart.
* *A heatmap that is not its headline.* Under a filter by library the heatmap of
  Watch Stats and its lifetime total may differ: see `WatchStatsAddUp` above.
* *Half an image.* An image of more than 8 MB is cut without an error, and the part
  is cached and served (`art.go:165`). The comment there wants it bounded and does
  not say what becomes of the rest.
* *A retry that waits for a play.* A lookup that failed is logged as "will retry"
  (`refs.go:79`), but only a watch run that is not skipped gets to the resolver: while
  the plugin's file stays as it is, nothing is asked again.
* A late answer to the page's request replaces a newer frame until the next change
  (`HeardIsShown` excepts it); a page whose stream was refused with an HTTP status is
  never connected again until its tab is hidden and shown; a name whose lookup
  always fails hides the names after it (`KnownNamesGetLinked` excepts it).

## 6. What is not modelled

See the notes under "components" in `PROJECT.json`. In short: the library and
cleanup aggregates, the other read queries, the JSON handlers, the Jellyfin
client, configuration parsing and rendering are pure functions or pure I/O and
keep no state; `normalize` and `changed` field by field and the migration runner
are planned.

Left out inside what is modelled: a torn copy that SQLite accepts; the passing of
real time (the model has no notion of how late a late answer is); `methodBucket`
and the parsing of dates and tags; first and last play, names and the final
order of rows; the reads of rewatches, binges, overlaps and core titles, which
return what was written; a profile that is read in eight queries while a run
writes it; `interpolate` and the page's one-second tick.


## 7. Plan

The first plan's modules are written (`Scheduler`, the aggregates, `LinkResolver`,
`ArtCache`, `PlayHistory`, `PageHook`). What is left, in this order:

| Module | What | Properties and theorems worth having |
|---|---|---|
| `SessionDiff` | `normalize` and `changed` field by field | what a viewer sees differently is published |
| `Migrations` | the runner over `user_version` with crashes | each migration is applied exactly once |
| `LibraryPages` | the library and cleanup aggregates and their reads | the panels of one page add up; a title is not proposed for cleanup and listed as watched |

`Scheduler` keeps of the watch run what the loop and the library job can tell, so
it does not implement `WatchJob` as it does `LibraryJob`; the first step to relate
the two is a specification of one run that both refine.
