------------------------------ MODULE LiveHub ------------------------------
(***************************************************************************)
(* The Now Playing subsystem: the hub of internal/live/hub.go with its     *)
(* cached snapshot and its poll loops, the stream handlers of              *)
(* internal/api/nowplaying_stream.go, the plain requests that call         *)
(* Snapshot (nowplaying.go, profile_overview.go), and what each streaming  *)
(* client shows.  Channels, maps and loop lifetimes are those of HubSubs.  *)
(*                                                                         *)
(* A step is a critical section of Hub.mu together with what its goroutine *)
(* does on its own before and after it.  What /Sessions reports is chosen  *)
(* when it is used, and is any report: Jellyfin may have made it at any    *)
(* moment since it was asked, so a stale answer is among the choices.      *)
(***************************************************************************)
EXTENDS Naturals, Sequences

CONSTANTS
    Conns, Loops, NoLoop, Cap,  \* as in HubSubs
    Callers,    \* requests for one snapshot: GET now-playing, profile overview
    MaxWorld,   \* what /Sessions can report is 0 .. MaxWorld, 0 being idle
    Threshold,  \* how far two reports are apart for changed() to see it
    Primed,     \* whether Prime learnt the server's name at startup: a set of answers
    None,       \* h.snap = nil; a client that was sent nothing yet
    Failed,     \* a request to Jellyfin that returned an error
    Degraded    \* the "degraded" event, which carries no snapshot

World == 0..MaxWorld

\* w: the sessions and what is derived from them; srv: the server's name is
\* known; deg: the degraded flag.
Snap == [w : World, srv : BOOLEAN, deg : BOOLEAN]

ASSUME LiveAssumption ==
    /\ NoLoop \notin Loops
    /\ Cap \in Nat \ {0}
    /\ Callers \cap Conns = {}
    /\ MaxWorld \in Nat
    /\ Threshold \in Nat \ {0}
    /\ Primed \subseteq BOOLEAN
    /\ None \notin Snap /\ Degraded \notin Snap /\ Failed \notin World

\* An "update" event is the snapshot it carries.
Event == Snap \cup {Degraded}

VARIABLES
    subs, chan, closed, stop, stopped, loop, conn,  \* as in HubSubs
    server,  \* h.server has a name
    snap,    \* h.snap
    fresh,   \* now - h.snapAt < h.interval
    poll,    \* where each poll loop is, and its local variables
    call,    \* the same for each Snapshot call
    view,    \* what each streaming client shows
    owner,   \* history: the loop that stored h.snap and has yet to publish it
    told,    \* history: the connections that were sent the stored snapshot
    contested  \* history: when h.snap was stored, another loop was yet to publish

hubVars == <<subs, chan, closed, stop, stopped, loop, conn>>
telling == <<owner, told, contested>>
vars == <<hubVars, server, snap, fresh, poll, call, view, telling>>

H == INSTANCE HubSubs WITH Events <- Event

Idle == [at |-> "none", srv |-> FALSE, got |-> Failed]
At(point) == [Idle EXCEPT !.at = point]
Local(points) == [at : points, srv : BOOLEAN, got : World \cup {Failed}]

TypeOK ==
    /\ H!TypeOK
    /\ server \in BOOLEAN /\ fresh \in BOOLEAN
    /\ snap \in Snap \cup {None}
    /\ poll \in [Loops -> Local({"none", "server", "sessions", "publish", "wait"})]
    /\ call \in [Conns \cup Callers -> Local({"none", "begin", "sessions"})]
    /\ view \in [Conns -> Snap \cup {None}]
    /\ owner \in Loops \cup {NoLoop}
    /\ told \subseteq Conns /\ contested \in BOOLEAN

Init ==
    /\ H!Init
    /\ server \in Primed
    /\ snap = None
    /\ fresh = FALSE
    /\ poll = [l \in Loops |-> Idle]
    /\ call = [k \in Conns \cup Callers |-> Idle]
    /\ view = [c \in Conns |-> None]
    /\ owner = NoLoop
    /\ told = {} /\ contested = FALSE

-----------------------------------------------------------------------------
\* The snapshot grows older than one interval.
IntervalPasses ==
    /\ fresh' = FALSE
    /\ UNCHANGED <<hubVars, server, snap, poll, call, view, telling>>

\* What a request whose sessions and server name are w and srv amounts to.
Normalized(w, srv) == [w |-> w, srv |-> srv, deg |-> FALSE]

\* The last snapshot, or an empty one, marked degraded.
Fallback(srv) ==
    IF snap = None THEN [w |-> 0, srv |-> srv, deg |-> TRUE] ELSE [snap EXCEPT !.deg = TRUE]

-----------------------------------------------------------------------------
(***************************************************************************)
(* Snapshot.                                                               *)
(***************************************************************************)
Cached == snap # None /\ fresh

\* k's call returns s; a stream handler writes it as its first frame.
Return(k, s) ==
    /\ call' = [call EXCEPT ![k] = Idle]
    /\ view' = IF k \in Conns THEN [view EXCEPT ![k] = s] ELSE view

Asks(k) == IF k \in Conns THEN call[k].at = "begin" ELSE call[k].at = "none"

SnapshotFromCache(c) ==
    /\ Asks(c)
    /\ Cached
    /\ Return(c, snap)
    /\ UNCHANGED <<hubVars, server, snap, fresh, poll, telling>>

\* A mistake in SnapshotAsks: a stream waits for the loop to fill the cache.
SnapshotAsksForCallers(k) ==
    /\ k \in Callers
    /\ Asks(k)
    /\ ~Cached
    /\ call' = [call EXCEPT ![k] = [At("sessions") EXCEPT !.srv = server]]
    /\ UNCHANGED <<hubVars, server, snap, fresh, poll, view, telling>>

SnapshotAsks(k) ==
    /\ Asks(k)
    /\ ~Cached
    /\ call' = [call EXCEPT ![k] = [At("sessions") EXCEPT !.srv = server]]
    /\ UNCHANGED <<hubVars, server, snap, fresh, poll, view, telling>>

\* On an error only the caller learns of it: h.snap keeps its flag.
SnapshotFails(k) ==
    /\ call[k].at = "sessions"
    /\ Return(k, Fallback(call[k].srv))
    /\ UNCHANGED <<hubVars, server, snap, fresh, poll, telling>>

\* On success the result becomes h.snap, and nobody is told.
SnapshotStores(k, w) ==
    /\ call[k].at = "sessions"
    /\ snap' = Normalized(w, call[k].srv)
    /\ fresh' = TRUE
    /\ Return(k, snap')
    /\ owner' = NoLoop /\ told' = {} /\ contested' = FALSE
    /\ UNCHANGED <<hubVars, server, poll>>

-----------------------------------------------------------------------------
(***************************************************************************)
(* A stream.                                                               *)
(***************************************************************************)
\* A mistake in Shown: the payload of every event is taken for a snapshot.
ShownRaw(v, ev) == ev

\* Another one: the flag outlasts the update that signals recovery.
ShownKeeps(v, ev) == IF ev = Degraded THEN [v EXCEPT !.deg = TRUE] ELSE [ev EXCEPT !.deg = v.deg]

\* What the client shows after ev: a snapshot replaces everything, a
\* "degraded" event only raises the flag.
Shown(v, ev) == IF ev = Degraded THEN [v EXCEPT !.deg = TRUE] ELSE ev

\* Loops that Subscribe starts begin with a poll.
StartPolling ==
    poll' = [l \in Loops |-> IF loop'[l] # loop[l] THEN At("server") ELSE poll[l]]

Connect(c) ==
    /\ H!Subscribe(c)
    /\ StartPolling
    /\ call' = [call EXCEPT ![c].at = "begin"]
    /\ UNCHANGED <<server, snap, fresh, view, telling>>

Relay(c) ==
    /\ view[c] # None
    /\ H!Receive(c)
    /\ view' = [view EXCEPT ![c] = Shown(@, Head(chan[c]))]
    /\ UNCHANGED <<server, snap, fresh, poll, call, telling>>

\* unsub runs; nobody looks at the stream any more.
Leave(c) ==
    /\ view' = [view EXCEPT ![c] = None]
    /\ call' = [call EXCEPT ![c] = Idle]
    /\ UNCHANGED <<server, snap, fresh, poll, telling>>

\* A mistake in StreamEnds: the handler returns without its unsub.
StreamEndsQuietly(c) ==
    /\ view[c] # None /\ c \in closed /\ chan[c] = <<>>
    /\ Leave(c)
    /\ UNCHANGED hubVars

StreamEnds(c) == view[c] # None /\ H!EndOfStream(c) /\ Leave(c)

\* The client goes while its handler waits: for the next event, in a write, or
\* for Jellyfin's answer to a request made in its name.
ClientGone(c) ==
    /\ call[c].at \in {"none", "sessions"}
    /\ H!ClientGone(c)
    /\ Leave(c)

-----------------------------------------------------------------------------
(***************************************************************************)
(* A poll loop: pollLoop and pollOnce.                                     *)
(***************************************************************************)
Goto(l, point) == poll' = [poll EXCEPT ![l] = At(point)]

\* h.server is read, and asked for when it has no name.
PollServer(l) ==
    /\ poll[l].at = "server"
    /\ server' \in {server, TRUE}
    /\ poll' = [poll EXCEPT ![l] = [At("sessions") EXCEPT !.srv = server']]
    /\ UNCHANGED <<hubVars, snap, fresh, call, view, telling>>

Apart(v, w) == v >= w + Threshold \/ w >= v + Threshold

\* next differs from what was stored, not from what was last published.
Changed(prev, next) ==
    prev = None \/ prev.deg # next.deg \/ prev.srv # next.srv \/ Apart(prev.w, next.w)

Store(l, s) ==
    /\ snap' = s
    /\ owner' = l /\ told' = {}
    /\ contested' = (\E m \in Loops \ {l} : poll[m].at = "publish")

\* The poll failed: h.snap is swapped for a degraded copy, and the loop goes
\* on to publish that unless it was degraded already.
PollFails(l) ==
    /\ poll[l].at = "sessions"
    /\ IF snap # None /\ snap.deg
       THEN Goto(l, "wait") /\ UNCHANGED <<snap, telling>>
       ELSE Goto(l, "publish") /\ Store(l, Fallback(poll[l].srv))
    /\ UNCHANGED <<hubVars, server, fresh, call, view>>

PollSucceeds(l, w) ==
    LET next == Normalized(w, poll[l].srv)
    IN  /\ poll[l].at = "sessions"
        /\ fresh' = TRUE
        /\ IF Changed(snap, next)
           THEN /\ Store(l, next)
                /\ poll' = [poll EXCEPT ![l].at = "publish", ![l].got = w]
           ELSE Goto(l, "wait") /\ UNCHANGED <<snap, telling>>
        /\ UNCHANGED <<hubVars, server, call, view>>

\* The event a loop is about to publish was made before it let go of the lock.
Pending(l) ==
    IF poll[l].got = Failed THEN Degraded ELSE Normalized(poll[l].got, poll[l].srv)

\* It comes after that of a loop which stored later, if that one was faster.
PollPublish(l) ==
    /\ poll[l].at = "publish"
    /\ H!LoopPublish(l, Pending(l))
    /\ Goto(l, "wait")
    /\ owner' = IF owner = l THEN NoLoop ELSE owner
    /\ told' = IF owner = l THEN subs' ELSE told
    /\ UNCHANGED <<server, snap, fresh, call, view, contested>>

\* The interval or the backoff is over.  When the stop channel is closed by
\* then, the select has returned.
PollAgain(l) ==
    /\ poll[l].at = "wait"
    /\ l \notin stopped
    /\ Goto(l, "server")
    /\ UNCHANGED <<hubVars, server, snap, fresh, call, view, telling>>

PollReturns(l) ==
    /\ poll[l].at = "wait"
    /\ H!LoopReturn(l)
    /\ Goto(l, "none")
    /\ UNCHANGED <<server, snap, fresh, call, view, telling>>

CloseHub ==
    /\ H!Close
    /\ UNCHANGED <<server, snap, fresh, poll, call, view, telling>>

-----------------------------------------------------------------------------
Snapshot(k) ==
    SnapshotAsks(k) \/ SnapshotFails(k) \/ \E w \in World : SnapshotStores(k, w)

Poll(l) ==
    \/ PollServer(l) \/ PollFails(l) \/ \E w \in World : PollSucceeds(l, w)
    \/ PollPublish(l) \/ PollAgain(l) \/ PollReturns(l)

Next ==
    \/ IntervalPasses
    \/ \E k \in Conns \cup Callers : Snapshot(k)
    \/ \E c \in Conns : SnapshotFromCache(c) \/ Connect(c) \/ Relay(c) \/ StreamEnds(c) \/ ClientGone(c)
    \/ \E l \in Loops : Poll(l)
    \/ CloseHub

\* A handler goes on until it waits for an event or for its client, a loop
\* until it is told to stop: requests to Jellyfin and frame writes end within
\* their timeouts.  Jellyfin, clients and the plain requests owe nothing.
Fairness ==
    /\ \A c \in Conns : WF_vars(\/ SnapshotFromCache(c) \/ Snapshot(c) \/ StreamEnds(c)
                                \/ chan[c] # <<>> /\ (Relay(c) \/ ClientGone(c)))
    /\ \A l \in Loops : WF_vars(Poll(l))

SafeSpec == Init /\ [][Next]_vars
Spec == SafeSpec /\ Fairness

-----------------------------------------------------------------------------
(***************************************************************************)
(* Properties                                                              *)
(***************************************************************************)

\* What c's client shows, once its buffer is drained, is what h.snap says.
ShowsHub(c) ==
    LET n == Len(chan[c])
    IN  IF n > 0 THEN chan[c][n] = IF snap.deg THEN Degraded ELSE snap
        ELSE view[c] # None /\ IF snap.deg THEN view[c].deg ELSE view[c] = snap

\* The loops fan out what they store: everyone who was sent the stored snapshot
\* and is still subscribed comes to show it (hub.go:34, "fans update / degraded
\* events out").
LatestIsShown == \A c \in told \cap subs : ShowsHub(c)

\* That holds whatever first frames, older events and plain requests were under
\* way, if no other loop was about to publish something older when the snapshot
\* was stored.  If one was, it may publish last, and the clients keep the older
\* picture until the next change.
ToldShowsHub == ~contested => LatestIsShown

\* A new stream is sent its first frame, or is over.
FirstFrame == \A c \in Conns : conn[c] = "open" ~> (view[c] # None \/ conn[c] = "done")

\* The channels, maps and loops behave as HubSubs says, so that what is proved
\* of HubSubs holds here.
ImplementsHubSubs == H!Spec

\* "The `update` itself signals recovery": once Jellyfin answers every request,
\* no open stream goes on showing its client that it does not.
AllAnswered ==
    (\A l \in Loops : ~PollFails(l)) /\ (\A k \in Conns \cup Callers : ~SnapshotFails(k))
RecoveryReachesViewers ==
    <>[][AllAnswered]_vars => \A c \in Conns : []<>(view[c] # None => ~view[c].deg)
=============================================================================
