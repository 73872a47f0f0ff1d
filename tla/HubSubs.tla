------------------------------ MODULE HubSubs ------------------------------
(***************************************************************************)
(* The subscription half of the Now Playing hub (internal/live/hub.go):    *)
(* the subscriber map, the buffered event channels, the stop channel, and  *)
(* the poll loops and stream handlers that hold them.  What a poll fetches *)
(* and what an event carries is left to LiveHub, which implements this     *)
(* specification.                                                          *)
(*                                                                         *)
(* A step is a critical section of Hub.mu, or one channel operation of a   *)
(* handler or a loop.  A poll loop and the stop channel made for it carry  *)
(* the same name; an event channel carries the name of its connection.     *)
(***************************************************************************)
EXTENDS Naturals, Sequences, FiniteSets

CONSTANTS
    Conns,   \* the stream requests: each one subscribes at most once
    Loops,   \* the poll loops that may be started: bounds how often that happens
    NoLoop,  \* h.stop = nil
    Events,  \* what Publish fans out
    Cap      \* the buffer of an event channel

ASSUME NoLoopAssumption == NoLoop \notin Loops
ASSUME CapAssumption == Cap \in Nat \ {0}

VARIABLES
    subs,     \* the connections in h.subs
    chan,     \* what is buffered in each connection's channel
    closed,   \* the event channels that were closed
    stop,     \* h.stop
    stopped,  \* the stop channels that were closed
    loop,     \* a poll loop not started, running, or returned
    conn      \* a stream handler before Subscribe, before its unsub, after it

vars == <<subs, chan, closed, stop, stopped, loop, conn>>

TypeOK ==
    /\ subs \subseteq Conns
    /\ chan \in [Conns -> Seq(Events)]
    /\ \A c \in Conns : Len(chan[c]) <= Cap
    /\ closed \subseteq Conns
    /\ stop \in Loops \cup {NoLoop}
    /\ stopped \subseteq Loops
    /\ loop \in [Loops -> {"unborn", "running", "returned"}]
    /\ conn \in [Conns -> {"new", "open", "done"}]

Init ==
    /\ subs = {}
    /\ chan = [c \in Conns |-> <<>>]
    /\ closed = {}
    /\ stop = NoLoop
    /\ stopped = {}
    /\ loop = [l \in Loops |-> "unborn"]
    /\ conn = [c \in Conns |-> "new"]

-----------------------------------------------------------------------------
\* h.stop = make(chan struct{}); go h.pollLoop(h.stop)
StartLoop ==
    \E l \in Loops :
        /\ loop[l] = "unborn"
        /\ loop' = [loop EXCEPT ![l] = "running"]
        /\ stop' = l

\* A mistake in StopLoop: h.stop is forgotten without being closed.
StopForgotten == stop' = NoLoop /\ UNCHANGED stopped

\* if h.stop != nil { close(h.stop); h.stop = nil }
StopLoop ==
    /\ stopped' = IF stop = NoLoop THEN stopped ELSE stopped \cup {stop}
    /\ stop' = NoLoop

\* Mistakes in Drop: without its delete, without its close.
DropKeeps(S) == closed' = closed \cup S /\ UNCHANGED subs
DropSilently(S) == subs' = subs \ S /\ UNCHANGED closed

\* close(ch); delete(h.subs, id)
Drop(S) == closed' = closed \cup S /\ subs' = subs \ S

\* A mistake in FirstIn: the loop is never started.
NeverFirstIn(c) == FALSE

\* len(h.subs) == 1 after the insertion
FirstIn(c) == subs' = {c}

Subscribe(c) ==
    /\ conn[c] = "new"
    /\ conn' = [conn EXCEPT ![c] = "open"]
    /\ subs' = subs \cup {c}
    /\ IF FirstIn(c) THEN StartLoop ELSE UNCHANGED <<loop, stop>>
    /\ UNCHANGED <<chan, closed, stopped>>

\* A mistake in LastOut: the stop depends on having removed the entry oneself.
LastOutIfRemoved(c) == c \in subs /\ subs' = {}

\* len(h.subs) == 0, also when Publish had already taken c out of the map
LastOut(c) == subs' = {}

\* The handler's deferred unsub; sync.Once makes a second call do nothing.
Unsub(c) ==
    /\ conn[c] = "open"
    /\ conn' = [conn EXCEPT ![c] = "done"]
    /\ Drop(subs \cap {c})
    /\ IF LastOut(c) THEN StopLoop ELSE UNCHANGED <<stop, stopped>>
    /\ UNCHANGED <<chan, loop>>

\* The handler takes the next event; a closed channel still hands out what it
\* buffered.
Receive(c) ==
    /\ conn[c] = "open"
    /\ chan[c] # <<>>
    /\ chan' = [chan EXCEPT ![c] = Tail(@)]
    /\ UNCHANGED <<subs, closed, stop, stopped, loop, conn>>

\* A mistake in EndOfStream: the handler does not look at "ok" and loops.
EndOfStreamSpins(c) == c \in closed /\ chan[c] = <<>> /\ UNCHANGED vars

\* The receive reports a closed and empty channel: the handler returns.
EndOfStream(c) == c \in closed /\ chan[c] = <<>> /\ Unsub(c)

\* The request's context is done, or a frame could not be written in time.
ClientGone(c) == Unsub(c)

\* the subscribers a non-blocking send fails on
Full == {c \in subs : Len(chan[c]) >= Cap}

\* Every subscriber is sent the event without blocking; one whose buffer is
\* full is dropped.  h.stop is not touched.
Publish(ev) ==
    /\ chan' = [c \in Conns |-> IF c \in subs \ Full THEN Append(chan[c], ev) ELSE chan[c]]
    /\ Drop(Full)
    /\ UNCHANGED <<stop, stopped, loop, conn>>

\* Publish is called by the poll loops only.
LoopPublish(l, ev) == loop[l] = "running" /\ Publish(ev)

\* The loop is back in its select and its stop channel is closed.
LoopReturn(l) ==
    /\ loop[l] = "running"
    /\ l \in stopped
    /\ loop' = [loop EXCEPT ![l] = "returned"]
    /\ UNCHANGED <<subs, chan, closed, stop, stopped, conn>>

\* Hub.Close: nothing remembers that it ran, so Subscribe works after it.
Close ==
    /\ StopLoop
    /\ Drop(subs)
    /\ UNCHANGED <<chan, loop, conn>>

Next ==
    \/ \E c \in Conns : Subscribe(c) \/ Receive(c) \/ EndOfStream(c) \/ ClientGone(c)
    \/ \E l \in Loops : LoopReturn(l) \/ \E ev \in Events : LoopPublish(l, ev)
    \/ Close

\* A handler with something to send writes it or gives up within the frame's
\* write deadline, it returns once its channel is closed and drained, and a
\* loop reaches its select because every request it makes has a timeout.
\* Clients, new connections and shutdown owe nothing.
Fairness ==
    /\ \A c \in Conns : WF_vars(chan[c] # <<>> /\ (Receive(c) \/ ClientGone(c)))
    /\ \A c \in Conns : WF_vars(EndOfStream(c))
    /\ \A l \in Loops : WF_vars(LoopReturn(l))

SafeSpec == Init /\ [][Next]_vars
Spec == SafeSpec /\ Fairness

-----------------------------------------------------------------------------
(***************************************************************************)
(* Properties                                                              *)
(***************************************************************************)

\* No send on a closed channel and no second close of one, which would panic:
\* whatever h.subs and h.stop still name is open (hub.go closes an event
\* channel in three places and a stop channel in two).
NothingNamedIsClosed ==
    /\ subs \cap closed = {}
    /\ stop \notin stopped

\* As long as the map holds a subscriber, h.stop names a loop that runs and
\* was not told to stop, whichever of unsub, a drop in Publish, Close and a
\* later Subscribe came before.
WatchedIsPolled ==
    subs # {} => stop \in Loops /\ stop \notin stopped /\ loop[stop] = "running"

\* A handler that was taken out of the map by a drop or by Close can tell: its
\* channel is closed, so it does not wait for events that never come.
HandlerCanTell == \A c \in Conns : conn[c] = "open" => c \in subs \cup closed

\* Once every handler has run its unsub, h.stop is nil: the hub knows of no
\* loop, even if the last subscriber was dropped by Publish and not by unsub.
IdleHubHasNoStop == (\A c \in Conns : conn[c] # "open") => stop = NoLoop

\* A handler that was taken out of the map learns of it and returns: the stream
\* ends, so that the browser reconnects and a shutdown is not held up.
ClosedStreamReturns ==
    \A c \in Conns : conn[c] = "open" /\ c \notin subs ~> conn[c] = "done"

\* The hub owns a single poll loop that runs only while a subscriber is
\* connected (hub.go:34): with every handler through its unsub, no running loop
\* is left without the order to stop.
NoOrphanLoop ==
    (\A c \in Conns : conn[c] # "open") =>
        \A l \in Loops : loop[l] = "running" => l \in stopped

\* The loops that h.stop no longer names and nobody told to stop.
Orphans == {l \in Loops : loop[l] = "running" /\ l \notin stopped \cup {stop}}
=============================================================================
