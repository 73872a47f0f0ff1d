--------------------------- MODULE LiveHubHistory --------------------------
(***************************************************************************)
(* The Now Playing subsystem with the history that HubHistory gives the    *)
(* hub: the log of published events, where in the log each stream was      *)
(* subscribed and cut off, what its handler took from its channel, and     *)
(* whom Publish dropped.                                                   *)
(* The history is only written, never read by an action of the subsystem.  *)
(* With it a client's picture can be told from what was published.         *)
(***************************************************************************)
EXTENDS LiveHub

CONSTANT MaxLog  \* bounds the number of events published

ASSUME LogAssumption == MaxLog \in Nat

VARIABLES log, from, till, seen, dropped

history == <<log, from, till, seen, dropped>>
lvars == <<vars, history>>

HH == INSTANCE HubHistory WITH Events <- Event

LInit ==
    /\ Init
    /\ log = <<>>
    /\ from = [c \in Conns |-> 0]
    /\ till = [c \in Conns |-> 0]
    /\ seen = [c \in Conns |-> <<>>]
    /\ dropped = {}

LConnect(c) ==
    /\ Connect(c)
    /\ from' = [from EXCEPT ![c] = Len(log)]
    /\ UNCHANGED <<log, till, seen, dropped>>

LRelay(c) ==
    /\ Relay(c)
    /\ seen' = [seen EXCEPT ![c] = Append(@, Head(chan[c]))]
    /\ UNCHANGED <<log, from, till, dropped>>

LPublish(l) ==
    /\ Len(log) < MaxLog
    /\ PollPublish(l)
    /\ log' = Append(log, Pending(l))
    /\ HH!NoteClosed
    /\ dropped' = dropped \cup (subs \ subs')
    /\ UNCHANGED <<from, seen>>

LClose ==
    /\ CloseHub
    /\ HH!NoteClosed
    /\ UNCHANGED <<log, from, seen, dropped>>

\* Every other step takes no event from a channel and puts none into one.
Quiet ==
    \/ IntervalPasses
    \/ \E k \in Conns \cup Callers : Snapshot(k)
    \/ \E c \in Conns : SnapshotFromCache(c) \/ StreamEnds(c) \/ ClientGone(c)
    \/ \E l \in Loops : poll[l].at # "publish" /\ Poll(l)

LNext ==
    \/ Quiet /\ UNCHANGED history
    \/ \E c \in Conns : LConnect(c) \/ LRelay(c)
    \/ \E l \in Loops : LPublish(l)
    \/ LClose

LSpec == LInit /\ [][LNext]_lvars

-----------------------------------------------------------------------------
(***************************************************************************)
(* Properties                                                              *)
(***************************************************************************)

\* Each stream hands its client the events that were published from its
\* subscription on, in order and without a gap, up to the moment it is cut off:
\* also with first frames, plain requests and several poll loops under way.
StreamsAreABroadcast == HH!ImplementsBroadcast

\* Up to where in the log c's client is to be told.
Owed(c) == IF c \in subs THEN Len(log) ELSE till[c]

\* The last update that c is owed is the i-th event.
LastUpdate(c, i) ==
    /\ i \in from[c] + 1 .. Owed(c)
    /\ log[i] # Degraded
    /\ \A j \in i + 1 .. Owed(c) : log[j] = Degraded

\* c's handler waits for the next event, all earlier ones being shown.
Drained(c) == conn[c] = "open" /\ chan[c] = <<>> /\ view[c] # None

\* A client that has drained its channel shows the last update published since
\* it subscribed, with the flag up when a "degraded" event followed it: however
\* late the first frame was, and whatever h.snap has become since.
CaughtUpShowsLog ==
    \A c \in Conns : \A i \in DOMAIN log :
        Drained(c) /\ LastUpdate(c, i) =>
            view[c] = IF i = Owed(c) THEN log[i] ELSE [log[i] EXCEPT !.deg = TRUE]

\* Hence two browsers that have drained their channels, and were each sent an
\* update, show the same picture, whenever they came and whatever the first
\* frame of each was.
ViewersAgree ==
    \A c, d \in subs : \A i, j \in DOMAIN log :
        Drained(c) /\ Drained(d) /\ LastUpdate(c, i) /\ LastUpdate(d, j) => view[c] = view[d]
=============================================================================
