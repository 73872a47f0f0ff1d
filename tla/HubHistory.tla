---------------------------- MODULE HubHistory -----------------------------
(***************************************************************************)
(* HubSubs with the history that shows it to implement Broadcast: the log  *)
(* of published events, and for each connection where in the log it was    *)
(* subscribed, where it was closed, and what its handler received; and     *)
(* with the connections that Publish, and not unsub or Close, has closed.  *)
(* The history is only written, never read by an action of the hub.        *)
(***************************************************************************)
EXTENDS HubSubs

CONSTANT MaxLog  \* bounds the number of events published

ASSUME MaxLogAssumption == MaxLog \in Nat

VARIABLES log, from, till, seen, dropped

history == <<log, from, till, seen, dropped>>
hvars == <<vars, history>>

HInit ==
    /\ Init
    /\ log = <<>>
    /\ from = [c \in Conns |-> 0]
    /\ till = [c \in Conns |-> 0]
    /\ seen = [c \in Conns |-> <<>>]
    /\ dropped = {}

\* The log as it was when the channels of S were closed.
NoteClosed == till' = [c \in Conns |-> IF c \in subs \ subs' THEN Len(log) ELSE till[c]]

HSubscribe(c) ==
    /\ Subscribe(c)
    /\ from' = [from EXCEPT ![c] = Len(log)]
    /\ UNCHANGED <<log, till, seen, dropped>>

HUnsub(c) == (EndOfStream(c) \/ ClientGone(c)) /\ UNCHANGED history

HReceive(c) ==
    /\ Receive(c)
    /\ seen' = [seen EXCEPT ![c] = Append(@, Head(chan[c]))]
    /\ UNCHANGED <<log, from, till, dropped>>

HPublish(l, ev) ==
    /\ Len(log) < MaxLog
    /\ LoopPublish(l, ev)
    /\ log' = Append(log, ev)
    /\ NoteClosed
    /\ dropped' = dropped \cup (subs \ subs')
    /\ UNCHANGED <<from, seen>>

HReturn(l) == LoopReturn(l) /\ UNCHANGED history

HClose ==
    /\ Close
    /\ NoteClosed
    /\ UNCHANGED <<log, from, seen, dropped>>

HNext ==
    \/ \E c \in Conns : HSubscribe(c) \/ HReceive(c) \/ HUnsub(c)
    \/ \E l \in Loops : HReturn(l) \/ \E ev \in Events : HPublish(l, ev)
    \/ HClose

HSpec == HInit /\ [][HNext]_hvars
FairHSpec == HSpec /\ Fairness

-----------------------------------------------------------------------------
\* How far NoOrphanLoop can fail: each loop that nobody can stop any more is
\* owed to a subscriber of its own that Publish dropped.  However many handlers
\* come and go, and whatever Close does, no loop is lost without such a drop.
OrphansAreOwedToDrops == Cardinality(Orphans) <= Cardinality(dropped)

\* A connection is in the broadcast while it is in the map, and cut off from
\* its removal until its handler returns.
StateOf(c) ==
    CASE conn[c] = "new" -> "out"
      [] conn[c] = "open" /\ c \in subs -> "in"
      [] conn[c] = "open" /\ c \notin subs -> "cut"
      [] conn[c] = "done" -> "left"

B == INSTANCE Broadcast WITH state <- [c \in Conns |-> StateOf(c)]

\* A stream hands its client the published events in order and without a gap
\* from its subscription on; a slow one is cut off, never skipped (Publish in
\* hub.go drops the subscriber instead of the event).
ImplementsBroadcast == B!BSpec

\* What is still buffered continues what was received: the two together are
\* the stretch of the log the connection is owed.
Continues(c) ==
    LET n == from[c] + Len(seen[c])
    IN  /\ n + Len(chan[c]) = IF c \in subs THEN Len(log) ELSE till[c]
        /\ \A i \in 1..Len(chan[c]) : chan[c][i] = log[n + i]

\* No handler is handed an event out of order, twice, or after a gap, also
\* when it lags and when it drains a channel Publish has closed on it.
BufferContinuesSeen == \A c \in Conns : conn[c] = "open" => Continues(c)
=============================================================================
