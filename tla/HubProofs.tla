----------------------------- MODULE HubProofs -----------------------------
(***************************************************************************)
(* The hub for every set of connections, loops and events and every buffer *)
(* size: its maps, channels and loops (HubSubs), and that with its history *)
(* it implements Broadcast (HubHistory), for every bound on the log.       *)
(***************************************************************************)
EXTENDS HubHistory, FiniteSetTheorems, TLAPS

\* The inductive invariant.  Bookkeeping says where a connection or a loop is
\* in its life when one of the hub's maps or channels names it; the four
\* properties below are consequences or conjuncts of it.
Bookkeeping ==
    /\ \A c \in subs : conn[c] = "open"
    /\ \A c \in closed : conn[c] # "new"
    /\ \A l \in stopped : loop[l] # "unborn"
    /\ stop # NoLoop => loop[stop] = "running"
    /\ subs # {} => stop # NoLoop

HubInv ==
    /\ TypeOK
    /\ Bookkeeping
    /\ NothingNamedIsClosed
    /\ HandlerCanTell
    /\ IdleHubHasNoStop

-----------------------------------------------------------------------------
LEMMA TypeStep == TypeOK /\ [Next]_vars => TypeOK'
<1> SUFFICES ASSUME TypeOK, [Next]_vars PROVE TypeOK'
  OBVIOUS
<1> USE CapAssumption DEF TypeOK
<1>1. ASSUME NEW c \in Conns, Subscribe(c) PROVE TypeOK'
  BY <1>1 DEF Subscribe, StartLoop
<1>2. ASSUME NEW c \in Conns, Unsub(c) PROVE TypeOK'
  BY <1>2 DEF Unsub, Drop, StopLoop
<1>3. ASSUME NEW c \in Conns, Receive(c) PROVE TypeOK'
  <2>1. chan[c] \in Seq(Events) /\ chan[c] # <<>> /\ Len(chan[c]) <= Cap
    BY <1>3 DEF Receive
  <2>2. Tail(chan[c]) \in Seq(Events) /\ Len(Tail(chan[c])) <= Cap
    BY <2>1
  <2>3. QED
    BY <1>3, <2>2 DEF Receive
<1>4. ASSUME NEW ev \in Events, Publish(ev) PROVE TypeOK'
  <2>1. Full \subseteq subs
    BY DEF Full
  <2>2. ASSUME NEW c \in Conns
        PROVE  chan'[c] \in Seq(Events) /\ Len(chan'[c]) <= Cap
    <3>1. CASE c \in subs \ Full
      <4>1. chan[c] \in Seq(Events) /\ Len(chan[c]) < Cap
        BY <3>1 DEF Full
      <4>2. Append(chan[c], ev) \in Seq(Events) /\ Len(Append(chan[c], ev)) <= Cap
        BY <4>1
      <4>3. QED
        BY <1>4, <3>1, <4>2 DEF Publish
    <3>2. CASE c \notin subs \ Full
      BY <1>4, <3>2 DEF Publish
    <3>3. QED
      BY <3>1, <3>2
  <2>3. chan' \in [Conns -> Seq(Events)]
    BY <1>4, <2>2 DEF Publish
  <2>4. QED
    BY <1>4, <2>1, <2>2, <2>3 DEF Publish, Drop
<1>5. ASSUME NEW l \in Loops, LoopReturn(l) PROVE TypeOK'
  BY <1>5 DEF LoopReturn
<1>6. CASE Close
  BY <1>6 DEF Close, Drop, StopLoop
<1>7. CASE UNCHANGED vars
  BY <1>7 DEF vars
<1>8. QED
  BY <1>1, <1>2, <1>3, <1>4, <1>5, <1>6, <1>7
     DEF Next, EndOfStream, ClientGone, LoopPublish

\* Every variable keeps its type; no channel holds more than its buffer.
THEOREM TypeCorrect == SafeSpec => []TypeOK
<1>1. Init => TypeOK
  BY CapAssumption DEF Init, TypeOK
<1>2. QED
  BY <1>1, TypeStep, PTL DEF SafeSpec

\* The bookkeeping and the safety properties are preserved together: each
\* action relies on facts only the others establish (that a new loop's stop
\* channel was never closed, that a dropped connection is still open).
LEMMA HubInvStep == HubInv /\ TypeOK' /\ [Next]_vars => HubInv'
<1> SUFFICES ASSUME HubInv, TypeOK', [Next]_vars PROVE HubInv'
  OBVIOUS
<1> USE NoLoopAssumption
     DEF HubInv, TypeOK, Bookkeeping, NothingNamedIsClosed, HandlerCanTell, IdleHubHasNoStop
<1>1. ASSUME NEW c \in Conns, Subscribe(c) PROVE HubInv'
  <2>1. c \notin subs /\ c \notin closed
    BY <1>1 DEF Subscribe
  <2>2. CASE subs = {}
    <3>1. subs' = {c}
      BY <1>1, <2>2 DEF Subscribe
    <3>2. PICK l \in Loops : /\ loop[l] = "unborn"
                             /\ loop' = [loop EXCEPT ![l] = "running"]
                             /\ stop' = l
      BY <1>1, <3>1 DEF Subscribe, FirstIn, StartLoop
    <3>3. QED
      BY <1>1, <2>1, <3>1, <3>2 DEF Subscribe
  <2>3. CASE subs # {}
    <3>1. subs' # {c}
      BY <1>1, <2>1, <2>3 DEF Subscribe
    <3>2. UNCHANGED <<loop, stop>>
      BY <1>1, <3>1 DEF Subscribe, FirstIn
    <3>3. QED
      BY <1>1, <2>1, <2>3, <3>2 DEF Subscribe
  <2>4. QED
    BY <2>2, <2>3
<1>2. ASSUME NEW c \in Conns, Unsub(c) PROVE HubInv'
  <2>1. CASE subs' = {}
    BY <1>2, <2>1 DEF Unsub, Drop, LastOut, StopLoop
  <2>2. CASE subs' # {}
    BY <1>2, <2>2 DEF Unsub, Drop, LastOut
  <2>3. QED
    BY <2>1, <2>2
<1>3. ASSUME NEW c \in Conns, Receive(c) PROVE HubInv'
  BY <1>3 DEF Receive
<1>4. ASSUME NEW ev \in Events, Publish(ev) PROVE HubInv'
  <2>1. Full \subseteq subs
    BY DEF Full
  <2>2. QED
    BY <1>4, <2>1 DEF Publish, Drop
<1>5. ASSUME NEW l \in Loops, LoopReturn(l) PROVE HubInv'
  BY <1>5 DEF LoopReturn
<1>6. CASE Close
  BY <1>6 DEF Close, Drop, StopLoop
<1>7. CASE UNCHANGED vars
  BY <1>7 DEF vars
<1>8. QED
  BY <1>1, <1>2, <1>3, <1>4, <1>5, <1>6, <1>7
     DEF Next, EndOfStream, ClientGone, LoopPublish

LEMMA HubInvInit == Init => HubInv
<1>1. Init => TypeOK
  BY CapAssumption DEF Init, TypeOK
<1>2. QED
  BY <1>1, NoLoopAssumption
     DEF Init, HubInv, Bookkeeping, NothingNamedIsClosed, HandlerCanTell, IdleHubHasNoStop

\* The inductive invariant holds in every reachable state of the hub.
THEOREM HubInvariant == SafeSpec => []HubInv
  BY HubInvInit, HubInvStep, TypeCorrect, PTL DEF SafeSpec

-----------------------------------------------------------------------------
\* hub.go never sends on a closed channel and never closes one twice: what the
\* subscriber map and h.stop name is open, whatever drops, unsubs and Close
\* came before, for any number of connections.
THEOREM NoPanic == SafeSpec => []NothingNamedIsClosed
<1>1. HubInv => NothingNamedIsClosed
  BY DEF HubInv
<1>2. QED
  BY <1>1, HubInvariant, PTL

\* While somebody is subscribed a poll loop runs that nobody told to stop.
THEOREM SubscribersArePolled == SafeSpec => []WatchedIsPolled
<1>1. HubInv => WatchedIsPolled
  BY DEF HubInv, TypeOK, Bookkeeping, NothingNamedIsClosed, WatchedIsPolled
<1>2. QED
  BY <1>1, HubInvariant, PTL

\* A handler that was removed from the map finds its channel closed.
THEOREM RemovalIsVisible == SafeSpec => []HandlerCanTell
<1>1. HubInv => HandlerCanTell
  BY DEF HubInv
<1>2. QED
  BY <1>1, HubInvariant, PTL

\* When the last handler has run its unsub, the hub names no loop any more.
THEOREM IdleHubStops == SafeSpec => []IdleHubHasNoStop
<1>1. HubInv => IdleHubHasNoStop
  BY DEF HubInv
<1>2. QED
  BY <1>1, HubInvariant, PTL
-----------------------------------------------------------------------------
\* A step of the hub with its history is a step of the hub.
LEMMA HistoryStepIsHubStep == [HNext]_hvars => [Next]_vars
  BY DEF HNext, hvars, HSubscribe, HUnsub, HReceive, HPublish, HReturn, HClose,
         Next, ClientGone, EndOfStream, vars

LEMMA HistoryHasHubInv == HSpec => []HubInv
<1>1. HInit => Init
  BY DEF HInit
<1>2. HSpec => SafeSpec
  BY <1>1, HistoryStepIsHubStep, PTL DEF HSpec, SafeSpec
<1>3. QED
  BY <1>2, HubInvariant, PTL

\* A loop becomes an orphan when somebody subscribes to an empty map whose loop
\* still runs.  Nobody has been dropped then, but before: until it happens, the
\* loop that runs for nobody stands for the drop that emptied the map.  An
\* unsub or Close that empties the map stops the loop, and leaves none.
RunsForNobody == IF subs = {} /\ stop # NoLoop THEN 1 ELSE 0

OrphanInv ==
    /\ IsFiniteSet(subs) /\ IsFiniteSet(dropped) /\ IsFiniteSet(Orphans)
    /\ dropped \subseteq closed
    /\ Cardinality(Orphans) + RunsForNobody <= Cardinality(dropped)

LEMMA Counts ==
    ASSUME OrphanInv
    PROVE  Cardinality(Orphans) \in Nat /\ Cardinality(dropped) \in Nat /\ RunsForNobody \in {0, 1}
  BY FS_CardinalityType DEF OrphanInv, RunsForNobody

\* A connection is dropped once: what is in the map was not dropped before.
LEMMA DropCounts ==
    ASSUME OrphanInv, NothingNamedIsClosed, NEW S \in SUBSET subs
    PROVE  /\ IsFiniteSet(subs \ S) /\ IsFiniteSet(dropped \cup S)
           /\ Cardinality(dropped \cup S) \in Nat
           /\ Cardinality(dropped \cup S) >= Cardinality(dropped)
           /\ S # {} => Cardinality(dropped \cup S) >= Cardinality(dropped) + 1
<1>1. IsFiniteSet(S) /\ IsFiniteSet(subs \ S)
  BY FS_Subset DEF OrphanInv
<1>2. IsFiniteSet(dropped) /\ dropped \cap S = {}
  BY DEF OrphanInv, NothingNamedIsClosed
<1>3. IsFiniteSet(dropped \cup S) /\ Cardinality(dropped \cup S)
          = Cardinality(dropped) + Cardinality(S) - Cardinality(dropped \cap S)
  BY <1>1, <1>2, FS_Union
<1>4. Cardinality(dropped \cap S) = 0
  BY <1>2, FS_EmptySet
<1>5. Cardinality(S) \in Nat /\ (S # {} => Cardinality(S) # 0) /\ Cardinality(dropped) \in Nat
  BY <1>1, <1>2, FS_CardinalityType, FS_EmptySet
<1>6. QED
  BY <1>1, <1>3, <1>4, <1>5

\* Fewer orphans are no more.
LEMMA OrphansShrink ==
    ASSUME OrphanInv, Orphans' \subseteq Orphans
    PROVE  /\ IsFiniteSet(Orphans') /\ Cardinality(Orphans') \in Nat
           /\ Cardinality(Orphans') <= Cardinality(Orphans)
<1>1. IsFiniteSet(Orphans)
  BY DEF OrphanInv
<1>2. QED
  BY <1>1, FS_Subset, FS_CardinalityType

LEMMA OneMore ==
    ASSUME NEW S, NEW x, IsFiniteSet(S)
    PROVE  /\ IsFiniteSet(S \cup {x}) /\ Cardinality(S \cup {x}) \in Nat
           /\ Cardinality(S \cup {x}) <= Cardinality(S) + 1
<1>1. Cardinality(S) \in Nat
  BY FS_CardinalityType
<1>2. /\ IsFiniteSet(S \cup {x})
      /\ Cardinality(S \cup {x}) = IF x \in S THEN Cardinality(S) ELSE Cardinality(S) + 1
  BY FS_AddElement
<1>3. QED
  BY <1>1, <1>2

LEMMA OrphanStep == HubInv /\ OrphanInv /\ [HNext]_hvars => OrphanInv'
<1> SUFFICES ASSUME HubInv, OrphanInv, [HNext]_hvars PROVE OrphanInv'
  OBVIOUS
<1>0. TypeOK /\ Bookkeeping /\ NothingNamedIsClosed
  BY DEF HubInv
<1>1. ASSUME NEW c \in Conns, HSubscribe(c) PROVE OrphanInv'
  <2>1. IsFiniteSet(subs') /\ subs' # {} /\ UNCHANGED <<closed, stopped, dropped>>
    BY <1>1, FS_AddElement DEF HSubscribe, Subscribe, OrphanInv
  <2>2. RunsForNobody' = 0
    BY <2>1 DEF RunsForNobody
  <2>3. CASE FirstIn(c)
    <3>1. PICK l \in Loops : /\ loop[l] = "unborn"
                             /\ loop' = [loop EXCEPT ![l] = "running"]
                             /\ stop' = l
      BY <1>1, <2>3 DEF HSubscribe, Subscribe, StartLoop
    <3>2. subs = {}
      BY <1>0, <1>1, <2>3 DEF HSubscribe, Subscribe, FirstIn, Bookkeeping
    <3>3. CASE stop = NoLoop
      <4>1. Orphans' \subseteq Orphans
        BY <1>0, <2>1, <3>1, <3>3, NoLoopAssumption DEF Orphans, TypeOK
      <4>2. QED
        BY <2>1, <2>2, <4>1, OrphansShrink, Counts DEF OrphanInv
    <3>4. CASE stop # NoLoop
      <4>1. RunsForNobody = 1
        BY <3>2, <3>4 DEF RunsForNobody
      <4>2. Orphans' \subseteq Orphans \cup {stop}
        BY <1>0, <2>1, <3>1 DEF Orphans, TypeOK
      <4>3. /\ IsFiniteSet(Orphans \cup {stop})
            /\ Cardinality(Orphans \cup {stop}) \in Nat
            /\ Cardinality(Orphans \cup {stop}) <= Cardinality(Orphans) + 1
        BY OneMore, Counts DEF OrphanInv
      <4>4. /\ IsFiniteSet(Orphans') /\ Cardinality(Orphans') \in Nat
            /\ Cardinality(Orphans') <= Cardinality(Orphans \cup {stop})
        BY <4>2, <4>3, FS_Subset, FS_CardinalityType
      <4>5. QED
        BY <2>1, <2>2, <4>1, <4>3, <4>4, Counts DEF OrphanInv
    <3>5. QED
      BY <3>3, <3>4
  <2>4. CASE ~FirstIn(c)
    <3>1. Orphans' = Orphans
      BY <1>1, <2>1, <2>4 DEF HSubscribe, Subscribe, Orphans
    <3>2. QED
      BY <2>1, <2>2, <3>1, Counts DEF OrphanInv
  <2>5. QED
    BY <2>3, <2>4
<1>2. ASSUME NEW c \in Conns, Unsub(c), UNCHANGED history PROVE OrphanInv'
  <2>1. /\ subs' = subs \ (subs \cap {c}) /\ closed \subseteq closed'
        /\ UNCHANGED loop /\ dropped' = dropped
    BY <1>2 DEF Unsub, Drop, history
  <2>2. IsFiniteSet(subs')
    BY <2>1, FS_Subset DEF OrphanInv
  <2>3. CASE LastOut(c)
    <3>1. Orphans' \subseteq Orphans
      BY <1>2, <2>3, <2>1 DEF Unsub, StopLoop, Orphans
    <3>2. RunsForNobody' = 0
      BY <1>2, <2>3 DEF Unsub, StopLoop, RunsForNobody
    <3>3. QED
      BY <2>1, <2>2, <3>1, <3>2, OrphansShrink, Counts DEF OrphanInv
  <2>4. CASE ~LastOut(c)
    <3>1. Orphans' = Orphans
      BY <1>2, <2>4, <2>1 DEF Unsub, Orphans
    <3>2. RunsForNobody' = 0
      BY <2>4 DEF LastOut, RunsForNobody
    <3>3. QED
      BY <2>1, <2>2, <3>1, <3>2, Counts DEF OrphanInv
  <2>5. QED
    BY <2>3, <2>4
<1>3. ASSUME NEW c \in Conns, HReceive(c) PROVE OrphanInv'
  BY <1>3 DEF HReceive, Receive, OrphanInv, Orphans, RunsForNobody
<1>4. ASSUME NEW l \in Loops, NEW ev \in Events, HPublish(l, ev) PROVE OrphanInv'
  <2>1. Full \subseteq subs /\ Drop(Full) /\ subs \ subs' = Full
    BY <1>4 DEF Full, HPublish, LoopPublish, Publish, Drop
  <2>2. Orphans' = Orphans /\ stop' = stop /\ dropped' = dropped \cup Full
    BY <1>4, <2>1 DEF HPublish, LoopPublish, Publish, Orphans
  <2>3. dropped' \subseteq closed' /\ subs' = subs \ Full
    BY <2>1, <2>2 DEF Drop, OrphanInv
  <2>4. CASE Full = {}
    <3>1. subs' = subs /\ dropped' = dropped
      BY <2>2, <2>3, <2>4
    <3>2. QED
      BY <2>2, <2>3, <3>1 DEF OrphanInv, RunsForNobody
  <2>5. CASE Full # {}
    <3>1. RunsForNobody = 0
      BY <2>1, <2>5 DEF RunsForNobody
    <3>2. RunsForNobody' \in {0, 1}
      BY DEF RunsForNobody
    <3>3. /\ IsFiniteSet(subs') /\ IsFiniteSet(dropped')
          /\ Cardinality(dropped') \in Nat
          /\ Cardinality(dropped') >= Cardinality(dropped) + 1
      BY <1>0, <2>1, <2>2, <2>3, <2>5, DropCounts
    <3>4. QED
      BY <2>2, <2>3, <3>1, <3>2, <3>3, Counts DEF OrphanInv
  <2>6. QED
    BY <2>4, <2>5
<1>5. ASSUME NEW l \in Loops, HReturn(l) PROVE OrphanInv'
  <2>1. Orphans' \subseteq Orphans /\ UNCHANGED <<subs, closed, stop, dropped>>
    BY <1>0, <1>5 DEF HReturn, LoopReturn, Orphans, TypeOK, history
  <2>2. QED
    BY <2>1, OrphansShrink, Counts DEF OrphanInv, RunsForNobody
<1>6. CASE HClose
  <2>1. /\ closed \subseteq closed' /\ Orphans' \subseteq Orphans
        /\ subs' = {} /\ dropped' = dropped
    BY <1>6 DEF HClose, Close, Drop, StopLoop, Orphans
  <2>2. RunsForNobody' = 0
    BY <1>6 DEF HClose, Close, StopLoop, RunsForNobody
  <2>3. QED
    BY <2>1, <2>2, OrphansShrink, Counts, FS_EmptySet DEF OrphanInv
<1>7. CASE UNCHANGED hvars
  BY <1>7 DEF hvars, vars, history, OrphanInv, Orphans, RunsForNobody
<1>8. QED
  BY <1>1, <1>2, <1>3, <1>4, <1>5, <1>6, <1>7
     DEF HNext, HUnsub, EndOfStream, ClientGone

\* The loops that run for ever with nobody to stop them are never more than the
\* viewers whom Publish dropped: a handler that leaves of its own accord, or is
\* cut off by Close, never costs the hub a loop.
THEOREM OrphansAreBounded == HSpec => []OrphansAreOwedToDrops
<1>1. HInit => OrphanInv
  <2>1. HInit => subs = {} /\ closed = {} /\ dropped = {} /\ Orphans = {} /\ RunsForNobody = 0
    BY DEF HInit, Init, Orphans, RunsForNobody
  <2>2. QED
    BY <2>1, FS_EmptySet DEF OrphanInv
<1>2. OrphanInv => OrphansAreOwedToDrops
  BY Counts DEF OrphanInv, OrphansAreOwedToDrops
<1>3. QED
  BY <1>1, <1>2, OrphanStep, HistoryHasHubInv, PTL DEF HSpec

-----------------------------------------------------------------------------
(***************************************************************************)
(* With its history the hub implements Broadcast.                          *)
(***************************************************************************)

HistoryTypeOK ==
    /\ log \in Seq(Events)
    /\ from \in [Conns -> Nat]
    /\ till \in [Conns -> Nat]
    /\ seen \in [Conns -> Seq(Events)]

\* What a handler received is the log from its subscription on.
SeenFollowsLog ==
    \A c \in Conns : conn[c] # "new" =>
        \A i \in 1..Len(seen[c]) : from[c] + i <= Len(log) /\ seen[c][i] = log[from[c] + i]

HistoryInv ==
    /\ HubInv
    /\ HistoryTypeOK
    /\ BufferContinuesSeen
    /\ SeenFollowsLog
    /\ \A c \in Conns : till[c] <= Len(log)
    /\ \A c \in Conns : conn[c] = "new" => chan[c] = <<>> /\ seen[c] = <<>>

-----------------------------------------------------------------------------
\* The buffer of an open connection stays the continuation of what its handler
\* received: Publish extends the log and the buffers by the same event, or
\* closes a connection with the log as it was; Receive moves one event across.
LEMMA HistoryInvStep == HistoryInv /\ HubInv' /\ [HNext]_hvars => HistoryInv'
<1> SUFFICES ASSUME HistoryInv, HubInv', [HNext]_hvars PROVE HistoryInv'
  OBVIOUS
<1> USE DEF HistoryInv, HistoryTypeOK
<1>0. TypeOK /\ Bookkeeping /\ TypeOK'
  BY DEF HubInv
<1>1. ASSUME NEW c \in Conns, HSubscribe(c) PROVE HistoryInv'
  <2>1. chan[c] = <<>> /\ seen[c] = <<>> /\ c \in subs'
    BY <1>1 DEF HSubscribe, Subscribe
  <2>2. HistoryTypeOK'
    BY <1>1 DEF HSubscribe
  <2>3. UNCHANGED <<log, chan, seen, till>>
    BY <1>1 DEF HSubscribe, Subscribe
  <2>4. \A d \in Conns : d # c => /\ from'[d] = from[d]
                                  /\ conn'[d] = conn[d]
                                  /\ d \in subs' <=> d \in subs
    BY <1>0, <1>1 DEF HSubscribe, Subscribe, TypeOK
  <2>5. from'[c] = Len(log) /\ conn'[c] = "open"
    BY <1>0, <1>1 DEF HSubscribe, Subscribe, TypeOK
  <2>6. ASSUME NEW d \in Conns, conn'[d] = "open"
        PROVE  Continues(d)'
    <3>1. CASE d = c
      <4>1. Len(seen'[c]) = 0 /\ Len(chan'[c]) = 0 /\ Len(log) \in Nat
        BY <2>1, <2>3
      <4>2. from'[c] + 0 + 0 = Len(log')
        BY <2>3, <2>5, <4>1
      <4>3. QED
        BY <2>1, <3>1, <4>1, <4>2 DEF Continues
    <3>2. CASE d # c
      <4>1. Continues(d)
        BY <2>4, <2>6, <3>2 DEF BufferContinuesSeen
      <4>2. QED
        BY <2>3, <2>4, <3>2, <4>1 DEF Continues
    <3>3. QED
      BY <3>1, <3>2
  <2>7. BufferContinuesSeen'
    BY <2>6 DEF BufferContinuesSeen
  <2>8. SeenFollowsLog'
    <3> SUFFICES ASSUME NEW d \in Conns, conn'[d] # "new", NEW i \in 1..Len(seen[d])
                 PROVE  from'[d] + i <= Len(log) /\ seen[d][i] = log[from'[d] + i]
      BY <2>3 DEF SeenFollowsLog
    <3>1. d # c
      BY <2>1
    <3>2. QED
      BY <2>4, <3>1 DEF SeenFollowsLog
  <2>9. QED
    BY <2>2, <2>3, <2>4, <2>5, <2>7, <2>8
<1>2. ASSUME NEW c \in Conns, HUnsub(c) PROVE HistoryInv'
  <2>1. UNCHANGED <<log, chan, seen, from, till>>
    BY <1>2 DEF HUnsub, EndOfStream, ClientGone, Unsub, history
  <2>2. \A d \in Conns : conn'[d] \in {"new", "open"} =>
            conn[d] = conn'[d] /\ (d \in subs' <=> d \in subs)
    BY <1>0, <1>2 DEF HUnsub, EndOfStream, ClientGone, Unsub, Drop, TypeOK
  <2>3. ASSUME NEW d \in Conns, conn'[d] = "open"
        PROVE  Continues(d)'
    <3>1. Continues(d) /\ (d \in subs' <=> d \in subs)
      BY <2>2, <2>3 DEF BufferContinuesSeen
    <3>2. QED
      BY <2>1, <3>1 DEF Continues
  <2>4. BufferContinuesSeen'
    BY <2>3 DEF BufferContinuesSeen
  <2>5. \A d \in Conns : conn'[d] # "new" => conn[d] # "new"
    BY <1>0, <1>2 DEF HUnsub, EndOfStream, ClientGone, Unsub, TypeOK
  <2>6. SeenFollowsLog'
    BY <2>1, <2>5 DEF SeenFollowsLog
  <2>7. QED
    BY <2>1, <2>2, <2>4, <2>6
<1>3. ASSUME NEW c \in Conns, HReceive(c) PROVE HistoryInv'
  <2>1. /\ chan[c] \in Seq(Events) /\ chan[c] # <<>>
        /\ chan'[c] = Tail(chan[c]) /\ seen'[c] = Append(seen[c], Head(chan[c]))
        /\ \A d \in Conns : d # c => chan'[d] = chan[d] /\ seen'[d] = seen[d]
        /\ UNCHANGED <<log, from, till, subs, conn>>
        /\ conn[c] = "open"
    BY <1>0, <1>3 DEF HReceive, Receive, TypeOK
  <2>2. seen' \in [Conns -> Seq(Events)]
    <3>1. Append(seen[c], Head(chan[c])) \in Seq(Events)
      BY <2>1
    <3>2. QED
      BY <1>3, <3>1 DEF HReceive
  <2>3. ASSUME NEW d \in Conns, conn[d] = "open"
        PROVE  Continues(d)'
    <3>1. CASE d = c
      <4>1. /\ Len(chan'[c]) = Len(chan[c]) - 1 /\ Len(seen'[c]) = Len(seen[c]) + 1
            /\ \A i \in 1..Len(chan'[c]) : i + 1 \in 1..Len(chan[c]) /\ chan'[c][i] = chan[c][i + 1]
        BY <2>1, SMTT(30)
      <4>2. /\ from[c] \in Nat /\ Len(seen[c]) \in Nat /\ Len(chan[c]) \in Nat
        BY <2>1
      <4>3. /\ from[c] + Len(seen[c]) + Len(chan[c]) = IF c \in subs THEN Len(log) ELSE till[c]
            /\ \A i \in 1..Len(chan[c]) : chan[c][i] = log[from[c] + Len(seen[c]) + i]
        BY <2>1 DEF BufferContinuesSeen, Continues
      <4>4. from[c] + Len(seen'[c]) + Len(chan'[c]) = IF c \in subs THEN Len(log) ELSE till[c]
        BY <4>1, <4>2, <4>3
      <4>5. \A i \in 1..Len(chan'[c]) : chan'[c][i] = log[from[c] + Len(seen'[c]) + i]
        <5> TAKE i \in 1..Len(chan'[c])
        <5>1. chan'[c][i] = log[from[c] + Len(seen[c]) + (i + 1)]
          BY <4>1, <4>3
        <5>2. from[c] + Len(seen[c]) + (i + 1) = from[c] + Len(seen'[c]) + i
          BY <4>1, <4>2
        <5>3. QED
          BY <5>1, <5>2
      <4>6. QED
        BY <2>1, <3>1, <4>4, <4>5 DEF Continues
    <3>2. CASE d # c
      <4>1. chan'[d] = chan[d] /\ seen'[d] = seen[d]
        BY <2>1, <3>2
      <4>2. QED
        BY <2>1, <2>3, <4>1 DEF BufferContinuesSeen, Continues
    <3>3. QED
      BY <3>1, <3>2
  <2>4. BufferContinuesSeen'
    BY <2>1, <2>3 DEF BufferContinuesSeen
  <2>5. SeenFollowsLog'
    <3> SUFFICES ASSUME NEW d \in Conns, conn[d] # "new", NEW i \in 1..Len(seen'[d])
                 PROVE  from[d] + i <= Len(log) /\ seen'[d][i] = log[from[d] + i]
      BY <2>1 DEF SeenFollowsLog
    <3>1. CASE d = c /\ i = Len(seen[c]) + 1
      <4>1. 1 \in 1..Len(chan[c]) /\ Head(chan[c]) = chan[c][1]
        BY <2>1
      <4>2. /\ chan[c][1] = log[from[c] + Len(seen[c]) + 1]
            /\ from[c] + Len(seen[c]) + Len(chan[c]) <= Len(log)
        <5>1. Continues(c)
          BY <2>1 DEF BufferContinuesSeen
        <5>2. till[c] <= Len(log) /\ Len(log) \in Nat
          OBVIOUS
        <5>3. chan[c][1] = log[from[c] + Len(seen[c]) + 1]
          BY <4>1, <5>1 DEF Continues
        <5>4. from[c] + Len(seen[c]) + Len(chan[c]) = IF c \in subs THEN Len(log) ELSE till[c]
          BY <5>1 DEF Continues
        <5>5. QED
          BY <5>2, <5>3, <5>4
      <4>3. seen'[c][i] = Head(chan[c])
        BY <2>1, <3>1
      <4>4. /\ from[c] + i = from[c] + Len(seen[c]) + 1
            /\ from[c] + Len(seen[c]) + 1 <= Len(log)
        <5>1. /\ from[c] \in Nat /\ Len(seen[c]) \in Nat /\ Len(log) \in Nat
              /\ Len(chan[c]) \in Nat /\ Len(chan[c]) >= 1
          BY <2>1, <4>1
        <5>2. \A f, n, k, m \in Nat : f + n + k <= m /\ k >= 1 =>
                  f + (n + 1) = f + n + 1 /\ f + n + 1 <= m
          OBVIOUS
        <5>3. QED
          BY <3>1, <4>2, <5>1, <5>2
      <4>5. QED
        BY <3>1, <4>1, <4>2, <4>3, <4>4
    <3>2. CASE ~(d = c /\ i = Len(seen[c]) + 1)
      <4>1. i \in 1..Len(seen[d]) /\ seen'[d][i] = seen[d][i]
        <5>1. CASE d = c
          <6>1. seen[c] \in Seq(Events) /\ Head(chan[c]) \in Events /\ i # Len(seen[c]) + 1
            BY <2>1, <3>2, <5>1
          <6>2. seen'[c] = Append(seen[c], Head(chan[c])) /\ i \in 1..Len(seen[c]) + 1
            BY <2>1, <5>1, <6>1
          <6>3. QED
            BY <5>1, <6>1, <6>2
        <5>2. CASE d # c
          BY <2>1, <5>2
        <5>3. QED
          BY <5>1, <5>2
      <4>2. QED
        BY <4>1 DEF SeenFollowsLog
    <3>3. QED
      BY <3>1, <3>2
  <2>6. QED
    BY <2>1, <2>2, <2>4, <2>5
<1>4. ASSUME NEW l \in Loops, NEW ev \in Events, HPublish(l, ev) PROVE HistoryInv'
  <2>1. /\ log' = Append(log, ev) /\ log' \in Seq(Events)
        /\ Len(log') = Len(log) + 1
        /\ \A i \in 1..Len(log) : log'[i] = log[i]
        /\ log'[Len(log) + 1] = ev
    BY <1>4 DEF HPublish
  <2>2. /\ \A d \in Conns : chan'[d] = IF d \in subs \ Full THEN Append(chan[d], ev) ELSE chan[d]
        /\ subs' = subs \ Full
        /\ UNCHANGED <<conn, from, seen>>
    BY <1>4 DEF HPublish, LoopPublish, Publish, Drop
  <2>3. \A d \in Conns : till'[d] = IF d \in subs \cap Full THEN Len(log) ELSE till[d]
    BY <1>4, <2>2 DEF HPublish, NoteClosed
  <2>4. HistoryTypeOK'
    <3>1. till' \in [Conns -> Nat]
      BY <1>4 DEF HPublish, NoteClosed
    <3>2. QED
      BY <2>1, <2>2, <3>1
  <2>5. ASSUME NEW d \in Conns, conn[d] = "open"
        PROVE  Continues(d)'
    <3> DEFINE n == from[d] + Len(seen[d])
    <3>1. /\ n \in Nat /\ chan[d] \in Seq(Events) /\ Len(chan[d]) \in Nat /\ Len(log) \in Nat
      BY <1>0 DEF TypeOK
    <3>2. /\ n + Len(chan[d]) = IF d \in subs THEN Len(log) ELSE till[d]
          /\ \A i \in 1..Len(chan[d]) : chan[d][i] = log[n + i]
      BY <2>5 DEF BufferContinuesSeen, Continues
    <3>3. CASE d \in subs \ Full
      <4>1. /\ chan'[d] = Append(chan[d], ev) /\ Len(chan'[d]) = Len(chan[d]) + 1
            /\ \A i \in 1..Len(chan[d]) : chan'[d][i] = chan[d][i]
            /\ chan'[d][Len(chan[d]) + 1] = ev
        <5>1. chan'[d] = Append(chan[d], ev)
          BY <2>2, <3>3
        <5>2. Len(Append(chan[d], ev)) = Len(chan[d]) + 1
          BY <3>1
        <5>3. \A i \in 1..Len(chan[d]) : Append(chan[d], ev)[i] = chan[d][i]
          BY <3>1
        <5>4. Append(chan[d], ev)[Len(chan[d]) + 1] = ev
          BY <3>1
        <5>5. QED
          BY <5>1, <5>2, <5>3, <5>4
      <4>2. n + Len(chan'[d]) = Len(log')
        <5>1. n + Len(chan[d]) = Len(log)
          BY <3>2, <3>3
        <5>2. Len(chan'[d]) = Len(chan[d]) + 1 /\ Len(log') = Len(log) + 1
          BY <2>1, <4>1
        <5>3. QED
          BY <3>1, <5>1, <5>2, SMTT(30)
      <4>3. \A i \in 1..Len(chan'[d]) : chan'[d][i] = log'[n + i]
        <5> TAKE i \in 1..Len(chan'[d])
        <5>1. CASE i \in 1..Len(chan[d])
          <6>1. n + i \in 1..Len(log)
            BY <3>1, <3>2, <3>3, <5>1, SMTT(30)
          <6>2. QED
            BY <2>1, <3>2, <4>1, <5>1, <6>1
        <5>2. CASE i = Len(chan[d]) + 1
          <6>0. n + Len(chan[d]) = Len(log)
            BY <3>2, <3>3
          <6>1. n + i = Len(log) + 1
            <7>1. \A p, q, r \in Nat : p + q = r => p + (q + 1) = r + 1
              OBVIOUS
            <7>2. QED
              BY <3>1, <5>2, <6>0, <7>1
          <6>2. QED
            BY <2>1, <4>1, <5>2, <6>1
        <5>3. QED
          BY <3>1, <4>1, <5>1, <5>2
      <4>4. QED
        BY <2>2, <3>3, <4>2, <4>3 DEF Continues
    <3>4. CASE d \notin subs \ Full
      <4>1. chan'[d] = chan[d] /\ d \notin subs'
        BY <2>2, <3>4
      <4>2. n + Len(chan[d]) = till'[d]
        BY <2>3, <3>2, <3>4
      <4>3. till'[d] <= Len(log) => \A i \in 1..Len(chan[d]) : chan'[d][i] = log'[n + i]
        <5> SUFFICES ASSUME till'[d] <= Len(log), NEW i \in 1..Len(chan[d])
                     PROVE  chan'[d][i] = log'[n + i]
          OBVIOUS
        <5>1. n + i \in 1..Len(log)
          BY <3>1, <4>2
        <5>2. QED
          BY <2>1, <3>2, <4>1, <5>1
      <4>4. till'[d] <= Len(log)
        BY <2>3, <2>5, <3>1, <3>4
      <4>5. QED
        BY <2>2, <4>1, <4>2, <4>3, <4>4 DEF Continues
    <3>5. QED
      BY <3>3, <3>4
  <2>6. BufferContinuesSeen'
    BY <2>2, <2>5 DEF BufferContinuesSeen
  <2>7. \A d \in Conns : conn[d] = "new" => d \notin subs
    BY <1>0 DEF Bookkeeping
  <2>8. \A d \in Conns : till'[d] <= Len(log')
    <3>1. Len(log) \in Nat /\ \A d \in Conns : till[d] \in Nat
      OBVIOUS
    <3>2. QED
      BY <2>1, <2>3, <3>1
  <2>9. \A d \in Conns : conn'[d] = "new" => chan'[d] = <<>> /\ seen'[d] = <<>>
    BY <2>2, <2>7
  <2>10. SeenFollowsLog'
    <3> SUFFICES ASSUME NEW d \in Conns, conn[d] # "new", NEW i \in 1..Len(seen[d])
                 PROVE  from[d] + i <= Len(log') /\ seen[d][i] = log'[from[d] + i]
      BY <2>2 DEF SeenFollowsLog
    <3>1. from[d] + i <= Len(log) /\ seen[d][i] = log[from[d] + i]
      BY DEF SeenFollowsLog
    <3>2. from[d] + i \in 1..Len(log)
      BY <3>1
    <3>3. QED
      BY <2>1, <3>1, <3>2
  <2>11. QED
    BY <2>4, <2>6, <2>8, <2>9, <2>10
<1>5. ASSUME NEW l \in Loops, HReturn(l) PROVE HistoryInv'
  <2>1. UNCHANGED <<subs, chan, conn, log, from, till, seen>>
    BY <1>5 DEF HReturn, LoopReturn, history
  <2>2. BufferContinuesSeen'
    BY <2>1 DEF BufferContinuesSeen, Continues
  <2>3. SeenFollowsLog'
    BY <2>1 DEF SeenFollowsLog
  <2>4. QED
    BY <2>1, <2>2, <2>3
<1>6. CASE HClose
  <2>1. UNCHANGED <<chan, conn, log, from, seen>>
    BY <1>6 DEF HClose, Close
  <2>2. SeenFollowsLog'
    BY <2>1 DEF SeenFollowsLog
  <2>3. QED
    BY <1>0, <1>6, <2>2
       DEF HClose, Close, Drop, NoteClosed, Bookkeeping, BufferContinuesSeen, Continues
<1>7. CASE UNCHANGED hvars
  <2>1. UNCHANGED <<subs, chan, conn, log, from, till, seen>>
    BY <1>7 DEF hvars, history, vars
  <2>2. BufferContinuesSeen'
    BY <2>1 DEF BufferContinuesSeen, Continues
  <2>3. SeenFollowsLog'
    BY <2>1 DEF SeenFollowsLog
  <2>4. QED
    BY <2>1, <2>2, <2>3
<1>8. QED
  BY <1>1, <1>2, <1>3, <1>4, <1>5, <1>6, <1>7 DEF HNext

\* The inductive invariant of the hub with its history.
THEOREM HistoryInvariant == HSpec => []HistoryInv
<1>1. HInit => HistoryInv
  <2> SUFFICES ASSUME HInit PROVE HistoryInv
    OBVIOUS
  <2>1. HubInv
    BY HubInvInit DEF HInit
  <2>2. log = <<>> /\ Len(log) = 0 /\ \A c \in Conns : till[c] = 0
    BY DEF HInit
  <2>3. HistoryTypeOK
    BY DEF HInit, HistoryTypeOK
  <2>4. \A c \in Conns : conn[c] = "new" /\ chan[c] = <<>> /\ seen[c] = <<>>
    BY DEF HInit, Init
  <2>5. QED
    BY <2>1, <2>2, <2>3, <2>4 DEF HistoryInv, BufferContinuesSeen, SeenFollowsLog
<1>2. QED
  BY <1>1, HistoryInvStep, HistoryHasHubInv, PTL DEF HSpec

\* What is buffered for a handler always continues what it received.
THEOREM StreamsHaveNoGap == HSpec => []BufferContinuesSeen
<1>1. HistoryInv => BufferContinuesSeen
  BY DEF HistoryInv
<1>2. QED
  BY <1>1, HistoryInvariant, PTL

\* What a handler received is what was published from its subscription on,
\* also after it was cut off and after it has returned.
THEOREM StreamsFollowTheLog == HSpec => []SeenFollowsLog
<1>1. HistoryInv => SeenFollowsLog
  BY DEF HistoryInv
<1>2. QED
  BY <1>1, HistoryInvariant, PTL

-----------------------------------------------------------------------------
LEMMA StateOfValues ==
    ASSUME TypeOK, NEW c \in Conns
    PROVE  /\ StateOf(c) = "out" <=> conn[c] = "new"
           /\ StateOf(c) = "in" <=> conn[c] = "open" /\ c \in subs
           /\ StateOf(c) = "cut" <=> conn[c] = "open" /\ c \notin subs
           /\ StateOf(c) = "left" <=> conn[c] = "done"
           /\ StateOf(c) \in {"out", "in", "cut", "left"}
  BY DEF StateOf, TypeOK

\* Publish and Close cut off exactly the connections they take from the map.
LEMMA RemovalCutsOff ==
    ASSUME HistoryInv, TypeOK', NoteClosed, UNCHANGED conn, subs' \subseteq subs
    PROVE  \E S \in SUBSET Conns : B!CutOff(S)
<1> DEFINE S == subs \ subs'
<1>1. TypeOK /\ S \in SUBSET Conns /\ \A c \in subs : conn[c] = "open"
  BY DEF HistoryInv, HubInv, TypeOK, Bookkeeping
<1>2. \A c \in S : StateOf(c) = "in"
  BY <1>1, StateOfValues
<1>3. \A c \in Conns : StateOf(c)' = IF c \in S THEN "cut" ELSE StateOf(c)
  BY <1>1 DEF StateOf, TypeOK
<1>4. till' = [c \in Conns |-> IF c \in S THEN Len(log) ELSE till[c]]
  BY DEF NoteClosed
<1>5. B!CutOff(S)
  BY <1>1, <1>2, <1>3, <1>4 DEF B!CutOff
<1>6. QED
  BY <1>1, <1>5

\* Every step of the hub is a step of Broadcast or leaves it unchanged.
LEMMA HubStepIsBroadcastStep ==
    HistoryInv /\ HistoryInv' /\ [HNext]_hvars => [B!BNext]_(B!bvars)
<1> SUFFICES ASSUME HistoryInv, HistoryInv', [HNext]_hvars PROVE [B!BNext]_(B!bvars)
  OBVIOUS
<1>0. TypeOK /\ Bookkeeping /\ TypeOK' /\ HistoryTypeOK
  BY DEF HistoryInv, HubInv
<1>1. ASSUME NEW c \in Conns, HSubscribe(c) PROVE B!Join(c)
  <2>1. StateOf(c) = "out" /\ StateOf(c)' = "in"
    BY <1>0, <1>1 DEF HSubscribe, Subscribe, StateOf, TypeOK
  <2>2. \A d \in Conns : d # c => StateOf(d)' = StateOf(d)
    BY <1>0, <1>1 DEF HSubscribe, Subscribe, StateOf, TypeOK
  <2>3. QED
    BY <1>1, <2>1, <2>2 DEF B!Join, HSubscribe
<1>2. ASSUME NEW c \in Conns, HUnsub(c) PROVE B!Leave(c)
  <2>1. StateOf(c) \in {"in", "cut"} /\ StateOf(c)' = "left"
    BY <1>0, <1>2 DEF HUnsub, EndOfStream, ClientGone, Unsub, StateOf, TypeOK
  <2>2. \A d \in Conns : d # c => StateOf(d)' = StateOf(d)
    BY <1>0, <1>2 DEF HUnsub, EndOfStream, ClientGone, Unsub, Drop, StateOf, TypeOK
  <2>3. QED
    BY <1>2, <2>1, <2>2 DEF B!Leave, HUnsub, EndOfStream, ClientGone, history
<1>3. ASSUME NEW c \in Conns, HReceive(c) PROVE B!See(c)
  <2>1. UNCHANGED <<conn, subs, log, from, till>> /\ conn[c] = "open" /\ chan[c] # <<>>
    BY <1>3 DEF HReceive, Receive
  <2>2. \A d \in Conns : StateOf(d)' = StateOf(d)
    BY <2>1 DEF StateOf
  <2>3. StateOf(c) \in {"in", "cut"} /\ (StateOf(c) = "in" <=> c \in subs)
    BY <1>0, <2>1, StateOfValues
  <2>4. Len(chan[c]) \in Nat \ {0} /\ Head(chan[c]) = chan[c][1]
    BY <1>0, <2>1 DEF TypeOK
  <2>5. Continues(c)
    BY <2>1 DEF HistoryInv, BufferContinuesSeen
  <2>6. from[c] + Len(seen[c]) + Len(chan[c]) = B!Owed(c)
    BY <2>3, <2>5 DEF B!Owed, Continues
  <2>7. from[c] + Len(seen[c]) \in Nat
    BY <1>0 DEF HistoryTypeOK
  <2>8. from[c] + Len(seen[c]) < B!Owed(c)
    BY <2>4, <2>6, <2>7
  <2>9. Head(chan[c]) = log[from[c] + Len(seen[c]) + 1]
    BY <2>4, <2>5 DEF Continues
  <2>10. seen' = [seen EXCEPT ![c] = Append(@, log[from[c] + Len(@) + 1])]
    BY <1>0, <1>3, <2>9 DEF HReceive, HistoryTypeOK
  <2>11. QED
    BY <2>1, <2>2, <2>3, <2>8, <2>10 DEF B!See
<1>4. ASSUME NEW l \in Loops, NEW ev \in Events, HPublish(l, ev) PROVE B!Announce(ev)
  <2>1. UNCHANGED conn /\ subs' \subseteq subs /\ NoteClosed
    BY <1>4 DEF HPublish, LoopPublish, Publish, Drop
  <2>2. \E S \in SUBSET Conns : B!CutOff(S)
    BY <1>0, <2>1, RemovalCutsOff
  <2>3. QED
    BY <1>4, <2>2 DEF B!Announce, HPublish
<1>5. ASSUME NEW l \in Loops, HReturn(l) PROVE UNCHANGED B!bvars
  BY <1>5 DEF HReturn, LoopReturn, history, B!bvars, StateOf
<1>6. ASSUME HClose PROVE B!Shut
  <2>1. UNCHANGED conn /\ subs' \subseteq subs /\ NoteClosed
    BY <1>6 DEF HClose, Close, Drop
  <2>2. \E S \in SUBSET Conns : B!CutOff(S)
    BY <1>0, <2>1, RemovalCutsOff
  <2>3. QED
    BY <1>6, <2>2 DEF B!Shut, HClose
<1>7. ASSUME UNCHANGED hvars PROVE UNCHANGED B!bvars
  BY <1>7 DEF hvars, history, vars, B!bvars, StateOf
<1>8. QED
  BY <1>1, <1>2, <1>3, <1>4, <1>5, <1>6, <1>7 DEF HNext, B!BNext

\* A stream hands its client the published events in order and without a gap
\* from its subscription on, until it is cut off: the hub implements Broadcast.
THEOREM HubImplementsBroadcast == HSpec => ImplementsBroadcast
<1>1. HInit => B!BInit
  BY DEF HInit, Init, B!BInit, StateOf
<1>2. QED
  BY <1>1, HubStepIsBroadcastStep, HistoryInvariant, PTL DEF HSpec, B!BSpec, ImplementsBroadcast
=============================================================================
