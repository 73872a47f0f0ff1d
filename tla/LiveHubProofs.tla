--------------------------- MODULE LiveHubProofs ---------------------------
(***************************************************************************)
(* The Now Playing subsystem implements HubSubs, so that what is proved of *)
(* HubSubs holds of it: for any number of streams, plain requests and poll *)
(* loops, and any buffer size.                                             *)
(***************************************************************************)
EXTENDS LiveHubHistory, TLAPS

HP == INSTANCE HubProofs WITH Events <- Event

USE DEF telling

-----------------------------------------------------------------------------
\* HP and H are the same instance of HubSubs; the prover has to be told.
LEMMA SameHubSteps ==
    /\ \A c \in Conns : /\ H!Subscribe(c) <=> HP!Subscribe(c)
                        /\ H!Receive(c) <=> HP!Receive(c)
                        /\ H!EndOfStream(c) <=> HP!EndOfStream(c)
                        /\ H!ClientGone(c) <=> HP!ClientGone(c)
    /\ \A l \in Loops : /\ H!LoopReturn(l) <=> HP!LoopReturn(l)
                        /\ \A ev \in Event : H!LoopPublish(l, ev) <=> HP!LoopPublish(l, ev)
    /\ H!Close <=> HP!Close
<1> USE DEF H!Drop, HP!Drop, H!StopLoop, HP!StopLoop, H!Full, HP!Full
<1>1. ASSUME NEW c PROVE H!Subscribe(c) <=> HP!Subscribe(c)
  BY DEF H!Subscribe, HP!Subscribe, H!FirstIn, HP!FirstIn, H!StartLoop, HP!StartLoop
<1>2. ASSUME NEW c PROVE H!Unsub(c) <=> HP!Unsub(c)
  BY DEF H!Unsub, HP!Unsub, H!LastOut, HP!LastOut
<1>3. ASSUME NEW c PROVE H!Receive(c) <=> HP!Receive(c)
  BY DEF H!Receive, HP!Receive
<1>4. ASSUME NEW ev PROVE H!Publish(ev) <=> HP!Publish(ev)
  BY DEF H!Publish, HP!Publish
<1>5. ASSUME NEW l PROVE H!LoopReturn(l) <=> HP!LoopReturn(l)
  BY DEF H!LoopReturn, HP!LoopReturn
<1>6. H!Close <=> HP!Close
  BY DEF H!Close, HP!Close
<1>7. QED
  BY <1>1, <1>2, <1>3, <1>4, <1>5, <1>6
     DEF H!EndOfStream, HP!EndOfStream, H!ClientGone, HP!ClientGone, H!LoopPublish, HP!LoopPublish

\* Hence what the two say of a state, and of a step, is the same.
LEMMA SameHub ==
    /\ H!TypeOK <=> HP!TypeOK
    /\ H!Init <=> HP!Init
    /\ H!vars = HP!vars
    /\ H!Next <=> HP!Next
    /\ H!NothingNamedIsClosed <=> HP!NothingNamedIsClosed
    /\ H!WatchedIsPolled <=> HP!WatchedIsPolled
<1>1. H!TypeOK <=> HP!TypeOK
  BY DEF H!TypeOK, HP!TypeOK
<1>2. H!Init <=> HP!Init
  BY DEF H!Init, HP!Init
<1>3. H!vars = HP!vars
  BY DEF H!vars, HP!vars
<1>4. H!Next <=> HP!Next
  BY SameHubSteps DEF H!Next, HP!Next
<1>5. QED
  BY <1>1, <1>2, <1>3, <1>4
     DEF H!NothingNamedIsClosed, HP!NothingNamedIsClosed, H!WatchedIsPolled, HP!WatchedIsPolled

LEMMA HubAssumptions == HP!NoLoopAssumption /\ HP!CapAssumption /\ HP!MaxLogAssumption
  BY LiveAssumption, LogAssumption DEF HP!NoLoopAssumption, HP!CapAssumption, HP!MaxLogAssumption

\* What the variables of LiveHub proper hold.
LocalTypeOK ==
    /\ server \in BOOLEAN /\ fresh \in BOOLEAN
    /\ snap \in Snap \cup {None}
    /\ poll \in [Loops -> Local({"none", "server", "sessions", "publish", "wait"})]
    /\ call \in [Conns \cup Callers -> Local({"none", "begin", "sessions"})]
    /\ view \in [Conns -> Snap \cup {None}]
    /\ owner \in Loops \cup {NoLoop}
    /\ told \subseteq Conns /\ contested \in BOOLEAN

LEMMA TypeOKSplits == TypeOK <=> H!TypeOK /\ LocalTypeOK
  BY DEF TypeOK, LocalTypeOK

\* What a loop publishes is an event.
LEMMA PendingType == ASSUME LocalTypeOK, NEW l \in Loops PROVE Pending(l) \in Event
  BY DEF LocalTypeOK, Pending, Normalized, Event, Snap, Local, World

LEMMA FallbackType ==
    ASSUME LocalTypeOK, NEW srv \in BOOLEAN
    PROVE  Fallback(srv) \in Snap /\ Fallback(srv).deg = TRUE
<1>1. 0 \in World
  BY LiveAssumption DEF World
<1>2. QED
  BY <1>1 DEF LocalTypeOK, Fallback, Snap

LEMMA NormalizedType ==
    ASSUME NEW w \in World, NEW srv \in BOOLEAN
    PROVE  Normalized(w, srv) \in Snap /\ Normalized(w, srv).deg = FALSE
  BY DEF Normalized, Snap

\* A step of the subsystem is a step of the hub, or leaves the hub alone.
LEMMA LiveStepIsHubStep == LocalTypeOK /\ [Next]_vars => [H!Next]_(H!vars)
<1> SUFFICES ASSUME LocalTypeOK, [Next]_vars PROVE [H!Next]_(H!vars)
  OBVIOUS
<1> USE DEF hubVars, H!vars
<1>1. CASE IntervalPasses
  BY <1>1 DEF IntervalPasses
<1>2. ASSUME NEW k \in Conns \cup Callers, Snapshot(k) PROVE UNCHANGED hubVars
  BY <1>2 DEF Snapshot, SnapshotAsks, SnapshotFails, SnapshotStores
<1>3. ASSUME NEW c \in Conns, SnapshotFromCache(c) PROVE UNCHANGED hubVars
  BY <1>3 DEF SnapshotFromCache
<1>4. ASSUME NEW c \in Conns, Connect(c) PROVE H!Next
  BY <1>4 DEF Connect, H!Next
<1>5. ASSUME NEW c \in Conns, Relay(c) PROVE H!Next
  BY <1>5 DEF Relay, H!Next
<1>6. ASSUME NEW c \in Conns, StreamEnds(c) PROVE H!Next
  BY <1>6 DEF StreamEnds, H!Next
<1>7. ASSUME NEW c \in Conns, ClientGone(c) PROVE H!Next
  BY <1>7 DEF ClientGone, H!Next
<1>8. ASSUME NEW l \in Loops, Poll(l) PROVE [H!Next]_(H!vars)
  <2>1. CASE PollPublish(l)
    BY <2>1, PendingType DEF PollPublish, H!Next
  <2>2. CASE PollReturns(l)
    BY <2>2 DEF PollReturns, H!Next
  <2>3. CASE \/ PollServer(l) \/ PollFails(l) \/ PollAgain(l)
             \/ \E w \in World : PollSucceeds(l, w)
    BY <2>3 DEF PollServer, PollFails, PollAgain, PollSucceeds
  <2>4. QED
    BY <1>8, <2>1, <2>2, <2>3 DEF Poll
<1>9. CASE CloseHub
  BY <1>9 DEF CloseHub, H!Next
<1>10. CASE UNCHANGED vars
  BY <1>10 DEF vars
<1>11. QED
  BY <1>1, <1>2, <1>3, <1>4, <1>5, <1>6, <1>7, <1>8, <1>9, <1>10 DEF Next

LEMMA LocalStates ==
    ASSUME NEW points, NEW p \in points
    PROVE  /\ At(p) \in Local(points)
           /\ "none" \in points => Idle \in Local(points)
           /\ \A srv \in BOOLEAN : [At(p) EXCEPT !.srv = srv] \in Local(points)
           /\ \A i \in Local(points) : [i EXCEPT !.at = p] \in Local(points)
           /\ \A i \in Local(points), w \in World : [i EXCEPT !.at = p, !.got = w] \in Local(points)
  BY DEF At, Idle, Local

LEMMA LocalFields ==
    ASSUME NEW points, NEW i \in Local(points)
    PROVE  i.srv \in BOOLEAN /\ i.got \in World \cup {Failed} /\ i.at \in points
  BY DEF Local

LEMMA LocalTypeStep == LocalTypeOK /\ H!TypeOK /\ [Next]_vars => LocalTypeOK'
<1> SUFFICES ASSUME LocalTypeOK, H!TypeOK, [Next]_vars PROVE LocalTypeOK'
  OBVIOUS
<1> DEFINE PollAt == {"none", "server", "sessions", "publish", "wait"}
           CallAt == {"none", "begin", "sessions"}
<1>a. Idle \in Local(CallAt)
  BY LocalStates
<1>b. ASSUME NEW l \in Loops, NEW p \in PollAt, Goto(l, p)
      PROVE  poll' \in [Loops -> Local(PollAt)]
  <2>1. At(p) \in Local(PollAt)
    BY LocalStates
  <2>2. QED
    BY <1>b, <2>1 DEF Goto, LocalTypeOK
<1> USE DEF LocalTypeOK
<1>0. \A k \in Conns \cup Callers : call[k].srv \in BOOLEAN
  BY LocalFields
<1>1. CASE IntervalPasses
  BY <1>1 DEF IntervalPasses
<1>2. ASSUME NEW k \in Conns \cup Callers, Snapshot(k) PROVE LocalTypeOK'
  <2>1. CASE SnapshotAsks(k)
    <3>1. [At("sessions") EXCEPT !.srv = server] \in Local(CallAt)
      BY LocalStates
    <3>2. QED
      BY <2>1, <3>1 DEF SnapshotAsks
  <2>2. CASE SnapshotFails(k)
    <3>1. Fallback(call[k].srv) \in Snap
      BY <1>0, FallbackType
    <3>2. QED
      BY <1>a, <2>2, <3>1 DEF SnapshotFails, Return
  <2>3. ASSUME NEW w \in World, SnapshotStores(k, w) PROVE LocalTypeOK'
    <3>1. Normalized(w, call[k].srv) \in Snap
      BY <1>0, NormalizedType
    <3>2. QED
      BY <1>a, <2>3, <3>1 DEF SnapshotStores, Return
  <2>4. QED
    BY <1>2, <2>1, <2>2, <2>3 DEF Snapshot
<1>3. ASSUME NEW c \in Conns, SnapshotFromCache(c) PROVE LocalTypeOK'
  BY <1>a, <1>3 DEF SnapshotFromCache, Cached, Return
<1>4. ASSUME NEW c \in Conns, Connect(c) PROVE LocalTypeOK'
  <2>1. At("server") \in Local(PollAt)
    BY LocalStates
  <2>2. [call[c] EXCEPT !.at = "begin"] \in Local(CallAt)
    BY LocalStates
  <2>3. QED
    BY <1>4, <2>1, <2>2 DEF Connect, StartPolling
<1>5. ASSUME NEW c \in Conns, Relay(c) PROVE LocalTypeOK'
  <2>1. Head(chan[c]) \in Event
    BY <1>5 DEF Relay, H!Receive, H!TypeOK
  <2>2. view[c] \in Snap
    BY <1>5 DEF Relay
  <2>3. Shown(view[c], Head(chan[c])) \in Snap
    BY <2>1, <2>2 DEF Shown, Event, Snap
  <2>4. QED
    BY <1>5, <2>3 DEF Relay
<1>6. ASSUME NEW c \in Conns, StreamEnds(c) \/ ClientGone(c) PROVE LocalTypeOK'
  BY <1>a, <1>6 DEF StreamEnds, ClientGone, Leave
<1>7. ASSUME NEW l \in Loops, Poll(l) PROVE LocalTypeOK'
  <2>0. poll[l].srv \in BOOLEAN
    BY LocalFields
  <2>1. CASE PollServer(l)
    <3>1. server' \in BOOLEAN
      BY <2>1 DEF PollServer
    <3>2. [At("sessions") EXCEPT !.srv = server'] \in Local(PollAt)
      BY <3>1, LocalStates
    <3>3. QED
      BY <2>1, <3>1, <3>2 DEF PollServer
  <2>2. CASE PollFails(l)
    <3>1. Fallback(poll[l].srv) \in Snap
      BY <2>0, FallbackType
    <3>2. CASE snap # None /\ snap.deg
      BY <1>b, <2>2, <3>2 DEF PollFails
    <3>3. CASE ~(snap # None /\ snap.deg)
      BY <1>b, <2>2, <3>1, <3>3 DEF PollFails, Store
    <3>4. QED
      BY <3>2, <3>3
  <2>3. ASSUME NEW w \in World, PollSucceeds(l, w) PROVE LocalTypeOK'
    <3>1. Normalized(w, poll[l].srv) \in Snap
      BY <2>0, NormalizedType
    <3>2. CASE Changed(snap, Normalized(w, poll[l].srv))
      <4>1. [poll[l] EXCEPT !.at = "publish", !.got = w] \in Local(PollAt)
        BY LocalStates
      <4>2. QED
        BY <2>3, <3>1, <3>2, <4>1 DEF PollSucceeds, Store
    <3>3. CASE ~Changed(snap, Normalized(w, poll[l].srv))
      BY <1>b, <2>3, <3>3 DEF PollSucceeds
    <3>4. QED
      BY <3>2, <3>3
  <2>4. CASE PollPublish(l)
    <3>1. subs' \subseteq Conns
      BY <2>4 DEF PollPublish, H!LoopPublish, H!Publish, H!Drop, H!TypeOK
    <3>2. QED
      BY <1>b, <2>4, <3>1 DEF PollPublish
  <2>5. CASE PollAgain(l)
    BY <1>b, <2>5 DEF PollAgain
  <2>6. CASE PollReturns(l)
    BY <1>b, <2>6 DEF PollReturns
  <2>7. QED
    BY <1>7, <2>1, <2>2, <2>3, <2>4, <2>5, <2>6 DEF Poll
<1>8. CASE CloseHub
  BY <1>8 DEF CloseHub
<1>9. CASE UNCHANGED vars
  BY <1>9 DEF vars
<1>10. QED
  BY <1>1, <1>2, <1>3, <1>4, <1>5, <1>6, <1>7, <1>8, <1>9 DEF Next

\* Every variable of the subsystem keeps its type.
THEOREM LiveTypeCorrect == SafeSpec => []TypeOK
<1>1. Init => TypeOK
  <2>1. Init => H!TypeOK
    BY LiveAssumption DEF Init, H!Init, H!TypeOK
  <2>2. Init => LocalTypeOK
    <3>1. Idle \in Local({"none", "server", "sessions", "publish", "wait"})
      BY LocalStates
    <3>2. Idle \in Local({"none", "begin", "sessions"})
      BY LocalStates
    <3>3. QED
      BY <3>1, <3>2, LiveAssumption DEF Init, LocalTypeOK
  <2>3. QED
    BY <2>1, <2>2, TypeOKSplits
<1>2. TypeOK /\ [Next]_vars => TypeOK'
  <2> SUFFICES ASSUME H!TypeOK, LocalTypeOK, [Next]_vars PROVE TypeOK'
    BY TypeOKSplits
  <2>1. H!TypeOK'
    <3>1. HP!TypeOK /\ [HP!Next]_(HP!vars) => HP!TypeOK'
      BY HubAssumptions, HP!TypeStep
    <3>2. HP!TypeOK /\ [HP!Next]_(HP!vars)
      <4>1. [H!Next]_(H!vars)
        BY LiveStepIsHubStep
      <4>2. HP!TypeOK
        BY SameHub
      <4>3. H!vars' = HP!vars'
        BY DEF H!vars, HP!vars
      <4>4. QED
        BY <4>1, <4>2, <4>3, SameHub
    <3>3. HP!TypeOK'
      BY <3>1, <3>2
    <3>4. QED
      BY <3>3 DEF H!TypeOK, HP!TypeOK
  <2>2. LocalTypeOK'
    BY LocalTypeStep
  <2>3. QED
    BY <2>1, <2>2 DEF TypeOK, LocalTypeOK
<1>3. QED
  BY <1>1, <1>2, PTL DEF SafeSpec

\* The channels, the maps and the loops of the subsystem behave as HubSubs says.
THEOREM LiveImplementsHubSubs == SafeSpec => H!SafeSpec
<1>1. Init => H!Init
  BY DEF Init
<1>2. TypeOK => LocalTypeOK
  BY TypeOKSplits
<1>3. QED
  BY <1>1, <1>2, LiveStepIsHubStep, LiveTypeCorrect, PTL DEF SafeSpec, H!SafeSpec

\* Hence no send on a closed channel and no second close in the subsystem, and
\* a loop that polls for as long as anybody is subscribed.
THEOREM LiveHubIsSound == SafeSpec => [](H!NothingNamedIsClosed /\ H!WatchedIsPolled)
<1>1. H!Init => HP!Init
  BY SameHub
<1>2. [H!Next]_(H!vars) => [HP!Next]_(HP!vars)
  BY SameHub DEF H!vars, HP!vars
<1>3. HP!SafeSpec => []HP!NothingNamedIsClosed
  BY HubAssumptions, HP!NoPanic
<1>4. HP!SafeSpec => []HP!WatchedIsPolled
  BY HubAssumptions, HP!SubscribersArePolled
<1>5. HP!NothingNamedIsClosed /\ HP!WatchedIsPolled => H!NothingNamedIsClosed /\ H!WatchedIsPolled
  BY SameHub
<1>6. QED
  BY <1>1, <1>2, <1>3, <1>4, <1>5, LiveImplementsHubSubs, PTL DEF H!SafeSpec, HP!SafeSpec

-----------------------------------------------------------------------------
\* What a viewer is sent of the stored snapshot.
Sent == IF snap.deg THEN Degraded ELSE snap

\* A loop that has yet to publish what it stored holds the event that says so.
OwnerHoldsSent ==
    owner # NoLoop => snap # None /\ poll[owner].at = "publish" /\ Pending(owner) = Sent

\* Unless the stored snapshot was contested, no other loop has anything to publish
\* while it waits to be sent and until it is replaced.
Uncontested ==
    ~contested /\ (owner # NoLoop \/ told # {}) =>
        \A m \in Loops : poll[m].at = "publish" => m = owner

\* A stream has no picture before its first frame, and is in nobody's books
\* before it subscribes; a loop that was not started is nowhere.
Beginnings ==
    /\ \A l \in Loops : poll[l].at # "none" => loop[l] # "unborn"
    /\ \A c \in Conns : call[c].at # "none" => view[c] = None
    /\ \A c \in Conns : conn[c] = "new" => view[c] = None /\ call[c].at = "none"
    /\ \A c \in told \cup subs : conn[c] # "new"

ShowInv ==
    /\ OwnerHoldsSent
    /\ Uncontested
    /\ Beginnings
    /\ told # {} => snap # None
    /\ ToldShowsHub

LEMMA PollStepOwner ==
    ASSUME LocalTypeOK, OwnerHoldsSent, NEW l \in Loops, poll[l].at # "publish",
           UNCHANGED <<snap, owner>>, \A m \in Loops : m # l => poll'[m] = poll[m]
    PROVE  OwnerHoldsSent'
<1>1. owner # NoLoop => owner \in Loops /\ owner # l
  BY DEF OwnerHoldsSent, LocalTypeOK
<1>2. QED
  BY <1>1 DEF OwnerHoldsSent, Pending, Sent

LEMMA SameShow ==
    ASSUME NEW c \in Conns, UNCHANGED snap, chan'[c] = chan[c], view'[c] = view[c]
    PROVE  ShowsHub(c)' <=> ShowsHub(c)
  BY DEF ShowsHub

\* A handler that still waits for its first frame has its events before it.
LEMMA ReturnKeepsShow ==
    ASSUME LocalTypeOK, ShowInv, NEW k \in Conns \cup Callers, NEW s \in Snap,
           call[k].at # "none" \/ k \notin Conns, Return(k, s),
           UNCHANGED <<hubVars, poll>>
    PROVE  /\ told' \subseteq told => Beginnings'
           /\ UNCHANGED <<snap, told, contested>> => ToldShowsHub'
<1>1. ASSUME told' \subseteq told PROVE Beginnings'
  BY <1>1 DEF Return, ShowInv, Beginnings, LocalTypeOK, Idle, hubVars
<1>2. ASSUME UNCHANGED <<snap, told, contested>> PROVE ToldShowsHub'
  <2> SUFFICES ASSUME NEW c \in told' \cap subs', ~contested PROVE ShowsHub(c)'
    BY <1>2 DEF ToldShowsHub, LatestIsShown
  <2>1. c \in Conns /\ ShowsHub(c) /\ UNCHANGED chan
    BY <1>2 DEF ShowInv, ToldShowsHub, LatestIsShown, LocalTypeOK, hubVars
  <2>2. CASE k # c
    <3>1. view'[c] = view[c]
      BY <2>1, <2>2 DEF Return, LocalTypeOK
    <3>2. QED
      BY <1>2, <2>1, <3>1, SameShow
  <2>3. CASE k = c
    <3>1. Len(chan[c]) > 0
      BY <2>1, <2>3 DEF ShowsHub, ShowInv, Beginnings
    <3>2. QED
      BY <1>2, <2>1, <3>1 DEF ShowsHub
  <2>4. QED
    BY <2>2, <2>3
<1>3. QED
  BY <1>1, <1>2 DEF ShowInv

\* A stream's own step leaves the others' pictures alone.
LEMMA OthersShow ==
    ASSUME LocalTypeOK, ToldShowsHub, NEW c \in Conns, UNCHANGED <<snap, told, contested>>,
           subs' \subseteq subs \cup {c},
           \A d \in Conns : d # c => chan'[d] = chan[d] /\ view'[d] = view[d],
           ~contested /\ c \in told' \cap subs' => ShowsHub(c)'
    PROVE  ToldShowsHub'
<1> SUFFICES ASSUME NEW d \in told' \cap subs', ~contested, d # c PROVE ShowsHub(d)'
  BY DEF ToldShowsHub, LatestIsShown
<1>1. d \in Conns /\ ShowsHub(d)
  BY DEF ToldShowsHub, LatestIsShown, LocalTypeOK
<1>2. QED
  BY <1>1, SameShow

\* What a loop stores is what it then has to publish.
LEMMA StoreStep ==
    ASSUME LocalTypeOK, ShowInv, NEW l \in Loops, poll[l].at = "sessions", NEW s \in Snap, Store(l, s),
           poll'[l].at = "publish", Pending(l)' = IF s.deg THEN Degraded ELSE s,
           \A m \in Loops : m # l => poll'[m] = poll[m],
           UNCHANGED <<hubVars, call, view>>
    PROVE  ShowInv'
<1>1. OwnerHoldsSent'
  <2>1. s # None
    BY LiveAssumption
  <2>2. QED
    BY <2>1 DEF OwnerHoldsSent, Store, Sent, Pending
<1>2. Beginnings'
  BY DEF ShowInv, Beginnings, Store, hubVars
<1>3. Uncontested'
  BY DEF Uncontested, Store
<1>4. QED
  BY <1>1, <1>2, <1>3 DEF ShowInv, Store, ToldShowsHub, LatestIsShown

LEMMA ShowPublish ==
    ASSUME LocalTypeOK, H!TypeOK, ShowInv, NEW l \in Loops, PollPublish(l)
    PROVE  ShowInv'
<1>1. poll[l].at = "publish" /\ H!Publish(Pending(l)) /\ UNCHANGED <<loop, conn, snap, call, view>>
  BY DEF PollPublish, H!LoopPublish, H!Publish
<1>2. subs' \subseteq subs
  BY <1>1 DEF H!Publish, H!Drop
<1>3. poll' = [poll EXCEPT ![l] = At("wait")]
  BY DEF PollPublish, Goto
<1>4. Beginnings'
  BY <1>1, <1>2, <1>3 DEF PollPublish, ShowInv, Beginnings, LocalTypeOK, At, Idle
<1>5. \A m \in Loops : poll'[m].at = "publish" => poll[m].at = "publish" /\ m # l
  BY <1>3 DEF LocalTypeOK, At, Idle
<1>6. CASE owner = l
  <2>1. /\ owner' = NoLoop /\ told' = subs' /\ contested' = contested
        /\ snap # None /\ Pending(l) = Sent
    BY <1>6, LiveAssumption DEF PollPublish, ShowInv, OwnerHoldsSent
  <2>2. ASSUME NEW c \in told' \cap subs' PROVE ShowsHub(c)'
    <3>1. c \in subs \ H!Full /\ c \in Conns
      BY <1>1, <2>2 DEF H!Publish, H!Drop, H!TypeOK
    <3>2. chan'[c] = Append(chan[c], Sent) /\ chan[c] \in Seq(Event)
      BY <1>1, <2>1, <3>1 DEF H!Publish, H!TypeOK
    <3>3. /\ Len(chan'[c]) = Len(chan[c]) + 1 /\ Len(chan[c]) \in Nat
          /\ chan'[c][Len(chan'[c])] = Sent
      BY <3>2
    <3>4. QED
      BY <1>1, <3>3 DEF ShowsHub, Sent
  <2>3. OwnerHoldsSent' /\ Uncontested'
    BY <1>5, <1>6, <2>1, LiveAssumption DEF OwnerHoldsSent, ShowInv, Uncontested
  <2>4. QED
    BY <1>1, <1>4, <2>1, <2>2, <2>3 DEF ShowInv, ToldShowsHub, LatestIsShown
\* The late publication of an overtaken loop: the snapshot that it follows is
\* contested, or has not been sent and is not to be.
<1>7. CASE owner # l
  <2>1. owner' = owner /\ told' = told /\ contested' = contested
    BY <1>7 DEF PollPublish
  <2>2. OwnerHoldsSent'
    BY <1>1, <1>3, <1>7, <2>1 DEF ShowInv, OwnerHoldsSent, Pending, Sent, LocalTypeOK
  <2>3. contested \/ told = {}
    BY <1>1, <1>7 DEF ShowInv, Uncontested
  <2>4. ToldShowsHub'
    BY <2>1, <2>3 DEF ToldShowsHub, LatestIsShown
  <2>5. Uncontested'
    BY <1>5, <2>1 DEF ShowInv, Uncontested
  <2>6. QED
    BY <1>1, <1>4, <2>1, <2>2, <2>4, <2>5 DEF ShowInv
<1>8. QED
  BY <1>6, <1>7

LEMMA ShowSnapshot ==
    ASSUME LocalTypeOK, ShowInv, NEW k \in Conns \cup Callers,
           Snapshot(k) \/ (k \in Conns /\ SnapshotFromCache(k))
    PROVE  ShowInv'
<1>0. call[k].srv \in BOOLEAN
  BY LocalFields DEF LocalTypeOK
<1>1. CASE SnapshotAsks(k)
  <2>1. Beginnings'
    BY <1>1 DEF SnapshotAsks, Asks, ShowInv, Beginnings, LocalTypeOK, At, Idle, hubVars
  <2>2. QED
    BY <1>1, <2>1
       DEF SnapshotAsks, ShowInv, OwnerHoldsSent, Uncontested, Pending, Sent, ToldShowsHub, LatestIsShown, ShowsHub, hubVars
<1>2. CASE SnapshotFails(k)
  <2>1. Fallback(call[k].srv) \in Snap
    BY <1>0, FallbackType
  <2>2. Beginnings' /\ ToldShowsHub'
    BY <1>2, <2>1, ReturnKeepsShow DEF SnapshotFails
  <2>3. QED
    BY <1>2, <2>2 DEF SnapshotFails, ShowInv, OwnerHoldsSent, Uncontested, Pending, Sent
<1>3. ASSUME NEW w \in World, SnapshotStores(k, w) PROVE ShowInv'
  <2>1. snap' \in Snap /\ told' = {} /\ owner' = NoLoop
    BY <1>0, <1>3, NormalizedType DEF SnapshotStores
  <2>2. Beginnings'
    BY <1>3, <2>1, ReturnKeepsShow DEF SnapshotStores
  <2>3. QED
    BY <2>1, <2>2 DEF ShowInv, OwnerHoldsSent, Uncontested, ToldShowsHub, LatestIsShown
<1>4. CASE k \in Conns /\ SnapshotFromCache(k)
  <2>1. snap \in Snap /\ call[k].at # "none"
    BY <1>4 DEF SnapshotFromCache, Cached, Asks, LocalTypeOK
  <2>2. Beginnings' /\ ToldShowsHub'
    BY <1>4, <2>1, ReturnKeepsShow DEF SnapshotFromCache
  <2>3. QED
    BY <1>4, <2>2 DEF SnapshotFromCache, ShowInv, OwnerHoldsSent, Uncontested, Pending, Sent
<1>5. QED
  BY <1>1, <1>2, <1>3, <1>4 DEF Snapshot

LEMMA LastOfTail ==
    ASSUME NEW S, NEW q \in Seq(S), Len(q) # 0, Len(q) # 1
    PROVE  Len(Tail(q)) = Len(q) - 1 /\ Len(q) - 1 > 0 /\ Tail(q)[Len(q) - 1] = q[Len(q)]
<1>1. \A n \in Nat : n # 0 /\ n # 1 => n > 1
  OBVIOUS
<1>2. Len(q) > 1
  BY <1>1
<1>3. QED
  BY <1>2

LEMMA ShowStream ==
    ASSUME LocalTypeOK, H!TypeOK, ShowInv, NEW c \in Conns,
           Connect(c) \/ Relay(c) \/ StreamEnds(c) \/ ClientGone(c)
    PROVE  ShowInv'
<1>1. CASE Connect(c)
  <2>1. /\ conn[c] = "new" /\ conn' = [conn EXCEPT ![c] = "open"] /\ subs' = subs \cup {c}
        /\ UNCHANGED <<chan, snap, view, telling>>
        /\ call' = [call EXCEPT ![c].at = "begin"]
    BY <1>1 DEF Connect, H!Subscribe
  <2>2. c \notin told
    BY <2>1 DEF ShowInv, Beginnings
  <2>3. \A l \in Loops : /\ loop'[l] # loop[l] => loop[l] = "unborn" /\ loop'[l] = "running"
                         /\ poll'[l] = IF loop'[l] # loop[l] THEN At("server") ELSE poll[l]
    BY <1>1 DEF Connect, H!Subscribe, H!StartLoop, H!TypeOK, StartPolling
  <2>4. Beginnings'
    BY <2>1, <2>3 DEF ShowInv, Beginnings, LocalTypeOK, H!TypeOK
  <2>5. OwnerHoldsSent'
    BY <2>1, <2>3 DEF ShowInv, Beginnings, OwnerHoldsSent, Pending, Sent, LocalTypeOK
  <2>6. ToldShowsHub'
    BY <2>1, <2>2, OthersShow DEF ShowInv
  <2>7. Uncontested'
    BY <2>1, <2>3 DEF ShowInv, Uncontested, At, Idle
  <2>8. QED
    BY <2>1, <2>4, <2>5, <2>6, <2>7 DEF ShowInv
<1>2. CASE Relay(c)
  <2>1. /\ view[c] # None /\ view' = [view EXCEPT ![c] = Shown(@, Head(chan[c]))]
        /\ conn[c] = "open" /\ chan[c] # <<>> /\ chan' = [chan EXCEPT ![c] = Tail(@)]
        /\ UNCHANGED <<subs, loop, conn, snap, poll, call, telling>>
    BY <1>2 DEF Relay, H!Receive
  <2>2. chan[c] \in Seq(Event) /\ Len(chan[c]) \in Nat /\ Len(chan[c]) # 0
    BY <2>1 DEF H!TypeOK
  <2>3. Beginnings'
    BY <2>1 DEF ShowInv, Beginnings, LocalTypeOK
  <2>4. ASSUME ~contested, c \in told \cap subs PROVE ShowsHub(c)'
    <3>1. chan[c][Len(chan[c])] = Sent /\ snap \in Snap
      BY <2>2, <2>4 DEF ShowInv, ToldShowsHub, LatestIsShown, ShowsHub, Sent, LocalTypeOK
    <3>2. CASE Len(chan[c]) # 1
      <4>1. /\ Len(Tail(chan[c])) = Len(chan[c]) - 1 /\ Len(chan[c]) - 1 > 0
            /\ Tail(chan[c])[Len(chan[c]) - 1] = Sent
        BY <2>2, <3>1, <3>2, LastOfTail
      <4>2. QED
        BY <2>1, <4>1 DEF ShowsHub, Sent, H!TypeOK
    <3>3. CASE Len(chan[c]) = 1
      <4>1. Len(Tail(chan[c])) = 0 /\ Head(chan[c]) = Sent
        BY <2>2, <3>1, <3>3
      <4>2. view[c] \in Snap /\ view'[c] = Shown(view[c], Sent) /\ chan'[c] = Tail(chan[c])
        BY <2>1, <4>1 DEF LocalTypeOK, H!TypeOK
      <4>3. view'[c] # None /\ IF snap.deg THEN view'[c].deg ELSE view'[c] = snap
        BY <3>1, <4>2, LiveAssumption, ZenonT(40) DEF Shown, Sent, Snap
      <4>4. Len(chan'[c]) = 0 /\ snap' = snap
        BY <2>1, <4>1, <4>2
      <4>5. QED
        BY <4>3, <4>4 DEF ShowsHub
    <3>4. QED
      BY <3>2, <3>3
  <2>5. ToldShowsHub'
    BY <2>1, <2>4, OthersShow DEF ShowInv, LocalTypeOK, H!TypeOK
  <2>6. QED
    BY <2>1, <2>3, <2>5 DEF ShowInv, OwnerHoldsSent, Uncontested, Pending, Sent
<1>3. CASE StreamEnds(c) \/ ClientGone(c)
  <2>1. /\ conn' = [conn EXCEPT ![c] = "done"] /\ subs' = subs \ {c}
        /\ UNCHANGED <<chan, loop, snap, poll, telling>>
        /\ view' = [view EXCEPT ![c] = None] /\ call' = [call EXCEPT ![c] = Idle]
    BY <1>3 DEF StreamEnds, ClientGone, Leave, H!EndOfStream, H!ClientGone, H!Unsub, H!Drop
  <2>2. Beginnings'
    BY <2>1 DEF ShowInv, Beginnings, LocalTypeOK, H!TypeOK, Idle
  <2>3. ToldShowsHub'
    BY <2>1, OthersShow DEF ShowInv, LocalTypeOK, H!TypeOK
  <2>4. QED
    BY <2>1, <2>2, <2>3 DEF ShowInv, OwnerHoldsSent, Uncontested, Pending, Sent
<1>4. QED
  BY <1>1, <1>2, <1>3

LEMMA ShowPoll ==
    ASSUME LocalTypeOK, H!TypeOK, ShowInv, NEW l \in Loops, Poll(l)
    PROVE  ShowInv'
<1>0. poll[l].srv \in BOOLEAN
  BY LocalFields DEF LocalTypeOK
\* The steps that leave the snapshot and the hub as they are.
<1>1. ASSUME UNCHANGED <<subs, chan, conn, snap, call, view, telling>>,
             poll[l].at \notin {"none", "publish"}, poll'[l].at # "publish", \A m \in Loops : m # l => poll'[m] = poll[m],
             \A m \in Loops : loop[m] # "unborn" => loop'[m] # "unborn"
      PROVE  ShowInv'
  <2>1. OwnerHoldsSent'
    BY <1>1, PollStepOwner DEF ShowInv
  <2>2. Beginnings'
    BY <1>1 DEF ShowInv, Beginnings
  <2>3. ToldShowsHub'
    BY <1>1, SameShow DEF ShowInv, ToldShowsHub, LatestIsShown, LocalTypeOK
  <2>4. Uncontested'
    BY <1>1 DEF ShowInv, Uncontested
  <2>5. QED
    BY <1>1, <2>1, <2>2, <2>3, <2>4 DEF ShowInv
<1>2. CASE PollServer(l)
  BY <1>1, <1>2 DEF PollServer, hubVars, At, Idle, LocalTypeOK
<1>3. CASE PollFails(l)
  <2>1. CASE snap # None /\ snap.deg
    BY <1>1, <1>3, <2>1 DEF PollFails, Goto, hubVars, At, Idle, LocalTypeOK
  <2>2. CASE ~(snap # None /\ snap.deg)
    <3>1. Fallback(poll[l].srv) \in Snap /\ Fallback(poll[l].srv).deg = TRUE
      BY <1>0, FallbackType
    <3>2. Goto(l, "publish") /\ Store(l, Fallback(poll[l].srv))
      BY <1>3, <2>2 DEF PollFails
    <3>3. poll'[l].at = "publish" /\ Pending(l)' = Degraded
      BY <3>2 DEF Goto, At, Idle, Pending, LocalTypeOK
    <3>4. QED
      BY <1>3, <3>1, <3>2, <3>3, StoreStep DEF PollFails, Goto, LocalTypeOK
  <2>3. QED
    BY <2>1, <2>2
<1>4. ASSUME NEW w \in World, PollSucceeds(l, w) PROVE ShowInv'
  <2>1. CASE Changed(snap, Normalized(w, poll[l].srv))
    <3>1. Normalized(w, poll[l].srv) \in Snap /\ Normalized(w, poll[l].srv).deg = FALSE
      BY <1>0, NormalizedType
    <3>2. /\ Store(l, Normalized(w, poll[l].srv))
          /\ poll' = [poll EXCEPT ![l].at = "publish", ![l].got = w]
      BY <1>4, <2>1 DEF PollSucceeds
    <3>3. w # Failed /\ poll[l] \in Local({"none", "server", "sessions", "publish", "wait"})
      BY LiveAssumption DEF LocalTypeOK
    <3>4. poll'[l].at = "publish" /\ poll'[l].got = w /\ poll'[l].srv = poll[l].srv
      BY <3>2, <3>3 DEF LocalTypeOK, Local
    <3>5. Pending(l)' = Normalized(w, poll[l].srv)
      BY <3>3, <3>4 DEF Pending, Normalized
    <3>6. QED
      BY <1>4, <3>1, <3>2, <3>4, <3>5, StoreStep DEF PollSucceeds, LocalTypeOK
  <2>2. CASE ~Changed(snap, Normalized(w, poll[l].srv))
    BY <1>1, <1>4, <2>2 DEF PollSucceeds, Goto, hubVars, At, Idle, LocalTypeOK
  <2>3. QED
    BY <2>1, <2>2
<1>5. CASE PollPublish(l)
  BY <1>5, ShowPublish
<1>6. CASE PollAgain(l)
  BY <1>1, <1>6 DEF PollAgain, Goto, hubVars, At, Idle, LocalTypeOK
<1>7. CASE PollReturns(l)
  BY <1>1, <1>7 DEF PollReturns, Goto, H!LoopReturn, At, Idle, LocalTypeOK, H!TypeOK
<1>8. QED
  BY <1>2, <1>3, <1>4, <1>5, <1>6, <1>7 DEF Poll

LEMMA ShowStep == TypeOK /\ ShowInv /\ [Next]_vars => ShowInv'
<1> SUFFICES ASSUME LocalTypeOK, H!TypeOK, ShowInv, [Next]_vars PROVE ShowInv'
  BY TypeOKSplits
<1>1. CASE IntervalPasses
  BY <1>1 DEF IntervalPasses, hubVars, ShowInv, OwnerHoldsSent, Uncontested, Pending, Sent, Beginnings,
              ToldShowsHub, LatestIsShown, ShowsHub
<1>2. CASE CloseHub
  <2>1. subs' = {} /\ UNCHANGED <<loop, conn, snap, poll, call, view, telling>>
    BY <1>2 DEF CloseHub, H!Close, H!Drop
  <2>2. QED
    BY <2>1 DEF ShowInv, OwnerHoldsSent, Uncontested, Pending, Sent, Beginnings, ToldShowsHub, LatestIsShown
<1>3. CASE UNCHANGED vars
  BY <1>3 DEF vars, hubVars, ShowInv, OwnerHoldsSent, Uncontested, Pending, Sent, Beginnings,
              ToldShowsHub, LatestIsShown, ShowsHub
<1>4. QED
  BY <1>1, <1>2, <1>3, ShowSnapshot, ShowStream, ShowPoll DEF Next

LEMMA ShowInvariant == SafeSpec => []ShowInv
<1>1. Init => ShowInv
  BY DEF Init, H!Init, ShowInv, OwnerHoldsSent, Uncontested, Beginnings, ToldShowsHub,
         LatestIsShown, Idle
<1>2. QED
  BY <1>1, ShowStep, LiveTypeCorrect, PTL DEF SafeSpec

\* Whoever was sent the stored snapshot shows it, also when other loops publish
\* late, unless one of them was already about to when it was stored: whatever
\* first frames and plain requests were under way, for any number of each.
THEOREM ViewersShowWhatTheyWereTold == SafeSpec => []ToldShowsHub
<1>1. ShowInv => ToldShowsHub
  BY DEF ShowInv
<1>2. QED
  BY <1>1, ShowInvariant, PTL

-----------------------------------------------------------------------------
(***************************************************************************)
(* The subsystem with its history implements Broadcast, and its clients'   *)
(* pictures follow the log.                                                *)
(***************************************************************************)

\* The history restricts no step but the number of events published.
LEMMA HistoryIsErasable == [LNext]_lvars => [Next]_vars
<1>1. Quiet => Next
  BY DEF Quiet, Next
<1>2. QED
  BY <1>1 DEF LNext, lvars, LConnect, LRelay, LPublish, LClose, Next, Poll

\* What is proved of the subsystem holds of it with its history.
LEMMA HistoryRefinesLive == LSpec => SafeSpec
<1>1. LInit => Init
  BY DEF LInit
<1>2. QED
  BY <1>1, HistoryIsErasable, PTL DEF LSpec, SafeSpec

\* HP and HH are the same instance of HubHistory.
LEMMA SameHistory ==
    /\ HH!NoteClosed <=> HP!NoteClosed
    /\ HH!B!BInit <=> HP!B!BInit
    /\ HH!B!bvars = HP!B!bvars /\ HH!B!bvars' = HP!B!bvars'
    /\ HH!B!BNext <=> HP!B!BNext
<1>1. ASSUME NEW c \in Conns PROVE HH!StateOf(c) = HP!StateOf(c)
  BY DEF HH!StateOf, HP!StateOf
<1>2. [c \in Conns |-> HH!StateOf(c)] = [c \in Conns |-> HP!StateOf(c)]
  BY <1>1
<1>3. [c \in Conns |-> HH!StateOf(c)]' = [c \in Conns |-> HP!StateOf(c)]'
  BY DEF HH!StateOf, HP!StateOf
<1>4. HH!NoteClosed <=> HP!NoteClosed
  BY DEF HH!NoteClosed, HP!NoteClosed
<1>5. HH!B!BInit <=> HP!B!BInit
  BY <1>2 DEF HH!B!BInit, HP!B!BInit
<1>6. HH!B!bvars = HP!B!bvars /\ HH!B!bvars' = HP!B!bvars'
  BY <1>2, <1>3 DEF HH!B!bvars, HP!B!bvars
<1>7. HH!B!BNext <=> HP!B!BNext
  <2>1. ASSUME NEW c \in Conns PROVE HH!B!Join(c) <=> HP!B!Join(c)
    BY <1>2, <1>3 DEF HH!B!Join, HP!B!Join
  <2>2. ASSUME NEW c \in Conns PROVE HH!B!Leave(c) <=> HP!B!Leave(c)
    BY <1>2, <1>3 DEF HH!B!Leave, HP!B!Leave
  <2>3. ASSUME NEW c \in Conns PROVE HH!B!See(c) <=> HP!B!See(c)
    BY <1>2, <1>3 DEF HH!B!See, HP!B!See, HH!B!Owed, HP!B!Owed
  <2>4. ASSUME NEW S \in SUBSET Conns PROVE HH!B!CutOff(S) <=> HP!B!CutOff(S)
    BY <1>2, <1>3 DEF HH!B!CutOff, HP!B!CutOff
  <2>5. ASSUME NEW ev PROVE HH!B!Announce(ev) <=> HP!B!Announce(ev)
    BY <2>4 DEF HH!B!Announce, HP!B!Announce
  <2>6. HH!B!Shut <=> HP!B!Shut
    BY <2>4 DEF HH!B!Shut, HP!B!Shut
  <2>7. QED
    BY <2>1, <2>2, <2>3, <2>5, <2>6 DEF HH!B!BNext, HP!B!BNext
<1>8. QED
  BY <1>4, <1>5, <1>6, <1>7

\* A step of the subsystem with its history is a step of the hub with its own.
LEMMA LiveStepIsHistoryStep == LocalTypeOK /\ [LNext]_lvars => [HP!HNext]_(HP!hvars)
<1> SUFFICES ASSUME LocalTypeOK, [LNext]_lvars PROVE [HP!HNext]_(HP!hvars)
  OBVIOUS
<1>1. ASSUME UNCHANGED hubVars, UNCHANGED history PROVE UNCHANGED HP!hvars
  BY <1>1 DEF hubVars, history, HP!hvars, HP!vars, HP!history
<1>2. CASE Quiet /\ UNCHANGED history
  <2>0. UNCHANGED HP!history
    BY <1>2 DEF history, HP!history
  <2>1. CASE IntervalPasses
    BY <1>1, <1>2, <2>1 DEF IntervalPasses
  <2>2. ASSUME NEW k \in Conns \cup Callers, Snapshot(k) PROVE UNCHANGED hubVars
    BY <2>2 DEF Snapshot, SnapshotAsks, SnapshotFails, SnapshotStores
  <2>3. ASSUME NEW c \in Conns, SnapshotFromCache(c) PROVE UNCHANGED hubVars
    BY <2>3 DEF SnapshotFromCache
  <2>4. ASSUME NEW c \in Conns, StreamEnds(c) \/ ClientGone(c) PROVE HP!HNext
    <3>1. HP!EndOfStream(c) \/ HP!ClientGone(c)
      BY <2>4, SameHubSteps DEF StreamEnds, ClientGone
    <3>2. QED
      BY <2>0, <3>1 DEF HP!HUnsub, HP!HNext
  <2>5. ASSUME NEW l \in Loops, poll[l].at # "publish", Poll(l) PROVE [HP!HNext]_(HP!hvars)
    <3>1. CASE PollReturns(l)
      <4>1. HP!LoopReturn(l)
        BY <3>1, SameHubSteps DEF PollReturns
      <4>2. QED
        BY <2>0, <4>1 DEF HP!HReturn, HP!HNext
    <3>2. CASE \/ PollServer(l) \/ PollFails(l) \/ PollAgain(l)
               \/ \E w \in World : PollSucceeds(l, w)
      <4>1. UNCHANGED hubVars
        BY <3>2 DEF PollServer, PollFails, PollAgain, PollSucceeds
      <4>2. QED
        BY <1>1, <1>2, <4>1
    <3>3. ~PollPublish(l)
      BY <2>5 DEF PollPublish
    <3>4. QED
      BY <2>5, <3>1, <3>2, <3>3 DEF Poll
  <2>6. QED
    BY <1>1, <1>2, <2>1, <2>2, <2>3, <2>4, <2>5 DEF Quiet
<1>3. ASSUME NEW c \in Conns, LConnect(c) PROVE HP!HNext
  <2>1. HP!Subscribe(c)
    BY <1>3, SameHubSteps DEF LConnect, Connect
  <2>2. QED
    BY <1>3, <2>1 DEF LConnect, HP!HSubscribe, HP!HNext
<1>4. ASSUME NEW c \in Conns, LRelay(c) PROVE HP!HNext
  <2>1. HP!Receive(c)
    BY <1>4, SameHubSteps DEF LRelay, Relay
  <2>2. QED
    BY <1>4, <2>1 DEF LRelay, HP!HReceive, HP!HNext
<1>5. ASSUME NEW l \in Loops, LPublish(l) PROVE HP!HNext
  <2>1. Pending(l) \in Event
    BY PendingType
  <2>2. HP!LoopPublish(l, Pending(l)) /\ HP!NoteClosed
    BY <1>5, <2>1, SameHubSteps, SameHistory DEF LPublish, PollPublish
  <2>3. HP!HPublish(l, Pending(l))
    BY <1>5, <2>2 DEF LPublish, HP!HPublish
  <2>4. QED
    BY <2>1, <2>3 DEF HP!HNext
<1>6. CASE LClose
  <2>1. HP!Close /\ HP!NoteClosed
    BY <1>6, SameHubSteps, SameHistory DEF LClose, CloseHub
  <2>2. QED
    BY <1>6, <2>1 DEF LClose, HP!HClose, HP!HNext
<1>7. CASE UNCHANGED lvars
  BY <1>1, <1>7 DEF lvars, vars
<1>8. QED
  BY <1>2, <1>3, <1>4, <1>5, <1>6, <1>7 DEF LNext

\* Hence what is proved of the hub with its history holds here.
LEMMA LiveRefinesHistory == LSpec => HP!HSpec
<1>1. LInit => HP!HInit
  <2>1. LInit => HP!Init
    BY SameHub DEF LInit, Init
  <2>2. QED
    BY <2>1 DEF LInit, HP!HInit
<1>2. TypeOK => LocalTypeOK
  BY TypeOKSplits
<1>3. QED
  BY <1>1, <1>2, LiveStepIsHistoryStep, HistoryRefinesLive, LiveTypeCorrect, PTL DEF LSpec, HP!HSpec

\* Every stream of the subsystem hands its client the published events from its
\* subscription on, in order and without a gap, until it is cut off.
THEOREM LiveImplementsBroadcast == LSpec => StreamsAreABroadcast
<1>1. HP!HSpec => HP!B!BSpec
  BY HubAssumptions, HP!HubImplementsBroadcast DEF HP!ImplementsBroadcast
<1>2. HP!B!BInit => HH!B!BInit
  BY SameHistory
<1>3. [HP!B!BNext]_(HP!B!bvars) => [HH!B!BNext]_(HH!B!bvars)
  BY SameHistory
<1>4. HP!B!BSpec => HH!B!BSpec
  BY <1>2, <1>3, PTL DEF HP!B!BSpec, HH!B!BSpec
<1>5. QED
  BY <1>1, <1>4, LiveRefinesHistory DEF StreamsAreABroadcast, HH!ImplementsBroadcast

-----------------------------------------------------------------------------
\* The last update that c's handler took from its channel is the i-th event.
LastTaken(c, i) ==
    /\ i \in 1..Len(seen[c])
    /\ seen[c][i] # Degraded
    /\ \A j \in i + 1 .. Len(seen[c]) : seen[c][j] = Degraded

\* The picture that an update, and what followed it, leave behind.
Picture(ev, last) == IF last THEN ev ELSE [ev EXCEPT !.deg = TRUE]

\* A client shows the last update that its handler took, whose first frame came
\* before all of them.
ShowsTaken(c) ==
    /\ view[c] = None => seen[c] = <<>>
    /\ \A i \in 1..Len(seen[c]) : LastTaken(c, i) => view[c] = Picture(seen[c][i], i = Len(seen[c]))

PictureInv == \A c \in Conns : conn[c] = "open" => ShowsTaken(c)

LEMMA SameTaken ==
    ASSUME NEW c \in Conns, view'[c] = view[c], seen'[c] = seen[c], ShowsTaken(c)
    PROVE  ShowsTaken(c)'
  BY DEF ShowsTaken, LastTaken, Picture

LEMMA NothingTaken == ASSUME NEW c \in Conns, seen[c] = <<>> PROVE ShowsTaken(c)
  BY DEF ShowsTaken

\* A handler takes an event: an update is the new picture, a "degraded" event
\* flags the one there is.
LEMMA TakeStep ==
    ASSUME LocalTypeOK, HP!HistoryTypeOK, HP!TypeOK, NEW c \in Conns, LRelay(c), ShowsTaken(c)
    PROVE  ShowsTaken(c)'
<1> DEFINE s == seen[c]
           ev == Head(chan[c])
<1>1. /\ view[c] # None /\ chan[c] # <<>> /\ chan[c] \in Seq(Event) /\ s \in Seq(Event)
      /\ view'[c] = Shown(view[c], ev) /\ seen'[c] = Append(s, ev)
  BY DEF LRelay, Relay, H!Receive, LocalTypeOK, HP!HistoryTypeOK, HP!TypeOK
<1>2. ev \in Event /\ view[c] \in Snap
  BY <1>1 DEF LocalTypeOK
<1>3. /\ Len(s) \in Nat /\ Len(seen'[c]) = Len(s) + 1 /\ seen'[c][Len(s) + 1] = ev
      /\ \A i \in 1..Len(s) : seen'[c][i] = s[i] /\ s[i] \in Event
  BY <1>1, <1>2
<1>4. view'[c] # None
  BY <1>2, <1>1, LiveAssumption DEF Shown, Event, Snap
<1>5. ASSUME NEW i \in 1..Len(s) + 1, LastTaken(c, i)'
      PROVE  view'[c] = Picture(seen'[c][i], i = Len(s) + 1)
  <2>1. CASE i = Len(s) + 1
    <3>1. ev # Degraded
      BY <1>3, <1>5, <2>1 DEF LastTaken
    <3>2. QED
      BY <1>1, <1>3, <2>1, <3>1 DEF Shown, Picture
  <2>2. CASE i # Len(s) + 1
    <3>1. i \in 1..Len(s) /\ Len(s) + 1 \in i + 1 .. Len(s) + 1
      BY <1>3, <2>2
    <3>2. ev = Degraded
      BY <1>3, <1>5, <3>1 DEF LastTaken
    <3>3. LastTaken(c, i)
      <4>1. \A j \in i + 1 .. Len(s) : j \in i + 1 .. Len(s) + 1 /\ j \in 1..Len(s)
        BY <1>3, <3>1
      <4>2. QED
        BY <1>3, <1>5, <3>1, <4>1 DEF LastTaken
    <3>4. view[c] = Picture(s[i], i = Len(s))
      BY <3>1, <3>3 DEF ShowsTaken
    <3>5. view'[c] = [view[c] EXCEPT !.deg = TRUE]
      BY <1>1, <3>2 DEF Shown
    <3>6. s[i] \in Snap
      BY <1>3, <3>1, <3>3 DEF LastTaken, Event
    <3>7. [[s[i] EXCEPT !.deg = TRUE] EXCEPT !.deg = TRUE] = [s[i] EXCEPT !.deg = TRUE]
      BY <3>6 DEF Snap
    <3>8. view'[c] = [s[i] EXCEPT !.deg = TRUE]
      BY <3>4, <3>5, <3>7 DEF Picture
    <3>9. QED
      BY <1>3, <2>2, <3>1, <3>8 DEF Picture
  <2>3. QED
    BY <2>1, <2>2
<1>6. QED
  BY <1>3, <1>4, <1>5 DEF ShowsTaken

LEMMA PictureStep ==
    TypeOK /\ ShowInv /\ HP!HistoryInv /\ PictureInv /\ [LNext]_lvars => PictureInv'
<1> SUFFICES ASSUME LocalTypeOK, H!TypeOK, ShowInv, HP!HistoryInv, PictureInv, [LNext]_lvars,
                    NEW d \in Conns, conn'[d] = "open"
             PROVE  ShowsTaken(d)'
  BY TypeOKSplits DEF PictureInv
<1>0. HP!HistoryTypeOK /\ HP!TypeOK
  BY SameHub DEF HP!HistoryInv
\* The steps that leave d's stream alone.
<1>1. ASSUME UNCHANGED <<conn, seen>>, view'[d] = view[d] PROVE ShowsTaken(d)'
  BY <1>1, SameTaken DEF PictureInv
<1>2. ASSUME NEW k \in Conns \cup Callers, NEW s \in Snap, Return(k, s), UNCHANGED <<hubVars, history>>,
             k = d => call[d].at # "none"
      PROVE  ShowsTaken(d)'
  <2>1. UNCHANGED <<conn, seen>>
    BY <1>2 DEF hubVars, history
  <2>2. CASE k = d
    <3>1. view[d] = None /\ conn[d] = "open"
      BY <1>2, <2>1, <2>2 DEF ShowInv, Beginnings
    <3>2. seen'[d] = <<>>
      BY <2>1, <3>1 DEF PictureInv, ShowsTaken
    <3>3. view'[d] = s /\ s # None
      BY <1>2, <2>2, LiveAssumption DEF Return, LocalTypeOK
    <3>4. QED
      BY <3>2, <3>3 DEF ShowsTaken
  <2>3. CASE k # d
    <3>1. view'[d] = view[d]
      BY <1>2, <2>3 DEF Return, LocalTypeOK
    <3>2. QED
      BY <1>1, <2>1, <3>1
  <2>4. QED
    BY <2>2, <2>3
<1>3. CASE Quiet /\ UNCHANGED history
  <2>0. UNCHANGED seen
    BY <1>3 DEF history
  <2>1. CASE IntervalPasses
    BY <1>1, <2>0, <2>1 DEF IntervalPasses, hubVars
  <2>2. ASSUME NEW k \in Conns \cup Callers, Snapshot(k) PROVE ShowsTaken(d)'
    <3>0. call[k].srv \in BOOLEAN
      BY LocalFields DEF LocalTypeOK
    <3>1. CASE SnapshotAsks(k)
      BY <1>1, <2>0, <3>1 DEF SnapshotAsks, hubVars
    <3>2. CASE SnapshotFails(k)
      <4>1. Fallback(call[k].srv) \in Snap
        BY <3>0, FallbackType
      <4>2. QED
        BY <1>2, <1>3, <3>2, <4>1 DEF SnapshotFails
    <3>3. ASSUME NEW w \in World, SnapshotStores(k, w) PROVE ShowsTaken(d)'
      <4>1. snap' \in Snap
        BY <3>0, <3>3, NormalizedType DEF SnapshotStores
      <4>2. QED
        BY <1>2, <1>3, <3>3, <4>1 DEF SnapshotStores
    <3>4. QED
      BY <2>2, <3>1, <3>2, <3>3 DEF Snapshot
  <2>3. ASSUME NEW c \in Conns, SnapshotFromCache(c) PROVE ShowsTaken(d)'
    <3>1. snap \in Snap /\ call[c].at # "none"
      BY <2>3 DEF SnapshotFromCache, Cached, Asks, LocalTypeOK
    <3>2. QED
      BY <1>2, <1>3, <2>3, <3>1 DEF SnapshotFromCache
  <2>4. ASSUME NEW c \in Conns, StreamEnds(c) \/ ClientGone(c) PROVE ShowsTaken(d)'
    <3>1. conn' = [conn EXCEPT ![c] = "done"] /\ view' = [view EXCEPT ![c] = None]
      BY <2>4 DEF StreamEnds, ClientGone, Leave, H!EndOfStream, H!ClientGone, H!Unsub
    <3>2. c # d
      BY <3>1 DEF H!TypeOK
    <3>3. conn[d] = "open" /\ view'[d] = view[d]
      BY <3>1, <3>2 DEF H!TypeOK, LocalTypeOK
    <3>4. QED
      BY <2>0, <3>3, SameTaken DEF PictureInv
  <2>5. ASSUME NEW l \in Loops, Poll(l) PROVE ShowsTaken(d)'
    <3>1. UNCHANGED <<conn, view>>
      BY <2>5 DEF Poll, PollServer, PollFails, PollSucceeds, PollPublish, PollAgain, PollReturns,
                  hubVars, H!LoopPublish, H!Publish, H!LoopReturn
    <3>2. QED
      BY <1>1, <2>0, <3>1
  <2>6. QED
    BY <1>3, <2>1, <2>2, <2>3, <2>4, <2>5 DEF Quiet
<1>4. ASSUME NEW c \in Conns, LConnect(c) PROVE ShowsTaken(d)'
  <2>1. /\ conn[c] = "new" /\ conn' = [conn EXCEPT ![c] = "open"] /\ UNCHANGED <<view, seen>>
    BY <1>4 DEF LConnect, Connect, H!Subscribe
  <2>2. CASE c = d
    <3>1. seen'[d] = <<>>
      BY <2>1, <2>2 DEF HP!HistoryInv
    <3>2. QED
      BY <3>1 DEF ShowsTaken
  <2>3. CASE c # d
    <3>1. conn[d] = "open"
      BY <2>1, <2>3 DEF H!TypeOK
    <3>2. QED
      BY <2>1, <3>1, SameTaken DEF PictureInv
  <2>4. QED
    BY <2>2, <2>3
<1>5. ASSUME NEW c \in Conns, LRelay(c) PROVE ShowsTaken(d)'
  <2>1. /\ UNCHANGED conn /\ conn[d] = "open"
        /\ view' = [view EXCEPT ![c] = Shown(@, Head(chan[c]))]
        /\ seen' = [seen EXCEPT ![c] = Append(@, Head(chan[c]))]
    BY <1>5 DEF LRelay, Relay, H!Receive
  <2>2. CASE c = d
    BY <1>0, <1>5, <2>1, <2>2, TakeStep DEF PictureInv
  <2>3. CASE c # d
    <3>1. view'[d] = view[d] /\ seen'[d] = seen[d]
      BY <1>0, <2>1, <2>3 DEF LocalTypeOK, HP!HistoryTypeOK
    <3>2. QED
      BY <2>1, <3>1, SameTaken DEF PictureInv
  <2>4. QED
    BY <2>2, <2>3
<1>6. ASSUME NEW l \in Loops, LPublish(l) PROVE ShowsTaken(d)'
  BY <1>1, <1>6 DEF LPublish, PollPublish, H!LoopPublish, H!Publish
<1>7. CASE LClose
  BY <1>1, <1>7 DEF LClose, CloseHub, H!Close
<1>8. CASE UNCHANGED lvars
  BY <1>1, <1>8 DEF lvars, vars, hubVars, history
<1>9. QED
  BY <1>3, <1>4, <1>5, <1>6, <1>7, <1>8 DEF LNext

\* The invariants of the subsystem and of the hub's history, and the pictures.
THEOREM PictureInvariant == LSpec => [](TypeOK /\ HP!HistoryInv /\ PictureInv)
<1>1. LInit => PictureInv
  BY DEF LInit, Init, H!Init, PictureInv
<1>2. LSpec => []HP!HistoryInv
  BY HubAssumptions, LiveRefinesHistory, HP!HistoryInvariant, PTL
<1>3. QED
  BY <1>1, <1>2, PictureStep, HistoryRefinesLive, LiveTypeCorrect, ShowInvariant, PTL DEF LSpec

\* What a handler took is a stretch of the log; once its channel is empty, it is
\* all of what its client is owed.
LEMMA DrainedTookAll ==
    ASSUME HP!HistoryInv, NEW c \in Conns, Drained(c)
    PROVE  /\ from[c] \in Nat /\ Len(seen[c]) \in Nat /\ Owed(c) = from[c] + Len(seen[c])
           /\ \A k \in 1..Len(seen[c]) : seen[c][k] = log[from[c] + k]
<1>1. from[c] \in Nat /\ seen[c] \in Seq(Event)
  BY DEF HP!HistoryInv, HP!HistoryTypeOK
<1>2. from[c] + Len(seen[c]) + Len(chan[c]) = Owed(c) /\ Len(chan[c]) = 0
  BY DEF HP!HistoryInv, HP!BufferContinuesSeen, HP!Continues, Drained, Owed
<1>3. \A k \in 1..Len(seen[c]) : seen[c][k] = log[from[c] + k]
  BY DEF HP!HistoryInv, HP!SeenFollowsLog, Drained
<1>4. Owed(c) = from[c] + Len(seen[c])
  BY <1>1, <1>2
<1>5. QED
  BY <1>1, <1>3, <1>4

LEMMA DrainedShowsLog ==
    ASSUME HP!HistoryInv, PictureInv, NEW c \in Conns, NEW i \in DOMAIN log, Drained(c), LastUpdate(c, i)
    PROVE  view[c] = Picture(log[i], i = Owed(c))
<1> DEFINE k == i - from[c]
<1>1. /\ from[c] \in Nat /\ Len(seen[c]) \in Nat /\ Owed(c) = from[c] + Len(seen[c])
      /\ \A j \in 1..Len(seen[c]) : seen[c][j] = log[from[c] + j]
  BY DrainedTookAll
<1>2. i \in from[c] + 1 .. Owed(c) /\ log[i] # Degraded /\ \A j \in i + 1 .. Owed(c) : log[j] = Degraded
  BY DEF LastUpdate
<1>3. k \in 1..Len(seen[c]) /\ from[c] + k = i /\ (k = Len(seen[c]) <=> i = Owed(c))
  BY <1>1, <1>2
<1>4. seen[c][k] = log[i]
  BY <1>1, <1>3
<1>5. \A j \in k + 1 .. Len(seen[c]) : seen[c][j] = Degraded
  <2> TAKE j \in k + 1 .. Len(seen[c])
  <2>0. \A f, n, m, x \in Nat : m \in 1..n /\ x \in m + 1 .. n =>
            x \in 1..n /\ f + x \in f + m + 1 .. f + n
    OBVIOUS
  <2>1. k \in Nat /\ j \in Nat /\ i + 1 = from[c] + k + 1
    BY <1>1, <1>3
  <2>2. j \in 1..Len(seen[c]) /\ from[c] + j \in i + 1 .. Owed(c)
    <3> HIDE DEF k
    <3>1. QED
      BY <1>1, <1>3, <2>0, <2>1
  <2>3. QED
    BY <1>1, <1>2, <2>2
<1>6. LastTaken(c, k)
  BY <1>2, <1>3, <1>4, <1>5 DEF LastTaken
<1>7. view[c] = Picture(seen[c][k], k = Len(seen[c]))
  BY <1>3, <1>6 DEF PictureInv, ShowsTaken, Drained
<1>8. QED
  BY <1>3, <1>4, <1>7 DEF Picture

\* A client that has drained its channel shows the last update that was
\* published for it, for any number of streams, plain requests, poll loops and
\* events, and any buffer size.
THEOREM ViewersFollowTheLog == LSpec => []CaughtUpShowsLog
<1>1. HP!HistoryInv /\ PictureInv => CaughtUpShowsLog
  <2> SUFFICES ASSUME HP!HistoryInv, PictureInv, NEW c \in Conns, NEW i \in DOMAIN log,
                      Drained(c), LastUpdate(c, i)
               PROVE  view[c] = Picture(log[i], i = Owed(c))
    BY DEF CaughtUpShowsLog, Picture
  <2>1. QED
    BY DrainedShowsLog
<1>2. QED
  BY <1>1, PictureInvariant, PTL

\* Two browsers that have drained their channels, and were each sent an update,
\* show the same picture.
THEOREM ViewersDoAgree == LSpec => []ViewersAgree
<1>1. TypeOK /\ HP!HistoryInv /\ PictureInv => ViewersAgree
  <2> SUFFICES ASSUME TypeOK, HP!HistoryInv, PictureInv, NEW c \in subs, NEW d \in subs,
                      NEW i \in DOMAIN log, NEW j \in DOMAIN log,
                      Drained(c), Drained(d), LastUpdate(c, i), LastUpdate(d, j)
               PROVE  view[c] = view[d]
    BY DEF ViewersAgree
  <2>1. c \in Conns /\ d \in Conns
    BY DEF TypeOK, H!TypeOK
  <2>2. Owed(c) = Len(log) /\ Owed(d) = Len(log) /\ Len(log) \in Nat
    BY DEF Owed, HP!HistoryInv, HP!HistoryTypeOK
  <2>3. from[c] \in Nat /\ from[d] \in Nat
    BY <2>1, DrainedTookAll
  <2>4. i = j
    BY <2>2, <2>3 DEF LastUpdate
  <2>5. view[c] = Picture(log[i], i = Len(log)) /\ view[d] = Picture(log[i], i = Len(log))
    BY <2>1, <2>2, <2>4, DrainedShowsLog
  <2>6. QED
    BY <2>5
<1>2. QED
  BY <1>1, PictureInvariant, PTL
=============================================================================
