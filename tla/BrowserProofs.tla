---------------------------- MODULE BrowserProofs ----------------------------
(***************************************************************************)
(* What the browser keeps in step with the server: the stream of the Now   *)
(* Playing page, the play history read page by page, the cache that the    *)
(* images come from, and the names that are linked to Jellyfin.            *)
(***************************************************************************)
EXTENDS PageHook, PlayHistory, ArtCache, LinkResolver, SequenceTheorems, SumTheorems

-----------------------------------------------------------------------------
(***************************************************************************)
(* The page leaves no stream behind, and shows what was published last     *)
(* once it has heard all: for any number of streams, frames and pictures,  *)
(* and whatever the first frame of a stream brings.                        *)
(***************************************************************************)

Frames == Snapshots \union Updates \union {Degraded, Ended}
Streams == [at : {"closed", "connecting", "subscribed", "open", "dead"}, frames : Seq(Frames)]
Sums == [v : 0..MaxVersion, degraded : BOOLEAN]
Listening == {"subscribed", "open"}

\* There is no stream without the page.
NothingUnmounted == ~mounted => es = NoSource

\* The k-th frame is the last snapshot under way: with what follows it, it makes
\* up p, which is what was published.
Leads(f, k, p) ==
    /\ f[k].kind \in {"snapshot", "update"}
    /\ p.v # 0 => f[k].v = p.v
    /\ \A j \in DOMAIN f : k < j => f[j] = Degraded
    /\ IF k = Len(f) THEN p # Nothing => f[k].degraded = p.degraded ELSE p.degraded

\* Before the first frame, and without an update, only the flag was published.
Waits(f, p) ==
    /\ \A i \in DOMAIN f : f[i] = Degraded
    /\ p.v = 0
    /\ f = <<>> => p = Nothing
    /\ f # <<>> => p.degraded

\* After it, and without a snapshot under way, the page shows what was published.
Follows(f, p) ==
    /\ \A i \in DOMAIN f : f[i] = Degraded
    /\ f # <<>> => p.degraded
    /\ from = "frame" =>
           /\ conn = "live"
           /\ p.v # 0 => base = p.v
           /\ f = <<>> /\ p # Nothing => degraded = p.degraded

CutOff(f) == f # <<>> /\ f[Len(f)] = Ended
Room(at) == IF at = "subscribed" THEN FrameCap ELSE FrameCap + 1

\* What is shown and what is under way make up what was published, until the
\* stream is cut off.
InStep(at, f, p) ==
    \/ CutOff(f) /\ Len(f) <= Room(at) + 1
    \/ /\ Len(f) <= Room(at)
       /\ \A i \in DOMAIN f : f[i] # Ended
       /\ \/ \E k \in DOMAIN f : Leads(f, k, p)
          \/ at = "subscribed" /\ Waits(f, p)
          \/ at = "open" /\ Follows(f, p)

FramesFollow ==
    \A s \in Sources :
        stream[s].at \in Listening => InStep(stream[s].at, stream[s].frames, sent[s])

HookInv == HookTypeOK /\ NothingUnmounted /\ NoStreamLeftBehind /\ FramesFollow

-----------------------------------------------------------------------------
\* The types in the names used here.
LEMMA HookTypes ==
    ASSUME HookInv
    PROVE  /\ stream \in [Sources -> Streams] /\ sent \in [Sources -> Sums]
           /\ \A s \in Sources : Len(stream[s].frames) <= FrameCap + 2
           /\ FrameCap \in Nat \ {0} /\ MaxVersion \in Nat \ {0}
BY HookAssumption DEF HookInv, HookTypeOK, Streams, Sums, Frames

\* What CloseSource leaves has no stream at all.
LEMMA AllClosed ==
    ASSUME HookInv
    PROVE  CloseSource = [s \in Sources |-> Closed]
<1>1. stream \in [Sources -> Streams]
  BY HookTypes
<1>2. CASE es = NoSource
  <2>1. \A s \in Sources : stream[s] = Closed
    BY <1>2, HookAssumption DEF HookInv, NoStreamLeftBehind
  <2>2. QED
    BY <1>1, <1>2, <2>1 DEF CloseSource
<1>3. CASE es # NoSource
  <2>1. CloseSource = [stream EXCEPT ![es] = Closed]
    BY <1>3 DEF CloseSource
  <2>2. \A s \in Sources : s # es => stream[s] = Closed
    BY DEF HookInv, NoStreamLeftBehind
  <2>3. QED
    BY <1>1, <2>1, <2>2
<1>4. QED
  BY <1>2, <1>3

\* Open leaves the stream it has made and nothing else.
LEMMA OneOpened ==
    ASSUME HookInv, Open
    PROVE  /\ es' \in Sources
           /\ stream' = [s \in Sources |-> IF s = es' THEN Connecting ELSE Closed]
<1>1. PICK s \in {t \in Sources : CloseSource[t] = Closed} :
          es' = s /\ stream' = [CloseSource EXCEPT ![s] = Connecting]
  BY DEF Open
<1>2. CloseSource = [t \in Sources |-> Closed]
  BY AllClosed
<1>3. QED
  BY <1>1, <1>2

\* What an open stream is.
LEMMA Opened ==
    ASSUME NEW f \in Seq(Frames)
    PROVE  OpenWith(f) \in Streams /\ OpenWith(f).at = "open" /\ OpenWith(f).frames = f
BY DEF OpenWith, Streams

\* A frame is put behind the others.
LEMMA Appended ==
    ASSUME NEW f \in Seq(Frames), NEW x \in Frames
    PROVE  /\ Append(f, x) \in Seq(Frames) /\ Len(f) \in Nat
           /\ Len(Append(f, x)) = Len(f) + 1 /\ Append(f, x) # <<>>
           /\ DOMAIN Append(f, x) = 1..(Len(f) + 1) /\ DOMAIN f = 1..Len(f)
           /\ \A i \in 1..Len(f) : Append(f, x)[i] = f[i]
           /\ Append(f, x)[Len(f) + 1] = x
OBVIOUS

\* An update leads.
LEMMA UpdateLeads ==
    ASSUME NEW f \in Seq(Frames), NEW x \in Updates, NEW p, p = [v |-> x.v, degraded |-> FALSE]
    PROVE  Len(f) + 1 \in DOMAIN Append(f, x) /\ Leads(Append(f, x), Len(f) + 1, p)
<1>1. x \in Frames /\ x.kind = "update" /\ x.degraded = FALSE
  BY DEF Frames, Updates
<1>2. p.v = x.v /\ p.degraded = FALSE
  OBVIOUS
<1>3. PICK g : g = Append(f, x)
  OBVIOUS
<1>4. Len(f) + 1 \in DOMAIN g /\ g[Len(f) + 1] = x /\ Len(g) = Len(f) + 1
      /\ \A j \in DOMAIN g : ~(Len(f) + 1 < j)
  BY <1>1, <1>3, Appended
<1>5. Leads(g, Len(f) + 1, p)
  BY <1>1, <1>2, <1>4 DEF Leads
<1>6. QED
  BY <1>3, <1>4, <1>5

\* The flag that follows changes nothing else.
LEMMA DegradeFollows ==
    ASSUME NEW f \in Seq(Frames), NEW p \in Sums, NEW q, q = [p EXCEPT !.degraded = TRUE]
    PROVE  /\ \A k \in DOMAIN f :
                  Leads(f, k, p) => k \in DOMAIN Append(f, Degraded) /\ Leads(Append(f, Degraded), k, q)
           /\ Waits(f, p) => Waits(Append(f, Degraded), q)
           /\ Follows(f, p) => Follows(Append(f, Degraded), q)
<1>1. Degraded \in Frames
  BY DEF Frames
<1>2. q.v = p.v /\ q.degraded = TRUE
  BY DEF Sums
<1>3. ASSUME NEW k \in DOMAIN f, Leads(f, k, p)
      PROVE  k \in DOMAIN Append(f, Degraded) /\ Leads(Append(f, Degraded), k, q)
  <2>1. PICK g : g = Append(f, Degraded)
    OBVIOUS
  <2>2. /\ k \in DOMAIN g /\ g[k] = f[k] /\ k # Len(g)
        /\ \A j \in DOMAIN g : (j \in DOMAIN f /\ g[j] = f[j]) \/ g[j] = Degraded
    BY <1>1, <2>1, Appended
  <2>3. Leads(g, k, q)
    BY <1>2, <1>3, <2>2 DEF Leads
  <2>4. QED
    BY <2>1, <2>2, <2>3
<1>4. ASSUME \A i \in DOMAIN f : f[i] = Degraded
      PROVE  \A i \in DOMAIN Append(f, Degraded) : Append(f, Degraded)[i] = Degraded
  BY <1>1, <1>4, Appended
<1>5. Append(f, Degraded) # <<>>
  BY <1>1, Appended
<1>6. QED
  BY <1>2, <1>3, <1>4, <1>5 DEF Waits, Follows

\* A frame is put behind the others of a stream, or it is cut off.
LEMMA SentTo ==
    ASSUME HookInv, NEW f \in Frames \ {Ended}, Send(f), NEW s \in Sources
    PROVE  /\ stream'[s] \in Streams /\ stream'[s].at = stream[s].at
           /\ stream[s].at \notin Listening => stream'[s] = stream[s]
           /\ stream[s].at \in Listening =>
                  \/ /\ CutOff(stream'[s].frames)
                     /\ Len(stream'[s].frames) <= Room(stream[s].at) + 1
                  \/ /\ ~CutOff(stream[s].frames)
                     /\ Len(stream[s].frames) < FrameCap
                     /\ stream'[s].frames = Append(stream[s].frames, f)
<1> DEFINE t == stream[s]
           ended == Ended \in {t.frames[i] : i \in DOMAIN t.frames}
           full == Len(t.frames) >= FrameCap
<1>1. t \in Streams /\ t.frames \in Seq(Frames) /\ Ended \in Frames /\ FrameCap \in Nat
  BY HookTypes DEF Streams, Frames
<1>2. stream'[s] = IF t.at \notin Listening \/ ended THEN t
                   ELSE [t EXCEPT !.frames = Append(@, IF full THEN Ended ELSE f)]
  BY DEF Send, Stands, Listening
<1> HIDE DEF ended
<1>3. CASE t.at \notin Listening
  BY <1>1, <1>2, <1>3
<1>4. CASE t.at \in Listening /\ ended
  <2>1. InStep(t.at, t.frames, sent[s])
    BY <1>4 DEF HookInv, FramesFollow
  <2>2. CutOff(t.frames) /\ Len(t.frames) <= Room(t.at) + 1
    BY <1>4, <2>1 DEF InStep, ended
  <2>3. QED
    BY <1>1, <1>2, <1>4, <2>2
<1>5. CASE t.at \in Listening /\ ~ended
  <2>1. InStep(t.at, t.frames, sent[s])
    BY <1>5 DEF HookInv, FramesFollow
  <2>2. ~CutOff(t.frames)
    <3>1. t.frames # <<>> => Len(t.frames) \in DOMAIN t.frames
      BY <1>1
    <3>2. QED
      BY <1>5, <3>1 DEF CutOff, ended
  <2>3. Len(t.frames) <= Room(t.at) /\ Room(t.at) \in Nat
    BY <1>1, <2>1, <2>2 DEF InStep, Room
  <2>4. CASE full
    <3>1. stream'[s] = [t EXCEPT !.frames = Append(@, Ended)]
      BY <1>2, <1>5, <2>4
    <3>2. stream'[s].frames = Append(t.frames, Ended) /\ stream'[s].at = t.at /\ stream'[s] \in Streams
      <4>1. Append(t.frames, Ended) \in Seq(Frames)
        BY <1>1
      <4>2. PICK g \in Seq(Frames) : g = Append(t.frames, Ended)
        BY <4>1
      <4>3. stream'[s] = [t EXCEPT !.frames = g]
        BY <3>1, <4>2
      <4>4. stream'[s].frames = g /\ stream'[s].at = t.at /\ stream'[s] \in Streams
        BY <1>1, <4>3 DEF Streams
      <4>5. QED
        BY <4>2, <4>4
    <3>3. CutOff(Append(t.frames, Ended)) /\ Len(Append(t.frames, Ended)) <= Room(t.at) + 1
      BY <1>1, <2>3, Appended DEF CutOff
    <3>4. QED
      BY <1>5, <3>2, <3>3
  <2>5. CASE ~full
    <3>1. stream'[s] = [t EXCEPT !.frames = Append(@, f)]
      BY <1>2, <1>5, <2>5
    <3>2. stream'[s].frames = Append(t.frames, f) /\ stream'[s].at = t.at /\ stream'[s] \in Streams
      <4>1. Append(t.frames, f) \in Seq(Frames)
        BY <1>1
      <4>2. PICK g \in Seq(Frames) : g = Append(t.frames, f)
        BY <4>1
      <4>3. stream'[s] = [t EXCEPT !.frames = g]
        BY <3>1, <4>2
      <4>4. stream'[s].frames = g /\ stream'[s].at = t.at /\ stream'[s] \in Streams
        BY <1>1, <4>3 DEF Streams
      <4>5. QED
        BY <4>2, <4>4
    <3>3. Len(t.frames) < FrameCap
      BY <1>1, <2>5
    <3>4. QED
      BY <1>5, <2>2, <3>2, <3>3
  <2>6. QED
    BY <2>4, <2>5
<1>6. QED
  BY <1>3, <1>4, <1>5

\* What is noted keeps the type, and is what the streams that stand were sent.
LEMMA Noted ==
    ASSUME NEW p \in [Sources -> Sums], Note(p)
    PROVE  /\ sent' \in [Sources -> Sums]
           /\ \A s \in Sources : Stands(s)' => sent'[s] = p[s]
<1>1. Nothing \in Sums
  BY HookAssumption DEF Nothing, Sums
<1>2. QED
  BY <1>1 DEF Note

\* The hub publishes.
LEMMA HubSteps ==
    ASSUME HookInv, Publish \/ Degrade
    PROVE  HookInv'
<1>0. PICK f \in Frames \ {Ended} : \E p :
          /\ Send(f) /\ Note(p)
          /\ \/ f \in Updates /\ p = [s \in Sources |-> [v |-> f.v, degraded |-> FALSE]]
             \/ f = Degraded /\ p = [s \in Sources |-> [sent[s] EXCEPT !.degraded = TRUE]]
  <2>1. Updates \subseteq Frames \ {Ended} /\ Degraded \in Frames \ {Ended}
    <3>1. \A x \in Updates : x.kind = "update"
      BY DEF Updates
    <3>2. Degraded.kind = "degraded" /\ Ended.kind = "end"
      BY DEF Degraded, Ended
    <3>3. QED
      BY <3>1, <3>2 DEF Frames
  <2>2. QED
    BY <2>1 DEF Publish, Degrade
<1>1. PICK p :
          /\ Send(f) /\ Note(p)
          /\ \/ f \in Updates /\ p = [s \in Sources |-> [v |-> f.v, degraded |-> FALSE]]
             \/ f = Degraded /\ p = [s \in Sources |-> [sent[s] EXCEPT !.degraded = TRUE]]
  BY <1>0
<1>2. UNCHANGED <<hidden, mounted, es, call, base, degraded, conn, from>>
  BY DEF Publish, Degrade, Page, Shown
<1>3. stream' \in [Sources -> Streams]
  <2>1. DOMAIN stream' = Sources /\ stream' = [s \in Sources |-> stream'[s]]
    BY <1>1 DEF Send
  <2>2. \A s \in Sources : stream'[s] \in Streams
    BY <1>1, SentTo
  <2>3. QED
    BY <2>1, <2>2
<1>4. /\ sent' \in [Sources -> Sums]
      /\ \A s \in Sources : Stands(s)' => sent'[s] = p[s]
  <2>1. sent \in [Sources -> Sums] /\ MaxVersion \in Nat
    BY HookTypes
  <2>2. CASE f \in Updates /\ p = [s \in Sources |-> [v |-> f.v, degraded |-> FALSE]]
    <3>1. p \in [Sources -> Sums]
      BY <2>1, <2>2 DEF Updates, Sums
    <3>2. QED
      BY <1>1, <3>1, Noted
  <2>3. CASE p = [s \in Sources |-> [sent[s] EXCEPT !.degraded = TRUE]]
    <3>1. p \in [Sources -> Sums]
      BY <2>1, <2>3 DEF Sums
    <3>2. QED
      BY <1>1, <3>1, Noted
  <2>4. QED
    BY <1>1, <2>2, <2>3
<1>5. FramesFollow'
  <2>1. SUFFICES ASSUME NEW s \in Sources, stream'[s].at \in Listening
                 PROVE  InStep(stream[s].at, stream[s].frames, sent[s])'
    BY DEF FramesFollow
  <2> DEFINE old == stream[s].frames
  <2>2. /\ stream'[s].at = stream[s].at /\ old \in Seq(Frames) /\ sent[s] \in Sums
        /\ FrameCap \in Nat /\ Len(old) \in Nat /\ f \in Frames /\ f # Ended
    BY <1>1, SentTo, HookTypes DEF Streams
  <2>3. CASE CutOff(stream'[s].frames) /\ Len(stream'[s].frames) <= Room(stream[s].at) + 1
    BY <2>2, <2>3 DEF InStep
  <2>4. CASE /\ ~CutOff(old) /\ Len(old) < FrameCap
             /\ stream'[s].frames = Append(old, f)
    <3>1. /\ \A i \in DOMAIN old : old[i] # Ended
          /\ \/ \E k \in DOMAIN old : Leads(old, k, sent[s])
             \/ stream[s].at = "subscribed" /\ Waits(old, sent[s])
             \/ stream[s].at = "open" /\ Follows(old, sent[s])
      BY <2>1, <2>2, <2>4 DEF HookInv, FramesFollow, InStep
    <3>2. Len(Append(old, f)) <= Room(stream[s].at)
      BY <2>2, <2>4, Appended DEF Room
    <3>3. \A i \in DOMAIN Append(old, f) : Append(old, f)[i] # Ended
      BY <2>2, <3>1, Appended
    <3>4. sent'[s] = p[s]
      BY <1>4, <2>1, <2>4, <3>3 DEF Stands, Listening
    <3>5. CASE f \in Updates /\ p = [x \in Sources |-> [v |-> f.v, degraded |-> FALSE]]
      <4>1. sent'[s] = [v |-> f.v, degraded |-> FALSE]
        BY <3>5, <3>4
      <4>2. \E k \in DOMAIN Append(old, f) : Leads(Append(old, f), k, sent'[s])
        BY <2>2, <3>5, <4>1, UpdateLeads
      <4>3. QED
        BY <2>2, <2>4, <3>2, <3>3, <4>2 DEF InStep
    <3>6. CASE f = Degraded /\ p = [x \in Sources |-> [sent[x] EXCEPT !.degraded = TRUE]]
      <4>1. sent'[s] = [sent[s] EXCEPT !.degraded = TRUE]
        BY <3>6, <3>4
      <4>2. \/ \E k \in DOMAIN Append(old, f) : Leads(Append(old, f), k, sent'[s])
            \/ stream[s].at = "subscribed" /\ Waits(Append(old, f), sent'[s])
            \/ stream[s].at = "open" /\ Follows(Append(old, f), sent'[s])
        BY <2>2, <3>1, <3>6, <4>1, DegradeFollows
      <4>3. PICK g : g = Append(old, f)
        OBVIOUS
      <4>4. stream'[s].frames = g
        BY <2>4, <4>3
      <4>5. Follows(g, sent'[s]) => Follows(stream[s].frames, sent[s])'
        BY <1>2, <4>4 DEF Follows
      <4>6. QED
        BY <2>2, <3>2, <3>3, <4>2, <4>3, <4>4, <4>5 DEF InStep
    <3>7. QED
      BY <1>1, <3>5, <3>6
  <2>5. QED
    BY <1>1, <2>1, <2>2, <2>3, <2>4, SentTo
<1>6. HookTypeOK'
  <2>1. ASSUME NEW s \in Sources
        PROVE  /\ stream'[s].at \notin Listening => stream'[s].frames = <<>>
               /\ Len(stream'[s].frames) <= FrameCap + 2
    <3>1. stream'[s].at = stream[s].at /\ (stream[s].at \notin Listening => stream'[s] = stream[s])
      BY <1>1, SentTo
    <3>2. CASE stream[s].at \notin Listening
      BY <3>1, <3>2 DEF HookInv, HookTypeOK, Listening
    <3>3. CASE stream[s].at \in Listening
      <4>1. InStep(stream[s].at, stream[s].frames, sent[s])'
        BY <1>5, <3>1, <3>3 DEF FramesFollow
      <4>2. Len(stream'[s].frames) \in Nat /\ FrameCap \in Nat
        BY <1>3, HookTypes DEF Streams
      <4>3. QED
        BY <3>1, <3>3, <4>1, <4>2 DEF InStep, Room
    <3>4. QED
      BY <3>2, <3>3
  <2>2. QED
    BY <1>2, <1>3, <1>4, <2>1 DEF HookInv, HookTypeOK, Streams, Sums, Frames, Listening
<1>7. (NothingUnmounted /\ NoStreamLeftBehind)'
  <2>1. \A s \in Sources : stream[s] = Closed => stream'[s] = Closed
    BY <1>1, SentTo DEF Closed, Listening
  <2>2. QED
    BY <1>2, <2>1 DEF HookInv, NothingUnmounted, NoStreamLeftBehind, Closed
<1>8. QED
  BY <1>5, <1>6, <1>7 DEF HookInv

-----------------------------------------------------------------------------
\* After everything was closed, or one source opened, no stream has frames.
LEMMA NoneOpen ==
    ASSUME HookInv, stream' = [s \in Sources |-> Closed] \/ Open,
           Open => mounted',
           ~Open => es' = NoSource
    PROVE  /\ stream' \in [Sources -> Streams]
           /\ \A s \in Sources : /\ stream'[s].at \notin Listening => stream'[s].frames = <<>>
                                 /\ Len(stream'[s].frames) <= FrameCap + 2
           /\ es' \in Sources \union {NoSource}
           /\ NothingUnmounted' /\ NoStreamLeftBehind' /\ FramesFollow'
<1>1. ASSUME NEW x \in {Closed, Connecting}
      PROVE  /\ x \in Streams
             /\ x.at \notin Listening /\ x.frames = <<>> /\ Len(x.frames) <= FrameCap + 2
  <2>1. <<>> \in Seq(Frames) /\ Len(<<>>) = 0 /\ 0 <= FrameCap + 2
    BY HookAssumption
  <2>2. CASE x = Closed
    BY <2>1, <2>2 DEF Closed, Streams, Listening
  <2>3. CASE x = Connecting
    BY <2>1, <2>3 DEF Connecting, Streams, Listening
  <2>4. QED
    BY <2>2, <2>3
<1>2. CASE Open
  <2>1. /\ es' \in Sources
        /\ stream' = [s \in Sources |-> IF s = es' THEN Connecting ELSE Closed]
    BY <1>2, OneOpened
  <2>2. \A s \in Sources : stream'[s] \in {Closed, Connecting} /\ (s # es' => stream'[s] = Closed)
    BY <2>1
  <2>3. stream' \in [Sources -> Streams]
    BY <1>1, <2>1
  <2>4. \A s \in Sources : /\ stream'[s].at \notin Listening /\ stream'[s].frames = <<>>
                           /\ Len(stream'[s].frames) <= FrameCap + 2
    BY <1>1, <2>2
  <2>5. NothingUnmounted' /\ NoStreamLeftBehind'
    BY <1>2, <2>2 DEF NothingUnmounted, NoStreamLeftBehind, Closed
  <2>6. QED
    BY <2>1, <2>3, <2>4, <2>5 DEF FramesFollow
<1>3. CASE ~Open
  <2>1. /\ \A s \in Sources : stream'[s] = Closed
        /\ stream' = [s \in Sources |-> Closed]
    BY <1>3
  <2>2. stream' \in [Sources -> Streams]
    BY <1>1, <2>1
  <2>3. \A s \in Sources : /\ stream'[s].at \notin Listening /\ stream'[s].frames = <<>>
                           /\ Len(stream'[s].frames) <= FrameCap + 2
    BY <1>1, <2>1
  <2>4. QED
    BY <1>3, <2>1, <2>2, <2>3 DEF NothingUnmounted, NoStreamLeftBehind, FramesFollow, Closed
<1>4. QED
  BY <1>2, <1>3

\* The rest of the type, once the streams have theirs.
LEMMA TypesAre ==
    ASSUME stream' \in [Sources -> Streams],
           \A s \in Sources : /\ stream'[s].at \notin Listening => stream'[s].frames = <<>>
                              /\ Len(stream'[s].frames) <= FrameCap + 2,
           hidden' \in BOOLEAN, mounted' \in BOOLEAN, es' \in Sources \union {NoSource},
           call' \in [Calls -> {NoCall} \union [at : {"sent"}, first : BOOLEAN]],
           base' \in 0..MaxVersion, degraded' \in BOOLEAN,
           conn' \in {"connecting", "live", "reconnecting"}, from' \in {"nothing", "frame", "call"},
           sent' \in [Sources -> Sums]
    PROVE  HookTypeOK'
BY DEF HookTypeOK, Streams, Sums, Frames, Listening

\* A request that is asked for is a request.
LEMMA CallAsked ==
    ASSUME HookInv, NEW first \in BOOLEAN, AskSnapshot(first)
    PROVE  call' \in [Calls -> {NoCall} \union [at : {"sent"}, first : BOOLEAN]]
BY DEF HookInv, HookTypeOK, AskSnapshot

\* The page comes and goes, and so does its tab.
LEMMA PageSteps ==
    ASSUME HookInv, Mount \/ Unmount \/ Hide \/ Show
    PROVE  HookInv'
<1>0. sent' \in [Sources -> Sums] /\ 0 \in 0..MaxVersion
  <2>1. Note(sent) /\ sent \in [Sources -> Sums] /\ MaxVersion \in Nat
    BY HookTypes DEF Mount, Unmount, Hide, Show
  <2>2. sent' \in [Sources -> Sums]
    BY <2>1, Noted
  <2>3. QED
    BY <2>1, <2>2
<1>1. CASE Mount
  <2>1. mounted' = TRUE /\ Open /\ AskSnapshot(TRUE)
    BY <1>1 DEF Mount
  <2>2. call' \in [Calls -> {NoCall} \union [at : {"sent"}, first : BOOLEAN]]
    BY <2>1, CallAsked
  <2>3. HookTypeOK'
    BY <1>0, <1>1, <2>1, <2>2, NoneOpen, TypesAre DEF HookInv, HookTypeOK, Mount
  <2>4. QED
    BY <2>1, <2>3, NoneOpen DEF HookInv
<1>2. CASE Unmount
  <2>1. stream' = [s \in Sources |-> Closed] /\ es' = NoSource
    BY <1>2, AllClosed DEF Unmount
  <2>2. ~Open
    BY <2>1, OneOpened, HookAssumption
  <2>3. call' \in [Calls -> {NoCall} \union [at : {"sent"}, first : BOOLEAN]]
    BY <1>2 DEF Unmount
  <2>4. HookTypeOK'
    BY <1>0, <1>2, <2>1, <2>2, <2>3, NoneOpen, TypesAre DEF HookInv, HookTypeOK, Unmount, Shown
  <2>5. QED
    BY <2>1, <2>2, <2>4, NoneOpen DEF HookInv
<1>3. CASE Hide
  <2>1. stream' = [s \in Sources |-> Closed] /\ es' = NoSource
    <3>1. CASE mounted
      BY <1>3, <3>1, AllClosed DEF Hide
    <3>2. CASE ~mounted
      <4>1. es = NoSource
        BY <3>2 DEF HookInv, NothingUnmounted
      <4>2. CloseSource = stream
        BY <4>1 DEF CloseSource
      <4>3. QED
        BY <1>3, <3>2, <4>1, <4>2, AllClosed DEF Hide
    <3>3. QED
      BY <3>1, <3>2
  <2>2. ~Open
    BY <2>1, OneOpened, HookAssumption
  <2>3. HookTypeOK'
    BY <1>0, <1>3, <2>1, <2>2, NoneOpen, TypesAre DEF HookInv, HookTypeOK, Hide
  <2>4. QED
    BY <2>1, <2>2, <2>3, NoneOpen DEF HookInv
<1>4. CASE Show
  <2>1. CASE mounted
    <3>1. mounted' = TRUE /\ Open /\ AskSnapshot(FALSE)
      BY <1>4, <2>1 DEF Show, HookInv, HookTypeOK
    <3>2. HookTypeOK'
      BY <1>0, <1>4, <3>1, NoneOpen, TypesAre, CallAsked DEF HookInv, HookTypeOK, Show, Shown
    <3>3. QED
      BY <3>1, <3>2, NoneOpen DEF HookInv
  <2>2. CASE ~mounted
    <3>1. es = NoSource
      BY <2>2 DEF HookInv, NothingUnmounted
    <3>2. CloseSource = stream
      BY <3>1 DEF CloseSource
    <3>3. stream' = [s \in Sources |-> Closed] /\ es' = NoSource
      BY <1>4, <2>2, <3>1, <3>2, AllClosed DEF Show
    <3>4. ~Open
      BY <3>3, OneOpened, HookAssumption
    <3>5. HookTypeOK'
      BY <1>0, <1>4, <2>2, <3>3, <3>4, NoneOpen, TypesAre DEF HookInv, HookTypeOK, Show, Shown
    <3>6. QED
      BY <3>3, <3>4, <3>5, NoneOpen DEF HookInv
  <2>3. QED
    BY <2>1, <2>2
<1>5. QED
  BY <1>1, <1>2, <1>3, <1>4

\* The frames follow what is shown, unless a frame is what changes it.
LEMMA SameFrames ==
    ASSUME HookInv, UNCHANGED <<stream, sent>>,
           from' = "frame" => UNCHANGED <<base, degraded, conn, from>>
    PROVE  FramesFollow'
<1>1. SUFFICES ASSUME NEW s \in Sources, stream'[s].at \in Listening
               PROVE  InStep(stream[s].at, stream[s].frames, sent[s])'
  BY DEF FramesFollow
<1>2. InStep(stream[s].at, stream[s].frames, sent[s])
  BY <1>1 DEF HookInv, FramesFollow
<1>3. Follows(stream[s].frames, sent[s]) => Follows(stream[s].frames, sent[s])'
  BY DEF Follows
<1>4. QED
  BY <1>2, <1>3 DEF InStep

\* A request is answered, or not.
LEMMA CallSteps ==
    ASSUME HookInv, NEW c \in Calls, Arrive(c) \/ CallFails(c)
    PROVE  HookInv'
<1>1. UNCHANGED <<hidden, mounted, es, stream, sent>>
  BY DEF Arrive, CallFails
<1>2. FramesFollow'
  BY <1>1, SameFrames DEF Arrive, CallFails, applySnapshot
<1>3. (NothingUnmounted /\ NoStreamLeftBehind)'
  BY <1>1 DEF HookInv, NothingUnmounted, NoStreamLeftBehind, Closed
<1>4. /\ call' \in [Calls -> {NoCall} \union [at : {"sent"}, first : BOOLEAN]]
      /\ base' \in 0..MaxVersion /\ degraded' \in BOOLEAN
      /\ conn' \in {"connecting", "live", "reconnecting"} /\ from' \in {"nothing", "frame", "call"}
  <2>1. CASE Arrive(c)
    <3>1. PICK f \in Snapshots : applySnapshot(f, "call")
      BY <2>1 DEF Arrive
    <3>2. f.v \in 0..MaxVersion /\ f.degraded \in BOOLEAN
      BY HookAssumption DEF Snapshots
    <3>3. QED
      BY <2>1, <3>1, <3>2 DEF HookInv, HookTypeOK, Arrive, applySnapshot
  <2>2. CASE CallFails(c)
    BY <2>2 DEF HookInv, HookTypeOK, CallFails
  <2>3. QED
    BY <2>1, <2>2
<1>5. HookTypeOK'
  BY <1>1, <1>4 DEF HookInv, HookTypeOK
<1>6. QED
  BY <1>2, <1>3, <1>5 DEF HookInv

-----------------------------------------------------------------------------
\* What becomes of one stream, the hook's own.
LEMMA OneStream ==
    ASSUME HookInv, NEW s \in Sources, stream[s] # Closed,
           NEW x \in Streams,
           x # Closed, x.at \notin Listening => x.frames = <<>>, Len(x.frames) <= FrameCap + 2,
           stream' = [stream EXCEPT ![s] = x],
           UNCHANGED <<hidden, mounted, es, call>>,
           base' \in 0..MaxVersion, degraded' \in BOOLEAN,
           conn' \in {"connecting", "live", "reconnecting"}, from' \in {"nothing", "frame", "call"},
           sent' \in [Sources -> Sums],
           x.at \in Listening => InStep(x.at, x.frames, sent[s])'
    PROVE  HookInv'
<1>1. stream \in [Sources -> Streams]
  BY HookTypes
<1>2. stream'[s] = x /\ \A t \in Sources : t # s => stream'[t] = stream[t] /\ stream[t] = Closed
  BY <1>1 DEF HookInv, NoStreamLeftBehind
<1>3. stream' \in [Sources -> Streams]
  BY <1>1
<1>4. HookTypeOK'
  <2>1. ASSUME NEW t \in Sources
        PROVE  /\ stream'[t].at \notin Listening => stream'[t].frames = <<>>
               /\ Len(stream'[t].frames) <= FrameCap + 2
    BY <1>2 DEF HookInv, HookTypeOK, Listening
  <2>2. QED
    BY <1>3, <2>1, TypesAre DEF HookInv, HookTypeOK
<1>5. (NothingUnmounted /\ NoStreamLeftBehind)'
  BY <1>2 DEF HookInv, NothingUnmounted, NoStreamLeftBehind, Closed
<1>6. FramesFollow'
  <2>1. \A t \in Sources : stream'[t].at \in Listening => t = s
    BY <1>2 DEF Closed, Listening
  <2>2. ASSUME x.at \in Listening PROVE InStep(stream[s].at, stream[s].frames, sent[s])'
    BY <1>2, <2>2 DEF InStep, Follows
  <2>3. QED
    BY <1>2, <2>1, <2>2 DEF FramesFollow
<1>7. QED
  BY <1>4, <1>5, <1>6 DEF HookInv

\* The states a stream without frames can be in.
LEMMA States ==
    /\ \A x \in {Connecting, Dead} :
           /\ x \in Streams
           /\ x # Closed /\ x.at \notin Listening /\ x.frames = <<>> /\ Len(x.frames) <= FrameCap + 2
    /\ \A f : OpenWith(f) # Closed
<1>1. <<>> \in Seq(Frames) /\ Len(<<>>) = 0 /\ 0 <= FrameCap + 2
  BY HookAssumption
<1>2. \A f : OpenWith(f).at = "open" /\ Closed.at = "closed"
  BY DEF OpenWith, Closed
<1>3. ASSUME NEW x \in {Connecting, Dead}
      PROVE  /\ x \in Streams
             /\ x # Closed /\ x.at \notin Listening /\ x.frames = <<>> /\ Len(x.frames) <= FrameCap + 2
  <2>1. CASE x = Connecting
    BY <1>1, <2>1 DEF Connecting, Closed, Streams, Listening
  <2>2. CASE x = Dead
    BY <1>1, <2>2 DEF Dead, Closed, Streams, Listening
  <2>3. QED
    BY <2>1, <2>2
<1>4. QED
  BY <1>2, <1>3

\* A frame is put in front of the others.
LEMMA Preceded ==
    ASSUME NEW f \in Seq(Frames), NEW x \in Frames
    PROVE  /\ <<x>> \o f \in Seq(Frames) /\ Len(f) \in Nat
           /\ Len(<<x>> \o f) = Len(f) + 1 /\ <<x>> \o f # <<>>
           /\ DOMAIN (<<x>> \o f) = 1..(Len(f) + 1) /\ DOMAIN f = 1..Len(f)
           /\ (<<x>> \o f)[1] = x
           /\ \A i \in 1..Len(f) : (<<x>> \o f)[i + 1] = f[i]
           /\ \A i \in 2..(Len(f) + 1) : i - 1 \in 1..Len(f) /\ (<<x>> \o f)[i] = f[i - 1]
<1>1. <<x>> \in Seq(Frames) /\ Len(<<x>>) = 1 /\ <<x>>[1] = x
  OBVIOUS
<1>2. QED
  BY <1>1

\* The first frame, in front of what was published before it was sent.
LEMMA FirstLeads ==
    ASSUME NEW f \in Seq(Frames), NEW x \in Snapshots, NEW p \in Sums
    PROVE  /\ CutOff(f) => CutOff(<<x>> \o f)
           /\ (\E k \in DOMAIN f : Leads(f, k, p)) =>
                  \E k \in DOMAIN (<<x>> \o f) : Leads(<<x>> \o f, k, p)
           /\ Waits(f, p) => \E k \in DOMAIN (<<x>> \o f) : Leads(<<x>> \o f, k, p)
<1>1. x \in Frames /\ x.kind = "snapshot"
  BY DEF Frames, Snapshots
<1>2. PICK g : g = <<x>> \o f
  OBVIOUS
<1>3. /\ Len(f) \in Nat /\ Len(g) = Len(f) + 1 /\ g # <<>>
      /\ DOMAIN g = 1..(Len(f) + 1) /\ DOMAIN f = 1..Len(f)
      /\ g[1] = x
      /\ \A i \in 1..Len(f) : g[i + 1] = f[i]
      /\ \A i \in 2..(Len(f) + 1) : i - 1 \in 1..Len(f) /\ g[i] = f[i - 1]
  BY <1>1, <1>2, Preceded
<1>4. ASSUME CutOff(f) PROVE CutOff(g)
  <2>1. Len(f) \in 1..Len(f)
    BY <1>3, <1>4, EmptySeq DEF CutOff
  <2>2. g[Len(f) + 1] = f[Len(f)]
    BY <1>3, <2>1
  <2>3. QED
    BY <1>3, <1>4, <2>2 DEF CutOff
<1>5. ASSUME NEW k \in DOMAIN f, Leads(f, k, p) PROVE k + 1 \in DOMAIN g /\ Leads(g, k + 1, p)
  <2>1. k \in 1..Len(f) /\ k + 1 \in DOMAIN g /\ g[k + 1] = f[k]
    BY <1>3, <1>5
  <2>2. ASSUME NEW j \in DOMAIN g, k + 1 < j PROVE g[j] = Degraded
    <3>1. j \in 2..(Len(f) + 1) /\ k < j - 1 /\ j - 1 \in DOMAIN f /\ g[j] = f[j - 1]
      BY <1>3, <2>1, <2>2
    <3>2. QED
      BY <1>5, <3>1 DEF Leads
  <2>3. k + 1 = Len(g) <=> k = Len(f)
    BY <1>3, <2>1
  <2>4. QED
    BY <1>5, <2>1, <2>2, <2>3 DEF Leads
<1>6. ASSUME Waits(f, p) PROVE 1 \in DOMAIN g /\ Leads(g, 1, p)
  <2>1. ASSUME NEW j \in DOMAIN g, 1 < j PROVE g[j] = Degraded
    <3>1. j - 1 \in DOMAIN f /\ g[j] = f[j - 1]
      BY <1>3, <2>1
    <3>2. QED
      BY <1>6, <3>1 DEF Waits
  <2>2. 1 = Len(g) <=> f = <<>>
    BY <1>3, EmptySeq
  <2>3. 1 \in DOMAIN g
    BY <1>3
  <2>4. QED
    BY <1>1, <1>3, <1>6, <2>1, <2>2, <2>3 DEF Leads, Waits
<1>7. QED
  BY <1>2, <1>4, <1>5, <1>6

\* A stream is subscribed, answered, refused or lost.
LEMMA StreamSteps ==
    ASSUME HookInv, NEW s \in Sources, Subscribe(s) \/ FirstFrame(s) \/ Refuse(s) \/ Break(s)
    PROVE  HookInv'
<1>1. /\ stream[s] # Closed /\ stream \in [Sources -> Streams] /\ sent \in [Sources -> Sums]
      /\ FrameCap \in Nat
  BY HookTypes DEF Subscribe, FirstFrame, Refuse, Break, Closed
<1>2. CASE Subscribe(s)
  <2>1. /\ sent' = [sent EXCEPT ![s] = Nothing]
        /\ UNCHANGED <<hidden, mounted, es, call, base, degraded, conn, from>>
        /\ stream[s].at = "connecting"
        /\ stream' = [stream EXCEPT ![s] = [stream[s] EXCEPT !.at = "subscribed"]]
    BY <1>1, <1>2 DEF Subscribe, Page, Shown
  <2>2. PICK x : x = [stream[s] EXCEPT !.at = "subscribed"]
    OBVIOUS
  <2>3. stream[s].frames = <<>>
    BY <2>1 DEF HookInv, HookTypeOK
  <2>4. x \in Streams /\ x.at = "subscribed" /\ x.frames = <<>> /\ x # Closed /\ Len(x.frames) <= FrameCap + 2
    BY <1>1, <2>2, <2>3 DEF Streams, Closed
  <2>5. Nothing \in Sums /\ sent' \in [Sources -> Sums] /\ sent'[s] = Nothing
    BY <1>1, <2>1, HookAssumption DEF Nothing, Sums
  <2>6. Waits(<<>>, Nothing)
    BY DEF Waits, Nothing
  <2>7. InStep(x.at, x.frames, sent[s])'
    <3>1. Len(<<>>) <= Room("subscribed") /\ \A i \in DOMAIN <<>> : <<>>[i] # Ended
      BY <1>1 DEF Room
    <3>2. QED
      BY <2>4, <2>5, <2>6, <3>1 DEF InStep
  <2>8. QED
    BY <1>1, <2>1, <2>2, <2>4, <2>5, <2>7, OneStream DEF HookInv, HookTypeOK
<1>3. CASE FirstFrame(s)
  <2>1. PICK f \in Snapshots : stream' = [stream EXCEPT ![s] = OpenWith(<<f>> \o stream[s].frames)]
    BY <1>3 DEF FirstFrame
  <2>2. /\ UNCHANGED <<hidden, mounted, es, call, base, degraded, conn, from, sent>>
        /\ stream[s].at = "subscribed"
    BY <1>3 DEF FirstFrame, Page, Shown
  <2>3. PICK old : old = stream[s].frames
    OBVIOUS
  <2>4. PICK new : new = <<f>> \o old
    OBVIOUS
  <2>5. old \in Seq(Frames) /\ f \in Frames /\ f # Ended /\ sent[s] \in Sums
    BY <1>1, <2>3 DEF Streams, Frames, Snapshots, Ended
  <2>6. InStep("subscribed", old, sent[s])
    BY <2>2, <2>3 DEF HookInv, FramesFollow, Listening
  <2>7. InStep("open", new, sent[s])'
    <3>1. CASE CutOff(old) /\ Len(old) <= Room("subscribed") + 1
      <4>1. CutOff(new) /\ Len(new) <= Room("open") + 1
        BY <1>1, <2>4, <2>5, <3>1, FirstLeads, Preceded DEF Room
      <4>2. QED
        BY <4>1 DEF InStep
    <3>2. CASE ~(CutOff(old) /\ Len(old) <= Room("subscribed") + 1)
      <4>1. /\ Len(old) <= Room("subscribed")
            /\ \A i \in DOMAIN old : old[i] # Ended
            /\ \/ \E k \in DOMAIN old : Leads(old, k, sent[s])
               \/ Waits(old, sent[s])
        BY <2>6, <3>2 DEF InStep
      <4>2. Len(new) <= Room("open")
        BY <1>1, <2>4, <2>5, <4>1, Preceded DEF Room
      <4>3. \A i \in DOMAIN new : new[i] # Ended
        BY <2>4, <2>5, <4>1, Preceded
      <4>4. \E k \in DOMAIN new : Leads(new, k, sent[s])
        BY <2>4, <2>5, <4>1, FirstLeads
      <4>5. QED
        BY <2>2, <4>2, <4>3, <4>4 DEF InStep
    <3>3. QED
      BY <3>1, <3>2
  <2>8. new \in Seq(Frames) /\ Len(new) <= FrameCap + 2
    <3>1. Len(new) = Len(old) + 1 /\ Len(old) \in Nat /\ new \in Seq(Frames)
      BY <2>4, <2>5, Preceded
    <3>2. Len(old) <= FrameCap + 1
      BY <1>1, <2>6, <3>1 DEF InStep, Room
    <3>3. QED
      BY <1>1, <3>1, <3>2
  <2>9. /\ OpenWith(new) \in Streams /\ OpenWith(new) # Closed
        /\ OpenWith(new).at = "open" /\ OpenWith(new).frames = new
    BY <2>8, Opened, States
  <2>10. stream' = [stream EXCEPT ![s] = OpenWith(new)] /\ OpenWith(new).at \in Listening
    BY <2>1, <2>3, <2>4, <2>9 DEF Listening
  <2>11. InStep(OpenWith(new).at, OpenWith(new).frames, sent[s])'
    BY <2>7, <2>9
  <2>12. QED
    BY <1>1, <2>2, <2>8, <2>9, <2>10, <2>11, OneStream DEF HookInv, HookTypeOK
<1>4. CASE Refuse(s)
  <2>1. PICK x \in {Connecting, Dead} : stream' = [stream EXCEPT ![s] = x]
    BY <1>4 DEF Refuse
  <2>2. /\ x \in Streams /\ x # Closed /\ x.at \notin Listening /\ x.frames = <<>>
        /\ Len(x.frames) <= FrameCap + 2
    BY States
  <2>3. /\ UNCHANGED <<hidden, mounted, es, call, base, degraded, from>>
        /\ conn' = "reconnecting" /\ sent' \in [Sources -> Sums]
    BY <1>1, <1>4, Noted DEF Refuse
  <2>4. QED
    BY <1>1, <2>1, <2>2, <2>3, OneStream DEF HookInv, HookTypeOK
<1>5. CASE Break(s)
  <2>1. Ended \in Frames
    BY DEF Frames
  <2>2. PICK f : f = <<Ended>>
    OBVIOUS
  <2>3. stream' = [stream EXCEPT ![s] = OpenWith(f)]
    BY <1>5, <2>2 DEF Break
  <2>4. f \in Seq(Frames) /\ Len(f) = 1 /\ f[1] = Ended /\ f # <<>>
    BY <2>1, <2>2
  <2>5. InStep("open", f, sent[s])'
    BY <1>1, <2>4 DEF InStep, CutOff, Room
  <2>6. /\ OpenWith(f) \in Streams /\ OpenWith(f) # Closed
        /\ OpenWith(f).at = "open" /\ OpenWith(f).frames = f /\ OpenWith(f).at \in Listening
    BY <2>4, Opened, States DEF Listening
  <2>7. Len(OpenWith(f).frames) <= FrameCap + 2
    <3>1. Len(OpenWith(f).frames) = 1
      BY <2>4, <2>6
    <3>2. QED
      BY <1>1, <3>1
  <2>8. InStep(OpenWith(f).at, OpenWith(f).frames, sent[s])'
    BY <2>5, <2>6
  <2>9. /\ UNCHANGED <<hidden, mounted, es, call, base, degraded, conn, from>>
        /\ sent' \in [Sources -> Sums]
    BY <1>1, <1>5, Noted DEF Break, Page, Shown
  <2>10. QED
    BY <1>1, <2>3, <2>6, <2>7, <2>8, <2>9, OneStream DEF HookInv, HookTypeOK
<1>6. QED
  BY <1>2, <1>3, <1>4, <1>5

-----------------------------------------------------------------------------
\* The frames that are left when the first is heard.
LEMMA Behead ==
    ASSUME NEW f \in Seq(Frames), f # <<>>
    PROVE  /\ Head(f) = f[1] /\ f[1] \in Frames /\ Tail(f) \in Seq(Frames)
           /\ Len(f) \in Nat \ {0} /\ DOMAIN f = 1..Len(f)
           /\ Len(Tail(f)) = Len(f) - 1 /\ DOMAIN Tail(f) = 1..(Len(f) - 1)
           /\ \A i \in 1..(Len(f) - 1) : Tail(f)[i] = f[i + 1]
           /\ Tail(f) = <<>> <=> Len(f) = 1
<1>1. /\ Head(f) = f[1] /\ f[1] \in Frames /\ Tail(f) \in Seq(Frames)
      /\ Len(f) \in Nat \ {0} /\ DOMAIN f = 1..Len(f)
  OBVIOUS
<1>2. Len(Tail(f)) = Len(f) - 1 /\ DOMAIN Tail(f) = 1..(Len(f) - 1)
  OBVIOUS
<1>3. \A i \in 1..(Len(f) - 1) : Tail(f)[i] = f[i + 1]
  OBVIOUS
<1>4. Tail(f) = <<>> <=> Len(Tail(f)) = 0
  BY <1>1, EmptySeq
<1>5. QED
  BY <1>1, <1>2, <1>3, <1>4

\* A frame is heard that is no end of the stream.
LEMMA Heard ==
    ASSUME HookInv, NEW s \in Sources, stream[s].at = "open", UNCHANGED sent,
           NEW f, f = stream[s].frames, f # <<>>,
           \/ Head(f).kind \in {"snapshot", "update"} /\ applySnapshot(Head(f), "frame")
           \/ Head(f).kind = "degraded" /\ degraded' = TRUE /\ UNCHANGED <<base, conn, from>>
    PROVE  InStep("open", Tail(f), sent[s])'
<1> DEFINE p == sent[s]
<1>1. f \in Seq(Frames) /\ InStep("open", f, p) /\ FrameCap \in Nat /\ p \in Sums
  BY HookTypes DEF HookInv, FramesFollow, Streams, Listening
<1>2. Head(f) # Ended
  BY DEF Ended
<1>3. CASE CutOff(f) /\ Len(f) <= Room("open") + 1
  <2>1. Len(f) # 1 /\ f[Len(f)] = Ended
    BY <1>1, <1>2, <1>3, Behead DEF CutOff
  <2>2. Tail(f) # <<>> /\ Tail(f)[Len(Tail(f))] = Ended
    <3>1. Len(f) - 1 \in 1..(Len(f) - 1) /\ (Len(f) - 1) + 1 = Len(f) /\ Len(Tail(f)) = Len(f) - 1
      BY <1>1, <2>1, Behead
    <3>2. Tail(f)[Len(f) - 1] = f[Len(f)]
      BY <1>1, <3>1, Behead
    <3>3. QED
      BY <1>1, <2>1, <3>1, <3>2, Behead
  <2>3. Len(Tail(f)) <= Room("open") + 1
    BY <1>1, <1>3, Behead DEF Room
  <2>4. QED
    BY <2>2, <2>3 DEF InStep, CutOff
<1>4. CASE ~(CutOff(f) /\ Len(f) <= Room("open") + 1)
  <2>1. /\ Len(f) <= Room("open") /\ \A i \in DOMAIN f : f[i] # Ended
        /\ (\E k \in DOMAIN f : Leads(f, k, p)) \/ Follows(f, p)
    BY <1>1, <1>4 DEF InStep
  <2>2. Len(Tail(f)) <= Room("open") /\ \A i \in DOMAIN Tail(f) : Tail(f)[i] # Ended
    BY <1>1, <2>1, Behead DEF Room
  <2>3. ASSUME Leads(f, 1, p) PROVE Follows(Tail(f), p)'
    <3>1. f[1].kind \in {"snapshot", "update"} /\ Head(f) = f[1]
      BY <1>1, <2>3, Behead DEF Leads
    <3>2. applySnapshot(f[1], "frame")
      BY <3>1
    <3>3. base' = f[1].v /\ conn' = "live" /\ degraded' = f[1].degraded /\ p' = p
      BY <3>2 DEF applySnapshot
    <3>4. \A i \in DOMAIN Tail(f) : Tail(f)[i] = Degraded
      BY <1>1, <2>3, Behead DEF Leads
    <3>5. /\ p.v # 0 => f[1].v = p.v
          /\ Tail(f) = <<>> /\ p # Nothing => f[1].degraded = p.degraded
          /\ Tail(f) # <<>> => p.degraded
      BY <1>1, <2>3, Behead DEF Leads
    <3>6. QED
      BY <3>3, <3>4, <3>5 DEF Follows
  <2>4. ASSUME NEW k \in DOMAIN f, k # 1, Leads(f, k, p)
        PROVE  k - 1 \in DOMAIN Tail(f) /\ Leads(Tail(f), k - 1, p)
    <3>1. k \in 2..Len(f) /\ k - 1 \in DOMAIN Tail(f) /\ Tail(f)[k - 1] = f[k]
      BY <1>1, <2>4, Behead
    <3>2. \A j \in DOMAIN Tail(f) : k - 1 < j => Tail(f)[j] = Degraded
      BY <1>1, <2>4, <3>1, Behead, SMTT(30) DEF Leads
    <3>3. k - 1 = Len(Tail(f)) <=> k = Len(f)
      BY <1>1, <3>1, Behead
    <3>4. QED
      BY <2>4, <3>1, <3>2, <3>3 DEF Leads
  <2>5. ASSUME Follows(f, p) PROVE Follows(Tail(f), p)'
    <3>1. Head(f) = Degraded /\ p.degraded
      BY <1>1, <2>5, Behead DEF Follows
    <3>2. degraded' = TRUE /\ UNCHANGED <<base, conn, from>> /\ p' = p
      BY <3>1 DEF Degraded
    <3>3. \A i \in DOMAIN Tail(f) : Tail(f)[i] = Degraded
      BY <1>1, <2>5, Behead DEF Follows
    <3>4. p.degraded = TRUE
      BY <1>1, <3>1 DEF Sums
    <3>5. QED
      BY <2>5, <3>1, <3>2, <3>3, <3>4 DEF Follows
  <2>6. CASE Leads(f, 1, p)
    BY <2>2, <2>3, <2>6 DEF InStep
  <2>7. CASE \E k \in DOMAIN f : k # 1 /\ Leads(f, k, p)
    BY <2>2, <2>4, <2>7 DEF InStep
  <2>8. CASE Follows(f, p)
    BY <2>2, <2>5, <2>8 DEF InStep
  <2>9. QED
    BY <2>1, <2>6, <2>7, <2>8
<1>5. QED
  BY <1>3, <1>4

\* Hearing a frame, which shows it or closes the stream, keeps the invariant.
LEMMA HearStep ==
    ASSUME HookInv, NEW s \in Sources, Hear(s)
    PROVE  HookInv'
<1>1. /\ stream[s].at = "open" /\ stream[s].frames # <<>> /\ stream[s] # Closed
      /\ UNCHANGED <<hidden, mounted, es, call, sent>> /\ sent \in [Sources -> Sums]
  BY HookTypes DEF Hear, Closed
<1>2. PICK f : f = stream[s].frames
  OBVIOUS
<1>3. f \in Seq(Frames) /\ f # <<>> /\ Len(f) <= FrameCap + 2 /\ FrameCap \in Nat
  BY <1>1, <1>2, HookTypes DEF Streams
<1>4. CASE Head(f).kind = "end"
  <2>1. stream' = [stream EXCEPT ![s] = Connecting]
    BY <1>2, <1>4 DEF Hear
  <2>2. conn' = "reconnecting" /\ UNCHANGED <<base, degraded, from>>
    BY <1>2, <1>4 DEF Hear
  <2>3. QED
    BY <1>1, <2>1, <2>2, OneStream, States DEF HookInv, HookTypeOK
<1>5. CASE Head(f).kind # "end"
  <2>1. stream' = [stream EXCEPT ![s] = OpenWith(Tail(f))]
    BY <1>2, <1>5 DEF Hear
  <2>2. \/ Head(f).kind \in {"snapshot", "update"} /\ applySnapshot(Head(f), "frame")
        \/ Head(f).kind = "degraded" /\ degraded' = TRUE /\ UNCHANGED <<base, conn, from>>
    BY <1>2, <1>5 DEF Hear
  <2>3. InStep("open", Tail(f), sent[s])'
    BY <1>1, <1>2, <2>2, Heard
  <2>4. Tail(f) \in Seq(Frames) /\ Len(Tail(f)) <= FrameCap + 2
    BY <1>3, Behead
  <2>5. /\ OpenWith(Tail(f)) \in Streams /\ OpenWith(Tail(f)) # Closed
        /\ OpenWith(Tail(f)).at = "open" /\ OpenWith(Tail(f)).frames = Tail(f)
    BY <2>4, Opened, States
  <2>6. /\ base' \in 0..MaxVersion /\ degraded' \in BOOLEAN
        /\ conn' \in {"connecting", "live", "reconnecting"} /\ from' \in {"nothing", "frame", "call"}
    <3>1. CASE Head(f).kind \in {"snapshot", "update"} /\ applySnapshot(Head(f), "frame")
      <4>1. Head(f) \in Snapshots \union Updates
        BY <1>3, <3>1, Behead DEF Frames, Degraded, Ended
      <4>2. Head(f).v \in 0..MaxVersion /\ Head(f).degraded \in BOOLEAN
        <5>1. Head(f).v \in 1..MaxVersion /\ Head(f).degraded \in BOOLEAN
          BY <4>1 DEF Snapshots, Updates
        <5>2. QED
          BY <5>1, HookAssumption
      <4>3. QED
        BY <3>1, <4>2 DEF applySnapshot
    <3>2. CASE degraded' = TRUE /\ UNCHANGED <<base, conn, from>>
      BY <3>2 DEF HookInv, HookTypeOK
    <3>3. QED
      BY <2>2, <3>1, <3>2
  <2>7. InStep(OpenWith(Tail(f)).at, OpenWith(Tail(f)).frames, sent[s])'
    BY <2>3, <2>5
  <2>8. QED
    BY <1>1, <2>1, <2>4, <2>5, <2>6, <2>7, OneStream DEF Listening
<1>6. QED
  BY <1>4, <1>5

-----------------------------------------------------------------------------
\* The page before it is mounted.
LEMMA HookInit0 == HookInit => HookInv
<1> SUFFICES ASSUME HookInit PROVE HookInv
  OBVIOUS
<1>1. Closed \in Streams /\ Nothing \in Sums
  <2>1. <<>> \in Seq(Frames)
    OBVIOUS
  <2>2. QED
    BY <2>1, HookAssumption DEF Closed, Streams, Nothing, Sums
<1>2. /\ Closed.at = "closed" /\ Closed.frames = <<>> /\ Len(Closed.frames) = 0 /\ 0 <= FrameCap + 2
      /\ 0 \in 0..MaxVersion
  BY HookAssumption DEF Closed
<1>3. /\ stream \in [Sources -> Streams] /\ sent \in [Sources -> Sums]
      /\ \A s \in Sources : stream[s] = Closed
  BY <1>1 DEF HookInit
<1>4. HookTypeOK
  BY <1>2, <1>3 DEF HookInit, HookTypeOK, Streams, Sums, Frames
<1>5. QED
  BY <1>2, <1>3, <1>4 DEF HookInit, HookInv, NothingUnmounted, NoStreamLeftBehind, FramesFollow, Listening

\* The inductive invariant of the page: its one stream is its own, and what is
\* shown and what is under way make up what was published.
THEOREM HookInvariant == HookSpec => []HookInv
<1>1. HookInit => HookInv
  BY HookInit0
<1>2. HookInv /\ [HookNext]_hookVars => HookInv'
  <2> SUFFICES ASSUME HookInv, [HookNext]_hookVars PROVE HookInv'
    OBVIOUS
  <2>1. CASE HookNext
    BY <2>1, HubSteps, PageSteps, CallSteps, StreamSteps, HearStep DEF HookNext
  <2>2. CASE UNCHANGED hookVars
    <3>1. UNCHANGED <<hidden, mounted, es, stream, call, base, degraded, conn, from, sent>>
      BY <2>2 DEF hookVars
    <3>2. FramesFollow'
      BY <3>1, SameFrames
    <3>3. QED
      BY <3>1, <3>2 DEF HookInv, HookTypeOK, NothingUnmounted, NoStreamLeftBehind, Closed
  <2>3. QED
    BY <2>1, <2>2
<1>3. QED
  BY <1>1, <1>2, PTL DEF HookSpec

\* The page's variables keep their types, and no stream holds more frames than
\* the hub buffers, the first and the end.
THEOREM HookTypeCorrect == HookSpec => []HookTypeOK
<1>1. HookInv => HookTypeOK
  BY DEF HookInv
<1>2. QED
  BY <1>1, HookInvariant, PTL

\* Whatever the order of mounts, tabs, answers and breaks, no stream is left
\* that the hook would not close.
THEOREM NoneLeftBehind == HookSpec => []NoStreamLeftBehind
<1>1. HookInv => NoStreamLeftBehind
  BY DEF HookInv
<1>2. QED
  BY <1>1, HookInvariant, PTL

\* A page that has heard all of its stream, and nothing from a request later,
\* shows what was published last since the stream subscribed, whatever its first
\* frame was and whatever the hub stored without publishing it.
THEOREM PageShowsPublished == HookSpec => []HeardIsShown
<1>1. HookInv => HeardIsShown
  <2>1. SUFFICES ASSUME HookInv, NEW s \in Sources, stream[s] = OpenWith(<<>>), from = "frame"
                 PROVE  /\ conn = "live"
                        /\ sent[s].v # 0 => base = sent[s].v
                        /\ sent[s] # Nothing => degraded = sent[s].degraded
    BY DEF HeardIsShown
  <2>2. stream[s].at = "open" /\ stream[s].frames = <<>>
    BY <2>1 DEF OpenWith
  <2>3. InStep("open", <<>>, sent[s])
    BY <2>1, <2>2 DEF HookInv, FramesFollow, Listening
  <2>4. Follows(<<>>, sent[s])
    BY <2>3 DEF InStep, CutOff
  <2>5. QED
    BY <2>1, <2>4 DEF Follows
<1>2. QED
  BY <1>1, HookInvariant, PTL

-----------------------------------------------------------------------------
(***************************************************************************)
(* Reading a history page by page shows every play once, for any spine,    *)
(* any size of a page and whatever the watch job adds in between.          *)
(***************************************************************************)

Row == [key : PlayKeys, library : Libraries]

\* The rows keep their keys, and the cursor points to the last row shown.
HistoryInv ==
    /\ rows \in Seq(Row)
    /\ earlier \subseteq DOMAIN rows /\ page \subseteq DOMAIN rows /\ steady \subseteq DOMAIN rows
    /\ cursor.more =>
           /\ cursor = [at |-> At(cursor.row), row |-> cursor.row, more |-> TRUE]
           /\ cursor.row \in DOMAIN rows
           /\ \A i \in earlier \union page : i = cursor.row \/ Newer(i, cursor.row)
    /\ \A i \in steady : Matches(rows[i], asked)
    /\ PagesFollow
    /\ NothingPassedOver

-----------------------------------------------------------------------------
\* Rows have times and rowids.
LEMMA Ats == ASSUME rows \in Seq(Row), NEW i \in DOMAIN rows
             PROVE  At(i) \in Nat /\ i \in Nat \ {0} /\ rows[i] \in Row
<1>1. rows[i] \in Row /\ i \in Nat \ {0}
  OBVIOUS
<1>2. rows[i].key \in PlayKeys
  BY <1>1 DEF Row
<1>3. QED
  BY <1>1, <1>2, HistoryAssumption DEF At

\* The order of the pages is a strict total order.
LEMMA NewerOrders ==
    ASSUME rows \in Seq(Row), NEW i \in DOMAIN rows, NEW j \in DOMAIN rows, NEW k \in DOMAIN rows
    PROVE  /\ ~Newer(i, i)
           /\ Newer(i, j) \/ Newer(j, i) \/ i = j
           /\ Newer(i, j) /\ Newer(j, k) => Newer(i, k)
<1>1. At(i) \in Nat /\ At(j) \in Nat /\ At(k) \in Nat /\ i \in Nat /\ j \in Nat /\ k \in Nat
  BY Ats
<1>2. QED
  BY <1>1 DEF Newer

\* What comes after the cursor is older than the row it points to.
LEMMA CursorCuts ==
    ASSUME rows \in Seq(Row), NEW i \in DOMAIN rows, NEW k \in DOMAIN rows
    PROVE  /\ BeforeCursor(i, [at |-> At(k), row |-> k, more |-> TRUE]) <=> Newer(k, i)
           /\ BeforeCursor(i, Start)
<1>1. At(i) \in Nat /\ At(k) \in Nat /\ i \in Nat /\ k \in Nat \ {0}
  BY Ats
<1>2. [at |-> At(k), row |-> k, more |-> TRUE] # Start
  BY <1>1 DEF Start
<1>3. QED
  BY <1>1, <1>2 DEF BeforeCursor, Newer

\* A query finds finitely many rows.
LEMMA FoundIsFinite ==
    ASSUME rows \in Seq(Row), NEW found \in SUBSET DOMAIN rows
    PROVE  IsFiniteSet(found)
<1>1. DOMAIN rows = 1..Len(rows) /\ Len(rows) \in Int /\ 1 \in Int
  OBVIOUS
<1>2. IsFiniteSet(DOMAIN rows)
  BY <1>1, FS_Interval
<1>3. QED
  BY <1>2, FS_Subset

\* A page that does not hold all holds the newest: what is newer than a row of
\* the page is on it too.
LEMMA NewestIsUpper ==
    ASSUME rows \in Seq(Row), NEW found \in SUBSET DOMAIN rows,
           NEW i \in found, NEW k \in Newest(found), Newer(i, k)
    PROVE  i \in Newest(found)
<1> DEFINE Ahead(x) == {j \in found : Newer(j, x)}
<1>1. Ahead(i) \subseteq Ahead(k)
  BY NewerOrders DEF Newest
<1>2. IsFiniteSet(Ahead(i)) /\ IsFiniteSet(Ahead(k))
  BY FoundIsFinite
<1>3. Cardinality(Ahead(i)) <= Cardinality(Ahead(k))
  BY <1>1, <1>2, FS_Subset
<1>4. Cardinality(Ahead(k)) < PageLimit
  BY DEF Newest
<1>5. Cardinality(Ahead(i)) \in Nat /\ Cardinality(Ahead(k)) \in Nat /\ PageLimit \in Nat
  BY <1>2, FS_CardinalityType, HistoryAssumption
<1>6. Cardinality(Ahead(i)) < PageLimit
  BY <1>3, <1>4, <1>5
<1>7. QED
  BY <1>6 DEF Newest

\* A page that is not cut holds all that was found.
LEMMA NewestHoldsAll ==
    ASSUME rows \in Seq(Row), NEW found \in SUBSET DOMAIN rows, Cardinality(found) <= PageLimit
    PROVE  Newest(found) = found
<1> SUFFICES ASSUME NEW i \in found PROVE i \in Newest(found)
  BY DEF Newest
<1> DEFINE ahead == {j \in found : Newer(j, i)}
<1>1. ahead \subseteq found /\ i \notin ahead
  BY NewerOrders
<1>2. IsFiniteSet(found) /\ IsFiniteSet(ahead)
  BY FoundIsFinite
<1>3. Cardinality(ahead) <= Cardinality(found) /\ Cardinality(ahead) # Cardinality(found)
  BY <1>1, <1>2, FS_Subset
<1>4. Cardinality(ahead) \in Nat /\ Cardinality(found) \in Nat /\ PageLimit \in Nat
  BY <1>2, FS_CardinalityType, HistoryAssumption
<1>5. Cardinality(ahead) < PageLimit
  BY <1>3, <1>4
<1>6. QED
  BY <1>5 DEF Newest

\* One page: it is what was found, or its last row is where the next begins.
LEMMA OnePage ==
    ASSUME rows \in Seq(Row), NEW a, NEW c, ReadPlays(a, c), UNCHANGED rows
    PROVE  LET found == {i \in DOMAIN rows : Matches(rows[i], a) /\ BeforeCursor(i, c)}
           IN  /\ page' \subseteq found
               /\ \/ cursor' = End /\ page' = found
                  \/ \E k \in page' : /\ cursor' = [at |-> At(k), row |-> k, more |-> TRUE]
                                      /\ \A j \in page' : j = k \/ Newer(j, k)
                                      /\ \A i \in found \ page' : Newer(k, i)
<1> DEFINE found == {i \in DOMAIN rows : Matches(rows[i], a) /\ BeforeCursor(i, c)}
<1>1. page' = Newest(found) /\ page' \subseteq found
  BY DEF ReadPlays, Newest
<1>2. CASE Cardinality(found) <= PageLimit
  BY <1>1, <1>2, NewestHoldsAll DEF ReadPlays
<1>3. CASE ~(Cardinality(found) <= PageLimit)
  <2>1. PICK k \in LastOf(page', found) : cursor' = [at |-> At(k), row |-> k, more |-> TRUE]
    BY <1>3 DEF ReadPlays
  <2>2. k \in page' /\ \A j \in page' : j = k \/ Newer(j, k)
    BY <2>1 DEF LastOf
  <2>3. ASSUME NEW i \in found \ page' PROVE Newer(k, i)
    BY <1>1, <2>2, <2>3, NewestIsUpper, NewerOrders
  <2>4. QED
    BY <1>1, <2>1, <2>2, <2>3
<1>4. QED
  BY <1>2, <1>3

-----------------------------------------------------------------------------
\* The watch job's writes keep every rowid and its key, so the pages shown and
\* the cursor keep their meaning.
LEMMA WritesKeepOrder ==
    ASSUME HistoryInv, rows' \in Seq(Row), StillSteady, UNCHANGED Reading,
           DOMAIN rows \subseteq DOMAIN rows', \A i \in DOMAIN rows : rows'[i].key = rows[i].key
    PROVE  HistoryInv'
<1>1. \A i \in DOMAIN rows : At(i)' = At(i)
  BY DEF At
<1>2. \A i, j \in DOMAIN rows : Newer(i, j)' <=> Newer(i, j)
  BY <1>1 DEF Newer
<1>3. \A i \in DOMAIN rows : BeforeCursor(i, cursor)' <=> BeforeCursor(i, cursor)
  BY <1>1 DEF BeforeCursor, Reading
<1>4. steady' \subseteq steady /\ \A i \in steady' : Matches(rows'[i], asked')
  BY DEF StillSteady, Reading
<1>5. NothingPassedOver'
  BY <1>3, <1>4 DEF NothingPassedOver, HistoryInv, Reading
<1>6. PagesFollow'
  BY <1>2 DEF PagesFollow, HistoryInv, Reading
<1>7. QED
  BY <1>1, <1>2, <1>4, <1>5, <1>6 DEF HistoryInv, Reading

\* An upsert keeps rowids and times, so what is above the cursor stays above it.
LEMMA AppendStep ==
    ASSUME HistoryInv, NEW k \in PlayKeys, NEW lib \in Libraries, AppendPlaybackEvent(k, lib)
    PROVE  HistoryInv'
<1> DEFINE row == [key |-> k, library |-> lib]
<1>1. row \in Row /\ rows \in Seq(Row)
  BY DEF Row, HistoryInv
<1>2. rows' = Upserted(k, row)
  BY DEF AppendPlaybackEvent
<1>3. CASE \E i \in DOMAIN rows : rows[i].key = k
  <2>1. rows' = [i \in DOMAIN rows |-> IF rows[i].key = k THEN row ELSE rows[i]]
    BY <1>2, <1>3 DEF Upserted
  <2>2. rows' \in Seq(Row) /\ DOMAIN rows' = DOMAIN rows
    BY <1>1, <2>1
  <2>3. \A i \in DOMAIN rows : rows'[i].key = rows[i].key
    BY <2>1
  <2>4. QED
    BY <2>2, <2>3, WritesKeepOrder DEF AppendPlaybackEvent
<1>4. CASE ~\E i \in DOMAIN rows : rows[i].key = k
  <2>1. rows' = Append(rows, row)
    BY <1>2, <1>4 DEF Upserted
  <2>2. /\ rows' \in Seq(Row) /\ DOMAIN rows \subseteq DOMAIN rows'
        /\ \A i \in DOMAIN rows : rows'[i] = rows[i]
    BY <1>1, <2>1
  <2>3. QED
    BY <2>2, WritesKeepOrder DEF AppendPlaybackEvent
<1>5. QED
  BY <1>3, <1>4

\* A new library for an item moves no row.
LEMMA LibrariesStep ==
    ASSUME HistoryInv, NEW item, NEW lib \in Libraries, UpdatePlaybackLibraries(item, lib)
    PROVE  HistoryInv'
<1>1. rows \in Seq(Row)
  BY DEF HistoryInv
<1>2. \A i \in DOMAIN rows : /\ [rows[i] EXCEPT !.library = lib] \in Row
                             /\ [rows[i] EXCEPT !.library = lib].key = rows[i].key
  <2>1. \A x \in Row : /\ [x EXCEPT !.library = lib] \in Row
                      /\ [x EXCEPT !.library = lib].key = x.key
    BY DEF Row
  <2>2. \A i \in DOMAIN rows : rows[i] \in Row
    BY <1>1
  <2>3. QED
    BY <2>1, <2>2
<1>3. rows' \in Seq(Row) /\ DOMAIN rows' = DOMAIN rows
  BY <1>1, <1>2, SMTT(30) DEF UpdatePlaybackLibraries
<1>4. \A i \in DOMAIN rows : rows'[i].key = rows[i].key
  BY <1>2 DEF UpdatePlaybackLibraries
<1>5. QED
  BY <1>3, <1>4, WritesKeepOrder DEF UpdatePlaybackLibraries

\* The first page ends with its oldest row.
LEMMA FirstPageStep == ASSUME HistoryInv, NEW a, FirstPage(a) PROVE HistoryInv'
<1> DEFINE found == {i \in DOMAIN rows : Matches(rows[i], a) /\ BeforeCursor(i, Start)}
<1>1. rows \in Seq(Row) /\ rows' = rows /\ earlier' = {} /\ asked' = a /\ steady' = found
  <2>1. \A i \in DOMAIN rows : BeforeCursor(i, Start)
    BY DEF BeforeCursor
  <2>2. QED
    BY <2>1 DEF FirstPage, HistoryInv
<1>2. /\ page' \subseteq found
      /\ \/ cursor' = End /\ page' = found
         \/ \E k \in page' : /\ cursor' = [at |-> At(k), row |-> k, more |-> TRUE]
                             /\ \A j \in page' : j = k \/ Newer(j, k)
                             /\ \A i \in found \ page' : Newer(k, i)
  BY <1>1, OnePage DEF FirstPage
<1>3. CASE cursor' = End /\ page' = found
  BY <1>1, <1>2, <1>3 DEF HistoryInv, PagesFollow, NothingPassedOver, End
<1>4. ASSUME NEW k \in page', cursor' = [at |-> At(k), row |-> k, more |-> TRUE],
             \A j \in page' : j = k \/ Newer(j, k), \A i \in found \ page' : Newer(k, i)
      PROVE  HistoryInv'
  <2>1. \A i \in found \ page' : BeforeCursor(i, cursor')
    BY <1>1, <1>2, <1>4, CursorCuts
  <2>2. NothingPassedOver'
    BY <1>1, <1>4, <2>1 DEF NothingPassedOver, BeforeCursor, At
  <2>3. QED
    BY <1>1, <1>2, <1>4, <2>2 DEF HistoryInv, PagesFollow, At, Newer
<1>5. QED
  BY <1>2, <1>3, <1>4

\* The next page takes up below the cursor.
LEMMA NextPageStep == ASSUME HistoryInv, NextPage PROVE HistoryInv'
<1> DEFINE found == {i \in DOMAIN rows : Matches(rows[i], asked) /\ BeforeCursor(i, cursor)}
           shown == earlier \union page
           r == cursor.row
<1>1. /\ rows \in Seq(Row) /\ rows' = rows /\ earlier' = shown
      /\ UNCHANGED <<asked, steady>> /\ cursor.more
  BY DEF NextPage, HistoryInv
<1>2. r \in DOMAIN rows /\ \A i \in shown : i \in DOMAIN rows /\ (i = r \/ Newer(i, r))
  BY <1>1 DEF HistoryInv
<1>3. \A i \in found : Newer(r, i)
  BY <1>1, <1>2, CursorCuts DEF HistoryInv
<1>4. \A i \in shown, j \in found : Newer(i, j)
  BY <1>1, <1>2, <1>3, NewerOrders
<1>5. /\ page' \subseteq found
      /\ \/ cursor' = End /\ page' = found
         \/ \E k \in page' : /\ cursor' = [at |-> At(k), row |-> k, more |-> TRUE]
                             /\ \A j \in page' : j = k \/ Newer(j, k)
                             /\ \A i \in found \ page' : Newer(k, i)
  BY <1>1, OnePage DEF NextPage
<1>6. PagesFollow'
  BY <1>1, <1>4, <1>5 DEF PagesFollow, Newer, At
<1>7. \A i \in steady : i \in shown \union found
  BY <1>1 DEF HistoryInv, NothingPassedOver
<1>8. CASE cursor' = End /\ page' = found
  <2>1. NothingPassedOver'
    BY <1>1, <1>7, <1>8 DEF NothingPassedOver
  <2>2. QED
    BY <1>1, <1>2, <1>6, <1>8, <2>1 DEF HistoryInv, End
<1>9. ASSUME NEW k \in page', cursor' = [at |-> At(k), row |-> k, more |-> TRUE],
             \A j \in page' : j = k \/ Newer(j, k), \A i \in found \ page' : Newer(k, i)
      PROVE  HistoryInv'
  <2>1. \A i \in found \ page' : BeforeCursor(i, cursor')
    BY <1>1, <1>5, <1>9, CursorCuts
  <2>2. NothingPassedOver'
    BY <1>1, <1>7, <1>9, <2>1 DEF NothingPassedOver, BeforeCursor, At
  <2>3. \A i \in shown \union page' : i = k \/ Newer(i, k)
    BY <1>4, <1>5, <1>9
  <2>4. QED
    BY <1>1, <1>2, <1>5, <1>6, <1>9, <2>2, <2>3 DEF HistoryInv, At, Newer
<1>10. QED
  BY <1>5, <1>8, <1>9

\* Each step keeps the invariant of the list.
LEMMA HistoryStep == HistoryInv /\ [HistoryNext]_historyVars => HistoryInv'
<1> SUFFICES ASSUME HistoryInv, [HistoryNext]_historyVars PROVE HistoryInv'
  OBVIOUS
<1>1. CASE Leave
  BY <1>1 DEF Leave, HistoryInv, End, PagesFollow, NothingPassedOver
<1>2. CASE UNCHANGED historyVars
  BY <1>2 DEF historyVars, HistoryInv, At, Newer, PagesFollow, NothingPassedOver, BeforeCursor
<1>3. QED
  BY <1>1, <1>2, AppendStep, LibrariesStep, FirstPageStep, NextPageStep DEF HistoryNext

\* The inductive invariant of the list.
LEMMA HistoryInvariant == HistorySpec => []HistoryInv
<1>1. HistoryInit => HistoryInv
  BY DEF HistoryInit, HistoryInv, End, PagesFollow, NothingPassedOver
<1>2. QED
  BY <1>1, HistoryStep, PTL DEF HistorySpec

\* No play has two rows, and what is read is a reader's.
RowsAreKnown ==
    /\ \A i, j \in DOMAIN rows : rows[i].key = rows[j].key => i = j
    /\ asked \in [user : Readers, library : Libraries \union {AllLibraries}] \union {NotAsked}
    /\ cursor.more \in BOOLEAN
    /\ ~cursor.more => cursor = End

\* A page leaves a cursor that is at its end, or goes on.
LEMMA CursorIs ==
    ASSUME NEW a, NEW c, ReadPlays(a, c)
    PROVE  cursor'.more \in BOOLEAN /\ (~cursor'.more => cursor' = End)
<1>1. cursor' = End \/ \E i : cursor' = [at |-> At(i), row |-> i, more |-> TRUE]
  BY DEF ReadPlays
<1>2. CASE cursor' = End
  BY <1>2 DEF End
<1>3. ASSUME NEW i, cursor' = [at |-> At(i), row |-> i, more |-> TRUE]
      PROVE  cursor'.more = TRUE
  BY <1>3
<1>4. QED
  BY <1>1, <1>2, <1>3

\* A play that is known keeps its row, so a row that is added has a new key.
LEMMA KnownStep ==
    ASSUME HistoryInv, RowsAreKnown, [HistoryNext]_historyVars
    PROVE  RowsAreKnown'
<1>1. ASSUME NEW k \in PlayKeys, NEW lib \in Libraries, AppendPlaybackEvent(k, lib)
      PROVE  RowsAreKnown'
  <2> DEFINE row == [key |-> k, library |-> lib]
  <2>1. rows' = Upserted(k, row) /\ rows \in Seq(Row) /\ UNCHANGED <<asked, cursor>>
    BY <1>1 DEF AppendPlaybackEvent, HistoryInv, Reading
  <2>2. CASE \E i \in DOMAIN rows : rows[i].key = k
    <3>1. rows' = [i \in DOMAIN rows |-> IF rows[i].key = k THEN row ELSE rows[i]]
      BY <2>1, <2>2 DEF Upserted
    <3>2. DOMAIN rows' = DOMAIN rows /\ \A i \in DOMAIN rows : rows'[i].key = rows[i].key
      BY <3>1
    <3>3. QED
      BY <2>1, <3>2 DEF RowsAreKnown
  <2>3. CASE ~\E i \in DOMAIN rows : rows[i].key = k
    <3>1. rows' = Append(rows, row)
      BY <2>1, <2>3 DEF Upserted
    <3>2. /\ Len(rows) \in Nat /\ DOMAIN rows = 1..Len(rows) /\ DOMAIN rows' = 1..(Len(rows) + 1)
          /\ \A i \in DOMAIN rows : rows'[i] = rows[i]
          /\ rows'[Len(rows) + 1] = row
      BY <2>1, <3>1
    <3>3. \A i \in DOMAIN rows' : i \in DOMAIN rows \/ i = Len(rows) + 1
      BY <3>2
    <3>4. row.key = k
      OBVIOUS
    <3>5. \A i, j \in DOMAIN rows' : rows'[i].key = rows'[j].key => i = j
      BY <2>3, <3>2, <3>3, <3>4 DEF RowsAreKnown
    <3>6. QED
      BY <2>1, <3>5 DEF RowsAreKnown
  <2>4. QED
    BY <2>2, <2>3
<1>2. ASSUME NEW item, NEW lib \in Libraries, UpdatePlaybackLibraries(item, lib)
      PROVE  RowsAreKnown'
  <2>1. \A i \in DOMAIN rows : [rows[i] EXCEPT !.library = lib].key = rows[i].key
    <3>1. \A x \in Row : [x EXCEPT !.library = lib].key = x.key
      BY DEF Row
    <3>2. \A i \in DOMAIN rows : rows[i] \in Row
      BY DEF HistoryInv
    <3>3. QED
      BY <3>1, <3>2
  <2>2. DOMAIN rows' = DOMAIN rows /\ \A i \in DOMAIN rows : rows'[i].key = rows[i].key
    BY <1>2, <2>1 DEF UpdatePlaybackLibraries
  <2>3. QED
    BY <1>2, <2>2 DEF UpdatePlaybackLibraries, Reading, RowsAreKnown
<1>3. ASSUME NEW a \in [user : Readers, library : Libraries \union {AllLibraries}], FirstPage(a)
      PROVE  RowsAreKnown'
  BY <1>3, CursorIs DEF FirstPage, RowsAreKnown
<1>4. CASE NextPage
  BY <1>4, CursorIs DEF NextPage, RowsAreKnown
<1>5. CASE Leave
  BY <1>5 DEF Leave, RowsAreKnown, End
<1>6. CASE UNCHANGED historyVars
  BY <1>6 DEF historyVars, RowsAreKnown
<1>7. QED
  BY <1>1, <1>2, <1>3, <1>4, <1>5, <1>6 DEF HistoryNext

\* The list's types, and that an upsert leaves one row for a play.
THEOREM HistoryTypeCorrect == HistorySpec => []HistoryTypeOK
<1>1. HistoryInit => RowsAreKnown
  BY DEF HistoryInit, RowsAreKnown, End
<1>2. HistoryInv /\ RowsAreKnown /\ [HistoryNext]_historyVars => RowsAreKnown'
  BY KnownStep
<1>3. HistoryInv /\ RowsAreKnown => HistoryTypeOK
  <2> SUFFICES ASSUME HistoryInv, RowsAreKnown PROVE HistoryTypeOK
    OBVIOUS
  <2>1. cursor \in [at : Nat, row : Nat, more : BOOLEAN]
    <3>1. CASE cursor.more
      <4>1. cursor.row \in DOMAIN rows /\ rows \in Seq(Row)
            /\ cursor = [at |-> At(cursor.row), row |-> cursor.row, more |-> TRUE]
        BY <3>1 DEF HistoryInv
      <4>2. At(cursor.row) \in Nat /\ cursor.row \in Nat
        BY <4>1, Ats
      <4>3. PICK k, t : k = cursor.row /\ t = At(cursor.row)
        OBVIOUS
      <4>4. k \in Nat /\ t \in Nat /\ cursor = [at |-> t, row |-> k, more |-> TRUE]
        BY <4>1, <4>2, <4>3
      <4>5. QED
        BY <4>4
    <3>2. CASE ~cursor.more
      BY <3>2 DEF RowsAreKnown, End
    <3>3. QED
      BY <3>1, <3>2
  <2>2. QED
    BY <2>1 DEF HistoryInv, RowsAreKnown, HistoryTypeOK, Row
<1>4. QED
  BY <1>1, <1>2, <1>3, HistoryInvariant, PTL DEF HistorySpec

\* No play is shown twice, and none above one that is newer.
THEOREM PagesDoFollow == HistorySpec => []PagesFollow
<1>1. HistoryInv => PagesFollow
  BY DEF HistoryInv
<1>2. QED
  BY <1>1, HistoryInvariant, PTL

\* No play that was there at the start is passed over.
THEOREM AllIsShown == HistorySpec => []NothingPassedOver
<1>1. HistoryInv => NothingPassedOver
  BY DEF HistoryInv
<1>2. QED
  BY <1>1, HistoryInvariant, PTL

-----------------------------------------------------------------------------
(***************************************************************************)
(* The cache counts the bytes of what it holds, drops what was used        *)
(* longest ago, and never answers with anything but what Jellyfin said,    *)
(* up to the limit of a read.                                              *)
(***************************************************************************)

ArtEntry == [key : Keys, body : Kept]

-----------------------------------------------------------------------------
(***************************************************************************)
(* Lists that lose an element, or a tail.                                  *)
(***************************************************************************)
LEMMA RemovedAt ==
    ASSUME NEW T, NEW s \in Seq(T), NEW p \in DOMAIN s
    PROVE  /\ RemoveAt(s, p) \in Seq(T)
           /\ Len(RemoveAt(s, p)) = Len(s) - 1
           /\ \A i \in 1..Len(s) - 1 : RemoveAt(s, p)[i] = IF i < p THEN s[i] ELSE s[i + 1]
<1>1. p \in 1..Len(s) /\ Len(s) \in Nat
  OBVIOUS
<1> DEFINE a == SubSeq(s, 1, p - 1)
           b == SubSeq(s, p + 1, Len(s))
<1>2. a \in Seq(T) /\ Len(a) = p - 1 /\ \A i \in 1..p - 1 : a[i] = s[i]
  <2>1. \A i \in 1..p - 1 : s[i] \in T
    BY <1>1
  <2>2. 1 \in Int /\ p - 1 \in Int
    BY <1>1
  <2>3. QED
    BY <1>1, <2>1, <2>2, SubSeqProperties
<1>3. b \in Seq(T) /\ Len(b) = Len(s) - p /\ \A i \in 1..Len(s) - p : b[i] = s[p + i]
  <2>1. \A i \in p + 1..Len(s) : s[i] \in T
    BY <1>1
  <2>2. p + 1 \in Int /\ Len(s) \in Int
    BY <1>1
  <2>3. QED
    BY <1>1, <2>1, <2>2, SubSeqProperties
<1>4. RemoveAt(s, p) = a \o b
  BY DEF RemoveAt
<1> HIDE DEF a, b
<1>5. /\ a \o b \in Seq(T) /\ Len(a \o b) = Len(a) + Len(b)
      /\ \A i \in 1..Len(a) + Len(b) : (a \o b)[i] = IF i <= Len(a) THEN a[i] ELSE b[i - Len(a)]
  BY <1>2, <1>3, ConcatProperties
<1>6. Len(a \o b) = Len(s) - 1
  BY <1>1, <1>2, <1>3, <1>5
<1>7. ASSUME NEW i \in 1..Len(s) - 1
      PROVE  (a \o b)[i] = IF i < p THEN s[i] ELSE s[i + 1]
  <2>1. i \in 1..Len(a) + Len(b)
    BY <1>1, <1>2, <1>3
  <2>2. CASE i < p
    BY <1>1, <1>2, <1>5, <2>1, <2>2
  <2>3. CASE ~(i < p)
    <3>1. i - Len(a) \in 1..Len(s) - p /\ p + (i - Len(a)) = i + 1
      BY <1>1, <1>2, <2>3
    <3>2. (a \o b)[i] = b[i - Len(a)]
      BY <1>1, <1>2, <1>5, <2>1, <2>3
    <3>3. QED
      BY <1>3, <2>3, <3>1, <3>2
  <2>4. QED
    BY <2>2, <2>3
<1>8. QED
  BY <1>4, <1>5, <1>6, <1>7

\* What stands where, with the element out.
IsWithout(t, s, p) ==
    /\ Len(t) \in Nat /\ DOMAIN t = 1..Len(t) /\ Len(s) = Len(t) + 1
    /\ \A i \in 1..Len(t) : t[i] = IF i < p THEN s[i] ELSE s[i + 1]
    /\ \A i \in 1..Len(t) : \E j \in 1..Len(s) :
           j # p /\ t[i] = s[j] /\ j = IF i < p THEN i ELSE i + 1
    /\ \A j \in 1..Len(s) : j # p => \E i \in 1..Len(t) : t[i] = s[j]

\* A list without its p-th element.
LEMMA RemovedIs ==
    ASSUME NEW T, NEW s \in Seq(T), NEW p \in DOMAIN s
    PROVE  RemoveAt(s, p) \in Seq(T) /\ IsWithout(RemoveAt(s, p), s, p)
<1> SUFFICES ASSUME NEW t, t = RemoveAt(s, p) PROVE t \in Seq(T) /\ IsWithout(t, s, p)
  OBVIOUS
<1>1. p \in 1..Len(s) /\ Len(s) \in Nat
  OBVIOUS
<1>2. /\ t \in Seq(T) /\ Len(t) = Len(s) - 1
      /\ \A i \in 1..Len(s) - 1 : t[i] = IF i < p THEN s[i] ELSE s[i + 1]
  BY <1>1, RemovedAt
<1>3. Len(t) \in Nat /\ DOMAIN t = 1..Len(t) /\ Len(s) = Len(t) + 1
  BY <1>1, <1>2
<1>4. \A i \in 1..Len(t) : t[i] = IF i < p THEN s[i] ELSE s[i + 1]
  BY <1>2
<1>5. ASSUME NEW i \in 1..Len(t)
      PROVE  \E j \in 1..Len(s) : j # p /\ t[i] = s[j] /\ j = IF i < p THEN i ELSE i + 1
  <2>1. CASE i < p
    <3>1. i \in 1..Len(s) /\ i # p /\ t[i] = s[i]
      BY <1>3, <1>4, <2>1
    <3>2. QED
      BY <2>1, <3>1
  <2>2. CASE ~(i < p)
    <3>1. i + 1 \in 1..Len(s) /\ i + 1 # p /\ t[i] = s[i + 1]
      BY <1>3, <1>4, <2>2
    <3>2. QED
      BY <2>2, <3>1
  <2>3. QED
    BY <2>1, <2>2
<1>6. ASSUME NEW j \in 1..Len(s), j # p PROVE \E i \in 1..Len(t) : t[i] = s[j]
  <2>1. CASE j < p
    <3>1. j \in 1..Len(t) /\ t[j] = s[j]
      BY <1>3, <1>4, <2>1
    <3>2. QED
      BY <3>1
  <2>2. CASE ~(j < p)
    <3>1. j - 1 \in 1..Len(t) /\ t[j - 1] = s[j]
      BY <1>3, <1>4, <1>6, <2>2
    <3>2. QED
      BY <3>1
  <2>3. QED
    BY <2>1, <2>2
<1>7. QED
  BY <1>2, <1>3, <1>4, <1>5, <1>6 DEF IsWithout

\* A list cut in two.
LEMMA CutIn2 ==
    ASSUME NEW T, NEW s \in Seq(T), NEW n \in 0..Len(s)
    PROVE  /\ SubSeq(s, 1, n) \in Seq(T) /\ Len(SubSeq(s, 1, n)) = n
           /\ \A i \in 1..n : SubSeq(s, 1, n)[i] = s[i]
           /\ SubSeq(s, n + 1, Len(s)) \in Seq(T)
           /\ Len(SubSeq(s, n + 1, Len(s))) = Len(s) - n
           /\ \A i \in 1..Len(s) - n : SubSeq(s, n + 1, Len(s))[i] = s[n + i]
<1>1. Len(s) \in Nat /\ n \in Nat /\ n <= Len(s) /\ \A i \in 1..Len(s) : s[i] \in T
  OBVIOUS
<1>2. /\ SubSeq(s, 1, n) \in Seq(T) /\ Len(SubSeq(s, 1, n)) = n
      /\ \A i \in 1..n : SubSeq(s, 1, n)[i] = s[i]
  <2>1. \A i \in 1..n : s[i] \in T
    BY <1>1
  <2>2. 1 \in Int /\ n \in Int
    BY <1>1
  <2>3. QED
    BY <1>1, <2>1, <2>2, SubSeqProperties
<1>3. /\ SubSeq(s, n + 1, Len(s)) \in Seq(T)
      /\ Len(SubSeq(s, n + 1, Len(s))) = Len(s) - n
      /\ \A i \in 1..Len(s) - n : SubSeq(s, n + 1, Len(s))[i] = s[n + i]
  <2>1. \A i \in n + 1..Len(s) : s[i] \in T
    BY <1>1
  <2>2. n + 1 \in Int /\ Len(s) \in Int
    BY <1>1
  <2>3. QED
    BY <1>1, <2>1, <2>2, SubSeqProperties
<1>4. QED
  BY <1>2, <1>3

\* An element put before a list.
IsFronted(t, x, s) ==
    /\ Len(s) \in Nat /\ DOMAIN s = 1..Len(s)
    /\ Len(t) = Len(s) + 1 /\ DOMAIN t = 1..Len(s) + 1
    /\ t[1] = x
    /\ \A i \in 1..Len(s) : i + 1 \in 1..Len(s) + 1 /\ t[i + 1] = s[i]
    /\ \A i \in 1..Len(s) + 1 : i = 1 \/ (i - 1 \in 1..Len(s) /\ t[i] = s[i - 1])

\* A list with an element put in front.
LEMMA Fronted ==
    ASSUME NEW T, NEW s \in Seq(T), NEW x \in T
    PROVE  <<x>> \o s \in Seq(T) /\ IsFronted(<<x>> \o s, x, s)
<1>1. <<x>> \in Seq(T) /\ Len(<<x>>) = 1 /\ <<x>>[1] = x /\ Len(s) \in Nat /\ DOMAIN s = 1..Len(s)
  OBVIOUS
<1> SUFFICES ASSUME NEW t, t = <<x>> \o s PROVE t \in Seq(T) /\ IsFronted(t, x, s)
  OBVIOUS
<1>2. /\ t \in Seq(T)
      /\ Len(t) = Len(<<x>>) + Len(s)
      /\ \A i \in 1..Len(<<x>>) + Len(s) : t[i] = IF i <= Len(<<x>>) THEN <<x>>[i] ELSE s[i - Len(<<x>>)]
  BY <1>1, ConcatProperties
<1>3. Len(t) = Len(s) + 1 /\ t[1] = x /\ \A i \in 1..Len(s) + 1 : i # 1 => t[i] = s[i - 1]
  BY <1>1, <1>2
<1>4. DOMAIN t = 1..Len(s) + 1
  BY <1>2, <1>3
<1>5. ASSUME NEW i \in 1..Len(s) PROVE i + 1 \in 1..Len(s) + 1 /\ t[i + 1] = s[i]
  <2>1. i + 1 \in 1..Len(s) + 1 /\ i + 1 # 1 /\ (i + 1) - 1 = i
    BY <1>1
  <2>2. QED
    BY <1>3, <2>1
<1>6. ASSUME NEW i \in 1..Len(s) + 1
      PROVE  i = 1 \/ (i - 1 \in 1..Len(s) /\ t[i] = s[i - 1])
  <2>1. CASE i # 1
    BY <1>1, <1>3, <2>1
  <2>2. QED
    BY <2>1
<1>7. t[1] = x /\ Len(t) = Len(s) + 1
  BY <1>3
<1>8. \A i \in 1..Len(s) + 1 : i = 1 \/ (i - 1 \in 1..Len(s) /\ t[i] = s[i - 1])
  BY <1>6
<1>9. \A i \in 1..Len(s) : i + 1 \in 1..Len(s) + 1 /\ t[i + 1] = s[i]
  BY <1>5
<1>10. IsFronted(t, x, s)
  BY <1>1, <1>4, <1>7, <1>8, <1>9 DEF IsFronted
<1>11. QED
  BY <1>2, <1>10

-----------------------------------------------------------------------------
(***************************************************************************)
(* What the entries of a list cost.                                        *)
(***************************************************************************)
LEMMA CostIsNat == ASSUME NEW e \in ArtEntry PROVE Cost(e) \in Nat /\ Cost(e) <= ArtCap
<1>1. e.key \in Keys /\ e.body \in Kept
  BY DEF ArtEntry
<1>2. Costs[e.key, e.body] <= ArtCap
  <2>1. \A k \in Keys, b \in Kept : Costs[k, b] <= ArtCap
    BY ArtAssumption
  <2>2. QED
    BY <1>1, <2>1
<1>3. Costs[e.key, e.body] \in Nat
  <2>1. Costs \in [Keys \X Kept -> Nat \ {0}]
    BY ArtAssumption
  <2>2. QED
    BY <1>1, <2>1
<1>4. QED
  BY <1>2, <1>3 DEF Cost

\* The cost of a list is a sum over its places.
LEMMA CostSums ==
    ASSUME NEW s \in Seq(ArtEntry)
    PROVE  \E f, I :
               /\ CostOf(s) = SumFunctionOnSet(f, I)
               /\ I = 1..Len(s) /\ IsFiniteSet(I) /\ CostOf(s) \in Nat
               /\ \A i \in I : f[i] = Cost(s[i]) /\ f[i] \in Int
<1> DEFINE f == [i \in DOMAIN s |-> Cost(s[i])]
<1>1. DOMAIN s = 1..Len(s) /\ Len(s) \in Nat /\ \A i \in 1..Len(s) : s[i] \in ArtEntry
  OBVIOUS
<1>2. IsFiniteSet(1..Len(s))
  BY <1>1, FS_Interval
<1>3. \A i \in 1..Len(s) : f[i] = Cost(s[i]) /\ f[i] \in Nat
  BY <1>1, CostIsNat
<1>4. CostOf(s) = SumFunctionOnSet(f, 1..Len(s))
  <2>1. CostOf(s) = SumFunction(f) /\ DOMAIN f = 1..Len(s)
    BY <1>1 DEF CostOf
  <2> HIDE DEF f
  <2>2. QED
    BY <2>1, SumOverDomain
<1> HIDE DEF f
<1> SUFFICES ASSUME NEW I, I = 1..Len(s)
             PROVE  /\ CostOf(s) = SumFunctionOnSet(f, I)
                    /\ IsFiniteSet(I) /\ CostOf(s) \in Nat
                    /\ \A i \in I : f[i] = Cost(s[i]) /\ f[i] \in Int
  OBVIOUS
<1>5. IsFiniteSet(I) /\ \A i \in I : f[i] = Cost(s[i]) /\ f[i] \in Nat
  BY <1>2, <1>3
<1>6. SumFunctionOnSet(f, I) \in Nat
  BY <1>5, SumIsNat
<1>7. QED
  BY <1>4, <1>5, <1>6

\* An empty cache costs nothing.
LEMMA CostOfNone == CostOf(<<>>) = 0
<1>1. <<>> \in Seq(ArtEntry) /\ 1..Len(<<>>) = {}
  OBVIOUS
<1>2. PICK f, I : CostOf(<<>>) = SumFunctionOnSet(f, I) /\ I = 1..Len(<<>>)
  BY <1>1, CostSums
<1>3. I = {}
  BY <1>1, <1>2
<1>4. QED
  BY <1>2, <1>3, SumEmpty

\* What an element adds, wherever it stands.
LEMMA CostWithout ==
    ASSUME NEW s \in Seq(ArtEntry), NEW p \in 1..Len(s), NEW t \in Seq(ArtEntry),
           Len(s) = Len(t) + 1,
           \A i \in 1..Len(t) : t[i] = IF i < p THEN s[i] ELSE s[i + 1]
    PROVE  CostOf(s) = Cost(s[p]) + CostOf(t)
<1>1. Len(t) \in Nat
  OBVIOUS
<1>2. PICK g, J : /\ CostOf(t) = SumFunctionOnSet(g, J) /\ IsFiniteSet(J) /\ J = 1..Len(t)
                  /\ \A i \in J : g[i] = Cost(t[i]) /\ g[i] \in Int
  BY CostSums
<1>3. PICK f, I : /\ CostOf(s) = SumFunctionOnSet(f, I) /\ IsFiniteSet(I) /\ I = 1..Len(s)
                  /\ \A i \in I : f[i] = Cost(s[i]) /\ f[i] \in Int
  BY CostSums
<1>4. p \in I
  BY <1>3
<1>0. PICK R : R = I \ {p}
  OBVIOUS
<1>5. SumFunctionOnSet(f, I) = f[p] + SumFunctionOnSet(f, R)
  <2>1. IsFiniteSet(I) /\ \A i \in I : f[i] \in Int
    BY <1>3
  <2>2. QED
    BY <1>0, <1>4, <2>1, SumWithout
<1>6. SumFunctionOnSet(g, J) = SumFunctionOnSet(f, R)
  <2> DEFINE to == [i \in J |-> IF i < p THEN i ELSE i + 1]
  <2>1. \A i \in J : to[i] \in R
    BY <1>0, <1>1, <1>2, <1>3
  <2>2. \A i, j \in J : to[i] = to[j] => i = j
    BY <1>1, <1>2
  <2>3. ASSUME NEW k \in R PROVE \E i \in J : to[i] = k
    <3>1. CASE k < p
      <4>1. k \in J /\ to[k] = k
        BY <1>0, <1>1, <1>2, <1>3, <3>1
      <4>2. QED
        BY <4>1
    <3>2. CASE ~(k < p)
      <4>1. k - 1 \in J /\ to[k - 1] = k
        BY <1>0, <1>1, <1>2, <1>3, <3>2
      <4>2. QED
        BY <4>1
    <3>3. QED
      BY <3>1, <3>2
  <2>4. ASSUME NEW i \in J PROVE f[to[i]] = g[i]
    <3>1. to[i] \in I /\ t[i] = s[to[i]]
      BY <1>0, <1>1, <1>2, <2>1
    <3> HIDE DEF to
    <3>2. QED
      BY <1>2, <1>3, <3>1
  <2>5. Renamed(g, J, to, f, R)
    <3> HIDE DEF to
    <3> QED
      BY <1>2, <2>1, <2>2, <2>3, <2>4 DEF Renamed
  <2>6. QED
    BY <2>5, SumOfRenamed
<1>7. QED
  BY <1>2, <1>3, <1>4, <1>5, <1>6

\* An entry in front adds its cost.
LEMMA CostOfFronted ==
    ASSUME NEW s \in Seq(ArtEntry), NEW t \in Seq(ArtEntry), NEW e, IsFronted(t, e, s)
    PROVE  CostOf(t) = Cost(e) + CostOf(s)
<1>1. /\ Len(t) = Len(s) + 1 /\ Len(s) \in Nat /\ t[1] = e
      /\ \A i \in 1..Len(s) : s[i] = IF i < 1 THEN t[i] ELSE t[i + 1]
  BY DEF IsFronted
<1>2. 1 \in 1..Len(t)
  BY <1>1
<1>3. QED
  BY <1>1, <1>2, CostWithout

\* The list s is cut into a, of n entries, and b.
IsCutInTwo(s, n, a, b) ==
    /\ a \in Seq(ArtEntry) /\ b \in Seq(ArtEntry) /\ s \in Seq(ArtEntry)
    /\ n \in Nat /\ Len(a) = n /\ Len(s) = n + Len(b)
    /\ \A i \in 1..n : a[i] = s[i]
    /\ \A i \in 1..Len(b) : b[i] = s[n + i]

\* A tail may be counted apart.
LEMMA CostOfTwo ==
    ASSUME NEW s, NEW n, NEW a, NEW b, IsCutInTwo(s, n, a, b)
    PROVE  CostOf(s) = CostOf(a) + CostOf(b)
<1> USE DEF IsCutInTwo
<1>1. Len(b) \in Nat
  OBVIOUS
<1>2. PICK f, I : /\ CostOf(a) = SumFunctionOnSet(f, I) /\ IsFiniteSet(I) /\ I = 1..Len(a)
                  /\ \A i \in I : f[i] = Cost(a[i]) /\ f[i] \in Int
  BY CostSums
<1>3. PICK g, J : /\ CostOf(b) = SumFunctionOnSet(g, J) /\ IsFiniteSet(J) /\ J = 1..Len(b)
                  /\ \A i \in J : g[i] = Cost(b[i]) /\ g[i] \in Int
  BY CostSums
<1>4. PICK w, W : /\ CostOf(s) = SumFunctionOnSet(w, W) /\ IsFiniteSet(W) /\ W = 1..Len(s)
                  /\ \A i \in W : w[i] = Cost(s[i]) /\ w[i] \in Int
  BY CostSums
<1>0. PICK R : R = n + 1..Len(s)
  OBVIOUS
<1>5. /\ I \union R = W /\ I \intersect R = {} /\ I \subseteq W /\ R \subseteq W
      /\ \A i \in I : a[i] = s[i]
  BY <1>0, <1>1, <1>2, <1>4
<1>6. IsFiniteSet(R)
  BY <1>4, <1>5, FS_Subset
<1>7. SumFunctionOnSet(w, I \union R) = SumFunctionOnSet(w, I) + SumFunctionOnSet(w, R)
  <2>1. \A i \in I \union R : w[i] \in Int
    BY <1>4, <1>5
  <2>2. QED
    BY <1>2, <1>5, <1>6, <2>1, SumOfUnion
<1>8. SumFunctionOnSet(w, I) = SumFunctionOnSet(f, I)
  <2>1. \A i \in I : w[i] = f[i]
    BY <1>2, <1>4, <1>5
  <2>2. QED
    BY <1>2, <2>1, SumSame
<1>9. SumFunctionOnSet(g, J) = SumFunctionOnSet(w, R)
  <2> DEFINE to == [i \in J |-> n + i]
  <2>1. \A i \in J : n + i \in R /\ n + i \in W /\ b[i] = s[n + i]
    BY <1>0, <1>1, <1>3, <1>4
  <2>2. \A i \in J : g[i] \in Int /\ to[i] \in R /\ w[to[i]] = g[i]
    BY <1>3, <1>4, <2>1
  <2>3. \A i, j \in J : to[i] = to[j] => i = j
    BY <1>1, <1>3
  <2>4. ASSUME NEW k \in R PROVE \E i \in J : to[i] = k
    <3>1. k - n \in J /\ to[k - n] = k
      BY <1>0, <1>1, <1>3
    <3>2. QED
      BY <3>1
  <2>5. Renamed(g, J, to, w, R)
    <3> HIDE DEF to
    <3> QED
      BY <1>3, <2>2, <2>3, <2>4 DEF Renamed
  <2>6. QED
    BY <2>5, SumOfRenamed
<1>10. QED
  BY <1>2, <1>3, <1>4, <1>5, <1>7, <1>8, <1>9

\* What is kept and what is evicted cost what there was.
LEMMA CostOfSplit ==
    ASSUME NEW s \in Seq(ArtEntry), NEW n \in 0..Len(s)
    PROVE  CostOf(s) = CostOf(SubSeq(s, 1, n)) + CostOf(SubSeq(s, n + 1, Len(s)))
<1> DEFINE a == SubSeq(s, 1, n)
           b == SubSeq(s, n + 1, Len(s))
<1>1. /\ a \in Seq(ArtEntry) /\ Len(a) = n /\ (\A i \in 1..n : a[i] = s[i])
      /\ b \in Seq(ArtEntry) /\ Len(b) = Len(s) - n /\ \A i \in 1..Len(s) - n : b[i] = s[n + i]
  BY CutIn2
<1> HIDE DEF a, b
<1>2. n \in Nat /\ Len(s) = n + Len(b) /\ \A i \in 1..Len(b) : b[i] = s[n + i]
  BY <1>1
<1>3. IsCutInTwo(s, n, a, b)
  BY <1>1, <1>2 DEF IsCutInTwo
<1>4. CostOf(s) = CostOf(a) + CostOf(b)
  BY <1>3, CostOfTwo
<1>5. QED
  BY <1>4 DEF a, b

\* An entry taken out leaves the rest.
LEMMA CostOfRest ==
    ASSUME NEW s \in Seq(ArtEntry), NEW p \in DOMAIN s
    PROVE  CostOf(s) = Cost(s[p]) + CostOf(RemoveAt(s, p))
<1> DEFINE t == RemoveAt(s, p)
<1>1. /\ t \in Seq(ArtEntry) /\ Len(t) = Len(s) - 1
      /\ \A i \in 1..Len(s) - 1 : t[i] = IF i < p THEN s[i] ELSE s[i + 1]
  BY RemovedAt
<1> HIDE DEF t
<1>2. p \in 1..Len(s) /\ Len(s) = Len(t) + 1
      /\ \A i \in 1..Len(t) : t[i] = IF i < p THEN s[i] ELSE s[i + 1]
  BY <1>1
<1>3. CostOf(s) = Cost(s[p]) + CostOf(t)
  BY <1>1, <1>2, CostWithout
<1>4. QED
  BY <1>3 DEF t
-----------------------------------------------------------------------------
(***************************************************************************)
(* The inductive invariant of the cache.                                   *)
(***************************************************************************)
KeysApart(s) == \A i, j \in DOMAIN s : s[i].key = s[j].key => i = j
Once(u) == \A i, j \in DOMAIN u : u[i] = u[j] => i = j

\* The entries are those used last, in that order.
Latest(s, u) == Len(s) <= Len(u) /\ \A i \in 1..Len(s) : s[i].key = u[i]

Asks == [at : {"fetch"}, key : Keys]
Answers == [at : {"read"}, key : Keys, body : Bodies]
Entries == [at : {"store"}, key : Keys, body : Kept]

\* What a request carries for a key before its body is read,
IsAnswer(e) == <<e.key, e.body>> \in said /\ (e.key \in Tagged => e.body = art[e.key])

\* and what it carries afterwards, and a list holds.
Answered(e) ==
    /\ \E b \in Bodies : <<e.key, b>> \in said /\ e.body = AsRead(b)
    /\ e.key \in Tagged => e.body = AsRead(art[e.key])

ArtTypes ==
    /\ art \in [Keys -> Bodies]
    /\ ll \in Seq(ArtEntry) /\ bytes \in Nat /\ used \in Seq(Keys)
    /\ req \in [Requests -> {Idle} \union Asks \union Answers \union Entries]

KeptOnce == KeysApart(ll) /\ m = ToSet(KeysOf(ll)) /\ bytes = CostOf(ll) /\ bytes <= ArtCap

AreAnswered ==
    /\ \A i \in DOMAIN ll : Answered(ll[i])
    /\ \A r \in Requests : /\ req[r].at = "read" => IsAnswer(req[r])
                           /\ req[r].at = "store" => Answered(req[r])

ArtInv ==
    /\ ArtTypes
    /\ KeptOnce
    /\ Once(used) /\ Latest(ll, used)
    /\ AreAnswered

-----------------------------------------------------------------------------
(***************************************************************************)
(* Bringing an entry to the front.                                         *)
(***************************************************************************)
LEMMA KeysIn ==
    ASSUME NEW s \in Seq(ArtEntry)
    PROVE  /\ DOMAIN s = 1..Len(s) /\ Len(s) \in Nat
           /\ \A i \in 1..Len(s) : s[i] \in ArtEntry /\ s[i].key \in Keys
           /\ \A k : k \in ToSet(KeysOf(s)) <=> \E i \in 1..Len(s) : s[i].key = k
<1>1. DOMAIN s = 1..Len(s) /\ Len(s) \in Nat /\ \A i \in 1..Len(s) : s[i] \in ArtEntry
  OBVIOUS
<1>2. \A k : k \in ToSet(KeysOf(s)) <=> \E i \in DOMAIN s : s[i].key = k
  BY DEF ToSet, KeysOf
<1>3. QED
  BY <1>1, <1>2 DEF ArtEntry

\* A key is in the order of use once; taking it out leaves the others in order.
LEMMA Forgotten ==
    ASSUME NEW T, NEW u \in Seq(T), Once(u), NEW k
    PROVE  \/ /\ RemoveFirst(u, k) = u
              /\ \A i \in 1..Len(u) : u[i] # k
           \/ \E q \in 1..Len(u) : u[q] = k /\ RemoveFirst(u, k) = RemoveAt(u, q)
<1>1. CASE ~ \E i \in 1..Len(u) : u[i] = k
  BY <1>1 DEF RemoveFirst
<1>2. ASSUME NEW q \in 1..Len(u), u[q] = k
      PROVE  RemoveFirst(u, k) = RemoveAt(u, q)
  <2>1. DOMAIN u = 1..Len(u)
    OBVIOUS
  <2>2. {i \in 1..Len(u) : u[i] = k} = {q}
    BY <1>2, <2>1 DEF Once
  <2>3. Min({q}) = q
    BY DEF Min
  <2>4. SelectInSeq(u, LAMBDA v : v = k) = q
    BY <2>2, <2>3 DEF SelectInSeq
  <2>5. RemoveFirst(u, k) = RemoveAt(u, SelectInSeq(u, LAMBDA v : v = k))
    BY <1>2 DEF RemoveFirst
  <2>6. QED
    BY <2>4, <2>5
<1>3. QED
  BY <1>1, <1>2

\* A key whose use is forgotten is not in the history any more.
LEMMA OnceForgotten ==
    ASSUME NEW T, NEW u \in Seq(T), Once(u), NEW k, NEW v, v = RemoveFirst(u, k)
    PROVE  /\ v \in Seq(T) /\ Once(v)
           /\ \A i \in 1..Len(v) : v[i] # k
<1>1. CASE v = u /\ \A i \in 1..Len(u) : u[i] # k
  BY <1>1
<1>2. ASSUME NEW q \in 1..Len(u), u[q] = k, v = RemoveAt(u, q)
      PROVE  v \in Seq(T) /\ Once(v) /\ \A i \in 1..Len(v) : v[i] # k
  <2>1. DOMAIN u = 1..Len(u)
    OBVIOUS
  <2>0. v \in Seq(T) /\ IsWithout(v, u, q)
    BY <1>2, <2>1, RemovedIs
  <2>2. /\ DOMAIN v = 1..Len(v)
        /\ \A i \in 1..Len(v) : \E j \in 1..Len(u) :
               j # q /\ v[i] = u[j] /\ j = IF i < q THEN i ELSE i + 1
    BY <2>0 DEF IsWithout
  <2>3. \A i, j \in 1..Len(u) : u[i] = u[j] => i = j
    BY <2>1 DEF Once
  <2>4. \A i \in 1..Len(v) : v[i] # k
    BY <1>2, <2>2, <2>3
  <2>5. ASSUME NEW i \in 1..Len(v), NEW j \in 1..Len(v), v[i] = v[j] PROVE i = j
    <3>1. PICK a \in 1..Len(u) : v[i] = u[a] /\ a = IF i < q THEN i ELSE i + 1
      BY <2>2
    <3>2. PICK b \in 1..Len(u) : v[j] = u[b] /\ b = IF j < q THEN j ELSE j + 1
      BY <2>2
    <3>3. a = b
      BY <2>3, <2>5, <3>1, <3>2
    <3>4. QED
      BY <3>1, <3>2, <3>3
  <2>6. QED
    BY <2>0, <2>2, <2>4, <2>5 DEF Once
<1>3. QED
  BY <1>1, <1>2, Forgotten

\* A key of the map is in the list.
LEMMA PlaceIs ==
    ASSUME ArtTypes, KeptOnce, NEW k \in m
    PROVE  Place(k) \in 1..Len(ll) /\ ll[Place(k)].key = k
<1>1. \E i \in DOMAIN ll : ll[i].key = k
  BY KeysIn DEF ArtTypes, KeptOnce
<1>2. Place(k) \in DOMAIN ll /\ ll[Place(k)].key = k
  BY <1>1 DEF Place
<1>3. QED
  BY <1>2, KeysIn DEF ArtTypes

\* The rest of the list, when an entry comes to the front.
LEMMA OthersAre ==
    ASSUME ArtTypes, KeptOnce, Once(used), Latest(ll, used), NEW e \in ArtEntry,
           NEW t, t = Others(e), NEW v, v = RemoveFirst(used, e.key)
    PROVE  /\ t \in Seq(ArtEntry) /\ KeysApart(t)
           /\ \A k : k \in ToSet(KeysOf(t)) <=> k \in m \ {e.key}
           /\ bytes = (IF e.key \in m THEN Cost(ll[Place(e.key)]) ELSE 0) + CostOf(t)
           /\ Latest(t, v)
           /\ \A i \in 1..Len(t) : \E j \in 1..Len(ll) : t[i] = ll[j]
<1>1. /\ ll \in Seq(ArtEntry) /\ used \in Seq(Keys) /\ DOMAIN used = 1..Len(used)
      /\ DOMAIN ll = 1..Len(ll) /\ Len(ll) \in Nat /\ Len(used) \in Nat
      /\ Len(ll) <= Len(used) /\ \A i \in 1..Len(ll) : ll[i].key = used[i]
  BY KeysIn DEF ArtTypes, Latest
<1>2. \A i, j \in 1..Len(ll) : ll[i].key = ll[j].key => i = j
  BY <1>1 DEF KeptOnce, KeysApart
<1>3. \A i, j \in 1..Len(used) : used[i] = used[j] => i = j
  BY <1>1 DEF Once
<1>4. \A k : k \in m <=> \E i \in 1..Len(ll) : ll[i].key = k
  BY <1>1, KeysIn DEF KeptOnce
<1>5. CASE e.key \in m
  <2>1. PICK p \in 1..Len(ll) : p = Place(e.key) /\ ll[p].key = e.key /\ t = RemoveAt(ll, p)
    BY <1>5, PlaceIs DEF Others
  <2>0. t \in Seq(ArtEntry) /\ IsWithout(t, ll, p)
    BY <1>1, <2>1, RemovedIs
  <2>2. /\ Len(t) \in Nat /\ DOMAIN t = 1..Len(t) /\ Len(ll) = Len(t) + 1
        /\ \A i \in 1..Len(t) : t[i] = IF i < p THEN ll[i] ELSE ll[i + 1]
        /\ \A i \in 1..Len(t) : \E j \in 1..Len(ll) :
               j # p /\ t[i] = ll[j] /\ j = IF i < p THEN i ELSE i + 1
        /\ \A j \in 1..Len(ll) : j # p => \E i \in 1..Len(t) : t[i] = ll[j]
    BY <2>0 DEF IsWithout
  <2>3. \A i \in 1..Len(t) : \E j \in 1..Len(ll) : j # p /\ t[i] = ll[j]
    BY <2>2
  <2>4. ASSUME NEW i \in 1..Len(t), NEW j \in 1..Len(t), t[i].key = t[j].key PROVE i = j
    <3>1. PICK a \in 1..Len(ll) : t[i] = ll[a] /\ a = IF i < p THEN i ELSE i + 1
      BY <2>2
    <3>2. PICK b \in 1..Len(ll) : t[j] = ll[b] /\ b = IF j < p THEN j ELSE j + 1
      BY <2>2
    <3>3. a = b
      BY <1>2, <2>4, <3>1, <3>2
    <3>4. QED
      BY <3>1, <3>2, <3>3
  <2>5. KeysApart(t)
    BY <2>2, <2>4 DEF KeysApart
  <2>6. \A j \in 1..Len(ll) : j # p => \E i \in 1..Len(t) : t[i] = ll[j]
    BY <2>2
  <2>7. ASSUME NEW k PROVE k \in ToSet(KeysOf(t)) <=> k \in m \ {e.key}
    <3>1. k \in ToSet(KeysOf(t)) <=> \E i \in 1..Len(t) : t[i].key = k
      BY <2>0, KeysIn
    <3>2. (\E i \in 1..Len(t) : t[i].key = k) => \E j \in 1..Len(ll) : j # p /\ ll[j].key = k
      BY <2>3
    <3>3. (\E j \in 1..Len(ll) : j # p /\ ll[j].key = k) => \E i \in 1..Len(t) : t[i].key = k
      BY <2>6
    <3>4. (\E j \in 1..Len(ll) : j # p /\ ll[j].key = k) <=> k \in m \ {e.key}
      BY <1>2, <1>4, <2>1
    <3>5. QED
      BY <3>1, <3>2, <3>3, <3>4
  <2>8. bytes = Cost(ll[p]) + CostOf(t)
    BY <1>1, <2>1, CostOfRest DEF KeptOnce
  <2>9. used[p] = e.key /\ p \in 1..Len(used)
    BY <1>1, <2>1
  <2>10. v = RemoveAt(used, p)
    BY <1>1, <1>3, <2>9, Forgotten
  <2>11. /\ Len(used) = Len(v) + 1 /\ Len(v) \in Nat
         /\ \A i \in 1..Len(v) : v[i] = IF i < p THEN used[i] ELSE used[i + 1]
    <3>1. IsWithout(v, used, p)
      BY <1>1, <2>9, <2>10, RemovedIs
    <3>2. QED
      BY <3>1 DEF IsWithout
  <2>12. Latest(t, v)
    <3>1. Len(t) <= Len(v)
      BY <1>1, <2>2, <2>11
    <3>2. ASSUME NEW i \in 1..Len(t) PROVE t[i].key = v[i]
      <4>0. i \in 1..Len(v) /\ i \in 1..Len(ll) /\ i + 1 \in 1..Len(ll)
        BY <1>1, <2>2, <2>11, SMTT(30)
      <4>1. CASE i < p
        <5>1. t[i] = ll[i] /\ v[i] = used[i]
          BY <2>2, <2>11, <4>0, <4>1
        <5>2. QED
          BY <1>1, <4>0, <5>1
      <4>2. CASE ~(i < p)
        <5>1. t[i] = ll[i + 1] /\ v[i] = used[i + 1]
          BY <2>2, <2>11, <4>0, <4>2
        <5>2. QED
          BY <1>1, <4>0, <5>1
      <4>3. QED
        BY <4>1, <4>2
    <3>3. QED
      BY <3>1, <3>2 DEF Latest
  <2>13. QED
    BY <1>5, <2>0, <2>1, <2>3, <2>5, <2>7, <2>8, <2>12
<1>6. CASE e.key \notin m
  <2>1. t = ll
    BY <1>6 DEF Others
  <2>2. \A i \in 1..Len(ll) : used[i] # e.key
    BY <1>1, <1>4, <1>6
  <2>3. Latest(ll, v)
    <3>1. CASE v = used
      BY <3>1
    <3>2. ASSUME NEW q \in 1..Len(used), used[q] = e.key, v = RemoveAt(used, q)
          PROVE  Latest(ll, v)
      <4>1. q > Len(ll)
        BY <1>1, <2>2, <3>2
      <4>2. /\ Len(used) = Len(v) + 1 /\ Len(v) \in Nat
            /\ \A i \in 1..Len(v) : v[i] = IF i < q THEN used[i] ELSE used[i + 1]
        <5>1. IsWithout(v, used, q)
          BY <1>1, <3>2, RemovedIs
        <5>2. QED
          BY <5>1 DEF IsWithout
      <4>3. Len(ll) <= Len(v) /\ \A i \in 1..Len(ll) : ll[i].key = v[i]
        BY <1>1, <4>1, <4>2
      <4>4. QED
        BY <4>3 DEF Latest
    <3>3. QED
      BY <1>1, <3>1, <3>2, Forgotten
  <2>4. \A k : k \in ToSet(KeysOf(t)) <=> k \in m \ {e.key}
    BY <1>6, <2>1 DEF KeptOnce
  <2>5. bytes = 0 + CostOf(t)
    BY <2>1 DEF KeptOnce, ArtTypes
  <2>6. \A i \in 1..Len(t) : \E j \in 1..Len(ll) : t[i] = ll[j]
    BY <2>1
  <2>7. QED
    BY <1>1, <1>6, <2>1, <2>3, <2>4, <2>5, <2>6 DEF KeptOnce
<1>7. QED
  BY <1>5, <1>6

\* An entry with a new key keeps the keys apart.
LEMMA KeysFronted ==
    ASSUME NEW r \in Seq(ArtEntry), KeysApart(r), NEW e \in ArtEntry, e.key \notin ToSet(KeysOf(r)),
           NEW t \in Seq(ArtEntry), IsFronted(t, e, r)
    PROVE  KeysApart(t) /\ ToSet(KeysOf(t)) = ToSet(KeysOf(r)) \union {e.key}
<1>1. /\ Len(r) \in Nat /\ DOMAIN r = 1..Len(r) /\ DOMAIN t = 1..Len(r) + 1 /\ Len(t) = Len(r) + 1
      /\ t[1] = e /\ 1 \in 1..Len(r) + 1
      /\ \A i \in 1..Len(r) : i + 1 \in 1..Len(r) + 1 /\ t[i + 1] = r[i]
      /\ \A i \in 1..Len(r) + 1 : i = 1 \/ (i - 1 \in 1..Len(r) /\ t[i] = r[i - 1])
  BY DEF IsFronted
<1>2. \A k : k \in ToSet(KeysOf(r)) <=> \E i \in 1..Len(r) : r[i].key = k
  BY KeysIn
<1>3. \A k : k \in ToSet(KeysOf(t)) <=> \E i \in 1..Len(r) + 1 : t[i].key = k
  BY <1>1, KeysIn
<1>4. \A i, j \in 1..Len(r) : r[i].key = r[j].key => i = j
  BY <1>1 DEF KeysApart
<1>5. ASSUME NEW i \in 1..Len(r) + 1, NEW j \in 1..Len(r) + 1, t[i].key = t[j].key
      PROVE  i = j
  <2>1. CASE i = 1 /\ j # 1
    BY <1>1, <1>2, <1>5, <2>1
  <2>2. CASE i # 1 /\ j = 1
    BY <1>1, <1>2, <1>5, <2>2
  <2>3. CASE i # 1 /\ j # 1
    <3>1. i - 1 = j - 1
      BY <1>1, <1>4, <1>5, <2>3, SMTT(30)
    <3>2. QED
      BY <3>1
  <2>4. QED
    BY <2>1, <2>2, <2>3
<1>6. KeysApart(t)
  BY <1>1, <1>5 DEF KeysApart
<1>7. \A k : k \in ToSet(KeysOf(t)) <=> k = e.key \/ k \in ToSet(KeysOf(r))
  BY <1>1, <1>2, <1>3, SMTT(30)
<1>8. QED
  BY <1>6, <1>7

\* A key that is used now is in the history once.
LEMMA OnceFronted ==
    ASSUME NEW v, Once(v), NEW k, \A i \in 1..Len(v) : v[i] # k, NEW u, IsFronted(u, k, v)
    PROVE  Once(u)
<1>1. /\ Len(v) \in Nat /\ DOMAIN v = 1..Len(v) /\ DOMAIN u = 1..Len(v) + 1
      /\ u[1] = k
      /\ \A i \in 1..Len(v) + 1 : i = 1 \/ (i - 1 \in 1..Len(v) /\ u[i] = v[i - 1])
  BY DEF IsFronted
<1>2. \A i, j \in 1..Len(v) : v[i] = v[j] => i = j
  BY <1>1 DEF Once
<1>3. ASSUME NEW i \in 1..Len(v) + 1, NEW j \in 1..Len(v) + 1, u[i] = u[j]
      PROVE  i = j
  <2>1. CASE i = 1 /\ j # 1
    BY <1>1, <1>3, <2>1
  <2>2. CASE i # 1 /\ j = 1
    BY <1>1, <1>3, <2>2
  <2>3. CASE i # 1 /\ j # 1
    <3>1. i - 1 = j - 1
      BY <1>1, <1>2, <1>3, <2>3
    <3>2. QED
      BY <3>1
  <2>4. QED
    BY <2>1, <2>2, <2>3
<1>4. QED
  BY <1>1, <1>3 DEF Once

\* What was used last is in front, in the list and in the history.
LEMMA LatestFronted ==
    ASSUME NEW r, NEW v, Latest(r, v), NEW e, NEW t, IsFronted(t, e, r),
           NEW u, IsFronted(u, e.key, v)
    PROVE  Latest(t, u)
<1>1. /\ Len(r) \in Nat /\ Len(t) = Len(r) + 1 /\ t[1] = e
      /\ \A i \in 1..Len(r) + 1 : i = 1 \/ (i - 1 \in 1..Len(r) /\ t[i] = r[i - 1])
  BY DEF IsFronted
<1>2. /\ Len(v) \in Nat /\ Len(u) = Len(v) + 1 /\ u[1] = e.key
      /\ \A i \in 1..Len(v) + 1 : i = 1 \/ (i - 1 \in 1..Len(v) /\ u[i] = v[i - 1])
  BY DEF IsFronted
<1>3. Len(r) <= Len(v) /\ \A i \in 1..Len(r) : r[i].key = v[i]
  BY DEF Latest
<1>4. ASSUME NEW i \in 1..Len(r) + 1 PROVE t[i].key = u[i]
  <2>1. i \in 1..Len(v) + 1
    BY <1>1, <1>2, <1>3
  <2>2. QED
    BY <1>1, <1>2, <1>3, <2>1
<1>5. QED
  BY <1>1, <1>2, <1>3, <1>4 DEF Latest

\* An entry before the others, and its key before the keys used earlier.
IsBrought(t, u, e) ==
    /\ t \in Seq(ArtEntry) /\ KeysApart(t)
    /\ ToSet(KeysOf(t)) = m \union {e.key}
    /\ CostOf(t) = bytes - (IF e.key \in m THEN Cost(ll[Place(e.key)]) ELSE 0) + Cost(e)
    /\ u \in Seq(Keys) /\ Once(u) /\ Latest(t, u)
    /\ \A i \in 1..Len(t) : t[i] = e \/ \E j \in 1..Len(ll) : t[i] = ll[j]

\* Bringing an entry to the front keeps all of this, new or not.
LEMMA Brought ==
    ASSUME ArtTypes, KeptOnce, Once(used), Latest(ll, used), NEW e \in ArtEntry
    PROVE  IsBrought(<<e>> \o Others(e), <<e.key>> \o RemoveFirst(used, e.key), e)
<1> SUFFICES ASSUME NEW t, t = <<e>> \o Others(e), NEW u, u = <<e.key>> \o RemoveFirst(used, e.key)
             PROVE  IsBrought(t, u, e)
  OBVIOUS
<1> DEFINE r == Others(e)
           v == RemoveFirst(used, e.key)
           c == IF e.key \in m THEN Cost(ll[Place(e.key)]) ELSE 0
<1>1. /\ r \in Seq(ArtEntry) /\ KeysApart(r)
      /\ \A k : k \in ToSet(KeysOf(r)) <=> k \in m \ {e.key}
      /\ bytes = c + CostOf(r)
      /\ Latest(r, v)
      /\ \A i \in 1..Len(r) : \E j \in 1..Len(ll) : r[i] = ll[j]
  BY OthersAre
<1>2. v \in Seq(Keys) /\ Once(v) /\ \A i \in 1..Len(v) : v[i] # e.key
  BY OnceForgotten DEF ArtTypes
<1>3. c \in Int
  <2>1. CASE e.key \in m
    <3>1. ll[Place(e.key)] \in ArtEntry
      BY <2>1, PlaceIs, KeysIn DEF ArtTypes
    <3>2. QED
      BY <2>1, <3>1, CostIsNat
  <2>2. QED
    BY <2>1
<1>4. e.key \in Keys
  BY DEF ArtEntry
<1>5. t = <<e>> \o r /\ u = <<e.key>> \o v
  OBVIOUS
<1> HIDE DEF r, v
<1>6. t \in Seq(ArtEntry) /\ IsFronted(t, e, r)
  BY <1>1, <1>5, Fronted
<1>7. u \in Seq(Keys) /\ IsFronted(u, e.key, v)
  BY <1>2, <1>4, <1>5, Fronted
<1>8. KeysApart(t) /\ ToSet(KeysOf(t)) = ToSet(KeysOf(r)) \union {e.key}
  BY <1>1, <1>6, KeysFronted
<1>9. ToSet(KeysOf(t)) = m \union {e.key}
  BY <1>1, <1>8
<1>10. CostOf(t) = bytes - c + Cost(e)
  <2>1. CostOf(t) = Cost(e) + CostOf(r)
    BY <1>1, <1>6, CostOfFronted
  <2>2. Cost(e) \in Int /\ CostOf(r) \in Int
    BY <1>1, CostIsNat, CostSums
  <2> HIDE DEF c
  <2>3. QED
    BY <1>1, <1>3, <2>1, <2>2
<1>11. Once(u)
  BY <1>2, <1>7, OnceFronted
<1>12. Latest(t, u)
  BY <1>1, <1>6, <1>7, LatestFronted
<1>13. ASSUME NEW i \in 1..Len(t) PROVE t[i] = e \/ \E j \in 1..Len(ll) : t[i] = ll[j]
  <2>1. /\ t[1] = e /\ Len(t) = Len(r) + 1
        /\ \A k \in 1..Len(r) + 1 : k = 1 \/ (k - 1 \in 1..Len(r) /\ t[k] = r[k - 1])
    BY <1>6 DEF IsFronted
  <2>2. CASE i # 1
    <3>1. i - 1 \in 1..Len(r) /\ t[i] = r[i - 1]
      BY <2>1, <2>2
    <3>2. QED
      BY <1>1, <3>1
  <2>3. QED
    BY <2>1, <2>2
<1>14. QED
  BY <1>6, <1>7, <1>8, <1>9, <1>10, <1>11, <1>12, <1>13 DEF IsBrought

\* Taking entries from the back: what is left fits, and is counted.
LEMMA Evicted ==
    ASSUME NEW s \in Seq(ArtEntry), KeysApart(s),
           NEW keys, keys = ToSet(KeysOf(s)), NEW total, total = CostOf(s),
           Evict(s, keys, total)
    PROVE  /\ ll' \in Seq(ArtEntry) /\ Len(ll') <= Len(s)
           /\ \A i \in 1..Len(ll') : ll'[i] = s[i]
           /\ bytes' \in Nat
           /\ KeptOnce'
<1> DEFINE back(i) == SubSeq(s, i + 1, Len(s))
           left(i) == total - CostOf(back(i))
           Fits == {0} \union {i \in 1..Len(s) : left(i) <= ArtCap}
           n == Max(Fits)
<1>1. ll' = SubSeq(s, 1, n) /\ m' = keys \ ToSet(KeysOf(back(n))) /\ bytes' = left(n)
  BY DEF Evict
<1>2. DOMAIN s = 1..Len(s) /\ Len(s) \in Nat
  BY KeysIn
<1>3. n \in Fits
  <2>1. Fits \subseteq 0..Len(s) /\ Fits # {}
    BY <1>2
  <2> HIDE DEF Fits
  <2>2. \E x \in Fits : \A y \in Fits : x >= y
    BY <1>2, <2>1, LargestNumber
  <2>3. QED
    BY <2>2 DEF Max
<1>4. n \in 0..Len(s) /\ (n # 0 => left(n) <= ArtCap)
  BY <1>2, <1>3
<1> HIDE DEF Fits, n
<1>5. PICK a : a = SubSeq(s, 1, n)
  OBVIOUS
<1>6. PICK b : b = back(n)
  OBVIOUS
<1>7. /\ a \in Seq(ArtEntry) /\ Len(a) = n /\ (\A i \in 1..n : a[i] = s[i])
      /\ b \in Seq(ArtEntry) /\ Len(b) = Len(s) - n /\ \A i \in 1..Len(s) - n : b[i] = s[n + i]
  BY <1>4, <1>5, <1>6, CutIn2
<1>8. CostOf(s) = CostOf(a) + CostOf(b)
  BY <1>4, <1>5, <1>6, CostOfSplit
<1>9. CostOf(a) \in Nat /\ CostOf(b) \in Nat
  BY <1>7, CostSums
<1>10. left(n) = CostOf(a)
  BY <1>6, <1>8, <1>9
<1> HIDE DEF back, left
<1>11. n = 0 => CostOf(a) = 0
  <2>1. n = 0 => a = <<>>
    BY <1>7
  <2>2. QED
    BY <2>1, CostOfNone
<1>12. CostOf(a) <= ArtCap
  <2>1. ArtCap \in Nat /\ CostOf(a) \in Nat
    BY <1>9, ArtAssumption
  <2>2. QED
    BY <1>4, <1>10, <1>11, <2>1
<1>13. \A i, j \in 1..Len(s) : s[i].key = s[j].key => i = j
  BY <1>2 DEF KeysApart
<1>14. DOMAIN a = 1..n
  BY <1>7
<1>15. KeysApart(a)
  BY <1>4, <1>7, <1>13, <1>14 DEF KeysApart
<1>16. ASSUME NEW k PROVE k \in keys \ ToSet(KeysOf(b)) <=> k \in ToSet(KeysOf(a))
  <2>1. k \in keys <=> \E i \in 1..Len(s) : s[i].key = k
    BY KeysIn
  <2>2. k \in ToSet(KeysOf(a)) <=> \E i \in 1..n : s[i].key = k
    <3>1. k \in ToSet(KeysOf(a)) <=> \E i \in 1..n : a[i].key = k
      BY <1>7, KeysIn
    <3>2. QED
      BY <1>7, <3>1
  <2>3. k \in ToSet(KeysOf(b)) <=> \E i \in n + 1..Len(s) : s[i].key = k
    <3>1. k \in ToSet(KeysOf(b)) <=> \E i \in 1..Len(s) - n : b[i].key = k
      BY <1>7, KeysIn
    <3>2. ASSUME NEW i \in 1..Len(s) - n, b[i].key = k
          PROVE  \E j \in n + 1..Len(s) : s[j].key = k
      <4>1. n + i \in n + 1..Len(s) /\ s[n + i].key = k
        BY <1>2, <1>4, <1>7, <3>2
      <4>2. QED
        BY <4>1
    <3>3. ASSUME NEW j \in n + 1..Len(s), s[j].key = k
          PROVE  \E i \in 1..Len(s) - n : b[i].key = k
      <4>1. j - n \in 1..Len(s) - n /\ n + (j - n) = j
        BY <1>2, <1>4
      <4>2. b[j - n] = s[j]
        BY <1>7, <4>1
      <4>3. QED
        BY <3>3, <4>1, <4>2
    <3>4. QED
      BY <3>1, <3>2, <3>3
  <2>4. \A i \in 1..Len(s) : \A j \in 1..Len(s) : s[i].key = k /\ s[j].key = k => i = j
    BY <1>13
  <2>5. \A i \in 1..Len(s) : i \in 1..n \/ i \in n + 1..Len(s)
    BY <1>2, <1>4
  <2>6. \A i \in 1..n : i \in 1..Len(s)
    BY <1>2, <1>4
  <2>7. \A i \in n + 1..Len(s) : i \in 1..Len(s) /\ i \notin 1..n
    BY <1>2, <1>4
  <2>8. QED
    BY <2>1, <2>2, <2>3, <2>4, <2>5, <2>6, <2>7
<1>17. ll' = a /\ bytes' = CostOf(a) /\ m' = ToSet(KeysOf(a))
  BY <1>1, <1>5, <1>6, <1>10, <1>16
<1>18. KeptOnce'
  BY <1>12, <1>15, <1>17 DEF KeptOnce
<1>19. QED
  BY <1>2, <1>4, <1>7, <1>9, <1>17, <1>18
-----------------------------------------------------------------------------
(***************************************************************************)
(* The steps.                                                              *)
(***************************************************************************)
LEMMA ArtInvInit == ArtInit => ArtInv
<1> SUFFICES ASSUME ArtInit PROVE ArtInv
  OBVIOUS
<1>1. ArtTypes
  BY DEF ArtInit, ArtTypes
<1>2. KeptOnce
  <2>1. <<>> \in Seq(ArtEntry) /\ DOMAIN <<>> = {}
    OBVIOUS
  <2>2. ToSet(KeysOf(<<>>)) = {}
    BY <2>1 DEF ToSet, KeysOf
  <2>3. KeysApart(<<>>)
    BY <2>1 DEF KeysApart
  <2>4. ArtCap \in Nat
    BY ArtAssumption
  <2>5. QED
    BY <2>2, <2>3, <2>4, CostOfNone DEF ArtInit, KeptOnce
<1>3. Once(used) /\ Latest(ll, used)
  BY DEF ArtInit, Once, Latest
<1>4. AreAnswered
  BY DEF ArtInit, AreAnswered, Idle
<1>5. QED
  BY <1>1, <1>2, <1>3, <1>4 DEF ArtInv

\* What a request may be: what comes with each of its states.
LEMMA RequestIs ==
    ASSUME ArtTypes, NEW r \in Requests
    PROVE  /\ req[r].at \in {"idle", "fetch", "read", "store"}
           /\ req[r].at = "fetch" => req[r].key \in Keys
           /\ req[r].at = "read" => req[r] \in Answers
           /\ req[r].at = "store" => req[r] \in Entries
           /\ req[r] # Idle => req[r].key \in Keys /\ req[r].at # "idle"
  BY DEF ArtTypes, Idle, Asks, Answers, Entries

\* A 404 is not read, and stays what it is.
LEMMA MissIsRead == AsRead(Miss) = Miss /\ Miss \in Bodies /\ \A b \in Bodies : AsRead(b) \in Kept
  BY ArtAssumption DEF AsRead, Bodies, Kept

\* Steps that leave the lists alone.
LEMMA ListsAlone ==
    ASSUME ArtInv, UNCHANGED <<ll, m, bytes, used>>
    PROVE  /\ ll' \in Seq(ArtEntry) /\ bytes' \in Nat /\ used' \in Seq(Keys)
           /\ KeptOnce' /\ Once(used') /\ Latest(ll', used')
  BY DEF ArtInv, ArtTypes, KeptOnce

\* Each step of a request keeps the invariant of the cache.
LEMMA ArtInvNext == ArtInv /\ [ArtNext]_artVars => ArtInv'
<1> SUFFICES ASSUME ArtInv, [ArtNext]_artVars PROVE ArtInv'
  OBVIOUS
<1>0. ArtTypes /\ KeptOnce /\ Once(used) /\ Latest(ll, used) /\ AreAnswered
  BY DEF ArtInv
<1>1. ASSUME NEW r \in Requests, Fetch(r) PROVE ArtInv'
  <2>1. UNCHANGED <<ll, m, bytes, used, art>> /\ req[r].at = "fetch" /\ req[r].key \in Keys
    BY <1>0, <1>1, RequestIs DEF Fetch, Lists
  <2>2. PICK k \in Keys, a \in {"read", "store"} :
            /\ req' = [req EXCEPT ![r] = [at |-> a, key |-> k, body |-> art[k]]]
            /\ said' = said \union {<<k, art[k]>>}
            /\ a = "store" => art[k] = Miss
    BY <1>1, <2>1 DEF Fetch
  <2>3. [at |-> a, key |-> k, body |-> art[k]] \in Answers \union Entries /\ art[k] \in Bodies
    BY <1>0, <2>2, MissIsRead DEF ArtTypes, Answers, Entries
  <2>4. ArtTypes'
    <3>1. req' \in [Requests -> {Idle} \union Asks \union Answers \union Entries]
      BY <1>0, <2>2, <2>3 DEF ArtTypes
    <3>2. QED
      BY <1>0, <2>1, <3>1, ListsAlone DEF ArtTypes
  <2>5. AreAnswered'
    <3>1. /\ req'[r] = [at |-> a, key |-> k, body |-> art[k]]
          /\ \A q \in Requests : q # r => req'[q] = req[q]
      BY <1>0, <2>2 DEF ArtTypes
    <3>2. /\ req'[r].at = "read" => IsAnswer(req[r])'
          /\ req'[r].at = "store" => Answered(req[r])'
      BY <2>1, <2>2, <2>3, <3>1, MissIsRead DEF IsAnswer, Answered
    <3>3. \A i \in DOMAIN ll' : Answered(ll[i])'
      BY <1>0, <2>1, <2>2 DEF AreAnswered, Answered
    <3>4. \A q \in Requests : q # r => /\ req'[q].at = "read" => IsAnswer(req[q])'
                                       /\ req'[q].at = "store" => Answered(req[q])'
      <4>1. SUFFICES ASSUME NEW q \in Requests, q # r
                     PROVE  /\ req'[q].at = "read" => IsAnswer(req[q])'
                            /\ req'[q].at = "store" => Answered(req[q])'
        OBVIOUS
      <4>2. PICK o : o = req[q]
        OBVIOUS
      <4>3. req'[q] = o
        BY <3>1, <4>1, <4>2
      <4>4. (o.at = "read" => IsAnswer(o)) /\ (o.at = "store" => Answered(o))
        BY <1>0, <4>2 DEF AreAnswered
      <4>5. said \subseteq said' /\ UNCHANGED art
        BY <2>1, <2>2
      <4>6. IsAnswer(o) => IsAnswer(req[q])'
        BY <4>3, <4>5 DEF IsAnswer
      <4>7. Answered(o) => Answered(req[q])'
        BY <4>3, <4>5 DEF Answered
      <4>8. QED
        BY <4>3, <4>4, <4>6, <4>7
    <3>5. QED
      BY <3>2, <3>3, <3>4 DEF AreAnswered
  <2>6. QED
    BY <2>1, <2>4, <2>5, ListsAlone DEF ArtInv
<1>2. ASSUME NEW r \in Requests, Read(r) PROVE ArtInv'
  <2>1. /\ UNCHANGED <<ll, m, bytes, used, art, said>> /\ req[r] \in Answers /\ req[r].at = "read"
        /\ req' = [req EXCEPT ![r] = [at |-> "store", key |-> req[r].key, body |-> AsRead(req[r].body)]]
    BY <1>0, <1>2, RequestIs DEF Read, Lists
  <2> DEFINE e == [at |-> "store", key |-> req[r].key, body |-> AsRead(req[r].body)]
  <2>2. req[r].body \in Bodies /\ req[r].key \in Keys /\ e \in Entries
    <3>1. req[r].body \in Bodies /\ req[r].key \in Keys
      BY <2>1 DEF Answers
    <3>2. AsRead(req[r].body) \in Kept
      BY <3>1, MissIsRead
    <3>3. QED
      BY <3>1, <3>2 DEF Entries
  <2>3. req' = [req EXCEPT ![r] = e]
    BY <2>1
  <2>4. ArtTypes'
    <3>1. req' \in [Requests -> {Idle} \union Asks \union Answers \union Entries]
      BY <1>0, <2>2, <2>3 DEF ArtTypes
    <3>2. QED
      BY <1>0, <2>1, <3>1, ListsAlone DEF ArtTypes
  <2>5. AreAnswered'
    <3>1. IsAnswer(req[r]) /\ req'[r] = e
      BY <1>0, <2>1, <2>3 DEF AreAnswered, ArtTypes
    <3>2. e.at = "store" /\ Answered(e)
      BY <2>2, <3>1 DEF IsAnswer, Answered
    <3>3. \A q \in Requests : q # r => req'[q] = req[q]
      BY <1>0, <2>3 DEF ArtTypes
    <3> HIDE DEF e
    <3>4. \A i \in DOMAIN ll' : Answered(ll[i])'
      BY <1>0, <2>1 DEF AreAnswered, Answered
    <3>5. Answered(req[r])' /\ req'[r].at = "store"
      BY <2>1, <3>1, <3>2 DEF Answered
    <3>6. \A q \in Requests : q # r => /\ req'[q].at = "read" => IsAnswer(req[q])'
                                       /\ req'[q].at = "store" => Answered(req[q])'
      <4>1. SUFFICES ASSUME NEW q \in Requests, q # r
                     PROVE  /\ req'[q].at = "read" => IsAnswer(req[q])'
                            /\ req'[q].at = "store" => Answered(req[q])'
        OBVIOUS
      <4>2. req'[q] = req[q] /\ UNCHANGED <<said, art>>
        BY <2>1, <3>3, <4>1
      <4>3. (req[q].at = "read" => IsAnswer(req[q])) /\ (req[q].at = "store" => Answered(req[q]))
        BY <1>0 DEF AreAnswered
      <4>4. QED
        BY <4>2, <4>3 DEF Answered, IsAnswer
    <3>7. QED
      BY <3>4, <3>5, <3>6 DEF AreAnswered
  <2>6. QED
    BY <2>1, <2>4, <2>5, ListsAlone DEF ArtInv
<1>3. ASSUME NEW r \in Requests, Fail(r) PROVE ArtInv'
  <2>1. UNCHANGED <<ll, m, bytes, used, art, said>> /\ req' = [req EXCEPT ![r] = Idle]
    BY <1>3 DEF Fail, Lists, Done
  <2>2. ArtTypes'
    BY <1>0, <2>1, ListsAlone DEF ArtTypes
  <2>3. AreAnswered'
    BY <1>0, <2>1 DEF AreAnswered, Answered, IsAnswer, ArtTypes, Idle
  <2>4. QED
    BY <2>1, <2>2, <2>3, ListsAlone DEF ArtInv
<1>4. ASSUME NEW r \in Requests, Put(r) PROVE ArtInv'
  <2> DEFINE e == [key |-> req[r].key, body |-> req[r].body]
             t == <<e>> \o Others(e)
             cost == bytes - (IF e.key \in m THEN Cost(ll[Place(e.key)]) ELSE 0) + Cost(e)
  <2>1. req[r] \in Entries /\ req[r].at = "store" /\ Answered(req[r])
    BY <1>0, <1>4, RequestIs DEF Put, AreAnswered
  <2>2. e \in ArtEntry /\ Answered(e)
    BY <2>1 DEF Entries, ArtEntry, Answered
  <2>3. /\ Evict(t, m \union {e.key}, cost) /\ used' = <<e.key>> \o RemoveFirst(used, e.key)
        /\ req' = [req EXCEPT ![r] = Idle] /\ UNCHANGED <<art, said>>
    BY <1>4 DEF Put, Store, Use, Done
  <2>4. /\ t \in Seq(ArtEntry) /\ KeysApart(t) /\ ToSet(KeysOf(t)) = m \union {e.key}
        /\ CostOf(t) = cost /\ used' \in Seq(Keys) /\ Once(used') /\ Latest(t, used')
        /\ \A i \in 1..Len(t) : t[i] = e \/ \E j \in 1..Len(ll) : t[i] = ll[j]
    <3>1. IsBrought(t, used', e)
      <4> HIDE DEF e
      <4> QED
        BY <1>0, <2>2, <2>3, Brought
    <3> HIDE DEF t, e
    <3>2. QED
      BY <3>1 DEF IsBrought, cost
  <2> HIDE DEF t, cost, e
  <2>5. /\ ll' \in Seq(ArtEntry) /\ Len(ll') <= Len(t) /\ \A i \in 1..Len(ll') : ll'[i] = t[i]
        /\ bytes' \in Nat /\ KeptOnce'
    BY <2>3, <2>4, Evicted
  <2>6. Len(ll') \in Nat /\ Len(t) \in Nat /\ DOMAIN ll' = 1..Len(ll') /\ DOMAIN ll = 1..Len(ll)
    BY <1>0, <2>4, <2>5 DEF ArtTypes
  <2>7. Latest(ll', used')
    BY <2>4, <2>5, <2>6 DEF Latest
  <2>8. ArtTypes'
    BY <1>0, <2>3, <2>4, <2>5 DEF ArtTypes
  <2>9. AreAnswered'
    <3>1. \A i \in 1..Len(ll') : Answered(ll'[i])
      <4>1. \A i \in 1..Len(ll) : Answered(ll[i])
        BY <1>0, <2>6 DEF AreAnswered
      <4>2. \A i \in 1..Len(ll') : i \in 1..Len(t)
        BY <2>5, <2>6
      <4>3. QED
        BY <2>2, <2>4, <2>5, <4>1, <4>2
    <3>2. \A q \in Requests : /\ req'[q].at = "read" => IsAnswer(req'[q])
                              /\ req'[q].at = "store" => Answered(req'[q])
      BY <1>0, <2>3 DEF AreAnswered, Answered, IsAnswer, ArtTypes, Idle
    <3>3. UNCHANGED <<art, said>>
      BY <2>3
    <3>4. QED
      BY <2>6, <3>1, <3>2, <3>3 DEF AreAnswered, Answered, IsAnswer
  <2>10. QED
    BY <2>4, <2>5, <2>7, <2>8, <2>9 DEF ArtInv
<1>5. ASSUME NEW r \in Requests, NEW k \in Keys, Hit(r, k) PROVE ArtInv'
  <2>1. PICK e : e = ll[Place(k)]
    OBVIOUS
  <2>2. k \in m /\ e \in ArtEntry /\ e.key = k /\ Place(k) \in 1..Len(ll)
    BY <1>0, <1>5, <2>1, PlaceIs, KeysIn DEF Hit, ArtTypes
  <2>3. /\ ll' = <<e>> \o Others(e) /\ used' = <<e.key>> \o RemoveFirst(used, e.key)
        /\ req' = [req EXCEPT ![r] = Idle] /\ UNCHANGED <<art, m, bytes, said>>
    BY <1>5, <2>1, <2>2 DEF Hit, MoveToFront, Others, Use, Done
  <2>4. /\ ll' \in Seq(ArtEntry) /\ KeysApart(ll') /\ ToSet(KeysOf(ll')) = m \union {e.key}
        /\ CostOf(ll') = bytes - (IF e.key \in m THEN Cost(ll[Place(e.key)]) ELSE 0) + Cost(e)
        /\ used' \in Seq(Keys) /\ Once(used') /\ Latest(ll', used')
        /\ \A i \in 1..Len(ll') : ll'[i] = e \/ \E j \in 1..Len(ll) : ll'[i] = ll[j]
    <3>1. IsBrought(ll', used', e)
      BY <1>0, <2>2, <2>3, Brought
    <3>2. QED
      BY <3>1 DEF IsBrought
  <2>5. CostOf(ll') = bytes
    <3>1. CostOf(ll') = bytes - Cost(e) + Cost(e)
      BY <2>1, <2>2, <2>4
    <3>2. Cost(e) \in Int /\ bytes \in Int
      BY <1>0, <2>2, CostIsNat DEF ArtTypes
    <3>3. QED
      BY <3>1, <3>2
  <2>6. KeptOnce'
    BY <1>0, <2>2, <2>3, <2>4, <2>5 DEF KeptOnce
  <2>7. ArtTypes'
    BY <1>0, <2>3, <2>4 DEF ArtTypes
  <2>8. AreAnswered'
    <3>1. DOMAIN ll = 1..Len(ll) /\ DOMAIN ll' = 1..Len(ll')
      BY <1>0, <2>4, KeysIn DEF ArtTypes
    <3>2. \A i \in 1..Len(ll') : Answered(ll'[i])
      BY <1>0, <2>1, <2>2, <2>4, <3>1 DEF AreAnswered
    <3>3. \A q \in Requests : /\ req'[q].at = "read" => IsAnswer(req'[q])
                              /\ req'[q].at = "store" => Answered(req'[q])
      BY <1>0, <2>3 DEF AreAnswered, Answered, IsAnswer, ArtTypes, Idle
    <3>4. UNCHANGED <<art, said>>
      BY <2>3
    <3>5. QED
      BY <3>1, <3>2, <3>3, <3>4 DEF AreAnswered, Answered, IsAnswer
  <2>9. QED
    BY <2>4, <2>6, <2>7, <2>8 DEF ArtInv
<1>6. ASSUME NEW r \in Requests, NEW k \in Keys, Ask(r, k) PROVE ArtInv'
  <2>1. /\ UNCHANGED <<ll, m, bytes, used, art, said>>
        /\ req' = [req EXCEPT ![r] = [at |-> "fetch", key |-> k]]
    BY <1>6 DEF Ask, Lists
  <2>2. ArtTypes'
    BY <1>0, <2>1, ListsAlone DEF ArtTypes, Asks
  <2>3. AreAnswered'
    BY <1>0, <2>1 DEF AreAnswered, Answered, IsAnswer, ArtTypes
  <2>4. QED
    BY <2>1, <2>2, <2>3, ListsAlone DEF ArtInv
<1>7. ASSUME NEW k \in Keys, Repaint(k) PROVE ArtInv'
  <2>1. /\ UNCHANGED <<ll, m, bytes, used, req, said>> /\ k \notin Tagged
        /\ \E b \in Bodies : art' = [art EXCEPT ![k] = b]
    BY <1>7 DEF Repaint, Lists
  <2>2. ArtTypes'
    BY <1>0, <2>1, ListsAlone DEF ArtTypes
  <2>3. \A j \in Tagged : art'[j] = art[j]
    BY <1>0, <2>1 DEF ArtTypes
  <2>4. AreAnswered'
    BY <1>0, <2>1, <2>3 DEF AreAnswered, Answered, IsAnswer
  <2>5. QED
    BY <2>1, <2>2, <2>4, ListsAlone DEF ArtInv
<1>8. CASE UNCHANGED artVars
  <2>1. UNCHANGED <<ll, m, bytes, used, art, said, req>>
    BY <1>8 DEF artVars
  <2>2. ArtTypes' /\ AreAnswered'
    BY <1>0, <2>1 DEF ArtTypes, AreAnswered, Answered, IsAnswer
  <2>3. QED
    BY <2>1, <2>2, ListsAlone DEF ArtInv
<1>9. QED
  BY <1>1, <1>2, <1>3, <1>4, <1>5, <1>6, <1>7, <1>8 DEF ArtNext

\* The inductive invariant of the cache.
LEMMA ArtInvHolds == ArtSpec => []ArtInv
<1>1. ArtInit => ArtInv
  BY ArtInvInit
<1>2. ArtInv /\ [ArtNext]_artVars => ArtInv'
  BY ArtInvNext
<1>3. QED
  BY <1>1, <1>2, PTL DEF ArtSpec

-----------------------------------------------------------------------------
(***************************************************************************)
(* What follows for the properties of the cache.                           *)
(***************************************************************************)
\* The variables of the art cache keep their types.
THEOREM ArtTypeCorrect == ArtSpec => []ArtTypeOK
<1>1. ArtInv => ArtTypeOK
  <2> SUFFICES ASSUME ArtInv PROVE ArtTypeOK
    OBVIOUS
  <2>1. ArtTypes /\ KeptOnce
    BY DEF ArtInv
  <2>2. DOMAIN ll = 1..Len(ll) /\ \A i \in 1..Len(ll) : ll[i].key \in Keys
    BY <2>1, KeysIn DEF ArtTypes
  <2>3. \A k \in m : \E i \in 1..Len(ll) : ll[i].key = k
    BY <2>1, KeysIn DEF KeptOnce, ArtTypes
  <2>4. m \subseteq Keys
    BY <2>2, <2>3
  <2>5. \A r \in Requests : req[r] # Idle =>
            req[r].key \in Keys /\ req[r].at \in {"fetch", "read", "store"}
    BY <2>1, RequestIs
  <2>6. QED
    BY <2>1, <2>2, <2>4, <2>5 DEF ArtTypeOK, ArtTypes
<1>2. QED
  BY <1>1, ArtInvHolds, PTL

\* The map and the list agree key for key, and the count of bytes is what the
\* entries kept cost together and never over the cap, whatever get, put, putMiss
\* and the eviction loop did, for any cap and any cost of an entry within it.
THEOREM BytesDoAddUp == ArtSpec => []BytesAddUp
<1>1. ArtInv => BytesAddUp
  <2> SUFFICES ASSUME ArtInv PROVE BytesAddUp
    OBVIOUS
  <2>1. ArtTypes /\ KeptOnce
    BY DEF ArtInv
  <2>2. /\ DOMAIN ll = 1..Len(ll) /\ Len(ll) \in Nat
        /\ \A k : k \in m <=> \E i \in 1..Len(ll) : ll[i].key = k
    BY <2>1, KeysIn DEF KeptOnce, ArtTypes
  <2>3. \A i, j \in 1..Len(ll) : ll[i].key = ll[j].key => i = j
    BY <2>1, <2>2 DEF KeptOnce, KeysApart
  <2>4. Cardinality(m) = Len(ll)
    <3>1. PICK I : I = 1..Len(ll)
      OBVIOUS
    <3> DEFINE f == [i \in I |-> ll[i].key]
    <3>2. /\ f \in [I -> m] /\ \A i, j \in I : f[i] = f[j] => i = j
          /\ \A k \in m : \E i \in I : f[i] = k
      BY <2>2, <2>3, <3>1
    <3> HIDE DEF f
    <3>3. f \in Injection(I, m)
      BY <3>2 DEF Injection, IsInjective
    <3>4. f \in Surjection(I, m)
      BY <3>2 DEF Surjection
    <3>5. ExistsBijection(I, m)
      BY <3>3, <3>4 DEF Bijection, ExistsBijection
    <3>6. QED
      BY <2>2, <3>1, <3>5, FS_CountingElements
  <2>5. QED
    BY <2>1, <2>4 DEF BytesAddUp, KeptOnce
<1>2. QED
  BY <1>1, ArtInvHolds, PTL

\* The entries kept are those used last, in the order of their last use: a hit
\* moves one to the front, a put stores in front, eviction takes from the back.
THEOREM TheLatestAreKept == ArtSpec => []KeepsTheLatest
<1>1. ArtInv => KeepsTheLatest
  <2> SUFFICES ASSUME ArtInv PROVE KeepsTheLatest
    OBVIOUS
  <2>1. /\ ll \in Seq(ArtEntry) /\ used \in Seq(Keys) /\ Len(ll) \in Nat /\ Len(used) \in Nat
        /\ DOMAIN ll = 1..Len(ll) /\ \A i \in 1..Len(ll) : ll[i].key \in Keys
    BY KeysIn DEF ArtInv, ArtTypes
  <2>2. Len(ll) <= Len(used) /\ \A i \in 1..Len(ll) : ll[i].key = used[i]
    BY DEF ArtInv, Latest
  <2>3. PICK ks : ks = KeysOf(ll)
    OBVIOUS
  <2>4. ks = [i \in 1..Len(ll) |-> ll[i].key]
    BY <2>1, <2>3 DEF KeysOf
  <2>5. ks \in Seq(Keys) /\ Len(ks) = Len(ll)
    BY <2>1, <2>4
  <2>6. \A i \in 1..Len(ks) : ks[i] = used[i] /\ ks[i] \in Keys
    BY <2>1, <2>2, <2>4, <2>5
  <2>7. PICK n : n = Len(ks)
    OBVIOUS
  <2>8. n \in Nat /\ n <= Len(used) /\ n = Len(ks)
    BY <2>1, <2>2, <2>5, <2>7
  <2>9. /\ SubSeq(ks, 1, n) \in Seq(Keys) /\ Len(SubSeq(ks, 1, n)) = n
        /\ \A i \in 1..n : SubSeq(ks, 1, n)[i] = ks[i]
    BY <2>5, <2>8, CutIn2
  <2>10. /\ SubSeq(used, 1, n) \in Seq(Keys) /\ Len(SubSeq(used, 1, n)) = n
         /\ \A i \in 1..n : SubSeq(used, 1, n)[i] = used[i]
    BY <2>1, <2>8, CutIn2
  <2>11. SubSeq(ks, 1, n) = SubSeq(used, 1, n)
    BY <2>6, <2>8, <2>9, <2>10, SeqEqual
  <2>12. IsPrefix(ks, used)
    BY <2>8, <2>11 DEF IsPrefix
  <2>13. QED
    BY <2>3, <2>12 DEF KeepsTheLatest
<1>2. QED
  BY <1>1, ArtInvHolds, PTL

\* Every entry kept or about to be kept is what Jellyfin once answered for that
\* key, a 404 included, read to its end or to the limit of 8 MB; under a tagged
\* key it is what Jellyfin has, up to that limit.
THEOREM ArtIsWhatJellyfinSaid == ArtSpec => []ArtIsJellyfins
<1>1. ArtInv => ArtIsJellyfins
  <2> SUFFICES ASSUME ArtInv,
                      NEW e \in ToSet(ll) \union {req[r] : r \in {q \in Requests : req[q].at = "store"}}
               PROVE  Answered(e)
    BY DEF ArtIsJellyfins, Answered
  <2>1. CASE e \in ToSet(ll)
    BY <2>1 DEF ArtInv, AreAnswered, ToSet
  <2>2. CASE \E r \in Requests : req[r].at = "store" /\ e = req[r]
    BY <2>2 DEF ArtInv, AreAnswered
  <2>3. QED
    BY <2>1, <2>2
<1>2. QED
  BY <1>1, ArtInvHolds, PTL

-----------------------------------------------------------------------------
(***************************************************************************)
(* The resolver stores the server's id in one step, and it alone does.     *)
(***************************************************************************)
Ref == [found : BOOLEAN, misses : 0..MaxDoublings + 1, left : 0..2^MaxDoublings]

\* A name that is looked up is a person's or a genre's, and not the server's.
LinksInv ==
    /\ refs \in [Names -> Ref]
    /\ resolve = [at |-> resolve.at, due |-> resolve.due, answer |-> resolve.answer]
    /\ resolve.at = "genre" => resolve.due \in Seq(Genres) /\ resolve.due # <<>>
    /\ resolve.at = "person" => resolve.due \in Seq(Persons) /\ resolve.due # <<>>
    /\ StoredIdIsKnown

\* The server's row is neither a person's nor a genre's.
LEMMA TheServerIsNotAName == Server \notin Persons /\ Server \notin Genres
<1>1. SUFFICES ASSUME Server \in Persons \union Genres PROVE FALSE
  OBVIOUS
<1>2. Names = Persons \union Genres
  BY <1>1 DEF Names
<1>3. IsFiniteSet(Persons) /\ IsFiniteSet(Genres)
  <2>1. IsFiniteSet(Names) /\ Persons \subseteq Names /\ Genres \subseteq Names
    BY LinksAssumption DEF Names
  <2>2. QED
    BY <2>1, FS_Subset
<1>4. Cardinality(Names) = Cardinality(Persons) + Cardinality(Genres)
                               - Cardinality(Persons \intersect Genres)
  BY <1>2, <1>3, FS_Union
<1>5. /\ Cardinality(Persons) \in Nat /\ Cardinality(Genres) \in Nat
      /\ Cardinality(Persons \intersect Genres) \in Nat
  BY <1>3, FS_CardinalityType, FS_Intersection
<1>6. Cardinality(Names) = Cardinality(Persons) + Cardinality(Genres) + 1
  BY LinksAssumption
<1>7. QED
  BY <1>4, <1>5, <1>6

\* What is due comes in some order.
LEMMA InSomeOrder ==
    ASSUME NEW S, IsFiniteSet(S)
    PROVE  SetToSeq(S) \in Seq(S) /\ Len(SetToSeq(S)) = Cardinality(S)
<1>1. PICK n \in Nat : n = Cardinality(S)
  BY FS_CardinalityType
<1>2. ExistsBijection(1..n, S)
  BY <1>1, FS_CountingElements, FS_CardinalityType
<1>3. PICK f \in [1..n -> S] : IsInjective(f)
  BY <1>2 DEF ExistsBijection, Bijection, Injection, IsInjective
<1>4. SetToSeq(S) = CHOOSE g \in [1..n -> S] : IsInjective(g)
  BY <1>1 DEF SetToSeq
<1>5. SetToSeq(S) \in [1..n -> S]
  BY <1>3, <1>4
<1>6. QED
  BY <1>1, <1>5

\* The lesser of two numbers.
LEMMA LesserOfTwo ==
    ASSUME NEW a, a \in Int, NEW b, b \in Int, NEW x, x = Min({a, b})
    PROVE  x \in {a, b} /\ x <= a /\ x <= b
<1>1. PICK y \in {a, b} : \A z \in {a, b} : y <= z
  <2>1. a <= b \/ b <= a
    OBVIOUS
  <2>2. QED
    BY <2>1
<1>2. Min({a, b}) = CHOOSE v \in {a, b} : \A z \in {a, b} : v <= z
  BY DEF Min
<1>3. QED
  BY <1>1, <1>2

\* A list of more than one name goes on.
LEMMA TailsGoOn ==
    ASSUME NEW T, NEW s, s \in Seq(T), s # <<>>, Len(s) # 1
    PROVE  Tail(s) \in Seq(T) /\ Tail(s) # <<>>
<1>1. Len(s) \in Nat \ {0, 1}
  OBVIOUS
<1>2. Tail(s) \in Seq(T)
  OBVIOUS
<1>3. Len(Tail(s)) = Len(s) - 1
  OBVIOUS
<1>4. Len(Tail(s)) # 0
  BY <1>1, <1>3
<1>5. Len(<<>>) = 0
  OBVIOUS
<1>6. QED
  BY <1>2, <1>4, <1>5

\* The greater of two numbers.
LEMMA GreaterOfTwo ==
    ASSUME NEW a, a \in Int, NEW b, b \in Int, NEW x, x = Max({a, b})
    PROVE  x \in {a, b} /\ a <= x /\ b <= x
<1>1. PICK y \in {a, b} : \A z \in {a, b} : y >= z
  <2>1. a >= b \/ b >= a
    OBVIOUS
  <2>2. QED
    BY <2>1
<1>2. Max({a, b}) = CHOOSE v \in {a, b} : \A z \in {a, b} : v >= z
  BY DEF Max
<1>3. \A z \in {a, b} : x >= z
  BY <1>1, <1>2
<1>4. x \in {a, b}
  BY <1>1, <1>2
<1>5. QED
  BY <1>3, <1>4

\* Powers of two are numbers and grow: they count subsets.
LEMMA PowersGrow ==
    ASSUME NEW n, n \in Nat, NEW k, k \in 0..n
    PROVE  2^k \in Nat /\ 2^n \in Nat /\ 2^k <= 2^n
<1> DEFINE A == 1..k
           B == 1..n
<1>1. IsFiniteSet(A) /\ IsFiniteSet(B)
  BY FS_Interval
<1>2. Cardinality(A) = k /\ Cardinality(B) = n
  BY FS_Interval
<1>3. IsFiniteSet(SUBSET A) /\ IsFiniteSet(SUBSET B)
  BY <1>1, FS_SUBSET
<1>4. Cardinality(SUBSET A) = 2^k /\ Cardinality(SUBSET B) = 2^n
  BY <1>1, <1>2, FS_SUBSET
<1>5. SUBSET A \subseteq SUBSET B
  OBVIOUS
<1>6. Cardinality(SUBSET A) <= Cardinality(SUBSET B)
  BY <1>3, <1>5, FS_Subset
<1>7. Cardinality(SUBSET A) \in Nat /\ Cardinality(SUBSET B) \in Nat
  BY <1>3, FS_CardinalityType
<1>8. QED
  BY <1>4, <1>6, <1>7

\* Finitely many names are due.
LEMMA DueIsFinite ==
    ASSUME NEW S, S \subseteq Names
    PROVE  IsFiniteSet(DueJFRefs(S)) /\ DueJFRefs(S) \subseteq S
<1>1. DueJFRefs(S) \subseteq S
  BY DEF DueJFRefs
<1>2. QED
  BY <1>1, FS_Subset, LinksAssumption

\* A lookup's outcome leaves the server's row alone.
LEMMA OthersArePut ==
    ASSUME LinksInv, NEW n \in Persons \union Genres, PutJFRef(n) \/ PutJFMiss(n)
    PROVE  refs' \in [Names -> Ref] /\ refs'[Server] = refs[Server]
<1>1. n \in Names /\ Server \in Names /\ n # Server /\ refs \in [Names -> Ref]
  BY TheServerIsNotAName DEF Names, LinksInv
<1>2. CASE PutJFRef(n)
  <2>1. refs' = refs \/ refs' = [refs EXCEPT ![n] = [refs[n] EXCEPT !.found = TRUE]]
    BY <1>2 DEF PutJFRef
  <2>2. [refs[n] EXCEPT !.found = TRUE] \in Ref
    BY <1>1 DEF Ref
  <2>3. QED
    BY <1>1, <2>1, <2>2
<1>3. CASE PutJFMiss(n)
  <2>1. PICK misses : misses = Min({refs[n].misses + 1, MaxDoublings + 1})
    OBVIOUS
  <2>2. refs' = refs \/ refs' = [refs EXCEPT ![n] = [found |-> FALSE, misses |-> misses,
                                                     left |-> Backoff(misses)]]
    BY <1>3, <2>1 DEF PutJFMiss
  <2>3. misses \in 1..MaxDoublings + 1 /\ MaxDoublings \in Nat
    <3>1. refs[n].misses + 1 \in 1..MaxDoublings + 2 /\ MaxDoublings \in Nat
      <4>1. refs[n].misses \in 0..MaxDoublings + 1
        BY <1>1 DEF Ref
      <4>2. QED
        BY <4>1, LinksAssumption
    <3>2. PICK a, b : a = refs[n].misses + 1 /\ b = MaxDoublings + 1
      OBVIOUS
    <3>3. misses = Min({a, b}) /\ a \in Int /\ b \in Int
      BY <2>1, <3>1, <3>2
    <3>4. misses \in {a, b} /\ misses <= b
      BY <3>3, LesserOfTwo, Zenon
    <3>5. a \in Nat \ {0} /\ b = MaxDoublings + 1 /\ b \in Nat \ {0}
      BY <3>1, <3>2
    <3>6. QED
      BY <3>1, <3>4, <3>5
  <2>4. Backoff(misses) \in 0..2^MaxDoublings
    <3>1. PICK k : k = Min({misses - 1, MaxDoublings})
      OBVIOUS
    <3>2. k \in 0..MaxDoublings
      <4>1. PICK a, b : a = misses - 1 /\ b = MaxDoublings
        OBVIOUS
      <4>2. k = Min({a, b}) /\ a \in Nat /\ b \in Nat /\ b = MaxDoublings
            /\ a \in Int /\ b \in Int
        BY <2>3, <3>1, <4>1
      <4>3. k \in {a, b} /\ k <= b
        BY <4>2, LesserOfTwo, Zenon
      <4>4. QED
        BY <4>2, <4>3
    <3>3. Backoff(misses) = 2^k
      BY <3>1 DEF Backoff
    <3>4. 2^k \in Nat /\ 2^MaxDoublings \in Nat /\ 2^k <= 2^MaxDoublings
      BY <2>3, <3>2, PowersGrow
    <3>5. QED
      BY <3>3, <3>4
  <2>5. [found |-> FALSE, misses |-> misses, left |-> Backoff(misses)] \in Ref
    BY <2>3, <2>4 DEF Ref
  <2>6. QED
    BY <1>1, <2>2, <2>5
<1>4. QED
  BY <1>2, <1>3

\* Each step of the resolver keeps its invariant: only the server's own turn and
\* a restart touch what the process knows.
LEMMA LinksStep == LinksInv /\ [LinksNext]_linkVars => LinksInv'
<1> SUFFICES ASSUME LinksInv, [LinksNext]_linkVars PROVE LinksInv'
  OBVIOUS
<1>0. Server \in Names /\ Persons \subseteq Names /\ Genres \subseteq Names
  BY DEF Names
<1>1. CASE UNCHANGED <<refs, resolve, serverId>>
  BY <1>1 DEF LinksInv, StoredIdIsKnown
<1>2. CASE NextDay
  <2>1. \A n \in Names : refs'[n] = [refs[n] EXCEPT !.left = IF @ = 0 THEN 0 ELSE @ - 1]
    BY <1>2 DEF NextDay
  <2>2. ASSUME NEW n \in Names PROVE refs'[n] \in Ref /\ refs'[n].found = refs[n].found
    <3>1. PICK r, left : r = refs[n] /\ left = IF r.left = 0 THEN 0 ELSE r.left - 1
      OBVIOUS
    <3>2. r \in Ref
      BY <3>1 DEF LinksInv
    <3>3. refs'[n] = [r EXCEPT !.left = left]
      BY <2>1, <3>1
    <3>4. left \in 0..2^MaxDoublings
      <4>1. PICK most \in Nat : most = 2^MaxDoublings
        <5>1. MaxDoublings \in Nat /\ MaxDoublings \in 0..MaxDoublings
          BY LinksAssumption
        <5>2. QED
          BY <5>1, PowersGrow
      <4>2. r.left \in 0..most
        BY <3>2, <4>1 DEF Ref
      <4>3. left \in 0..most
        BY <3>1, <4>2
      <4>4. QED
        BY <4>1, <4>3
    <3>5. QED
      BY <3>1, <3>2, <3>3, <3>4 DEF Ref
  <2>3. refs' \in [Names -> Ref]
    BY <1>2, <2>2 DEF NextDay
  <2>4. UNCHANGED <<serverId, resolve>>
    BY <1>2 DEF NextDay
  <2>5. QED
    BY <1>0, <2>2, <2>3, <2>4 DEF LinksInv, StoredIdIsKnown
<1>3. CASE ResolveBegins
  BY <1>3 DEF ResolveBegins, NowAt, NoResolve, LinksInv, StoredIdIsKnown
<1>4. CASE ResolveServer
  <2>1. resolve' = [at |-> "genres", due |-> <<>>, answer |-> {}]
    BY <1>4 DEF ResolveServer, NowAt, NoResolve
  <2>2. \/ UNCHANGED <<refs, serverId>>
        \/ serverId' = TRUE /\ (refs' = refs \/ refs' = [refs EXCEPT ![Server].found = TRUE])
    BY <1>4 DEF ResolveServer, PutJFRef
  <2>3. refs' \in [Names -> Ref]
    BY <1>0, <2>2 DEF LinksInv, Ref
  <2>4. StoredIdIsKnown'
    BY <2>2 DEF LinksInv, StoredIdIsKnown
  <2>5. QED
    BY <2>1, <2>3, <2>4 DEF LinksInv
<1>5. CASE AskGenres
  <2>1. PICK due : due = DueJFRefs(Genres \intersect world.charted)
    OBVIOUS
  <2>2. UNCHANGED <<refs, serverId>>
    BY <1>5 DEF AskGenres
  <2>3. \/ resolve' = [at |-> "people", due |-> <<>>, answer |-> {}]
        \/ due # {} /\ resolve' = [at |-> "genre", due |-> SetToSeq(due), answer |-> world.known]
    BY <1>5, <2>1 DEF AskGenres, NowAt, NoResolve
  <2>4. due \subseteq Genres /\ IsFiniteSet(due)
    BY <1>0, <2>1, DueIsFinite
  <2>5. SetToSeq(due) \in Seq(due) /\ Len(SetToSeq(due)) = Cardinality(due)
    BY <2>4, InSomeOrder
  <2>6. SetToSeq(due) \in Seq(Genres)
    BY <2>4, <2>5
  <2>7. due # {} => SetToSeq(due) # <<>>
    BY <2>4, <2>5, FS_EmptySet
  <2>8. QED
    BY <2>2, <2>3, <2>6, <2>7 DEF LinksInv, StoredIdIsKnown
<1>6. CASE PutGenre
  <2>1. resolve.due \in Seq(Genres) /\ resolve.due # <<>> /\ resolve.at = "genre"
    BY <1>6 DEF PutGenre, LinksInv
  <2>2. PICK n \in Genres : n = Head(resolve.due)
    BY <2>1
  <2>3. (PutJFRef(n) \/ PutJFMiss(n)) /\ UNCHANGED serverId
    BY <1>6, <2>2 DEF PutGenre
  <2>4. refs' \in [Names -> Ref] /\ refs'[Server] = refs[Server]
    BY <2>3, OthersArePut
  <2>5. \/ resolve' = [at |-> "people", due |-> <<>>, answer |-> {}]
        \/ Len(resolve.due) # 1 /\ resolve' = [resolve EXCEPT !.due = Tail(@)]
    BY <1>6 DEF PutGenre, NowAt, NoResolve
  <2>6. Len(resolve.due) # 1 => Tail(resolve.due) \in Seq(Genres) /\ Tail(resolve.due) # <<>>
    BY <2>1, TailsGoOn
  <2>7. QED
    BY <2>1, <2>3, <2>4, <2>5, <2>6, SMTT(30) DEF LinksInv, StoredIdIsKnown
<1>7. CASE AskPeople
  <2>1. PICK all, due, few : /\ all = DueJFRefs(Persons \intersect world.charted)
                             /\ due = SetToSeq(all)
                             /\ few = SubSeq(due, 1, Min({Len(due), LookupsPerRun}))
    OBVIOUS
  <2>2. UNCHANGED <<refs, serverId>>
    BY <1>7 DEF AskPeople
  <2>3. \/ resolve' = [at |-> "idle", due |-> <<>>, answer |-> {}]
        \/ due # <<>> /\ resolve' = [at |-> "person", due |-> few, answer |-> {}]
    BY <1>7, <2>1 DEF AskPeople, Over, NoResolve
  <2>4. all \subseteq Persons /\ IsFiniteSet(all)
    BY <1>0, <2>1, DueIsFinite
  <2>5. due \in Seq(all)
    BY <2>1, <2>4, InSomeOrder
  <2>6. due \in Seq(Persons)
    BY <2>4, <2>5
  <2>7. PICK k : k = Min({Len(due), LookupsPerRun})
    OBVIOUS
  <2>8. due # <<>> => k \in 1..Len(due)
    <3>1. Len(due) \in Nat /\ (due # <<>> => Len(due) # 0) /\ LookupsPerRun \in Nat \ {0}
      BY <2>6, LinksAssumption
    <3>2. PICK a, b : a = Len(due) /\ b = LookupsPerRun
      OBVIOUS
    <3>3. k = Min({a, b}) /\ a \in Int /\ b \in Int
      BY <2>7, <3>1, <3>2
    <3>4. k \in {a, b} /\ k <= a /\ k <= b
      BY <3>3, LesserOfTwo, Zenon
    <3>5. QED
      BY <3>1, <3>2, <3>4
  <2>9. due # <<>> => few \in Seq(Persons) /\ few # <<>>
    <3>1. SUFFICES ASSUME due # <<>> PROVE few \in Seq(Persons) /\ few # <<>>
      OBVIOUS
    <3>2. few = SubSeq(due, 1, k) /\ k \in 1..Len(due)
      BY <2>1, <2>7, <2>8, <3>1
    <3>3. \A i \in 1..k : due[i] \in Persons
      BY <2>6, <3>2
    <3>4. few \in Seq(Persons) /\ Len(few) = k
      BY <2>6, <3>2, <3>3
    <3>5. QED
      BY <3>2, <3>4
  <2>10. QED
    BY <2>2, <2>3, <2>9 DEF LinksInv, StoredIdIsKnown
<1>8. CASE LookUp
  <2>1. resolve.due \in Seq(Persons) /\ resolve.due # <<>> /\ resolve.at = "person"
    BY <1>8 DEF LookUp, LinksInv
  <2>2. PICK n \in Persons : n = Head(resolve.due)
    BY <2>1
  <2>3. UNCHANGED serverId
    BY <1>8 DEF LookUp
  <2>4. UNCHANGED refs \/ PutJFRef(n) \/ PutJFMiss(n)
    BY <1>8, <2>2 DEF LookUp
  <2>5. refs' \in [Names -> Ref] /\ refs'[Server] = refs[Server]
    BY <2>4, OthersArePut DEF LinksInv
  <2>6. \/ resolve' = [at |-> "idle", due |-> <<>>, answer |-> {}]
        \/ Len(resolve.due) # 1 /\ resolve' = [resolve EXCEPT !.due = Tail(@)]
    BY <1>8 DEF LookUp, Over, NoResolve
  <2>7. Len(resolve.due) # 1 => Tail(resolve.due) \in Seq(Persons) /\ Tail(resolve.due) # <<>>
    BY <2>1, TailsGoOn
  <2>8. StoredIdIsKnown'
    BY <2>3, <2>5 DEF LinksInv, StoredIdIsKnown
  <2>9. CASE resolve' = [at |-> "idle", due |-> <<>>, answer |-> {}]
    BY <2>5, <2>8, <2>9 DEF LinksInv
  <2>10. CASE Len(resolve.due) # 1 /\ resolve' = [resolve EXCEPT !.due = Tail(@)]
    <3>1. resolve' = [at |-> "person", due |-> Tail(resolve.due), answer |-> resolve.answer]
      BY <2>1, <2>10 DEF LinksInv
    <3>2. Tail(resolve.due) \in Seq(Persons) /\ Tail(resolve.due) # <<>>
      BY <2>7, <2>10
    <3>3. QED
      BY <2>5, <2>8, <3>1, <3>2 DEF LinksInv
  <2>11. QED
    BY <2>6, <2>9, <2>10
<1>9. CASE ProcessRestarts
  BY <1>9 DEF ProcessRestarts, Boot, NoResolve, LinksInv, StoredIdIsKnown
<1>10. QED
  BY <1>1, <1>2, <1>3, <1>4, <1>5, <1>6, <1>7, <1>8, <1>9
     DEF LinksNext, ResolveSteps, NewPlays, Turn, linkVars

\* The inductive invariant of the resolver.
LEMMA LinksInvariant == LinksSpec => []LinksInv
<1>1. LinksInit => LinksInv
  <2>1. Server \in Names
    BY DEF Names
  <2>2. 0 \in 0..MaxDoublings + 1 /\ 0 \in 0..2^MaxDoublings
    <3>1. MaxDoublings \in Nat /\ MaxDoublings \in 0..MaxDoublings
      BY LinksAssumption
    <3>2. 2^MaxDoublings \in Nat
      BY <3>1, PowersGrow
    <3>3. QED
      BY <3>1, <3>2
  <2>3. NoRef \in Ref
    BY <2>2 DEF NoRef, Ref
  <2>4. QED
    BY <2>1, <2>3 DEF LinksInit, LinksInv, StoredIdIsKnown, NoRef, NoResolve
<1>2. QED
  BY <1>1, LinksStep, PTL DEF LinksSpec

\* Once the server's id is stored, which ends the asking for it, the process has
\* it for its links, through failed writes and restarts, with any names, any
\* cap on the lookups and any worlds.
THEOREM TheStoredIdIsKnown == LinksSpec => []StoredIdIsKnown
<1>1. LinksInv => StoredIdIsKnown
  BY DEF LinksInv
<1>2. QED
  BY <1>1, LinksInvariant, PTL

\* How long the list of a run may be: all genres at once, or the lookups of a run.
LongestList == Max({LookupsPerRun, Cardinality(Genres)})

LinksTypes ==
    /\ world \in Worlds
    /\ serverId \in BOOLEAN /\ news \in BOOLEAN /\ ranToday \in BOOLEAN
    /\ resolve.at \in {"idle", "server", "genres", "genre", "people", "person"}
    /\ Len(resolve.due) <= LongestList

\* What that length is.
LEMMA LongestListIs ==
    /\ LongestList \in Nat
    /\ LookupsPerRun <= LongestList /\ Cardinality(Genres) <= LongestList
    /\ IsFiniteSet(Genres)
<1>1. IsFiniteSet(Genres)
  <2>1. Genres \subseteq Names /\ IsFiniteSet(Names)
    BY LinksAssumption DEF Names
  <2>2. QED
    BY <2>1, FS_Subset
<1>2. Cardinality(Genres) \in Nat /\ LookupsPerRun \in Nat
  BY <1>1, FS_CardinalityType, LinksAssumption
<1>3. PICK a, b : a = LookupsPerRun /\ b = Cardinality(Genres)
  OBVIOUS
<1>4. LongestList = Max({a, b}) /\ a \in Int /\ b \in Int
  BY <1>2, <1>3 DEF LongestList
<1>5. LongestList \in {a, b} /\ a <= LongestList /\ b <= LongestList
  BY <1>4, GreaterOfTwo, Zenon
<1>6. QED
  BY <1>1, <1>2, <1>3, <1>5

\* Each step of the resolver keeps its types.
LEMMA LinksTypesStep == LinksInv /\ LinksTypes /\ [LinksNext]_linkVars => LinksTypes'
<1> SUFFICES ASSUME LinksInv, LinksTypes, [LinksNext]_linkVars PROVE LinksTypes'
  OBVIOUS
<1>0. /\ 0 <= LongestList /\ Len(<<>>) = 0 /\ LongestList \in Nat
      /\ resolve = [at |-> resolve.at, due |-> resolve.due, answer |-> resolve.answer]
  BY LongestListIs DEF LinksInv
<1>1. CASE UNCHANGED linkVars
  BY <1>1 DEF linkVars, LinksTypes
<1>2. CASE NextDay
  BY <1>2 DEF NextDay, LinksTypes
<1>3. CASE Turn \/ NewPlays
  BY <1>3 DEF Turn, NewPlays, LinksTypes
<1>4. CASE ResolveBegins
  BY <1>0, <1>4 DEF ResolveBegins, NowAt, NoResolve, LinksTypes
<1>5. CASE ResolveServer
  BY <1>0, <1>5 DEF ResolveServer, NowAt, NoResolve, LinksTypes
<1>6. CASE AskGenres
  <2>1. PICK due : due = DueJFRefs(Genres \intersect world.charted)
    OBVIOUS
  <2>2. \/ resolve' = [at |-> "people", due |-> <<>>, answer |-> {}]
        \/ resolve' = [at |-> "genre", due |-> SetToSeq(due), answer |-> world.known]
    BY <1>6, <2>1 DEF AskGenres, NowAt, NoResolve
  <2>3. due \subseteq Genres /\ IsFiniteSet(due)
    BY <2>1, DueIsFinite DEF Names
  <2>4. Len(SetToSeq(due)) = Cardinality(due)
    BY <2>3, InSomeOrder
  <2>5. Cardinality(due) <= Cardinality(Genres)
    BY <2>3, LongestListIs, FS_Subset
  <2>6. Cardinality(due) \in Nat /\ Cardinality(Genres) \in Nat
    BY <2>3, LongestListIs, FS_CardinalityType
  <2>7. Len(SetToSeq(due)) <= LongestList
    BY <2>4, <2>5, <2>6, LongestListIs
  <2>8. QED
    BY <1>0, <1>6, <2>2, <2>7 DEF AskGenres, LinksTypes
<1>7. ASSUME NEW T, resolve.due \in Seq(T), resolve.due # <<>>,
             resolve' = [resolve EXCEPT !.due = Tail(@)]
      PROVE  resolve'.at = resolve.at /\ Len(resolve'.due) <= LongestList
  <2>1. resolve' = [at |-> resolve.at, due |-> Tail(resolve.due), answer |-> resolve.answer]
    BY <1>0, <1>7
  <2>2. Len(Tail(resolve.due)) = Len(resolve.due) - 1 /\ Len(resolve.due) \in Nat
    BY <1>7
  <2>3. QED
    BY <1>0, <2>1, <2>2 DEF LinksTypes
<1>8. CASE PutGenre
  <2>1. resolve.due \in Seq(Genres) /\ resolve.due # <<>> /\ resolve.at = "genre"
    BY <1>8 DEF PutGenre, LinksInv
  <2>2. \/ resolve' = [at |-> "people", due |-> <<>>, answer |-> {}]
        \/ resolve' = [resolve EXCEPT !.due = Tail(@)]
    BY <1>8 DEF PutGenre, NowAt, NoResolve
  <2>3. resolve'.at \in {"people", "genre"} /\ Len(resolve'.due) <= LongestList
    BY <1>0, <1>7, <2>1, <2>2
  <2>4. QED
    BY <1>8, <2>3 DEF PutGenre, LinksTypes
<1>9. CASE AskPeople
  <2>1. PICK all, due, few : /\ all = DueJFRefs(Persons \intersect world.charted)
                             /\ due = SetToSeq(all)
                             /\ few = SubSeq(due, 1, Min({Len(due), LookupsPerRun}))
    OBVIOUS
  <2>2. \/ resolve' = [at |-> "idle", due |-> <<>>, answer |-> {}] /\ ranToday' = TRUE
        \/ /\ resolve' = [at |-> "person", due |-> few, answer |-> {}]
           /\ ranToday' = ranToday
    BY <1>9, <2>1 DEF AskPeople, Over, NoResolve
  <2>3. all \subseteq Persons /\ IsFiniteSet(all)
    BY <2>1, DueIsFinite DEF Names
  <2>4. due \in Seq(all)
    BY <2>1, <2>3, InSomeOrder
  <2>5. PICK k : k = Min({Len(due), LookupsPerRun})
    OBVIOUS
  <2>6. k \in Nat /\ k <= LookupsPerRun /\ k <= Len(due)
    <3>1. Len(due) \in Nat /\ LookupsPerRun \in Nat
      BY <2>4, LinksAssumption
    <3>2. PICK a, b : a = Len(due) /\ b = LookupsPerRun
      OBVIOUS
    <3>3. k = Min({a, b}) /\ a \in Int /\ b \in Int
      BY <2>5, <3>1, <3>2
    <3>4. k \in {a, b} /\ k <= a /\ k <= b
      BY <3>3, LesserOfTwo, Zenon
    <3>5. QED
      BY <3>1, <3>2, <3>4
  <2>7. few = SubSeq(due, 1, k)
    BY <2>1, <2>5
  <2>8. Len(few) = k
    BY <2>4, <2>6, <2>7
  <2>9. Len(few) <= LongestList
    <3>1. LookupsPerRun \in Nat
      BY LinksAssumption
    <3>2. QED
      BY <2>6, <2>8, <3>1, LongestListIs
  <2>10. resolve'.at \in {"idle", "person"} /\ Len(resolve'.due) <= LongestList
    <3>1. CASE resolve' = [at |-> "idle", due |-> <<>>, answer |-> {}]
      <4>1. resolve'.at = "idle" /\ resolve'.due = <<>>
        BY <3>1
      <4>2. QED
        BY <1>0, <4>1
    <3>2. CASE resolve' = [at |-> "person", due |-> few, answer |-> {}]
      <4>1. resolve'.at = "person" /\ resolve'.due = few
        BY <3>2
      <4>2. QED
        BY <2>9, <4>1
    <3>3. QED
      BY <2>2, <3>1, <3>2
  <2>11. ranToday' \in BOOLEAN
    BY <2>2 DEF LinksTypes
  <2>12. QED
    BY <1>9, <2>10, <2>11 DEF AskPeople, LinksTypes
<1>10. CASE LookUp
  <2>1. resolve.due \in Seq(Persons) /\ resolve.due # <<>> /\ resolve.at = "person"
    BY <1>10 DEF LookUp, LinksInv
  <2>2. \/ resolve' = [at |-> "idle", due |-> <<>>, answer |-> {}] /\ ranToday' = TRUE
        \/ resolve' = [resolve EXCEPT !.due = Tail(@)] /\ ranToday' = ranToday
    BY <1>10 DEF LookUp, Over, NoResolve
  <2>3. resolve'.at \in {"idle", "person"} /\ Len(resolve'.due) <= LongestList
        /\ ranToday' \in BOOLEAN
    <3>1. CASE resolve' = [at |-> "idle", due |-> <<>>, answer |-> {}] /\ ranToday' = TRUE
      <4>1. resolve'.at = "idle" /\ resolve'.due = <<>>
        BY <3>1
      <4>2. QED
        BY <1>0, <3>1, <4>1
    <3>2. CASE resolve' = [resolve EXCEPT !.due = Tail(@)] /\ ranToday' = ranToday
      <4>1. resolve'.at = resolve.at /\ Len(resolve'.due) <= LongestList
        BY <1>7, <2>1, <3>2
      <4>2. ranToday' \in BOOLEAN
        BY <3>2 DEF LinksTypes
      <4>3. QED
        BY <2>1, <4>1, <4>2
    <3>3. QED
      BY <2>2, <3>1, <3>2
  <2>4. QED
    BY <1>10, <2>3 DEF LookUp, LinksTypes
<1>11. CASE ProcessRestarts
  <2>1. refs[Server].found \in BOOLEAN
    <3>1. Server \in Names
      BY DEF Names
    <3>2. refs[Server] \in Ref
      BY <3>1 DEF LinksInv
    <3>3. QED
      BY <3>2 DEF Ref
  <2>2. QED
    BY <1>0, <1>11, <2>1 DEF ProcessRestarts, Boot, NoResolve, LinksTypes
<1>12. QED
  BY <1>1, <1>2, <1>3, <1>4, <1>5, <1>6, <1>8, <1>9, <1>10, <1>11
     DEF LinksNext, ResolveSteps

\* The resolver's types: no wait is longer than the last doubling, whatever was
\* missed, and no run looks up more names than it may.
THEOREM LinksTypeCorrect == LinksSpec => []LinksTypeOK
<1>1. LinksInit => LinksTypes
  <2>1. 0 <= LongestList /\ Len(<<>>) = 0
    BY LongestListIs
  <2>2. NoResolve.at = "idle" /\ NoResolve.due = <<>>
    BY DEF NoResolve
  <2>3. LinksInit => resolve.at = "idle" /\ Len(resolve.due) <= LongestList
    BY <2>1, <2>2 DEF LinksInit
  <2>4. LinksInit => /\ world \in Worlds /\ serverId \in BOOLEAN
                     /\ news \in BOOLEAN /\ ranToday \in BOOLEAN
    BY DEF LinksInit
  <2>5. QED
    BY <2>3, <2>4 DEF LinksTypes
<1>2. LinksInv /\ LinksTypes => LinksTypeOK
  BY DEF LinksInv, LinksTypes, LinksTypeOK, Ref, LongestList
<1>3. QED
  BY <1>1, <1>2, LinksTypesStep, LinksInvariant, PTL DEF LinksSpec
=============================================================================
