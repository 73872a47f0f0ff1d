------------------------------ MODULE PageHook ------------------------------
(***************************************************************************)
(* The Now Playing page (useNowPlaying, web/src/live/useNowPlaying.ts).    *)
(* It asks once for the snapshot and listens to the stream, and does both  *)
(* again whenever its tab comes into view.  An answer may come late; a     *)
(* stream gives its frames in order until it breaks off, whereupon the     *)
(* browser connects it again, or gives it up if it is refused with a       *)
(* status.                                                                 *)
(*                                                                         *)
(* The hub may hold anything at any time: a request stores what it fetched *)
(* and publishes nothing.  So a request, and a stream's first frame, bring *)
(* any snapshot, the hub publishes what it likes, and a stream's handler   *)
(* subscribes before it asks for the first frame, in front of which no     *)
(* publication is sent.  (What the hub does hold and publish is LiveHub's.)*)
(***************************************************************************)
EXTENDS Naturals, FiniteSets, Sequences

CONSTANTS
    Calls,       \* bound: requests for the snapshot under way at once
    Sources,     \* bound: EventSource objects at once
    NoSource,    \* esRef.current is null
    FrameCap,    \* frames under way to a viewer
    MaxVersion   \* bound: how many pictures of the sessions there are

ASSUME HookAssumption ==
    NoSource \notin Sources /\ FrameCap \in Nat \ {0} /\ MaxVersion \in Nat \ {0}

VARIABLES
    hidden,  \* document.hidden
    mounted,
    es,      \* esRef.current
    stream,  \* source -> its state and the frames under way
    call,    \* request -> whether it is under way, and for the first paint
    base,    \* the version shown, 0 for none
    degraded,
    conn,
    from,    \* history: what base and conn were last set by
    sent     \* history: source -> what was published since it last subscribed, while its
             \* stream stands: the last update's version, 0 for none, and whether the hub
             \* degraded after it

hookVars == <<hidden, mounted, es, stream, call, base, degraded, conn, from, sent>>

Closed == [at |-> "closed", frames |-> <<>>]
Connecting == [at |-> "connecting", frames |-> <<>>]
Dead == [at |-> "dead", frames |-> <<>>]
OpenWith(frames) == [at |-> "open", frames |-> frames]
NoCall == [at |-> "none"]
Snapshots == [kind : {"snapshot"}, v : 1..MaxVersion, degraded : BOOLEAN]
Updates == [kind : {"update"}, v : 1..MaxVersion, degraded : {FALSE}]
Degraded == [kind |-> "degraded"]
Ended == [kind |-> "end"]
Nothing == [v |-> 0, degraded |-> FALSE]
Shown == <<base, degraded, conn, from>>

HookTypeOK ==
    /\ hidden \in BOOLEAN /\ mounted \in BOOLEAN
    /\ es \in Sources \union {NoSource}
    /\ stream \in [Sources -> [at : {"closed", "connecting", "subscribed", "open", "dead"},
                              frames : Seq(Snapshots \union Updates \union {Degraded, Ended})]]
    /\ \A s \in Sources :
           /\ stream[s].at \notin {"subscribed", "open"} => stream[s].frames = <<>>
           /\ Len(stream[s].frames) <= FrameCap + 2
    /\ call \in [Calls -> {NoCall} \union [at : {"sent"}, first : BOOLEAN]]
    /\ base \in 0..MaxVersion /\ degraded \in BOOLEAN
    /\ conn \in {"connecting", "live", "reconnecting"}
    /\ from \in {"nothing", "frame", "call"}
    /\ sent \in [Sources -> [v : 0..MaxVersion, degraded : BOOLEAN]]

HookInit ==
    /\ hidden \in BOOLEAN /\ mounted = FALSE
    /\ es = NoSource
    /\ stream = [s \in Sources |-> Closed]
    /\ call = [c \in Calls |-> NoCall]
    /\ base = 0 /\ degraded = FALSE /\ conn = "connecting" /\ from = "nothing"
    /\ sent = [s \in Sources |-> Nothing]

-----------------------------------------------------------------------------
\* The stream has subscribed and nothing cuts it off.
Stands(s) ==
    /\ stream[s].at \in {"subscribed", "open"}
    /\ Ended \notin {stream[s].frames[i] : i \in DOMAIN stream[s].frames}

Note(p) == sent' = [s \in Sources |-> IF Stands(s)' THEN p[s] ELSE Nothing]

\* The hub publishes to those who have subscribed, and drops who is too slow.
Send(f) ==
    stream' = [s \in Sources |->
        IF ~Stands(s) THEN stream[s]
        ELSE [stream[s] EXCEPT !.frames = Append(@, IF Len(@) >= FrameCap THEN Ended ELSE f)]]

Page == <<hidden, mounted, es, call, Shown>>

Publish ==
    \E f \in Updates :
        /\ Send(f)
        /\ Note([s \in Sources |-> [v |-> f.v, degraded |-> FALSE]])
        /\ UNCHANGED Page

Degrade ==
    /\ Send(Degraded)
    /\ Note([s \in Sources |-> [sent[s] EXCEPT !.degraded = TRUE]])
    /\ UNCHANGED Page

-----------------------------------------------------------------------------
\* A mistake in open: the old stream is not closed.
Forget == stream

\* es.close(): nothing is heard of it afterwards.
CloseSource == IF es = NoSource THEN stream ELSE [stream EXCEPT ![es] = Closed]

Open ==
    \E s \in {t \in Sources : CloseSource[t] = Closed} :
        /\ es' = s
        /\ stream' = [CloseSource EXCEPT ![s] = Connecting]

\* A request; first: that of the first paint.
AskSnapshot(first) ==
    \E c \in Calls :
        call[c] = NoCall /\ call' = [call EXCEPT ![c] = [at |-> "sent", first |-> first]]

Mount ==
    /\ ~mounted /\ mounted' = TRUE
    /\ AskSnapshot(TRUE) /\ Open
    /\ base' = 0 /\ degraded' = FALSE /\ conn' = "connecting" /\ from' = "nothing"
    /\ Note(sent)
    /\ UNCHANGED hidden

\* What is still to come is for nobody.
Unmount ==
    /\ mounted /\ mounted' = FALSE
    /\ stream' = CloseSource /\ es' = NoSource
    /\ call' = [c \in Calls |-> NoCall]
    /\ Note(sent)
    /\ UNCHANGED <<hidden, Shown>>

Hide ==
    /\ ~hidden /\ hidden' = TRUE
    /\ IF mounted THEN stream' = CloseSource /\ es' = NoSource /\ conn' = "connecting"
       ELSE UNCHANGED <<stream, es, conn>>
    /\ Note(sent)
    /\ UNCHANGED <<mounted, call, base, degraded, from>>

Show ==
    /\ hidden /\ hidden' = FALSE
    /\ IF mounted THEN AskSnapshot(FALSE) /\ Open ELSE UNCHANGED <<call, es, stream>>
    /\ Note(sent)
    /\ UNCHANGED <<mounted, Shown>>

-----------------------------------------------------------------------------
\* A mistake in applySnapshot: the flag is left as it is.
ApplyKeepsFlag(f, by) ==
    base' = f.v /\ conn' = "live" /\ from' = by /\ UNCHANGED degraded

applySnapshot(f, by) ==
    base' = f.v /\ degraded' = f.degraded /\ conn' = "live" /\ from' = by

\* The answer was made at any time since the request, and is of then.
Arrive(c) ==
    /\ call[c].at = "sent"
    /\ \E f \in Snapshots : applySnapshot(f, "call")
    /\ call' = [call EXCEPT ![c] = NoCall]
    /\ UNCHANGED <<hidden, mounted, es, stream, sent>>

\* Only the first request's failure is shown.
CallFails(c) ==
    /\ call[c].at = "sent"
    /\ IF call[c].first THEN conn' = "reconnecting" /\ from' = "call" ELSE UNCHANGED <<conn, from>>
    /\ call' = [call EXCEPT ![c] = NoCall]
    /\ UNCHANGED <<hidden, mounted, es, stream, base, degraded, sent>>

\* The stream's handler subscribes; what is published now waits for it.
Subscribe(s) ==
    /\ stream[s].at = "connecting"
    /\ stream' = [stream EXCEPT ![s].at = "subscribed"]
    /\ sent' = [sent EXCEPT ![s] = Nothing]
    /\ UNCHANGED Page

\* It has a snapshot, and sends it in front of what waits.
FirstFrame(s) ==
    /\ stream[s].at = "subscribed"
    /\ \E f \in Snapshots :
           stream' = [stream EXCEPT ![s] = OpenWith(<<f>> \o stream[s].frames)]
    /\ UNCHANGED <<Page, sent>>

\* onerror before the response: it is tried again, or not when an HTTP status
\* refused it.
Refuse(s) ==
    /\ \/ /\ stream[s].at = "connecting"
          /\ \E left \in {Connecting, Dead} : stream' = [stream EXCEPT ![s] = left]
       \/ /\ stream[s].at = "subscribed"
          /\ stream' = [stream EXCEPT ![s] = Connecting]
    /\ conn' = "reconnecting" /\ Note(sent)
    /\ UNCHANGED <<hidden, mounted, es, call, base, degraded, from>>

\* The connection is lost with what was under way.
Break(s) ==
    /\ stream[s].at = "open"
    /\ stream' = [stream EXCEPT ![s] = OpenWith(<<Ended>>)]
    /\ Note(sent)
    /\ UNCHANGED Page

Hear(s) ==
    /\ stream[s].at = "open" /\ stream[s].frames # <<>>
    /\ LET f == Head(stream[s].frames)
           rest == OpenWith(Tail(stream[s].frames))
       IN  \/ /\ f.kind \in {"snapshot", "update"}
              /\ applySnapshot(f, "frame")
              /\ stream' = [stream EXCEPT ![s] = rest]
           \/ /\ f.kind = "degraded" /\ degraded' = TRUE
              /\ stream' = [stream EXCEPT ![s] = rest]
              /\ UNCHANGED <<base, conn, from>>
           \/ /\ f.kind = "end" /\ conn' = "reconnecting"
              /\ stream' = [stream EXCEPT ![s] = Connecting]
              /\ UNCHANGED <<base, degraded, from>>
    /\ UNCHANGED <<hidden, mounted, es, call, sent>>

HookNext ==
    \/ Publish \/ Degrade
    \/ Mount \/ Unmount \/ Hide \/ Show
    \/ \E c \in Calls : Arrive(c) \/ CallFails(c)
    \/ \E s \in Sources :
           Subscribe(s) \/ FirstFrame(s) \/ Refuse(s) \/ Break(s) \/ Hear(s)

HookSpec == HookInit /\ [][HookNext]_hookVars

-----------------------------------------------------------------------------
(***************************************************************************)
(* Properties                                                              *)
(***************************************************************************)
\* No stream is left behind, with a subscription at the hub that keeps Jellyfin
\* polled: the one that may be open is the one that the hook will close.
NoStreamLeftBehind == \A s \in Sources : stream[s] # Closed => mounted /\ s = es

\* A page that has heard all of a stream that stands, and nothing from a request
\* later, shows the last update that was published since the stream subscribed,
\* degraded if the hub degraded after it, whatever the first frame was and
\* however it overlapped with them, and whatever was shown before.
HeardIsShown ==
    \A s \in Sources : stream[s] = OpenWith(<<>>) /\ from = "frame" =>
        /\ conn = "live"
        /\ sent[s].v # 0 => base = sent[s].v
        /\ sent[s] # Nothing => degraded = sent[s].degraded
=============================================================================
