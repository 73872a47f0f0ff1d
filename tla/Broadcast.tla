----------------------------- MODULE Broadcast -----------------------------
(***************************************************************************)
(* What the hub's Subscribe / Publish pair promises, without channels,     *)
(* maps or loops: there is one log of events; a member sees the events     *)
(* that follow its joining, in order and without a gap, up to the moment   *)
(* it is cut off.  A member that lags is cut off; it never misses an event *)
(* and sees the next one.                                                  *)
(***************************************************************************)
EXTENDS Naturals, Sequences

CONSTANTS Conns, Events

VARIABLES
    log,    \* every event published so far
    state,  \* a member is out, in, cut off, or has left
    from,   \* how long the log was when the member joined
    till,   \* how long it was when the member was cut off
    seen    \* what the member has seen

bvars == <<log, state, from, till, seen>>

BInit ==
    /\ log = <<>>
    /\ state = [c \in Conns |-> "out"]
    /\ from = [c \in Conns |-> 0]
    /\ till = [c \in Conns |-> 0]
    /\ seen = [c \in Conns |-> <<>>]

Join(c) ==
    /\ state[c] = "out"
    /\ state' = [state EXCEPT ![c] = "in"]
    /\ from' = [from EXCEPT ![c] = Len(log)]
    /\ UNCHANGED <<log, till, seen>>

\* Members may be cut off when an event is published, or at any other moment;
\* what was published before is still theirs to see.
CutOff(S) ==
    /\ \A c \in S : state[c] = "in"
    /\ state' = [c \in Conns |-> IF c \in S THEN "cut" ELSE state[c]]
    /\ till' = [c \in Conns |-> IF c \in S THEN Len(log) ELSE till[c]]

Announce(ev) ==
    /\ log' = Append(log, ev)
    /\ \E S \in SUBSET Conns : CutOff(S)
    /\ UNCHANGED <<from, seen>>

Shut ==
    /\ \E S \in SUBSET Conns : CutOff(S)
    /\ UNCHANGED <<log, from, seen>>

Owed(c) == IF state[c] = "in" THEN Len(log) ELSE till[c]

See(c) ==
    /\ state[c] \in {"in", "cut"}
    /\ from[c] + Len(seen[c]) < Owed(c)
    /\ seen' = [seen EXCEPT ![c] = Append(@, log[from[c] + Len(@) + 1])]
    /\ UNCHANGED <<log, state, from, till>>

Leave(c) ==
    /\ state[c] \in {"in", "cut"}
    /\ state' = [state EXCEPT ![c] = "left"]
    /\ UNCHANGED <<log, from, till, seen>>

BNext ==
    \/ \E c \in Conns : Join(c) \/ See(c) \/ Leave(c)
    \/ Shut
    \/ \E ev \in Events : Announce(ev)

BSpec == BInit /\ [][BNext]_bvars
=============================================================================
