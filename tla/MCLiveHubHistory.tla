-------------------------- MODULE MCLiveHubHistory -------------------------
(* The Now Playing subsystem twice, of which a behaviour follows one: with   *)
(* its history, for as many publications as the log has room for ("log"),    *)
(* and without it, for any number of them ("any").  When the log is full,    *)
(* the poll loops rest and the streams go on.                                *)
EXTENDS LiveHubHistory, TLC

VARIABLE part

MCInit == part \in {"log", "any"} /\ LInit

MCNext ==
    /\ UNCHANGED part
    /\ \/ part = "log" /\ LNext /\ (Len(log) = MaxLog => UNCHANGED poll)
       \/ part = "any" /\ Next /\ UNCHANGED history

MCSpec == MCInit /\ [][MCNext]_<<part, lvars>>

\* Connections are alike, and so are loops.
Alike == Permutations(Conns) \cup Permutations(Loops)
=============================================================================
