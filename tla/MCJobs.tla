------------------------------- MODULE MCJobs -------------------------------
(* Two instances side by side, of which a behaviour follows one: the library *)
(* job by itself, with a database that changes under it, and the loop with   *)
(* its two jobs, over a database that stays as it is.                        *)
EXTENDS Scheduler

VARIABLE part

JobsInit == part \in {"library", "loop"} /\ SchedulerInit

RestOfLoop == <<watchVars, loopVars, crashes, upgraded, history>>

JobsNext ==
    /\ UNCHANGED part
    /\ \/ part = "library" /\ Next /\ UNCHANGED RestOfLoop
       \/ part = "loop" /\ UNCHANGED source /\ SchedulerNext

JobsSpec == JobsInit /\ [][JobsNext]_<<part, schedulerVars>> /\ SchedulerFairness
=============================================================================
