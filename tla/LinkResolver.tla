---------------------------- MODULE LinkResolver ----------------------------
(***************************************************************************)
(* The resolver of names (internal/scheduler/refs.go and dim_jf_ref,       *)
(* internal/store/refs.go), which ends every run of the watch job that is  *)
(* not skipped: it looks up in Jellyfin the ids of the people and genres   *)
(* that charted, a few names a run, asks for an unknown name ever more     *)
(* rarely, and gives up for this time at the first error.  A run is        *)
(* skipped when the plugin's file has not changed since the last one.      *)
(***************************************************************************)
EXTENDS Naturals, FiniteSets, FiniteSetsExt, Sequences, SequencesExt

CONSTANTS
    Persons, Genres,  \* names
    Server,           \* the row of the server's id
    Worlds,           \* [known, charted, faulty]: the names that Jellyfin has, those
                      \* on the charts, and what goes wrong: the lookup of a name,
                      \* of the genres or of the server, or a write of "dim_jf_ref"
    MaxDoublings,     \* 6: after the 7th miss the wait is 64 days
    LookupsPerRun     \* refLookupsPerRun: 200

Names == Persons \union Genres \union {Server}

ASSUME LinksAssumption ==
    /\ IsFiniteSet(Names) /\ Cardinality(Names) = Cardinality(Persons) + Cardinality(Genres) + 1
    /\ MaxDoublings \in Nat /\ LookupsPerRun \in Nat \ {0}

VARIABLES
    world,
    refs,     \* dim_jf_ref: name -> whether it has an id, its misses, the days of its wait left
    serverId, \* whether the links' server id is known to the process
    news,     \* whether the next run of the watch job is not skipped
    resolve,  \* the resolver's run
    ranToday  \* history: whether a run of the resolver has ended today

linkVars == <<world, refs, serverId, news, resolve, ranToday>>

NoRef == [found |-> FALSE, misses |-> 0, left |-> 0]
NoResolve == [at |-> "idle", due |-> <<>>, answer |-> {}]

LinksTypeOK ==
    /\ world \in Worlds
    /\ refs \in [Names -> [found : BOOLEAN, misses : 0..MaxDoublings + 1, left : 0..2^MaxDoublings]]
    /\ serverId \in BOOLEAN /\ news \in BOOLEAN /\ ranToday \in BOOLEAN
    /\ resolve.at \in {"idle", "server", "genres", "genre", "people", "person"}
    /\ Len(resolve.due) <= Max({LookupsPerRun, Cardinality(Genres)})

LinksInit ==
    /\ world \in Worlds
    /\ refs = [n \in Names |-> NoRef]
    /\ serverId = FALSE /\ news = TRUE /\ resolve = NoResolve /\ ranToday = FALSE

-----------------------------------------------------------------------------
Turn == world' \in Worlds \ {world} /\ UNCHANGED <<refs, serverId, news, resolve, ranToday>>

\* The plugin has written to its file, or a run has failed: it is not skipped.
NewPlays ==
    /\ ~news /\ news' = TRUE
    /\ UNCHANGED <<world, refs, serverId, resolve, ranToday>>

NextDay ==
    /\ resolve.at = "idle"
    /\ refs' = [n \in Names |-> [refs[n] EXCEPT !.left = IF @ = 0 THEN 0 ELSE @ - 1]]
    /\ ranToday' = FALSE
    /\ UNCHANGED <<world, serverId, news, resolve>>

NowAt(at) == resolve' = [NoResolve EXCEPT !.at = at]
Over == resolve' = NoResolve /\ ranToday' = TRUE
Faulty(x) == x \in world.faulty

DueJFRefs(names) == {n \in names : ~refs[n].found /\ refs[n].left = 0}

PutJFRef(n) ==
    refs' = IF Faulty("dim_jf_ref") THEN refs ELSE [refs EXCEPT ![n].found = TRUE]

\* A mistake in DueJFRefs: the wait is always a day.
BackoffFlat(misses) == 1

\* 1, 2, 4, ... days after the first, second, third ... miss in a row.
Backoff(misses) == 2^Min({misses - 1, MaxDoublings})

\* Misses are not counted here beyond the last that makes a difference.
PutJFMiss(n) ==
    LET misses == Min({refs[n].misses + 1, MaxDoublings + 1})
    IN  refs' = IF Faulty("dim_jf_ref") THEN refs
                ELSE [refs EXCEPT ![n] = [found |-> FALSE, misses |-> misses,
                                          left |-> Backoff(misses)]]

\* A run of the watch job comes so far only if it is not skipped.
ResolveBegins ==
    /\ news /\ news' = FALSE
    /\ resolve.at = "idle" /\ NowAt("server")
    /\ UNCHANGED <<world, refs, serverId, ranToday>>

\* The id goes to the process too, and is asked for again if it was not stored.
ResolveServer ==
    /\ resolve.at = "server" /\ NowAt("genres")
    /\ IF DueJFRefs({Server}) # {} /\ ~Faulty(Server)
       THEN PutJFRef(Server) /\ serverId' = TRUE
       ELSE UNCHANGED <<refs, serverId>>
    /\ UNCHANGED <<world, news, ranToday>>

\* All genres are asked for at once, and without an answer nothing is put.
AskGenres ==
    /\ resolve.at = "genres"
    /\ LET due == DueJFRefs(Genres \intersect world.charted)
       IN  IF due = {} \/ Faulty("genres") THEN NowAt("people")
           ELSE resolve' = [at |-> "genre", due |-> SetToSeq(due), answer |-> world.known]
    /\ UNCHANGED <<world, refs, serverId, news, ranToday>>

PutGenre ==
    /\ resolve.at = "genre"
    /\ LET n == Head(resolve.due)
       IN  IF n \in resolve.answer THEN PutJFRef(n) ELSE PutJFMiss(n)
    /\ IF Len(resolve.due) = 1 THEN NowAt("people")
       ELSE resolve' = [resolve EXCEPT !.due = Tail(@)]
    /\ UNCHANGED <<world, serverId, news, ranToday>>

\* Always in the same order.
AskPeople ==
    /\ resolve.at = "people"
    /\ LET due == SetToSeq(DueJFRefs(Persons \intersect world.charted))
           few == SubSeq(due, 1, Min({Len(due), LookupsPerRun}))
       IN  IF due = <<>> THEN Over
           ELSE resolve' = [at |-> "person", due |-> few, answer |-> {}] /\ UNCHANGED ranToday
    /\ UNCHANGED <<world, refs, serverId, news>>

\* FindPerson; at an error the rest is left for another run.
LookUp ==
    /\ resolve.at = "person"
    /\ LET n == Head(resolve.due)
       IN  IF Faulty(n) THEN Over /\ UNCHANGED refs
           ELSE /\ IF n \in world.known THEN PutJFRef(n) ELSE PutJFMiss(n)
                /\ IF Len(resolve.due) = 1 THEN Over
                   ELSE resolve' = [resolve EXCEPT !.due = Tail(@)] /\ UNCHANGED ranToday
    /\ UNCHANGED <<world, serverId, news>>

\* A mistake in run: the id waits for the resolver.
BootWithout == FALSE

\* run reads the links' server id at the start.
Boot == refs[Server].found

\* A run that was cut short has recorded nothing, so the next is not skipped.
ProcessRestarts ==
    /\ Faulty("process")
    /\ resolve' = NoResolve /\ serverId' = Boot
    /\ news' = (news \/ resolve.at # "idle")
    /\ UNCHANGED <<world, refs, ranToday>>

ResolveSteps ==
    ResolveBegins \/ ResolveServer \/ AskGenres \/ PutGenre \/ AskPeople \/ LookUp

LinksNext == ResolveSteps \/ NewPlays \/ NextDay \/ Turn \/ ProcessRestarts

\* The ticker goes on, so a run that is not to be skipped comes and goes on to its
\* end; and none lasts for days: again and again a day ends between two runs, and
\* it does not do so in vain for ever.
LinksFairness == WF_linkVars(ResolveSteps) /\ SF_linkVars(NextDay)
LinksSpec == LinksInit /\ [][LinksNext]_linkVars /\ LinksFairness

-----------------------------------------------------------------------------
(***************************************************************************)
(* Properties                                                              *)
(***************************************************************************)
\* The server's id, which every link needs, is asked for until it is stored and
\* never again; so once it is stored, the process has it, whatever was stored
\* or not before and however often the process has restarted.
StoredIdIsKnown == refs[Server].found => serverId

\* Once nothing goes wrong any more and the plugin writes on every day, a name
\* that stays on the charts and in Jellyfin gets its link, whatever was missed
\* before, and although names that Jellyfin does not have are always in front of
\* it.  (They must not be so many that the runs of the longest wait do not suffice
\* for them.  While nobody plays anything, runs are skipped and no name is asked
\* for, "will retry" in the log or not.)
Wanted(n) == n = Server \/ n \in world.known \intersect world.charted
RunsEveryDay == []<>ranToday /\ <>[][NextDay => ranToday]_linkVars
KnownNamesGetLinked ==
    RunsEveryDay =>
        \A n \in Names : <>[](world.faulty = {} /\ Wanted(n)) => <>refs[n].found
=============================================================================
