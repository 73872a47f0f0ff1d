---------------------------- MODULE PlayHistory ----------------------------
(***************************************************************************)
(* The play history: ReadPlays (internal/store/spine.go) gives one page of *)
(* a user's plays, newest first, and the place to go on from, and the page *)
(* asks for one after the other as the user scrolls, while the watch job   *)
(* adds to the spine and changes the libraries of what it has.             *)
(***************************************************************************)
EXTENDS Naturals, FiniteSets, Sequences

CONSTANTS
    PlayKeys,   \* what a play is known by: [user, item, at]
    Readers,    \* users whose history is read
    Libraries,  \* names of libraries, with "Unknown"
    AllLibraries,
    PageLimit,  \* 50
    MaxRows     \* bound: the rows of the spine

ASSUME HistoryAssumption ==
    /\ \A k \in PlayKeys : k.at \in Nat
    /\ AllLibraries \notin Libraries
    /\ PageLimit \in Nat \ {0} /\ MaxRows \in Nat

VARIABLES
    rows,    \* playback_events: a play's place is its rowid
    asked,   \* the user and the library whose history is read
    cursor,  \* what the next page is asked with
    earlier, \* the rowids shown before the last page
    page,    \* those of the last page
    steady   \* history: the rowids that matched when the first page was read,
             \* and have ever since

historyVars == <<rows, asked, cursor, earlier, page, steady>>

NotAsked == [user |-> "nobody", library |-> AllLibraries]
Start == [at |-> 0, row |-> 0, more |-> TRUE]
End == [at |-> 0, row |-> 0, more |-> FALSE]

HistoryTypeOK ==
    /\ rows \in Seq([key : PlayKeys, library : Libraries])
    /\ \A i, j \in DOMAIN rows : rows[i].key = rows[j].key => i = j
    /\ asked \in [user : Readers, library : Libraries \union {AllLibraries}] \union {NotAsked}
    /\ cursor \in [at : Nat, row : Nat, more : BOOLEAN]
    /\ earlier \subseteq DOMAIN rows /\ page \subseteq DOMAIN rows
    /\ steady \subseteq DOMAIN rows

HistoryInit ==
    /\ rows = <<>>
    /\ asked = NotAsked /\ cursor = End
    /\ earlier = {} /\ page = {} /\ steady = {}

-----------------------------------------------------------------------------
At(i) == rows[i].key.at
Matches(r, a) == r.key.user = a.user /\ (a.library = AllLibraries \/ r.library = a.library)

\* ORDER BY at DESC, rowid DESC
Newer(i, j) == At(i) > At(j) \/ (At(i) = At(j) /\ i > j)

\* A mistake in ReadPlays: the rowid does not break the tie.
BeforeCursorByTime(i, c) == c = Start \/ At(i) < c.at

BeforeCursor(i, c) == c = Start \/ At(i) < c.at \/ (At(i) = c.at /\ i < c.row)

\* The rows of one page, of those found.
Newest(found) == {i \in found : Cardinality({j \in found : Newer(j, i)}) < PageLimit}

\* The row that the cursor points to: the last that is shown.
LastOf(shown, found) == {i \in shown : \A j \in shown : i = j \/ Newer(j, i)}

\* handleProfilePlays and ReadPlays: one query.
ReadPlays(a, c) ==
    LET found == {i \in DOMAIN rows : Matches(rows[i], a) /\ BeforeCursor(i, c)}
    IN  /\ page' = Newest(found)
        /\ IF Cardinality(found) <= PageLimit THEN cursor' = End
           ELSE \E i \in LastOf(page', found) :
                    cursor' = [at |-> At(i), row |-> i, more |-> TRUE]

-----------------------------------------------------------------------------
Reading == <<asked, cursor, earlier, page>>
StillSteady == steady' = {i \in steady : Matches(rows'[i], asked)}

\* A mistake in AppendPlaybackEvents: without ON CONFLICT and its index.
Inserted(k, row) == Append(rows, row)

\* A mistake in AppendPlaybackEvents: INSERT OR REPLACE gives a new rowid.
Replaced(k, row) == Append(SelectSeq(rows, LAMBDA r : r.key # k), row)

\* A play that is new gets the next rowid; one that is known keeps its own.
Upserted(k, row) ==
    IF \E i \in DOMAIN rows : rows[i].key = k
    THEN [i \in DOMAIN rows |-> IF rows[i].key = k THEN row ELSE rows[i]]
    ELSE Append(rows, row)

AppendPlaybackEvent(k, lib) ==
    /\ rows' = Upserted(k, [key |-> k, library |-> lib])
    /\ Len(rows') <= MaxRows
    /\ StillSteady
    /\ UNCHANGED Reading

UpdatePlaybackLibraries(item, lib) ==
    /\ rows' = [i \in DOMAIN rows |->
                   IF rows[i].key.item = item THEN [rows[i] EXCEPT !.library = lib] ELSE rows[i]]
    /\ StillSteady
    /\ UNCHANGED Reading

FirstPage(a) ==
    /\ asked = NotAsked /\ asked' = a
    /\ ReadPlays(a, Start)
    /\ earlier' = {}
    /\ steady' = {i \in DOMAIN rows : Matches(rows[i], a)}
    /\ UNCHANGED rows

NextPage ==
    /\ asked # NotAsked /\ cursor.more
    /\ ReadPlays(asked, cursor)
    /\ earlier' = earlier \union page
    /\ UNCHANGED <<rows, asked, steady>>

\* The user goes elsewhere, or everything is fetched again.
Leave ==
    /\ asked # NotAsked /\ asked' = NotAsked
    /\ cursor' = End /\ earlier' = {} /\ page' = {} /\ steady' = {}
    /\ UNCHANGED rows

HistoryNext ==
    \/ \E k \in PlayKeys, lib \in Libraries : AppendPlaybackEvent(k, lib)
    \/ \E item \in {k.item : k \in PlayKeys}, lib \in Libraries : UpdatePlaybackLibraries(item, lib)
    \/ \E a \in [user : Readers, library : Libraries \union {AllLibraries}] : FirstPage(a)
    \/ NextPage \/ Leave

HistorySpec == HistoryInit /\ [][HistoryNext]_historyVars

-----------------------------------------------------------------------------
(***************************************************************************)
(* Properties                                                              *)
(***************************************************************************)
\* Page follows page: what was shown before is newer than all of the last page,
\* so no play is shown twice, whatever was added in between.
PagesFollow == \A i \in earlier, j \in page : Newer(i, j)

\* Every play that was there when the reading began has been shown or comes
\* after the cursor, and at the end all of them have been shown.
NothingPassedOver ==
    \A i \in steady : i \in earlier \union page \/ (cursor.more /\ BeforeCursor(i, cursor))
=============================================================================
