------------------------------- MODULE People -------------------------------
(***************************************************************************)
(* The charts of people and of titles (People, internal/aggregate/         *)
(* people.go), which rank by hours and by breadth and keep the best of     *)
(* each.                                                                   *)
(***************************************************************************)
EXTENDS Plays

CONSTANTS
    Credits,     \* id -> the credits of dim_credit, as <<kind, person>>
    Played,      \* dim_played: <<user, item>> pairs
    PeopleTopN   \* 50

ASSUME PeopleAssumption ==
    /\ PeopleTopN \in Nat \ {0}
    /\ \A id \in DOMAIN Credits : IsFiniteSet(Credits[id]) /\ \A c \in Credits[id] : c[2] \in Nat

CreditsOf(id) == IF id \in DOMAIN Credits THEN Credits[id] ELSE {}

\* An episode without credits of its own has its series'.
ForEvent(p) ==
    IF CreditsOf(p.item) # {} THEN CreditsOf(p.item)
    ELSE IF Series(p) # NoId THEN CreditsOf(Series(p)) ELSE {}

\* A mistake in People: breadth counts episodes.
TitleKeyItem(p) == <<"item", p.item>>

\* A series counts once, not once an episode.
TitleKey(p) == IF Series(p) # NoId THEN <<"series", Series(p)>> ELSE <<"item", p.item>>

IsPlayed(p) == <<p.user, p.item>> \in Played
Since(plays, cutoff) == {p \in Counted(plays) : Day(p) >= cutoff}

PersonRow(key, plays) ==
    LET ticked == {p \in plays : IsPlayed(p)}
        titles(S) == Cardinality({TitleKey(p) : p \in S})
    IN  [user |-> key[1], kind |-> key[2], person |-> key[3],
         watched |-> Minutes(plays), plays |-> Cardinality(plays), titles |-> titles(plays),
         watchedPlayed |-> Minutes(ticked), playsPlayed |-> Cardinality(ticked),
         titlesPlayed |-> titles(ticked)]

PeopleRows(plays) ==
    LET credited(k) == {p \in plays : p.user = k[1] /\ <<k[2], k[3]>> \in ForEvent(p)}
        keys == UNION {{<<p.user, c[1], c[2]>> : c \in ForEvent(p)} : p \in plays}
    IN  {PersonRow(k, credited(k)) : k \in keys}

\* The rows that a play counts for: its own, and its series' beside it.
TopItemKeys(p) ==
    {<<p.user, About[p.item].scope, p.item>>}
        \union (IF Series(p) # NoId THEN {<<p.user, "series", Series(p)>>} ELSE {})

AccumulateTopItem(key, plays) ==
    LET ticked == {p \in plays : IsPlayed(p)}
    IN  [user |-> key[1], scope |-> key[2], item |-> key[3],
         watched |-> Minutes(plays), plays |-> Cardinality(plays),
         watchedPlayed |-> Minutes(ticked), playsPlayed |-> Cardinality(ticked)]

TopItemRows(plays) ==
    {AccumulateTopItem(k, {p \in plays : k \in TopItemKeys(p)})
         : k \in UNION {TopItemKeys(p) : p \in plays}}

\* The best n by each of two metrics, ties by the incoming order, which is id's.
TopUnion(rows, n, metrics, id) ==
    UNION {Best(n, rows, LAMBDA x, y : x[m] > y[m] \/ (x[m] = y[m] /\ x[id] < y[id]))
               : m \in metrics}

\* A mistake in cappedPeopleRows: the second metric is not given to topUnion.
CappedByHours(rows) ==
    UNION {TopUnion({r \in rows : <<r.user, r.kind>> = g}, PeopleTopN, {"watched"}, "person")
               : g \in {<<r.user, r.kind>> : r \in rows}}

CappedPeopleRows(rows) ==
    UNION {TopUnion({r \in rows : <<r.user, r.kind>> = g}, PeopleTopN, {"watched", "titles"}, "person")
               : g \in {<<r.user, r.kind>> : r \in rows}}

CappedTopItemRows(rows) ==
    UNION {TopUnion({r \in rows : <<r.user, r.scope>> = g}, PeopleTopN, {"watched", "plays"}, "item")
               : g \in {<<r.user, r.scope>> : r \in rows}}

\* The two tables of one range, before and after the cap.
PeopleOf(plays) ==
    [people |-> PeopleRows(plays), items |-> TopItemRows(plays)]

PeopleCharts(plays, cutoff) ==
    LET in == PeopleOf(Since(plays, cutoff))
    IN  [people |-> CappedPeopleRows(in.people), items |-> CappedTopItemRows(in.items)]
=============================================================================
