------------------------- MODULE ProfilePagesProofs -------------------------
(***************************************************************************)
(* That the pages made from the plays add up: the tables are sums over the *)
(* plays, grouped in one way by the watch tables and in another by the     *)
(* profiles, and the pages sum the groups again.                           *)
(***************************************************************************)
EXTENDS ProfilePages, SumTheorems

-----------------------------------------------------------------------------
(***************************************************************************)
(* The plays behind the tables.                                            *)
(***************************************************************************)
PlaysOK(plays) == plays \subseteq Reports /\ IsFiniteSet(plays)

PagesInv ==
    /\ PagesTypeOK
    /\ IsFiniteSet(spine) /\ IsFiniteSet(watch) /\ IsFiniteSet(profiles.plays)
    /\ \A p, q \in profiles.plays : SamePlay(p, q) => p = q

\* Nothing has been played at the start.
LEMMA PagesInvInit == PagesInit => PagesInv
  BY PagesAssumption, FS_EmptySet DEF PagesInit, PagesInv, PagesTypeOK

\* The only step that adds a play replaces the one that has its place.
LEMMA PagesInvNext == PagesInv /\ [PagesNext]_pageVars => PagesInv'
<1> SUFFICES ASSUME PagesInv, [PagesNext]_pageVars PROVE PagesInv'
  OBVIOUS
<1>0. PagesTypeOK
  BY DEF PagesInv
<1>1. ASSUME NEW p \in Reports, RunBegins(p) PROVE PagesInv'
  <2>1. /\ spine' = {q \in spine : ~SamePlay(p, q)} \union {p}
        /\ UNCHANGED <<today, watch, profiles>> /\ job' = "watch"
    BY <1>1 DEF RunBegins, AppendPlay
  <2>2. IsFiniteSet({q \in spine : ~SamePlay(p, q)})
    BY FS_Subset DEF PagesInv
  <2>3. IsFiniteSet(spine')
    BY <2>1, <2>2, FS_AddElement
  <2>4. \A q, r \in spine' : SamePlay(q, r) => q = r
    BY <1>0, <2>1 DEF PagesTypeOK, SamePlay
  <2>5. spine' \subseteq Reports
    BY <1>0, <2>1 DEF PagesTypeOK
  <2>6. QED
    BY <1>0, <2>1, <2>3, <2>4, <2>5 DEF PagesInv, PagesTypeOK
<1>2. CASE WriteWatch
  BY <1>2, <1>0 DEF WriteWatch, PagesInv, PagesTypeOK
<1>3. CASE WriteProfiles
  BY <1>3, <1>0 DEF WriteProfiles, PagesInv, PagesTypeOK
<1>4. CASE WriteProfilesFails
  BY <1>4, <1>0 DEF WriteProfilesFails, PagesInv, PagesTypeOK
<1>5. CASE Midnight
  BY <1>5, <1>0, PagesAssumption DEF Midnight, PagesInv, PagesTypeOK
<1>6. CASE UNCHANGED pageVars
  BY <1>6, <1>0 DEF pageVars, PagesInv, PagesTypeOK
<1>7. QED
  BY <1>1, <1>2, <1>3, <1>4, <1>5, <1>6 DEF PagesNext

\* Finite tables of known plays, each play once, at all times.
LEMMA PagesInvHolds == PagesSpec => []PagesInv
<1>1. QED
  BY PagesInvInit, PagesInvNext, PTL DEF PagesSpec

\* The spine holds a play of one user, item and time once, and a table is of
\* plays that the plugin has reported and of a day that has come.
THEOREM PagesTypeCorrect == PagesSpec => []PagesTypeOK
<1>1. PagesInv => PagesTypeOK
  BY DEF PagesInv
<1>2. QED
  BY <1>1, PagesInvHolds, PTL

-----------------------------------------------------------------------------
(***************************************************************************)
(* Sums of plays and of rows.                                              *)
(***************************************************************************)
LEMMA SumIs ==
    ASSUME NEW S, IsFiniteSet(S), NEW f, DOMAIN f = S, NEW g, \A x \in S : f[x] = g[x]
    PROVE  SumFunction(f) = SumFunctionOnSet(g, S)
<1>1. SumFunction(f) = SumFunctionOnSet(f, DOMAIN f)
  BY SumOverDomain
<1>2. SumFunctionOnSet(f, S) = SumFunctionOnSet(g, S)
  BY SumSame
<1>3. QED
  BY <1>1, <1>2

\* A play that may be reported, field by field.
LEMMA PlayIs ==
    ASSUME NEW p \in Reports
    PROVE  /\ p.item \in Items /\ p.item # NoId /\ p.found \in Outcomes
           /\ p.at \in Nat /\ p.dur \in Nat /\ p.user \in Nat /\ Day(p) \in Nat
<1>1. p.item \in Items /\ p.found \in Outcomes /\ p.at \in Nat /\ p.dur \in Nat /\ p.user \in Nat
  BY PagesAssumption
<1>2. DayHours \in Nat \ {0} /\ Items \subseteq Nat \ {NoId}
  BY PlaysAssumption
<1>3. Day(p) \in Nat
  BY <1>1, <1>2 DEF Day
<1>4. QED
  BY <1>1, <1>2, <1>3

DurOf == [p \in Reports |-> p.dur]

\* Minutes is a sum over a set, to which the facts about sums apply.
LEMMA MinutesAre ==
    ASSUME NEW S, S \subseteq Reports, IsFiniteSet(S)
    PROVE  Minutes(S) = SumFunctionOnSet(DurOf, S) /\ Minutes(S) \in Nat
<1>1. \A p \in S : DurOf[p] = p.dur /\ DurOf[p] \in Nat
  BY PlayIs DEF DurOf
<1>2. Minutes(S) = SumFunctionOnSet(DurOf, S)
  <2>1. SUFFICES ASSUME NEW f, f = [p \in S |-> p.dur]
                 PROVE  SumFunction(f) = SumFunctionOnSet(DurOf, S)
    BY DEF Minutes
  <2>2. DOMAIN f = S /\ \A p \in S : f[p] = DurOf[p]
    BY <1>1, <2>1
  <2>3. QED
    BY <2>2, SumIs
<1>3. SumFunctionOnSet(DurOf, S) \in Nat
  BY <1>1, SumIsNat
<1>4. QED
  BY <1>2, <1>3

\* g is a table of the sums of f over the groups that a key makes of S.
Grouped(f, S, key, part, g) ==
    /\ IsFiniteSet(S) /\ \A x \in S : f[x] \in Int /\ key[x] \in DOMAIN g
    /\ \A k \in DOMAIN g :
           /\ \E x \in S : key[x] = k
           /\ \A x : x \in part[k] <=> x \in S /\ key[x] = k
           /\ g[k] = SumFunctionOnSet(f, part[k])

\* Such a table adds up to the sum of the whole.
LEMMA GroupsAddUp ==
    ASSUME NEW f, NEW S, NEW key, NEW part, NEW g, Grouped(f, S, key, part, g)
    PROVE  SumFunction(g) = SumFunctionOnSet(f, S) /\ IsFiniteSet(DOMAIN g)
<1>0. /\ IsFiniteSet(S) /\ \A x \in S : f[x] \in Int /\ key[x] \in DOMAIN g
      /\ \A k \in DOMAIN g :
             /\ \E x \in S : key[x] = k
             /\ \A x : x \in part[k] <=> x \in S /\ key[x] = k
             /\ g[k] = SumFunctionOnSet(f, part[k])
  BY DEF Grouped
<1>1. SumFunction(g) = SumFunctionOnSet(g, DOMAIN g)
  BY SumOverDomain
<1>2. IsFiniteSet(DOMAIN g)
  BY <1>0, FiniteImage
<1>3. SumFunctionOnSet(f, S) = SumFunctionOnSet(g, DOMAIN g)
  BY <1>0, <1>2, SumByKey
<1>4. QED
  BY <1>1, <1>2, <1>3

\* The first of some plays is one of them.
LEMMA EarliestIs ==
    ASSUME NEW S, S \subseteq Reports, S # {}
    PROVE  Earliest(S) \in S /\ \A q \in S : Earliest(S).at <= q.at
<1>1. \E p \in S : \A q \in S : p.at <= q.at
  <2> DEFINE Ats == {p.at : p \in S}
             Less == {ss \in Nat \X Nat : ss[1] < ss[2]}
  <2>1. IsWellFoundedOn(Less, Nat)
    BY NatLessThanWellFounded DEF OpToRel
  <2>2. \A p \in S : p.at \in Nat
    BY PlayIs
  <2>3. Ats \subseteq Nat /\ Ats # {}
    BY <2>2
  <2>4. PICK n \in Ats : \A m \in Ats : <<m, n>> \notin Less
    <3> HIDE DEF Ats, Less
    <3>1. QED
      BY <2>1, <2>3, WFMin
  <2>5. PICK p \in S : p.at = n
    BY <2>4
  <2>6. \A q \in S : ~(q.at < p.at)
    BY <2>2, <2>4, <2>5
  <2>7. QED
    BY <2>2, <2>6
<1>2. QED
  BY <1>1 DEF Earliest

\* The plays that count are some of the plays, each with a user.
LEMMA CountedIs ==
    ASSUME NEW plays, PlaysOK(plays)
    PROVE  /\ Counted(plays) \subseteq plays /\ Counted(plays) \subseteq Reports
           /\ IsFiniteSet(Counted(plays))
           /\ \A p \in Counted(plays) : p.user # NoId
<1>1. Counted(plays) \subseteq plays /\ \A p \in Counted(plays) : p.user # NoId
  BY DEF Counted
<1>2. QED
  BY <1>1, FS_Subset DEF PlaysOK

-----------------------------------------------------------------------------
(***************************************************************************)
(* The rows of the watch tables.                                           *)
(***************************************************************************)
DailyGroup(plays, p) == {q \in Counted(plays) : SameDailyRow(p, q)}

\* A row of the watch tables has the fields, minutes and number of its plays.
LEMMA DailyRowIs ==
    ASSUME NEW plays, PlaysOK(plays), NEW p \in Counted(plays)
    PROVE  LET r == DailyRow(DailyGroup(plays, p))
           IN  /\ r.user = p.user /\ r.item = p.item /\ r.day = Day(p) /\ r.method = p.method
               /\ r.watched = Minutes(DailyGroup(plays, p)) /\ r.watched \in Nat
               /\ r.plays = Cardinality(DailyGroup(plays, p)) /\ r.plays \in Nat
<1> DEFINE G == DailyGroup(plays, p)
<1>1. G \subseteq Counted(plays) /\ \A q \in G : SameDailyRow(p, q)
  BY DEF DailyGroup
<1>2. p \in G
  BY DEF DailyGroup, SameDailyRow
<1>3. G \subseteq Reports /\ IsFiniteSet(G)
  BY <1>1, CountedIs, FS_Subset
<1> HIDE DEF G
<1>4. PICK e : e = Earliest(G) /\ e \in G
  BY <1>2, <1>3, EarliestIs
<1>5. e.user = p.user /\ e.item = p.item /\ Day(e) = Day(p) /\ e.method = p.method
  BY <1>1, <1>4 DEF SameDailyRow
<1>6. Minutes(G) \in Nat /\ Cardinality(G) \in Nat
  BY <1>3, MinutesAre, FS_CardinalityType
<1>7. QED
  BY <1>4, <1>5, <1>6 DEF DailyRow, G

\* The play that a row counts.
LEMMA DailyRowOf ==
    ASSUME NEW plays, PlaysOK(plays), NEW p \in Counted(plays), NEW q \in Counted(plays)
    PROVE  DailyRow(DailyGroup(plays, p)) = DailyRow(DailyGroup(plays, q)) <=> q \in DailyGroup(plays, p)
<1>1. ASSUME DailyRow(DailyGroup(plays, p)) = DailyRow(DailyGroup(plays, q))
      PROVE  q \in DailyGroup(plays, p)
  BY <1>1, DailyRowIs DEF DailyGroup, SameDailyRow
<1>2. ASSUME q \in DailyGroup(plays, p)
      PROVE  DailyGroup(plays, p) = DailyGroup(plays, q)
  BY <1>2 DEF DailyGroup, SameDailyRow
<1>3. QED
  BY <1>1, <1>2

\* The function that picks a row of some columns apart.
WatchedIn(D) == [r \in D |-> r.watched]
PlaysOfIn(D) == [r \in D |-> r.plays]

\* The sums of a column, however they are written.
LEMMA ColumnSums ==
    ASSUME NEW D, NEW R, R \subseteq D, IsFiniteSet(R)
    PROVE  /\ WatchedOf(R) = SumFunctionOnSet(WatchedIn(D), R)
           /\ Watched(R) = SumFunctionOnSet(WatchedIn(D), R)
           /\ PlaysOf(R) = SumFunctionOnSet(PlaysOfIn(D), R)
           /\ Plays(R) = SumFunctionOnSet(PlaysOfIn(D), R)
<1>1. \A r \in R : WatchedIn(D)[r] = r.watched /\ PlaysOfIn(D)[r] = r.plays
  BY DEF WatchedIn, PlaysOfIn
<1>2. ASSUME NEW f, f = [r \in R |-> r.watched]
      PROVE  SumFunction(f) = SumFunctionOnSet(WatchedIn(D), R)
  <2>1. DOMAIN f = R /\ \A r \in R : f[r] = WatchedIn(D)[r]
    BY <1>1, <1>2
  <2>2. QED
    BY <2>1, SumIs
<1>3. ASSUME NEW f, f = [r \in R |-> r.plays]
      PROVE  SumFunction(f) = SumFunctionOnSet(PlaysOfIn(D), R)
  <2>1. DOMAIN f = R /\ \A r \in R : f[r] = PlaysOfIn(D)[r]
    BY <1>1, <1>3
  <2>2. QED
    BY <2>1, SumIs
<1>4. QED
  BY <1>2, <1>3 DEF WatchedOf, Watched, PlaysOf, Plays

\* The rows R of the groups of the plays P.
Rowed(P, rowOf, R, group) ==
    /\ P \subseteq Reports /\ IsFiniteSet(P)
    /\ \A p \in P : rowOf[p] \in R
    /\ \A r \in R : \E p \in P : rowOf[p] = r
    /\ \A r \in R : \A x : x \in group[r] <=> x \in P /\ rowOf[x] = r
    /\ \A r \in R : r.watched = Minutes(group[r]) /\ r.plays = Cardinality(group[r])

\* The rows of some groups of plays have the minutes and the number of the plays.
LEMMA RowSums ==
    ASSUME NEW P, NEW rowOf, NEW R, NEW group, Rowed(P, rowOf, R, group)
    PROVE  /\ IsFiniteSet(R)
           /\ WatchedOf(R) = Minutes(P) /\ Watched(R) = Minutes(P)
           /\ PlaysOf(R) = Cardinality(P) /\ Plays(R) = Cardinality(P)
           /\ \A r \in R : r.watched \in Nat /\ r.plays \in Nat
<1>0. /\ P \subseteq Reports /\ IsFiniteSet(P)
      /\ \A p \in P : rowOf[p] \in R
      /\ \A r \in R : \E p \in P : rowOf[p] = r
      /\ \A r \in R : \A x : x \in group[r] <=> x \in P /\ rowOf[x] = r
      /\ \A r \in R : r.watched = Minutes(group[r]) /\ r.plays = Cardinality(group[r])
  BY DEF Rowed
<1>1. IsFiniteSet(R)
  BY <1>0, FiniteImage
<1>2. \A r \in R : group[r] \subseteq P
  BY <1>0
<1>3. \A r \in R : group[r] \subseteq Reports /\ IsFiniteSet(group[r])
  BY <1>0, <1>2, FS_Subset
<1>4. \A r \in R : /\ WatchedIn(R)[r] = SumFunctionOnSet(DurOf, group[r])
                   /\ r.watched \in Nat /\ r.plays \in Nat
  BY <1>0, <1>3, MinutesAre, FS_CardinalityType DEF WatchedIn
<1>5. \A p \in P : DurOf[p] \in Int
  BY <1>0, PlayIs DEF DurOf
<1>6. SumFunctionOnSet(DurOf, P) = SumFunctionOnSet(WatchedIn(R), R)
  BY <1>0, <1>1, <1>4, <1>5, SumByKey
<1> DEFINE one == [p \in P |-> 1]
<1>7. \A p \in P : one[p] = 1 /\ one[p] \in Int
  OBVIOUS
<1> HIDE DEF one
<1>8. \A r \in R : PlaysOfIn(R)[r] = SumFunctionOnSet(one, group[r])
  <2>1. TAKE r \in R
  <2>2. \A p \in group[r] : one[p] = 1
    BY <1>2, <1>7
  <2>3. SumFunctionOnSet(one, group[r]) = Cardinality(group[r])
    BY <1>3, <2>2, SumOfOnes
  <2>4. QED
    BY <1>0, <2>3 DEF PlaysOfIn
<1>9. SumFunctionOnSet(one, P) = SumFunctionOnSet(PlaysOfIn(R), R)
  BY <1>0, <1>1, <1>7, <1>8, SumByKey
<1>10. SumFunctionOnSet(one, P) = Cardinality(P)
  BY <1>0, <1>7, SumOfOnes
<1>11. Minutes(P) = SumFunctionOnSet(DurOf, P)
  BY <1>0, MinutesAre
<1>12. /\ WatchedOf(R) = SumFunctionOnSet(WatchedIn(R), R)
       /\ Watched(R) = SumFunctionOnSet(WatchedIn(R), R)
       /\ PlaysOf(R) = SumFunctionOnSet(PlaysOfIn(R), R)
       /\ Plays(R) = SumFunctionOnSet(PlaysOfIn(R), R)
  BY <1>1, ColumnSums
<1>13. QED
  BY <1>1, <1>4, <1>6, <1>9, <1>10, <1>11, <1>12

DailyOf(plays) == [p \in Counted(plays) |-> DailyRow(DailyGroup(plays, p))]
CountedIn(plays, rowOf, R) == {p \in Counted(plays) : rowOf[p] \in R}

\* The rows of the watch tables are those of the plays, under their keys.
LEMMA DailyIs ==
    ASSUME NEW plays, PlaysOK(plays)
    PROVE  /\ \A p \in Counted(plays) : DailyOf(plays)[p] \in Daily(plays)
           /\ \A r \in Daily(plays) : \E p \in Counted(plays) : DailyOf(plays)[p] = r
           /\ \A p \in Counted(plays) :
                  LET r == DailyOf(plays)[p]
                  IN  r.user = p.user /\ r.item = p.item /\ r.day = Day(p) /\ r.method = p.method
<1>1. \A p \in Counted(plays) : DailyOf(plays)[p] = DailyRow(DailyGroup(plays, p))
  BY DEF DailyOf
<1>2. Daily(plays) = {DailyRow(DailyGroup(plays, p)) : p \in Counted(plays)}
  BY DEF Daily, DailyGroup
<1>3. QED
  BY <1>1, <1>2, DailyRowIs

\* Rows of the watch table sum to the plays that they count.
LEMMA DailySums ==
    ASSUME NEW plays, PlaysOK(plays), NEW R, R \subseteq Daily(plays)
    PROVE  /\ IsFiniteSet(R)
           /\ WatchedOf(R) = Minutes(CountedIn(plays, DailyOf(plays), R))
           /\ PlaysOf(R) = Cardinality(CountedIn(plays, DailyOf(plays), R))
           /\ \A r \in R : r.watched \in Nat /\ r.plays \in Nat /\ r.day \in Nat /\ r.user # NoId
<1>1. PICK P : P = CountedIn(plays, DailyOf(plays), R)
  OBVIOUS
<1>2. P \subseteq Counted(plays) /\ P \subseteq Reports /\ IsFiniteSet(P)
  BY <1>1, CountedIs, FS_Subset DEF CountedIn
<1>3. PICK rowOf : rowOf = DailyOf(plays)
  OBVIOUS
<1>4. \A p \in P : rowOf[p] \in R
  BY <1>1, <1>3 DEF CountedIn
<1>5. \A r \in R : \E p \in P : rowOf[p] = r
  BY <1>1, <1>3, DailyIs DEF CountedIn
<1> DEFINE group == [r \in R |-> {p \in P : rowOf[p] = r}]
<1>6. \A r \in R : \A x : x \in group[r] <=> x \in P /\ rowOf[x] = r
  OBVIOUS
<1>7. \A r \in R : r.watched = Minutes(group[r]) /\ r.plays = Cardinality(group[r])
  <2>1. TAKE r \in R
  <2>2. PICK p \in P : rowOf[p] = r
    BY <1>5
  <2>3. p \in Counted(plays) /\ r = DailyRow(DailyGroup(plays, p))
    BY <1>2, <1>3, <2>2 DEF DailyOf
  <2>4. group[r] = DailyGroup(plays, p)
    <3>1. \A q \in Counted(plays) : rowOf[q] = DailyRow(DailyGroup(plays, q))
      BY <1>3 DEF DailyOf
    <3>2. \A q \in Counted(plays) : q \in P <=> rowOf[q] \in R
      BY <1>1, <1>3 DEF CountedIn
    <3>3. \A q : q \in DailyGroup(plays, p) => q \in Counted(plays)
      BY DEF DailyGroup
    <3>4. \A q \in Counted(plays) : rowOf[q] = r <=> q \in DailyGroup(plays, p)
      BY <2>3, <3>1, DailyRowOf
    <3>5. \A q : q \in group[r] <=> q \in DailyGroup(plays, p)
      BY <1>2, <1>6, <3>2, <3>3, <3>4
    <3>6. QED
      BY <3>5
  <2>5. QED
    BY <2>3, <2>4, DailyRowIs
<1> HIDE DEF group
<1>8. /\ IsFiniteSet(R) /\ WatchedOf(R) = Minutes(P) /\ PlaysOf(R) = Cardinality(P)
      /\ \A r \in R : r.watched \in Nat /\ r.plays \in Nat
  <2>1. Rowed(P, rowOf, R, group)
    BY <1>2, <1>4, <1>5, <1>6, <1>7 DEF Rowed
  <2>2. QED
    BY <2>1, RowSums
<1>9. \A r \in R : r.day \in Nat /\ r.user # NoId
  BY <1>2, <1>3, <1>5, DailyIs, PlayIs, CountedIs
<1>10. QED
  BY <1>1, <1>8, <1>9

-----------------------------------------------------------------------------
(***************************************************************************)
(* The panels of Watch Stats.                                              *)
(***************************************************************************)
RowsOK(R) ==
    IsFiniteSet(R) /\ \A r \in R : r.watched \in Nat /\ r.plays \in Nat

\* What holds of some rows holds of fewer.
LEMMA RowsAreOK ==
    ASSUME NEW R, RowsOK(R)
    PROVE  /\ IsFiniteSet(R)
           /\ \A r \in R : WatchedIn(R)[r] \in Int /\ PlaysOfIn(R)[r] \in Int
           /\ \A S \in SUBSET R : RowsOK(S)
  BY FS_Subset DEF RowsOK, WatchedIn, PlaysOfIn

\* The days or weeks of the trend part the rows.
LEMMA TrendSums ==
    ASSUME NEW R, RowsOK(R), NEW rng
    PROVE  SumFunction([k \in DOMAIN Trend(R, rng) |-> Trend(R, rng)[k].watched]) = WatchedOf(R)
<1> DEFINE K == {TrendKey(rng, r.day) : r \in R}
           key == [r \in R |-> TrendKey(rng, r.day)]
           part == [k \in K |-> {r \in R : TrendKey(rng, r.day) = k}]
<1>1. SUFFICES ASSUME NEW g, g = [k \in DOMAIN Trend(R, rng) |-> Trend(R, rng)[k].watched]
               PROVE  SumFunction(g) = WatchedOf(R)
  OBVIOUS
<1>2. DOMAIN g = K /\ \A k \in K : g[k] = WatchedOf(part[k])
  BY <1>1 DEF Trend
<1>3. /\ \A r \in R : key[r] \in DOMAIN g
      /\ \A k \in DOMAIN g : \E r \in R : key[r] = k
      /\ \A k \in DOMAIN g : \A x : x \in part[k] <=> x \in R /\ key[x] = k
  BY <1>2
<1>4. \A k \in DOMAIN g : part[k] \subseteq R
  BY <1>3
<1> HIDE DEF K, key, part
<1>5. \A k \in DOMAIN g : g[k] = SumFunctionOnSet(WatchedIn(R), part[k])
  BY <1>2, <1>4, RowsAreOK, ColumnSums, FS_Subset
<1>6. SumFunction(g) = SumFunctionOnSet(WatchedIn(R), R)
  <2>1. Grouped(WatchedIn(R), R, key, part, g)
    BY <1>3, <1>5, RowsAreOK DEF Grouped
  <2>2. QED
    BY <2>1, GroupsAddUp
<1>7. QED
  BY <1>6, RowsAreOK, ColumnSums

\* So do the weeks and methods.
LEMMA MethodSums ==
    ASSUME NEW R, RowsOK(R)
    PROVE  SumFunction(PlayMethodWeekly(R)) = PlaysOf(R)
<1> DEFINE K == {<<IsoWeekMonday(r.day), r.method>> : r \in R}
           key == [r \in R |-> <<IsoWeekMonday(r.day), r.method>>]
           part == [k \in K |-> {r \in R : <<IsoWeekMonday(r.day), r.method>> = k}]
<1>1. SUFFICES ASSUME NEW g, g = PlayMethodWeekly(R)
               PROVE  SumFunction(g) = PlaysOf(R)
  OBVIOUS
<1>2. DOMAIN g = K /\ \A k \in K : g[k] = PlaysOf(part[k])
  BY <1>1 DEF PlayMethodWeekly
<1>3. /\ \A r \in R : key[r] \in DOMAIN g
      /\ \A k \in DOMAIN g : \E r \in R : key[r] = k
      /\ \A k \in DOMAIN g : \A x : x \in part[k] <=> x \in R /\ key[x] = k
  BY <1>2
<1>4. \A k \in DOMAIN g : part[k] \subseteq R
  BY <1>3
<1> HIDE DEF K, key, part
<1>5. \A k \in DOMAIN g : g[k] = SumFunctionOnSet(PlaysOfIn(R), part[k])
  BY <1>2, <1>4, RowsAreOK, ColumnSums, FS_Subset
<1>6. SumFunction(g) = SumFunctionOnSet(PlaysOfIn(R), R)
  <2>1. Grouped(PlaysOfIn(R), R, key, part, g)
    BY <1>3, <1>5, RowsAreOK DEF Grouped
  <2>2. QED
    BY <2>1, GroupsAddUp
<1>7. QED
  BY <1>6, RowsAreOK, ColumnSums

\* g has the minutes of those users of the rows R that are in V, and S their rows.
Active(R, V, S, g) ==
    /\ \A r : r \in S <=> r \in R /\ r.user \in V
    /\ g = [v \in DOMAIN ActiveUsers(R) \intersect V |-> ActiveUsers(R)[v].watched]

\* And the users, of whom a row has one.
LEMMA ActiveSums ==
    ASSUME NEW R, RowsOK(R), NEW V, NEW S, NEW g, Active(R, V, S, g)
    PROVE  SumFunction(g) = WatchedOf(S)
<1> DEFINE K == {r.user : r \in R} \intersect V
           key == [r \in R |-> r.user]
           part == [k \in K |-> {r \in R : r.user = k}]
<1>2. DOMAIN g = K /\ \A k \in K : g[k] = WatchedOf(part[k])
  BY DEF ActiveUsers, Active
<1>3. /\ \A r \in S : key[r] \in DOMAIN g
      /\ \A k \in DOMAIN g : \E r \in S : key[r] = k
      /\ \A k \in DOMAIN g : \A x : x \in part[k] <=> x \in S /\ key[x] = k
  BY <1>2 DEF Active
<1>4. S \subseteq R /\ \A k \in DOMAIN g : part[k] \subseteq R
  BY <1>2 DEF Active
<1> HIDE DEF K, key, part
<1>5. \A k \in DOMAIN g : g[k] = SumFunctionOnSet(WatchedIn(R), part[k])
  BY <1>2, <1>4, RowsAreOK, ColumnSums, FS_Subset
<1>6. IsFiniteSet(S) /\ \A r \in S : WatchedIn(R)[r] \in Int
  BY <1>4, RowsAreOK, FS_Subset
<1>7. SumFunction(g) = SumFunctionOnSet(WatchedIn(R), S)
  <2>1. Grouped(WatchedIn(R), S, key, part, g)
    BY <1>3, <1>5, <1>6 DEF Grouped
  <2>2. QED
    BY <2>1, GroupsAddUp
<1>8. QED
  BY <1>4, <1>6, <1>7, ColumnSums

OfUser(plays, u, lib) == {p \in Counted(plays) : (u = NoId \/ p.user = u) /\ InScope(p, lib)}
HeatIn(plays, k) == {p \in Counted(plays) : HeatKey(p) = k}

\* The heatmap of a user and a library has the minutes of their plays.
LEMMA HeatSums ==
    ASSUME NEW plays, PlaysOK(plays), NEW u, NEW lib
    PROVE  LET heat == ReadHeatmap(Heatmap(plays), u, lib)
           IN  SumFunction([c \in DOMAIN heat |-> heat[c].watched]) = Minutes(OfUser(plays, u, lib))
<1> DEFINE keys == {k \in DOMAIN Heatmap(plays) : (u = NoId \/ k.user = u)
                                                /\ (lib = Whole \/ k.library = lib)}
           cell == [k \in keys |-> <<k.dow, k.hour>>]
           minutes == [k \in keys |-> Heatmap(plays)[k].watched]
           K == {<<k.dow, k.hour>> : k \in keys}
           in == [c \in K |-> {k \in keys : <<k.dow, k.hour>> = c}]
           of == [k \in keys |-> HeatIn(plays, k)]
           key == [p \in OfUser(plays, u, lib) |-> HeatKey(p)]
<1>1. SUFFICES ASSUME NEW heat, heat = ReadHeatmap(Heatmap(plays), u, lib),
                      NEW g, g = [c \in DOMAIN heat |-> heat[c].watched]
               PROVE  SumFunction(g) = Minutes(OfUser(plays, u, lib))
  OBVIOUS
<1>2. OfUser(plays, u, lib) \subseteq Counted(plays) /\ OfUser(plays, u, lib) \subseteq Reports
      /\ IsFiniteSet(OfUser(plays, u, lib))
  <2>1. OfUser(plays, u, lib) \subseteq Counted(plays)
    BY DEF OfUser
  <2>2. QED
    BY <2>1, CountedIs, FS_Subset
<1>3. /\ DOMAIN Heatmap(plays) = {HeatKey(p) : p \in Counted(plays)}
      /\ \A k \in DOMAIN Heatmap(plays) : Heatmap(plays)[k].watched = Minutes(HeatIn(plays, k))
  BY DEF Heatmap, HeatIn
<1>4. \A p \in Counted(plays) : HeatKey(p).user = p.user /\ HeatKey(p).library = Library(p)
  BY DEF HeatKey
<1>5. /\ \A p \in OfUser(plays, u, lib) : key[p] \in keys
      /\ \A k \in keys : \E p \in OfUser(plays, u, lib) : key[p] = k
      /\ \A k \in keys : \A p : p \in of[k] <=> p \in OfUser(plays, u, lib) /\ key[p] = k
  BY <1>3, <1>4 DEF OfUser, HeatIn, InScope
<1>6. \A k \in keys : minutes[k] = SumFunctionOnSet(DurOf, of[k])
  <2>1. TAKE k \in keys
  <2>2. of[k] \subseteq OfUser(plays, u, lib)
    BY <1>5
  <2>3. of[k] \subseteq Reports /\ IsFiniteSet(of[k])
    BY <1>2, <2>2, FS_Subset
  <2>4. minutes[k] = Minutes(of[k])
    BY <1>3
  <2>5. QED
    BY <2>3, <2>4, MinutesAre
<1>7. \A p \in OfUser(plays, u, lib) : DurOf[p] \in Int
  BY <1>2, PlayIs DEF DurOf
<1>8. DOMAIN minutes = keys
  OBVIOUS
<1>9. DOMAIN g = K /\ \A c \in K : g[c] = SumFunction([k \in in[c] |-> Heatmap(plays)[k].watched])
  BY <1>1 DEF ReadHeatmap
<1>10. /\ \A k \in keys : cell[k] \in K
       /\ \A c \in K : \E k \in keys : cell[k] = c
       /\ \A c \in K : \A k : k \in in[c] <=> k \in keys /\ cell[k] = c
  OBVIOUS
<1>11. \A k \in keys : minutes[k] = Heatmap(plays)[k].watched
  OBVIOUS
<1> HIDE DEF keys, cell, minutes, K, in, of, key
<1>12. SumFunction(minutes) = Minutes(OfUser(plays, u, lib)) /\ IsFiniteSet(keys)
  <2>1. Grouped(DurOf, OfUser(plays, u, lib), key, of, minutes)
    BY <1>2, <1>5, <1>6, <1>7, <1>8 DEF Grouped
  <2>2. SumFunction(minutes) = SumFunctionOnSet(DurOf, OfUser(plays, u, lib)) /\ IsFiniteSet(DOMAIN minutes)
    BY <2>1, GroupsAddUp
  <2>3. QED
    BY <1>2, <1>8, <2>2, MinutesAre
<1>13. \A k \in keys : minutes[k] \in Int
  <2>1. \A k \in keys : of[k] \subseteq OfUser(plays, u, lib)
    BY <1>5
  <2>2. \A k \in keys : IsFiniteSet(of[k]) /\ \A p \in of[k] : DurOf[p] \in Int
    BY <1>2, <1>7, <2>1, FS_Subset
  <2>3. \A k \in keys : SumFunctionOnSet(DurOf, of[k]) \in Int
    BY <2>2, SumTakes
  <2>4. QED
    BY <1>6, <2>3
<1>14. \A c \in K : g[c] = SumFunctionOnSet(minutes, in[c])
  <2>1. TAKE c \in K
  <2>2. SUFFICES ASSUME NEW m, m = [k \in in[c] |-> Heatmap(plays)[k].watched]
                 PROVE  SumFunction(m) = SumFunctionOnSet(minutes, in[c])
    BY <1>9
  <2>3. in[c] \subseteq keys
    BY <1>10
  <2>4. IsFiniteSet(in[c])
    BY <1>12, <2>3, FS_Subset
  <2>5. DOMAIN m = in[c] /\ \A k \in in[c] : m[k] = minutes[k]
    BY <1>11, <2>2, <2>3
  <2>6. QED
    BY <2>4, <2>5, SumIs
<1>15. Grouped(minutes, keys, cell, in, g)
  BY <1>9, <1>10, <1>12, <1>13, <1>14 DEF Grouped
<1>16. SumFunction(minutes) = SumFunctionOnSet(minutes, keys)
  BY <1>8, SumOverDomain
<1>17. QED
  BY <1>12, <1>15, <1>16, GroupsAddUp

\* Two sets of plays, each with what only the other has, have the same minutes.
LEMMA MinutesOfEither ==
    ASSUME NEW S, S \subseteq Reports, IsFiniteSet(S), NEW A, A \subseteq S, NEW B, B \subseteq S
    PROVE  Minutes(A) + Minutes(B \ A) = Minutes(B) + Minutes(A \ B)
<1>1. /\ \A T \in {A, B, A \ B, B \ A} : T \subseteq Reports /\ IsFiniteSet(T)
      /\ \A p \in A \union B : DurOf[p] \in Int
  BY FS_Subset, PlayIs DEF DurOf
<1>2. A \union (B \ A) = B \union (A \ B)
  OBVIOUS
<1>3. SumFunctionOnSet(DurOf, A \union (B \ A))
          = SumFunctionOnSet(DurOf, A) + SumFunctionOnSet(DurOf, B \ A)
  BY <1>1, SumOfUnion
<1>4. SumFunctionOnSet(DurOf, B \union (A \ B))
          = SumFunctionOnSet(DurOf, B) + SumFunctionOnSet(DurOf, A \ B)
  BY <1>1, SumOfUnion
<1>5. \A T \in {A, B, A \ B, B \ A} : Minutes(T) = SumFunctionOnSet(DurOf, T)
  BY <1>1, MinutesAre
<1>6. QED
  BY <1>2, <1>3, <1>4, <1>5

\* Every panel of Watch Stats is a sum of the same plays, and adds up to the
\* headline, for each range, scope and user: the trend by day or week, the
\* methods by week, the shown users, and, but for the plays that stray from the
\* first of their row, the lifetime heatmap (ReadWatchStats).
THEOREM WatchStatsDoAddUp == PagesSpec => []WatchStatsAddUp
<1>1. PagesInv => WatchStatsAddUp
  <2>0. SUFFICES ASSUME PagesInv, NEW rng \in Ranges, NEW lib, NEW u \in Users \union {NoId}
                 PROVE  LET daily == Daily(watch)
                            s == Stats(daily, u, lib, rng)
                            heat == ReadHeatmap(Heatmap(watch), u, lib)
                            shown == IF u = NoId THEN DOMAIN s.active
                                     ELSE DOMAIN s.active \intersect {u}
                        IN  /\ s.watched = SumFunction([k \in DOMAIN s.trend |-> s.trend[k].watched])
                            /\ s.watched = SumFunction([v \in shown |-> s.active[v].watched])
                            /\ s.plays = SumFunction(s.methods)
                            /\ rng = AllTime =>
                                   s.watched + Minutes(Strays(watch, u, lib, TRUE))
                                       = SumFunction([c \in DOMAIN heat |-> heat[c].watched])
                                             + Minutes(Strays(watch, u, lib, FALSE))
    BY Zenon DEF WatchStatsAddUp
  <2> DEFINE daily == Daily(watch)
             s == Stats(daily, u, lib, rng)
             heat == ReadHeatmap(Heatmap(watch), u, lib)
             shown == IF u = NoId THEN DOMAIN s.active ELSE DOMAIN s.active \intersect {u}
  <2>1. /\ daily = Daily(watch) /\ s = Stats(daily, u, lib, rng)
        /\ heat = ReadHeatmap(Heatmap(watch), u, lib)
        /\ shown = IF u = NoId THEN DOMAIN s.active ELSE DOMAIN s.active \intersect {u}
    OBVIOUS
  <2> HIDE DEF daily, s, heat, shown
  <2>2. PlaysOK(watch)
    BY <2>0 DEF PagesInv, PagesTypeOK, PlaysOK
  <2>3. PICK inRange : inRange = {r \in daily : r.day >= DayCutoff(rng, today)
                                                /\ (lib = Whole \/ r.library = lib)}
    OBVIOUS
  <2>4. PICK scoped : scoped = {r \in inRange : u = NoId \/ r.user = u}
    OBVIOUS
  <2>5. /\ s.watched = WatchedOf(scoped) /\ s.plays = PlaysOf(scoped)
        /\ s.active = ActiveUsers(inRange) /\ s.trend = Trend(scoped, rng)
        /\ s.methods = PlayMethodWeekly(scoped)
    BY <2>1, <2>3, <2>4 DEF Stats, ReadWatchStats
  <2>6. inRange \subseteq daily /\ scoped \subseteq inRange
    BY <2>3, <2>4
  <2>7. RowsOK(inRange) /\ RowsOK(scoped)
    BY <2>1, <2>2, <2>6, DailySums DEF RowsOK
  <2>8. s.watched = SumFunction([k \in DOMAIN s.trend |-> s.trend[k].watched])
    BY <2>5, <2>7, TrendSums
  <2>9. s.plays = SumFunction(s.methods)
    BY <2>5, <2>7, MethodSums
  <2>10. s.watched = SumFunction([v \in shown |-> s.active[v].watched])
    <3>1. PICK V : V = IF u = NoId THEN DOMAIN s.active ELSE {u}
      OBVIOUS
    <3>2. shown = DOMAIN ActiveUsers(inRange) \intersect V
      BY <2>1, <2>5, <3>1
    <3>3. DOMAIN s.active = {r.user : r \in inRange}
      BY <2>5 DEF ActiveUsers
    <3>4. scoped = {r \in inRange : r.user \in V}
      BY <2>4, <3>1, <3>3
    <3>5. SUFFICES ASSUME NEW g, g = [v \in DOMAIN ActiveUsers(inRange) \intersect V
                                          |-> ActiveUsers(inRange)[v].watched]
                   PROVE  SumFunction(g) = WatchedOf(scoped)
      BY <2>5, <3>2
    <3>6. \A r : r \in scoped <=> r \in inRange /\ r.user \in V
      BY <3>4
    <3>7. QED
      BY <2>7, <3>5, <3>6, ActiveSums DEF Active
  <2>11. ASSUME rng = AllTime
         PROVE  s.watched + Minutes(Strays(watch, u, lib, TRUE))
                    = SumFunction([c \in DOMAIN heat |-> heat[c].watched])
                          + Minutes(Strays(watch, u, lib, FALSE))
    <3>1. \A r \in daily : r.day \in Nat
      BY <2>1, <2>2, DailySums
    <3>2. inRange = {r \in daily : lib = Whole \/ r.library = lib}
      BY <2>3, <2>11, <3>1 DEF DayCutoff
    <3>3. scoped \subseteq Daily(watch)
      BY <2>1, <2>6
    <3>4. PICK A : A = CountedIn(watch, DailyOf(watch), scoped)
      OBVIOUS
    <3>5. PICK B : B = OfUser(watch, u, lib)
      OBVIOUS
    <3>6. s.watched = Minutes(A)
      BY <2>2, <2>5, <3>3, <3>4, DailySums
    <3>7. \A p \in Counted(watch) : /\ DailyOf(watch)[p] \in daily
                                    /\ DailyOf(watch)[p].user = p.user
                                    /\ DailyOf(watch)[p].library = Library(FirstOfRow(watch, p))
      <4>1. \A p \in Counted(watch) : DailyOf(watch)[p] = DailyRow(DailyGroup(watch, p))
        BY DEF DailyOf
      <4>2. \A p \in Counted(watch) : FirstOfRow(watch, p) = Earliest(DailyGroup(watch, p))
        BY DEF FirstOfRow, DailyGroup
      <4>3. \A p \in Counted(watch) :
                DailyRow(DailyGroup(watch, p)).library = Library(Earliest(DailyGroup(watch, p)))
        BY DEF DailyRow
      <4>4. QED
        BY <2>1, <2>2, <4>1, <4>2, <4>3, DailyIs
    <3>8. \A p : p \in A <=> /\ p \in Counted(watch) /\ (u = NoId \/ p.user = u)
                              /\ InScope(FirstOfRow(watch, p), lib)
      <4>1. \A p \in Counted(watch) :
                DailyOf(watch)[p] \in scoped <=> /\ u = NoId \/ p.user = u
                                                /\ InScope(FirstOfRow(watch, p), lib)
        BY <2>4, <3>2, <3>7 DEF InScope
      <4>2. QED
        BY <3>4, <4>1 DEF CountedIn
    <3>9. \A p : p \in B <=> /\ p \in Counted(watch) /\ (u = NoId \/ p.user = u)
                              /\ InScope(p, lib)
      BY <3>5 DEF OfUser
    <3>10. \A p : InScope(p, lib) \in BOOLEAN /\ InScope(FirstOfRow(watch, p), lib) \in BOOLEAN
      BY DEF InScope
    <3>11. B \ A = Strays(watch, u, lib, TRUE) /\ A \ B = Strays(watch, u, lib, FALSE)
      <4>1. \A in \in BOOLEAN : \A p :
                p \in Strays(watch, u, lib, in) <=>
                    /\ p \in Counted(watch) /\ (u = NoId \/ p.user = u)
                    /\ InScope(p, lib) = in /\ InScope(FirstOfRow(watch, p), lib) # in
        BY DEF Strays
      <4>2. \A p : p \in B \ A <=> p \in Strays(watch, u, lib, TRUE)
        BY <3>8, <3>9, <3>10, <4>1
      <4>3. \A p : p \in A \ B <=> p \in Strays(watch, u, lib, FALSE)
        BY <3>8, <3>9, <3>10, <4>1
      <4>4. QED
        BY <4>2, <4>3
    <3>12. A \subseteq Counted(watch) /\ B \subseteq Counted(watch)
      BY <3>8, <3>9
    <3>13. Minutes(A) + Minutes(B \ A) = Minutes(B) + Minutes(A \ B)
      BY <2>2, <3>12, CountedIs, MinutesOfEither
    <3>14. QED
      BY <2>1, <2>2, <3>5, <3>6, <3>11, <3>13, HeatSums
  <2>12. QED
    BY <2>8, <2>9, <2>10, <2>11, Zenon DEF daily, s, heat, shown
<1>2. QED
  BY <1>1, PagesInvHolds, PTL

-----------------------------------------------------------------------------
(***************************************************************************)
(* The rows of the profiles.                                               *)
(***************************************************************************)
DayGroup(plays, p) == {q \in Counted(plays) : SameDayRow(p, q)}

\* The plays of one user, title, day and library.
LEMMA DayGroupIs ==
    ASSUME NEW plays, PlaysOK(plays), NEW p \in Counted(plays)
    PROVE  /\ p \in DayGroup(plays, p) /\ DayGroup(plays, p) \subseteq Counted(plays)
           /\ DayGroup(plays, p) \subseteq Reports /\ IsFiniteSet(DayGroup(plays, p))
           /\ \A q \in DayGroup(plays, p) : SameDayRow(p, q)
<1>1. /\ p \in DayGroup(plays, p) /\ DayGroup(plays, p) \subseteq Counted(plays)
      /\ \A q \in DayGroup(plays, p) : SameDayRow(p, q)
  BY DEF DayGroup, SameDayRow
<1>2. QED
  BY <1>1, CountedIs, FS_Subset

\* A row of the profiles is the sum of such plays, with the facts of one of them.
LEMMA DayRowIs ==
    ASSUME NEW plays, PlaysOK(plays), NEW p \in Counted(plays)
    PROVE  LET r == DayRow(DayGroup(plays, p))
           IN  /\ r.user = p.user /\ r.item = p.item /\ r.day = Day(p)
               /\ r.watched = Minutes(DayGroup(plays, p)) /\ r.watched \in Nat
               /\ r.plays = Cardinality(DayGroup(plays, p)) /\ r.plays \in Nat
               /\ \E q \in DayGroup(plays, p) : r.facts = FactsOf(q)
<1>1. PICK G : G = DayGroup(plays, p)
  OBVIOUS
<1>2. /\ p \in G /\ G \subseteq Reports /\ IsFiniteSet(G)
      /\ \A q \in G : SameDayRow(p, q)
  BY <1>1, DayGroupIs
<1>3. PICK e : e = Earliest(G) /\ e \in G
  BY <1>2, EarliestIs
<1>4. e.user = p.user /\ e.item = p.item /\ Day(e) = Day(p)
  BY <1>2, <1>3 DEF SameDayRow
<1>5. Minutes(G) \in Nat /\ Cardinality(G) \in Nat
  BY <1>2, MinutesAre, FS_CardinalityType
<1>6. QED
  BY <1>1, <1>3, <1>4, <1>5 DEF DayRow

\* The plays that a row counts.
LEMMA DayRowOf ==
    ASSUME NEW plays, PlaysOK(plays), NEW p \in Counted(plays), NEW q \in Counted(plays)
    PROVE  DayRow(DayGroup(plays, p)) = DayRow(DayGroup(plays, q)) <=> q \in DayGroup(plays, p)
<1>1. ASSUME DayRow(DayGroup(plays, p)) = DayRow(DayGroup(plays, q))
      PROVE  q \in DayGroup(plays, p)
  BY <1>1, DayRowIs DEF DayGroup, SameDayRow
<1>2. ASSUME q \in DayGroup(plays, p)
      PROVE  DayGroup(plays, p) = DayGroup(plays, q)
  BY <1>2 DEF DayGroup, SameDayRow
<1>3. QED
  BY <1>1, <1>2

RollOf(plays) == [p \in Counted(plays) |-> DayRow(DayGroup(plays, p))]

\* The rows of the profiles are those of the plays, under their keys.
LEMMA RollIs ==
    ASSUME NEW plays, PlaysOK(plays)
    PROVE  /\ \A p \in Counted(plays) : RollOf(plays)[p] \in RollDaily(plays)
           /\ \A r \in RollDaily(plays) : \E p \in Counted(plays) : RollOf(plays)[p] = r
           /\ \A p \in Counted(plays) :
                  LET r == RollOf(plays)[p]
                  IN  r.user = p.user /\ r.item = p.item /\ r.day = Day(p)
<1>1. \A p \in Counted(plays) : RollOf(plays)[p] = DayRow(DayGroup(plays, p))
  BY DEF RollOf
<1>2. RollDaily(plays) = {DayRow(DayGroup(plays, p)) : p \in Counted(plays)}
  BY DEF RollDaily, DayGroup
<1>3. QED
  BY <1>1, <1>2, DayRowIs

\* Rows of a profile sum to the plays that they count.
LEMMA RollSums ==
    ASSUME NEW plays, PlaysOK(plays), NEW R, R \subseteq RollDaily(plays)
    PROVE  /\ RowsOK(R)
           /\ Watched(R) = Minutes(CountedIn(plays, RollOf(plays), R))
           /\ Plays(R) = Cardinality(CountedIn(plays, RollOf(plays), R))
           /\ \A r \in R : r.day \in Nat /\ r.user \in Nat \ {NoId}
<1>1. PICK P : P = CountedIn(plays, RollOf(plays), R)
  OBVIOUS
<1>2. P \subseteq Counted(plays) /\ P \subseteq Reports /\ IsFiniteSet(P)
  BY <1>1, CountedIs, FS_Subset DEF CountedIn
<1>3. PICK rowOf : rowOf = RollOf(plays)
  OBVIOUS
<1>4. \A p \in P : rowOf[p] \in R
  BY <1>1, <1>3 DEF CountedIn
<1>5. \A r \in R : \E p \in P : rowOf[p] = r
  BY <1>1, <1>3, RollIs DEF CountedIn
<1> DEFINE group == [r \in R |-> {p \in P : rowOf[p] = r}]
<1>6. \A r \in R : \A x : x \in group[r] <=> x \in P /\ rowOf[x] = r
  OBVIOUS
<1>7. \A r \in R : r.watched = Minutes(group[r]) /\ r.plays = Cardinality(group[r])
  <2>1. TAKE r \in R
  <2>2. PICK p \in P : rowOf[p] = r
    BY <1>5
  <2>3. p \in Counted(plays) /\ r = DayRow(DayGroup(plays, p))
    BY <1>2, <1>3, <2>2 DEF RollOf
  <2>4. group[r] = DayGroup(plays, p)
    <3>1. \A q \in Counted(plays) : rowOf[q] = DayRow(DayGroup(plays, q))
      BY <1>3 DEF RollOf
    <3>2. \A q \in Counted(plays) : q \in P <=> rowOf[q] \in R
      BY <1>1, <1>3 DEF CountedIn
    <3>3. \A q : q \in DayGroup(plays, p) => q \in Counted(plays)
      BY DEF DayGroup
    <3>4. \A q \in Counted(plays) : rowOf[q] = r <=> q \in DayGroup(plays, p)
      BY <2>3, <3>1, DayRowOf
    <3>5. \A q : q \in group[r] <=> q \in DayGroup(plays, p)
      BY <1>2, <1>6, <3>2, <3>3, <3>4
    <3>6. QED
      BY <3>5
  <2>5. QED
    BY <2>3, <2>4, DayRowIs, ZenonT(40)
<1> HIDE DEF group
<1>8. /\ IsFiniteSet(R) /\ Watched(R) = Minutes(P) /\ Plays(R) = Cardinality(P)
      /\ \A r \in R : r.watched \in Nat /\ r.plays \in Nat
  <2>1. Rowed(P, rowOf, R, group)
    BY <1>2, <1>4, <1>5, <1>6, <1>7 DEF Rowed
  <2>2. QED
    BY <2>1, RowSums
<1>9. \A r \in R : r.day \in Nat /\ r.user \in Nat \ {NoId}
  BY <1>2, <1>3, <1>5, RollIs, PlayIs, CountedIs
<1>10. QED
  BY <1>1, <1>8, <1>9 DEF RowsOK

\* The rows that a profile of a user and a range is made from.
RowsSince(plays, u, cutoff) == FilterSince(FilterUser(RollDaily(plays), u), cutoff)
PlaysSince(plays, u, cutoff) == {p \in Counted(plays) : p.user = u /\ Day(p) >= cutoff}

\* Rows and plays of a range give the same sums: a group lies on one day.
LEMMA RowsSinceSum ==
    ASSUME NEW plays, PlaysOK(plays), NEW u, NEW cutoff
    PROVE  /\ RowsSince(plays, u, cutoff) \subseteq RollDaily(plays)
           /\ RowsOK(RowsSince(plays, u, cutoff))
           /\ Watched(RowsSince(plays, u, cutoff)) = Minutes(PlaysSince(plays, u, cutoff))
           /\ Plays(RowsSince(plays, u, cutoff)) = Cardinality(PlaysSince(plays, u, cutoff))
<1>1. PICK R : R = RowsSince(plays, u, cutoff)
  OBVIOUS
<1>2. R = {r \in RollDaily(plays) : r.user = u /\ r.day >= cutoff}
  BY <1>1 DEF RowsSince, FilterSince, FilterUser
<1>3. R \subseteq RollDaily(plays)
  BY <1>2
<1>4. CountedIn(plays, RollOf(plays), R) = PlaysSince(plays, u, cutoff)
  BY <1>2, RollIs DEF CountedIn, PlaysSince
<1>5. QED
  BY <1>1, <1>3, <1>4, RollSums

\* A profile is read as it was made, whether or not the user has a row in it.
LEMMA ProfileIs ==
    ASSUME NEW plays, NEW day, NEW t, t = Profiles(plays, day), NEW u, NEW rng \in Ranges,
           NEW R, R = RowsSince(plays, u, RangeCutoff(rng, day))
    PROVE  /\ ReadProfileSummary(t, u, rng) = SummaryRow(R)
           /\ ReadProfileCompletion(t, u, rng) = CompletionRows(R)
           /\ ReadProfileTaste(t, u, rng) = TasteRows(R)
<1>1. t.users = {r.user : r \in RollDaily(plays)}
  BY DEF Profiles, DistinctUsers
<1>2. /\ t.summary = [k \in t.users \X Ranges |->
                         SummaryRow(RowsSince(plays, k[1], RangeCutoff(k[2], day)))]
      /\ t.completion = [k \in t.users \X Ranges |->
                         CompletionRows(RowsSince(plays, k[1], RangeCutoff(k[2], day)))]
      /\ t.taste = [k \in t.users \X Ranges |->
                         TasteRows(RowsSince(plays, k[1], RangeCutoff(k[2], day)))]
  BY DEF Profiles, RowsSince
<1>3. u \notin t.users => R = {}
  BY <1>1 DEF RowsSince, FilterSince, FilterUser
<1>4. <<u, rng>> \in t.users \X Ranges <=> u \in t.users
  OBVIOUS
<1>5. QED
  BY <1>2, <1>3, <1>4 DEF ReadProfileSummary, ReadProfileCompletion, ReadProfileTaste

\* The headline that is read is the sum of the user's plays in the range.
LEMMA SummaryIs ==
    ASSUME NEW plays, PlaysOK(plays), NEW day, NEW u, NEW rng \in Ranges
    PROVE  LET s == ReadProfileSummary(Profiles(plays, day), u, rng)
               P == PlaysSince(plays, u, RangeCutoff(rng, day))
           IN  s.watched = Minutes(P) /\ s.plays = Cardinality(P)
<1>1. PICK R : R = RowsSince(plays, u, RangeCutoff(rng, day))
  OBVIOUS
<1>2. ReadProfileSummary(Profiles(plays, day), u, rng) = SummaryRow(R)
  <2>1. PICK t : t = Profiles(plays, day)
    OBVIOUS
  <2>2. ReadProfileSummary(t, u, rng) = SummaryRow(R)
    BY <1>1, <2>1, ProfileIs
  <2>3. QED
    BY <2>1, <2>2
<1>3. SummaryRow(R).watched = Watched(R) /\ SummaryRow(R).plays = Plays(R)
  BY DEF SummaryRow
<1>4. QED
  BY <1>1, <1>2, <1>3, RowsSinceSum

\* The plays of one library are plays too, and those of all are all of them.
LEMMA FilteredPlaysAre ==
    ASSUME NEW plays, PlaysOK(plays), NEW lib
    PROVE  /\ PlaysOK(FilterEventsByLibrary(plays, lib))
           /\ FilterEventsByLibrary(plays, lib) \subseteq plays
           /\ FilterEventsByLibrary(plays, Whole) = plays
<1>1. FilterEventsByLibrary(plays, lib) \subseteq plays
  BY DEF FilterEventsByLibrary
<1>2. QED
  BY <1>1, FS_Subset DEF PlaysOK, FilterEventsByLibrary

\* The plays of a range are finitely many reports.
LEMMA PlaysSinceIs ==
    ASSUME NEW plays, PlaysOK(plays), NEW u, NEW cutoff
    PROVE  /\ PlaysSince(plays, u, cutoff) \subseteq Reports
           /\ IsFiniteSet(PlaysSince(plays, u, cutoff))
<1>1. PlaysSince(plays, u, cutoff) \subseteq Counted(plays)
  BY DEF PlaysSince
<1>2. QED
  BY <1>1, CountedIs, FS_Subset

\* What Watch Stats shows of a user.
LEMMA StatsAre ==
    ASSUME NEW plays, PlaysOK(plays), NEW u, u # NoId, NEW rng
    PROVE  LET s == Stats(Daily(plays), u, Whole, rng)
               P == PlaysSince(plays, u, DayCutoff(rng, today))
           IN  s.watched = Minutes(P) /\ s.plays = Cardinality(P)
<1>1. PICK R : R = {r \in Daily(plays) : r.day >= DayCutoff(rng, today) /\ r.user = u}
  OBVIOUS
<1>2. SUFFICES ASSUME NEW s, s = Stats(Daily(plays), u, Whole, rng)
               PROVE  /\ s.watched = Minutes(PlaysSince(plays, u, DayCutoff(rng, today)))
                      /\ s.plays = Cardinality(PlaysSince(plays, u, DayCutoff(rng, today)))
  OBVIOUS
<1>3. s.watched = WatchedOf(R) /\ s.plays = PlaysOf(R)
  <2> DEFINE inRange == {r \in Daily(plays) : r.day >= DayCutoff(rng, today)
                                                /\ (Whole = Whole \/ r.library = Whole)}
             scoped == {r \in inRange : u = NoId \/ r.user = u}
  <2>1. scoped = R
    BY <1>1
  <2>2. s.watched = WatchedOf(scoped) /\ s.plays = PlaysOf(scoped)
    BY <1>2 DEF Stats, ReadWatchStats
  <2>3. QED
    BY <2>1, <2>2
<1>4. R \subseteq Daily(plays)
  BY <1>1
<1>5. CountedIn(plays, DailyOf(plays), R) = PlaysSince(plays, u, DayCutoff(rng, today))
  BY <1>1, DailyIs DEF CountedIn, PlaysSince
<1>6. QED
  BY <1>3, <1>4, <1>5, DailySums

\* A profile shows of a user what Watch Stats shows, made in another way, when
\* it was made today; made earlier, it shows no less.
THEOREM PanelsAreInStep == PagesSpec => []PanelsInStep
<1>1. PagesInv => PanelsInStep
  <2>1. SUFFICES ASSUME PagesInv, SameRun, NEW u \in Users, NEW rng \in Ranges,
                        NEW p, p = ReadProfileSummary(Tables(Whole), u, rng),
                        NEW s, s = Stats(Daily(watch), u, Whole, rng)
                 PROVE  /\ p.watched >= s.watched /\ p.plays >= s.plays
                        /\ profiles.day = today => p.watched = s.watched /\ p.plays = s.plays
    BY DEF PanelsInStep
  <2>2. /\ PlaysOK(watch) /\ profiles.plays = watch /\ u # NoId
        /\ today \in Nat /\ profiles.day \in Nat /\ profiles.day <= today
    BY <2>1, PagesAssumption DEF PagesInv, PagesTypeOK, PlaysOK, SameRun, Users
  <2>3. p = ReadProfileSummary(Profiles(watch, profiles.day), u, rng)
    BY <2>1, <2>2, FilteredPlaysAre DEF Tables
  <2>4. PICK made, shown : /\ made = PlaysSince(watch, u, RangeCutoff(rng, profiles.day))
                           /\ shown = PlaysSince(watch, u, DayCutoff(rng, today))
    OBVIOUS
  <2>5. /\ p.watched = Minutes(made) /\ p.plays = Cardinality(made)
        /\ s.watched = Minutes(shown) /\ s.plays = Cardinality(shown)
    BY <2>1, <2>2, <2>3, <2>4, SummaryIs, StatsAre
  <2>6. RangeCutoff(rng, profiles.day) <= DayCutoff(rng, today)
        /\ RangeCutoff(rng, profiles.day) \in Int /\ DayCutoff(rng, today) \in Int
        /\ (profiles.day = today => RangeCutoff(rng, profiles.day) = DayCutoff(rng, today))
    <3>1. RangeDays[rng] \in Nat
      BY PlaysAssumption
    <3>2. QED
      BY <2>2, <3>1 DEF RangeCutoff, DayCutoff
  <2>7. made \subseteq Reports /\ IsFiniteSet(made)
    BY <2>2, <2>4, PlaysSinceIs
  <2>8. shown \subseteq made
    <3>1. \A q \in Counted(watch) : Day(q) \in Nat
      BY <2>2, CountedIs, PlayIs
    <3>2. QED
      BY <2>4, <2>6, <3>1 DEF PlaysSince
  <2>9. Cardinality(shown) <= Cardinality(made) /\ Cardinality(shown) \in Nat
        /\ Cardinality(made) \in Nat /\ IsFiniteSet(shown)
    BY <2>7, <2>8, FS_Subset, FS_CardinalityType
  <2>10. Minutes(shown) <= Minutes(made) /\ Minutes(shown) \in Nat /\ Minutes(made) \in Nat
    <3>1. \A q \in made : DurOf[q] \in Nat
      BY <2>7, PlayIs DEF DurOf
    <3>2. SumFunctionOnSet(DurOf, shown) <= SumFunctionOnSet(DurOf, made)
      BY <2>7, <2>8, <3>1, SumOfSubset
    <3>3. QED
      BY <2>7, <2>8, <2>9, <3>2, MinutesAre
  <2>11. QED
    BY <2>4, <2>5, <2>6, <2>9, <2>10
<1>2. QED
  BY <1>1, PagesInvHolds, PTL

\* The plays of a user's profile in each library add up to those of all
\* libraries, but for the plays whose library could not be looked up; Unknown
\* is a library like any other.
THEOREM LibrariesDoAddUp == PagesSpec => []LibrariesAddUp
<1>1. PagesInv => LibrariesAddUp
  <2>0. SUFFICES ASSUME PagesInv, NEW u \in Users
                 PROVE  LET libs == Scopes(profiles.plays)
                            lists == [lib \in libs |-> ReadProfileList(Tables(lib), Users)]
                            unread(v) == {p \in profiles.plays : p.user = v /\ Library(p) = Whole}
                        IN  lists[Whole][u].plays
                                = SumFunction([lib \in libs \ {Whole} |-> lists[lib][u].plays])
                                      + Cardinality(unread(u))
    BY Zenon DEF LibrariesAddUp
  <2> DEFINE libs == Scopes(profiles.plays)
             lists == [lib \in libs |-> ReadProfileList(Tables(lib), Users)]
             unread == {p \in profiles.plays : p.user = u /\ Library(p) = Whole}
  <2>1. /\ libs = Scopes(profiles.plays)
        /\ lists = [lib \in libs |-> ReadProfileList(Tables(lib), Users)]
        /\ unread = {p \in profiles.plays : p.user = u /\ Library(p) = Whole}
    OBVIOUS
  <2> HIDE DEF libs, lists, unread
  <2>2. PICK plays : plays = profiles.plays /\ PlaysOK(plays)
    BY <2>0 DEF PagesInv, PagesTypeOK, PlaysOK
  <2>3. u # NoId
    BY <2>0 DEF Users
  <2> DEFINE named == libs \ {Whole}
             of == [lib \in libs |-> {p \in plays : p.user = u /\ (lib = Whole \/ Library(p) = lib)}]
             mine == {p \in plays : p.user = u}
             read == {p \in plays : p.user = u /\ Library(p) # Whole}
             one == [p \in plays |-> 1]
             lib_ == [p \in plays |-> Library(p)]
  <2>4. ASSUME NEW lib \in libs
        PROVE  lists[lib][u].plays = Cardinality(of[lib])
    <3>1. lists[lib][u] = ReadProfileSummary(Profiles(FilterEventsByLibrary(plays, lib), profiles.day), u, AllTime)
      BY <2>1, <2>2 DEF ReadProfileList, Tables
    <3>2. PICK F : F = FilterEventsByLibrary(plays, lib)
      OBVIOUS
    <3>3. PlaysOK(F) /\ F \subseteq Reports
      BY <2>2, <3>2, FilteredPlaysAre DEF PlaysOK
    <3>4. AllTime \in Ranges
      BY PlaysAssumption
    <3>5. RangeCutoff(AllTime, profiles.day) = 0
      BY DEF RangeCutoff
    <3>6. lists[lib][u].plays = Cardinality(PlaysSince(F, u, 0))
      BY <3>1, <3>2, <3>3, <3>4, <3>5, SummaryIs
    <3>7. \A p \in F : Day(p) \in Nat /\ Day(p) >= 0 /\ p.item # NoId
      BY <3>3, PlayIs
    <3>8. PlaysSince(F, u, 0) = {p \in F : p.user = u}
      BY <2>3, <3>7 DEF PlaysSince, Counted
    <3>9. {p \in F : p.user = u} = of[lib]
      BY <3>2 DEF FilterEventsByLibrary
    <3>10. QED
      BY <3>6, <3>8, <3>9
  <2>5. Whole \in libs /\ \A p \in plays : Library(p) \in libs
    BY <2>1, <2>2 DEF Scopes, DistinctEventLibraries
  <2>6. IsFiniteSet(libs)
    <3>1. IsFiniteSet({lib_[p] : p \in plays})
      <4>1. IsFiniteSet(plays)
        BY <2>2 DEF PlaysOK
      <4>2. SUFFICES ASSUME NEW K, K = {lib_[p] : p \in plays} PROVE IsFiniteSet(K)
        OBVIOUS
      <4>3. (\A p \in plays : lib_[p] \in K) /\ (\A k \in K : \E p \in plays : lib_[p] = k)
        BY <4>2
      <4> HIDE DEF lib_
      <4>4. QED
        BY <4>1, <4>3, FiniteImage
    <3>2. libs = {lib_[p] : p \in plays} \union {Whole}
      BY <2>1, <2>2 DEF Scopes, DistinctEventLibraries
    <3>3. QED
      BY <3>1, <3>2, FS_AddElement
  <2>7. /\ IsFiniteSet(mine) /\ IsFiniteSet(read) /\ IsFiniteSet(unread)
        /\ of[Whole] = mine /\ mine = read \union unread /\ read \intersect unread = {}
        /\ IsFiniteSet(named)
    <3>1. IsFiniteSet(plays) /\ mine \subseteq plays /\ read \subseteq plays /\ unread \subseteq plays
      BY <2>1, <2>2 DEF PlaysOK
    <3>2. named \subseteq libs
      OBVIOUS
    <3>3. IsFiniteSet(mine) /\ IsFiniteSet(read) /\ IsFiniteSet(unread) /\ IsFiniteSet(named)
      BY <2>6, <3>1, <3>2, FS_Subset
    <3>4. of[Whole] = mine
      BY <2>5
    <3>5. mine = read \union unread /\ read \intersect unread = {}
      BY <2>1, <2>2
    <3>6. QED
      BY <3>3, <3>4, <3>5
  <2>8. Cardinality(mine) = Cardinality(read) + Cardinality(unread)
    <3>1. Cardinality(read \intersect unread) = 0
      BY <2>7, FS_EmptySet
    <3>2. Cardinality(read \union unread)
              = Cardinality(read) + Cardinality(unread) - Cardinality(read \intersect unread)
      BY <2>7, FS_Union
    <3>3. Cardinality(read) \in Nat /\ Cardinality(unread) \in Nat
      BY <2>7, FS_CardinalityType
    <3> HIDE DEF mine, read
    <3>4. QED
      BY <2>7, <3>1, <3>2, <3>3
  <2>9. SumFunction([lib \in named |-> lists[lib][u].plays]) = Cardinality(read)
    <3>1. SUFFICES ASSUME NEW g, g = [lib \in named |-> lists[lib][u].plays]
                   PROVE  SumFunction(g) = Cardinality(read)
      OBVIOUS
    <3>2. DOMAIN g = named /\ \A lib \in named : g[lib] = Cardinality(of[lib])
      BY <2>4, <3>1
    <3>3. \A p \in read : one[p] = 1 /\ one[p] \in Int /\ lib_[p] \in named
      BY <2>5
    <3>4. \A lib \in named : \A x : x \in of[lib] <=> x \in read /\ lib_[x] = lib
      OBVIOUS
    <3> HIDE DEF named, of, read, one, lib_
    <3>5. \A lib \in named : g[lib] = SumFunctionOnSet(one, of[lib])
      <4>1. TAKE lib \in named
      <4>2. of[lib] \subseteq read
        BY <3>4
      <4>3. IsFiniteSet(of[lib]) /\ \A p \in of[lib] : one[p] = 1
        BY <2>7, <3>3, <4>2, FS_Subset
      <4>4. QED
        BY <3>2, <4>3, SumOfOnes
    <3>6. SumFunctionOnSet(one, read) = SumFunctionOnSet(g, named)
      <4>1. /\ IsFiniteSet(read) /\ IsFiniteSet(named)
            /\ \A p \in read : one[p] \in Int
            /\ \A p \in read : lib_[p] \in named
        BY <2>7, <3>3
      <4>2. QED
        BY <4>1, <3>4, <3>5, SumByKey
    <3>7. SumFunctionOnSet(one, read) = Cardinality(read)
      BY <2>7, <3>3, SumOfOnes
    <3>8. SumFunction(g) = SumFunctionOnSet(g, DOMAIN g)
      BY SumOverDomain
    <3>9. QED
      BY <3>2, <3>6, <3>7, <3>8
  <2>10. QED
    <3>1. lists[Whole][u].plays = SumFunction([lib \in named |-> lists[lib][u].plays]) + Cardinality(unread)
      BY <2>4, <2>5, <2>7, <2>8, <2>9
    <3>2. QED
      BY <3>1, Zenon DEF libs, lists, unread
<1>2. QED
  BY <1>1, PagesInvHolds, PTL

-----------------------------------------------------------------------------
(***************************************************************************)
(* What a profile says of taste.                                           *)
(***************************************************************************)
LEMMA FactsAre ==
    ASSUME NEW p \in Reports
    PROVE  /\ IsFiniteSet(FactsOf(p).genres) /\ IsFiniteSet(FactsOf(p).tags)
           /\ FactsOf(p).runtime \in Nat /\ FactsOf(p).series \in Nat
           /\ FactsOf(p).scope = About[p.item].scope
           /\ FactsOf(p).scope \in {"movie", "episode"}
           /\ FactsOf(p).scope = "movie" => FactsOf(p).series = NoId
           /\ FactsOf(p).runtime > 0 => /\ p.found = "full"
                                        /\ FactsOf(p).runtime = About[p.item].runtime
<1>1. p.item \in Items /\ IsFiniteSet({})
  BY PlayIs, FS_EmptySet
<1>2. CASE p.found = "full"
  <2>1. FactsOf(p) = About[p.item]
    BY <1>2 DEF FactsOf
  <2>2. /\ About[p.item].scope \in {"movie", "episode"}
        /\ About[p.item].series \in Nat /\ About[p.item].runtime \in Nat
        /\ About[p.item].scope = "movie" => About[p.item].series = NoId
        /\ IsFiniteSet(About[p.item].genres) /\ IsFiniteSet(About[p.item].tags)
    BY <1>1, PlaysAssumption
  <2>3. QED
    BY <1>2, <2>1, <2>2
<1>3. CASE p.found # "full"
  <2>1. /\ FactsOf(p).genres = {} /\ FactsOf(p).tags = {} /\ FactsOf(p).runtime = 0
        /\ FactsOf(p).series = NoId /\ FactsOf(p).scope = About[p.item].scope
    BY <1>3 DEF FactsOf
  <2>2. About[p.item].scope \in {"movie", "episode"}
    BY <1>1, PlaysAssumption
  <2>3. QED
    BY <1>1, <2>1, <2>2 DEF NoId
<1>4. QED
  BY <1>2, <1>3

\* The rows of the profiles hold facts of one of the plays that they count.
LEMMA RollFacts ==
    ASSUME NEW plays, PlaysOK(plays), NEW r \in RollDaily(plays)
    PROVE  \E p \in Reports : r.facts = FactsOf(p) /\ r.item = p.item
<1>1. PICK p \in Counted(plays) : r = DayRow(DayGroup(plays, p))
  BY DEF RollDaily, DayGroup
<1>2. PICK q \in DayGroup(plays, p) : r.facts = FactsOf(q)
  BY <1>1, DayRowIs
<1>3. q \in Reports /\ SameDayRow(p, q) /\ r.item = p.item
  BY <1>1, DayGroupIs, DayRowIs
<1>4. QED
  BY <1>2, <1>3 DEF SameDayRow

\* The one key that a row counts for in the dimensions that part the rows.
OnlyKey(r, dim) ==
    IF dim = "decade" THEN <<"decade", DecadeKey(r.facts.decade)>>
    ELSE <<"length", LengthBand(r.facts.scope, r.runtime)>>

\* A row counts for one decade and for one length.
LEMMA OnlyKeyIs ==
    ASSUME NEW r, NEW dim \in {"decade", "length"}, NEW k
    PROVE  k \in TasteKeys(r) /\ k[1] = dim <=> k = OnlyKey(r, dim)
<1>1. k \in TasteKeys(r) <=> \/ \E g \in r.facts.genres : k = <<"genre", g>>
                             \/ \E t \in r.facts.tags : k = <<"tag", t>>
                             \/ k = <<"decade", DecadeKey(r.facts.decade)>>
                             \/ k = <<"length", LengthBand(r.facts.scope, r.runtime)>>
  BY DEF TasteKeys
<1>2. QED
  BY <1>1 DEF OnlyKey

\* A row of taste is the sum of the rows that have its key.
LEMMA TasteOf ==
    ASSUME NEW R
    PROVE  /\ \A k : k \in DOMAIN TasteRows(R) <=> \E r \in R : k \in TasteKeys(r)
           /\ \A k \in DOMAIN TasteRows(R) :
                  /\ TasteRows(R)[k].watched = Watched({r \in R : k \in TasteKeys(r)})
                  /\ TasteRows(R)[k].plays = Plays({r \in R : k \in TasteKeys(r)})
<1>1. DOMAIN TasteRows(R) = UNION {TasteKeys(r) : r \in R}
  BY DEF TasteRows
<1>2. \A k : k \in UNION {TasteKeys(r) : r \in R} <=> \E r \in R : k \in TasteKeys(r)
  BY Zenon
<1>3. \A k \in DOMAIN TasteRows(R) :
          /\ TasteRows(R)[k].watched = Watched({r \in R : k \in TasteKeys(r)})
          /\ TasteRows(R)[k].plays = Plays({r \in R : k \in TasteKeys(r)})
  BY DEF TasteRows
<1>4. QED
  BY <1>1, <1>2, <1>3

\* Every row counts for one decade and for one length.
LEMMA TasteTotalIs ==
    ASSUME NEW R, RowsOK(R), NEW dim \in {"decade", "length"}
    PROVE  TasteTotal(TasteRows(R), dim) = Watched(R)
<1> DEFINE K == Dim(TasteRows(R), dim)
           key == [r \in R |-> OnlyKey(r, dim)]
           part == [k \in K |-> {r \in R : k \in TasteKeys(r)}]
<1>1. SUFFICES ASSUME NEW g, g = [k \in K |-> TasteRows(R)[k].watched]
               PROVE  SumFunction(g) = Watched(R)
  BY DEF TasteTotal
<1>2. K \subseteq DOMAIN TasteRows(R) /\ \A k \in DOMAIN TasteRows(R) : k \in K <=> k[1] = dim
  BY DEF Dim
<1>3. DOMAIN g = K /\ \A k \in K : g[k] = Watched(part[k])
  BY <1>1, <1>2, TasteOf
<1>4. \A k : k \in K <=> \E r \in R : k \in TasteKeys(r) /\ k[1] = dim
  <2>1. \A k : k \in DOMAIN TasteRows(R) <=> \E r \in R : k \in TasteKeys(r)
    BY TasteOf
  <2> HIDE DEF K
  <2>2. QED
    BY <1>2, <2>1
<1>5. \A k : k \in K <=> \E r \in R : k = OnlyKey(r, dim)
  BY <1>4, OnlyKeyIs
<1>6. /\ \A r \in R : key[r] \in DOMAIN g
      /\ \A k \in DOMAIN g : \E r \in R : key[r] = k
  BY <1>3, <1>5
<1>7. \A k \in DOMAIN g : \A x : x \in part[k] <=> x \in R /\ key[x] = k
  <2>1. TAKE k \in DOMAIN g
  <2>2. k[1] = dim
    BY <1>3, <1>4
  <2>3. \A x : x \in part[k] <=> x \in R /\ k \in TasteKeys(x)
    BY <1>3
  <2>4. QED
    BY <2>2, <2>3, OnlyKeyIs
<1>8. \A k \in DOMAIN g : part[k] \subseteq R
  BY <1>7
<1> HIDE DEF K, key, part
<1>9. \A k \in DOMAIN g : g[k] = SumFunctionOnSet(WatchedIn(R), part[k])
  BY <1>3, <1>8, RowsAreOK, ColumnSums, FS_Subset
<1>10. Grouped(WatchedIn(R), R, key, part, g)
  BY <1>6, <1>7, <1>9, RowsAreOK DEF Grouped
<1>11. QED
  BY <1>10, GroupsAddUp, RowsAreOK, ColumnSums

\* The baseline of a key is the sum of what its users have, which is 0 for a
\* user who has no row with the key.
LEMMA BaselineIs ==
    ASSUME NEW D, RowsOK(D), NEW users, users = DistinctUsers(D),
           NEW k \in DOMAIN BaselineRows(D),
           NEW mine, mine = [u \in users |-> TasteRows(FilterUser(D, u))],
           NEW g, DOMAIN g = users,
           \A u \in users : g[u] = IF k \in DOMAIN mine[u] THEN mine[u][k].watched ELSE 0
    PROVE  BaselineRows(D)[k] = SumFunction(g)
<1> DEFINE S == {r \in D : k \in TasteKeys(r)}
           key == [r \in D |-> r.user]
           part == [u \in users |-> {r \in S : r.user = u}]
<1>1. BaselineRows(D)[k] = Watched(S)
  BY DEF BaselineRows
<1>2. S \subseteq D /\ \A r \in S : key[r] \in users
  BY DEF DistinctUsers
<1>3. \A u \in users : \A x : x \in part[u] <=> x \in S /\ key[x] = u
  OBVIOUS
<1>4. \A u \in users : part[u] \subseteq S
  OBVIOUS
<1>5. \A u \in users : g[u] = Watched(part[u])
  <2>1. TAKE u \in users
  <2>2. {r \in FilterUser(D, u) : k \in TasteKeys(r)} = part[u]
    BY DEF FilterUser
  <2>0. mine[u] = TasteRows(FilterUser(D, u))
    OBVIOUS
  <2>3. CASE k \in DOMAIN mine[u]
    <3>1. TasteRows(FilterUser(D, u))[k].watched
              = Watched({r \in FilterUser(D, u) : k \in TasteKeys(r)})
      BY <2>0, <2>3, TasteOf
    <3>2. QED
      BY <2>0, <2>2, <2>3, <3>1
  <2>4. CASE k \notin DOMAIN mine[u]
    <3>1. \A r \in FilterUser(D, u) : k \notin TasteKeys(r)
      BY <2>0, <2>4, TasteOf
    <3>2. part[u] = {}
      BY <2>2, <3>1
    <3>3. Watched({}) = 0
      BY ColumnSums, SumEmpty, FS_EmptySet
    <3>4. QED
      BY <2>4, <3>2, <3>3
  <2>5. QED
    BY <2>3, <2>4
<1> HIDE DEF S, key, part
<1>6. IsFiniteSet(users)
  <2>1. \A u \in users : \E r \in D : r.user = u
    BY DEF DistinctUsers
  <2>2. PICK h : h = [r \in D |-> r.user]
    OBVIOUS
  <2>3. (\A r \in D : h[r] \in users) /\ \A u \in users : \E r \in D : h[r] = u
    BY <2>1, <2>2 DEF DistinctUsers
  <2>4. IsFiniteSet(D)
    BY DEF RowsOK
  <2>5. QED
    BY <2>3, <2>4, FiniteImage
<1>7. IsFiniteSet(S) /\ \A r \in S : WatchedIn(D)[r] \in Int
  BY <1>2, RowsAreOK, FS_Subset
<1>8. \A u \in users : g[u] = SumFunctionOnSet(WatchedIn(D), part[u])
  <2>1. TAKE u \in users
  <2>2. part[u] \subseteq D /\ IsFiniteSet(part[u])
    BY <1>2, <1>4, <1>7, FS_Subset
  <2>3. QED
    BY <1>5, <2>2, ColumnSums
<1>9. SumFunctionOnSet(WatchedIn(D), S) = SumFunctionOnSet(g, users)
  BY <1>2, <1>3, <1>6, <1>7, <1>8, SumByKey
<1>10. SumFunction(g) = SumFunctionOnSet(g, users)
  BY SumOverDomain
<1>11. Watched(S) = SumFunctionOnSet(WatchedIn(D), S)
  BY <1>2, <1>7, ColumnSums
<1>12. QED
  BY <1>1, <1>9, <1>10, <1>11

\* The vector of tags is what taste says of tags.
LEMMA TagVectorIs ==
    ASSUME NEW R, RowsOK(R), \A r \in R : IsFiniteSet(r.facts.tags)
    PROVE  /\ IsFiniteSet(DOMAIN TagVector(R))
           /\ \A t : t \in DOMAIN TagVector(R) <=> <<"tag", t>> \in DOMAIN TasteRows(R)
           /\ \A t \in DOMAIN TagVector(R) :
                  /\ TagVector(R)[t] = TasteRows(R)[<<"tag", t>>].watched
                  /\ TagVector(R)[t] \in Nat
<1>1. DOMAIN TagVector(R) = UNION {r.facts.tags : r \in R}
  BY DEF TagVector
<1>2. IsFiniteSet({r.facts.tags : r \in R})
  <2>1. SUFFICES ASSUME NEW K, K = {r.facts.tags : r \in R} PROVE IsFiniteSet(K)
    OBVIOUS
  <2>2. PICK h : h = [r \in R |-> r.facts.tags]
    OBVIOUS
  <2>3. (\A r \in R : h[r] \in K) /\ \A k \in K : \E r \in R : h[r] = k
    BY <2>1, <2>2
  <2>4. IsFiniteSet(R)
    BY DEF RowsOK
  <2>5. QED
    BY <2>3, <2>4, FiniteImage
<1>3. IsFiniteSet(UNION {r.facts.tags : r \in R})
  BY <1>2, FS_UNION
<1>4. \A r \in R : \A t : <<"tag", t>> \in TasteKeys(r) <=> t \in r.facts.tags
  BY DEF TasteKeys
<1>5. \A t : t \in DOMAIN TagVector(R) <=> \E r \in R : t \in r.facts.tags
  <2>1. \A t : t \in UNION {r.facts.tags : r \in R} <=> \E r \in R : t \in r.facts.tags
    BY Zenon
  <2>2. QED
    BY <1>1, <2>1
<1>6. \A t : t \in DOMAIN TagVector(R) <=> <<"tag", t>> \in DOMAIN TasteRows(R)
  BY <1>4, <1>5, TasteOf
<1>7. ASSUME NEW t \in DOMAIN TagVector(R)
      PROVE  /\ TagVector(R)[t] = TasteRows(R)[<<"tag", t>>].watched
             /\ TagVector(R)[t] \in Nat
  <2>1. PICK S : S = {r \in R : t \in r.facts.tags}
    OBVIOUS
  <2>2. TagVector(R)[t] = Watched(S)
    BY <2>1 DEF TagVector
  <2>3. {r \in R : <<"tag", t>> \in TasteKeys(r)} = S
    BY <1>4, <2>1
  <2>4. TasteRows(R)[<<"tag", t>>].watched = Watched(S)
    <3>1. PICK k : k = <<"tag", t>>
      OBVIOUS
    <3>2. k \in DOMAIN TasteRows(R)
      BY <1>6, <3>1
    <3>3. TasteRows(R)[k].watched = Watched({r \in R : k \in TasteKeys(r)})
      BY <3>2, TasteOf
    <3>4. QED
      BY <2>3, <3>1, <3>3
  <2>5. S \subseteq R /\ IsFiniteSet(S)
    BY <2>1, FS_Subset DEF RowsOK
  <2>6. \A r \in S : WatchedIn(R)[r] \in Nat
    BY <2>5 DEF RowsOK, WatchedIn
  <2>7. Watched(S) \in Nat
    <3>1. Watched(S) = SumFunctionOnSet(WatchedIn(R), S)
      BY <2>5, ColumnSums
    <3>2. SumFunctionOnSet(WatchedIn(R), S) \in Nat
      BY <2>5, <2>6, SumIsNat
    <3>3. QED
      BY <3>1, <3>2
  <2>8. QED
    BY <2>2, <2>4, <2>7
<1>8. QED
  BY <1>1, <1>3, <1>6, <1>7

WatchedTags(taste) == {k \in Dim(taste, "tag") : taste[k].watched > 0}

\* The product of two vectors is zero just when no tag has minutes of both.
LEMMA DotIs ==
    ASSUME NEW R, RowsOK(R), \A r \in R : IsFiniteSet(r.facts.tags),
           NEW T, RowsOK(T), \A r \in T : IsFiniteSet(r.facts.tags)
    PROVE  CosineAndShared(TagVector(R), TagVector(T)).dot # 0
               <=> WatchedTags(TasteRows(R)) \intersect WatchedTags(TasteRows(T)) # {}
<1>1. PICK a, b : a = TagVector(R) /\ b = TagVector(T)
  OBVIOUS
<1>2. PICK both : both = DOMAIN a \intersect DOMAIN b
  OBVIOUS
<1>3. IsFiniteSet(both) /\ both \subseteq DOMAIN a
  <2>1. both \subseteq DOMAIN a
    BY <1>2
  <2>2. IsFiniteSet(DOMAIN a)
    BY <1>1, TagVectorIs
  <2>3. QED
    BY <2>1, <2>2, FS_Subset
<1>4. \A t \in both : a[t] \in Nat /\ b[t] \in Nat
  BY <1>1, <1>2, TagVectorIs
<1>5. PICK f : f = [t \in both |-> a[t] * b[t]]
  OBVIOUS
<1>6. CosineAndShared(a, b).dot = SumFunction(f)
  BY <1>2, <1>5 DEF CosineAndShared
<1>7. SumFunction(f) = SumFunctionOnSet(f, both)
  BY <1>5, SumOverDomain
<1>8. \A t \in both : f[t] \in Nat /\ (f[t] > 0 <=> a[t] > 0 /\ b[t] > 0)
  <2>1. \A m, n \in Nat : m * n \in Nat /\ (m * n > 0 <=> m > 0 /\ n > 0)
    OBVIOUS
  <2>2. QED
    BY <1>4, <1>5, <2>1
<1>9. CosineAndShared(a, b).dot # 0 <=> \E t \in both : a[t] > 0 /\ b[t] > 0
  BY <1>3, <1>6, <1>7, <1>8, SumIsPositive
<1>10. \A k : k \in WatchedTags(TasteRows(R)) => k = <<"tag", k[2]>>
  <2>1. SUFFICES ASSUME NEW k \in DOMAIN TasteRows(R), k[1] = "tag" PROVE k = <<"tag", k[2]>>
    BY DEF WatchedTags, Dim
  <2>2. PICK r \in R : k \in TasteKeys(r)
    BY TasteOf
  <2>3. QED
    BY <2>1, <2>2 DEF TasteKeys
<1>11. \A t : <<"tag", t>> \in WatchedTags(TasteRows(R)) <=> t \in DOMAIN a /\ a[t] > 0
  BY <1>1, TagVectorIs DEF WatchedTags, Dim
<1>12. \A t : <<"tag", t>> \in WatchedTags(TasteRows(T)) <=> t \in DOMAIN b /\ b[t] > 0
  BY <1>1, TagVectorIs DEF WatchedTags, Dim
<1>13. ASSUME NEW t \in both, a[t] > 0, b[t] > 0
       PROVE  WatchedTags(TasteRows(R)) \intersect WatchedTags(TasteRows(T)) # {}
  BY <1>2, <1>11, <1>12, <1>13
<1>14. ASSUME NEW k, k \in WatchedTags(TasteRows(R)), k \in WatchedTags(TasteRows(T))
       PROVE  \E t \in both : a[t] > 0 /\ b[t] > 0
  BY <1>2, <1>10, <1>11, <1>12, <1>14
<1>15. CosineAndShared(TagVector(R), TagVector(T)).dot = CosineAndShared(a, b).dot
  BY <1>1
<1>16. QED
  BY <1>9, <1>13, <1>14, <1>15

OverlapRow(D, day, rng, u, v) ==
    LET c == CosineAndShared(TagVector(FilterSince(FilterUser(D, u), RangeCutoff(rng, day))),
                             TagVector(FilterSince(FilterUser(D, v), RangeCutoff(rng, day))))
    IN  [users |-> <<u, v>>, range |-> rng, dot |-> c.dot, shared |-> c.shared]

Overlaps(table, rng, u, v) == \E o \in table : o.users = <<u, v>> /\ o.range = rng

\* The overlap of two users is stored just when their product is not zero.
LEMMA OverlapIs ==
    ASSUME NEW D, NEW day, NEW rng \in Ranges,
           NEW u \in DistinctUsers(D), NEW v \in DistinctUsers(D)
    PROVE  Overlaps(TagOverlapRows(D, day), rng, u, v)
               <=> u < v /\ OverlapRow(D, day, rng, u, v).dot # 0
<1>1. TagOverlapRows(D, day) =
          {o \in {OverlapRow(D, day, r, a, b) : r \in Ranges, a \in DistinctUsers(D), b \in DistinctUsers(D)} :
              o.users[1] < o.users[2] /\ o.dot # 0}
  BY DEF TagOverlapRows, OverlapRow
<1>2. \A r, a, b : OverlapRow(D, day, r, a, b).users = <<a, b>> /\ OverlapRow(D, day, r, a, b).range = r
  BY DEF OverlapRow
<1>3. ASSUME NEW o \in TagOverlapRows(D, day), o.users = <<u, v>>, o.range = rng
      PROVE  u < v /\ OverlapRow(D, day, rng, u, v).dot # 0
  <2>1. PICK r \in Ranges, a \in DistinctUsers(D), b \in DistinctUsers(D) :
            o = OverlapRow(D, day, r, a, b) /\ o.users[1] < o.users[2] /\ o.dot # 0
    BY <1>1
  <2>2. r = rng /\ a = u /\ b = v
    BY <1>2, <1>3, <2>1
  <2>3. QED
    BY <1>2, <2>1, <2>2
<1>4. ASSUME u < v, OverlapRow(D, day, rng, u, v).dot # 0
      PROVE  \E o \in TagOverlapRows(D, day) : o.users = <<u, v>> /\ o.range = rng
  <2>1. PICK o : o = OverlapRow(D, day, rng, u, v)
    OBVIOUS
  <2>2. o.users = <<u, v>> /\ o.range = rng /\ o.dot # 0
    BY <1>2, <1>4, <2>1
  <2>3. o.users[1] < o.users[2]
    BY <1>4, <2>2
  <2>4. o \in TagOverlapRows(D, day)
    BY <1>1, <2>1, <2>2, <2>3
  <2>5. QED
    BY <2>2, <2>4
<1>5. QED
  BY <1>3, <1>4 DEF Overlaps

\* Every minute counts for one decade and one length, so that these parts sum to
\* the headline; the baseline is the sum of what everyone has; and two users
\* overlap just when a tag has minutes of both (tasteRows, baselineRows,
\* tagOverlapRows).
THEOREM TasteDoesAddUp == PagesSpec => []TasteAddsUp
<1>1. PagesInv => TasteAddsUp
  <2>0. SUFFICES ASSUME PagesInv
                 PROVE  LET t == Tables(Whole)
                            in(u, k) == IF k \in DOMAIN t.taste[<<u, AllTime>>]
                                        THEN t.taste[<<u, AllTime>>][k].watched ELSE 0
                            tagged(u, rng) == {k \in Dim(t.taste[<<u, rng>>], "tag") :
                                                   t.taste[<<u, rng>>][k].watched > 0}
                        IN  /\ \A u \in t.users, rng \in Ranges, d \in {"decade", "length"} :
                                   TasteTotal(t.taste[<<u, rng>>], d) = t.summary[<<u, rng>>].watched
                            /\ \A k \in DOMAIN t.baseline :
                                   t.baseline[k] = SumFunction([u \in t.users |-> in(u, k)])
                            /\ \A u, v \in t.users, rng \in Ranges : u < v =>
                                   ((\E o \in t.overlap : o.users = <<u, v>> /\ o.range = rng)
                                       <=> tagged(u, rng) \intersect tagged(v, rng) # {})
    BY Zenon DEF TasteAddsUp
  <2> DEFINE t == Tables(Whole)
  <2>1. PICK plays, day : plays = profiles.plays /\ day = profiles.day
    OBVIOUS
  <2>2. PlaysOK(plays)
    BY <2>0, <2>1 DEF PagesInv, PagesTypeOK, PlaysOK
  <2>3. t = Profiles(plays, day)
    BY <2>1, <2>2, FilteredPlaysAre DEF Tables
  <2> HIDE DEF t
  <2>4. PICK D : D = RollDaily(plays)
    OBVIOUS
  <2>5. /\ t.users = DistinctUsers(D) /\ t.baseline = BaselineRows(D)
        /\ t.overlap = TagOverlapRows(D, day)
        /\ \A u \in t.users, rng \in Ranges :
               /\ t.summary[<<u, rng>>] = SummaryRow(RowsSince(plays, u, RangeCutoff(rng, day)))
               /\ t.taste[<<u, rng>>] = TasteRows(RowsSince(plays, u, RangeCutoff(rng, day)))
    BY <2>3, <2>4 DEF Profiles, RowsSince
  <2>6. RowsOK(D) /\ \A r \in D : r.day \in Nat
    BY <2>2, <2>4, RollSums
  <2>7. \A r \in D : IsFiniteSet(r.facts.tags)
    BY <2>2, <2>4, RollFacts, FactsAre
  <2>8. \A u, cutoff : /\ RowsSince(plays, u, cutoff) \subseteq D
                       /\ RowsOK(RowsSince(plays, u, cutoff))
    BY <2>2, <2>4, RowsSinceSum
  <2>9. ASSUME NEW u \in t.users, NEW rng \in Ranges, NEW d \in {"decade", "length"}
        PROVE  TasteTotal(t.taste[<<u, rng>>], d) = t.summary[<<u, rng>>].watched
    <3>1. PICK R : R = RowsSince(plays, u, RangeCutoff(rng, day))
      OBVIOUS
    <3>2. t.taste[<<u, rng>>] = TasteRows(R) /\ t.summary[<<u, rng>>] = SummaryRow(R)
      BY <2>5, <3>1
    <3>3. TasteTotal(TasteRows(R), d) = Watched(R)
      BY <2>8, <3>1, TasteTotalIs
    <3>4. SummaryRow(R).watched = Watched(R)
      BY DEF SummaryRow
    <3>5. QED
      BY <3>2, <3>3, <3>4
  <2>10. ASSUME NEW k \in DOMAIN t.baseline
         PROVE  t.baseline[k] = SumFunction([u \in t.users |->
                    IF k \in DOMAIN t.taste[<<u, AllTime>>] THEN t.taste[<<u, AllTime>>][k].watched ELSE 0])
    <3>1. SUFFICES ASSUME NEW g, g = [u \in t.users |->
                       IF k \in DOMAIN t.taste[<<u, AllTime>>] THEN t.taste[<<u, AllTime>>][k].watched ELSE 0]
                   PROVE  t.baseline[k] = SumFunction(g)
      OBVIOUS
    <3>2. PICK mine : mine = [u \in t.users |-> TasteRows(FilterUser(D, u))]
      OBVIOUS
    <3>3. \A u \in t.users : mine[u] = t.taste[<<u, AllTime>>]
      <4>1. TAKE u \in t.users
      <4>2. RangeCutoff(AllTime, day) = 0 /\ AllTime \in Ranges
        BY PlaysAssumption DEF RangeCutoff
      <4>3. t.taste[<<u, AllTime>>] = TasteRows(RowsSince(plays, u, 0))
        BY <2>5, <4>2
      <4>4. RowsSince(plays, u, 0) = FilterUser(D, u)
        BY <2>4, <2>6 DEF RowsSince, FilterSince, FilterUser
      <4>5. QED
        BY <3>2, <4>3, <4>4
    <3>4. DOMAIN g = t.users
          /\ \A u \in t.users : g[u] = IF k \in DOMAIN mine[u] THEN mine[u][k].watched ELSE 0
      BY <3>1, <3>3
    <3>5. QED
      BY <2>5, <2>6, <3>2, <3>4, BaselineIs
  <2>11. ASSUME NEW u \in t.users, NEW v \in t.users, NEW rng \in Ranges, u < v
         PROVE  (\E o \in t.overlap : o.users = <<u, v>> /\ o.range = rng)
                    <=> {k \in Dim(t.taste[<<u, rng>>], "tag") : t.taste[<<u, rng>>][k].watched > 0}
                        \intersect {k \in Dim(t.taste[<<v, rng>>], "tag") :
                                        t.taste[<<v, rng>>][k].watched > 0} # {}
    <3>1. PICK Ru, Rv : /\ Ru = RowsSince(plays, u, RangeCutoff(rng, day))
                        /\ Rv = RowsSince(plays, v, RangeCutoff(rng, day))
      OBVIOUS
    <3>2. t.taste[<<u, rng>>] = TasteRows(Ru) /\ t.taste[<<v, rng>>] = TasteRows(Rv)
      BY <2>5, <3>1
    <3>3. PICK c : c = CosineAndShared(TagVector(Ru), TagVector(Rv))
      OBVIOUS
    <3>4. (\E o \in t.overlap : o.users = <<u, v>> /\ o.range = rng) <=> c.dot # 0
      <4>1. c.dot = OverlapRow(D, day, rng, u, v).dot
        BY <2>4, <3>1, <3>3 DEF RowsSince, OverlapRow
      <4>2. u \in DistinctUsers(D) /\ v \in DistinctUsers(D) /\ t.overlap = TagOverlapRows(D, day)
        BY <2>5
      <4>3. Overlaps(TagOverlapRows(D, day), rng, u, v) <=> u < v /\ OverlapRow(D, day, rng, u, v).dot # 0
        BY <4>2, OverlapIs
      <4>4. QED
        BY <2>11, <4>1, <4>2, <4>3 DEF Overlaps
    <3>5. /\ RowsOK(Ru) /\ RowsOK(Rv)
          /\ \A r \in Ru : IsFiniteSet(r.facts.tags)
          /\ \A r \in Rv : IsFiniteSet(r.facts.tags)
      BY <2>7, <2>8, <3>1
    <3>6. c.dot # 0 <=> WatchedTags(TasteRows(Ru)) \intersect WatchedTags(TasteRows(Rv)) # {}
      BY <3>3, <3>5, DotIs
    <3>7. QED
      BY <3>2, <3>4, <3>6 DEF WatchedTags
  <2>12. QED
    BY <2>9, <2>10, <2>11, Zenon DEF t
<1>2. QED
  BY <1>1, PagesInvHolds, PTL

-----------------------------------------------------------------------------
(***************************************************************************)
(* The verdicts of a profile.                                              *)
(***************************************************************************)
OnDay(P, d) == {q \in P : <<q.item, Day(q)>> = d}
Timed(S) == \E q \in S : q.found = "full" /\ FactsOf(q).runtime > 0

\* The runtime of a row is that of its title, if any of its plays has it.
LEMMA DayRuntimeIs ==
    ASSUME NEW plays, PlaysOK(plays), NEW p \in Counted(plays),
           NEW r, r = DayRow(DayGroup(plays, p))
    PROVE  /\ r.runtime \in Nat
           /\ r.runtime > 0 <=> Timed(DayGroup(plays, p))
           /\ r.runtime > 0 => r.runtime = About[p.item].runtime
<1>1. PICK G : G = DayGroup(plays, p)
  OBVIOUS
<1>2. G \subseteq Reports /\ \A q \in G : q.item = p.item
  BY <1>1, DayGroupIs DEF SameDayRow
<1>3. PICK T : T = {q \in G : FactsOf(q).runtime > 0}
  OBVIOUS
<1>4. r.runtime = IF T = {} THEN 0 ELSE FactsOf(Earliest(T)).runtime
  BY <1>1, <1>3 DEF DayRow
<1>5. T \subseteq Reports /\ T \subseteq G
  BY <1>2, <1>3
<1>6. \A q \in Reports : FactsOf(q).runtime > 0 => q.found = "full"
  BY FactsAre
<1>7. Timed(G) <=> T # {}
  BY <1>2, <1>3, <1>6 DEF Timed
<1>8. CASE T = {}
  BY <1>1, <1>4, <1>7, <1>8
<1>9. CASE T # {}
  <2>1. PICK e \in T : e = Earliest(T)
    BY <1>5, <1>9, EarliestIs
  <2>2. e \in Reports /\ e.item = p.item /\ FactsOf(e).runtime > 0 /\ r.runtime = FactsOf(e).runtime
    BY <1>2, <1>3, <1>4, <1>5, <1>9, <2>1
  <2>3. FactsOf(e).runtime \in Nat /\ FactsOf(e).runtime = About[p.item].runtime
    BY <2>2, FactsAre
  <2>4. QED
    BY <1>1, <1>7, <1>9, <2>2, <2>3
<1>10. QED
  BY <1>8, <1>9

\* A row is a day on which the user watched a title.
LEMMA RowsAreDays ==
    ASSUME NEW plays, PlaysOK(plays), NEW u, NEW cutoff,
           NEW R, R = RowsSince(plays, u, cutoff), NEW P, P = PlaysSince(plays, u, cutoff)
    PROVE  /\ \A p \in P : \E r \in R : r.item = p.item /\ r.day = Day(p)
           /\ \A r \in R : \E p \in P : r.item = p.item /\ r.day = Day(p)
           /\ \A r, s \in R : r.item = s.item /\ r.day = s.day => r = s
           /\ \A r \in R : /\ r.watched = Minutes(OnDay(P, <<r.item, r.day>>))
                           /\ r.runtime \in Nat
                           /\ r.runtime > 0 <=> Timed(OnDay(P, <<r.item, r.day>>))
                           /\ r.runtime > 0 => r.runtime = About[r.item].runtime
<1>1. R = {r \in RollDaily(plays) : r.user = u /\ r.day >= cutoff}
  BY DEF RowsSince, FilterSince, FilterUser
<1>2. P = {p \in Counted(plays) : p.user = u /\ Day(p) >= cutoff}
  BY DEF PlaysSince
<1>3. \A r \in R : \E p \in P : r = DayRow(DayGroup(plays, p))
  <2>1. TAKE r \in R
  <2>2. PICK p \in Counted(plays) : RollOf(plays)[p] = r /\ r.user = p.user /\ r.day = Day(p)
    BY <1>1, RollIs
  <2>3. QED
    BY <1>1, <1>2, <2>2 DEF RollOf
<1>4. \A p \in P : /\ p \in Counted(plays) /\ DayRow(DayGroup(plays, p)) \in R
                   /\ DayRow(DayGroup(plays, p)).item = p.item
                   /\ DayRow(DayGroup(plays, p)).day = Day(p)
  <2>1. TAKE p \in P
  <2>2. p \in Counted(plays) /\ p.user = u /\ Day(p) >= cutoff
    BY <1>2
  <2>3. /\ RollOf(plays)[p] \in RollDaily(plays) /\ RollOf(plays)[p].user = p.user
        /\ RollOf(plays)[p].item = p.item /\ RollOf(plays)[p].day = Day(p)
    BY <2>2, RollIs
  <2>4. QED
    BY <1>1, <2>2, <2>3 DEF RollOf
<1>5. \A p, q \in P : p.item = q.item /\ Day(p) = Day(q)
                          => DayRow(DayGroup(plays, p)) = DayRow(DayGroup(plays, q))
  <2>1. TAKE p, q \in P
  <2>2. p.item = q.item /\ Day(p) = Day(q) => q \in DayGroup(plays, p)
    BY <1>2 DEF DayGroup, SameDayRow
  <2>3. QED
    BY <1>4, <2>2, DayRowOf
<1>6. \A p \in P : DayGroup(plays, p) = OnDay(P, <<p.item, Day(p)>>)
  <2>1. TAKE p \in P
  <2>2. \A q : q \in DayGroup(plays, p) <=> q \in P /\ <<q.item, Day(q)>> = <<p.item, Day(p)>>
    BY <1>2 DEF DayGroup, SameDayRow
  <2>3. QED
    BY <2>2 DEF OnDay
<1>7. ASSUME NEW r \in R
      PROVE  /\ \E p \in P : r.item = p.item /\ r.day = Day(p)
             /\ r.watched = Minutes(OnDay(P, <<r.item, r.day>>))
             /\ r.runtime \in Nat
             /\ r.runtime > 0 <=> Timed(OnDay(P, <<r.item, r.day>>))
             /\ r.runtime > 0 => r.runtime = About[r.item].runtime
  <2>1. PICK p \in P : r = DayRow(DayGroup(plays, p))
    BY <1>3
  <2>2. p \in Counted(plays) /\ r.item = p.item /\ r.day = Day(p)
    BY <1>4, <2>1
  <2>3. DayGroup(plays, p) = OnDay(P, <<r.item, r.day>>)
    BY <1>6, <2>2
  <2>4. r.watched = Minutes(DayGroup(plays, p))
    BY <2>1, <2>2, DayRowIs
  <2>5. /\ r.runtime \in Nat
        /\ r.runtime > 0 <=> Timed(DayGroup(plays, p))
        /\ r.runtime > 0 => r.runtime = About[p.item].runtime
    BY <2>1, <2>2, DayRuntimeIs
  <2>6. QED
    BY <2>2, <2>3, <2>4, <2>5
<1>8. \A r, s \in R : r.item = s.item /\ r.day = s.day => r = s
  BY <1>3, <1>4, <1>5
<1>9. QED
  BY <1>4, <1>7, <1>8

Ones(S) == [x \in S |-> 1]

\* The sizes of the groups that a key makes of S, in a table.
Counts(S, key, part, g) ==
    /\ IsFiniteSet(S) /\ \A x \in S : key[x] \in DOMAIN g
    /\ \A k \in DOMAIN g :
           /\ \E x \in S : key[x] = k
           /\ \A x : x \in part[k] <=> x \in S /\ key[x] = k
           /\ g[k] = Cardinality(part[k])

\* When every element is counted under one key, the counts sum to all of them.
LEMMA CountsAddUp ==
    ASSUME NEW S, NEW key, NEW part, NEW g, Counts(S, key, part, g)
    PROVE  SumFunction(g) = Cardinality(S)
<1>0. /\ IsFiniteSet(S) /\ \A x \in S : key[x] \in DOMAIN g
      /\ \A k \in DOMAIN g :
             /\ \E x \in S : key[x] = k
             /\ \A x : x \in part[k] <=> x \in S /\ key[x] = k
             /\ g[k] = Cardinality(part[k])
  BY DEF Counts
<1>1. \A x \in S : Ones(S)[x] = 1 /\ Ones(S)[x] \in Int
  BY DEF Ones
<1>2. \A k \in DOMAIN g : part[k] \subseteq S
  BY <1>0
<1>3. \A k \in DOMAIN g : g[k] = SumFunctionOnSet(Ones(S), part[k])
  <2>1. TAKE k \in DOMAIN g
  <2>2. IsFiniteSet(part[k]) /\ \A x \in part[k] : Ones(S)[x] = 1
    BY <1>0, <1>1, <1>2, FS_Subset
  <2>3. QED
    BY <1>0, <2>2, SumOfOnes
<1>4. Grouped(Ones(S), S, key, part, g)
  BY <1>0, <1>1, <1>3 DEF Grouped
<1>5. QED
  BY <1>0, <1>1, <1>4, GroupsAddUp, SumOfOnes

VerdictKey(r) == <<r.facts.scope, Verdict(r)>>
With(R, v) == {r \in R : Verdict(r) = v}

\* The buckets hold every row once, and those of a verdict its rows.
LEMMA CompletionIs ==
    ASSUME NEW R, IsFiniteSet(R), NEW v
    PROVE  /\ SumFunction(CompletionRows(R)) = Cardinality(R)
           /\ SumFunction([k \in {j \in DOMAIN CompletionRows(R) : j[2] = v} |-> CompletionRows(R)[k]])
                  = Cardinality(With(R, v))
<1>1. PICK c : c = CompletionRows(R)
  OBVIOUS
<1>2. /\ \A k : k \in DOMAIN c <=> \E r \in R : VerdictKey(r) = k
      /\ \A k \in DOMAIN c : c[k] = Cardinality({r \in R : VerdictKey(r) = k})
  BY <1>1 DEF CompletionRows, VerdictKey
<1>3. PICK key : key = [r \in R |-> VerdictKey(r)]
  OBVIOUS
<1>4. PICK part : part = [k \in DOMAIN c |-> {r \in R : VerdictKey(r) = k}]
  OBVIOUS
<1>5. SumFunction(c) = Cardinality(R)
  <2>1. Counts(R, key, part, c)
    BY <1>2, <1>3, <1>4 DEF Counts
  <2>2. QED
    BY <2>1, CountsAddUp
<1>6. PICK g : g = [k \in {j \in DOMAIN c : j[2] = v} |-> c[k]]
  OBVIOUS
<1>7. SumFunction(g) = Cardinality(With(R, v))
  <2>1. With(R, v) \subseteq R /\ IsFiniteSet(With(R, v))
    <3>1. With(R, v) \subseteq R
      BY DEF With
    <3>2. QED
      BY <3>1, FS_Subset
  <2>2. \A r \in R : VerdictKey(r)[2] = Verdict(r)
    BY DEF VerdictKey
  <2>3. /\ \A k : k \in DOMAIN g <=> k \in DOMAIN c /\ k[2] = v
        /\ \A k \in DOMAIN g : g[k] = c[k]
    BY <1>6
  <2>4. \A r \in R : key[r] = VerdictKey(r) /\ (r \in With(R, v) <=> VerdictKey(r)[2] = v)
    BY <1>3, <2>2 DEF With
  <2>5. \A r \in With(R, v) : key[r] \in DOMAIN g
    BY <1>2, <2>1, <2>3, <2>4
  <2>6. \A k \in DOMAIN g : \E r \in With(R, v) : key[r] = k
    BY <1>2, <2>3, <2>4
  <2>7. \A k \in DOMAIN g : \A x : x \in part[k] <=> x \in With(R, v) /\ key[x] = k
    BY <1>4, <2>1, <2>3, <2>4
  <2>8. \A k \in DOMAIN g : g[k] = Cardinality(part[k])
    BY <1>2, <1>4, <2>3
  <2>9. Counts(With(R, v), key, part, g)
    BY <2>1, <2>5, <2>6, <2>7, <2>8 DEF Counts
  <2>10. QED
    BY <2>9, CountsAddUp
<1>8. QED
  BY <1>1, <1>5, <1>6, <1>7

TitleOf(r) == IF r.facts.scope = "movie" THEN <<"movie", r.item>> ELSE <<"series", r.facts.series>>
AbandonedRow(B, t) == [scope |-> t[1], id |-> t[2], count |-> Cardinality({r \in B : TitleOf(r) = t})]

\* A bailed row counts for one title at most.
LEMMA AbandonedIs ==
    ASSUME NEW R, IsFiniteSet(R), NEW A, A \subseteq AbandonedRows(R)
    PROVE  SumFunction([a \in A |-> a.count]) <= Cardinality(With(R, "bailed"))
<1>1. PICK B : B = With(R, "bailed")
  OBVIOUS
<1>2. IsFiniteSet(B)
  BY <1>1, FS_Subset DEF With
<1>3. \A a \in A : \E r \in B : a = AbandonedRow(B, TitleOf(r))
  <2> DEFINE titles == {TitleOf(r) : r \in B} \ {<<"series", NoId>>}
             all == {AbandonedRow(B, t) : t \in titles}
  <2>1. AbandonedRows(R) \subseteq all
    BY <1>1 DEF AbandonedRows, AbandonedRow, TitleOf, With, Best
  <2>2. QED
    BY <2>1
<1>4. \A r \in B : TitleOf(r) = <<TitleOf(r)[1], TitleOf(r)[2]>>
  BY DEF TitleOf
<1>5. PICK at : at = [a \in A |-> <<a.scope, a.id>>]
  OBVIOUS
<1>6. \A a \in A : /\ a = AbandonedRow(B, at[a])
                   /\ a.count = Cardinality({r \in B : TitleOf(r) = at[a]})
                   /\ \E r \in B : at[a] = TitleOf(r)
  <2>1. TAKE a \in A
  <2>2. PICK r \in B : a = AbandonedRow(B, TitleOf(r))
    BY <1>3
  <2>3. at[a] = TitleOf(r)
    BY <1>4, <1>5, <2>2 DEF AbandonedRow
  <2>4. QED
    BY <2>2, <2>3 DEF AbandonedRow
<1>7. PICK S : S = {r \in B : \E a \in A : at[a] = TitleOf(r)}
  OBVIOUS
<1>8. PICK key : key = [r \in S |-> CHOOSE a \in A : at[a] = TitleOf(r)]
  OBVIOUS
<1>9. \A r \in S : key[r] \in A /\ at[key[r]] = TitleOf(r)
  BY <1>7, <1>8
<1>10. \A a, b \in A : at[a] = at[b] => a = b
  BY <1>6
<1>11. PICK part : part = [a \in A |-> {r \in B : TitleOf(r) = at[a]}]
  OBVIOUS
<1>12. \A a \in A : \A r : r \in part[a] <=> r \in S /\ key[r] = a
  BY <1>7, <1>9, <1>10, <1>11
<1>13. ASSUME NEW a \in A PROVE \E r \in S : key[r] = a
  <2>1. PICK r \in B : at[a] = TitleOf(r)
    BY <1>6
  <2>2. r \in S
    BY <1>7, <2>1
  <2>3. key[r] \in A /\ at[key[r]] = at[a]
    BY <1>9, <2>1, <2>2
  <2>4. QED
    BY <1>10, <2>2, <2>3
<1>14. PICK g : g = [a \in A |-> a.count]
  OBVIOUS
<1>15. DOMAIN g = A /\ \A a \in A : g[a] = Cardinality(part[a])
  BY <1>6, <1>11, <1>14
<1>16. S \subseteq B /\ IsFiniteSet(S)
  BY <1>2, <1>7, FS_Subset
<1>17. Counts(S, key, part, g)
  BY <1>9, <1>12, <1>13, <1>15, <1>16 DEF Counts
<1>18. SumFunction(g) = Cardinality(S)
  BY <1>17, CountsAddUp
<1>19. Cardinality(S) <= Cardinality(B)
  BY <1>2, <1>16, FS_Subset
<1>20. QED
  BY <1>1, <1>14, <1>18, <1>19

\* What two of the verdicts mean; they exclude one another.
LEMMA VerdictIs ==
    ASSUME NEW r, r.watched \in Nat, r.runtime \in Nat
    PROVE  /\ Verdict(r) # "unknown" <=> r.runtime > 0
           /\ Verdict(r) = "finished" <=> r.runtime > 0 /\ 10 * r.watched >= 9 * r.runtime
<1>1. PICK w \in Nat, m \in Nat : w = r.watched /\ m = r.runtime
  OBVIOUS
<1>2. Verdict(r) = IF m = 0 THEN "unknown"
                   ELSE CASE 100 * w >= 90 * m -> "finished"
                          [] 100 * w < 25 * m -> "bailed"
                          [] OTHER -> "partial"
  BY <1>1 DEF Verdict
<1>3. CASE m = 0
  BY <1>1, <1>2, <1>3
<1>4. CASE m # 0
  <2>1. m > 0 /\ (100 * w >= 90 * m <=> 10 * w >= 9 * m) /\ ~(100 * w >= 90 * m /\ 100 * w < 25 * m)
    BY <1>4
  <2>2. Verdict(r) = "finished" <=> 100 * w >= 90 * m
    BY <1>2, <1>4, <2>1
  <2>3. Verdict(r) # "unknown"
    BY <1>2, <1>4
  <2>4. QED
    BY <1>1, <2>1, <2>2, <2>3
<1>5. QED
  BY <1>3, <1>4

\* All sittings of a title on one day are judged together, by its runtime if any
\* of them has it; every such day is in one bucket; and the shares of the
\* headline are those of the buckets (rollDaily, completionRows, summaryRow).
THEOREM DaysAreJudgedTogether == PagesSpec => []DayVerdicts
<1>1. PagesInv => DayVerdicts
  <2>0. SUFFICES ASSUME PagesInv, NEW u \in Users, NEW rng \in Ranges
                 PROVE  LET t == Tables(Whole)
                            p == ProfileOf(t, u, rng)
                            days == {<<q.item, Day(q)>> : q \in PlaysIn(u, rng)}
                            on(d) == {q \in PlaysIn(u, rng) : <<q.item, Day(q)>> = d}
                            timed == {d \in days : \E q \in on(d) : q.found = "full" /\ FactsOf(q).runtime > 0}
                            finished == {d \in timed : 10 * Minutes(on(d)) >= 9 * About[d[1]].runtime}
                            bucket(v) == SumFunction([k \in {j \in DOMAIN p.completion : j[2] = v}
                                                         |-> p.completion[k]])
                        IN  /\ SumFunction(p.completion) = Cardinality(days)
                            /\ bucket("finished") = Cardinality(finished)
                            /\ p.summary.finished = <<Cardinality(finished), Cardinality(timed)>>
                            /\ p.summary.bailed = <<bucket("bailed"), Cardinality(timed)>>
                            /\ SumFunction([a \in p.abandoned |-> a.count]) <= bucket("bailed")
    BY Zenon DEF DayVerdicts
  <2>1. PICK plays, day : plays = profiles.plays /\ day = profiles.day
    OBVIOUS
  <2>2. PlaysOK(plays) /\ u # NoId
    BY <2>0, <2>1 DEF PagesInv, PagesTypeOK, PlaysOK, Users
  <2>3. PICK P : P = PlaysSince(plays, u, RangeCutoff(rng, day))
    OBVIOUS
  <2>4. P = PlaysIn(u, rng)
    <3>1. \A q \in plays : q.item # NoId
      BY <2>2, PlayIs DEF PlaysOK
    <3>2. QED
      BY <2>1, <2>2, <2>3, <3>1 DEF PlaysIn, PlaysSince, Counted
  <2>5. PICK R : R = RowsSince(plays, u, RangeCutoff(rng, day))
    OBVIOUS
  <2>6. PICK t : t = Tables(Whole)
    OBVIOUS
  <2>7. t = Profiles(plays, day)
    BY <2>1, <2>2, <2>6, FilteredPlaysAre DEF Tables
  <2>8. PICK p : p = ProfileOf(t, u, rng)
    OBVIOUS
  <2>9. /\ p.summary = SummaryRow(R) /\ p.completion = CompletionRows(R)
        /\ (p.abandoned = AbandonedRows(R) \/ p.abandoned = {})
    <3>1. ReadProfileSummary(t, u, rng) = SummaryRow(R) /\ ReadProfileCompletion(t, u, rng) = CompletionRows(R)
      BY <2>5, <2>7, ProfileIs
    <3>2. ReadProfileAbandoned(t, u, rng) = AbandonedRows(R) \/ ReadProfileAbandoned(t, u, rng) = {}
      <4>1. t.abandoned = [k \in t.users \X Ranges |->
                              AbandonedRows(RowsSince(plays, k[1], RangeCutoff(k[2], day)))]
        BY <2>7 DEF Profiles, RowsSince
      <4>2. QED
        BY <2>5, <4>1 DEF ReadProfileAbandoned
    <3>3. QED
      BY <2>8, <3>1, <3>2 DEF ProfileOf
  <2>10. IsFiniteSet(R) /\ \A r \in R : r.watched \in Nat
    BY <2>2, <2>5, RowsSinceSum DEF RowsOK
  <2> DEFINE days == {<<q.item, Day(q)>> : q \in P}
             timed == {d \in days : Timed(OnDay(P, d))}
             finished == {d \in timed : 10 * Minutes(OnDay(P, d)) >= 9 * About[d[1]].runtime}
             dayOf == [r \in R |-> <<r.item, r.day>>]
             judged == {r \in R : Verdict(r) # "unknown"}
  <2>11. /\ \A r \in R : dayOf[r] \in days
         /\ \A d \in days : \E r \in R : dayOf[r] = d
         /\ \A r, s \in R : dayOf[r] = dayOf[s] => r = s
         /\ \A r \in R : /\ r.watched = Minutes(OnDay(P, dayOf[r]))
                         /\ r.runtime \in Nat
                         /\ r.runtime > 0 <=> Timed(OnDay(P, dayOf[r]))
                         /\ r.runtime > 0 => r.runtime = About[dayOf[r][1]].runtime
    <3>1. /\ \A q \in P : \E r \in R : r.item = q.item /\ r.day = Day(q)
          /\ \A r \in R : \E q \in P : r.item = q.item /\ r.day = Day(q)
          /\ \A r, s \in R : r.item = s.item /\ r.day = s.day => r = s
          /\ \A r \in R : /\ r.watched = Minutes(OnDay(P, <<r.item, r.day>>))
                          /\ r.runtime \in Nat
                          /\ r.runtime > 0 <=> Timed(OnDay(P, <<r.item, r.day>>))
                          /\ r.runtime > 0 => r.runtime = About[r.item].runtime
      BY <2>2, <2>3, <2>5, RowsAreDays
    <3>2. QED
      BY <3>1
  <2>12. \A r \in R : /\ Verdict(r) # "unknown" <=> dayOf[r] \in timed
                      /\ Verdict(r) = "finished" <=> dayOf[r] \in finished
    <3>1. TAKE r \in R
    <3>2. r.watched \in Nat /\ r.runtime \in Nat
      BY <2>10, <2>11
    <3>3. /\ Verdict(r) # "unknown" <=> r.runtime > 0
          /\ Verdict(r) = "finished" <=> r.runtime > 0 /\ 10 * r.watched >= 9 * r.runtime
      BY <3>2, VerdictIs
    <3>4. dayOf[r] \in timed <=> r.runtime > 0
      BY <2>11
    <3>5. dayOf[r] \in finished <=> r.runtime > 0 /\ 10 * r.watched >= 9 * r.runtime
      BY <2>11, <3>4
    <3>6. QED
      BY <3>3, <3>4, <3>5
  <2>13. timed \subseteq days /\ finished \subseteq timed
         /\ judged \subseteq R /\ With(R, "finished") \subseteq R
    BY DEF With
  <2> HIDE DEF days, timed, finished, dayOf, judged
  <2>14. Cardinality(R) = Cardinality(days)
    <3>1. /\ \A r \in R : dayOf[r] \in days
          /\ \A d \in days : \E r \in R : dayOf[r] = d
          /\ \A r, s \in R : dayOf[r] = dayOf[s] => r = s
      BY <2>11
    <3>2. QED
      BY <2>10, <3>1, FiniteImage
  <2>15. Cardinality(judged) = Cardinality(timed)
    <3>1. /\ \A r \in judged : dayOf[r] \in timed
          /\ \A d \in timed : \E r \in judged : dayOf[r] = d
          /\ \A r, s \in judged : dayOf[r] = dayOf[s] => r = s
      BY <2>11, <2>12, <2>13 DEF judged
    <3>2. IsFiniteSet(judged)
      BY <2>10, <2>13, FS_Subset
    <3>3. QED
      BY <3>1, <3>2, FiniteImage
  <2>16. Cardinality(With(R, "finished")) = Cardinality(finished)
    <3>1. /\ \A r \in With(R, "finished") : dayOf[r] \in finished
          /\ \A d \in finished : \E r \in With(R, "finished") : dayOf[r] = d
          /\ \A r, s \in With(R, "finished") : dayOf[r] = dayOf[s] => r = s
      BY <2>11, <2>12, <2>13 DEF With
    <3>2. IsFiniteSet(With(R, "finished"))
      BY <2>10, <2>13, FS_Subset
    <3>3. QED
      BY <3>1, <3>2, FiniteImage
  <2>17. PICK bucket : bucket = [v \in {"finished", "bailed"} |->
             SumFunction([k \in {j \in DOMAIN p.completion : j[2] = v} |-> p.completion[k]])]
    OBVIOUS
  <2>18. /\ SumFunction(p.completion) = Cardinality(R)
         /\ \A v \in {"finished", "bailed"} : bucket[v] = Cardinality(With(R, v))
    BY <2>9, <2>10, <2>17, CompletionIs
  <2>19. /\ p.summary.finished = <<Cardinality(With(R, "finished")), Cardinality(judged)>>
         /\ p.summary.bailed = <<Cardinality(With(R, "bailed")), Cardinality(judged)>>
    <3>1. judged = SummaryVerdicts(R)
      BY DEF judged, SummaryVerdicts
    <3>2. /\ SummaryRow(R).finished = <<Cardinality(With(R, "finished")), Cardinality(SummaryVerdicts(R))>>
          /\ SummaryRow(R).bailed = <<Cardinality(With(R, "bailed")), Cardinality(SummaryVerdicts(R))>>
      BY DEF SummaryRow, With
    <3>3. QED
      BY <2>9, <3>1, <3>2
  <2>20. SumFunction([a \in p.abandoned |-> a.count]) <= Cardinality(With(R, "bailed"))
    <3>1. p.abandoned \subseteq AbandonedRows(R)
      BY <2>9
    <3>2. QED
      BY <2>10, <3>1, AbandonedIs
  <2>21. /\ SumFunction(p.completion) = Cardinality(days)
         /\ bucket["finished"] = Cardinality(finished)
         /\ p.summary.finished = <<Cardinality(finished), Cardinality(timed)>>
         /\ p.summary.bailed = <<bucket["bailed"], Cardinality(timed)>>
         /\ SumFunction([a \in p.abandoned |-> a.count]) <= bucket["bailed"]
    BY <2>14, <2>15, <2>16, <2>18, <2>19, <2>20
  <2>22. /\ bucket["finished"] = SumFunction([k \in {j \in DOMAIN p.completion : j[2] = "finished"} |-> p.completion[k]])
         /\ bucket["bailed"] = SumFunction([k \in {j \in DOMAIN p.completion : j[2] = "bailed"} |-> p.completion[k]])
    BY <2>17
  <2>23. QED
    BY <2>4, <2>6, <2>8, <2>21, <2>22, Zenon DEF days, timed, finished, Timed, OnDay
<1>2. QED
  BY <1>1, PagesInvHolds, PTL

-----------------------------------------------------------------------------
(***************************************************************************)
(* What sets a user apart.                                                 *)
(***************************************************************************)
\* Not everyone can have a greater share than everyone together has.
LEMMA NotAllAbove ==
    ASSUME NEW U, IsFiniteSet(U), U # {}, NEW x, NEW m,
           \A u \in U : x[u] \in Nat /\ m[u] \in Nat /\ m[u] # 0,
           NEW b, b = SumFunctionOnSet(x, U), NEW all, all = SumFunctionOnSet(m, U)
    PROVE  all # 0 /\ \E u \in U : x[u] * all <= b * m[u]
<1>1. b \in Nat /\ all \in Nat
  BY SumIsNat
<1>2. all # 0
  BY SumIsPositive
<1>3. SUFFICES ASSUME \A u \in U : ~(x[u] * all <= b * m[u]) PROVE FALSE
  BY <1>2
<1>4. PICK h, l : h = [u \in U |-> all * x[u]] /\ l = [u \in U |-> b * m[u]]
  OBVIOUS
<1>5. \A i, j \in Nat : i * j \in Nat /\ i * j = j * i
  OBVIOUS
<1>6. \A u \in U : /\ h[u] = all * x[u] /\ l[u] = b * m[u] /\ h[u] \in Int /\ l[u] \in Int
                   /\ l[u] < h[u]
  BY <1>1, <1>3, <1>4, <1>5
<1>7. SumFunctionOnSet(h, U) = all * b
  <2>1. \A u \in U : x[u] \in Int /\ h[u] = all * x[u]
    BY <1>6
  <2>2. all \in Int
    BY <1>1
  <2>3. QED
    BY <2>1, <2>2, SumScaled
<1>8. SumFunctionOnSet(l, U) = b * all
  <2>1. \A u \in U : m[u] \in Int /\ l[u] = b * m[u]
    BY <1>6
  <2>2. b \in Int
    BY <1>1
  <2>3. QED
    BY <2>1, <2>2, SumScaled
<1>9. SumFunctionOnSet(l, U) < SumFunctionOnSet(h, U)
  <2>1. \A u \in U : l[u] \in Int /\ h[u] \in Int /\ l[u] <= h[u]
    BY <1>6
  <2>2. \E u \in U : l[u] < h[u]
    BY <1>6
  <2>3. QED
    BY <2>1, <2>2, SumGrows
<1>10. all * b = b * all /\ all * b \in Nat
  BY <1>1, <1>5
<1>11. QED
  BY <1>7, <1>8, <1>9, <1>10

HasOf(taste, k) == IF k \in DOMAIN taste THEN taste[k].watched ELSE 0

\* The minutes of a key are a number, zero for one that is not there.
LEMMA TasteIsNat ==
    ASSUME NEW R, RowsOK(R), NEW k
    PROVE  HasOf(TasteRows(R), k) \in Nat
<1>1. CASE k \notin DOMAIN TasteRows(R)
  BY <1>1 DEF HasOf
<1>2. CASE k \in DOMAIN TasteRows(R)
  <2>1. PICK S : S = {r \in R : k \in TasteKeys(r)}
    OBVIOUS
  <2>2. HasOf(TasteRows(R), k) = Watched(S)
    BY <1>2, <2>1, TasteOf DEF HasOf
  <2>3. S \subseteq R /\ IsFiniteSet(S)
    BY <2>1, FS_Subset DEF RowsOK
  <2>4. Watched(S) = SumFunctionOnSet(WatchedIn(R), S)
    BY <2>3, ColumnSums
  <2>5. \A r \in S : WatchedIn(R)[r] \in Nat
    BY <2>3 DEF RowsOK, WatchedIn
  <2>6. QED
    BY <2>2, <2>3, <2>4, <2>5, SumIsNat
<1>3. QED
  BY <1>1, <1>2

\* The keys of a dimension are finitely many.
LEMMA GenresAreFinite ==
    ASSUME NEW R, IsFiniteSet(R), \A r \in R : IsFiniteSet(r.facts.genres)
    PROVE  IsFiniteSet(Dim(BaselineRows(R), "genre"))
<1>1. PICK K : K = Dim(BaselineRows(R), "genre")
  OBVIOUS
<1>2. DOMAIN BaselineRows(R) = UNION {TasteKeys(r) : r \in R}
  BY DEF BaselineRows
<1>3. \A k : k \in UNION {TasteKeys(r) : r \in R} <=> \E r \in R : k \in TasteKeys(r)
  BY Zenon
<1>4. \A k \in K : \E r \in R : k \in TasteKeys(r) /\ k[1] = "genre"
  BY <1>1, <1>2, <1>3 DEF Dim
<1>5. \A r \in R : \A k \in TasteKeys(r) : k[1] = "genre" => k = <<"genre", k[2]>> /\ k[2] \in r.facts.genres
  BY DEF TasteKeys
<1>6. PICK G : G = UNION {r.facts.genres : r \in R}
  OBVIOUS
<1>7. \A k \in K : k = <<"genre", k[2]>> /\ k[2] \in G
  <2>1. TAKE k \in K
  <2>2. PICK r \in R : k = <<"genre", k[2]>> /\ k[2] \in r.facts.genres
    BY <1>4, <1>5
  <2>3. QED
    BY <1>6, <2>2
<1>8. IsFiniteSet(G)
  <2>1. SUFFICES ASSUME NEW W, W = {r.facts.genres : r \in R}
                 PROVE  IsFiniteSet(UNION W)
    BY <1>6
  <2>2. PICK h : h = [r \in R |-> r.facts.genres]
    OBVIOUS
  <2>3. (\A r \in R : h[r] \in W) /\ \A k \in W : \E r \in R : h[r] = k
    BY <2>1, <2>2
  <2>4. IsFiniteSet(W)
    BY <2>3, FiniteImage
  <2>5. QED
    BY <2>1, <2>4, FS_UNION
<1>9. PICK h : h = [g \in G |-> <<"genre", g>>]
  OBVIOUS
<1>10. PICK H : H = {h[g] : g \in G}
  OBVIOUS
<1>11. IsFiniteSet(H)
  <2>1. (\A g \in G : h[g] \in H) /\ \A k \in H : \E g \in G : h[g] = k
    BY <1>10
  <2>2. QED
    BY <1>8, <2>1, FiniteImage
<1>12. K \subseteq H
  BY <1>7, <1>9, <1>10
<1>13. QED
  BY <1>1, <1>11, <1>12, FS_Subset

\* Finitely many rows have finitely many users.
LEMMA UsersAreFinite ==
    ASSUME NEW D, IsFiniteSet(D) PROVE IsFiniteSet(DistinctUsers(D))
<1>1. \A u \in DistinctUsers(D) : \E r \in D : r.user = u
  BY DEF DistinctUsers
<1>2. PICK h : h = [r \in D |-> r.user]
  OBVIOUS
<1>3. (\A r \in D : h[r] \in DistinctUsers(D)) /\ \A u \in DistinctUsers(D) : \E r \in D : h[r] = u
  BY <1>1, <1>2 DEF DistinctUsers
<1>4. QED
  BY <1>3, FiniteImage

\* What a user has of the keys of the baseline.
LEMMA MineIs ==
    ASSUME NEW D, RowsOK(D), NEW u, NEW K, K = Dim(BaselineRows(D), "genre"), IsFiniteSet(K),
           NEW taste, taste = TasteRows(FilterUser(D, u)),
           NEW has, has = [k \in K |-> HasOf(taste, k)]
    PROVE  TasteTotal(taste, "genre") = SumFunctionOnSet(has, K)
<1>1. PICK T : T = Dim(taste, "genre")
  OBVIOUS
<1>2. FilterUser(D, u) \subseteq D /\ RowsOK(FilterUser(D, u))
  <2>1. FilterUser(D, u) \subseteq D
    BY DEF FilterUser
  <2>2. QED
    BY <2>1, RowsAreOK
<1>3. \A k : k \in DOMAIN taste <=> \E r \in FilterUser(D, u) : k \in TasteKeys(r)
  BY TasteOf
<1>4. \A k : k \in DOMAIN BaselineRows(D) <=> \E r \in D : k \in TasteKeys(r)
  <2>1. DOMAIN BaselineRows(D) = UNION {TasteKeys(r) : r \in D}
    BY DEF BaselineRows
  <2>2. \A k : k \in UNION {TasteKeys(r) : r \in D} <=> \E r \in D : k \in TasteKeys(r)
    BY Zenon
  <2>3. QED
    BY <2>1, <2>2
<1>5. T \subseteq K /\ \A k \in K : k \notin T => k \notin DOMAIN taste
  BY <1>1, <1>2, <1>3, <1>4 DEF Dim
<1>6. T \subseteq DOMAIN taste
  BY <1>1 DEF Dim
<1>7. \A k \in K : has[k] \in Nat /\ has[k] = HasOf(taste, k)
  BY <1>2, TasteIsNat
<1>8. \A k \in K : k \notin T => has[k] = 0
  BY <1>5, <1>7 DEF HasOf
<1>9. SumFunctionOnSet(has, K) = SumFunctionOnSet(has, T)
  <2>1. \A k \in K : has[k] \in Int
    BY <1>7
  <2>2. QED
    BY <1>5, <1>8, <2>1, SumOfRest
<1>10. PICK f : f = [k \in T |-> taste[k].watched]
  OBVIOUS
<1>11. DOMAIN f = T /\ \A k \in T : f[k] = has[k]
  BY <1>5, <1>6, <1>7, <1>10 DEF HasOf
<1>12. SumFunction(f) = SumFunctionOnSet(has, T)
  <2>1. IsFiniteSet(T)
    BY <1>5, FS_Subset
  <2>2. QED
    BY <1>11, <2>1, SumIs
<1>13. TasteTotal(taste, "genre") = SumFunction(f)
  BY <1>1, <1>10 DEF TasteTotal
<1>14. QED
  BY <1>9, <1>12, <1>13

\* The baseline of the genres is the sum of what everyone has of them.
LEMMA SharesAddUp ==
    ASSUME NEW D, RowsOK(D), \A r \in D : IsFiniteSet(r.facts.genres),
           NEW U, U = DistinctUsers(D),
           NEW taste, taste = [u \in U |-> TasteRows(FilterUser(D, u))],
           NEW base, base = BaselineRows(D)
    PROVE  /\ IsFiniteSet(U)
           /\ \A u \in U : TasteTotal(taste[u], "genre") \in Nat
           /\ SumFunction([k \in Dim(base, "genre") |-> base[k]])
                  = SumFunctionOnSet([u \in U |-> TasteTotal(taste[u], "genre")], U)
           /\ \A k \in DOMAIN base : base[k] = SumFunctionOnSet([u \in U |-> HasOf(taste[u], k)], U)
<1>1. IsFiniteSet(D) /\ IsFiniteSet(U)
  BY UsersAreFinite DEF RowsOK
<1>2. PICK K : K = Dim(base, "genre")
  OBVIOUS
<1>3. IsFiniteSet(K) /\ K \subseteq DOMAIN base
  BY <1>1, <1>2, GenresAreFinite DEF Dim
<1>4. \A u \in U : taste[u] = TasteRows(FilterUser(D, u)) /\ RowsOK(FilterUser(D, u))
  <2>1. \A u \in U : FilterUser(D, u) \subseteq D
    BY DEF FilterUser
  <2>2. QED
    BY <2>1, RowsAreOK
<1>5. ASSUME NEW k \in DOMAIN base
      PROVE  base[k] = SumFunctionOnSet([u \in U |-> HasOf(taste[u], k)], U)
  <2>1. PICK g : g = [u \in U |-> HasOf(taste[u], k)]
    OBVIOUS
  <2>2. \A u \in U : g[u] = IF k \in DOMAIN taste[u] THEN taste[u][k].watched ELSE 0
    BY <2>1 DEF HasOf
  <2>3. DOMAIN g = U
    BY <2>1
  <2>4. base[k] = SumFunction(g)
    BY <1>5, <2>2, <2>3, BaselineIs
  <2>5. QED
    BY <2>1, <2>3, <2>4, SumOverDomain
<1>6. PICK F : F = [k \in K |-> [u \in U |-> HasOf(taste[u], k)]]
  OBVIOUS
<1>7. PICK G : G = [u \in U |-> [k \in K |-> HasOf(taste[u], k)]]
  OBVIOUS
<1>8. PICK row : row = [k \in K |-> base[k]]
  OBVIOUS
<1>9. PICK col : col = [u \in U |-> TasteTotal(taste[u], "genre")]
  OBVIOUS
<1>10. \A k \in K : row[k] = SumFunctionOnSet(F[k], U)
  BY <1>3, <1>5, <1>6, <1>8
<1>11. ASSUME NEW u \in U PROVE col[u] = SumFunctionOnSet(G[u], K)
  <2>1. PICK has : has = [k \in K |-> HasOf(taste[u], k)]
    OBVIOUS
  <2>2. TasteTotal(taste[u], "genre") = SumFunctionOnSet(has, K)
    BY <1>2, <1>3, <1>4, <2>1, MineIs
  <2>3. QED
    BY <1>7, <1>9, <2>1, <2>2
<1>12. \A k \in K : \A u \in U : F[k][u] \in Nat /\ G[u][k] = F[k][u]
  <2>1. \A u \in U : \A k : HasOf(taste[u], k) \in Nat
    BY <1>4, TasteIsNat
  <2>2. QED
    BY <1>6, <1>7, <2>1
<1>13. SumFunctionOnSet(row, K) = SumFunctionOnSet(col, U)
  <2>1. Swapped(F, G, K, U, row, col)
    BY <1>1, <1>3, <1>10, <1>11, <1>12 DEF Swapped
  <2>2. QED
    BY <2>1, SumSwapped
<1>14. SumFunction(row) = SumFunctionOnSet(row, K)
  BY <1>8, SumOverDomain
<1>15. \A u \in U : TasteTotal(taste[u], "genre") \in Nat
  <2>1. TAKE u \in U
  <2>2. \A k \in K : G[u][k] \in Nat
    BY <1>12
  <2>3. SumFunctionOnSet(G[u], K) \in Nat
    BY <1>3, <2>2, SumIsNat
  <2>4. QED
    BY <1>9, <1>11, <2>3
<1>16. QED
  BY <1>1, <1>2, <1>5, <1>8, <1>9, <1>13, <1>14, <1>15

\* A genre of the signature is one of which the user has the greater share.
LEMMA SignatureIs ==
    ASSUME NEW taste, NEW base, NEW k \in DOMAIN base, k \in SignatureGenres(taste, base),
           NEW mine, mine = TasteTotal(taste, "genre"), mine \in Nat,
           NEW all, all = SumFunction([j \in Dim(base, "genre") |-> base[j]]), all \in Nat, all # 0,
           HasOf(taste, k) \in Nat, base[k] \in Nat
    PROVE  mine # 0 /\ ~(HasOf(taste, k) * all <= base[k] * mine)
<1>1. /\ mine # 0 /\ k \in Dim(taste, "genre")
      /\ StandsOut(taste[k].watched * (IF all = 0 THEN 1 ELSE all)
                   - (IF k \in DOMAIN base THEN base[k] ELSE 0) * mine)
  <2>1. k \in SignatureShares(taste, base, "genre", 0, 0)
    BY DEF SignatureGenres
  <2>2. QED
    BY <2>1, Zenon DEF SignatureShares, Best
<1>3. k \in Dim(taste, "genre") /\ StandsOut(taste[k].watched * all - base[k] * mine)
  BY <1>1
<1>4. HasOf(taste, k) = taste[k].watched
  BY <1>3 DEF Dim, HasOf
<1>5. HasOf(taste, k) * all - base[k] * mine > 0
  BY <1>3, <1>4 DEF StandsOut
<1>6. \A i, j \in Nat : i * j \in Nat
  OBVIOUS
<1>7. HasOf(taste, k) * all \in Nat /\ base[k] * mine \in Nat
  BY <1>6
<1>8. QED
  BY <1>1, <1>5, <1>7

\* The minutes of a key in a table that is made for each user.
LEMMA BaselineIsNat ==
    ASSUME NEW D, RowsOK(D), NEW k \in DOMAIN BaselineRows(D)
    PROVE  BaselineRows(D)[k] \in Nat
<1>1. PICK S : S = {r \in D : k \in TasteKeys(r)}
  OBVIOUS
<1>2. S \subseteq D /\ IsFiniteSet(S)
  BY <1>1, FS_Subset DEF RowsOK
<1>3. BaselineRows(D)[k] = SumFunctionOnSet(WatchedIn(D), S)
  BY <1>1, <1>2, ColumnSums DEF BaselineRows
<1>4. \A r \in S : WatchedIn(D)[r] \in Nat
  BY <1>2 DEF RowsOK, WatchedIn
<1>5. QED
  BY <1>2, <1>3, <1>4, SumIsNat

\* The users of a scope, whose shares weigh to everyone's: one of them has no
\* more of a genre than everyone has.
THEOREM SignaturesSetApart == PagesSpec => []SignatureSetsApart
<1>1. PagesInv => SignatureSetsApart
  <2>0. SUFFICES ASSUME PagesInv, NEW lib \in Scopes(profiles.plays),
                        NEW k \in Dim(Tables(lib).baseline, "genre"), Tables(lib).users # {},
                        \A u \in Tables(lib).users : k \in ProfileOf(Tables(lib), u, AllTime).signature
                 PROVE  FALSE
    BY Zenon DEF SignatureSetsApart
  <2>1. PICK t : t = Tables(lib)
    OBVIOUS
  <2>2. PICK plays, day : /\ plays = FilterEventsByLibrary(profiles.plays, lib)
                          /\ day = profiles.day
    OBVIOUS
  <2>3. PlaysOK(plays)
    <3>1. PlaysOK(profiles.plays)
      BY <2>0 DEF PagesInv, PagesTypeOK, PlaysOK
    <3>2. QED
      BY <2>2, <3>1, FilteredPlaysAre
  <2>4. t = Profiles(plays, day)
    BY <2>1, <2>2 DEF Tables
  <2>5. PICK D : D = RollDaily(plays)
    OBVIOUS
  <2>6. RowsOK(D) /\ \A r \in D : r.day \in Nat
    BY <2>3, <2>5, RollSums
  <2>7. \A r \in D : IsFiniteSet(r.facts.genres)
    BY <2>3, <2>5, RollFacts, FactsAre
  <2>8. PICK U, base, taste : /\ U = DistinctUsers(D) /\ base = BaselineRows(D)
                              /\ taste = [u \in U |-> TasteRows(FilterUser(D, u))]
    OBVIOUS
  <2>9. t.users = U /\ t.baseline = base
    BY <2>4, <2>5, <2>8 DEF Profiles
  <2>10. U # {} /\ k \in Dim(base, "genre") /\ k \in DOMAIN base
    BY <2>0, <2>1, <2>9 DEF Dim
  <2>11. ASSUME NEW u \in U PROVE k \in SignatureGenres(taste[u], base)
    <3>1. RangeCutoff(AllTime, day) = 0 /\ AllTime \in Ranges
      BY PlaysAssumption DEF RangeCutoff
    <3>2. RowsSince(plays, u, 0) = FilterUser(D, u)
      BY <2>5, <2>6 DEF RowsSince, FilterSince, FilterUser
    <3>3. ReadProfileTaste(t, u, AllTime) = taste[u]
      BY <2>4, <2>8, <3>1, <3>2, ProfileIs
    <3>4. ProfileOf(t, u, AllTime).signature = SignatureGenres(taste[u], base)
      BY <2>9, <3>3 DEF ProfileOf
    <3>5. QED
      BY <2>0, <2>1, <2>9, <3>4
  <2>12. PICK x, m : /\ x = [u \in U |-> HasOf(taste[u], k)]
                     /\ m = [u \in U |-> TasteTotal(taste[u], "genre")]
    OBVIOUS
  <2>13. PICK all : all = SumFunction([j \in Dim(base, "genre") |-> base[j]])
    OBVIOUS
  <2>14. /\ IsFiniteSet(U) /\ \A u \in U : m[u] \in Nat
         /\ all = SumFunctionOnSet(m, U) /\ base[k] = SumFunctionOnSet(x, U)
    BY <2>6, <2>7, <2>8, <2>10, <2>12, <2>13, SharesAddUp
  <2>15. \A u \in U : x[u] \in Nat
    <3>1. \A u \in U : RowsOK(FilterUser(D, u))
      <4>1. \A u \in U : FilterUser(D, u) \subseteq D
        BY DEF FilterUser
      <4>2. QED
        BY <2>6, <4>1, RowsAreOK
    <3>2. QED
      BY <2>8, <2>12, <3>1, TasteIsNat
  <2>16. all \in Nat /\ base[k] \in Nat
    BY <2>14, <2>15, SumIsNat
  <2>17. all # 0
    <3>1. CASE \A u \in U : m[u] # 0
      BY <2>10, <2>14, <2>15, <3>1, NotAllAbove
    <3>2. CASE \E u \in U : m[u] = 0
      <4>1. PICK u \in U : m[u] = 0
        BY <3>2
      <4>2. TasteTotal(taste[u], "genre") = 0
        BY <2>12, <4>1
      <4>3. SignatureGenres(taste[u], base) = {}
        BY <4>2, Zenon DEF SignatureGenres, SignatureShares
      <4>4. QED
        BY <2>11, <4>3
    <3>3. QED
      BY <3>1, <3>2
  <2>18. \A u \in U : m[u] # 0 /\ ~(x[u] * all <= base[k] * m[u])
    <3>1. TAKE u \in U
    <3>2. m[u] = TasteTotal(taste[u], "genre") /\ x[u] = HasOf(taste[u], k)
      BY <2>12
    <3>3. HasOf(taste[u], k) \in Nat /\ m[u] \in Nat
      BY <2>14, <2>15, <3>2
    <3>4. m[u] # 0 /\ ~(HasOf(taste[u], k) * all <= base[k] * m[u])
      BY <2>10, <2>11, <2>13, <2>16, <2>17, <3>2, <3>3, SignatureIs
    <3>5. QED
      BY <3>2, <3>4
  <2>19. QED
    BY <2>10, <2>14, <2>15, <2>18, NotAllAbove
<1>2. QED
  BY <1>1, PagesInvHolds, PTL

-----------------------------------------------------------------------------
(***************************************************************************)
(* The caps of the charts.                                                 *)
(***************************************************************************)
\* Up[x] are those ahead of x.  Of n or more that are ahead of one, at least n
\* have fewer than n ahead of themselves.
LEMMA TheFirstAreAhead ==
    ASSUME NEW S, IsFiniteSet(S), NEW Up, NEW n \in Nat,
           \A x \in S : Up[x] \subseteq S /\ x \notin Up[x],
           \A x \in S : \A y \in Up[x] : Up[y] \subseteq Up[x],
           NEW r \in S, Cardinality(Up[r]) >= n
    PROVE  Cardinality({x \in Up[r] : Cardinality(Up[x]) < n}) >= n
<1> DEFINE First(x) == {y \in Up[x] : Cardinality(Up[y]) < n}
           Bad == {x \in S : Cardinality(Up[x]) >= n /\ ~(Cardinality(First(x)) >= n)}
           B == {Up[x] : x \in Bad}
<1>1. SUFFICES ASSUME r \in Bad PROVE FALSE
  OBVIOUS
<1>2. \A x \in S : IsFiniteSet(Up[x]) /\ Cardinality(Up[x]) \in Nat
  BY FS_Subset, FS_CardinalityType
<1>3. B \subseteq SUBSET S /\ B # {}
  <2>1. \A x \in Bad : Up[x] \in SUBSET S
    OBVIOUS
  <2>2. Up[r] \in B
    BY <1>1
  <2> HIDE DEF Bad
  <2>3. QED
    BY <2>1, <2>2
<1>4. PICK M \in B : \A T \in SUBSET M : T # M => T \notin B
  <2> HIDE DEF B
  <2>1. QED
    BY <1>3, SmallestSet
<1>5. PICK x \in Bad : M = Up[x]
  BY <1>4
<1>6. x \in S /\ Cardinality(Up[x]) >= n /\ ~(Cardinality(First(x)) >= n)
  BY <1>5
<1>7. CASE \A y \in Up[x] : Cardinality(Up[y]) < n
  <2>1. First(x) = Up[x]
    BY <1>7
  <2>2. QED
    BY <1>6, <2>1
<1>8. CASE \E y \in Up[x] : ~(Cardinality(Up[y]) < n)
  <2>1. PICK y \in Up[x] : ~(Cardinality(Up[y]) < n)
    BY <1>8
  <2>2. y \in S /\ Up[y] \subseteq Up[x] /\ y \notin Up[y]
    BY <1>6, <2>1
  <2>3. y \notin Bad
    <3> HIDE DEF Bad
    <3>1. Up[y] # M /\ Up[y] \in SUBSET M
      BY <1>5, <2>1, <2>2
    <3>2. QED
      BY <1>4, <3>1
  <2>5. Cardinality(Up[y]) >= n
    BY <1>2, <2>1, <2>2
  <2>6. Cardinality(First(y)) >= n
    BY <2>2, <2>3, <2>5
  <2>7. First(y) \subseteq First(x) /\ First(x) \subseteq Up[x]
    BY <2>2
  <2>8. IsFiniteSet(First(x)) /\ IsFiniteSet(First(y))
    BY <1>2, <1>6, <2>7, FS_Subset
  <2>9. Cardinality(First(y)) <= Cardinality(First(x))
    BY <2>7, <2>8, FS_Subset
  <2>10. Cardinality(First(y)) \in Nat /\ Cardinality(First(x)) \in Nat
    BY <2>8, FS_CardinalityType
  <2>11. QED
    BY <1>6, <2>6, <2>9, <2>10
<1>9. QED
  BY <1>7, <1>8

\* The order of a chart: more of a metric first, then the smaller id.
Above(rows, m, id, x) == {y \in rows : y[m] > x[m] \/ (y[m] = x[m] /\ y[id] < x[id])}
KeptOf(n, rows, m, id) == {x \in rows : Cardinality(Above(rows, m, id, x)) < n}

\* One who is not kept has n kept ones that are at least as good.
LEMMA TheLeftOutAreBeaten ==
    ASSUME NEW rows, IsFiniteSet(rows), NEW n \in Nat, NEW m, NEW id,
           \A x \in rows : x[m] \in Nat /\ x[id] \in Nat,
           NEW r \in rows, r \notin KeptOf(n, rows, m, id)
    PROVE  Cardinality({k \in KeptOf(n, rows, m, id) : k[m] >= r[m]}) >= n
<1>1. PICK Up : Up = [x \in rows |-> Above(rows, m, id, x)]
  OBVIOUS
<1>2. \A x \in rows : /\ Up[x] \subseteq rows
                      /\ \A y \in rows : y \in Up[x] <=> \/ y[m] > x[m]
                                                         \/ y[m] = x[m] /\ y[id] < x[id]
  BY <1>1 DEF Above
<1>3. \A x \in rows : x \notin Up[x]
  BY <1>2
<1>4. ASSUME NEW x \in rows, NEW y \in Up[x] PROVE Up[y] \subseteq Up[x]
  <2>1. y \in rows
    BY <1>2, <1>4
  <2>2. ASSUME NEW z \in Up[y] PROVE z \in Up[x]
    <3>1. z \in rows
      BY <1>2, <2>1, <2>2
    <3>2. z[m] \in Nat /\ y[m] \in Nat /\ x[m] \in Nat /\ z[id] \in Nat /\ y[id] \in Nat /\ x[id] \in Nat
      BY <2>1, <3>1
    <3>3. QED
      BY <1>2, <1>4, <2>1, <2>2, <3>1, <3>2
  <2>3. QED
    BY <2>2
<1>5. \A x \in rows : IsFiniteSet(Up[x]) /\ Cardinality(Up[x]) \in Nat
  BY <1>2, FS_Subset, FS_CardinalityType
<1>6. Cardinality(Up[r]) >= n
  BY <1>1, <1>5 DEF KeptOf
<1>7. PICK F : F = {x \in Up[r] : Cardinality(Up[x]) < n}
  OBVIOUS
<1>8. Cardinality(F) >= n
  BY <1>2, <1>3, <1>4, <1>6, <1>7, TheFirstAreAhead
<1>9. PICK G : G = {k \in KeptOf(n, rows, m, id) : k[m] >= r[m]}
  OBVIOUS
<1>10. F \subseteq G
  <2>1. SUFFICES ASSUME NEW x \in F PROVE x \in G
    OBVIOUS
  <2>2. x \in rows /\ x \in Up[r] /\ Cardinality(Up[x]) < n
    BY <1>2, <1>7
  <2>3. x \in KeptOf(n, rows, m, id)
    BY <1>1, <2>2 DEF KeptOf
  <2>4. x[m] >= r[m]
    BY <1>2, <2>2
  <2>5. QED
    BY <1>9, <2>3, <2>4
<1>11. G \subseteq rows /\ IsFiniteSet(G)
  <2>1. G \subseteq rows
    BY <1>9 DEF KeptOf
  <2>2. QED
    BY <2>1, FS_Subset
<1>12. Cardinality(F) <= Cardinality(G) /\ Cardinality(F) \in Nat /\ Cardinality(G) \in Nat
  BY <1>10, <1>11, FS_Subset, FS_CardinalityType
<1>13. QED
  BY <1>8, <1>9, <1>12

\* The plays since a day are finitely many reports.
LEMMA SinceIs ==
    ASSUME NEW plays, PlaysOK(plays), NEW cutoff
    PROVE  Since(plays, cutoff) \subseteq Reports /\ IsFiniteSet(Since(plays, cutoff))
<1>1. Since(plays, cutoff) \subseteq Counted(plays)
  BY DEF Since
<1>2. QED
  BY <1>1, CountedIs, FS_Subset

\* The people credited with a play are finitely many.
LEMMA ForEventIs ==
    ASSUME NEW p
    PROVE  IsFiniteSet(ForEvent(p)) /\ \A c \in ForEvent(p) : c[2] \in Nat
<1>1. \A id : IsFiniteSet(CreditsOf(id)) /\ \A c \in CreditsOf(id) : c[2] \in Nat
  <2>1. IsFiniteSet({})
    BY FS_EmptySet
  <2>2. QED
    BY <2>1, PeopleAssumption DEF CreditsOf
<1>2. \/ ForEvent(p) = CreditsOf(p.item) \/ ForEvent(p) = CreditsOf(Series(p))
      \/ ForEvent(p) = {}
  BY DEF ForEvent
<1>3. IsFiniteSet({})
  BY FS_EmptySet
<1>4. QED
  BY <1>1, <1>2, <1>3

\* Finitely many plays have finitely many keys, if each of them has.
LEMMA KeysAreFinite ==
    ASSUME NEW P, IsFiniteSet(P), NEW keysOf, \A p \in P : IsFiniteSet(keysOf[p])
    PROVE  IsFiniteSet(UNION {keysOf[p] : p \in P})
<1>1. PICK W : W = {keysOf[p] : p \in P}
  OBVIOUS
<1>2. (\A p \in P : keysOf[p] \in W) /\ \A k \in W : \E p \in P : keysOf[p] = k
  BY <1>1
<1>3. IsFiniteSet(W)
  BY <1>2, FiniteImage
<1>4. \A k \in W : IsFiniteSet(k)
  BY <1>2
<1>5. QED
  BY <1>1, <1>3, <1>4, FS_UNION

TitlesOf(P) == {TitleKey(p) : p \in P}

\* Titles can be counted.
LEMMA TitlesAreNat ==
    ASSUME NEW P, IsFiniteSet(P)
    PROVE  Cardinality(TitlesOf(P)) \in Nat
<1>1. PICK T, h : T = TitlesOf(P) /\ h = [p \in P |-> TitleKey(p)]
  OBVIOUS
<1>2. (\A p \in P : h[p] \in T) /\ \A k \in T : \E p \in P : h[p] = k
  BY <1>1 DEF TitlesOf
<1>3. IsFiniteSet(T)
  BY <1>2, FiniteImage
<1>4. QED
  BY <1>1, <1>3, FS_CardinalityType

\* The charts before the cap are finite, and their columns are numbers.
LEMMA PeopleRowsAre ==
    ASSUME NEW P, P \subseteq Reports, IsFiniteSet(P)
    PROVE  /\ IsFiniteSet(PeopleRows(P))
           /\ \A r \in PeopleRows(P) :
                  r.watched \in Nat /\ r.plays \in Nat /\ r.titles \in Nat /\ r.person \in Nat
<1> DEFINE of(k) == {p \in P : p.user = k[1] /\ <<k[2], k[3]>> \in ForEvent(p)}
<1>1. PICK keysOf : keysOf = [p \in P |-> {<<p.user, c[1], c[2]>> : c \in ForEvent(p)}]
  OBVIOUS
<1>2. PICK K : K = UNION {keysOf[p] : p \in P}
  OBVIOUS
<1>3. PeopleRows(P) = {PersonRow(k, of(k)) : k \in K}
  <2>1. {keysOf[p] : p \in P} = {{<<p.user, c[1], c[2]>> : c \in ForEvent(p)} : p \in P}
    BY <1>1
  <2>2. QED
    BY <1>2, <2>1 DEF PeopleRows
<1>4. IsFiniteSet(K)
  <2>1. ASSUME NEW p \in P PROVE IsFiniteSet(keysOf[p])
    <3>1. PICK h : h = [c \in ForEvent(p) |-> <<p.user, c[1], c[2]>>]
      OBVIOUS
    <3>2. keysOf[p] = {<<p.user, c[1], c[2]>> : c \in ForEvent(p)}
      BY <1>1
    <3>3. /\ \A c \in ForEvent(p) : h[c] \in keysOf[p]
          /\ \A k \in keysOf[p] : \E c \in ForEvent(p) : h[c] = k
      BY <3>1, <3>2
    <3>4. QED
      BY <3>3, ForEventIs, FiniteImage
  <2>2. QED
    BY <1>2, <2>1, KeysAreFinite
<1>5. IsFiniteSet(PeopleRows(P))
  <2>1. PICK h : h = [k \in K |-> PersonRow(k, of(k))]
    OBVIOUS
  <2>2. PICK R : R = PeopleRows(P)
    OBVIOUS
  <2>3. (\A k \in K : h[k] \in R) /\ \A r \in R : \E k \in K : h[k] = r
    BY <1>3, <2>1, <2>2
  <2>4. QED
    BY <1>4, <2>2, <2>3, FiniteImage
<1>6. \A k \in K : k[3] \in Nat
  <2>1. \A k \in K : \E p \in P : k \in keysOf[p]
    BY <1>2
  <2>2. ASSUME NEW p \in P, NEW k \in keysOf[p] PROVE k[3] \in Nat
    <3>1. PICK c \in ForEvent(p) : k = <<p.user, c[1], c[2]>>
      BY <1>1, <2>2
    <3>2. QED
      BY <3>1, ForEventIs
  <2>3. QED
    BY <2>1, <2>2
<1>7. ASSUME NEW k \in K, NEW r, r = PersonRow(k, of(k))
      PROVE  r.watched \in Nat /\ r.plays \in Nat /\ r.titles \in Nat /\ r.person \in Nat
  <2>1. PICK S : S = of(k)
    OBVIOUS
  <2>2. S \subseteq P /\ S \subseteq Reports
    BY <2>1
  <2>3. IsFiniteSet(S)
    BY <2>2, FS_Subset
  <2>4. Minutes(S) \in Nat /\ Cardinality(S) \in Nat /\ Cardinality(TitlesOf(S)) \in Nat
    BY <2>2, <2>3, MinutesAre, FS_CardinalityType, TitlesAreNat
  <2>5. /\ r.watched = Minutes(S) /\ r.plays = Cardinality(S)
        /\ r.titles = Cardinality(TitlesOf(S)) /\ r.person = k[3]
    BY <1>7, <2>1 DEF PersonRow, TitlesOf
  <2>6. QED
    BY <1>6, <2>4, <2>5
<1>8. QED
  BY <1>3, <1>5, <1>7

\* The rows of the charts of titles are finitely many, with numbers to rank by.
LEMMA TopItemRowsAre ==
    ASSUME NEW P, P \subseteq Reports, IsFiniteSet(P)
    PROVE  /\ IsFiniteSet(TopItemRows(P))
           /\ \A r \in TopItemRows(P) : r.watched \in Nat /\ r.plays \in Nat /\ r.item \in Nat
<1> DEFINE of(k) == {p \in P : k \in TopItemKeys(p)}
<1>1. PICK keysOf : keysOf = [p \in P |-> TopItemKeys(p)]
  OBVIOUS
<1>2. PICK K : K = UNION {keysOf[p] : p \in P}
  OBVIOUS
<1>3. TopItemRows(P) = {AccumulateTopItem(k, of(k)) : k \in K}
  <2>1. {keysOf[p] : p \in P} = {TopItemKeys(p) : p \in P}
    BY <1>1
  <2>2. QED
    BY <1>2, <2>1 DEF TopItemRows
<1>4. ASSUME NEW p \in P PROVE IsFiniteSet(keysOf[p]) /\ \A k \in keysOf[p] : k[3] \in Nat
  <2>1. p.item \in Nat /\ Series(p) \in Nat
    BY PlayIs, FactsAre, PlaysAssumption DEF Series
  <2>2. PICK a, b : /\ a = <<p.user, About[p.item].scope, p.item>>
                    /\ b = <<p.user, "series", Series(p)>>
    OBVIOUS
  <2>3. keysOf[p] = {a} \/ keysOf[p] = {a} \union {b}
    BY <1>1, <2>2 DEF TopItemKeys
  <2>4. a[3] \in Nat /\ b[3] \in Nat
    BY <2>1, <2>2
  <2>5. IsFiniteSet({a}) /\ IsFiniteSet({a} \union {b})
    BY FS_Singleton, FS_AddElement
  <2>6. QED
    BY <2>3, <2>4, <2>5
<1>5. IsFiniteSet(K)
  BY <1>2, <1>4, KeysAreFinite
<1>6. IsFiniteSet(TopItemRows(P))
  <2>1. PICK h : h = [k \in K |-> AccumulateTopItem(k, of(k))]
    OBVIOUS
  <2>2. PICK R : R = TopItemRows(P)
    OBVIOUS
  <2>3. (\A k \in K : h[k] \in R) /\ \A r \in R : \E k \in K : h[k] = r
    BY <1>3, <2>1, <2>2
  <2>4. QED
    BY <1>5, <2>2, <2>3, FiniteImage
<1>7. \A k \in K : k[3] \in Nat
  BY <1>2, <1>4
<1>8. ASSUME NEW k \in K, NEW r, r = AccumulateTopItem(k, of(k))
      PROVE  r.watched \in Nat /\ r.plays \in Nat /\ r.item \in Nat
  <2>1. PICK S : S = of(k)
    OBVIOUS
  <2>2. S \subseteq P /\ S \subseteq Reports
    BY <2>1
  <2>3. IsFiniteSet(S)
    BY <2>2, FS_Subset
  <2>4. Minutes(S) \in Nat /\ Cardinality(S) \in Nat
    BY <2>2, <2>3, MinutesAre, FS_CardinalityType
  <2>5. r.watched = Minutes(S) /\ r.plays = Cardinality(S) /\ r.item = k[3]
    BY <1>8, <2>1 DEF AccumulateTopItem
  <2>6. QED
    BY <1>7, <2>4, <2>5
<1>9. QED
  BY <1>3, <1>6, <1>8

\* What is best by one metric is kept, whatever the others are.
LEMMA TopUnionIs ==
    ASSUME NEW rows, NEW n, NEW metrics, NEW id, NEW m \in metrics
    PROVE  KeptOf(n, rows, m, id) \subseteq TopUnion(rows, n, metrics, id)
<1>1. TopUnion(rows, n, metrics, id) = UNION {KeptOf(n, rows, i, id) : i \in metrics}
  BY DEF TopUnion, Best, KeptOf, Above
<1>2. QED
  BY <1>1

Ranked(rows, metrics, id) ==
    IsFiniteSet(rows) /\ \A x \in rows : \A m \in metrics : x[m] \in Nat /\ x[id] \in Nat
\* Keep has the cap of every group of rows, and rows only.
Caps(keep, rows, metrics, id, of) ==
    /\ keep \subseteq rows
    /\ \A r \in rows :
           TopUnion({x \in rows : of[x] = of[r]}, PeopleTopN, metrics, id) \subseteq keep
Beats(group, r, m) == Cardinality({k \in group : k[m] >= r[m]}) >= PeopleTopN

\* What is left out of the union of the caps of every group is left out of each
\* cap of its own group.
LEMMA TheLeftOutOfTopUnion ==
    ASSUME NEW rows, NEW metrics, NEW id, NEW of, NEW keep,
           Ranked(rows, metrics, id), Caps(keep, rows, metrics, id, of),
           NEW r \in rows \ keep, NEW m \in metrics,
           NEW group, group = {x \in keep : of[x] = of[r]}
    PROVE  Beats(group, r, m)
<1>0. /\ IsFiniteSet(rows) /\ keep \subseteq rows
      /\ \A x \in rows : x[m] \in Nat /\ x[id] \in Nat
      /\ \A x \in rows : TopUnion({y \in rows : of[y] = of[x]}, PeopleTopN, metrics, id) \subseteq keep
  BY DEF Ranked, Caps
<1>1. PICK G : G = {x \in rows : of[x] = of[r]}
  OBVIOUS
<1>2. r \in G /\ G \subseteq rows /\ IsFiniteSet(G)
  <2>1. r \in G /\ G \subseteq rows
    BY <1>1
  <2>2. QED
    BY <1>0, <2>1, FS_Subset
<1>3. PICK best : best = KeptOf(PeopleTopN, G, m, id)
  OBVIOUS
<1>4. best \subseteq keep /\ best \subseteq G
  <2>1. best \subseteq TopUnion(G, PeopleTopN, metrics, id)
    BY <1>3, TopUnionIs
  <2>2. QED
    BY <1>0, <1>1, <1>3, <2>1 DEF KeptOf
<1>5. PICK good, wanted : /\ good = {k \in best : k[m] >= r[m]}
                          /\ wanted = {k \in group : k[m] >= r[m]}
  OBVIOUS
<1>6. PeopleTopN \in Nat
  BY PeopleAssumption
<1>7. Cardinality(good) >= PeopleTopN
  <2>1. \A x \in G : x[m] \in Nat /\ x[id] \in Nat
    BY <1>0, <1>2
  <2>2. r \notin KeptOf(PeopleTopN, G, m, id)
    BY <1>3, <1>4
  <2>3. Cardinality({k \in KeptOf(PeopleTopN, G, m, id) : k[m] >= r[m]}) >= PeopleTopN
    BY <1>2, <1>6, <2>1, <2>2, TheLeftOutAreBeaten
  <2>4. QED
    BY <1>3, <1>5, <2>3
<1>8. good \subseteq wanted /\ wanted \subseteq rows
  BY <1>0, <1>1, <1>4, <1>5
<1>9. IsFiniteSet(wanted) /\ IsFiniteSet(good)
  BY <1>0, <1>8, FS_Subset
<1>10. Cardinality(good) <= Cardinality(wanted)
  BY <1>8, <1>9, FS_Subset
<1>11. Cardinality(good) \in Nat /\ Cardinality(wanted) \in Nat
  BY <1>9, FS_CardinalityType
<1>12. QED
  BY <1>5, <1>6, <1>7, <1>10, <1>11 DEF Beats

\* A person who is left off the chart is beaten by as many as the cap keeps.
LEMMA PeopleAreCapped ==
    ASSUME NEW rows, IsFiniteSet(rows),
           \A r \in rows : r.watched \in Nat /\ r.titles \in Nat /\ r.person \in Nat,
           NEW keep, keep = CappedPeopleRows(rows), NEW r \in rows \ keep, NEW m \in {"watched", "titles"},
           NEW group, group = {x \in keep : x.user = r.user /\ x.kind = r.kind}
    PROVE  Beats(group, r, m)
<1>1. PICK of, metrics : /\ of = [x \in rows |-> <<x.user, x.kind>>]
                         /\ metrics = {"watched", "titles"}
  OBVIOUS
<1>2. PICK top : top = [g \in {<<x.user, x.kind>> : x \in rows} |->
                           TopUnion({x \in rows : <<x.user, x.kind>> = g}, PeopleTopN, metrics, "person")]
  OBVIOUS
<1>3. keep = UNION {top[g] : g \in {<<x.user, x.kind>> : x \in rows}}
  BY <1>1, <1>2 DEF CappedPeopleRows
<1>4. ASSUME NEW x \in rows
      PROVE  top[of[x]] = TopUnion({y \in rows : of[y] = of[x]}, PeopleTopN, metrics, "person")
  <2>1. of[x] \in {<<y.user, y.kind>> : y \in rows}
    BY <1>1
  <2>2. {y \in rows : of[y] = of[x]} = {y \in rows : <<y.user, y.kind>> = of[x]}
    BY <1>1
  <2>3. QED
    BY <1>2, <2>1, <2>2
<1>5. \A x \in rows :
          TopUnion({y \in rows : of[y] = of[x]}, PeopleTopN, metrics, "person") \subseteq keep
  <2>1. TAKE x \in rows
  <2>2. of[x] \in {<<y.user, y.kind>> : y \in rows}
    BY <1>1
  <2>3. top[of[x]] \subseteq keep
    BY <1>3, <2>2
  <2>4. QED
    BY <1>4, <2>3
<1>6. keep \subseteq rows
  <2>1. ASSUME NEW g \in {<<x.user, x.kind>> : x \in rows} PROVE top[g] \subseteq rows
    <3>1. top[g] = TopUnion({x \in rows : <<x.user, x.kind>> = g}, PeopleTopN, metrics, "person")
      BY <1>2
    <3>2. QED
      BY <3>1 DEF TopUnion, Best
  <2>2. QED
    BY <1>3, <2>1
<1>7. ASSUME NEW x \in rows, NEW i \in metrics PROVE x[i] \in Nat /\ x["person"] \in Nat
  <2>1. x.watched \in Nat /\ x.titles \in Nat /\ x.person \in Nat
    OBVIOUS
  <2>2. CASE i = "watched"
    BY <2>1, <2>2
  <2>3. CASE i = "titles"
    BY <2>1, <2>3
  <2>4. QED
    BY <1>1, <2>2, <2>3
<1>8. Ranked(rows, metrics, "person")
  BY <1>7 DEF Ranked
<1>9. Caps(keep, rows, metrics, "person", of)
  BY <1>5, <1>6 DEF Caps
<1>10. group = {x \in keep : of[x] = of[r]}
  BY <1>1, <1>6
<1>11. m \in metrics
  BY <1>1
<1>12. QED
  BY <1>8, <1>9, <1>10, <1>11, TheLeftOutOfTopUnion

\* So is a title.
LEMMA TopItemsAreCapped ==
    ASSUME NEW rows, IsFiniteSet(rows),
           \A r \in rows : r.watched \in Nat /\ r.plays \in Nat /\ r.item \in Nat,
           NEW keep, keep = CappedTopItemRows(rows), NEW r \in rows \ keep, NEW m \in {"watched", "plays"},
           NEW group, group = {x \in keep : x.user = r.user /\ x.scope = r.scope}
    PROVE  Beats(group, r, m)
<1>1. PICK of, metrics : /\ of = [x \in rows |-> <<x.user, x.scope>>]
                         /\ metrics = {"watched", "plays"}
  OBVIOUS
<1>2. PICK top : top = [g \in {<<x.user, x.scope>> : x \in rows} |->
                           TopUnion({x \in rows : <<x.user, x.scope>> = g}, PeopleTopN, metrics, "item")]
  OBVIOUS
<1>3. keep = UNION {top[g] : g \in {<<x.user, x.scope>> : x \in rows}}
  BY <1>1, <1>2 DEF CappedTopItemRows
<1>4. ASSUME NEW x \in rows
      PROVE  top[of[x]] = TopUnion({y \in rows : of[y] = of[x]}, PeopleTopN, metrics, "item")
  <2>1. of[x] \in {<<y.user, y.scope>> : y \in rows}
    BY <1>1
  <2>2. {y \in rows : of[y] = of[x]} = {y \in rows : <<y.user, y.scope>> = of[x]}
    BY <1>1
  <2>3. QED
    BY <1>2, <2>1, <2>2
<1>5. \A x \in rows :
          TopUnion({y \in rows : of[y] = of[x]}, PeopleTopN, metrics, "item") \subseteq keep
  <2>1. TAKE x \in rows
  <2>2. of[x] \in {<<y.user, y.scope>> : y \in rows}
    BY <1>1
  <2>3. top[of[x]] \subseteq keep
    BY <1>3, <2>2
  <2>4. QED
    BY <1>4, <2>3
<1>6. keep \subseteq rows
  <2>1. ASSUME NEW g \in {<<x.user, x.scope>> : x \in rows} PROVE top[g] \subseteq rows
    <3>1. top[g] = TopUnion({x \in rows : <<x.user, x.scope>> = g}, PeopleTopN, metrics, "item")
      BY <1>2
    <3>2. QED
      BY <3>1 DEF TopUnion, Best
  <2>2. QED
    BY <1>3, <2>1
<1>7. ASSUME NEW x \in rows, NEW i \in metrics PROVE x[i] \in Nat /\ x["item"] \in Nat
  <2>1. x.watched \in Nat /\ x.plays \in Nat /\ x.item \in Nat
    OBVIOUS
  <2>2. CASE i = "watched"
    BY <2>1, <2>2
  <2>3. CASE i = "plays"
    BY <2>1, <2>3
  <2>4. QED
    BY <1>1, <2>2, <2>3
<1>8. Ranked(rows, metrics, "item")
  BY <1>7 DEF Ranked
<1>9. Caps(keep, rows, metrics, "item", of)
  BY <1>5, <1>6 DEF Caps
<1>10. group = {x \in keep : of[x] = of[r]}
  BY <1>1, <1>6
<1>11. m \in metrics
  BY <1>1
<1>12. QED
  BY <1>8, <1>9, <1>10, <1>11, TheLeftOutOfTopUnion

\* The charts, which keep the best by each of two metrics: whoever is left off
\* has enough kept ones at least as good by either.
THEOREM TheCapKeepsTheBest == PagesSpec => []CapKeepsTheBest
<1>1. PagesInv => CapKeepsTheBest
  <2>0. SUFFICES ASSUME PagesInv, NEW rng \in Ranges
                 PROVE  LET all == PeopleOf(Since(profiles.plays, RangeCutoff(rng, profiles.day)))
                            kept == Charts(rng)
                            Beaten(r, group, metric) ==
                                Cardinality({k \in group : k[metric] >= r[metric]}) >= PeopleTopN
                        IN  /\ \A r \in all.people \ kept.people :
                                   LET group == {k \in kept.people : k.user = r.user /\ k.kind = r.kind}
                                   IN  Beaten(r, group, "watched") /\ Beaten(r, group, "titles")
                            /\ \A r \in all.items \ kept.items :
                                   LET group == {k \in kept.items : k.user = r.user /\ k.scope = r.scope}
                                   IN  Beaten(r, group, "watched") /\ Beaten(r, group, "plays")
    BY Zenon DEF CapKeepsTheBest
  <2> DEFINE all == PeopleOf(Since(profiles.plays, RangeCutoff(rng, profiles.day)))
             kept == Charts(rng)
  <2>1. PICK P : P = Since(profiles.plays, RangeCutoff(rng, profiles.day))
    OBVIOUS
  <2>2. P \subseteq Reports /\ IsFiniteSet(P)
    <3>1. PlaysOK(profiles.plays)
      BY <2>0 DEF PagesInv, PagesTypeOK, PlaysOK
    <3>2. QED
      BY <2>1, <3>1, SinceIs
  <2>3. /\ all.people = PeopleRows(P) /\ all.items = TopItemRows(P)
        /\ kept.people = CappedPeopleRows(PeopleRows(P))
        /\ kept.items = CappedTopItemRows(TopItemRows(P))
    BY <2>1 DEF PeopleOf, Charts, PeopleCharts
  <2> HIDE DEF all, kept
  <2>4. ASSUME NEW r \in all.people \ kept.people, NEW m \in {"watched", "titles"}
        PROVE  Cardinality({k \in {x \in kept.people : x.user = r.user /\ x.kind = r.kind} :
                                k[m] >= r[m]}) >= PeopleTopN
    <3>1. PICK rows, keep : rows = all.people /\ keep = kept.people
      OBVIOUS
    <3>2. /\ IsFiniteSet(rows) /\ keep = CappedPeopleRows(rows)
          /\ \A x \in rows : x.watched \in Nat /\ x.titles \in Nat /\ x.person \in Nat
      BY <2>2, <2>3, <3>1, PeopleRowsAre
    <3>3. r \in rows \ keep
      BY <3>1
    <3>4. PICK group : group = {x \in keep : x.user = r.user /\ x.kind = r.kind}
      OBVIOUS
    <3>5. Beats(group, r, m)
      BY <3>2, <3>3, <3>4, PeopleAreCapped
    <3>6. QED
      BY <3>1, <3>4, <3>5 DEF Beats
  <2>5. ASSUME NEW r \in all.items \ kept.items, NEW m \in {"watched", "plays"}
        PROVE  Cardinality({k \in {x \in kept.items : x.user = r.user /\ x.scope = r.scope} :
                                k[m] >= r[m]}) >= PeopleTopN
    <3>1. PICK rows, keep : rows = all.items /\ keep = kept.items
      OBVIOUS
    <3>2. /\ IsFiniteSet(rows) /\ keep = CappedTopItemRows(rows)
          /\ \A x \in rows : x.watched \in Nat /\ x.plays \in Nat /\ x.item \in Nat
      BY <2>2, <2>3, <3>1, TopItemRowsAre
    <3>3. r \in rows \ keep
      BY <3>1
    <3>4. PICK group : group = {x \in keep : x.user = r.user /\ x.scope = r.scope}
      OBVIOUS
    <3>5. Beats(group, r, m)
      BY <3>2, <3>3, <3>4, TopItemsAreCapped
    <3>6. QED
      BY <3>1, <3>4, <3>5 DEF Beats
  <2>6. QED
    BY <2>4, <2>5, Zenon DEF all, kept
<1>2. QED
  BY <1>1, PagesInvHolds, PTL

-----------------------------------------------------------------------------
(***************************************************************************)
(* The runs of a series.                                                   *)
(***************************************************************************)
\* The plays that a user has of a series, in which no two are of one item and
\* one time.
OneSeries(E) ==
    /\ E \subseteq Reports /\ IsFiniteSet(E)
    /\ \A p, q \in E : p.at = q.at /\ p.item = q.item => p = q

\* The order in which a run is read is total, and is that of time.
LEMMA BeforeIsAnOrder ==
    ASSUME NEW E, OneSeries(E), NEW p \in E, NEW q \in E
    PROVE  /\ ~Before(p, p)
           /\ \A r \in E : Before(p, q) /\ Before(q, r) => Before(p, r)
           /\ p = q \/ Before(p, q) \/ Before(q, p)
           /\ Before(p, q) => p.at <= q.at
<1>1. \A r \in E : r.at \in Nat /\ r.item \in Nat
  BY PlayIs, PlaysAssumption DEF OneSeries
<1>2. p.at = q.at /\ p.item = q.item => p = q
  BY DEF OneSeries
<1>3. QED
  BY <1>1, <1>2 DEF Before

Rank(E, p) == Cardinality({q \in E : Before(q, p)})

\* The plays before a play are as many as any number less than that of all.
LEMMA RankIs ==
    ASSUME NEW E, OneSeries(E), NEW n, n = Cardinality(E)
    PROVE  /\ n \in Nat /\ \A p \in E : Rank(E, p) \in 0..(n - 1)
           /\ \A p, q \in E : Before(p, q) => Rank(E, p) < Rank(E, q)
           /\ \A p, q \in E : Rank(E, p) = Rank(E, q) => p = q
           /\ \A i \in 0..(n - 1) : \E p \in E : Rank(E, p) = i
<1>1. IsFiniteSet(E) /\ n \in Nat
  BY FS_CardinalityType DEF OneSeries
<1>2. PICK up : up = [p \in E |-> {q \in E : Before(q, p)}]
  OBVIOUS
<1>3. \A p \in E : up[p] \subseteq E /\ Rank(E, p) = Cardinality(up[p])
  BY <1>2 DEF Rank
<1>4. \A p \in E : IsFiniteSet(up[p]) /\ Rank(E, p) \in Nat
  BY <1>1, <1>3, FS_Subset, FS_CardinalityType
<1>5. \A p \in E : Rank(E, p) \in 0..(n - 1)
  <2>1. TAKE p \in E
  <2>2. up[p] # E
    BY <1>2, BeforeIsAnOrder
  <2>3. Cardinality(up[p]) <= n /\ Cardinality(up[p]) # n
    BY <1>1, <1>3, <2>2, FS_Subset
  <2>4. QED
    BY <1>1, <1>3, <1>4, <2>3
<1>6. ASSUME NEW p \in E, NEW q \in E, Before(p, q) PROVE Rank(E, p) < Rank(E, q)
  <2>1. up[p] \subseteq up[q] /\ p \in up[q] /\ p \notin up[p]
    BY <1>2, <1>6, BeforeIsAnOrder
  <2>2. Cardinality(up[p]) <= Cardinality(up[q]) /\ Cardinality(up[p]) # Cardinality(up[q])
    BY <1>4, <2>1, FS_Subset
  <2>3. QED
    BY <1>3, <1>4, <2>2
<1>7. ASSUME NEW p \in E, NEW q \in E, Rank(E, p) = Rank(E, q) PROVE p = q
  BY <1>4, <1>6, <1>7, BeforeIsAnOrder
<1>8. ASSUME NEW i \in 0..(n - 1) PROVE \E p \in E : Rank(E, p) = i
  <2>1. PICK rank, N : rank = [p \in E |-> Rank(E, p)] /\ N = 0..(n - 1)
    OBVIOUS
  <2>2. rank \in Injection(E, N)
    BY <1>5, <1>7, <2>1 DEF Injection, IsInjective
  <2>3. IsFiniteSet(N) /\ Cardinality(N) = n
    BY <1>1, <2>1, FS_Interval
  <2>4. rank \in Surjection(E, N)
    BY <2>2, <2>3, FS_Injection
  <2>5. QED
    BY <2>1, <2>4 DEF Surjection
<1>9. QED
  BY <1>1, <1>5, <1>6, <1>7, <1>8

\* Sorting lists every episode once, in the order of time.
LEMMA SortedIs ==
    ASSUME NEW E, OneSeries(E), NEW n, n = Cardinality(E), NEW seq, seq = Sorted(E)
    PROVE  /\ n \in Nat /\ seq \in [1..n -> E] /\ Len(seq) = n
           /\ \A p \in E : \E i \in 1..n : seq[i] = p
           /\ \A i, j \in 1..n : i <= j => seq[i].at <= seq[j].at
           /\ \A i, j \in 1..n : seq[i] = seq[j] => i = j
<1>1. /\ n \in Nat /\ \A p \in E : Rank(E, p) \in 0..(n - 1)
      /\ \A p, q \in E : Before(p, q) => Rank(E, p) < Rank(E, q)
      /\ \A p, q \in E : Rank(E, p) = Rank(E, q) => p = q
      /\ \A i \in 0..(n - 1) : \E p \in E : Rank(E, p) = i
  BY RankIs
<1>2. DOMAIN seq = 1..n /\ seq = [i \in 1..n |-> CHOOSE p \in E : Rank(E, p) = i - 1]
  BY DEF Sorted, Rank
<1>3. ASSUME NEW i \in 1..n PROVE seq[i] \in E /\ Rank(E, seq[i]) = i - 1
  <2>1. i - 1 \in 0..(n - 1)
    BY <1>1
  <2>2. \E p \in E : Rank(E, p) = i - 1
    BY <1>1, <2>1
  <2>3. QED
    BY <1>2, <2>2
<1>4. seq \in [1..n -> E]
  BY <1>2, <1>3
<1>5. Len(seq) = n
  BY <1>1, <1>4
<1>6. ASSUME NEW p \in E PROVE \E i \in 1..n : seq[i] = p
  <2>1. PICK i : i = Rank(E, p) + 1
    OBVIOUS
  <2>2. i \in 1..n /\ i - 1 = Rank(E, p)
    BY <1>1, <2>1
  <2>3. QED
    BY <1>1, <1>3, <2>2
<1>7. ASSUME NEW i \in 1..n, NEW j \in 1..n, i <= j PROVE seq[i].at <= seq[j].at
  <2>1. seq[i] \in E /\ seq[j] \in E /\ Rank(E, seq[i]) = i - 1 /\ Rank(E, seq[j]) = j - 1
    BY <1>3
  <2>2. ~Before(seq[j], seq[i])
    BY <1>1, <1>7, <2>1
  <2>3. seq[i] = seq[j] \/ Before(seq[i], seq[j])
    BY <2>1, <2>2, BeforeIsAnOrder
  <2>4. seq[i].at \in Nat
    BY <2>1, PlayIs DEF OneSeries
  <2>5. QED
    BY <2>1, <2>3, <2>4, BeforeIsAnOrder
<1>8. ASSUME NEW i \in 1..n, NEW j \in 1..n, seq[i] = seq[j] PROVE i = j
  <2>1. i - 1 = j - 1
    BY <1>3, <1>8
  <2>2. QED
    BY <2>1
<1>9. QED
  BY <1>1, <1>4, <1>5, <1>6, <1>7, <1>8

\* Min is the least number of a set that has one.
LEMMA LeastNumber ==
    ASSUME NEW S, S \subseteq Nat, S # {}
    PROVE  Min(S) \in S /\ \A y \in S : Min(S) <= y
<1> DEFINE Less == {ss \in Nat \X Nat : ss[1] < ss[2]}
<1>1. IsWellFoundedOn(Less, Nat)
  BY NatLessThanWellFounded DEF OpToRel
<1>2. PICK x \in S : \A y \in S : <<y, x>> \notin Less
  <2> HIDE DEF Less
  <2>1. QED
    BY <1>1, WFMin
<1>3. ASSUME NEW y \in S PROVE x <= y
  <2>1. x \in Nat /\ y \in Nat
    OBVIOUS
  <2>2. ~(y < x)
    BY <1>2, <2>1
  <2>3. QED
    BY <2>1, <2>2
<1>4. QED
  BY <1>3 DEF Min

EndOf(St, n, i) == Min({j - 1 : j \in {k \in St : k > i}} \union {n})

\* A run ends just before the next start, or with the last play.
LEMMA LastOfIs ==
    ASSUME NEW n \in Nat, NEW St, St \subseteq 1..n, NEW i \in St, NEW e, e = EndOf(St, n, i)
    PROVE  /\ e \in i..n
           /\ \A k \in St : k > i => k > e
           /\ e = n \/ e + 1 \in St
<1>1. PICK S : S = {j - 1 : j \in {k \in St : k > i}} \union {n}
  OBVIOUS
<1>2. i \in 1..n /\ \A k \in St : k \in 1..n
  OBVIOUS
<1>3. \A x : x \in S <=> x = n \/ \E k \in St : k > i /\ x = k - 1
  BY <1>1
<1>4. S \subseteq Nat /\ S # {} /\ \A x \in S : x >= i
  BY <1>2, <1>3
<1>5. e = Min(S)
  BY <1>1 DEF EndOf
<1>6. e \in S /\ \A x \in S : e <= x
  BY <1>4, <1>5, LeastNumber
<1>7. \A k \in St : k > i => k - 1 \in S
  BY <1>3
<1>8. n \in S
  BY <1>3
<1>9. e \in Nat /\ e >= i /\ e <= n
  BY <1>4, <1>6, <1>8
<1>10. ASSUME NEW k \in St, k > i PROVE k > e
  <2>1. e <= k - 1
    BY <1>6, <1>7, <1>10
  <2>2. QED
    BY <1>2, <1>9, <2>1
<1>11. e = n \/ e + 1 \in St
  <2>1. CASE e # n
    <3>1. PICK k \in St : k > i /\ e = k - 1
      BY <1>3, <1>6, <2>1
    <3>2. e + 1 = k
      BY <1>2, <3>1
    <3>3. QED
      BY <3>1, <3>2
  <2>2. QED
    BY <2>1
<1>12. QED
  BY <1>2, <1>9, <1>10, <1>11

Silence(seq, k) == seq[k].at - seq[k - 1].at > BingeGapHours

\* Two plays are in one chain just when none between them starts another.
LEMMA ChainsAre ==
    ASSUME NEW E, OneSeries(E), NEW n, n = Cardinality(E), NEW seq, seq = Sorted(E)
    PROVE  /\ \A r \in Chains(E) : r \subseteq E
           /\ \A p \in E : \E r \in Chains(E) : p \in r
           /\ \A a, b \in 1..n : a <= b =>
                  ((\E r \in Chains(E) : seq[a] \in r /\ seq[b] \in r)
                       <=> \A k \in (a + 1)..b : ~Silence(seq, k))
<1>1. /\ n \in Nat /\ seq \in [1..n -> E] /\ Len(seq) = n
      /\ \A p \in E : \E i \in 1..n : seq[i] = p
      /\ \A i, j \in 1..n : seq[i] = seq[j] => i = j
  BY SortedIs
<1>2. PICK St : St = Starts(seq)
  OBVIOUS
<1>3. St \subseteq 1..n /\ \A k \in 1..n : k \in St <=> k = 1 \/ Silence(seq, k)
  BY <1>1, <1>2 DEF Starts, Silence
<1>4. PICK run : run = [i \in St |-> {seq[j] : j \in i..EndOf(St, n, i)}]
  OBVIOUS
<1>5. Chains(E) = {run[i] : i \in St}
  <2>1. Chains(E) = {{seq[j] : j \in i..EndOf(St, n, i)} : i \in St}
    BY <1>1, <1>2 DEF Chains, EndOf
  <2>2. QED
    BY <1>4, <2>1
<1>6. PICK last : last = [i \in St |-> EndOf(St, n, i)]
  OBVIOUS
<1>7. \A i \in St : /\ i \in 1..n /\ last[i] \in i..n /\ \A k \in St : k > i => k > last[i]
                    /\ last[i] = n \/ last[i] + 1 \in St
  BY <1>1, <1>3, <1>6, LastOfIs, ZenonT(40)
<1>8. ASSUME NEW i \in St, NEW j \in 1..n PROVE seq[j] \in run[i] <=> j \in i..last[i]
  <2>1. run[i] = {seq[k] : k \in i..last[i]}
    BY <1>4, <1>6
  <2>2. i \in 1..n /\ last[i] \in i..n
    BY <1>7
  <2>3. \A k \in i..last[i] : k \in 1..n
    BY <1>1, <2>2
  <2>4. QED
    BY <1>1, <2>1, <2>3
<1>9. ASSUME NEW r \in Chains(E) PROVE r \subseteq E
  <2>1. PICK i \in St : r = {seq[k] : k \in i..last[i]}
    BY <1>4, <1>5, <1>6
  <2>2. \A k \in i..last[i] : seq[k] \in E
    BY <1>1, <1>7
  <2>3. QED
    BY <2>1, <2>2
\* The start that a play comes after.
<1>10. ASSUME NEW a \in 1..n PROVE \E i \in St : i <= a /\ \A k \in St : k <= a => k <= i
  <2>1. PICK B : B = {k \in St : k <= a}
    OBVIOUS
  <2>2. 1 \in St /\ 1 <= a /\ a \in Nat
    <3>1. 1 \in 1..n
      BY <1>1
    <3>2. QED
      BY <1>1, <1>3, <3>1
  <2>3. B \subseteq 0..a /\ B # {} /\ a \in Nat
    <3>1. \A k \in B : k \in 0..a
      BY <1>1, <1>3, <2>1, <2>2
    <3>2. 1 \in B
      BY <2>1, <2>2
    <3>3. QED
      BY <2>2, <3>1, <3>2
  <2>4. PICK i \in B : \A k \in B : i >= k
    BY <2>3, LargestNumber
  <2>5. i \in St /\ i <= a /\ i \in Nat
    BY <2>1, <2>3
  <2>6. ASSUME NEW k \in St, k <= a PROVE k <= i
    <3>1. k \in B
      BY <2>1, <2>6
    <3>2. i >= k /\ k \in Nat
      BY <2>3, <2>4, <3>1
    <3>3. QED
      BY <2>5, <3>2
  <2>7. QED
    BY <2>5, <2>6
<1>11. ASSUME NEW a \in 1..n, NEW b \in 1..n, a <= b
       PROVE  (\E r \in Chains(E) : seq[a] \in r /\ seq[b] \in r)
                  <=> \A k \in (a + 1)..b : ~Silence(seq, k)
  <2>1. \A k \in (a + 1)..b : k \in 1..n /\ (k \in St <=> Silence(seq, k))
    BY <1>1, <1>3
  <2>2. ASSUME NEW r \in Chains(E), seq[a] \in r, seq[b] \in r, NEW k \in (a + 1)..b
        PROVE  k \notin St
    <3>1. PICK i \in St : r = run[i]
      BY <1>5
    <3>2. a \in i..last[i] /\ b \in i..last[i]
      BY <1>8, <2>2, <3>1
    <3>3. i \in 1..n /\ last[i] \in 1..n /\ \A j \in St : j > i => j > last[i]
      BY <1>7
    <3>4. k > i /\ ~(k > last[i])
      BY <3>2, <3>3
    <3>5. QED
      BY <3>3, <3>4
  <2>3. ASSUME \A k \in (a + 1)..b : k \notin St
        PROVE  \E r \in Chains(E) : seq[a] \in r /\ seq[b] \in r
    <3>1. PICK i \in St : i <= a /\ \A k \in St : k <= a => k <= i
      BY <1>10
    <3>2. i \in 1..n /\ last[i] \in i..n /\ (\A k \in St : k > i => k > last[i])
          /\ (last[i] = n \/ last[i] + 1 \in St)
      BY <1>7
    <3>3. b <= last[i]
      <4>1. SUFFICES ASSUME last[i] < b PROVE FALSE
        BY <3>2
      <4>2. last[i] + 1 \in St
        BY <1>1, <3>2, <4>1
      <4>3. last[i] + 1 > i /\ last[i] + 1 <= b
        BY <3>2, <4>1
      <4>4. ~(last[i] + 1 <= a)
        BY <3>1, <3>2, <4>2, <4>3
      <4>5. last[i] + 1 \in (a + 1)..b
        BY <3>2, <4>3, <4>4
      <4>6. QED
        BY <2>3, <4>2, <4>5
    <3>4. a \in i..last[i] /\ b \in i..last[i]
      BY <1>11, <3>1, <3>2, <3>3
    <3>5. seq[a] \in run[i] /\ seq[b] \in run[i]
      BY <1>8, <3>4
    <3>6. QED
      BY <1>5, <3>5
  <2>4. QED
    BY <2>1, <2>2, <2>3
<1>12. ASSUME NEW p \in E PROVE \E r \in Chains(E) : p \in r
  <2>1. PICK a \in 1..n : seq[a] = p
    BY <1>1
  <2>2. \A k \in (a + 1)..a : FALSE
    OBVIOUS
  <2>3. a <= a
    OBVIOUS
  <2>4. \E r \in Chains(E) : seq[a] \in r /\ seq[a] \in r
    BY <1>11, <2>2, <2>3
  <2>5. QED
    BY <2>1, <2>4
<1>13. QED
  BY <1>9, <1>11, <1>12

Continued(E, p) == {r \in E : p.at < r.at /\ r.at <= p.at + BingeGapHours} # {}

\* No play starts another chain just when every play before the later one is
\* followed by another before the gap is over.
LEMMA SilenceIs ==
    ASSUME NEW E, OneSeries(E), NEW n, n = Cardinality(E), NEW seq, seq = Sorted(E),
           NEW a \in 1..n, NEW b \in 1..n, a <= b
    PROVE  (\A k \in (a + 1)..b : ~Silence(seq, k))
               <=> \A m \in E : seq[a].at <= m.at /\ m.at < seq[b].at => Continued(E, m)
<1>1. /\ n \in Nat /\ seq \in [1..n -> E]
      /\ \A p \in E : \E i \in 1..n : seq[i] = p
      /\ \A i, j \in 1..n : i <= j => seq[i].at <= seq[j].at
  BY SortedIs
<1>2. \A p \in E : p.at \in Nat
  BY PlayIs DEF OneSeries
<1>3. BingeGapHours \in Nat
  BY ProfileAssumption
<1>4. \A i \in 1..n : seq[i] \in E /\ seq[i].at \in Nat
  BY <1>1, <1>2
<1>5. ASSUME \A k \in (a + 1)..b : ~Silence(seq, k),
             NEW m \in E, seq[a].at <= m.at, m.at < seq[b].at
      PROVE  Continued(E, m)
  <2>1. PICK B : B = {i \in 1..n : seq[i].at <= m.at}
    OBVIOUS
  <2>2. B \subseteq 0..n /\ a \in B
    BY <1>5, <2>1
  <2>3. PICK j \in B : \A i \in B : j >= i
    BY <1>1, <2>2, LargestNumber
  <2>4. j \in 1..n /\ seq[j].at <= m.at /\ j >= a
    BY <2>1, <2>2, <2>3
  <2>5. m.at <= seq[j].at
    <3>1. PICK i \in 1..n : seq[i] = m
      BY <1>1
    <3>2. i \in B
      BY <1>2, <2>1, <3>1
    <3>3. i <= j
      BY <2>3, <2>4, <3>2
    <3>4. QED
      BY <1>1, <2>4, <3>1, <3>3
  <2>6. j < b
    <3>1. SUFFICES ASSUME b <= j PROVE FALSE
      BY <2>4
    <3>2. seq[b].at <= seq[j].at
      BY <1>1, <2>4, <3>1
    <3>3. QED
      BY <1>2, <1>4, <1>5, <2>4, <3>2
  <2>7. PICK k : k = j + 1
    OBVIOUS
  <2>8. k \in 1..n /\ k \in (a + 1)..b /\ k - 1 = j
    BY <1>1, <2>4, <2>6, <2>7
  <2>9. ~(seq[k].at <= m.at)
    <3>1. k \notin B
      BY <2>3, <2>4, <2>7
    <3>2. QED
      BY <2>1, <2>8, <3>1
  <2>10. ~(seq[k].at - seq[j].at > BingeGapHours)
    BY <1>5, <2>8 DEF Silence
  <2>11. seq[k] \in E /\ seq[k].at \in Nat /\ seq[j].at \in Nat /\ m.at \in Nat
    BY <1>2, <1>4, <2>4, <2>8
  <2>12. m.at < seq[k].at /\ seq[k].at <= m.at + BingeGapHours
    BY <1>3, <2>4, <2>9, <2>10, <2>11
  <2>13. QED
    BY <2>11, <2>12 DEF Continued
<1>6. ASSUME \A m \in E : seq[a].at <= m.at /\ m.at < seq[b].at => Continued(E, m),
             NEW k \in (a + 1)..b, Silence(seq, k)
      PROVE  FALSE
  <2>1. PICK j : j = k - 1
    OBVIOUS
  <2>2. k \in 1..n /\ j \in 1..n /\ a <= j /\ j <= k /\ k <= b
    BY <1>1, <2>1
  <2>3. PICK m : m = seq[j]
    OBVIOUS
  <2>4. m \in E /\ m.at \in Nat /\ seq[k].at \in Nat /\ seq[a].at \in Nat /\ seq[b].at \in Nat
    BY <1>4, <2>2, <2>3
  <2>5. seq[a].at <= m.at /\ m.at <= seq[k].at /\ seq[k].at <= seq[b].at
    BY <1>1, <2>2, <2>3
  <2>6. seq[k].at - m.at > BingeGapHours
    BY <1>6, <2>1, <2>3 DEF Silence
  <2>7. m.at < seq[b].at
    BY <1>3, <2>4, <2>5, <2>6
  <2>8. PICK r \in E : m.at < r.at /\ r.at <= m.at + BingeGapHours
    BY <1>6, <2>4, <2>5, <2>7 DEF Continued
  <2>9. PICK i \in 1..n : seq[i] = r
    BY <1>1
  <2>10. r.at \in Nat
    BY <1>2
  <2>11. ~(i <= j)
    <3>1. SUFFICES ASSUME i <= j PROVE FALSE
      OBVIOUS
    <3>2. r.at <= m.at
      BY <1>1, <2>2, <2>3, <2>9, <3>1
    <3>3. QED
      BY <2>4, <2>8, <2>10, <3>2
  <2>12. k <= i
    BY <2>1, <2>2, <2>11
  <2>13. seq[k].at <= r.at
    BY <1>1, <2>2, <2>9, <2>12
  <2>14. QED
    BY <1>3, <2>4, <2>6, <2>8, <2>10, <2>13
<1>7. QED
  BY <1>5, <1>6

OfSeries(E, s) == {p \in E : Series(p) = s}

\* What a user has watched of a series, and the runs of all of them.
LEMMA EpisodesAre ==
    ASSUME NEW plays, PlaysOK(plays), \A p, q \in plays : SamePlay(p, q) => p = q, NEW u,
           NEW E, E = EpisodesOf(u, plays)
    PROVE  /\ \A s : OneSeries(OfSeries(E, s))
           /\ RunsOf(u, plays) = UNION {Chains(OfSeries(E, s)) : s \in {Series(p) : p \in E}}
<1>1. E \subseteq plays /\ \A p \in E : p.user = u
  BY DEF EpisodesOf
<1>2. ASSUME NEW s PROVE OneSeries(OfSeries(E, s))
  <2>1. OfSeries(E, s) \subseteq plays /\ \A p \in OfSeries(E, s) : p.user = u
    BY <1>1 DEF OfSeries
  <2>2. OfSeries(E, s) \subseteq Reports /\ IsFiniteSet(OfSeries(E, s))
    BY <2>1, FS_Subset DEF PlaysOK
  <2>3. \A p, q \in OfSeries(E, s) : p.at = q.at /\ p.item = q.item => p = q
    BY <2>1 DEF SamePlay
  <2>4. QED
    BY <2>2, <2>3 DEF OneSeries
<1>3. RunsOf(u, plays) = UNION {Chains(OfSeries(E, s)) : s \in {Series(p) : p \in E}}
  BY DEF RunsOf, OfSeries
<1>4. QED
  BY <1>2, <1>3

\* The runs of a series, which a gap between two of its episodes ends: they part
\* the episodes, and two episodes with no such gap between them are in one.
THEOREM RunsAreTheChains == PagesSpec => []RunsAreChains
<1>1. PagesInv => RunsAreChains
  <2>0. SUFFICES ASSUME PagesInv, NEW u \in Users
                 PROVE  LET runs == RunsOf(u, profiles.plays)
                            evs == EpisodesOf(u, profiles.plays)
                            continued(p) == {r \in evs : Series(r) = Series(p) /\ p.at < r.at
                                                            /\ r.at <= p.at + BingeGapHours} # {}
                        IN  /\ UNION runs = evs
                            /\ \A p, q \in evs : Series(p) = Series(q) /\ p.at <= q.at =>
                                   ((\E r \in runs : {p, q} \subseteq r) <=>
                                       \A m \in {r \in evs : Series(r) = Series(p) /\ p.at <= r.at
                                                                 /\ r.at < q.at} : continued(m))
    BY Zenon DEF RunsAreChains
  <2> DEFINE runs == RunsOf(u, profiles.plays)
             E == EpisodesOf(u, profiles.plays)
  <2>1. PlaysOK(profiles.plays) /\ \A p, q \in profiles.plays : SamePlay(p, q) => p = q
    BY <2>0 DEF PagesInv, PagesTypeOK, PlaysOK
  <2>2. /\ \A s : OneSeries(OfSeries(E, s))
        /\ runs = UNION {Chains(OfSeries(E, s)) : s \in {Series(p) : p \in E}}
    BY <2>1, EpisodesAre
  <2> HIDE DEF runs, E
  <2>3. \A r : r \in runs <=> \E s \in {Series(p) : p \in E} : r \in Chains(OfSeries(E, s))
    BY <2>2, Zenon
  <2>4. \A r : r \in runs <=> \E p \in E : r \in Chains(OfSeries(E, Series(p)))
    BY <2>3
  <2>5. \A s : \A r \in Chains(OfSeries(E, s)) : r \subseteq OfSeries(E, s)
    BY <2>2, ChainsAre
  <2>6. \A s : OfSeries(E, s) = {p \in E : Series(p) = s}
    BY DEF OfSeries
  <2>7. UNION runs = E
    <3>1. \A r \in runs : r \subseteq E
      BY <2>4, <2>5, <2>6
    <3>2. ASSUME NEW p \in E PROVE \E r \in runs : p \in r
      <4>1. p \in OfSeries(E, Series(p))
        BY <2>6
      <4>2. \E r \in Chains(OfSeries(E, Series(p))) : p \in r
        BY <2>2, <4>1, ChainsAre
      <4>3. QED
        BY <2>4, <4>2
    <3>3. QED
      BY <3>1, <3>2
  <2>8. ASSUME NEW p \in E, NEW q \in E, Series(p) = Series(q), p.at <= q.at
        PROVE  (\E r \in runs : p \in r /\ q \in r)
                   <=> \A m \in {r \in E : Series(r) = Series(p) /\ p.at <= r.at /\ r.at < q.at} :
                           {r \in E : Series(r) = Series(m) /\ m.at < r.at
                                          /\ r.at <= m.at + BingeGapHours} # {}
    <3>1. PICK F : F = OfSeries(E, Series(p))
      OBVIOUS
    <3>0. OneSeries(F)
      BY <2>2, <3>1
    <3>2. F = {r \in E : Series(r) = Series(p)} /\ p \in F /\ q \in F
      BY <2>6, <2>8, <3>1
    <3>3. (\E r \in runs : p \in r /\ q \in r) <=> \E r \in Chains(F) : p \in r /\ q \in r
      <4>1. ASSUME NEW r \in runs, p \in r PROVE r \in Chains(F)
        <5>1. PICK x \in E : r \in Chains(OfSeries(E, Series(x)))
          BY <2>4, <4>1
        <5>2. p \in OfSeries(E, Series(x))
          BY <2>5, <4>1, <5>1
        <5>3. Series(x) = Series(p)
          BY <2>6, <5>2
        <5>4. QED
          BY <3>1, <5>1, <5>3
      <4>2. \A r \in Chains(F) : r \in runs
        BY <2>4, <3>1
      <4>3. QED
        BY <4>1, <4>2
    <3>4. PICK n, seq : n = Cardinality(F) /\ seq = Sorted(F)
      OBVIOUS
    <3>5. /\ n \in Nat /\ seq \in [1..n -> F]
          /\ \A x \in F : \E i \in 1..n : seq[i] = x
          /\ \A i, j \in 1..n : i <= j => seq[i].at <= seq[j].at
      BY <3>0, <3>4, SortedIs
    <3>6. PICK a \in 1..n, b \in 1..n : seq[a] = p /\ seq[b] = q
      BY <3>2, <3>5
    <3>7. PICK follows : follows = \A m \in F : p.at <= m.at /\ m.at < q.at => Continued(F, m)
      OBVIOUS
    <3>8. (\E r \in Chains(F) : p \in r /\ q \in r) <=> follows
      <4>1. CASE a <= b
        <5>1. (\E r \in Chains(F) : seq[a] \in r /\ seq[b] \in r)
                  <=> \A k \in (a + 1)..b : ~Silence(seq, k)
          BY <3>0, <3>4, <3>6, <4>1, ChainsAre
        <5>2. (\A k \in (a + 1)..b : ~Silence(seq, k))
                  <=> \A m \in F : seq[a].at <= m.at /\ m.at < seq[b].at => Continued(F, m)
          BY <3>0, <3>4, <3>6, <4>1, SilenceIs
        <5>3. QED
          BY <3>6, <3>7, <5>1, <5>2
      <4>2. CASE ~(a <= b)
        <5>1. b <= a
          BY <3>5, <4>2
        <5>2. seq[b].at <= seq[a].at
          BY <3>5, <3>6, <5>1
        <5>3. \A m \in F : m.at \in Nat
          BY <3>0, PlayIs DEF OneSeries
        <5>4. p.at \in Nat /\ q.at \in Nat
          BY <3>2, <5>3
        <5>5. q.at <= p.at
          BY <3>6, <5>2
        <5>6. \A m \in F : ~(p.at <= m.at /\ m.at < q.at)
          BY <5>3, <5>4, <5>5
        <5>7. \A m \in F : ~(q.at <= m.at /\ m.at < p.at)
          BY <2>8, <5>3, <5>4
        <5>8. \A k \in (b + 1)..a : ~Silence(seq, k)
          BY <3>0, <3>4, <3>6, <5>1, <5>7, SilenceIs
        <5>9. \E r \in Chains(F) : seq[b] \in r /\ seq[a] \in r
          BY <3>0, <3>4, <3>6, <5>1, <5>8, ChainsAre
        <5>10. QED
          BY <3>6, <3>7, <5>6, <5>9
      <4>3. QED
        BY <4>1, <4>2
    <3>9. \A m \in F : Continued(F, m) <=> {r \in E : Series(r) = Series(m) /\ m.at < r.at
                                                         /\ r.at <= m.at + BingeGapHours} # {}
      <4>1. TAKE m \in F
      <4>2. Series(m) = Series(p)
        BY <3>2
      <4>3. {r \in F : m.at < r.at /\ r.at <= m.at + BingeGapHours}
                = {r \in E : Series(r) = Series(m) /\ m.at < r.at /\ r.at <= m.at + BingeGapHours}
        BY <3>2, <4>2
      <4>4. QED
        BY <4>3 DEF Continued
    <3>10. \A m : m \in {r \in E : Series(r) = Series(p) /\ p.at <= r.at /\ r.at < q.at}
                      <=> m \in F /\ p.at <= m.at /\ m.at < q.at
      BY <3>2
    <3>11. QED
      BY <3>3, <3>7, <3>8, <3>9, <3>10
  <2>9. ASSUME NEW p \in E, NEW q \in E, Series(p) = Series(q) /\ p.at <= q.at
        PROVE  (\E r \in runs : {p, q} \subseteq r)
                   <=> \A m \in {r \in E : Series(r) = Series(p) /\ p.at <= r.at /\ r.at < q.at} :
                           {r \in E : Series(r) = Series(m) /\ m.at < r.at
                                          /\ r.at <= m.at + BingeGapHours} # {}
    <3>1. \A r : {p, q} \subseteq r <=> p \in r /\ q \in r
      OBVIOUS
    <3>2. (\E r \in runs : {p, q} \subseteq r) <=> \E r \in runs : p \in r /\ q \in r
      BY <3>1
    <3>3. QED
      BY <2>8, <2>9, <3>2
  <2>10. QED
    BY <2>7, <2>9, Zenon DEF runs, E
<1>2. QED
  BY <1>1, PagesInvHolds, PTL

-----------------------------------------------------------------------------
(***************************************************************************)
(* The first of a list.                                                    *)
(***************************************************************************)
LEMMA OneIsFirst ==
    ASSUME NEW S, IsFiniteSet(S), S # {}, NEW Up,
           \A x \in S : Up[x] \subseteq S /\ x \notin Up[x],
           \A x \in S : \A y \in Up[x] : Up[y] \subseteq Up[x]
    PROVE  \E x \in S : Up[x] = {}
<1>1. SUFFICES ASSUME \A x \in S : Up[x] # {} PROVE FALSE
  OBVIOUS
<1>2. \A x \in S : IsFiniteSet(Up[x]) /\ Cardinality(Up[x]) \in Nat /\ Cardinality(Up[x]) # 0
  BY <1>1, FS_Subset, FS_CardinalityType, FS_EmptySet
<1>3. PICK n \in Nat : n = 1
  OBVIOUS
<1>4. \A x \in S : Cardinality(Up[x]) >= n
  BY <1>2, <1>3
<1>5. PICK r \in S : TRUE
  OBVIOUS
<1>6. PICK F : F = {x \in Up[r] : Cardinality(Up[x]) < n}
  OBVIOUS
<1>7. Cardinality(Up[r]) >= n
  BY <1>4
<1>8. Cardinality(F) >= n
  BY <1>6, <1>7, TheFirstAreAhead
<1>9. Up[r] \subseteq S
  OBVIOUS
<1>10. ASSUME NEW x \in F PROVE FALSE
  <2>1. x \in S /\ Cardinality(Up[x]) < n
    BY <1>6, <1>9
  <2>2. QED
    BY <1>2, <1>4, <2>1
<1>11. F = {}
  BY <1>10
<1>12. QED
  BY <1>3, <1>8, <1>11, FS_EmptySet

\* Max is the greatest of finitely many.
LEMMA GreatestNumber ==
    ASSUME NEW S, IsFiniteSet(S), S # {}, S \subseteq Int
    PROVE  Max(S) \in S /\ \A y \in S : y <= Max(S)
<1>1. PICK Up : Up = [x \in S |-> {y \in S : y > x}]
  OBVIOUS
<1>2. \A x \in S : Up[x] \subseteq S /\ x \notin Up[x]
  BY <1>1
<1>3. \A x \in S : \A y \in Up[x] : Up[y] \subseteq Up[x]
  <2>1. ASSUME NEW x \in S, NEW y \in Up[x], NEW z \in Up[y] PROVE z \in Up[x]
    BY <1>1, <2>1
  <2>2. QED
    BY <2>1
<1>4. \E x \in S : Up[x] = {}
  BY <1>2, <1>3, OneIsFirst
<1>5. PICK x \in S : Up[x] = {}
  BY <1>4
<1>6. \A y \in S : x >= y
  <2>1. TAKE y \in S
  <2>2. y \notin Up[x]
    BY <1>5
  <2>3. QED
    BY <1>1, <2>2
<1>7. \E z \in S : \A y \in S : z >= y
  BY <1>6
<1>8. QED
  BY <1>7 DEF Max

\* -1 stands for no show.
BestOf(H) == Max(H \union {-1})

\* A list has the same best when what is left out of it has as good in it.
LEMMA SameBest ==
    ASSUME NEW H, IsFiniteSet(H), H \subseteq Nat, NEW K, K \subseteq H,
           \A h \in H : \E k \in K : k >= h
    PROVE  BestOf(K) = BestOf(H)
<1>1. PICK S, T : S = H \union {-1} /\ T = K \union {-1}
  OBVIOUS
<1>2. S \subseteq Int /\ T \subseteq S /\ T # {} /\ S # {} /\ \A h \in S : \E k \in T : k >= h
  BY <1>1
<1>3. IsFiniteSet(S) /\ IsFiniteSet(T)
  BY <1>1, <1>2, FS_AddElement, FS_Subset
<1>4. /\ Max(S) \in S /\ \A y \in S : y <= Max(S)
      /\ Max(T) \in T /\ \A y \in T : y <= Max(T)
  <2>1. T \subseteq Int
    BY <1>2
  <2>2. QED
    BY <1>2, <1>3, <2>1, GreatestNumber
<1>5. PICK k \in T : k >= Max(S)
  BY <1>2, <1>4
<1>6. k <= Max(T) /\ Max(T) <= Max(S) /\ Max(T) \in Int /\ Max(S) \in Int /\ k \in Int
  BY <1>2, <1>4
<1>7. Max(S) = Max(T)
  BY <1>5, <1>6
<1>8. QED
  BY <1>1, <1>7 DEF BestOf

\* The first by an order of the hours has the most of them.
LEMMA FirstIsBest ==
    ASSUME NEW H, IsFiniteSet(H), H \subseteq Nat, NEW x \in H, \A h \in H : x >= h
    PROVE  BestOf(H) = x
<1>1. PICK S : S = H \union {-1}
  OBVIOUS
<1>2. S \subseteq Int /\ S # {} /\ x \in S /\ \A y \in S : y <= x
  BY <1>1
<1>3. IsFiniteSet(S)
  BY <1>1, FS_AddElement
<1>4. Max(S) \in S /\ \A y \in S : y <= Max(S)
  BY <1>2, <1>3, GreatestNumber
<1>5. x <= Max(S) /\ Max(S) <= x /\ x \in Int /\ Max(S) \in Int
  BY <1>2, <1>4
<1>6. QED
  BY <1>1, <1>5 DEF BestOf

\* Some row is first, whichever column it is by.
LEMMA SomeoneIsKept ==
    ASSUME NEW rows, IsFiniteSet(rows), NEW n \in Nat \ {0}, NEW m, NEW id,
           \A x \in rows : x[m] \in Nat /\ x[id] \in Nat, NEW r \in rows
    PROVE  \E k \in KeptOf(n, rows, m, id) : k[m] >= r[m]
<1>1. CASE r \in KeptOf(n, rows, m, id)
  BY <1>1
<1>2. CASE r \notin KeptOf(n, rows, m, id)
  <2>1. PICK G : G = {k \in KeptOf(n, rows, m, id) : k[m] >= r[m]}
    OBVIOUS
  <2>2. Cardinality(G) >= n
    BY <1>2, <2>1, TheLeftOutAreBeaten
  <2>3. G # {}
    BY <2>2, FS_EmptySet
  <2>4. QED
    BY <2>1, <2>3
<1>3. QED
  BY <1>1, <1>2

-----------------------------------------------------------------------------
(***************************************************************************)
(* The minutes of the shows.                                               *)
(***************************************************************************)
\* In full, a row has the facts of each of its plays.
LEMMA RowsInFull ==
    ASSUME NEW plays, PlaysOK(plays), InFull(plays), NEW p \in Counted(plays)
    PROVE  /\ FactsOf(p) = About[p.item]
           /\ RollOf(plays)[p].facts = FactsOf(p)
           /\ DailyOf(plays)[p].series = Series(p)
           /\ DailyOf(plays)[p].scope = About[p.item].scope
<1>1. \A q \in Counted(plays) : FactsOf(q) = About[q.item]
  BY CountedIs DEF InFull, FactsOf
<1>2. RollOf(plays)[p].facts = FactsOf(p)
  <2>1. RollOf(plays)[p] = DayRow(DayGroup(plays, p))
    BY DEF RollOf
  <2>2. PICK q \in DayGroup(plays, p) : RollOf(plays)[p].facts = FactsOf(q)
    BY <2>1, DayRowIs
  <2>3. q \in Counted(plays) /\ q.item = p.item
    BY DayGroupIs DEF SameDayRow
  <2>4. QED
    BY <1>1, <2>2, <2>3
<1>3. DailyOf(plays)[p].series = Series(p) /\ DailyOf(plays)[p].scope = About[p.item].scope
  <2>1. PICK G : G = DailyGroup(plays, p)
    OBVIOUS
  <2>2. p \in G /\ G \subseteq Counted(plays) /\ \A q \in G : q.item = p.item
    BY <2>1 DEF DailyGroup, SameDailyRow
  <2>3. PICK e : e = Earliest(G) /\ e \in G
    BY <2>2, CountedIs, EarliestIs
  <2>4. Series(e) = Series(p)
    BY <1>1, <2>2, <2>3 DEF Series
  <2>5. DailyOf(plays)[p].series = Series(e) /\ DailyOf(plays)[p].scope = About[e.item].scope
    BY <2>1, <2>3 DEF DailyOf, DailyRow
  <2>6. QED
    BY <2>2, <2>3, <2>4, <2>5
<1>4. QED
  BY <1>1, <1>2, <1>3

\* The minutes of a user in a show, for every show.
OfShow(P, s) == {p \in P : Series(p) = s}
ShowsOf(P) == {Series(p) : p \in P} \ {NoId}
Hours(P) == {Minutes(OfShow(P, s)) : s \in ShowsOf(P)}

\* The minutes of the shows are finitely many numbers.
LEMMA HoursAre ==
    ASSUME NEW P, P \subseteq Reports, IsFiniteSet(P)
    PROVE  /\ IsFiniteSet(Hours(P)) /\ Hours(P) \subseteq Nat
           /\ IsFiniteSet(ShowsOf(P)) /\ ShowsOf(P) \subseteq Nat
<1>1. ASSUME NEW s PROVE OfShow(P, s) \subseteq Reports /\ IsFiniteSet(OfShow(P, s))
  <2>1. OfShow(P, s) \subseteq P
    BY DEF OfShow
  <2>2. QED
    BY <2>1, FS_Subset
<1>2. IsFiniteSet(ShowsOf(P))
  <2>1. PICK h, K : h = [p \in P |-> Series(p)] /\ K = {Series(p) : p \in P}
    OBVIOUS
  <2>2. (\A p \in P : h[p] \in K) /\ \A k \in K : \E p \in P : h[p] = k
    BY <2>1
  <2>3. IsFiniteSet(K)
    BY <2>2, FiniteImage
  <2>4. ShowsOf(P) \subseteq K
    BY <2>1 DEF ShowsOf
  <2>5. QED
    BY <2>3, <2>4, FS_Subset
<1>3. IsFiniteSet(Hours(P))
  <2>1. PICK h, K, H : /\ h = [s \in ShowsOf(P) |-> Minutes(OfShow(P, s))]
                       /\ K = ShowsOf(P) /\ H = Hours(P)
    OBVIOUS
  <2>2. (\A s \in K : h[s] \in H) /\ \A x \in H : \E s \in K : h[s] = x
    BY <2>1 DEF Hours
  <2>3. QED
    BY <1>2, <2>1, <2>2, FiniteImage
<1>4. Hours(P) \subseteq Nat
  BY <1>1, MinutesAre DEF Hours
<1>5. ShowsOf(P) \subseteq Nat
  BY FactsAre DEF ShowsOf, Series
<1>6. QED
  BY <1>2, <1>3, <1>4, <1>5

\* Only an episode has a show.
LEMMA ShowsHaveEpisodes ==
    ASSUME NEW p \in Reports, Series(p) # NoId
    PROVE  FactsOf(p).scope = "episode" /\ About[p.item].scope = "episode"
  BY FactsAre DEF Series

\* The rows of the shows in a profile, and in the watch table.
ShowRows(plays, u, c) ==
    {r \in RowsSince(plays, u, c) : r.facts.scope = "episode" /\ r.facts.series # NoId}
ShowDays(plays, u, c) ==
    {r \in Daily(plays) : r.day >= c /\ r.user = u /\ r.scope = "episode" /\ r.series # NoId}

\* By the rows of the profiles a show has the minutes of its plays.
LEMMA ShowRowsAre ==
    ASSUME NEW plays, PlaysOK(plays), InFull(plays), NEW u, NEW c,
           NEW P, P = PlaysSince(plays, u, c), NEW E, E = ShowRows(plays, u, c)
    PROVE  /\ {r.facts.series : r \in E} = ShowsOf(P)
           /\ \A s \in ShowsOf(P) :
                  Watched({r \in E : r.facts.series = s}) = Minutes(OfShow(P, s))
<1>1. PICK rowOf : rowOf = RollOf(plays)
  OBVIOUS
<1>2. \A p \in Counted(plays) : /\ rowOf[p] \in RollDaily(plays) /\ rowOf[p].facts = FactsOf(p)
                                /\ rowOf[p].user = p.user /\ rowOf[p].day = Day(p)
  BY <1>1, RollIs, RowsInFull
<1>3. \A r \in RollDaily(plays) : \E p \in Counted(plays) : rowOf[p] = r
  BY <1>1, RollIs
<1>4. E = {r \in RollDaily(plays) : /\ r.user = u /\ r.day >= c
                                    /\ r.facts.scope = "episode" /\ r.facts.series # NoId}
  BY DEF ShowRows, RowsSince, FilterSince, FilterUser
<1>5. \A p : p \in P <=> p \in Counted(plays) /\ p.user = u /\ Day(p) >= c
  BY DEF PlaysSince
<1>6. \A p \in Counted(plays) : Series(p) = FactsOf(p).series
                                /\ (Series(p) # NoId => FactsOf(p).scope = "episode")
  BY CountedIs, ShowsHaveEpisodes DEF Series
<1>7. \A p \in Counted(plays) : rowOf[p] \in E <=> p \in P /\ Series(p) # NoId
  BY <1>2, <1>4, <1>5, <1>6
<1>8. {r.facts.series : r \in E} = ShowsOf(P)
  <2>1. ASSUME NEW r \in E PROVE r.facts.series \in ShowsOf(P)
    <3>1. PICK p \in Counted(plays) : rowOf[p] = r
      BY <1>3, <1>4
    <3>2. p \in P /\ Series(p) # NoId /\ r.facts.series = Series(p)
      BY <1>2, <1>6, <1>7, <3>1
    <3>3. QED
      BY <3>2 DEF ShowsOf
  <2>2. ASSUME NEW s \in ShowsOf(P) PROVE \E r \in E : r.facts.series = s
    <3>1. PICK p \in P : Series(p) = s /\ s # NoId
      BY DEF ShowsOf
    <3>2. rowOf[p] \in E /\ rowOf[p].facts.series = s
      BY <1>2, <1>5, <1>6, <1>7, <3>1
    <3>3. QED
      BY <3>2
  <2>3. QED
    BY <2>1, <2>2
<1>9. ASSUME NEW s \in ShowsOf(P)
      PROVE  Watched({r \in E : r.facts.series = s}) = Minutes(OfShow(P, s))
  <2>1. PICK R : R = {r \in E : r.facts.series = s}
    OBVIOUS
  <2>2. R \subseteq RollDaily(plays)
    BY <1>4, <2>1
  <2>3. s # NoId
    BY DEF ShowsOf
  <2>4. \A p \in Counted(plays) : rowOf[p] \in R <=> p \in P /\ Series(p) = s
    BY <1>2, <1>6, <1>7, <2>1, <2>3
  <2>5. CountedIn(plays, rowOf, R) = OfShow(P, s)
    BY <1>5, <2>4 DEF CountedIn, OfShow
  <2>6. Watched(R) = Minutes(CountedIn(plays, rowOf, R))
    BY <1>1, <2>2, RollSums
  <2>7. QED
    BY <2>1, <2>5, <2>6
<1>10. QED
  BY <1>8, <1>9

\* By the rows of the watch tables it has them too.
LEMMA ShowDaysAre ==
    ASSUME NEW plays, PlaysOK(plays), InFull(plays), NEW u, NEW c,
           NEW P, P = PlaysSince(plays, u, c), NEW E, E = ShowDays(plays, u, c)
    PROVE  /\ {r.series : r \in E} = ShowsOf(P)
           /\ \A s \in ShowsOf(P) : WatchedOf({r \in E : r.series = s}) = Minutes(OfShow(P, s))
<1>1. PICK rowOf : rowOf = DailyOf(plays)
  OBVIOUS
<1>2. \A p \in Counted(plays) : /\ rowOf[p] \in Daily(plays) /\ rowOf[p].series = Series(p)
                                /\ rowOf[p].scope = About[p.item].scope
                                /\ rowOf[p].user = p.user /\ rowOf[p].day = Day(p)
  BY <1>1, DailyIs, RowsInFull
<1>3. \A r \in Daily(plays) : \E p \in Counted(plays) : rowOf[p] = r
  BY <1>1, DailyIs
<1>4. E = {r \in Daily(plays) : r.day >= c /\ r.user = u /\ r.scope = "episode" /\ r.series # NoId}
  BY DEF ShowDays
<1>5. \A p : p \in P <=> p \in Counted(plays) /\ p.user = u /\ Day(p) >= c
  BY DEF PlaysSince
<1>6. \A p \in Counted(plays) : Series(p) # NoId => About[p.item].scope = "episode"
  BY CountedIs, ShowsHaveEpisodes
<1>7. \A p \in Counted(plays) : rowOf[p] \in E <=> p \in P /\ Series(p) # NoId
  BY <1>2, <1>4, <1>5, <1>6
<1>8. {r.series : r \in E} = ShowsOf(P)
  <2>1. ASSUME NEW r \in E PROVE r.series \in ShowsOf(P)
    <3>1. PICK p \in Counted(plays) : rowOf[p] = r
      BY <1>3, <1>4
    <3>2. p \in P /\ Series(p) # NoId /\ r.series = Series(p)
      BY <1>2, <1>7, <3>1
    <3>3. QED
      BY <3>2 DEF ShowsOf
  <2>2. ASSUME NEW s \in ShowsOf(P) PROVE \E r \in E : r.series = s
    <3>1. PICK p \in P : Series(p) = s /\ s # NoId
      BY DEF ShowsOf
    <3>2. rowOf[p] \in E /\ rowOf[p].series = s
      BY <1>2, <1>5, <1>7, <3>1
    <3>3. QED
      BY <3>2
  <2>3. QED
    BY <2>1, <2>2
<1>9. ASSUME NEW s \in ShowsOf(P)
      PROVE  WatchedOf({r \in E : r.series = s}) = Minutes(OfShow(P, s))
  <2>1. PICK R : R = {r \in E : r.series = s}
    OBVIOUS
  <2>2. R \subseteq Daily(plays)
    BY <1>4, <2>1
  <2>3. s # NoId
    BY DEF ShowsOf
  <2>4. \A p \in Counted(plays) : rowOf[p] \in R <=> p \in P /\ Series(p) = s
    BY <1>2, <1>7, <2>1, <2>3
  <2>5. CountedIn(plays, rowOf, R) = OfShow(P, s)
    BY <1>5, <2>4 DEF CountedIn, OfShow
  <2>6. WatchedOf(R) = Minutes(CountedIn(plays, rowOf, R))
    BY <1>1, <2>2, DailySums
  <2>7. QED
    BY <2>1, <2>5, <2>6
<1>10. QED
  BY <1>8, <1>9

\* The show of a profile has the most minutes.
LEMMA ShowIs ==
    ASSUME NEW plays, PlaysOK(plays), InFull(plays), NEW u, NEW c,
           NEW P, P = PlaysSince(plays, u, c), NEW R, R = RowsSince(plays, u, c)
    PROVE  SummaryRow(R).show.watched = BestOf(Hours(P))
<1>1. PICK E : E = ShowRows(plays, u, c)
  OBVIOUS
<1>2. E = {r \in R : r.facts.scope = "episode" /\ r.facts.series # NoId}
  BY <1>1 DEF ShowRows
<1>3. /\ {r.facts.series : r \in E} = ShowsOf(P)
      /\ \A s \in ShowsOf(P) :
             Watched({r \in E : r.facts.series = s}) = Minutes(OfShow(P, s))
  BY <1>1, ShowRowsAre
<1>4. PICK shows : shows = {[series |-> s, watched |-> Watched({r \in E : r.facts.series = s})]
                                : s \in {r.facts.series : r \in E}}
  OBVIOUS
<1>5. SummaryRow(R).show = IF shows = {} THEN NoShow
                           ELSE CHOOSE s \in shows : \A t \in shows :
                                    \/ s.watched > t.watched
                                    \/ s.watched = t.watched /\ s.series <= t.series
  BY <1>2, <1>4 DEF SummaryRow
<1>6. shows = {[series |-> s, watched |-> Minutes(OfShow(P, s))] : s \in ShowsOf(P)}
  BY <1>3, <1>4
<1>7. PICK H : H = Hours(P)
  OBVIOUS
<1>8. P \subseteq Reports /\ IsFiniteSet(P)
  BY PlaysSinceIs
<1>9. IsFiniteSet(H) /\ H \subseteq Nat /\ IsFiniteSet(ShowsOf(P)) /\ ShowsOf(P) \subseteq Nat
  BY <1>7, <1>8, HoursAre
<1>10. H = {Minutes(OfShow(P, s)) : s \in ShowsOf(P)}
  BY <1>7 DEF Hours
<1>11. /\ \A t \in shows : t.watched \in H /\ t.series \in Nat
       /\ \A h \in H : \E t \in shows : t.watched = h
  <2>1. ASSUME NEW t \in shows PROVE t.watched \in H /\ t.series \in Nat
    <3>1. PICK s \in ShowsOf(P) : t = [series |-> s, watched |-> Minutes(OfShow(P, s))]
      BY <1>6
    <3>2. s \in Nat
      BY <1>9
    <3>3. QED
      BY <1>10, <3>1, <3>2
  <2>2. ASSUME NEW h \in H PROVE \E t \in shows : t.watched = h
    <3>1. PICK s \in ShowsOf(P) : h = Minutes(OfShow(P, s))
      BY <1>10
    <3>2. PICK t : t = [series |-> s, watched |-> Minutes(OfShow(P, s))]
      OBVIOUS
    <3>3. t \in shows /\ t.watched = h
      BY <1>6, <3>1, <3>2
    <3>4. QED
      BY <3>3
  <2>3. QED
    BY <2>1, <2>2
<1>12. CASE shows = {}
  <2>1. H = {}
    BY <1>11, <1>12
  <2>2. BestOf(H) = -1
    <3>0. PICK m \in Int : m = -1
      OBVIOUS
    <3>1. PICK S : S = {m}
      OBVIOUS
    <3>2. IsFiniteSet(S)
      BY <3>1, FS_Singleton
    <3>3. Max(S) \in S
      BY <3>1, <3>2, GreatestNumber
    <3>4. H \union {-1} = S
      BY <2>1, <3>0, <3>1
    <3>5. QED
      BY <3>0, <3>1, <3>3, <3>4 DEF BestOf
  <2>3. QED
    BY <1>5, <1>7, <1>12, <2>2 DEF NoShow
<1>13. CASE shows # {}
  <2>1. IsFiniteSet(shows)
    <3>1. PICK h : h = [s \in ShowsOf(P) |-> [series |-> s, watched |-> Minutes(OfShow(P, s))]]
      OBVIOUS
    <3>2. (\A s \in ShowsOf(P) : h[s] \in shows) /\ \A t \in shows : \E s \in ShowsOf(P) : h[s] = t
      BY <1>6, <3>1
    <3>3. QED
      BY <1>9, <3>2, FiniteImage
  <2>2. PICK Up : Up = [x \in shows |-> {y \in shows : \/ y.watched > x.watched
                                                       \/ /\ y.watched = x.watched
                                                          /\ y.series < x.series}]
    OBVIOUS
  <2>3. \A t \in shows : t.watched \in Nat /\ t.series \in Nat
    BY <1>9, <1>11
  <2>4. \A x \in shows : Up[x] \subseteq shows /\ x \notin Up[x]
    BY <2>2, <2>3
  <2>5. ASSUME NEW x \in shows, NEW y \in Up[x] PROVE Up[y] \subseteq Up[x]
    <3>1. y \in shows
      BY <2>4, <2>5
    <3>2. ASSUME NEW z \in Up[y] PROVE z \in Up[x]
      <4>1. z \in shows
        BY <2>4, <3>1, <3>2
      <4>2. /\ x.watched \in Nat /\ y.watched \in Nat /\ z.watched \in Nat
            /\ x.series \in Nat /\ y.series \in Nat /\ z.series \in Nat
        BY <2>3, <3>1, <4>1
      <4>3. QED
        BY <2>2, <2>5, <3>1, <3>2, <4>1, <4>2
    <3>3. QED
      BY <3>2
  <2>6. PICK x \in shows : Up[x] = {}
    BY <1>13, <2>1, <2>4, <2>5, OneIsFirst
  <2>7. \A t \in shows : x.watched > t.watched \/ (x.watched = t.watched /\ x.series <= t.series)
    <3>1. TAKE t \in shows
    <3>2. t \notin Up[x]
      BY <2>6
    <3>3. ~(t.watched > x.watched \/ (t.watched = x.watched /\ t.series < x.series))
      BY <2>2, <3>2
    <3>4. QED
      BY <2>3, <3>3
  <2>8. PICK s : s = SummaryRow(R).show
    OBVIOUS
  <2>9. s \in shows /\ \A t \in shows :
            s.watched > t.watched \/ (s.watched = t.watched /\ s.series <= t.series)
    BY <1>5, <1>13, <2>7, <2>8
  <2>10. \A t \in shows : s.watched >= t.watched
    BY <2>3, <2>9
  <2>11. s.watched \in H /\ \A h \in H : s.watched >= h
    BY <1>11, <2>9, <2>10
  <2>12. QED
    BY <1>7, <1>9, <2>8, <2>11, FirstIsBest
<1>14. QED
  BY <1>12, <1>13

\* The list of Watch Stats has the show with the most minutes.
HoursIn(list) == {s.watched : s \in list}

\* The first series of Watch Stats has the most minutes of all shows.
LEMMA TopSeriesIs ==
    ASSUME NEW plays, PlaysOK(plays), InFull(plays), NEW u, u # NoId, NEW rng,
           NEW P, P = PlaysSince(plays, u, DayCutoff(rng, today)),
           NEW top, top = HoursIn(Stats(Daily(plays), u, Whole, rng).topSeries)
    PROVE  BestOf(top) = BestOf(Hours(P))
<1>1. PICK c, E : c = DayCutoff(rng, today) /\ E = ShowDays(plays, u, c)
  OBVIOUS
<1>2. PICK list : list = Stats(Daily(plays), u, Whole, rng).topSeries
  OBVIOUS
<1>3. list = Top(E, "series")
  <2>1. PICK inRange, scoped, episodes, shows :
            /\ inRange = {r \in Daily(plays) : r.day >= DayCutoff(rng, today)
                                                  /\ (Whole = Whole \/ r.library = Whole)}
            /\ scoped = {r \in inRange : u = NoId \/ r.user = u}
            /\ episodes = {r \in scoped : r.scope = "episode"}
            /\ shows = {r \in episodes : r.series # NoId}
    OBVIOUS
  <2>2. list = Top(shows, "series")
    BY <1>2, <2>1 DEF Stats, ReadWatchStats
  <2>3. shows = E
    BY <1>1, <2>1 DEF ShowDays
  <2>4. QED
    BY <2>2, <2>3
<1>4. /\ {r.series : r \in E} = ShowsOf(P)
      /\ \A s \in ShowsOf(P) : WatchedOf({r \in E : r.series = s}) = Minutes(OfShow(P, s))
  BY <1>1, ShowDaysAre
<1>5. PICK rows : rows = {[id |-> i, watched |-> WatchedOf({r \in E : r["series"] = i}),
                           plays |-> PlaysOf({r \in E : r["series"] = i})]
                              : i \in {r["series"] : r \in E}}
  OBVIOUS
<1>6. list = KeptOf(WatchTopN, rows, "watched", "id")
  BY <1>3, <1>5 DEF Top, Best, KeptOf, Above
<1>7. PICK row : row = [s \in ShowsOf(P) |-> [id |-> s, watched |-> Minutes(OfShow(P, s)),
                                              plays |-> PlaysOf({r \in E : r["series"] = s})]]
  OBVIOUS
<1>8. (\A s \in ShowsOf(P) : row[s] \in rows) /\ \A t \in rows : \E s \in ShowsOf(P) : row[s] = t
  <2>1. {r["series"] : r \in E} = ShowsOf(P)
    BY <1>4
  <2>2. \A s \in ShowsOf(P) : {r \in E : r["series"] = s} = {r \in E : r.series = s}
    OBVIOUS
  <2>3. \A s \in ShowsOf(P) : WatchedOf({r \in E : r["series"] = s}) = Minutes(OfShow(P, s))
    BY <1>4, <2>2
  <2>4. rows = {row[s] : s \in ShowsOf(P)}
    BY <1>5, <1>7, <2>1, <2>3
  <2>5. QED
    BY <2>4
<1>9. PICK H : H = Hours(P)
  OBVIOUS
<1>10. P \subseteq Reports /\ IsFiniteSet(P)
  BY PlaysSinceIs
<1>11. IsFiniteSet(H) /\ H \subseteq Nat /\ IsFiniteSet(ShowsOf(P)) /\ ShowsOf(P) \subseteq Nat
  BY <1>9, <1>10, HoursAre
<1>12. H = {Minutes(OfShow(P, s)) : s \in ShowsOf(P)}
  BY <1>9 DEF Hours
<1>13. \A t \in rows : t["watched"] \in H /\ t["watched"] \in Nat /\ t["id"] \in Nat
  <2>1. TAKE t \in rows
  <2>2. PICK s \in ShowsOf(P) : t = row[s]
    BY <1>8
  <2>3. t["watched"] = Minutes(OfShow(P, s)) /\ t["id"] = s
    BY <1>7, <2>2
  <2>4. QED
    BY <1>11, <1>12, <2>3
<1>14. \A h \in H : \E t \in rows : t["watched"] = h
  <2>1. TAKE h \in H
  <2>2. PICK s \in ShowsOf(P) : h = Minutes(OfShow(P, s))
    BY <1>12
  <2>3. row[s] \in rows /\ row[s]["watched"] = h
    BY <1>7, <1>8, <2>2
  <2>4. QED
    BY <2>3
<1>15. IsFiniteSet(rows)
  BY <1>8, <1>11, FiniteImage
<1>16. WatchTopN \in Nat \ {0}
  BY WatchStatsAssumption
<1>17. \A t \in rows : \E k \in list : k["watched"] >= t["watched"]
  BY <1>6, <1>13, <1>15, <1>16, SomeoneIsKept
<1>18. list \subseteq rows
  BY <1>6 DEF KeptOf
<1>19. top = {k["watched"] : k \in list}
  BY <1>2 DEF HoursIn
<1>20. top \subseteq H
  BY <1>13, <1>18, <1>19
<1>21. \A h \in H : \E k \in top : k >= h
  BY <1>14, <1>17, <1>19
<1>22. QED
  BY <1>9, <1>11, <1>20, <1>21, SameBest

\* The caps only leave rows out.
LEMMA CapsAreSubsets ==
    ASSUME NEW rows
    PROVE  CappedPeopleRows(rows) \subseteq rows /\ CappedTopItemRows(rows) \subseteq rows
<1>1. \A S, n, metrics, id : TopUnion(S, n, metrics, id) \subseteq S
  BY DEF TopUnion, Best
<1>2. CappedPeopleRows(rows) \subseteq rows
  <2>1. PICK top : top = [g \in {<<x.user, x.kind>> : x \in rows} |->
            TopUnion({x \in rows : <<x.user, x.kind>> = g}, PeopleTopN, {"watched", "titles"}, "person")]
    OBVIOUS
  <2>2. CappedPeopleRows(rows) = UNION {top[g] : g \in {<<x.user, x.kind>> : x \in rows}}
    BY <2>1 DEF CappedPeopleRows
  <2>3. ASSUME NEW g \in {<<x.user, x.kind>> : x \in rows} PROVE top[g] \subseteq rows
    <3>1. top[g] \subseteq {x \in rows : <<x.user, x.kind>> = g}
      BY <1>1, <2>1
    <3>2. QED
      BY <3>1
  <2>4. QED
    BY <2>2, <2>3
<1>3. CappedTopItemRows(rows) \subseteq rows
  <2>1. PICK top : top = [g \in {<<x.user, x.scope>> : x \in rows} |->
            TopUnion({x \in rows : <<x.user, x.scope>> = g}, PeopleTopN, {"watched", "plays"}, "item")]
    OBVIOUS
  <2>2. CappedTopItemRows(rows) = UNION {top[g] : g \in {<<x.user, x.scope>> : x \in rows}}
    BY <2>1 DEF CappedTopItemRows
  <2>3. ASSUME NEW g \in {<<x.user, x.scope>> : x \in rows} PROVE top[g] \subseteq rows
    <3>1. top[g] \subseteq {x \in rows : <<x.user, x.scope>> = g}
      BY <1>1, <2>1
    <3>2. QED
      BY <3>1
  <2>4. QED
    BY <2>2, <2>3
<1>4. QED
  BY <1>2, <1>3

\* A set with an element or more is not empty.
LEMMA ManyAreSome ==
    ASSUME NEW n, n \in Nat \ {0}, NEW G, Cardinality(G) >= n
    PROVE  G # {}
<1>1. Cardinality({}) = 0
  BY FS_EmptySet
<1>2. QED
  BY <1>1

\* The chart has the show with the most minutes.
LEMMA ChartIs ==
    ASSUME NEW plays, PlaysOK(plays), InFull(plays), NEW u, NEW c,
           NEW P, P = PlaysSince(plays, u, c),
           NEW rows, rows = TopItemRows(Since(plays, c)), NEW keep, keep = CappedTopItemRows(rows),
           NEW chart, chart = {r.watched : r \in {i \in keep : i.user = u /\ i.scope = "series"}}
    PROVE  BestOf(chart) = BestOf(Hours(P))
<1>1. PICK S : S = Since(plays, c)
  OBVIOUS
<1>2. S \subseteq Reports /\ IsFiniteSet(S) /\ \A p : p \in S <=> p \in Counted(plays) /\ Day(p) >= c
  BY <1>1, SinceIs DEF Since
<1>3. \A p : p \in P <=> p \in S /\ p.user = u
  BY <1>2 DEF PlaysSince
<1>4. IsFiniteSet(rows) /\ \A r \in rows : r.watched \in Nat /\ r.plays \in Nat /\ r.item \in Nat
  BY <1>1, <1>2, TopItemRowsAre
<1>5. PICK K, of : /\ K = UNION {TopItemKeys(p) : p \in S}
                   /\ of = [k \in K |-> {p \in S : k \in TopItemKeys(p)}]
  OBVIOUS
<1>6. rows = {AccumulateTopItem(k, of[k]) : k \in K}
  BY <1>1, <1>5 DEF TopItemRows
<1>7. \A k : k \in K <=> \E p \in S : k \in TopItemKeys(p)
  BY <1>5, Zenon
<1>8. ASSUME NEW s, NEW p \in S
      PROVE  <<u, "series", s>> \in TopItemKeys(p) <=> p.user = u /\ Series(p) = s /\ s # NoId
  <2>1. About[p.item].scope # "series"
    BY <1>2, FactsAre
  <2>2. QED
    BY <2>1 DEF TopItemKeys
<1>9. PICK H : H = Hours(P)
  OBVIOUS
<1>10. P \subseteq Reports /\ IsFiniteSet(P)
  BY PlaysSinceIs
<1>11. IsFiniteSet(H) /\ H \subseteq Nat
  BY <1>9, <1>10, HoursAre
<1>12. H = {Minutes(OfShow(P, s)) : s \in ShowsOf(P)}
  BY <1>9 DEF Hours
<1>13. PICK shows : shows = {i \in rows : i.user = u /\ i.scope = "series"}
  OBVIOUS
<1>14. \A s \in ShowsOf(P) : <<u, "series", s>> \in K /\ of[<<u, "series", s>>] = OfShow(P, s)
  <2>1. TAKE s \in ShowsOf(P)
  <2>2. PICK p \in P : Series(p) = s /\ s # NoId
    BY DEF ShowsOf
  <2>3. <<u, "series", s>> \in K
    BY <1>3, <1>7, <1>8, <2>2
  <2>4. of[<<u, "series", s>>] = {q \in S : <<u, "series", s>> \in TopItemKeys(q)}
    BY <1>5, <2>3
  <2>5. {q \in S : <<u, "series", s>> \in TopItemKeys(q)} = OfShow(P, s)
    BY <1>3, <1>8, <2>2 DEF OfShow
  <2>6. QED
    BY <2>3, <2>4, <2>5
<1>15. ASSUME NEW r \in shows PROVE r.watched \in H
  <2>1. PICK k \in K : r = AccumulateTopItem(k, of[k])
    BY <1>6, <1>13
  <2>2. r.user = k[1] /\ r.scope = k[2] /\ r.watched = Minutes(of[k])
    BY <2>1 DEF AccumulateTopItem
  <2>3. k[1] = u /\ k[2] = "series"
    BY <1>13, <2>2
  <2>4. PICK p \in S : k \in TopItemKeys(p)
    BY <1>7
  <2>5. k = <<p.user, About[p.item].scope, p.item>> \/ (Series(p) # NoId /\ k = <<p.user, "series", Series(p)>>)
    BY <2>4 DEF TopItemKeys
  <2>6. About[p.item].scope # "series"
    BY <1>2, FactsAre
  <2>7. Series(p) # NoId /\ k = <<u, "series", Series(p)>> /\ p.user = u
    BY <2>3, <2>5, <2>6
  <2>8. Series(p) \in ShowsOf(P)
    BY <1>3, <2>7 DEF ShowsOf
  <2>9. QED
    BY <1>12, <1>14, <2>2, <2>7, <2>8
<1>16. ASSUME NEW h \in H PROVE \E r \in shows : r.watched = h
  <2>1. PICK s \in ShowsOf(P) : h = Minutes(OfShow(P, s))
    BY <1>12
  <2>2. PICK k, r : k = <<u, "series", s>> /\ r = AccumulateTopItem(k, of[k])
    OBVIOUS
  <2>3. k \in K /\ of[k] = OfShow(P, s)
    BY <1>14, <2>2
  <2>4. r \in rows /\ r.user = u /\ r.scope = "series" /\ r.watched = Minutes(of[k])
    BY <1>6, <2>2, <2>3 DEF AccumulateTopItem
  <2>5. QED
    BY <1>13, <2>1, <2>3, <2>4
<1>17. keep \subseteq rows
  BY CapsAreSubsets
<1>18. ASSUME NEW r \in shows
       PROVE  \E k \in keep : k.user = u /\ k.scope = "series" /\ k.watched >= r.watched
  <2>0. r \in rows /\ r.user = u /\ r.scope = "series" /\ r.watched \in Nat
    BY <1>4, <1>13
  <2>1. CASE r \in keep
    BY <2>0, <2>1
  <2>2. CASE r \notin keep
    <3>1. PICK group, m : /\ group = {x \in keep : x.user = r.user /\ x.scope = r.scope}
                          /\ m = "watched"
      OBVIOUS
    <3>2. r \in rows \ keep /\ m \in {"watched", "plays"}
      BY <2>0, <2>2, <3>1
    <3>3. Beats(group, r, m)
      BY <1>4, <3>1, <3>2, TopItemsAreCapped
    <3>4. PICK G : G = {k \in group : k[m] >= r[m]}
      OBVIOUS
    <3>5. Cardinality(G) >= PeopleTopN
      BY <3>3, <3>4 DEF Beats
    <3>6. G # {}
      BY <3>5, ManyAreSome, PeopleAssumption, Zenon
    <3>7. PICK k \in group : k[m] >= r[m]
      BY <3>4, <3>6
    <3>8. k \in keep /\ k.user = u /\ k.scope = "series"
      BY <2>0, <3>1
    <3>9. k.watched >= r.watched
      BY <3>1, <3>7
    <3>10. QED
      BY <3>8, <3>9
  <2>3. QED
    BY <2>1, <2>2
<1>19. chart \subseteq H
  <2>1. \A r \in keep : r.user = u /\ r.scope = "series" => r \in shows
    BY <1>13, <1>17
  <2>2. QED
    BY <1>15, <2>1
<1>20. ASSUME NEW h \in H PROVE \E k \in chart : k >= h
  <2>1. PICK r \in shows : r.watched = h
    BY <1>16
  <2>2. PICK k \in keep : k.user = u /\ k.scope = "series" /\ k.watched >= r.watched
    BY <1>18
  <2>3. k.watched \in chart
    BY <2>2
  <2>4. QED
    BY <2>1, <2>2, <2>3
<1>21. QED
  BY <1>9, <1>11, <1>19, <1>20, SameBest

\* What is counted of some of the plays is no more than of all of them.
LEMMA FewerPlaysCountLess ==
    ASSUME NEW P, P \subseteq Reports, IsFiniteSet(P), NEW S, S \subseteq P
    PROVE  /\ S \subseteq Reports /\ IsFiniteSet(S)
           /\ Minutes(S) <= Minutes(P) /\ Cardinality(S) <= Cardinality(P)
           /\ Cardinality(TitlesOf(S)) <= Cardinality(TitlesOf(P))
<1>1. S \subseteq Reports /\ IsFiniteSet(S) /\ Cardinality(S) <= Cardinality(P)
  BY FS_Subset
<1>2. Minutes(S) <= Minutes(P)
  <2>1. \A q \in P : DurOf[q] \in Nat
    BY PlayIs DEF DurOf
  <2>2. SumFunctionOnSet(DurOf, S) <= SumFunctionOnSet(DurOf, P)
    BY <2>1, SumOfSubset
  <2>3. QED
    BY <1>1, <2>2, MinutesAre
<1>3. Cardinality(TitlesOf(S)) <= Cardinality(TitlesOf(P))
  <2>1. PICK h : h = [p \in P |-> TitleKey(p)]
    OBVIOUS
  <2>2. (\A p \in P : h[p] \in TitlesOf(P)) /\ (\A k \in TitlesOf(P) : \E p \in P : h[p] = k)
    BY <2>1 DEF TitlesOf
  <2>3. IsFiniteSet(TitlesOf(P))
    BY <2>2, FiniteImage
  <2>4. TitlesOf(S) \subseteq TitlesOf(P)
    BY DEF TitlesOf
  <2>5. QED
    BY <2>3, <2>4, FS_Subset
<1>4. QED
  BY <1>1, <1>2, <1>3

\* A row of the chart counts some of its user's plays, and of these some that
\* the user has ticked as played.
LEMMA PersonIs ==
    ASSUME NEW plays, PlaysOK(plays), NEW c, NEW r \in PeopleRows(Since(plays, c))
    PROVE  \E S \in SUBSET PlaysSince(plays, r.user, c) :
               /\ r.watched = Minutes(S) /\ r.plays = Cardinality(S)
               /\ r.titles = Cardinality(TitlesOf(S))
               /\ \E T \in SUBSET S :
                      r.watchedPlayed = Minutes(T) /\ r.titlesPlayed = Cardinality(TitlesOf(T))
<1>1. PICK P : P = Since(plays, c)
  OBVIOUS
<1>2. PICK k : r = PersonRow(k, {p \in P : p.user = k[1] /\ <<k[2], k[3]>> \in ForEvent(p)})
  BY <1>1 DEF PeopleRows
<1>3. PICK S : S = {p \in P : p.user = k[1] /\ <<k[2], k[3]>> \in ForEvent(p)}
  OBVIOUS
<1>4. PICK T : T = {p \in S : IsPlayed(p)}
  OBVIOUS
<1>5. /\ r.user = k[1] /\ r.watched = Minutes(S) /\ r.plays = Cardinality(S)
      /\ r.titles = Cardinality(TitlesOf(S))
      /\ r.watchedPlayed = Minutes(T) /\ r.titlesPlayed = Cardinality(TitlesOf(T))
  BY <1>2, <1>3, <1>4 DEF PersonRow, TitlesOf
<1>6. S \subseteq PlaysSince(plays, r.user, c)
  BY <1>1, <1>3, <1>5 DEF Since, PlaysSince
<1>7. T \subseteq S
  BY <1>4
<1>8. QED
  BY <1>5, <1>6, <1>7

\* A profile counts every title: a film, or the show of an episode.
LEMMA TitlesAre ==
    ASSUME NEW plays, PlaysOK(plays), InFull(plays), NEW u, NEW c,
           NEW P, P = PlaysSince(plays, u, c), NEW R, R = RowsSince(plays, u, c)
    PROVE  SummaryRow(R).titles \in Nat /\ Cardinality(TitlesOf(P)) <= SummaryRow(R).titles
<1>1. P \subseteq Reports /\ IsFiniteSet(P) /\ P \subseteq Counted(plays) /\ P \subseteq plays
  BY PlaysSinceIs DEF PlaysSince, Counted
<1>2. R \subseteq RollDaily(plays) /\ IsFiniteSet(R)
  BY RowsSinceSum DEF RowsOK
<1>3. PICK films, shows : /\ films = {r.item : r \in {x \in R : x.facts.scope = "movie"}}
                          /\ shows = {r.facts.series : r \in ShowRows(plays, u, c)}
  OBVIOUS
<1>4. SummaryRow(R).titles = Cardinality(films) + Cardinality(shows)
  BY <1>3 DEF SummaryRow, ShowRows
<1>5. IsFiniteSet(films)
  <2>1. PICK some : some = {x \in R : x.facts.scope = "movie"}
    OBVIOUS
  <2>2. IsFiniteSet(some)
    BY <1>2, <2>1, FS_Subset
  <2>3. PICK h : h = [x \in some |-> x.item]
    OBVIOUS
  <2>4. (\A x \in some : h[x] \in films) /\ (\A i \in films : \E x \in some : h[x] = i)
    BY <1>3, <2>1, <2>3
  <2>5. QED
    BY <2>2, <2>4, FiniteImage
<1>6. shows = ShowsOf(P)
  BY <1>3, ShowRowsAre
<1>7. IsFiniteSet(shows)
  BY <1>1, <1>6, HoursAre
<1>8. ASSUME NEW p \in P, Series(p) = NoId PROVE p.item \in films
  <2>1. ~IsEpisode(p)
    BY <1>1, <1>8 DEF InFull
  <2>2. About[p.item].scope = "movie"
    BY <1>1, <2>1, PlayIs, PlaysAssumption DEF IsEpisode
  <2>3. PICK r : r = RollOf(plays)[p]
    OBVIOUS
  <2>4. r \in RollDaily(plays) /\ r.user = p.user /\ r.item = p.item /\ r.day = Day(p)
    BY <1>1, <2>3, RollIs
  <2>5. r.facts.scope = "movie"
    BY <1>1, <2>2, <2>3, RowsInFull
  <2>6. p.user = u /\ Day(p) >= c
    BY DEF PlaysSince
  <2>7. r \in R
    BY <2>4, <2>6 DEF RowsSince, FilterSince, FilterUser
  <2>8. QED
    BY <1>3, <2>4, <2>5, <2>7
<1>9. PICK F, G : F = {<<"item", i>> : i \in films} /\ G = {<<"series", s>> : s \in shows}
  OBVIOUS
<1>10. IsFiniteSet(F) /\ Cardinality(F) <= Cardinality(films)
  <2>1. PICK h : h = [i \in films |-> <<"item", i>>]
    OBVIOUS
  <2>2. (\A i \in films : h[i] \in F) /\ (\A k \in F : \E i \in films : h[i] = k)
    BY <1>9, <2>1
  <2>3. QED
    BY <1>5, <2>2, FiniteImage
<1>11. IsFiniteSet(G) /\ Cardinality(G) <= Cardinality(shows)
  <2>1. PICK h : h = [s \in shows |-> <<"series", s>>]
    OBVIOUS
  <2>2. (\A s \in shows : h[s] \in G) /\ (\A k \in G : \E s \in shows : h[s] = k)
    BY <1>9, <2>1
  <2>3. QED
    BY <1>7, <2>2, FiniteImage
<1>12. TitlesOf(P) \subseteq F \union G
  <2>1. ASSUME NEW p \in P PROVE TitleKey(p) \in F \union G
    <3>1. CASE Series(p) = NoId
      BY <1>8, <1>9, <3>1 DEF TitleKey
    <3>2. CASE Series(p) # NoId
      BY <1>6, <1>9, <3>2 DEF TitleKey, ShowsOf
    <3>3. QED
      BY <3>1, <3>2
  <2>2. QED
    BY <2>1 DEF TitlesOf
<1>13. Cardinality(TitlesOf(P)) <= Cardinality(F) + Cardinality(G)
  <2>1. IsFiniteSet(F \union G)
        /\ Cardinality(F \union G) = Cardinality(F) + Cardinality(G) - Cardinality(F \intersect G)
    BY <1>10, <1>11, FS_Union
  <2>2. IsFiniteSet(F \intersect G)
    BY <1>10, FS_Intersection
  <2>3. /\ Cardinality(F) \in Nat /\ Cardinality(G) \in Nat /\ Cardinality(F \intersect G) \in Nat
    BY <1>10, <1>11, <2>2, FS_CardinalityType
  <2>4. Cardinality(TitlesOf(P)) <= Cardinality(F \union G) /\ Cardinality(TitlesOf(P)) \in Nat
    BY <1>1, <1>12, <2>1, FS_Subset, TitlesAreNat
  <2>5. QED
    BY <2>1, <2>3, <2>4
<1>14. QED
  <2>1. /\ Cardinality(F) \in Nat /\ Cardinality(G) \in Nat /\ Cardinality(films) \in Nat
        /\ Cardinality(shows) \in Nat /\ Cardinality(TitlesOf(P)) \in Nat
    BY <1>1, <1>5, <1>7, <1>10, <1>11, FS_CardinalityType, TitlesAreNat
  <2>2. QED
    BY <1>4, <1>10, <1>11, <1>13, <2>1

\* The three sums of a show, made from the watch table, from the rows of the
\* profile and from the plays, are of the same plays, and so have the same
\* best; a row of the chart is of some of the plays that the profile sums.
THEOREM TheChartsAgree == PagesSpec => []ChartsAgree
<1>1. ASSUME PagesInv, SameRun, profiles.day = today, InFull(watch),
             NEW u \in Users, NEW rng \in Ranges,
             NEW top, top = {s.watched : s \in Stats(Daily(watch), u, Whole, rng).topSeries},
             NEW chart, chart = {r.watched : r \in {i \in Charts(rng).items :
                                                        i.user = u /\ i.scope = "series"}}
      PROVE  /\ BestOf(top) = ReadProfileSummary(Tables(Whole), u, rng).show.watched
             /\ BestOf(chart) = BestOf(top)
  <2>1. PlaysOK(watch) /\ profiles.plays = watch /\ u # NoId
    BY <1>1 DEF PagesInv, PagesTypeOK, PlaysOK, SameRun, Users
  <2>2. PICK c : c = RangeCutoff(rng, profiles.day)
    OBVIOUS
  <2>3. c = DayCutoff(rng, today)
    BY <1>1, <2>2 DEF RangeCutoff, DayCutoff
  <2>4. PICK P, R : P = PlaysSince(watch, u, c) /\ R = RowsSince(watch, u, c)
    OBVIOUS
  <2>5. ReadProfileSummary(Tables(Whole), u, rng) = SummaryRow(R)
    <3>1. PICK t : t = Profiles(watch, profiles.day)
      OBVIOUS
    <3>2. Tables(Whole) = t
      BY <2>1, <3>1, FilteredPlaysAre DEF Tables
    <3>3. ReadProfileSummary(t, u, rng) = SummaryRow(R)
      BY <2>2, <2>4, <3>1, ProfileIs
    <3>4. QED
      BY <3>2, <3>3
  <2>6. SummaryRow(R).show.watched = BestOf(Hours(P))
    BY <1>1, <2>1, <2>4, ShowIs
  <2>7. BestOf(top) = BestOf(Hours(P))
    <3>1. P = PlaysSince(watch, u, DayCutoff(rng, today)) /\ InFull(watch)
      BY <1>1, <2>3, <2>4
    <3>2. top = HoursIn(Stats(Daily(watch), u, Whole, rng).topSeries)
      BY <1>1 DEF HoursIn
    <3>3. PlaysOK(watch) /\ u # NoId
      BY <2>1
    <3>4. QED
      BY <3>1, <3>2, <3>3, TopSeriesIs
  <2>8. BestOf(chart) = BestOf(Hours(P))
    <3>1. PICK rows, keep : rows = TopItemRows(Since(watch, c)) /\ keep = CappedTopItemRows(rows)
      OBVIOUS
    <3>2. Charts(rng).items = keep
      BY <2>1, <2>2, <3>1 DEF Charts, PeopleCharts, PeopleOf
    <3>3. chart = {r.watched : r \in {i \in keep : i.user = u /\ i.scope = "series"}}
      BY <1>1, <3>2
    <3>4. QED
      BY <1>1, <2>1, <2>4, <3>1, <3>3, ChartIs
  <2>9. QED
    BY <2>5, <2>6, <2>7, <2>8
<1>2. ASSUME PagesInv, NEW rng \in Ranges, NEW r \in Charts(rng).people,
             NEW p, p = ReadProfileSummary(Tables(Whole), r.user, rng)
      PROVE  /\ r.watched <= p.watched /\ r.plays <= p.plays
             /\ InFull(profiles.plays) => r.titles <= p.titles
             /\ r.titlesPlayed <= r.titles /\ r.watchedPlayed <= r.watched
  <2>1. PICK plays, c, u : /\ plays = profiles.plays /\ c = RangeCutoff(rng, profiles.day)
                           /\ u = r.user
    OBVIOUS
  <2>2. PlaysOK(plays)
    BY <1>2, <2>1 DEF PagesInv, PagesTypeOK, PlaysOK
  <2>3. r \in PeopleRows(Since(plays, c))
    <3>1. Charts(rng).people = CappedPeopleRows(PeopleRows(Since(plays, c)))
      BY <2>1 DEF Charts, PeopleCharts, PeopleOf
    <3>2. QED
      BY <3>1, CapsAreSubsets
  <2>4. PICK P, R : P = PlaysSince(plays, u, c) /\ R = RowsSince(plays, u, c)
    OBVIOUS
  <2>5. PICK S \in SUBSET P :
            /\ r.watched = Minutes(S) /\ r.plays = Cardinality(S)
            /\ r.titles = Cardinality(TitlesOf(S))
            /\ \E T \in SUBSET S :
                   r.watchedPlayed = Minutes(T) /\ r.titlesPlayed = Cardinality(TitlesOf(T))
    BY <2>1, <2>2, <2>3, <2>4, PersonIs
  <2>6. PICK T \in SUBSET S :
            r.watchedPlayed = Minutes(T) /\ r.titlesPlayed = Cardinality(TitlesOf(T))
    BY <2>5
  <2>7. P \subseteq Reports /\ IsFiniteSet(P)
    BY <2>2, <2>4, PlaysSinceIs
  <2>8. /\ S \subseteq Reports /\ IsFiniteSet(S)
        /\ Minutes(S) <= Minutes(P) /\ Cardinality(S) <= Cardinality(P)
        /\ Cardinality(TitlesOf(S)) <= Cardinality(TitlesOf(P))
    BY <2>5, <2>7, FewerPlaysCountLess
  <2>9. Minutes(T) <= Minutes(S) /\ Cardinality(TitlesOf(T)) <= Cardinality(TitlesOf(S))
    BY <2>6, <2>8, FewerPlaysCountLess
  <2>10. PICK t : t = Profiles(plays, profiles.day)
    OBVIOUS
  <2>11. p = ReadProfileSummary(t, u, rng)
    BY <1>2, <2>1, <2>2, <2>10, FilteredPlaysAre DEF Tables
  <2>12. p.watched = Minutes(P) /\ p.plays = Cardinality(P)
    BY <2>1, <2>2, <2>4, <2>10, <2>11, SummaryIs
  <2>13. p = SummaryRow(R)
    BY <2>1, <2>4, <2>10, <2>11, ProfileIs
  <2>14. ASSUME InFull(plays) PROVE r.titles <= p.titles
    <3>1. p.titles \in Nat /\ Cardinality(TitlesOf(P)) <= p.titles
      BY <2>2, <2>4, <2>13, <2>14, TitlesAre
    <3>2. Cardinality(TitlesOf(S)) \in Nat /\ Cardinality(TitlesOf(P)) \in Nat
      BY <2>7, <2>8, TitlesAreNat
    <3>3. QED
      BY <2>5, <2>8, <3>1, <3>2
  <2>15. QED
    BY <2>1, <2>5, <2>6, <2>8, <2>9, <2>12, <2>14
<1>3. PagesInv => ChartsAgree
  <2>1. SUFFICES ASSUME PagesInv, BetweenRuns
                 PROVE  LET t == Tables(Whole)
                            daily == Daily(watch)
                            charts == [rng \in Ranges |-> Charts(rng)]
                            best(hours) == Max(hours \union {NoShow.watched})
                        IN  /\ SameRun /\ profiles.day = today /\ InFull(watch) =>
                                   \A u \in Users, rng \in Ranges :
                                       LET top == {s.watched : s \in Stats(daily, u, Whole, rng).topSeries}
                                           chart == {r.watched : r \in {i \in charts[rng].items :
                                                                            i.user = u /\ i.scope = "series"}}
                                       IN  best(top) = ReadProfileSummary(t, u, rng).show.watched
                                           /\ best(chart) = best(top)
                            /\ \A rng \in Ranges : \A r \in charts[rng].people : r.user \in Users =>
                                   LET p == ReadProfileSummary(t, r.user, rng)
                                   IN  /\ r.watched <= p.watched /\ r.plays <= p.plays
                                       /\ InFull(profiles.plays) => r.titles <= p.titles
                                       /\ r.titlesPlayed <= r.titles /\ r.watchedPlayed <= r.watched
    BY Zenon DEF ChartsAgree
  <2> DEFINE charts == [rng \in Ranges |-> Charts(rng)]
  <2>2. \A rng \in Ranges : charts[rng] = Charts(rng)
    OBVIOUS
  <2>3. \A hours : Max(hours \union {NoShow.watched}) = BestOf(hours)
    BY DEF BestOf, NoShow
  <2> HIDE DEF charts
  <2>4. ASSUME SameRun, profiles.day = today, InFull(watch), NEW u \in Users, NEW rng \in Ranges,
               NEW top, top = {s.watched : s \in Stats(Daily(watch), u, Whole, rng).topSeries},
               NEW chart, chart = {r.watched : r \in {i \in charts[rng].items :
                                                          i.user = u /\ i.scope = "series"}}
        PROVE  /\ Max(top \union {NoShow.watched}) = ReadProfileSummary(Tables(Whole), u, rng).show.watched
               /\ Max(chart \union {NoShow.watched}) = Max(top \union {NoShow.watched})
    <3>1. chart = {r.watched : r \in {i \in Charts(rng).items : i.user = u /\ i.scope = "series"}}
      BY <2>2, <2>4
    <3>2. /\ BestOf(top) = ReadProfileSummary(Tables(Whole), u, rng).show.watched
          /\ BestOf(chart) = BestOf(top)
      BY <1>1, <2>1, <2>4, <3>1
    <3>3. QED
      BY <2>3, <3>2
  <2>5. ASSUME NEW rng \in Ranges, NEW r \in charts[rng].people,
               NEW p, p = ReadProfileSummary(Tables(Whole), r.user, rng)
        PROVE  /\ r.watched <= p.watched /\ r.plays <= p.plays
               /\ InFull(profiles.plays) => r.titles <= p.titles
               /\ r.titlesPlayed <= r.titles /\ r.watchedPlayed <= r.watched
    <3>1. r \in Charts(rng).people
      BY <2>2
    <3>2. QED
      BY <1>2, <2>1, <2>5, <3>1
  <2>6. QED
    BY <2>4, <2>5, ZenonT(40) DEF charts
<1>4. QED
  BY <1>3, PagesInvHolds, PTL
=============================================================================
