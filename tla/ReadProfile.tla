---------------------------- MODULE ReadProfile ----------------------------
(***************************************************************************)
(* What a profile page reads from the tables of one scope (ReadProfile,    *)
(* ReadProfileList, internal/store/reads_profile.go).                      *)
(***************************************************************************)
EXTENDS Profile

\* The panels of a range, of a user who may have no row in this scope.
ReadProfileSummary(t, u, rng) ==
    IF <<u, rng>> \in DOMAIN t.summary THEN t.summary[<<u, rng>>] ELSE SummaryRow({})

ReadProfileCompletion(t, u, rng) ==
    IF <<u, rng>> \in DOMAIN t.completion THEN t.completion[<<u, rng>>] ELSE CompletionRows({})

ReadProfileAbandoned(t, u, rng) ==
    IF <<u, rng>> \in DOMAIN t.abandoned THEN t.abandoned[<<u, rng>>] ELSE {}

ReadProfileTaste(t, u, rng) ==
    IF <<u, rng>> \in DOMAIN t.taste THEN t.taste[<<u, rng>>] ELSE TasteRows({})

\* The list of users shows lifetime numbers.
ReadProfileList(t, users) == [u \in users |-> ReadProfileSummary(t, u, AllTime)]

\* The entries of one dimension.
Dim(table, dim) == {k \in DOMAIN table : k[1] = dim}

\* The sum that a share is a part of.
TasteTotal(taste, dim) == SumFunction([k \in Dim(taste, dim) |-> taste[k].watched])

\* A mistake in signatureShares: an equal share is one too.
StandsOutOrEqual(delta) == delta >= 0

StandsOut(delta) == delta > 0

\* Up to three keys of whose minutes the user has a greater share than everyone
\* has, the greatest difference first.  Shares are brought to the denominator
\* TasteTotal * everyone's total.  Keys have no order here, so that a tie may
\* keep more.
SignatureShares(taste, base, dim, minPlays, minWatched) ==
    LET mine == TasteTotal(taste, dim)
        all == SumFunction([k \in Dim(base, dim) |-> base[k]])
        \* With an empty baseline every share of it is 0.
        whole == IF all = 0 THEN 1 ELSE all
        inBase(k) == IF k \in DOMAIN base THEN base[k] ELSE 0
        delta(k) == taste[k].watched * whole - inBase(k) * mine
        supported == {k \in Dim(taste, dim) :
                          taste[k].plays >= minPlays /\ taste[k].watched >= minWatched}
    IN  IF mine = 0 THEN {}
        ELSE Best(3, {k \in supported : StandsOut(delta(k))},
                  LAMBDA j, k : \/ delta(j) > delta(k)
                                \/ delta(j) = delta(k) /\ taste[j].watched > taste[k].watched)

SignatureGenres(taste, base) == SignatureShares(taste, base, "genre", 0, 0)

ProfileOf(t, u, rng) ==
    [summary |-> ReadProfileSummary(t, u, rng),
     completion |-> ReadProfileCompletion(t, u, rng),
     abandoned |-> ReadProfileAbandoned(t, u, rng),
     taste |-> ReadProfileTaste(t, u, rng),
     signature |-> SignatureGenres(ReadProfileTaste(t, u, rng), t.baseline)]
=============================================================================
