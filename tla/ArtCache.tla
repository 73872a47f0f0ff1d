------------------------------ MODULE ArtCache ------------------------------
(***************************************************************************)
(* The art proxy and its cache (internal/api/art.go).  A request looks in  *)
(* the cache, asks Jellyfin when there is nothing, and stores what it got: *)
(* three steps, between which others do the same, for the same key too.    *)
(* The mutex is held for the whole of a look and of a store.               *)
(***************************************************************************)
EXTENDS Naturals, FiniteSets, FiniteSetsExt, Sequences, SequencesExt

CONSTANTS
    Requests,  \* requests that may be under way at once
    Keys,      \* an item's image with its tag, a person by name, a user by id
    Tagged,    \* the keys that carry a tag
    Images,    \* the images Jellyfin has
    Oversized, \* those of more than 8 MB
    Cut,       \* the first 8 MB of one of them
    Miss,      \* the entry without a body: a 404
    Broken,    \* what a read that broke off got
    Costs,     \* what an entry is charged: key, body and entryOverhead
    ArtCap     \* newArtCache's capBytes

Bodies == Images \union {Miss}

\* What ReadAll makes of an answer: LimitReader ends it after 8 MB as if that
\* were all of it, without an error.
AsRead(b) == IF b \in Oversized THEN Cut ELSE b
Kept == {AsRead(b) : b \in Bodies}

ASSUME ArtAssumption ==
    /\ Tagged \subseteq Keys
    /\ Oversized \subseteq Images
    /\ Miss \notin Images /\ Broken \notin Bodies \union Kept
    /\ Costs \in [Keys \X Kept -> Nat \ {0}]
    /\ ArtCap \in Nat
    \* What is kept has 8 MB at most, and the cache 128.
    /\ \A k \in Keys, b \in Kept : Costs[k, b] <= ArtCap

VARIABLES
    art,    \* what Jellyfin has for a key
    ll,     \* the list: the entry used last in front
    m,      \* the keys of the map into the list
    bytes,
    req,    \* the requests under way
    said,   \* history: what Jellyfin has answered
    used    \* history: the keys in the order of their last use

artVars == <<art, ll, m, bytes, req, said, used>>

Cost(e) == Costs[e.key, e.body]
CostOf(entries) == SumFunction([i \in DOMAIN entries |-> Cost(entries[i])])
KeysOf(entries) == [i \in DOMAIN entries |-> entries[i].key]
Idle == [at |-> "idle"]

ArtTypeOK ==
    /\ art \in [Keys -> Bodies]
    /\ \A i \in DOMAIN ll : ll[i].key \in Keys
    /\ m \subseteq Keys
    /\ bytes \in Nat
    /\ \A r \in Requests : req[r] # Idle =>
           req[r].key \in Keys /\ req[r].at \in {"fetch", "read", "store"}

ArtInit ==
    /\ art \in [Keys -> Bodies]
    /\ ll = <<>> /\ m = {} /\ bytes = 0
    /\ req = [r \in Requests |-> Idle]
    /\ said = {} /\ used = <<>>

-----------------------------------------------------------------------------
Lists == <<ll, m, bytes>>

\* Of a person or a user the image may change; a tag has one image.
Repaint(k) ==
    /\ k \in Keys \ Tagged
    /\ \E b \in Bodies \ {art[k]} : art' = [art EXCEPT ![k] = b]
    /\ UNCHANGED <<Lists, req, said, used>>

\* Where the element is that the map has for k.
Place(k) == CHOOSE i \in DOMAIN ll : ll[i].key = k
Use(k) == used' = <<k>> \o RemoveFirst(used, k)

\* A mistake in get: the entry stays where it is.
StayInPlace(k) == ll

MoveToFront(k) == <<ll[Place(k)]>> \o RemoveAt(ll, Place(k))

Done(r) == req' = [req EXCEPT ![r] = Idle]

\* get, and the answer when it has something.
Hit(r, k) ==
    /\ req[r] = Idle /\ k \in m
    /\ ll' = MoveToFront(k) /\ Use(k)
    /\ Done(r)
    /\ UNCHANGED <<art, m, bytes, said>>

Ask(r, k) ==
    /\ req[r] = Idle /\ k \notin m
    /\ req' = [req EXCEPT ![r] = [at |-> "fetch", key |-> k]]
    /\ UNCHANGED <<art, Lists, said, used>>

\* Jellyfin answers: with 404, or with an image that is yet to be read.
Fetch(r) ==
    /\ req[r].at = "fetch"
    /\ LET k == req[r].key
       IN  /\ req' = [req EXCEPT ![r] =
                         [at |-> IF art[k] = Miss THEN "store" ELSE "read",
                          key |-> k, body |-> art[k]]]
           /\ said' = said \union {<<k, art[k]>>}
    /\ UNCHANGED <<art, Lists, used>>

\* A mistake in serveArtFrom: the error of ReadAll is passed over.
StoreBroken(r) ==
    /\ req[r].at = "read"
    /\ req' = [req EXCEPT ![r].at = "store", ![r].body = Broken]
    /\ UNCHANGED <<art, Lists, said, used>>

\* The body is read up to the limit.
Read(r) ==
    /\ req[r].at = "read"
    /\ req' = [req EXCEPT ![r] = [at |-> "store", key |-> @.key, body |-> AsRead(@.body)]]
    /\ UNCHANGED <<art, Lists, said, used>>

\* No answer, another status, or a body that breaks off: nothing is kept.
Fail(r) ==
    /\ req[r].at \in {"fetch", "read"}
    /\ Done(r)
    /\ UNCHANGED <<art, Lists, said, used>>

\* The loop that takes entries from the back until the rest fits.
Evict(entries, keys, total) ==
    LET back(n) == SubSeq(entries, n + 1, Len(entries))
        left(n) == total - CostOf(back(n))
        n == Max({0} \union {i \in 1..Len(entries) : left(i) <= ArtCap})
    IN  /\ ll' = SubSeq(entries, 1, n)
        /\ m' = keys \ ToSet(KeysOf(back(n)))
        /\ bytes' = left(n)

\* The rest of the list when e comes to the front, in e's old place or as new.
Others(e) == IF e.key \in m THEN RemoveAt(ll, Place(e.key)) ELSE ll

\* A mistake in store: an entry that is replaced is not taken off the count.
StoreAdds(e) == Evict(<<e>> \o Others(e), m \union {e.key}, bytes + Cost(e))

Store(e) ==
    Evict(<<e>> \o Others(e), m \union {e.key},
          bytes - (IF e.key \in m THEN Cost(ll[Place(e.key)]) ELSE 0) + Cost(e))

\* put or putMiss, and the answer.
Put(r) ==
    /\ req[r].at = "store"
    /\ Store([key |-> req[r].key, body |-> req[r].body])
    /\ Use(req[r].key)
    /\ Done(r)
    /\ UNCHANGED <<art, said>>

ArtNext ==
    \/ \E r \in Requests : Fetch(r) \/ Read(r) \/ Fail(r) \/ Put(r)
    \/ \E r \in Requests, k \in Keys : Hit(r, k) \/ Ask(r, k)
    \/ \E k \in Keys : Repaint(k)

ArtSpec == ArtInit /\ [][ArtNext]_artVars

-----------------------------------------------------------------------------
(***************************************************************************)
(* Properties                                                              *)
(***************************************************************************)
\* The map and the list hold the same keys, each once; the count is what the
\* entries cost together, whatever was replaced or evicted, and within the cap.
BytesAddUp ==
    /\ m = ToSet(KeysOf(ll)) /\ Cardinality(m) = Len(ll)
    /\ bytes = CostOf(ll)
    /\ bytes <= ArtCap

\* What is kept was used later than anything that is not.
KeepsTheLatest == IsPrefix(KeysOf(ll), used)

\* What is kept for a key, or about to be shown and kept, is what Jellyfin once
\* answered for that key, read to its end or to the limit: never the part that a
\* broken read got, another key's image, or an answer that never came.  For a tag
\* it is what Jellyfin has.  (Of an image beyond the limit it is the first 8 MB,
\* kept and shown as if they were the image: art.go:165.)
ArtIsJellyfins ==
    \A e \in ToSet(ll) \union {req[r] : r \in {q \in Requests : req[q].at = "store"}} :
        /\ \E b \in Bodies : <<e.key, b>> \in said /\ e.body = AsRead(b)
        /\ e.key \in Tagged => e.body = AsRead(art[e.key])
=============================================================================
