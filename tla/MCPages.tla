------------------------------- MODULE MCPages -------------------------------
(* The values of AllPages for TLC; those of ProfilePages are MCProfilePages'. *)
EXTENDS MCProfilePages, AllPages

\* Five units hold two images and a miss, or what is kept of the oversized one
\* and a miss.
MCCosts == [kb \in Keys \X Kept |-> IF kb[2] = Miss THEN 1 ELSE IF kb[2] = Cut THEN 4 ELSE 2]

PlayKey(u, i, t) == [user |-> u, item |-> i, at |-> t]
MCPlayKeys ==
    {PlayKey("u", "a", 1), PlayKey("u", "b", 1),
     PlayKey("u", "a", 2), PlayKey("v", "a", 1)}

World(known, charted, faulty) == [known |-> known, charted |-> charted, faulty |-> faulty]
MCWorlds ==
    {World({"b", "g"}, {"a", "b", "g"}, {}),
     World({}, {"a", "b", "g"}, {"a", "server"}),
     World({"b", "g"}, {"a", "b"}, {"genres", "dim_jf_ref", "process"})}

\* The parts that a behaviour does not follow have one first state each.
MCInit ==
    /\ AllInit
    /\ part # "art" => \A k \in Keys : art[k] = Miss
    /\ part = "art" => art["item"] = "image" /\ art["film"] = "poster" /\ art["person"] = Miss
    /\ part # "hook" => hidden
    /\ part # "links" => world = CHOOSE w \in Worlds : w.faulty # {}

MCSpec == MCInit /\ [][AllNext]_allVars /\ LinksFairness
=============================================================================
