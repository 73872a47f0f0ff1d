------------------------------ MODULE AllPages ------------------------------
(***************************************************************************)
(* What the browser is shown, side by side: the pages made from the plays, *)
(* the art cache, the play history, the Now Playing page and the resolver  *)
(* of names.  They share no state, so a behaviour follows one of them, and *)
(* the others keep to their first state.                                   *)
(***************************************************************************)
EXTENDS ProfilePages, ArtCache, PlayHistory, PageHook, LinkResolver

VARIABLE part  \* the one that the behaviour follows

allVars == <<part, pageVars, artVars, historyVars, hookVars, linkVars>>

AllInit ==
    /\ part \in {"pages", "art", "history", "hook", "links"}
    /\ PagesInit /\ ArtInit /\ HistoryInit /\ HookInit /\ LinksInit

AllNext ==
    /\ UNCHANGED part
    /\ \/ part = "pages" /\ PagesNext
          /\ UNCHANGED <<artVars, historyVars, hookVars, linkVars>>
       \/ part = "art" /\ ArtNext
          /\ UNCHANGED <<pageVars, historyVars, hookVars, linkVars>>
       \/ part = "history" /\ HistoryNext
          /\ UNCHANGED <<pageVars, artVars, hookVars, linkVars>>
       \/ part = "hook" /\ HookNext
          /\ UNCHANGED <<pageVars, artVars, historyVars, linkVars>>
       \/ part = "links" /\ LinksNext
          /\ UNCHANGED <<pageVars, artVars, historyVars, hookVars>>

AllSpec ==
    /\ AllInit
    /\ [][AllNext]_allVars
    /\ LinksFairness

\* Every variable of every part keeps its type: a play has one row and one
\* place in the spine, a stream no more frames than the hub buffers, a wait no
\* more than the last doubling.
AllTypesOK == PagesTypeOK /\ ArtTypeOK /\ HistoryTypeOK /\ HookTypeOK /\ LinksTypeOK
=============================================================================
