--------------------------- MODULE AllPagesProofs ---------------------------
(***************************************************************************)
(* The parts side by side, as the run checks them: what ProfilePagesProofs *)
(* and BrowserProofs prove of each part holds of the five together.        *)
(***************************************************************************)
EXTENDS AllPages, ProfilePagesProofs, BrowserProofs

\* No part's step touches another part's variables.
LEMMA AllStep ==
    [AllNext]_allVars =>
        /\ [PagesNext]_pageVars /\ [ArtNext]_artVars /\ [HistoryNext]_historyVars
        /\ [HookNext]_hookVars /\ [LinksNext]_linkVars
<1>1. ASSUME UNCHANGED allVars
      PROVE  UNCHANGED <<pageVars, artVars, historyVars, hookVars, linkVars>>
  BY <1>1 DEF allVars
<1>2. QED
  BY <1>1 DEF AllNext

\* Each part behaves as its own specification says, so that what is proved of
\* a part holds of the five together.
THEOREM PartsKeepTheirSpecs ==
    AllSpec => PagesSpec /\ ArtSpec /\ HistorySpec /\ HookSpec /\ LinksSpec
<1>1. AllInit => PagesInit /\ ArtInit /\ HistoryInit /\ HookInit /\ LinksInit
  BY DEF AllInit
<1>2. QED
  BY <1>1, AllStep, PTL DEF AllSpec, PagesSpec, ArtSpec, HistorySpec, HookSpec, LinksSpec

\* Every variable of every part keeps its type.
THEOREM AllTypesCorrect == AllSpec => []AllTypesOK
<1>1. PagesTypeOK /\ ArtTypeOK /\ HistoryTypeOK /\ HookTypeOK /\ LinksTypeOK => AllTypesOK
  BY DEF AllTypesOK
<1>2. QED
  BY <1>1, PartsKeepTheirSpecs, PagesTypeCorrect, ArtTypeCorrect, HistoryTypeCorrect,
     HookTypeCorrect, LinksTypeCorrect, PTL
=============================================================================
