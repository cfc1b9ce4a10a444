---------------------------- MODULE MCBlockFetch -----------------------------
(***************************************************************************)
(* BlockFetch for TLC.  Blocks that lose a height are told apart from the  *)
(* one that wins by their fork; one losing fork is enough for a node to    *)
(* list two blocks of a height.                                            *)
(***************************************************************************)
EXTENDS BlockFetch, TLC

CONSTANTS e1, e2, c1, c2, win, lose

OneEndpoint == {e1}
TwoEndpoints == {e1, e2}
OneCall == {c1}
TwoCalls == {c1, c2}
TwoForks == {win, lose}

==============================================================================
