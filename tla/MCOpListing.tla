---------------------------- MODULE MCOpListing ----------------------------
(***************************************************************************)
(* Two trust anchors that report up to two of two providers each, under no *)
(* name, an empty one, several in a row, or one that sorts before or after *)
(* the identifiers.  With base 2 the rows' numbers pass two powers of it.  *)
(***************************************************************************)
EXTENDS OpListing

MCEntityId == {2, 3}
MCDisplayName == {0, 1, 4}
MCUiNames == {<<>>, <<None, 0>>, <<1, None>>, <<1, 4>>}
=============================================================================
