--------------------------- MODULE MCPublication ----------------------------
(* Small instances of Publication. *)
EXTENDS Publication, TLC

CONSTANTS s1, s2, c1, c2

MCSessions == {s1, s2}
MCContents == {c1, c2}
MCScripts == {<<>>, <<"publish">>, <<"prepare">>, <<"commit">>, <<"refresh">>,
              <<"baseline">>, <<"prepare", "commit">>, <<"prepare", "refresh">>,
              <<"publish", "refresh">>}
(* Enough for every command, with fewer states for the liveness run. *)
MCFewScripts == {<<"publish", "refresh">>, <<"prepare", "commit">>, <<"baseline">>}
MCSymmetry == Permutations(MCSessions)
=============================================================================
