--------------------------- MODULE MCBatchObjects ---------------------------
(* Two rows of one bundle, which agree on its fields or do not. *)
EXTENDS BatchObjects

MCKeyOf(r) == "k"
MCWritten == {<<"v", "v">>, <<"v", "w">>}
=============================================================================
