----------------------------- MODULE MCRplNames -----------------------------
(***************************************************************************)
(* Three applications; names of one to three characters, each the          *)
(* beginning of the next, of which a directory and two fit.                *)
(***************************************************************************)
EXTENDS RplNames

MCNames == {<<"a">>, <<"a", "b">>, <<"a", "b", "c">>}
=============================================================================
