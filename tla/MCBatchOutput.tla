---------------------------- MODULE MCBatchOutput ---------------------------
(***************************************************************************)
(* BatchOutput on batches of up to four records with two times: counts,    *)
(* wanted and unwanted records in every order, and deaths.  In the last    *)
(* choice of letters an allocation of kind A has a letter that is wanted.  *)
(***************************************************************************)
EXTENDS BatchOutput

KindsHere  == {<<"C", "C">>, <<"A", "N">>, <<"U", "U">>}
WantedHere == {{"C", "U", "D"}, {"C", "A", "N", "D"}, {"A", "N", "U"}, {"C", "N"}}
=============================================================================
