---------------------------- MODULE MCEntryTable ----------------------------
(***************************************************************************)
(* EntryTable for TLC: configurations without patch rows, with one or two, *)
(* with a row listed twice and with a row for the owner's own address.     *)
(***************************************************************************)
EXTENDS EntryTable

SomePatches == {<<>>, <<"a">>, <<"b", "a">>, <<"a", "a">>, <<"own">>}
FewPatches  == {<<>>, <<"a">>, <<"b", "own">>}
=============================================================================
