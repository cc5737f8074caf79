------------------------------ MODULE MCMount ------------------------------
(* Constants of Mount for TLC: a file at the root, a protected file in a   *)
(* folder, and the folder itself.                                          *)
EXTENDS Mount

MCPath == {<<"a">>, <<"d", "b">>}
MCProtected == {<<"d", "b">>}
MCFolder == {<<"d">>, <<"d", "e">>}
=============================================================================
