------------------------------- MODULE MCDexDump -------------------------------
(* Instances of DexDump for TLC: a cookie that is too short, one with a null *)
(* pointer, and one with the dex file that starts the dump.                 *)
EXTENDS DexDump

MCCookies == {<<"dex">>, <<"null", "trigger">>, <<"dex", "dex">>}
=============================================================================
