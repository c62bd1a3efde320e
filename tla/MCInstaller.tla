------------------------------ MODULE MCInstaller ------------------------------
(* Instances of Installer for TLC.                                          *)
EXTENDS Installer

BothPackages == <<"likeread", "maimai">>

OnePlugin == <<"haha123">>
=============================================================================
