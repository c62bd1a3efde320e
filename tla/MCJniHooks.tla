------------------------------ MODULE MCJniHooks ------------------------------
(* Instances of JniHooks for TLC: two result types, so that the list has   *)
(* static and instance variants and NewObjectV.                             *)
EXTENDS JniHooks

TwoTypes == <<"Void", "Object">>
=============================================================================
